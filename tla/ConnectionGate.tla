---------------------------- MODULE ConnectionGate ----------------------------
(***************************************************************************)
(* How a phone gets in: the upgrade and pairing handlers of src/index.ts,  *)
(* the per-socket ConnectionGate (src/connection-gate.ts) and the limiter  *)
(* they share.  A handler waits before it takes an admission and must give *)
(* it back on every way out: a socket that never comes up, a proof, a      *)
(* timeout, a close.                                                       *)
(*                                                                         *)
(* A definition named X_Fault is X with a fault, kept to show that the     *)
(* properties can tell them apart; the specification does not use it.      *)
(***************************************************************************)
EXTENDS AuthRateLimiter

CONSTANTS Request,         \* upgrade and pairing requests under way at a time
          HelloTimeout,    \* AUTH_TIMEOUT_MS
          ChallengeLife,   \* AUTH_CHALLENGE_TTL_MS
          MaxConnections,  \* MAX_CLIENT_CONNECTIONS
          LastArrival,     \* bound: no request arrives, and no socket opens, later
          MaxClock         \* bound: the last instant of a run

ASSUME GateAssumption ==
    /\ IsFiniteSet(Request)
    /\ {HelloTimeout, ChallengeLife, MaxConnections, LastArrival, MaxClock} \subseteq Nat

VARIABLES clock,    \* Date.now()
          limiter,  \* authRateLimiter
          gates,    \* what each request is at: its gate, its socket
          ledger    \* history: what each source did within the windows

vars == <<clock, limiter, gates, ledger>>

\* "upgrading" counts in pendingUpgrades, a listed socket in connections.
Stage == {"none", "upgrading", "socket", "pairing"}
Idle == [stage |-> "none", source |-> "none", since |-> 0, slot |-> FALSE,
         settled |-> FALSE, authenticated |-> FALSE, closing |-> FALSE, listed |-> FALSE]

At(stage) == {r \in Request : gates[r].stage = stage}
Listed == {r \in Request : gates[r].listed}
Holding(s) == {r \in Request : gates[r].slot /\ gates[r].source = s}

NewEntry == [admitted |-> <<>>, failed |-> <<>>, banned |-> 0]

Init ==
    /\ clock = 0
    /\ limiter = NewLimiter
    /\ gates = [r \in Request |-> Idle]
    /\ ledger = [s \in Source |-> NewEntry]

-----------------------------------------------------------------------------
\* The history of a source: admissions within the window, failures since the last
\* success within theirs, and how long enough of them keep it out.

NoteAdmission(s) == ledger' = [ledger EXCEPT ![s].admitted = Append(@, clock)]

NoteResult(s, ok) ==
    LET failed == Append(Within(ledger[s].failed, FailureWindow, clock), clock)
        banned == IF Len(failed) < FailuresBeforeBlock THEN ledger[s].banned
                  ELSE clock + BlockTime
    IN  ledger' = [ledger EXCEPT ![s].failed = IF ok THEN <<>> ELSE failed,
                                 ![s].banned = IF ok THEN 0 ELSE banned]

Tick ==
    /\ clock < MaxClock
    /\ clock' = clock + 1
    /\ ledger' = [s \in Source |->
          [ledger[s] EXCEPT !.admitted = Within(@, Window, clock'),
                            !.failed = Within(@, FailureWindow, clock')]]
    /\ UNCHANGED <<limiter, gates>>

-----------------------------------------------------------------------------
\* handleUpgrade(), up to its await.
HasRoom == Cardinality(Listed) + Cardinality(At("upgrading")) < MaxConnections

UpgradeArrives(r, s) ==
    /\ clock <= LastArrival
    /\ gates[r] = Idle
    /\ HasRoom
    /\ gates' = [gates EXCEPT ![r] = [Idle EXCEPT !.stage = "upgrading", !.source = s]]
    /\ UNCHANGED <<clock, limiter, ledger>>

\* handleUpgrade(), after its await: the gate admits, and the socket comes up.
UpgradeOpens(r) ==
    LET s == gates[r].source
        visited == Visit(limiter, s, clock)
    IN  /\ clock <= LastArrival
        /\ gates[r].stage = "upgrading"
        /\ Admits(visited, s, clock)
        /\ limiter' = Admitted(visited, s, clock)
        /\ gates' = [gates EXCEPT ![r] = [@ EXCEPT !.stage = "socket", !.since = clock,
                                                   !.slot = TRUE, !.listed = TRUE]]
        /\ NoteAdmission(s)
        /\ UNCHANGED clock

\* handleUpgrade(): the gate admits, but the socket is gone (releaseIfNeverAttached).
UpgradeVanishes(r) ==
    LET s == gates[r].source
        visited == Visit(limiter, s, clock)
    IN  /\ gates[r].stage = "upgrading"
        /\ Admits(visited, s, clock)
        /\ limiter' = Release(Admitted(visited, s, clock), s)
        /\ gates' = [gates EXCEPT ![r] = Idle]
        /\ NoteAdmission(s)
        /\ UNCHANGED clock

\* handleUpgrade(): the gate does not admit.
UpgradeRefused(r) ==
    LET s == gates[r].source
        visited == Visit(limiter, s, clock)
    IN  /\ gates[r].stage = "upgrading"
        /\ ~Admits(visited, s, clock)
        /\ limiter' = visited
        /\ gates' = [gates EXCEPT ![r] = Idle]
        /\ UNCHANGED <<clock, ledger>>

-----------------------------------------------------------------------------
\* settle(): the first result of a gate gives its admission back and is recorded.
Settle_Again(r, ok) ==
    LET s == gates[r].source
        released == Release(limiter, s)
    IN  /\ limiter' = IF ok THEN RecordSuccess(released, s, clock)
                      ELSE RecordFailure(released, s, clock)
        /\ NoteResult(s, ok)
Settle(r, ok) ==
    LET s == gates[r].source
        released == Release(limiter, s)
    IN  IF gates[r].settled THEN UNCHANGED <<limiter, ledger>>
        ELSE /\ limiter' = IF ok THEN RecordSuccess(released, s, clock)
                           ELSE RecordFailure(released, s, clock)
             /\ NoteResult(s, ok)

Settled(r) == [gates[r] EXCEPT !.settled = TRUE, !.slot = FALSE]

\* authenticate(): a proof for the challenge of this gate, in time.  It is not
\* asked whether the gate settled or its socket is closing.
ProveValid(r) ==
    /\ gates[r].stage = "socket"
    /\ clock <= gates[r].since + ChallengeLife
    /\ Settle(r, TRUE)
    /\ gates' = [gates EXCEPT ![r] = [Settled(r) EXCEPT !.authenticated = TRUE]]
    /\ UNCHANGED clock

\* authenticate(): anything else; the socket is closed with 4401.
ProveInvalid(r) ==
    /\ gates[r].stage = "socket"
    /\ Settle(r, FALSE)
    /\ gates' = [gates EXCEPT ![r] = [Settled(r) EXCEPT !.closing = TRUE]]
    /\ UNCHANGED clock

\* A frame too large, of another version, or a proof without a device: the socket
\* is closed, and nothing settles before it has closed.
BadFrame(r) ==
    /\ gates[r].stage = "socket" /\ ~gates[r].authenticated /\ ~gates[r].closing
    /\ gates' = [gates EXCEPT ![r].closing = TRUE]
    /\ UNCHANGED <<clock, limiter, ledger>>

\* The hello timer.
HelloExpires_OnlyCloses(r) ==
    /\ gates[r].stage = "socket" /\ ~gates[r].authenticated /\ ~gates[r].closing
    /\ clock >= gates[r].since + HelloTimeout
    /\ gates' = [gates EXCEPT ![r].closing = TRUE]
    /\ UNCHANGED <<clock, limiter, ledger>>
HelloExpires(r) ==
    /\ gates[r].stage = "socket" /\ ~gates[r].authenticated /\ ~gates[r].settled
    /\ clock >= gates[r].since + HelloTimeout
    /\ Settle(r, FALSE)
    /\ gates' = [gates EXCEPT ![r] = [Settled(r) EXCEPT !.closing = TRUE]]
    /\ UNCHANGED clock

\* The sweep closes a connection that was idle for too long and forgets it.
SweepStale(r) ==
    /\ gates[r].stage = "socket" /\ gates[r].authenticated /\ gates[r].listed
    /\ gates' = [gates EXCEPT ![r].closing = TRUE, ![r].listed = FALSE]
    /\ UNCHANGED <<clock, limiter, ledger>>

\* The socket has closed: onClose().
SocketCloses(r) ==
    /\ gates[r].stage = "socket"
    /\ Settle(r, FALSE)
    /\ gates' = [gates EXCEPT ![r] = Idle]
    /\ UNCHANGED clock

-----------------------------------------------------------------------------
\* handlePair(), up to its await.
PairArrives(r, s) ==
    LET visited == Visit(limiter, s, clock)
    IN  /\ clock <= LastArrival
        /\ gates[r] = Idle
        /\ IF Admits(visited, s, clock)
           THEN /\ limiter' = Admitted(visited, s, clock)
                /\ gates' = [gates EXCEPT ![r] = [Idle EXCEPT !.stage = "pairing",
                                                              !.source = s, !.slot = TRUE]]
                /\ NoteAdmission(s)
           ELSE /\ limiter' = visited
                /\ UNCHANGED <<gates, ledger>>
        /\ UNCHANGED clock

\* handlePair(), to its end: a code that is wrong or right is recorded; a bad
\* request, a full registry or an error is not.
PairEnds(r, result) ==
    LET s == gates[r].source
        recorded == CASE result = "paired" -> RecordSuccess(limiter, s, clock)
                      [] result = "wrong code" -> RecordFailure(limiter, s, clock)
                      [] OTHER -> limiter
    IN  /\ gates[r].stage = "pairing"
        /\ limiter' = Release(recorded, s)
        /\ gates' = [gates EXCEPT ![r] = Idle]
        /\ IF result = "other" THEN UNCHANGED ledger ELSE NoteResult(s, result = "paired")
        /\ UNCHANGED clock

Next ==
    \/ Tick
    \/ \E r \in Request :
          \/ \E s \in Source : UpgradeArrives(r, s) \/ PairArrives(r, s)
          \/ UpgradeOpens(r) \/ UpgradeVanishes(r) \/ UpgradeRefused(r)
          \/ ProveValid(r) \/ ProveInvalid(r) \/ BadFrame(r)
          \/ HelloExpires(r) \/ SweepStale(r) \/ SocketCloses(r)
          \/ \E result \in {"paired", "wrong code", "other"} : PairEnds(r, result)

Spec == Init /\ [][Next]_vars

\* Time passes and a timer that is due fires.
FairSpec == Spec /\ WF_vars(Tick) /\ \A r \in Request : WF_vars(HelloExpires(r))

-----------------------------------------------------------------------------
(***************************************************************************)
(* Properties.                                                             *)
(***************************************************************************)

TypeOK ==
    /\ clock \in Nat
    /\ \A s \in Source :
          LET state == limiter.sources[s]
          IN  /\ state.attempts \in Seq(Nat) /\ state.failures \in Seq(Nat)
              /\ state.blockedUntil \in Nat /\ state.lastSeen \in Nat
              /\ state.active \in 0..MaxUnauthenticated
    /\ limiter.global \in Seq(Nat)
    /\ \A r \in Request :
          /\ gates[r].stage \in Stage
          /\ gates[r] # Idle => gates[r].source \in Source
          /\ {gates[r].slot, gates[r].settled, gates[r].closing, gates[r].listed,
              gates[r].authenticated} \subseteq BOOLEAN

\* Every admission is given back exactly once: the limiter counts as active just
\* the requests that hold one, whichever way each of them ends.
SlotsConserved ==
    \A s \in Source : limiter.sources[s].active = Cardinality(Holding(s))

\* Whoever is admitted is admitted by the rules, also when the bounded table forgot
\* the source in between: no more often than the policy allows within any window,
\* and not before the block of a source that failed too often is over.
AdmittedByTheRules ==
    [][\A s \in Source :
          Len(ledger'[s].admitted) > Len(ledger[s].admitted) =>
              /\ Len(Within(ledger'[s].admitted, Window, clock)) <= AttemptsPerSource
              /\ Len(Within(limiter'.global, Window, clock)) <= GlobalAttempts
              /\ clock >= ledger[s].banned]_vars

\* A source is refused for a reason only: with a free place, a rate to spare and no
\* block, it gets in; the limiter locks nobody out for good.
RefusedForAReason ==
    \A s \in Source :
        LET visited == Visit(limiter, s, clock)
        IN  /\ visited.sources[s].known
            /\ clock >= ledger[s].banned
            /\ Cardinality(Holding(s)) < MaxUnauthenticated
            /\ Len(Within(ledger[s].admitted, Window, clock)) < AttemptsPerSource
            /\ Len(Within(limiter.global, Window, clock)) < GlobalAttempts
            => Admits(visited, s, clock)

\* A socket that never proves itself gives its place back.
PlaceComesBack ==
    \A r \in Request : gates[r].stage = "socket" /\ gates[r].slot ~> ~gates[r].slot

=============================================================================
