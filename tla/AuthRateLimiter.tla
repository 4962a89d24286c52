--------------------------- MODULE AuthRateLimiter ---------------------------
(***************************************************************************)
(* The limiter of anonymous authentication attempts                        *)
(* (src/auth-rate-limit.ts): its methods as functions of its state.        *)
(*                                                                         *)
(* A definition named X_Fault is X with a fault, kept to show that the     *)
(* properties can tell them apart; the specification does not use it.      *)
(***************************************************************************)
EXTENDS Integers, Sequences, FiniteSets

CONSTANTS Source,             \* where attempts come from
          Window,             \* windowMs
          AttemptsPerSource,  \* attemptsPerSource
          GlobalAttempts,     \* globalAttempts
          MaxUnauthenticated, \* maxUnauthenticatedPerSource
          FailureWindow,      \* failureWindowMs
          FailuresBeforeBlock,\* failuresBeforeBlock
          BlockTime,          \* blockMs
          MaxSources          \* maxSources

ASSUME PolicyAssumption ==
    /\ IsFiniteSet(Source)
    /\ {Window, AttemptsPerSource, GlobalAttempts, MaxUnauthenticated, FailureWindow,
        FailuresBeforeBlock, BlockTime, MaxSources} \subseteq Nat \ {0}

\* DEFAULT_AUTH_RATE_POLICY: a source that was not seen for as long as a failure or a block
\* counts, and may be forgotten, has no admission left within its window.
ASSUME WindowAssumption == Window <= FailureWindow \/ Window <= BlockTime

\* A source the table does not hold, and one it has just got.
Unknown == [known |-> FALSE, attempts |-> <<>>, failures |-> <<>>, blockedUntil |-> 0,
            active |-> 0, lastSeen |-> 0]
Fresh(now) == [Unknown EXCEPT !.known = TRUE, !.lastSeen = now]

NewLimiter == [sources |-> [s \in Source |-> Unknown], global |-> <<>>]

\* times.filter((ts) => ts > now - span)
Within(times, span, now) ==
    LET kept[i \in 0..Len(times)] ==
            IF i = 0 THEN <<>>
            ELSE IF times[i] > now - span THEN Append(kept[i - 1], times[i]) ELSE kept[i - 1]
    IN  kept[Len(times)]

\* prune()
Prune(state, now) ==
    [state EXCEPT !.attempts = Within(@, Window, now),
                  !.failures = Within(@, FailureWindow, now),
                  !.blockedUntil = IF @ > now THEN @ ELSE 0]

Tracked(limiter) == {s \in Source : limiter.sources[s].known}

\* A source pruneSources() may forget.
Stale_AnyIdle(state, now) == state.known /\ state.active = 0
Stale(state, now) ==
    /\ state.known /\ state.active = 0 /\ Prune(state, now).blockedUntil = 0
    /\ state.lastSeen < now - (IF FailureWindow > BlockTime THEN FailureWindow ELSE BlockTime)

\* pruneSources()
PruneSources(limiter, now) ==
    [limiter EXCEPT !.sources =
        [s \in Source |-> IF Stale(@[s], now) THEN Unknown
                          ELSE IF @[s].known THEN Prune(@[s], now) ELSE Unknown]]

\* source(): the table after looking s up; s is unknown in it when there is no room.
Locate(limiter, s, now) ==
    LET roomy == IF Cardinality(Tracked(limiter)) < MaxSources THEN limiter
                 ELSE PruneSources(limiter, now)
    IN  IF limiter.sources[s].known THEN limiter
        ELSE IF Cardinality(Tracked(roomy)) < MaxSources
        THEN [roomy EXCEPT !.sources[s] = Fresh(now)] ELSE roomy

\* The table with s looked up, pruned and seen now.
Visit(limiter, s, now) ==
    LET found == Locate(limiter, s, now)
    IN  IF found.sources[s].known
        THEN [found EXCEPT !.sources[s] = [Prune(@, now) EXCEPT !.lastSeen = now]]
        ELSE found

\* admit(): whether the visited table has a place for another attempt of s.
Admits(limiter, s, now) ==
    LET state == limiter.sources[s]
    IN  /\ state.known
        /\ state.blockedUntil <= now
        /\ state.active < MaxUnauthenticated
        /\ Len(state.attempts) < AttemptsPerSource
        /\ Len(Within(limiter.global, Window, now)) < GlobalAttempts

\* admit(), when it admits.
Admitted(limiter, s, now) ==
    [limiter EXCEPT !.global = Append(Within(@, Window, now), now),
                    !.sources[s].attempts = Append(@, now),
                    !.sources[s].active = @ + 1]

\* The release function of an admission, called the first time.
Release(limiter, s) ==
    [limiter EXCEPT !.sources[s].active = IF @ > 0 THEN @ - 1 ELSE 0]

\* recordFailure()
RecordFailure(limiter, s, now) ==
    LET visited == Visit(limiter, s, now)
        failures == Append(visited.sources[s].failures, now)
        until == IF Len(failures) < FailuresBeforeBlock THEN 0 ELSE now + BlockTime
    IN  IF ~visited.sources[s].known THEN visited
        ELSE [visited EXCEPT !.sources[s].failures = failures,
                             !.sources[s].blockedUntil = IF until > @ THEN until ELSE @]

\* recordSuccess()
RecordSuccess_KeepsBlock(limiter, s, now) ==
    IF limiter.sources[s].known
    THEN [limiter EXCEPT !.sources[s].failures = <<>>, !.sources[s].lastSeen = now]
    ELSE limiter
RecordSuccess(limiter, s, now) ==
    IF limiter.sources[s].known
    THEN [limiter EXCEPT !.sources[s].failures = <<>>,
                         !.sources[s].blockedUntil = 0,
                         !.sources[s].lastSeen = now]
    ELSE limiter
=============================================================================
