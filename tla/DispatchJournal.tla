-------------------------- MODULE DispatchJournal --------------------------
(***************************************************************************)
(* The at-most-once dispatch journal (src/dispatch-journal.ts): prompts,   *)
(* schedule mutations and session forks all reach the host through it.     *)
(*                                                                         *)
(* A dispatch reserves an entry in memory, saves the whole table (temp     *)
(* file, fsync, rename, directory fsync), only then calls the upstream,    *)
(* and saves again with the answer.  The process may crash at any point,   *)
(* a save may fail before or after its rename, the file may be damaged and *)
(* the wall clock may be set back.                                         *)
(*                                                                         *)
(* A definition named X_Fault is X with a fault, kept to show that the     *)
(* properties can tell them apart; the specification does not use it.      *)
(***************************************************************************)
EXTENDS Integers, FiniteSets

CONSTANTS Id,            \* (device, client id) pairs: the keys of the table
          Content,       \* request fingerprints
          Session,       \* sessions a prompt is addressed to
          SessionOf,     \* SessionOf[c]: the session of content c
          Birth,         \* Birth[i]: the 13-digit epoch prefix of identity i
          Code,          \* error codes an operation answers with
          ReceiptCode,   \* the codes codec.parse accepts in a rejected entry
          Ambiguous,     \* codes also answered when the host may have acted
          NoContent, NoCode,
          Capacity,      \* options.capacity
          Retention,     \* options.retentionMs
          Grace,         \* SWEEP_GRACE_MS
          JoinInFlight,  \* options.joinInFlight
          MaxStepBack,   \* how far the wall clock may fall behind its maximum
          MaxClock,      \* bound: the last instant of a run
          MaxWaiting     \* bound: duplicates joined to one dispatch

ASSUME IdsAssumption == IsFiniteSet(Id) /\ Birth \in [Id -> Int]
ASSUME SessionAssumption == SessionOf \in [Content -> Session]
ASSUME CodeAssumption ==
    /\ ReceiptCode \subseteq Code
    /\ Ambiguous \subseteq Code
    /\ NoCode \notin Code
    /\ NoContent \notin Content
ASSUME TimeAssumption ==
    /\ Retention \in Nat /\ Grace \in Nat /\ MaxClock \in Nat
    /\ MaxStepBack \in Nat
ASSUME BoundsAssumption ==
    /\ Capacity \in Nat
    /\ JoinInFlight \in BOOLEAN
    /\ MaxWaiting \in Nat

VARIABLES
    up,        \* the Host process is running
    healthy,   \* DispatchJournal.healthy
    entries,   \* the in-memory table
    inFlight,  \* the keys with an operation running
    waiting,   \* duplicates that joined the running operation of a key
    disk,      \* the table in the journal file
    damaged,   \* the journal file is not what the journal wrote
    clock,     \* Date.now()
    highest,   \* history: the largest value the clock ever showed
    calls,     \* history: upstream calls per identity and content
    applied,   \* history: the host acted on the identity
    tampered   \* history: the file was damaged at some time

journal == <<healthy, entries, inFlight, waiting>>
file == <<disk, damaged, tampered>>
time == <<clock, highest>>
host == <<calls, applied>>
vars == <<up, journal, file, time, host>>

Entry == [content : Content, status : {"unknown", "accepted", "rejected"},
          code : Code \cup {NoCode}]
NoEntry == [content |-> NoContent, status |-> "none", code |-> NoCode]
Table == [Id -> Entry \cup {NoEntry}]
EmptyTable == [i \in Id |-> NoEntry]

TypeOK ==
    /\ up \in BOOLEAN /\ healthy \in BOOLEAN
    /\ entries \in Table /\ disk \in Table
    /\ inFlight \in SUBSET Id
    /\ waiting \in [Id -> Nat]
    /\ damaged \in BOOLEAN /\ tampered \in BOOLEAN
    /\ clock \in Int /\ highest \in Int
    /\ calls \in [Id -> [Content -> Nat]]
    /\ applied \in SUBSET Id

-----------------------------------------------------------------------------
\* The questions the journal asks of its table and of the clock.

Present(table) == {i \in Id : table[i] # NoEntry}

\* expired(): older than the window, or too far in the future.
Expired(i) == clock - Birth[i] > Retention \/ clock - Birth[i] < -Grace

\* An entry the sweep of dispatch() deletes.
Sweepable_NoGrace(i) == clock - Birth[i] > Retention /\ i \notin inFlight
Sweepable(i) == clock - Birth[i] > Retention + Grace /\ i \notin inFlight

Swept == [i \in Id |-> IF Sweepable(i) THEN NoEntry ELSE entries[i]]

\* No room for one more entry.
Full_OneMore == Cardinality(Present(Swept)) > Capacity
Full == Cardinality(Present(Swept)) >= Capacity

Reserved(c) == [content |-> c, status |-> "unknown", code |-> NoCode]

\* The table after the sweep with identity i reserved for content c.
WithReservation(i, c) == [Swept EXCEPT ![i] = Reserved(c)]

\* The table after codec.accepted or codec.rejected wrote the answer.
WithAnswer(i, status, code) ==
    [entries EXCEPT ![i] = [content |-> @.content, status |-> status, code |-> code]]

\* The constructor accepts the file: size and codec.parse.
Readable(table) ==
    /\ Cardinality(Present(table)) <= Capacity
    /\ \A i \in Id : table[i].status = "rejected" => table[i].code \in ReceiptCode

\* How dispatch() leaves its checks, in the order the code makes them.
Outcome(i, c) ==
    IF entries[i] # NoEntry
    THEN IF entries[i].content # c THEN "mismatch"
         ELSE IF JoinInFlight /\ i \in inFlight THEN "join" ELSE "replay"
    ELSE IF ~healthy THEN "unavailable"
    ELSE IF Expired(i) THEN "expired"
    ELSE IF Full THEN "full" ELSE "run"

\* What lookup() tells the phone about identity i in session s.
LookupReply(i, s) ==
    IF ~healthy THEN "unknown"
    ELSE IF entries[i] # NoEntry /\ SessionOf[entries[i].content] = s
    THEN entries[i].status
    ELSE IF Expired(i) THEN "expired" ELSE "notFound"

\* persist(): "done", or failed before ("lost") or after ("late") the rename.
SaveResult == {"done", "lost", "late"}

Save_Skipped(table, result) == UNCHANGED file
Save(table, result) ==
    /\ disk' = IF result = "lost" THEN disk ELSE table
    /\ damaged' = (damaged /\ result = "lost")
    /\ UNCHANGED tampered

-----------------------------------------------------------------------------
Init ==
    /\ up = TRUE /\ healthy = TRUE
    /\ entries = EmptyTable /\ disk = EmptyTable
    /\ inFlight = {} /\ waiting = [i \in Id |-> 0]
    /\ damaged = FALSE /\ tampered = FALSE
    /\ clock = 0 /\ highest = 0
    /\ calls = [i \in Id |-> [c \in Content |-> 0]]
    /\ applied = {}

\* dispatch(): reserved and saved, so the operation is called.
DispatchRun(i, c) ==
    /\ up
    /\ Outcome(i, c) = "run"
    /\ entries' = WithReservation(i, c)
    /\ Save(entries', "done")
    /\ calls' = [calls EXCEPT ![i][c] = @ + 1]
    /\ inFlight' = inFlight \cup {i}
    /\ UNCHANGED <<up, healthy, waiting, time, applied>>

\* dispatch(): the reservation was not saved; the entry stays, nothing is called.
DispatchUnsaved(i, c, result) ==
    /\ up
    /\ Outcome(i, c) = "run"
    /\ entries' = WithReservation(i, c)
    /\ Save(entries', result)
    /\ UNCHANGED <<up, healthy, inFlight, waiting, time, host>>

\* dispatch(): the sweep left no room.
DispatchFull(i, c) ==
    /\ up
    /\ Outcome(i, c) = "full"
    /\ entries' = Swept
    /\ UNCHANGED <<up, healthy, inFlight, waiting, file, time, host>>

\* dispatch(): a duplicate shares the running operation's promise.
DispatchJoin(i, c) ==
    /\ up
    /\ Outcome(i, c) = "join"
    /\ waiting[i] < MaxWaiting
    /\ waiting' = [waiting EXCEPT ![i] = @ + 1]
    /\ UNCHANGED <<up, healthy, entries, inFlight, file, time, host>>

\* The host acts on a request it was called with.
HostApplies(i) ==
    /\ up
    /\ i \in inFlight
    /\ applied' = applied \cup {i}
    /\ UNCHANGED <<up, journal, file, time, calls>>

\* The promise of dispatch() settles: in-flight mark and joined duplicates go.
Release(i) ==
    /\ inFlight' = inFlight \ {i}
    /\ waiting' = [waiting EXCEPT ![i] = 0]

\* The operation resolved with ok: codec.accepted, persist, reply.
OperationAccepted(i, result) ==
    /\ up
    /\ i \in inFlight /\ i \in applied
    /\ entries' = WithAnswer(i, "accepted", NoCode)
    /\ Save(entries', result)
    /\ Release(i)
    /\ UNCHANGED <<up, healthy, time, host>>

\* The operation resolved with an error code: codec.rejected, persist, reply.
OperationRejected(i, code, result) ==
    /\ up
    /\ i \in inFlight
    /\ i \in applied => code \in Ambiguous
    /\ entries' = WithAnswer(i, "rejected", code)
    /\ Save(entries', result)
    /\ Release(i)
    /\ UNCHANGED <<up, healthy, time, host>>

\* The operation threw: the entry stays unknown and nothing is saved.
OperationThrew(i) ==
    /\ up
    /\ i \in inFlight
    /\ Release(i)
    /\ UNCHANGED <<up, healthy, entries, file, time, host>>

\* The Host process dies; only the file survives.
Crash ==
    /\ up
    /\ up' = FALSE
    /\ healthy' = TRUE
    /\ entries' = EmptyTable
    /\ inFlight' = {}
    /\ waiting' = [i \in Id |-> 0]
    /\ UNCHANGED <<file, time, host>>

\* The constructor of the next process reads the file.
Restart ==
    /\ ~up
    /\ up' = TRUE
    /\ healthy' = (~damaged /\ Readable(disk))
    /\ entries' = IF healthy' THEN disk ELSE EmptyTable
    /\ UNCHANGED <<inFlight, waiting, file, time, host>>

\* Something outside the journal ruins the file.
DamageFile ==
    /\ ~damaged
    /\ damaged' = TRUE
    /\ tampered' = TRUE
    /\ UNCHANGED <<up, journal, disk, time, host>>

Tick ==
    /\ clock < MaxClock
    /\ clock' = clock + 1
    /\ highest' = IF clock' > highest THEN clock' ELSE highest
    /\ UNCHANGED <<up, journal, file, host>>

\* The wall clock is set back.
StepBack ==
    /\ clock > 0
    /\ highest - (clock - 1) <= MaxStepBack
    /\ clock' = clock - 1
    /\ UNCHANGED <<up, journal, file, highest, host>>

Next ==
    \/ \E i \in Id, c \in Content :
          \/ DispatchRun(i, c)
          \/ DispatchFull(i, c)
          \/ DispatchJoin(i, c)
          \/ \E result \in {"lost", "late"} : DispatchUnsaved(i, c, result)
    \/ \E i \in Id :
          \/ HostApplies(i)
          \/ OperationThrew(i)
          \/ \E result \in SaveResult :
                \/ OperationAccepted(i, result)
                \/ \E code \in Code : OperationRejected(i, code, result)
    \/ Crash
    \/ Restart
    \/ DamageFile
    \/ Tick
    \/ StepBack

Spec == Init /\ [][Next]_vars

-----------------------------------------------------------------------------
(***************************************************************************)
(* Properties.                                                             *)
(***************************************************************************)

\* One identity reaches the upstream at most once, whatever content comes with
\* it, across retries, failed saves, crashes, restarts, sweeps and clock steps.
AtMostOnce ==
    \A i \in Id : \A c, d \in Content :
        calls[i][c] <= 1 /\ (c # d => calls[i][c] = 0 \/ calls[i][d] = 0)

\* A phone told "notFound" may conclude that its request never ran: dispatch()
\* forgets a called identity only when lookup() will answer "expired".
NotFoundMeansNeverCalled ==
    up => \A i \in Id : \A c \in Content :
              LookupReply(i, SessionOf[c]) = "notFound" => calls[i][c] = 0

\* PROTOCOL.md, promptDelivery: interruption, an internal error or a storage
\* failure keeps the receipt "unknown", so "rejected" means it did not run.
RejectedMeansNotApplied ==
    \A i \in Id : entries[i].status = "rejected" => i \notin applied

\* Receipts in the file with a code that prompts are answered with and parse()
\* does not list (PROMPT_RECEIPT_CODES has no E_INTERNAL).
Unlisted == {i \in Id : disk[i].status = "rejected" /\ disk[i].code \notin ReceiptCode}

\* The journal refuses service only over a file that something else damaged, or
\* that holds a receipt with an unlisted code: any other file it writes itself,
\* it can read back after a restart, whatever became of saves and sweeps.
ReadsItsOwnFile == ~healthy => tampered \/ Unlisted # {}

\* The constructor's promise without the exception: parse() reads whatever
\* dispatch() stored.  The code does not keep it for prompts.
EveryReceiptIsReadable == ~healthy => tampered

\* An entry leaves the table of a running process only once its identity is
\* beyond the window and its grace: capacity never evicts a live entry.
LiveEntriesStay ==
    [][up /\ up' => \A i \in Id :
          entries[i] # NoEntry /\ entries'[i] = NoEntry
              => clock - Birth[i] > Retention + Grace]_vars

\* The journal implements the delivery contract phones are promised.
Known(i) ==
    IF up /\ healthy THEN entries[i].status
    ELSE IF damaged \/ ~Readable(disk) THEN "unknown" ELSE disk[i].status

Contract == INSTANCE AtMostOnceDelivery WITH
    receipt <- [i \in Id |-> Known(i)],
    retired <- {i \in Id : highest > Birth[i] + Retention + Grace},
    serving <- up /\ healthy

ContractSpec == Contract!Spec
=============================================================================
