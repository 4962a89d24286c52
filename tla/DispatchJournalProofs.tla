----------------------- MODULE DispatchJournalProofs -----------------------
(***************************************************************************)
(* Theorems about the dispatch journal, for every set of identities and    *)
(* contents, every capacity, retention and grace, and every bound.         *)
(***************************************************************************)
EXTENDS DispatchJournal, FiniteSetTheorems, TLAPS

\* No later instant brings identity i back into the window of dispatch().
Retired(i) == highest > Birth[i] + Retention + Grace

\* The journal remembers identity i: in memory while it serves, and on disk.
Remembered(i) ==
    /\ up /\ healthy => entries[i] # NoEntry
    /\ damaged \/ disk[i] # NoEntry

ClockInv == clock <= highest /\ highest - clock <= MaxStepBack

FlightInv == \A i \in inFlight : up /\ healthy /\ entries[i] # NoEntry

\* Why a second call is impossible: a called identity is remembered until it
\* has retired, and dispatch() calls only what is neither.
CalledInv ==
    \A i \in Id : \A c \in Content :
        calls[i][c] > 0 => Retired(i) \/ Remembered(i)

IInv == TypeOK /\ ClockInv /\ FlightInv /\ CalledInv /\ AtMostOnce

-----------------------------------------------------------------------------
LEMMA NoEntryIsNoEntry == NoEntry \notin Entry
BY DEF NoEntry, Entry

\* A swept entry is beyond the window and the grace.
LEMMA SweptFact ==
    ASSUME NEW i \in Id, TypeOK
    PROVE  /\ Swept \in Table
           /\ Swept[i] = entries[i]
              \/ /\ Swept[i] = NoEntry
                 /\ clock - Birth[i] > Retention + Grace
                 /\ i \notin inFlight
BY DEF Swept, Sweepable, TypeOK, Table

\* The table with a reservation: a typed table that has the identity.
LEMMA ReservationFact ==
    ASSUME NEW i \in Id, NEW c \in Content, TypeOK
    PROVE  /\ WithReservation(i, c) \in Table
           /\ WithReservation(i, c)[i] # NoEntry
           /\ \A j \in Id \ {i} : WithReservation(i, c)[j] = Swept[j]
<1>1. Swept \in Table
  BY SweptFact
<1>2. Reserved(c) \in Entry
  BY DEF Reserved, Entry
<1>3. QED
  BY <1>1, <1>2, NoEntryIsNoEntry DEF WithReservation, Table

\* Answering keeps the table typed and the entry present.
LEMMA AnswerFact ==
    ASSUME NEW i \in Id, TypeOK, entries[i] # NoEntry,
           NEW status \in {"accepted", "rejected"}, NEW code \in Code \cup {NoCode}
    PROVE  /\ WithAnswer(i, status, code) \in Table
           /\ WithAnswer(i, status, code)[i] # NoEntry
           /\ \A j \in Id \ {i} : WithAnswer(i, status, code)[j] = entries[j]
<1>1. entries[i] \in Entry
  BY DEF TypeOK, Table
<1>2. [content |-> entries[i].content, status |-> status, code |-> code] \in Entry
  BY <1>1 DEF Entry
<1>3. QED
  BY <1>1, <1>2, NoEntryIsNoEntry DEF WithAnswer, TypeOK, Table

-----------------------------------------------------------------------------
\* A dispatch that is not stopped by a check: the journal serves, the identity
\* is unknown to it and inside its window.
LEMMA RunFact ==
    ASSUME NEW i \in Id, NEW c \in Content, TypeOK, Outcome(i, c) = "run"
    PROVE  healthy /\ entries[i] = NoEntry /\ ~Expired(i) /\ ~Full
BY DEF Outcome

LEMMA FullFact ==
    ASSUME NEW i \in Id, NEW c \in Content, TypeOK, Outcome(i, c) = "full"
    PROVE  healthy /\ entries[i] = NoEntry
BY DEF Outcome

\* Every disjunct of Next, for the proofs that go through the actions.
LEMMA NextCases ==
    ASSUME Next
    PROVE  \/ \E i \in Id, c \in Content :
                 \/ DispatchRun(i, c) \/ DispatchFull(i, c) \/ DispatchJoin(i, c)
                 \/ \E result \in SaveResult : DispatchUnsaved(i, c, result)
           \/ \E i \in Id :
                 \/ HostApplies(i) \/ OperationThrew(i)
                 \/ \E result \in SaveResult :
                       \/ OperationAccepted(i, result)
                       \/ \E code \in Code : OperationRejected(i, code, result)
           \/ Crash \/ Restart \/ DamageFile \/ Tick \/ StepBack
BY DEF Next, SaveResult

\* What a save does to the file.
LEMMA SaveFact ==
    ASSUME TypeOK, NEW table \in Table, NEW result \in SaveResult, Save(table, result)
    PROVE  /\ disk' \in Table /\ damaged' \in BOOLEAN /\ tampered' \in BOOLEAN
           /\ \A i \in Id : table[i] # NoEntry /\ (damaged \/ disk[i] # NoEntry)
                 => damaged' \/ disk'[i] # NoEntry
           /\ result = "done" => disk' = table /\ damaged' = FALSE
BY DEF Save, SaveResult, TypeOK

-----------------------------------------------------------------------------
(* Type correctness and the in-flight invariant.                           *)

TypeInv == TypeOK /\ FlightInv

LEMMA TypeInit == Init => TypeInv
<1> SUFFICES ASSUME Init PROVE TypeInv
  OBVIOUS
<1>1. EmptyTable \in Table
  BY DEF EmptyTable, Table
<1>2. calls \in [Id -> [Content -> Nat]] /\ waiting \in [Id -> Nat]
  BY DEF Init
<1>3. clock \in Int /\ highest \in Int
  BY DEF Init
<1>4. TypeOK
  BY <1>1, <1>2, <1>3, Zenon DEF Init, TypeOK
<1>5. FlightInv
  BY DEF Init, FlightInv
<1>6. QED
  BY <1>4, <1>5 DEF TypeInv

LEMMA TypeStep == TypeInv /\ [Next]_vars => TypeInv'
<1> SUFFICES ASSUME TypeInv, [Next]_vars PROVE TypeInv'
  OBVIOUS
<1> USE DEF TypeInv
<1>1. ASSUME NEW i \in Id, NEW c \in Content, DispatchRun(i, c)
      PROVE  TypeInv'
  <2>1. healthy /\ entries[i] = NoEntry
    BY <1>1, RunFact DEF DispatchRun
  <2>2. entries' = WithReservation(i, c) /\ entries' \in Table /\ entries'[i] # NoEntry
    BY <1>1, ReservationFact DEF DispatchRun
  <2>3. disk' \in Table /\ damaged' \in BOOLEAN /\ tampered' \in BOOLEAN
    BY <1>1, <2>2, SaveFact DEF DispatchRun, SaveResult
  <2>4. calls' \in [Id -> [Content -> Nat]]
    BY <1>1 DEF DispatchRun, TypeOK
  <2>5. TypeOK'
    BY <1>1, <2>2, <2>3, <2>4 DEF DispatchRun, TypeOK, time
  <2>6. ASSUME NEW j \in inFlight'
        PROVE  up' /\ healthy' /\ entries'[j] # NoEntry
    <3>1. CASE j = i
      BY <1>1, <2>1, <2>2, <3>1 DEF DispatchRun
    <3>2. CASE j \in inFlight /\ j # i
      <4>1. j \in Id
        BY <3>2 DEF TypeOK
      <4>2. Swept[j] = entries[j]
        BY <3>2, <4>1, SweptFact
      <4>3. entries'[j] = entries[j]
        BY <2>2, <3>2, <4>1, <4>2, ReservationFact
      <4>4. QED
        BY <1>1, <3>2, <4>3 DEF DispatchRun, FlightInv
    <3>3. QED
      BY <1>1, <2>6, <3>1, <3>2 DEF DispatchRun
  <2>7. QED
    BY <2>5, <2>6 DEF FlightInv
<1>2. ASSUME NEW i \in Id, NEW c \in Content, NEW result \in SaveResult,
             DispatchUnsaved(i, c, result)
      PROVE  TypeInv'
  <2>1. entries' = WithReservation(i, c) /\ entries' \in Table /\ entries'[i] # NoEntry
    BY <1>2, ReservationFact DEF DispatchUnsaved
  <2>2. disk' \in Table /\ damaged' \in BOOLEAN /\ tampered' \in BOOLEAN
    BY <1>2, <2>1, SaveFact DEF DispatchUnsaved
  <2>3. TypeOK'
    BY <1>2, <2>1, <2>2 DEF DispatchUnsaved, TypeOK, time, host
  <2>4. ASSUME NEW j \in inFlight'
        PROVE  up' /\ healthy' /\ entries'[j] # NoEntry
    <3>1. j \in inFlight /\ j \in Id
      BY <1>2, <2>4 DEF DispatchUnsaved, TypeOK
    <3>2. Swept[j] = entries[j]
      BY <3>1, SweptFact
    <3>3. entries'[j] # NoEntry
      BY <2>1, <3>1, <3>2, ReservationFact DEF FlightInv
    <3>4. QED
      BY <1>2, <3>1, <3>3 DEF DispatchUnsaved, FlightInv
  <2>5. QED
    BY <2>3, <2>4 DEF FlightInv
<1>3. ASSUME NEW i \in Id, NEW c \in Content, DispatchFull(i, c)
      PROVE  TypeInv'
  <2>1. entries' = Swept /\ entries' \in Table
    BY <1>3, SweptFact DEF DispatchFull
  <2>2. TypeOK'
    BY <1>3, <2>1 DEF DispatchFull, TypeOK, file, time, host
  <2>3. \A j \in inFlight : entries'[j] = entries[j]
    BY <2>1, SweptFact DEF TypeOK
  <2>4. QED
    BY <1>3, <2>2, <2>3 DEF DispatchFull, FlightInv
<1>4. ASSUME NEW i \in Id, NEW c \in Content, DispatchJoin(i, c)
      PROVE  TypeInv'
  BY <1>4 DEF DispatchJoin, TypeOK, FlightInv, file, time, host
<1>5. ASSUME NEW i \in Id, HostApplies(i)
      PROVE  TypeInv'
  BY <1>5 DEF HostApplies, TypeOK, FlightInv, journal, file, time
<1>6. ASSUME NEW i \in Id, OperationThrew(i)
      PROVE  TypeInv'
  BY <1>6 DEF OperationThrew, Release, TypeOK, FlightInv, file, time, host
<1>7. ASSUME NEW i \in Id, NEW result \in SaveResult, OperationAccepted(i, result)
      PROVE  TypeInv'
  <2>1. entries[i] # NoEntry
    BY <1>7 DEF OperationAccepted, FlightInv
  <2>2. entries' = WithAnswer(i, "accepted", NoCode)
    BY <1>7 DEF OperationAccepted
  <2>3. /\ entries' \in Table /\ entries'[i] # NoEntry
        /\ \A j \in Id \ {i} : entries'[j] = entries[j]
    BY <2>1, <2>2, AnswerFact
  <2>4. disk' \in Table /\ damaged' \in BOOLEAN /\ tampered' \in BOOLEAN
    BY <1>7, <2>3, SaveFact DEF OperationAccepted
  <2>5. TypeOK'
    BY <1>7, <2>3, <2>4 DEF OperationAccepted, Release, TypeOK, time, host
  <2>6. QED
    BY <1>7, <2>3, <2>5 DEF OperationAccepted, Release, FlightInv, TypeOK
<1>8. ASSUME NEW i \in Id, NEW code \in Code, NEW result \in SaveResult,
             OperationRejected(i, code, result)
      PROVE  TypeInv'
  <2>1. entries[i] # NoEntry
    BY <1>8 DEF OperationRejected, FlightInv
  <2>2. entries' = WithAnswer(i, "rejected", code)
    BY <1>8 DEF OperationRejected
  <2>3. /\ entries' \in Table /\ entries'[i] # NoEntry
        /\ \A j \in Id \ {i} : entries'[j] = entries[j]
    BY <2>1, <2>2, AnswerFact
  <2>4. disk' \in Table /\ damaged' \in BOOLEAN /\ tampered' \in BOOLEAN
    BY <1>8, <2>3, SaveFact DEF OperationRejected
  <2>5. TypeOK'
    BY <1>8, <2>3, <2>4 DEF OperationRejected, Release, TypeOK, time, host
  <2>6. QED
    BY <1>8, <2>3, <2>5 DEF OperationRejected, Release, FlightInv, TypeOK
<1>9. CASE Crash
  <2>1. EmptyTable \in Table
    BY DEF EmptyTable, Table
  <2>2. QED
    BY <1>9, <2>1 DEF Crash, TypeOK, FlightInv, file, time, host
<1>10. CASE Restart
  <2>1. EmptyTable \in Table
    BY DEF EmptyTable, Table
  <2>2. entries' \in Table
    BY <1>10, <2>1 DEF Restart, TypeOK
  <2>3. healthy' \in BOOLEAN
    BY <1>10 DEF Restart, Readable
  <2>4. inFlight = {}
    BY <1>10 DEF Restart, FlightInv
  <2>5. QED
    BY <1>10, <2>2, <2>3, <2>4 DEF Restart, TypeOK, FlightInv, file, time, host
<1>11. CASE DamageFile
  BY <1>11 DEF DamageFile, TypeOK, FlightInv, journal, time, host
<1>12. CASE Tick
  BY <1>12 DEF Tick, TypeOK, FlightInv, journal, file, host
<1>13. CASE StepBack
  BY <1>13 DEF StepBack, TypeOK, FlightInv, journal, file, host
<1>14. CASE UNCHANGED vars
  BY <1>14 DEF vars, journal, file, time, host, TypeOK, FlightInv
<1>15. QED
  BY <1>1, <1>2, <1>3, <1>4, <1>5, <1>6, <1>7, <1>8, <1>9, <1>10, <1>11, <1>12,
     <1>13, <1>14, NextCases

\* The journal's state is always well typed: no step, crash or restart leaves a
\* half-written entry, and an operation runs only in a process that serves.
THEOREM TypeCorrect == Spec => []TypeOK
<1>1. TypeInv => TypeOK
  BY DEF TypeInv
<1>2. QED
  BY <1>1, TypeInit, TypeStep, PTL DEF Spec

-----------------------------------------------------------------------------
(* At most one call per identity.                                          *)

\* Steps on tables: what is still in the saved table is still remembered.
LEMMA RememberedAfterSave ==
    ASSUME TypeOK, NEW j \in Id, NEW result \in SaveResult,
           Remembered(j), entries' \in Table, entries'[j] # NoEntry,
           Save(entries', result)
    PROVE  Remembered(j)'
BY SaveFact DEF Remembered

\* A remembered identity that a sweep forgets has retired.
LEMMA ForgottenIsRetired ==
    ASSUME TypeOK, ClockInv, NEW j \in Id, entries[j] # NoEntry, Swept[j] = NoEntry
    PROVE  Retired(j)
<1>1. clock - Birth[j] > Retention + Grace
  BY SweptFact
<1>2. clock \in Int /\ highest \in Int /\ Birth[j] \in Int
  BY IdsAssumption DEF TypeOK
<1>3. QED
  BY <1>1, <1>2, TimeAssumption DEF ClockInv, Retired

\* A clock that falls back less than the grace keeps a retired identity expired.
LEMMA RetiredIsExpired ==
    ASSUME TypeOK, ClockInv, MaxStepBack <= Grace, NEW j \in Id, Retired(j)
    PROVE  Expired(j)
<1>1. clock \in Int /\ highest \in Int /\ Birth[j] \in Int
  BY IdsAssumption DEF TypeOK
<1>2. QED
  BY <1>1, TimeAssumption DEF ClockInv, Retired, Expired

\* The largest clock value never falls, and the clock stays near it.
LEMMA ClockStep == TypeOK /\ ClockInv /\ [Next]_vars => ClockInv' /\ highest' >= highest
<1> SUFFICES ASSUME TypeOK, ClockInv, [Next]_vars PROVE ClockInv' /\ highest' >= highest
  OBVIOUS
<1>1. clock \in Int /\ highest \in Int /\ MaxStepBack \in Nat
  BY TimeAssumption DEF TypeOK
<1>2. CASE Tick
  BY <1>1, <1>2 DEF Tick, ClockInv
<1>3. CASE StepBack
  BY <1>1, <1>3 DEF StepBack, ClockInv
<1>4. CASE UNCHANGED time
  BY <1>1, <1>4 DEF time, ClockInv
<1>5. Tick \/ StepBack \/ UNCHANGED time
  BY NextCases DEF vars, DispatchRun, DispatchUnsaved, DispatchFull, DispatchJoin,
     HostApplies, OperationAccepted, OperationRejected, OperationThrew, Crash,
     Restart, DamageFile
<1>6. QED
  BY <1>2, <1>3, <1>4, <1>5

\* Every step but the call itself leaves the count of calls alone.
LEMMA CalledStep ==
    ASSUME TypeInv, ClockInv, CalledInv, [Next]_vars,
           NEW j \in Id, Retired(j) \/ Remembered(j)
    PROVE  (Retired(j) \/ Remembered(j))'
<1> USE DEF TypeInv
<1>1. highest' >= highest /\ ClockInv'
  BY ClockStep
<1>2. highest \in Int /\ highest' \in Int /\ Birth[j] + Retention + Grace \in Int
  BY IdsAssumption, TimeAssumption, TypeStep DEF TypeOK
<1>3. CASE Retired(j)
  BY <1>1, <1>2, <1>3 DEF Retired
<1>4. CASE Remembered(j) /\ ~Retired(j)
  <2>1. ASSUME NEW i \in Id, NEW c \in Content, NEW result \in SaveResult,
               up, healthy, entries' = WithReservation(i, c), Save(entries', result)
        PROVE  Remembered(j)'
    <3>1. Swept[j] = entries[j] /\ entries[j] # NoEntry
      BY <1>4, <2>1, SweptFact, ForgottenIsRetired DEF Remembered
    <3>2. entries' \in Table /\ entries'[j] # NoEntry
      BY <2>1, <3>1, ReservationFact
    <3>3. QED
      BY <1>4, <2>1, <3>2, RememberedAfterSave
  <2>2. ASSUME NEW i \in Id, NEW c \in Content, DispatchRun(i, c)
        PROVE  Remembered(j)'
    BY <2>1, <2>2, RunFact DEF DispatchRun, SaveResult
  <2>3. ASSUME NEW i \in Id, NEW c \in Content, NEW result \in SaveResult,
               DispatchUnsaved(i, c, result)
        PROVE  Remembered(j)'
    BY <2>1, <2>3, RunFact DEF DispatchUnsaved
  <2>4. ASSUME NEW i \in Id, NEW c \in Content, DispatchFull(i, c)
        PROVE  Remembered(j)'
    <3>1. healthy
      BY <2>4, FullFact DEF DispatchFull
    <3>2. Swept[j] = entries[j]
      BY <1>4, <2>4, <3>1, SweptFact, ForgottenIsRetired DEF Remembered, DispatchFull
    <3>3. QED
      BY <1>4, <2>4, <3>2 DEF DispatchFull, Remembered, file
  <2>5. ASSUME NEW i \in Id, NEW status \in {"accepted", "rejected"},
               NEW code \in Code \cup {NoCode}, NEW result \in SaveResult,
               i \in inFlight, entries' = WithAnswer(i, status, code),
               Save(entries', result)
        PROVE  Remembered(j)'
    <3>1. up /\ healthy /\ entries[i] # NoEntry
      BY <2>5 DEF FlightInv
    <3>2. entries' \in Table /\ entries'[j] # NoEntry
      <4>1. entries[j] # NoEntry
        BY <1>4, <3>1 DEF Remembered
      <4>2. QED
        BY <2>5, <3>1, <4>1, AnswerFact
    <3>3. QED
      BY <1>4, <2>5, <3>2, RememberedAfterSave
  <2>6. ASSUME NEW i \in Id, NEW result \in SaveResult, OperationAccepted(i, result)
        PROVE  Remembered(j)'
    BY <2>5, <2>6 DEF OperationAccepted
  <2>7. ASSUME NEW i \in Id, NEW code \in Code, NEW result \in SaveResult,
               OperationRejected(i, code, result)
        PROVE  Remembered(j)'
    BY <2>5, <2>7 DEF OperationRejected
  <2>8. CASE UNCHANGED <<up, healthy, entries, file>>
    BY <1>4, <2>8 DEF Remembered, file
  <2>9. CASE Crash
    BY <1>4, <2>9 DEF Crash, Remembered, file
  <2>10. CASE Restart
    BY <1>4, <2>10 DEF Restart, Remembered, file
  <2>11. CASE DamageFile
    BY <1>4, <2>11 DEF DamageFile, Remembered, journal
  <2>12. \/ UNCHANGED <<up, healthy, entries, file>>
         \/ Crash \/ Restart \/ DamageFile
         \/ \E i \in Id, c \in Content :
               \/ DispatchRun(i, c) \/ DispatchFull(i, c)
               \/ \E result \in SaveResult : DispatchUnsaved(i, c, result)
         \/ \E i \in Id, result \in SaveResult :
               \/ OperationAccepted(i, result)
               \/ \E code \in Code : OperationRejected(i, code, result)
    <3>1. \A i \in Id, c \in Content :
              DispatchJoin(i, c) => UNCHANGED <<up, healthy, entries, file>>
      BY DEF DispatchJoin
    <3>2. \A i \in Id : HostApplies(i) \/ OperationThrew(i)
              => UNCHANGED <<up, healthy, entries, file>>
      BY DEF HostApplies, OperationThrew, journal
    <3>3. Tick \/ StepBack \/ UNCHANGED vars
              => UNCHANGED <<up, healthy, entries, file>>
      BY DEF Tick, StepBack, vars, journal
    <3>4. QED
      BY <3>1, <3>2, <3>3, NextCases
  <2>13. QED
    BY <2>2, <2>3, <2>4, <2>6, <2>7, <2>8, <2>9, <2>10, <2>11, <2>12
<1>5. QED
  BY <1>3, <1>4

\* Only a dispatch that runs calls the upstream, and what it calls it remembers.
LEMMA CallFact ==
    ASSUME TypeInv, [Next]_vars, calls' # calls
    PROVE  \E i \in Id, c \in Content : DispatchRun(i, c)
<1>1. \A i \in Id, c \in Content : DispatchJoin(i, c) \/ DispatchFull(i, c) => calls' = calls
  BY DEF DispatchJoin, DispatchFull, host
<1>2. \A i \in Id, c \in Content, result \in SaveResult :
         DispatchUnsaved(i, c, result) => calls' = calls
  BY DEF DispatchUnsaved, host
<1>3. \A i \in Id : HostApplies(i) \/ OperationThrew(i) => calls' = calls
  BY DEF HostApplies, OperationThrew, host
<1>4. \A i \in Id, result \in SaveResult : OperationAccepted(i, result) => calls' = calls
  BY DEF OperationAccepted, host
<1>5. \A i \in Id, result \in SaveResult, code \in Code :
         OperationRejected(i, code, result) => calls' = calls
  BY DEF OperationRejected, host
<1>6. Crash \/ Restart \/ DamageFile \/ Tick \/ StepBack \/ UNCHANGED vars => calls' = calls
  BY DEF Crash, Restart, DamageFile, Tick, StepBack, vars, host
<1>7. QED
  BY <1>1, <1>2, <1>3, <1>4, <1>5, <1>6, NextCases

LEMMA SafeInit == Init => IInv
<1> SUFFICES ASSUME Init PROVE IInv
  OBVIOUS
<1>1. TypeOK /\ FlightInv
  BY TypeInit DEF TypeInv
<1>2. \A i \in Id, c \in Content : calls[i][c] = 0
  BY DEF Init
<1>3. ClockInv
  BY TimeAssumption DEF Init, ClockInv
<1>4. CalledInv /\ AtMostOnce
  BY <1>2 DEF CalledInv, AtMostOnce
<1>5. QED
  BY <1>1, <1>3, <1>4 DEF IInv

LEMMA SafeStep ==
    ASSUME MaxStepBack <= Grace
    PROVE  IInv /\ [Next]_vars => IInv'
<1> SUFFICES ASSUME IInv, [Next]_vars PROVE IInv'
  OBVIOUS
<1>1. TypeInv /\ ClockInv /\ CalledInv /\ AtMostOnce
  BY DEF IInv, TypeInv
<1>2. TypeInv' /\ ClockInv'
  BY <1>1, TypeStep, ClockStep DEF TypeInv
<1>3. \A i \in Id : Retired(i) \/ Remembered(i) => (Retired(i) \/ Remembered(i))'
  BY <1>1, CalledStep
<1>4. CASE calls' = calls
  <2>1. CalledInv'
    BY <1>1, <1>3, <1>4 DEF CalledInv
  <2>2. AtMostOnce'
    BY <1>1, <1>4 DEF AtMostOnce
  <2>3. QED
    BY <1>2, <2>1, <2>2 DEF IInv, TypeInv
<1>5. ASSUME NEW i \in Id, NEW c \in Content, DispatchRun(i, c)
      PROVE  IInv'
  <2>1. up /\ healthy /\ entries[i] = NoEntry /\ ~Expired(i)
    BY <1>1, <1>5, RunFact DEF DispatchRun, TypeInv
  <2>2. ~Retired(i) /\ ~Remembered(i)
    BY <1>1, <2>1, RetiredIsExpired DEF Remembered, TypeInv
  <2>3. \A d \in Content : calls[i][d] = 0
    BY <1>1, <2>2 DEF CalledInv, TypeInv, TypeOK
  <2>4. /\ calls'[i][c] = 1
        /\ \A d \in Content \ {c} : calls'[i][d] = 0
        /\ \A j \in Id \ {i} : \A d \in Content : calls'[j][d] = calls[j][d]
    BY <1>1, <1>5, <2>3 DEF DispatchRun, TypeInv, TypeOK
  <2>5. AtMostOnce'
    BY <1>1, <2>4 DEF AtMostOnce
  <2>6. Remembered(i)'
    <3>1. entries' \in Table /\ entries'[i] # NoEntry
      BY <1>1, <1>5, ReservationFact DEF DispatchRun, TypeInv
    <3>2. disk' = entries'
      BY <1>1, <1>5, <3>1, SaveFact DEF DispatchRun, SaveResult, TypeInv
    <3>3. QED
      BY <3>1, <3>2 DEF Remembered
  <2>7. CalledInv'
    BY <1>1, <1>3, <2>4, <2>6 DEF CalledInv
  <2>8. QED
    BY <1>2, <2>5, <2>7 DEF IInv, TypeInv
<1>6. QED
  BY <1>1, <1>4, <1>5, CallFact

\* One identity reaches the upstream at most once in the life of the journal,
\* whatever the number of identities, the capacity, the crashes, failed saves and
\* damage, as long as the wall clock never falls back by more than the grace.
THEOREM CalledAtMostOnce ==
    ASSUME MaxStepBack <= Grace
    PROVE  Spec => []AtMostOnce
<1>1. Init => IInv
  BY SafeInit
<1>2. IInv /\ [Next]_vars => IInv'
  BY SafeStep
<1>3. IInv => AtMostOnce
  BY DEF IInv
<1>4. QED
  BY <1>1, <1>2, <1>3, PTL DEF Spec

\* An entry leaves the table of a running process only beyond its window and
\* grace: only the sweep removes entries.
THEOREM LiveEntriesAreKept == Spec => LiveEntriesStay
<1> DEFINE A == up /\ up' => \A i \in Id :
                   entries[i] # NoEntry /\ entries'[i] = NoEntry
                       => clock - Birth[i] > Retention + Grace
<1>1. ASSUME TypeInv, [Next]_vars PROVE [A]_vars
  <2> SUFFICES ASSUME up, up', NEW j \in Id, entries[j] # NoEntry, entries'[j] = NoEntry
               PROVE  clock - Birth[j] > Retention + Grace
    OBVIOUS
  <2> USE <1>1 DEF TypeInv
  <2>1. ASSUME Swept[j] # entries[j] PROVE clock - Birth[j] > Retention + Grace
    BY <2>1, SweptFact
  <2>2. ASSUME NEW i \in Id, NEW c \in Content, entries' = WithReservation(i, c)
        PROVE  Swept[j] # entries[j]
    BY <2>2, ReservationFact
  <2>3. ASSUME NEW i \in Id, NEW c \in Content,
               \/ DispatchRun(i, c)
               \/ DispatchFull(i, c)
               \/ \E result \in SaveResult : DispatchUnsaved(i, c, result)
        PROVE  clock - Birth[j] > Retention + Grace
    <3>1. entries' = WithReservation(i, c) \/ entries' = Swept
      BY <2>3 DEF DispatchRun, DispatchFull, DispatchUnsaved
    <3>2. QED
      BY <2>1, <2>2, <3>1
  <2>4. ASSUME NEW i \in Id, NEW status \in {"accepted", "rejected"},
               NEW code \in Code \cup {NoCode},
               i \in inFlight, entries' = WithAnswer(i, status, code)
        PROVE  FALSE
    <3>1. entries[i] # NoEntry
      BY <2>4 DEF FlightInv
    <3>2. QED
      BY <2>4, <3>1, AnswerFact
  <2>5. \A i \in Id, result \in SaveResult : ~OperationAccepted(i, result)
    BY <2>4 DEF OperationAccepted
  <2>6. \A i \in Id, result \in SaveResult, code \in Code :
           ~OperationRejected(i, code, result)
    BY <2>4 DEF OperationRejected
  <2>7. ~Crash /\ ~Restart
    BY DEF Crash, Restart
  <2>8. \A i \in Id, c \in Content : ~DispatchJoin(i, c)
    BY DEF DispatchJoin
  <2>9. \A i \in Id : ~HostApplies(i) /\ ~OperationThrew(i)
    BY DEF HostApplies, OperationThrew, journal
  <2>10. ~DamageFile /\ ~Tick /\ ~StepBack /\ ~UNCHANGED vars
    BY DEF DamageFile, Tick, StepBack, vars, journal
  <2>11. QED
    BY <2>3, <2>5, <2>6, <2>7, <2>8, <2>9, <2>10, NextCases
<1>2. QED
  BY <1>1, TypeInit, TypeStep, PTL DEF Spec, LiveEntriesStay

-----------------------------------------------------------------------------
(* What is remembered is what was called, so "notFound" is reliable.       *)

\* The entry of a called identity is the entry of what was called.
SameRequest(table) ==
    \A i \in Id : \A c \in Content :
        calls[i][c] > 0 /\ table[i] # NoEntry => table[i].content = c

RequestInv == SameRequest(entries) /\ SameRequest(disk)

\* A dispatch that passes its checks finds an identity that was never called.
LEMMA RunsOnlyUncalled ==
    ASSUME IInv, MaxStepBack <= Grace, NEW i \in Id, NEW c \in Content,
           up, Outcome(i, c) = "run"
    PROVE  \A d \in Content : calls[i][d] = 0
<1>1. healthy /\ entries[i] = NoEntry /\ ~Expired(i)
  BY RunFact DEF IInv
<1>2. ~Retired(i) /\ ~Remembered(i)
  BY <1>1, RetiredIsExpired DEF Remembered, IInv
<1>3. QED
  BY <1>2 DEF IInv, CalledInv, TypeOK

\* Reserving for an identity that was never called keeps the requests apart.
LEMMA SameRequestReserved ==
    ASSUME TypeOK, SameRequest(entries), NEW i \in Id, NEW c \in Content,
           \A d \in Content : calls[i][d] = 0
    PROVE  SameRequest(WithReservation(i, c))
<1> SUFFICES ASSUME NEW j \in Id, NEW d \in Content, calls[j][d] > 0,
                    WithReservation(i, c)[j] # NoEntry
             PROVE  WithReservation(i, c)[j].content = d
  BY DEF SameRequest
<1>1. j # i
  OBVIOUS
<1>2. WithReservation(i, c)[j] = Swept[j]
  BY <1>1, ReservationFact
<1>3. Swept[j] = entries[j]
  BY <1>2, SweptFact
<1>4. QED
  BY <1>2, <1>3 DEF SameRequest

LEMMA SameRequestAnswered ==
    ASSUME TypeOK, SameRequest(entries), NEW i \in Id, entries[i] # NoEntry,
           NEW status, NEW code
    PROVE  SameRequest(WithAnswer(i, status, code))
BY DEF SameRequest, WithAnswer, TypeOK, Table

\* A saved table is either the new one or the one that was there.
LEMMA SavedTable ==
    ASSUME NEW table, NEW result \in SaveResult, Save(table, result)
    PROVE  disk' = table \/ disk' = disk
BY DEF Save

LEMMA RequestStep ==
    ASSUME MaxStepBack <= Grace, IInv, RequestInv, [Next]_vars
    PROVE  RequestInv'
<1> USE DEF RequestInv
<1>1. TypeOK /\ FlightInv
  BY DEF IInv
<1>2. ASSUME calls' = calls, SameRequest(entries)', disk' = entries' \/ disk' = disk
      PROVE  RequestInv'
  BY <1>2 DEF SameRequest
<1>3. ASSUME NEW i \in Id, NEW c \in Content, DispatchRun(i, c)
      PROVE  RequestInv'
  <2>1. \A d \in Content : calls[i][d] = 0
    BY <1>3, RunsOnlyUncalled DEF DispatchRun
  <2>2. SameRequest(WithReservation(i, c))
    BY <1>1, <2>1, SameRequestReserved
  <2>3. /\ entries' = WithReservation(i, c) /\ disk' = entries'
        /\ calls' = [calls EXCEPT ![i][c] = @ + 1]
    BY <1>3 DEF DispatchRun, Save
  <2>4. WithReservation(i, c)[i].content = c
    <3>1. Swept \in Table
      BY <1>1, SweptFact
    <3>2. WithReservation(i, c)[i] = Reserved(c)
      BY <3>1 DEF WithReservation, Table
    <3>3. QED
      BY <3>2 DEF Reserved
  <2>5. \A j \in Id, d \in Content :
           calls'[j][d] = IF j = i /\ d = c THEN calls[j][d] + 1 ELSE calls[j][d]
    BY <1>1, <2>3 DEF TypeOK
  <2>6. SameRequest(entries)'
    BY <2>1, <2>2, <2>3, <2>4, <2>5 DEF SameRequest
  <2>7. QED
    BY <2>3, <2>6 DEF SameRequest
<1>4. ASSUME NEW i \in Id, NEW c \in Content, NEW result \in SaveResult,
             DispatchUnsaved(i, c, result)
      PROVE  RequestInv'
  <2>1. SameRequest(WithReservation(i, c))
    BY <1>1, <1>4, RunsOnlyUncalled, SameRequestReserved DEF DispatchUnsaved
  <2>2. calls' = calls /\ entries' = WithReservation(i, c)
    BY <1>4 DEF DispatchUnsaved, host
  <2>3. disk' = entries' \/ disk' = disk
    BY <1>4, SavedTable DEF DispatchUnsaved
  <2>4. QED
    BY <1>2, <2>1, <2>2, <2>3 DEF SameRequest
<1>5. ASSUME NEW i \in Id, NEW c \in Content, DispatchFull(i, c)
      PROVE  RequestInv'
  <2>1. \A j \in Id : Swept[j] = entries[j] \/ Swept[j] = NoEntry
    BY <1>1, SweptFact
  <2>2. QED
    BY <1>2, <1>5, <2>1 DEF DispatchFull, file, host, SameRequest
<1>6. ASSUME NEW i \in Id, NEW status, NEW code, NEW result \in SaveResult,
             i \in inFlight, entries' = WithAnswer(i, status, code),
             Save(entries', result), calls' = calls
      PROVE  RequestInv'
  <2>1. SameRequest(WithAnswer(i, status, code))
    BY <1>1, <1>6, SameRequestAnswered DEF FlightInv, TypeOK
  <2>2. QED
    BY <1>2, <1>6, <2>1, SavedTable DEF SameRequest
<1>7. ASSUME NEW i \in Id, NEW result \in SaveResult, OperationAccepted(i, result)
      PROVE  RequestInv'
  BY <1>6, <1>7 DEF OperationAccepted, host
<1>8. ASSUME NEW i \in Id, NEW code \in Code, NEW result \in SaveResult,
             OperationRejected(i, code, result)
      PROVE  RequestInv'
  BY <1>6, <1>8 DEF OperationRejected, host
<1>9. ASSUME UNCHANGED <<entries, disk, calls>>
      PROVE  RequestInv'
  BY <1>9 DEF SameRequest
<1>10. \A i \in Id : ~(EmptyTable[i] # NoEntry)
  BY DEF EmptyTable
<1>11. CASE Crash
  BY <1>2, <1>10, <1>11 DEF Crash, file, host, SameRequest
<1>12. CASE Restart
  BY <1>2, <1>10, <1>12 DEF Restart, file, host, SameRequest
<1>13. CASE DamageFile \/ Tick \/ StepBack \/ UNCHANGED vars
  BY <1>9, <1>13 DEF DamageFile, Tick, StepBack, vars, journal, file, host
<1>14. ASSUME NEW i \in Id, HostApplies(i) \/ OperationThrew(i)
       PROVE  RequestInv'
  BY <1>9, <1>14 DEF HostApplies, OperationThrew, journal, file, host
<1>15. ASSUME NEW i \in Id, NEW c \in Content, DispatchJoin(i, c)
       PROVE  RequestInv'
  BY <1>9, <1>15 DEF DispatchJoin, file, host
<1>16. QED
  BY <1>3, <1>4, <1>5, <1>7, <1>8, <1>11, <1>12, <1>13, <1>14, <1>15, NextCases

\* A phone that asks about a request under its own session and hears "notFound"
\* may send it again: the request was never called, by this or an earlier process.
THEOREM NotFoundIsReliable ==
    ASSUME MaxStepBack <= Grace
    PROVE  Spec => []NotFoundMeansNeverCalled
<1>1. Init => IInv /\ RequestInv
  <2>1. Init => RequestInv
    BY DEF Init, RequestInv, SameRequest
  <2>2. QED
    BY <2>1, SafeInit
<1>2. IInv /\ RequestInv /\ [Next]_vars => (IInv /\ RequestInv)'
  BY SafeStep, RequestStep
<1>3. IInv /\ RequestInv => NotFoundMeansNeverCalled
  <2> SUFFICES ASSUME IInv, RequestInv, up, NEW i \in Id, NEW c \in Content,
                      LookupReply(i, SessionOf[c]) = "notFound"
               PROVE  calls[i][c] = 0
    BY DEF NotFoundMeansNeverCalled
  <2>1. TypeOK
    BY DEF IInv
  <2>2. /\ healthy /\ ~Expired(i)
        /\ entries[i] # NoEntry => SessionOf[entries[i].content] # SessionOf[c]
    <3>1. entries[i] # NoEntry => entries[i].status # "notFound"
      BY <2>1 DEF TypeOK, Table, Entry
    <3>2. QED
      BY <3>1 DEF LookupReply
  <2>3. calls[i][c] > 0 => entries[i] = NoEntry
    BY <2>2 DEF RequestInv, SameRequest
  <2>4. ~Retired(i)
    BY <2>2, RetiredIsExpired DEF IInv
  <2>5. calls[i][c] > 0 => Remembered(i)
    BY <2>4 DEF IInv, CalledInv
  <2>6. QED
    BY <2>1, <2>2, <2>3, <2>5 DEF Remembered, TypeOK
<1>4. QED
  BY <1>1, <1>2, <1>3, PTL DEF Spec

-----------------------------------------------------------------------------
(* What makes the journal unavailable.                                     *)

Fits(table) == Cardinality(Present(table)) <= Capacity

\* A journal that does not serve has a file that stays as it is, and that file
\* is damaged or has an unlisted receipt.
HealthInv == tampered \/ (~damaged /\ (healthy \/ Unlisted # {}))

FitInv == Fits(entries) /\ Fits(disk) /\ HealthInv

\* The identities of a table can be counted.
LEMMA PresentIsFinite == \A table : IsFiniteSet(Present(table))
BY IdsAssumption, FS_Subset DEF Present

\* A table with no more identities than another is no larger.
LEMMA FewerFit ==
    ASSUME NEW t1, NEW t2, Fits(t1),
           \A i \in Id : t2[i] = t1[i] \/ t2[i] = NoEntry
    PROVE  Fits(t2)
<1>1. Present(t2) \subseteq Present(t1)
  BY DEF Present
<1>2. /\ Cardinality(Present(t2)) <= Cardinality(Present(t1))
      /\ Cardinality(Present(t1)) \in Nat /\ Cardinality(Present(t2)) \in Nat
  BY <1>1, PresentIsFinite, FS_Subset, FS_CardinalityType
<1>3. QED
  BY <1>2, BoundsAssumption DEF Fits

LEMMA EmptyFits == Fits(EmptyTable)
<1>1. Present(EmptyTable) = {}
  BY DEF Present, EmptyTable
<1>2. Cardinality(Present(EmptyTable)) = 0
  BY <1>1, FS_EmptySet
<1>3. QED
  BY <1>2, BoundsAssumption DEF Fits

\* A reservation made when the table was not full fits.
LEMMA ReservedFits ==
    ASSUME TypeOK, Fits(entries), NEW i \in Id, NEW c \in Content, ~Full
    PROVE  Fits(WithReservation(i, c))
<1>1. Fits(Swept)
  BY FewerFit, SweptFact
<1>2. Swept \in Table /\ WithReservation(i, c) = [Swept EXCEPT ![i] = Reserved(c)]
  BY SweptFact DEF WithReservation
<1>3. Present(WithReservation(i, c)) \subseteq Present(Swept) \cup {i}
  BY <1>2 DEF Present, Table
<1>4. Cardinality(Present(Swept)) < Capacity
  BY PresentIsFinite, FS_CardinalityType, BoundsAssumption DEF Full
<1>5. Cardinality(Present(Swept) \cup {i}) <= Cardinality(Present(Swept)) + 1
  <2>1. IsFiniteSet(Present(Swept)) /\ Cardinality(Present(Swept)) \in Nat
    BY PresentIsFinite, FS_CardinalityType
  <2>2. \/ Cardinality(Present(Swept) \cup {i}) = Cardinality(Present(Swept))
        \/ Cardinality(Present(Swept) \cup {i}) = Cardinality(Present(Swept)) + 1
    BY <2>1, FS_AddElement
  <2>3. QED
    BY <2>1, <2>2
<1>6. /\ IsFiniteSet(Present(Swept) \cup {i})
      /\ Cardinality(Present(WithReservation(i, c)))
           <= Cardinality(Present(Swept) \cup {i})
  BY <1>3, PresentIsFinite, FS_AddElement, FS_Subset
<1>7. Cardinality(Present(WithReservation(i, c))) <= Capacity
  BY <1>4, <1>5, <1>6, PresentIsFinite, FS_CardinalityType, BoundsAssumption
<1>8. QED
  BY <1>7 DEF Fits

LEMMA AnsweredFits ==
    ASSUME TypeOK, Fits(entries), NEW i \in Id, entries[i] # NoEntry,
           NEW status \in {"accepted", "rejected"}, NEW code \in Code \cup {NoCode}
    PROVE  Fits(WithAnswer(i, status, code))
<1>1. Present(WithAnswer(i, status, code)) = Present(entries)
  BY AnswerFact DEF Present
<1>2. QED
  BY <1>1 DEF Fits

LEMMA FitStep ==
    ASSUME TypeInv, FitInv, [Next]_vars
    PROVE  FitInv'
<1> USE DEF FitInv
<1>1. TypeOK /\ FlightInv
  BY DEF TypeInv
\* Only a journal that serves saves.
<1>2. ASSUME Fits(entries'), NEW result \in SaveResult, Save(entries', result),
             healthy, healthy' = healthy
      PROVE  FitInv'
  <2>1. Fits(disk')
    BY <1>2, SavedTable
  <2>2. HealthInv'
    BY <1>2 DEF Save, HealthInv
  <2>3. QED
    BY <1>2, <2>1, <2>2 DEF Fits, Present
<1>3. ASSUME Fits(entries'), UNCHANGED file, healthy' = healthy
      PROVE  FitInv'
  BY <1>3 DEF file, HealthInv, Unlisted, Fits, Present
<1>4. ASSUME NEW i \in Id, NEW c \in Content, Outcome(i, c) = "run",
             entries' = WithReservation(i, c)
      PROVE  healthy /\ Fits(entries')
  BY <1>1, <1>4, RunFact, ReservedFits
<1>5. ASSUME NEW i \in Id, NEW c \in Content, DispatchRun(i, c)
      PROVE  FitInv'
  BY <1>2, <1>4, <1>5 DEF DispatchRun, SaveResult
<1>6. ASSUME NEW i \in Id, NEW c \in Content, NEW result \in SaveResult,
             DispatchUnsaved(i, c, result)
      PROVE  FitInv'
  BY <1>2, <1>4, <1>6 DEF DispatchUnsaved
<1>7. ASSUME NEW i \in Id, NEW c \in Content, DispatchFull(i, c)
      PROVE  FitInv'
  <2>1. Fits(Swept)
    BY <1>1, FewerFit, SweptFact
  <2>2. QED
    BY <1>3, <1>7, <2>1 DEF DispatchFull
<1>8. ASSUME NEW i \in Id, NEW status \in {"accepted", "rejected"},
             NEW code \in Code \cup {NoCode}, NEW result \in SaveResult,
             i \in inFlight, entries' = WithAnswer(i, status, code),
             Save(entries', result), healthy' = healthy
      PROVE  FitInv'
  <2>1. healthy /\ entries[i] # NoEntry
    BY <1>1, <1>8 DEF FlightInv
  <2>2. Fits(entries')
    BY <1>1, <1>8, <2>1, AnsweredFits
  <2>3. QED
    BY <1>2, <1>8, <2>1, <2>2
<1>9. ASSUME NEW i \in Id, NEW result \in SaveResult,
             OperationAccepted(i, result) \/ \E code \in Code : OperationRejected(i, code, result)
      PROVE  FitInv'
  BY <1>8, <1>9 DEF OperationAccepted, OperationRejected
<1>10. CASE Crash
  <2>1. Fits(entries')
    BY <1>10, EmptyFits DEF Crash
  <2>2. QED
    BY <1>10, <2>1 DEF Crash, file, HealthInv, Fits, Present
<1>11. CASE Restart
  <2>1. Fits(entries')
    BY <1>11, EmptyFits DEF Restart
  <2>2. Readable(disk) \/ Unlisted # {}
    BY DEF Readable, Fits, Unlisted
  <2>3. Unlisted' = Unlisted
    BY <1>11 DEF Restart, file, Unlisted
  <2>4. HealthInv'
    BY <1>11, <2>2, <2>3 DEF Restart, file, HealthInv
  <2>5. QED
    BY <1>11, <2>1, <2>4 DEF Restart, file, Fits, Present
<1>12. CASE DamageFile
  BY <1>12 DEF DamageFile, journal, HealthInv, Fits, Present
<1>13. CASE Tick \/ StepBack \/ UNCHANGED vars
  BY <1>3, <1>13 DEF Tick, StepBack, vars, journal
<1>14. ASSUME NEW i \in Id, HostApplies(i) \/ OperationThrew(i)
       PROVE  FitInv'
  BY <1>3, <1>14 DEF HostApplies, OperationThrew, journal
<1>15. ASSUME NEW i \in Id, NEW c \in Content, DispatchJoin(i, c)
       PROVE  FitInv'
  BY <1>3, <1>15 DEF DispatchJoin
<1>16. QED
  BY <1>5, <1>6, <1>7, <1>9, <1>10, <1>11, <1>12, <1>13, <1>14, <1>15, NextCases

\* The journal makes itself unavailable only over a file something else damaged or
\* a receipt whose code parse() does not list: after any crash and any failed save it
\* reads every other file it wrote, which never outgrows its capacity.
THEOREM OwnFileIsReadable == Spec => []ReadsItsOwnFile
<1>1. Init => FitInv
  BY EmptyFits DEF Init, FitInv, HealthInv, Fits, Present
<1>2. TypeInv /\ FitInv /\ [Next]_vars => FitInv'
  BY FitStep
<1>3. FitInv => ReadsItsOwnFile
  BY DEF FitInv, HealthInv, ReadsItsOwnFile
<1>4. QED
  BY <1>1, <1>2, <1>3, TypeInit, TypeStep, PTL DEF Spec

-----------------------------------------------------------------------------
(* The journal implements the contract of AtMostOnceDelivery.              *)

\* What a crash leaves of an identity is what memory knows, or less: the save of
\* an answer may be missing, and so may the one of a reservation or of a sweep.
FileInv ==
    up /\ healthy /\ ~damaged => \A i \in Id :
        disk[i].status \in {entries[i].status, "unknown", "none"} \/ Retired(i)

\* The operation under way was called, and its answer is not known.
AnswerInv ==
    \A i \in inFlight : entries[i].status = "unknown" /\ \E c \in Content : calls[i][c] > 0

ContractInv == IInv /\ FileInv /\ AnswerInv

\* The refinement mapping, by its name in AtMostOnceDelivery.
receipt == [i \in Id |-> Known(i)]

LEMMA RetiredStays ==
    ASSUME TypeOK, ClockInv, [Next]_vars, TypeOK', NEW i \in Id, Retired(i)
    PROVE  Retired(i)'
<1>1. highest' >= highest
  BY ClockStep
<1>2. highest \in Int /\ highest' \in Int /\ Birth[i] \in Int
  BY IdsAssumption DEF TypeOK
<1>3. QED
  BY <1>1, <1>2, TimeAssumption DEF Retired

\* Status is all the contract sees of an entry.
LEMMA StatusFact ==
    ASSUME NEW table \in Table, NEW i \in Id
    PROVE  /\ table[i].status \in {"none", "unknown", "accepted", "rejected"}
           /\ table[i].status = "none" <=> table[i] = NoEntry
<1>1. table[i] \in Entry \/ table[i] = NoEntry
  BY DEF Table
<1>2. QED
  BY <1>1 DEF Entry, NoEntry

\* What the tables hold after each of the steps that change them.
LEMMA ReservedStatus ==
    ASSUME TypeOK, ClockInv, NEW i \in Id, NEW c \in Content, NEW j \in Id
    PROVE  /\ WithReservation(i, c)[i].status = "unknown"
           /\ j # i => \/ WithReservation(i, c)[j] = entries[j]
                       \/ WithReservation(i, c)[j] = NoEntry /\ Retired(j) /\ j \notin inFlight
<1>1. Swept \in Table
  BY SweptFact
<1>2. WithReservation(i, c)[i] = Reserved(c)
  BY <1>1 DEF WithReservation, Table
<1>3. j # i => WithReservation(i, c)[j] = Swept[j]
  BY ReservationFact
<1>4. Swept[j] = entries[j] \/ (Swept[j] = NoEntry /\ Retired(j) /\ j \notin inFlight)
  BY SweptFact, ForgottenIsRetired
<1>5. QED
  BY <1>2, <1>3, <1>4 DEF Reserved

LEMMA AnsweredStatus ==
    ASSUME TypeOK, NEW i \in Id, NEW j \in Id, NEW status, NEW code
    PROVE  WithAnswer(i, status, code)[j].status = IF j = i THEN status ELSE entries[j].status
BY DEF WithAnswer, TypeOK, Table

-----------------------------------------------------------------------------
LEMMA ContractInit == Init => ContractInv
<1>1. Init => FileInv /\ AnswerInv
  BY DEF Init, FileInv, AnswerInv, EmptyTable
<1>2. QED
  BY <1>1, SafeInit DEF ContractInv

LEMMA AnswerStep ==
    ASSUME ContractInv, [Next]_vars, TypeOK'
    PROVE  AnswerInv'
<1> USE DEF ContractInv, IInv
<1>1. ASSUME NEW i \in Id, NEW c \in Content, DispatchRun(i, c)
      PROVE  AnswerInv'
  <2>1. inFlight' = inFlight \cup {i} /\ entries' = WithReservation(i, c)
    BY <1>1 DEF DispatchRun
  <2>2. \A j \in Id, d \in Content :
           calls'[j][d] = IF j = i /\ d = c THEN calls[j][d] + 1 ELSE calls[j][d]
    BY <1>1 DEF DispatchRun, TypeOK
  <2>3. calls[i][c] \in Nat
    BY DEF TypeOK
  <2>4. ASSUME NEW j \in inFlight, j # i
        PROVE  entries'[j].status = "unknown" /\ \E d \in Content : calls'[j][d] > 0
    BY <2>1, <2>2, <2>4, ReservedStatus DEF AnswerInv, TypeOK
  <2>5. entries'[i].status = "unknown" /\ calls'[i][c] > 0
    BY <2>1, <2>2, <2>3, ReservedStatus
  <2>6. QED
    BY <2>1, <2>4, <2>5 DEF AnswerInv
<1>2. ASSUME NEW i \in Id, NEW c \in Content, NEW result \in SaveResult,
             DispatchUnsaved(i, c, result)
      PROVE  AnswerInv'
  <2>1. /\ inFlight' = inFlight /\ calls' = calls /\ entries' = WithReservation(i, c)
        /\ entries[i] = NoEntry
    BY <1>2, RunFact DEF DispatchUnsaved, host
  <2>2. i \notin inFlight
    BY <2>1 DEF FlightInv
  <2>3. \A j \in inFlight : j \in Id /\ entries'[j] = entries[j]
    BY <2>1, <2>2, ReservedStatus DEF TypeOK
  <2>4. QED
    BY <2>1, <2>3 DEF AnswerInv
<1>3. ASSUME NEW i \in Id, NEW c \in Content, DispatchFull(i, c)
      PROVE  AnswerInv'
  <2>1. \A j \in inFlight : entries'[j] = entries[j]
    BY <1>3, SweptFact DEF DispatchFull, TypeOK
  <2>2. QED
    BY <1>3, <2>1 DEF DispatchFull, host, AnswerInv
<1>4. ASSUME NEW i \in Id, NEW status, NEW code, calls' = calls, inFlight' = inFlight \ {i},
             entries' = WithAnswer(i, status, code)
      PROVE  AnswerInv'
  BY <1>4, AnsweredStatus DEF AnswerInv, TypeOK
<1>5. ASSUME NEW i \in Id, NEW result \in SaveResult,
             OperationAccepted(i, result) \/ \E code \in Code : OperationRejected(i, code, result)
      PROVE  AnswerInv'
  BY <1>4, <1>5 DEF OperationAccepted, OperationRejected, Release, host
<1>6. ASSUME inFlight' \subseteq inFlight, entries' = entries, calls' = calls
      PROVE  AnswerInv'
  BY <1>6 DEF AnswerInv
<1>7. ASSUME NEW i \in Id, HostApplies(i) \/ OperationThrew(i) \/ \E c \in Content : DispatchJoin(i, c)
      PROVE  AnswerInv'
  BY <1>6, <1>7 DEF HostApplies, OperationThrew, DispatchJoin, Release, journal, host
<1>8. CASE Crash
  BY <1>8 DEF Crash, AnswerInv
<1>9. CASE Restart
  <2>1. inFlight = {}
    BY <1>9 DEF Restart, FlightInv
  <2>2. QED
    BY <1>9, <2>1 DEF Restart, AnswerInv
<1>10. CASE DamageFile \/ Tick \/ StepBack \/ UNCHANGED vars
  BY <1>6, <1>10 DEF DamageFile, Tick, StepBack, vars, journal, host
<1>11. QED
  BY <1>1, <1>2, <1>3, <1>5, <1>7, <1>8, <1>9, <1>10, NextCases

LEMMA FileStep ==
    ASSUME ContractInv, [Next]_vars, TypeOK'
    PROVE  FileInv'
<1> USE DEF ContractInv, IInv
<1>1. \A j \in Id : Retired(j) => Retired(j)'
  BY RetiredStays
<1>2. ASSUME NEW result \in SaveResult, Save(entries', result), healthy' = healthy, up' = up,
             \A j \in Id : \/ entries'[j].status = entries[j].status
                           \/ entries[j].status \in {"none", "unknown"}
                           \/ Retired(j)
      PROVE  FileInv'
  <2>1. CASE result = "lost"
    BY <1>1, <1>2, <2>1 DEF FileInv, Save
  <2>2. CASE result # "lost"
    BY <1>2, <2>2 DEF FileInv, Save
  <2>3. QED
    BY <2>1, <2>2
<1>3. ASSUME NEW i \in Id, NEW c \in Content, Outcome(i, c) = "run",
             entries' = WithReservation(i, c)
      PROVE  \A j \in Id : \/ entries'[j].status = entries[j].status
                           \/ entries[j].status \in {"none", "unknown"}
                           \/ Retired(j)
  <2>1. entries[i].status = "none"
    BY <1>3, RunFact DEF NoEntry
  <2>2. QED
    BY <1>3, <2>1, ReservedStatus
<1>4. ASSUME NEW i \in Id, NEW c \in Content,
             DispatchRun(i, c) \/ \E result \in SaveResult : DispatchUnsaved(i, c, result)
      PROVE  FileInv'
  BY <1>2, <1>3, <1>4 DEF DispatchRun, DispatchUnsaved, SaveResult
<1>5. ASSUME NEW i \in Id, NEW c \in Content, DispatchFull(i, c)
      PROVE  FileInv'
  <2>1. \A j \in Id : Swept[j] = entries[j] \/ Retired(j)
    BY SweptFact, ForgottenIsRetired
  <2>2. QED
    BY <1>1, <1>5, <2>1 DEF DispatchFull, file, FileInv
<1>6. ASSUME NEW i \in Id, i \in inFlight, NEW status, NEW code, NEW result \in SaveResult,
             healthy' = healthy, up' = up,
             entries' = WithAnswer(i, status, code), Save(entries', result)
      PROVE  FileInv'
  BY <1>2, <1>6, AnsweredStatus DEF AnswerInv
<1>7. ASSUME NEW i \in Id, NEW result \in SaveResult,
             OperationAccepted(i, result) \/ \E code \in Code : OperationRejected(i, code, result)
      PROVE  FileInv'
  BY <1>6, <1>7 DEF OperationAccepted, OperationRejected
<1>8. ASSUME UNCHANGED <<up, healthy, entries, disk, damaged>>
      PROVE  FileInv'
  BY <1>1, <1>8 DEF FileInv
<1>9. ASSUME NEW i \in Id, HostApplies(i) \/ OperationThrew(i) \/ \E c \in Content : DispatchJoin(i, c)
      PROVE  FileInv'
  BY <1>8, <1>9 DEF HostApplies, OperationThrew, DispatchJoin, journal, file
<1>10. CASE Crash \/ Restart \/ DamageFile
  BY <1>10 DEF Crash, Restart, DamageFile, FileInv, file
<1>11. CASE Tick \/ StepBack \/ UNCHANGED vars
  BY <1>8, <1>11 DEF Tick, StepBack, vars, journal, file
<1>12. QED
  BY <1>4, <1>5, <1>7, <1>9, <1>10, <1>11, NextCases

LEMMA ContractStep ==
    ASSUME MaxStepBack <= Grace
    PROVE  ContractInv /\ [Next]_vars => ContractInv' /\ TypeOK'
<1> SUFFICES ASSUME ContractInv, [Next]_vars PROVE ContractInv' /\ TypeOK'
  OBVIOUS
<1>1. IInv'
  BY SafeStep DEF ContractInv
<1>2. TypeOK'
  BY <1>1 DEF IInv
<1>3. QED
  BY <1>1, <1>2, AnswerStep, FileStep DEF ContractInv

-----------------------------------------------------------------------------
(* Each step of the journal is a step of the contract, or none.            *)

\* What the contract sees of a journal that serves, and of one that does not.
LEMMA KnownFact ==
    ASSUME TypeOK, NEW i \in Id
    PROVE  /\ receipt[i] \in Contract!Receipt
           /\ up /\ healthy => receipt[i] = entries[i].status
           /\ ~(up /\ healthy) => \/ receipt[i] = "unknown"
                                  \/ receipt[i] = disk[i].status /\ ~damaged
<1>1. entries \in Table /\ disk \in Table
  BY DEF TypeOK
<1>2. /\ entries[i].status \in {"none", "unknown", "accepted", "rejected"}
      /\ disk[i].status \in {"none", "unknown", "accepted", "rejected"}
  BY <1>1, StatusFact
<1>3. QED
  BY <1>2 DEF receipt, Known, Contract!Receipt, Contract!Answer

LEMMA KnownAfter ==
    ASSUME TypeOK', NEW i \in Id
    PROVE  /\ receipt'[i] \in Contract!Receipt
           /\ ~(up' /\ healthy') => \/ receipt'[i] = "unknown"
                                    \/ receipt'[i] = disk'[i].status /\ ~damaged'
<1>1. entries' \in Table /\ disk' \in Table
  BY DEF TypeOK
<1>2. /\ entries'[i].status \in {"none", "unknown", "accepted", "rejected"}
      /\ disk'[i].status \in {"none", "unknown", "accepted", "rejected"}
  BY <1>1, StatusFact
<1>3. QED
  BY <1>2 DEF receipt, Known, Contract!Receipt, Contract!Answer

\* A step that leaves alone what the contract sees of the file and of memory.
LEMMA SameReceipts ==
    ASSUME TypeOK, UNCHANGED <<up, healthy, entries, disk, damaged>>
    PROVE  receipt' = receipt
BY DEF receipt, Known, Readable, Present

\* Memory, while the journal serves, is all the contract sees.
LEMMA ServingReceipts ==
    ASSUME TypeOK, TypeOK', up, healthy, up', healthy', NEW i \in Id
    PROVE  receipt[i] = entries[i].status /\ receipt'[i] = entries'[i].status
BY DEF receipt, Known

\* The same for the other two variables of the contract.
retired == {i \in Id : Retired(i)}
serving == up /\ healthy

\* The contract's actions, over the refinement mapping by its names.
LEMMA MappedCall ==
    ASSUME NEW i \in Id, NEW c \in Content,
           serving, i \notin retired, receipt[i] = "none", \A d \in Content : ~(calls[i][d] > 0),
           receipt'[i] = "unknown",
           \A j \in Id : \/ receipt'[j] = [receipt EXCEPT ![i] = "unknown"][j]
                         \/ j \in retired /\ receipt'[j] = "none",
           calls' = [calls EXCEPT ![i][c] = 1],
           retired' = retired, serving' = serving
    PROVE  Contract!Call(i, c)
BY DEF Contract!Call, Contract!Called, Contract!Pruned, receipt, retired, serving, Retired

LEMMA MappedRemember ==
    ASSUME NEW i \in Id,
           serving, receipt[i] = "none", receipt'[i] = "unknown",
           \A j \in Id : \/ receipt'[j] = [receipt EXCEPT ![i] = "unknown"][j]
                         \/ j \in retired /\ receipt'[j] = "none",
           calls' = calls, retired' = retired, serving' = serving
    PROVE  Contract!Remember(i)
BY DEF Contract!Remember, Contract!Pruned, receipt, retired, serving, Retired

LEMMA MappedSettle ==
    ASSUME NEW i \in Id, NEW answer \in {"accepted", "rejected"},
           serving, \E c \in Content : calls[i][c] > 0, receipt[i] = "unknown",
           receipt' = [receipt EXCEPT ![i] = answer],
           calls' = calls, retired' = retired, serving' = serving
    PROVE  Contract!Settle(i, answer)
BY DEF Contract!Settle, Contract!Called, receipt, retired, serving, Retired

LEMMA MappedPrune ==
    ASSUME \A j \in Id : receipt'[j] = receipt[j] \/ (j \in retired /\ receipt'[j] = "none"),
           calls' = calls, retired' = retired, serving' = serving
    PROVE  Contract!Prune
BY DEF Contract!Prune, Contract!Pruned, receipt, retired, serving, Retired

LEMMA MappedRetire ==
    ASSUME retired \subseteq retired', receipt' = receipt, calls' = calls, serving' = serving
    PROVE  Contract!Retire
BY DEF Contract!Retire, receipt, retired, serving, Retired

LEMMA MappedInterrupt ==
    ASSUME serving' \in BOOLEAN, \A j \in Id : receipt'[j] \in Contract!Receipt,
           \A j \in Id : \/ receipt'[j] \in {receipt[j], "unknown"}
                         \/ receipt'[j] = "none" /\ \A c \in Content : ~(calls[j][c] > 0)
                         \/ j \in retired,
           calls' = calls, retired' = retired
    PROVE  Contract!Interrupt
BY DEF Contract!Interrupt, Contract!Called, receipt, retired, serving, Retired

LEMMA MappedNothing ==
    ASSUME receipt' = receipt, calls' = calls, retired' = retired, serving' = serving
    PROVE  UNCHANGED Contract!vars
BY DEF Contract!vars, receipt, retired, serving, Retired

LEMMA RefinementInit == Init => Contract!Init
<1> SUFFICES ASSUME Init PROVE Contract!Init
  OBVIOUS
<1>1. [i \in Id |-> Known(i)] = [i \in Id |-> "none"]
  BY DEF Init, Known, EmptyTable, NoEntry
<1>2. QED
  BY <1>1 DEF Init, Contract!Init

LEMMA RefinementStep ==
    ASSUME MaxStepBack <= Grace, ContractInv, TypeOK', [Next]_vars
    PROVE  [Contract!Next]_(Contract!vars)
<1>1. TypeOK /\ ClockInv /\ FlightInv
  BY DEF ContractInv, IInv
<1>2. \A i \in Id : Retired(i) => Retired(i)'
  BY <1>1, RetiredStays
<1>3. highest' = highest => retired' = retired
  BY DEF retired, Retired
<1>4. \A i \in Id : entries[i] = NoEntry => entries[i].status = "none"
  BY DEF NoEntry
<1>5. ASSUME up, healthy, up', healthy'
      PROVE  /\ serving' = serving /\ serving
             /\ \A j \in Id : receipt[j] = entries[j].status /\ receipt'[j] = entries'[j].status
  BY <1>1, <1>5, ServingReceipts DEF serving
\* What a reservation does to the receipts.
<1>6. ASSUME NEW i \in Id, NEW c \in Content, up, up', healthy' = healthy,
             Outcome(i, c) = "run", entries' = WithReservation(i, c)
      PROVE  /\ serving /\ serving' = serving
             /\ i \notin retired /\ receipt[i] = "none" /\ receipt'[i] = "unknown"
             /\ \A d \in Content : calls[i][d] = 0
             /\ \A j \in Id : \/ receipt'[j] = [receipt EXCEPT ![i] = "unknown"][j]
                              \/ j \in retired /\ receipt'[j] = "none"
  <2>1. healthy /\ entries[i] = NoEntry /\ ~Expired(i)
    BY <1>1, <1>6, RunFact
  <2>2. ~Retired(i)
    BY <1>1, <2>1, RetiredIsExpired
  <2>3. \A d \in Content : calls[i][d] = 0
    BY <1>6, RunsOnlyUncalled DEF ContractInv
  <2>4. \A j \in Id : receipt[j] = entries[j].status /\ receipt'[j] = entries'[j].status
    BY <1>5, <1>6, <2>1
  <2>5. receipt[i] = "none" /\ receipt'[i] = "unknown"
    BY <1>1, <1>4, <1>6, <2>1, <2>4, ReservedStatus
  <2>6. ASSUME NEW j \in Id
        PROVE  \/ receipt'[j] = [receipt EXCEPT ![i] = "unknown"][j]
               \/ j \in retired /\ receipt'[j] = "none"
    <3>1. CASE j = i
      BY <2>5, <3>1 DEF receipt
    <3>2. CASE j # i
      <4>1. \/ entries'[j] = entries[j]
            \/ entries'[j] = NoEntry /\ Retired(j)
        BY <1>1, <1>6, <3>2, ReservedStatus
      <4>2. [receipt EXCEPT ![i] = "unknown"][j] = receipt[j]
        BY <3>2 DEF receipt
      <4>3. QED
        BY <2>4, <4>1, <4>2 DEF retired, NoEntry
    <3>3. QED
      BY <3>1, <3>2
  <2>7. QED
    BY <1>5, <1>6, <2>1, <2>2, <2>3, <2>5, <2>6 DEF retired
<1>7. ASSUME NEW i \in Id, NEW c \in Content, DispatchRun(i, c)
      PROVE  Contract!Call(i, c)
  <2>1. /\ up /\ up' /\ healthy' = healthy /\ Outcome(i, c) = "run"
        /\ entries' = WithReservation(i, c) /\ highest' = highest
        /\ calls' = [calls EXCEPT ![i][c] = @ + 1]
    BY <1>7 DEF DispatchRun, time
  <2>2. /\ serving /\ serving' = serving
        /\ i \notin retired /\ receipt[i] = "none" /\ receipt'[i] = "unknown"
        /\ \A d \in Content : calls[i][d] = 0
        /\ \A j \in Id : \/ receipt'[j] = [receipt EXCEPT ![i] = "unknown"][j]
                         \/ j \in retired /\ receipt'[j] = "none"
    BY <1>6, <2>1
  <2>3. calls[i][c] + 1 = 1 /\ \A d \in Content : ~(calls[i][d] > 0)
    BY <2>2
  <2>4. calls' = [calls EXCEPT ![i][c] = 1]
    BY <2>1, <2>3, Zenon
  <2>5. retired' = retired
    BY <1>3, <2>1
  <2>6. QED
    BY <2>2, <2>3, <2>4, <2>5, MappedCall
<1>8. ASSUME NEW i \in Id, NEW c \in Content, NEW result \in SaveResult,
             DispatchUnsaved(i, c, result)
      PROVE  Contract!Remember(i)
  <2>1. /\ up /\ up' /\ healthy' = healthy /\ Outcome(i, c) = "run"
        /\ entries' = WithReservation(i, c) /\ highest' = highest /\ calls' = calls
    BY <1>8 DEF DispatchUnsaved, time, host
  <2>2. QED
    BY <1>3, <1>6, <2>1, MappedRemember
<1>9. ASSUME NEW i \in Id, NEW c \in Content, DispatchFull(i, c)
      PROVE  Contract!Prune
  <2>1. /\ up /\ up' /\ healthy /\ healthy' /\ entries' = Swept
        /\ highest' = highest /\ calls' = calls
    BY <1>1, <1>9, FullFact DEF DispatchFull, time, host
  <2>2. \A j \in Id : Swept[j] = entries[j] \/ (Swept[j] = NoEntry /\ Retired(j))
    BY <1>1, SweptFact, ForgottenIsRetired
  <2>3. \A j \in Id : receipt'[j] = receipt[j] \/ (j \in retired /\ receipt'[j] = "none")
    BY <1>5, <2>1, <2>2 DEF retired, NoEntry
  <2>4. QED
    BY <1>3, <1>5, <2>1, <2>3, MappedPrune
<1>10. ASSUME NEW i \in Id, NEW status \in {"accepted", "rejected"}, NEW code,
              i \in inFlight, up', healthy' = healthy, highest' = highest, calls' = calls,
              entries' = WithAnswer(i, status, code)
       PROVE  Contract!Settle(i, status)
  <2>1. up /\ healthy
    BY <1>1, <1>10 DEF FlightInv
  <2>2. \A j \in Id : receipt'[j] = IF j = i THEN status ELSE receipt[j]
    BY <1>1, <1>5, <1>10, <2>1, AnsweredStatus
  <2>3. receipt' = [receipt EXCEPT ![i] = status]
    BY <2>2 DEF receipt
  <2>4. receipt[i] = "unknown" /\ \E c \in Content : calls[i][c] > 0
    BY <1>5, <1>10, <2>1 DEF ContractInv, AnswerInv
  <2>5. QED
    BY <1>3, <1>5, <1>10, <2>1, <2>3, <2>4, MappedSettle
<1>11. ASSUME NEW i \in Id, NEW result \in SaveResult,
              OperationAccepted(i, result) \/ \E code \in Code : OperationRejected(i, code, result)
       PROVE  \E answer \in {"accepted", "rejected"} : Contract!Settle(i, answer)
  BY <1>10, <1>11 DEF OperationAccepted, OperationRejected, time, host
<1>12. ASSUME UNCHANGED <<up, healthy, entries, disk, damaged, calls, highest>>
       PROVE  UNCHANGED Contract!vars
  BY <1>1, <1>3, <1>12, SameReceipts, MappedNothing DEF serving
<1>13. ASSUME NEW i \in Id, HostApplies(i) \/ OperationThrew(i) \/ \E c \in Content : DispatchJoin(i, c)
       PROVE  UNCHANGED Contract!vars
  BY <1>12, <1>13 DEF HostApplies, OperationThrew, DispatchJoin, journal, file, time, host
<1>14. CASE Crash
  <2>1. up /\ ~up' /\ calls' = calls /\ disk' = disk /\ damaged' = damaged /\ highest' = highest
    BY <1>14 DEF Crash, file, time, host
  <2>2. serving' \in BOOLEAN /\ \A j \in Id : receipt'[j] \in Contract!Receipt
    BY KnownAfter DEF serving, TypeOK
  <2>3. ASSUME NEW j \in Id
        PROVE  \/ receipt'[j] \in {receipt[j], "unknown"}
               \/ receipt'[j] = "none" /\ \A c \in Content : ~(calls[j][c] > 0)
               \/ j \in retired
    <3>1. CASE healthy /\ ~damaged
      <4>1. receipt[j] = entries[j].status
        BY <1>1, <2>1, <3>1, KnownFact
      <4>2. receipt'[j] \in {"unknown", disk[j].status}
        BY <2>1, KnownAfter
      <4>3. disk[j].status \in {entries[j].status, "unknown", "none"} \/ Retired(j)
        BY <2>1, <3>1 DEF ContractInv, FileInv
      <4>4. disk \in Table
        BY <1>1 DEF TypeOK
      <4>5. disk[j].status = "none" /\ ~Retired(j) => \A c \in Content : ~(calls[j][c] > 0)
        BY <3>1, <4>4, StatusFact DEF ContractInv, IInv, CalledInv, Remembered
      <4>6. QED
        BY <4>1, <4>2, <4>3, <4>5 DEF retired
    <3>2. CASE damaged
      BY <2>1, <3>2, KnownAfter
    <3>3. CASE ~healthy
      BY <2>1, <3>3 DEF receipt, Known, Readable, Present
    <3>4. QED
      BY <3>1, <3>2, <3>3
  <2>4. QED
    BY <1>3, <2>1, <2>2, <2>3, MappedInterrupt DEF Contract!Next
<1>15. CASE Restart
  <2>1. /\ ~up /\ up' /\ calls' = calls /\ disk' = disk /\ damaged' = damaged /\ highest' = highest
        /\ healthy' = (~damaged /\ Readable(disk)) /\ (healthy' => entries' = disk)
    BY <1>15 DEF Restart, file, time, host
  <2>2. Readable(disk)' = Readable(disk)
    BY <2>1 DEF Readable, Present
  <2>3. \A j \in Id : receipt'[j] = receipt[j]
    BY <2>1, <2>2 DEF receipt, Known
  <2>4. serving' \in BOOLEAN /\ \A j \in Id : receipt'[j] \in Contract!Receipt
    BY KnownAfter DEF serving, TypeOK
  <2>5. QED
    BY <1>3, <2>1, <2>3, <2>4, MappedInterrupt DEF Contract!Next
<1>16. CASE DamageFile
  <2>1. /\ up' = up /\ healthy' = healthy /\ entries' = entries /\ calls' = calls
        /\ damaged' /\ highest' = highest
    BY <1>16 DEF DamageFile, journal, time, host
  <2>2. \A j \in Id : receipt'[j] \in {receipt[j], "unknown"}
    BY <2>1 DEF receipt, Known
  <2>3. serving' \in BOOLEAN /\ \A j \in Id : receipt'[j] \in Contract!Receipt
    BY KnownAfter DEF serving, TypeOK
  <2>4. QED
    BY <1>3, <2>1, <2>2, <2>3, MappedInterrupt DEF Contract!Next
<1>17. CASE Tick
  <2>1. UNCHANGED <<up, healthy, entries, disk, damaged, calls>>
    BY <1>17 DEF Tick, journal, file, host
  <2>2. QED
    BY <1>1, <1>2, <2>1, SameReceipts, MappedRetire DEF serving, retired, Contract!Next
<1>18. CASE StepBack \/ UNCHANGED vars
  BY <1>12, <1>18 DEF StepBack, vars, journal, file, time, host
<1>19. QED
  BY <1>7, <1>8, <1>9, <1>11, <1>13, <1>14, <1>15, <1>16, <1>17, <1>18, NextCases DEF Contract!Next, Contract!Answer

\* Phones may rely on the contract, whatever the number of identities, the capacity,
\* the crashes, failed saves and damage: one call per identity, a receipt that only
\* moves from "unknown" to one answer, and no called request forgotten before it retires.
THEOREM ContractIsKept ==
    ASSUME MaxStepBack <= Grace
    PROVE  Spec => ContractSpec
<1>1. ContractInv /\ [Next]_vars => ContractInv' /\ TypeOK'
  BY ContractStep
<1>2. ContractInv /\ TypeOK' /\ [Next]_vars => [Contract!Next]_(Contract!vars)
  BY RefinementStep
<1>3. QED
  BY <1>1, <1>2, ContractInit, RefinementInit, PTL DEF Spec, ContractSpec, Contract!Spec
=============================================================================
