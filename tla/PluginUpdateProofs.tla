------------------------ MODULE PluginUpdateProofs ------------------------
(***************************************************************************)
(* Theorems about the update of the plugin, for every set of requests and  *)
(* devices, every version, and any number of Host processes and of writes  *)
(* that fail.                                                              *)
(***************************************************************************)
EXTENDS PluginUpdate, FiniteSetTheorems, TLAPS

Table == [Request -> Record \cup {NoRecord}]
Phase == Terminal \cup {"preparing", "installing", "verifying"}
Serving == up /\ healthy

\* A copy that is loaded runs in a process that is up, and is the one that
\* calls itself running; a process that cannot use the journal has no records.
HostInv ==
    /\ sockets # {} => loaded # 0
    /\ loaded # 0 => up /\ running = loaded
    /\ ~Serving => \A r \in Request : records[r] = NoRecord

\* The operation under way is that of the active request. It has a record from
\* the moment it is accepted, and the record has no end while it goes on.
TaskInv == \A r \in Request : task[r] # "none" =>
    /\ active = r /\ Serving
    /\ told[r] = {}
    /\ task[r] = "prepare" => records[r] = NoRecord
    /\ task[r] # "prepare" => records[r] # NoRecord /\ records[r].phase \notin Final
    /\ task[r] \in {"prepare", "accepted"} => installs[r] = 0

\* What somebody outside relies on is in the journal: the request that was
\* accepted or carried out, and the end that a device heard of.
Owed(r) == installs[r] # 0 \/ r \in acked \/ told[r] # {}

JournalInv == \A r \in Request :
    /\ records[r] # NoRecord =>
           /\ disk[r] # NoRecord
           /\ records[r].phase \in Final => disk[r].phase = records[r].phase
    /\ Owed(r) => disk[r] # NoRecord /\ (Serving => records[r] # NoRecord)
    /\ \A phase \in told[r] : disk[r].phase = phase /\ (Serving => records[r].phase = phase)
    /\ installs[r] <= 1

IInv == TypeOK /\ HostInv /\ TaskInv /\ JournalInv

-----------------------------------------------------------------------------
LEMMA StartFact == Init => IInv
<1> SUFFICES ASSUME Init PROVE IInv
  OBVIOUS
<1>1. TypeOK
  BY UpdateAssumption DEF Init, TypeOK, Stage
<1>2. HostInv /\ TaskInv
  BY <1>1 DEF Init, HostInv, TaskInv
<1>3. JournalInv
  BY <1>1 DEF Init, JournalInv, Owed
<1>4. QED
  BY <1>1, <1>2, <1>3 DEF IInv

\* One request is under way at most, so one is being installed at most.
LEMMA OnceFact == IInv => InstallsOnce
<1> SUFFICES ASSUME IInv PROVE InstallsOnce
  OBVIOUS
<1> DEFINE Busied == {r \in Request : task[r] \in {"install", "restored", "verify"}}
<1>1. Busied \subseteq {active}
  BY DEF IInv, TaskInv
<1>2. IsFiniteSet({active}) /\ Cardinality({active}) = 1
  BY FS_Singleton
<1>3. Cardinality(Busied) <= 1
  BY <1>1, <1>2, FS_Subset
<1>4. \A r \in Request : installs[r] <= 1
  BY DEF IInv, JournalInv
<1>5. QED
  BY <1>3, <1>4 DEF InstallsOnce

LEMMA WordFact == IInv => WordIsKept
BY DEF IInv, JournalInv, Owed, WordIsKept

-----------------------------------------------------------------------------
(* save(), transition() and recover().                                     *)

LEMMA WithFact ==
    ASSUME NEW r \in Request, NEW recs \in Table, recs[r] # NoRecord,
           NEW phase \in Phase, boots \in Nat
    PROVE  /\ With(recs, r, phase) \in Table
           /\ With(recs, r, phase)[r] # NoRecord
           /\ With(recs, r, phase)[r].phase = phase
           /\ \A q \in Request \ {r} : With(recs, r, phase)[q] = recs[q]
<1>1. recs[r] \in Record
  BY DEF Table
<1> DEFINE new == [[recs[r] EXCEPT !.phase = phase]
                       EXCEPT !.boot = IF phase = "restart-required" THEN boots ELSE @]
<1>2. new \in Record /\ new.phase = phase
  BY <1>1 DEF Record, Phase
<1>3. With(recs, r, phase) = [recs EXCEPT ![r] = new]
  BY <1>1 DEF With, Table, Record
<1>4. QED
  BY <1>2, <1>3, NoRecordAssumption DEF Table

\* The table a transition starts from: the records, or the active one marked
\* as restored.
LEMMA MarkFact ==
    ASSUME NEW r \in Request, TypeOK, records[r] # NoRecord,
           NEW recs \in {records, [records EXCEPT ![r].restartAs = "rolled-back"]}
    PROVE  /\ recs \in Table /\ recs[r] # NoRecord
           /\ recs[r].phase = records[r].phase
           /\ \A q \in Request \ {r} : recs[q] = records[q]
<1>1. records \in Table /\ records[r] \in Record
  BY DEF TypeOK, Table
<1> DEFINE new == [records[r] EXCEPT !.restartAs = "rolled-back"]
<1>2. new \in Record /\ new.phase = records[r].phase
  BY <1>1 DEF Record
<1>3. [records EXCEPT ![r].restartAs = "rolled-back"] = [records EXCEPT ![r] = new]
  BY <1>1 DEF Table, Record
<1>4. QED
  BY <1>1, <1>2, <1>3, NoRecordAssumption DEF Table

\* A transition of the operation under way keeps the invariant, whether its
\* save returns, throws, or throws when the journal is renamed already.
LEMMA TransitionStep ==
    ASSUME IInv, NEW r \in Request, task[r] \notin {"none", "prepare"},
           NEW recs \in {records, [records EXCEPT ![r].restartAs = "rolled-back"]},
           NEW phase \in Phase,
           NEW then \in Stage \ {"prepare", "accepted"}, phase \in Final => then = "none",
           NEW otherwise \in {"throws", "none"},
           Transition(recs, r, phase, then, otherwise),
           \/ installs' = installs
           \/ task[r] = "accepted" /\ installs' = [installs EXCEPT ![r] = @ + 1]
    PROVE  IInv'
<1> USE DEF IInv
<1> DEFINE new == With(recs, r, phase)
<1>1. /\ active = r /\ Serving /\ told[r] = {}
      /\ records[r] # NoRecord /\ records[r].phase \notin Final
      /\ task[r] = "accepted" => installs[r] = 0
  BY DEF TaskInv
<1>2. /\ recs \in Table /\ recs[r] # NoRecord /\ recs[r].phase = records[r].phase
      /\ \A q \in Request \ {r} : recs[q] = records[q]
  BY <1>1, MarkFact
<1>3. /\ new \in Table /\ new[r] # NoRecord /\ new[r].phase = phase
      /\ \A q \in Request \ {r} : new[q] = records[q]
  BY <1>2, WithFact DEF TypeOK
<1>4. /\ UNCHANGED <<readable, boots, up, healthy, installed, loaded, running, sockets,
                     observing, waiting, checking, acked>>
      /\ active' \in {r, NoRequest}
      /\ active' = IF task'[r] = "none" THEN NoRequest ELSE r
  BY <1>1 DEF Transition, hostVars, deviceVars, Saved, SaveFails
<1>5. \A q \in Request \ {r} : task[q] = "none"
  BY <1>1 DEF TaskInv
<1>6. installs' \in [Request -> Nat] /\ \A q \in Request : installs'[q] <= 1
  BY <1>1 DEF TypeOK, JournalInv
<1>7. CASE /\ Saved(new) /\ records' = new /\ Tell(r, phase)
           /\ task' = [task EXCEPT ![r] = then]
  <2>1. /\ disk' = new /\ failures' = failures
        /\ told' \in [Request -> SUBSET Final]
        /\ \A q \in Request \ {r} : told'[q] = told[q] /\ task'[q] = "none"
        /\ told'[r] \subseteq {phase} \cap Final
        /\ task'[r] = then /\ task' \in [Request -> Stage]
    BY <1>1, <1>5, <1>7 DEF Saved, Tell, TypeOK, fileVars
  <2>2. TypeOK'
    BY <1>3, <1>4, <1>6, <1>7, <2>1, UpdateAssumption DEF TypeOK, Table
  <2>3. HostInv'
    BY <1>1, <1>4 DEF HostInv, Serving
  <2>4. TaskInv'
    BY <1>1, <1>3, <1>4, <1>7, <2>1 DEF TaskInv, Serving
  <2>5. JournalInv'
    BY <1>1, <1>3, <1>4, <1>6, <1>7, <2>1 DEF JournalInv, Owed, Serving
  <2>6. QED
    BY <2>2, <2>3, <2>4, <2>5
<1>8. CASE /\ SaveFails(new) /\ NotSaved(recs, r, phase)
           /\ task' = [task EXCEPT ![r] = otherwise]
  <2>1. /\ disk' \in {disk, new} /\ failures' \in Nat
        /\ records' = recs /\ told' = told
        /\ \A q \in Request \ {r} : task'[q] = "none"
        /\ task'[r] = otherwise /\ task' \in [Request -> Stage]
    BY <1>5, <1>8 DEF SaveFails, NotSaved, TypeOK, Stage
  <2>2. TypeOK'
    BY <1>2, <1>3, <1>4, <1>6, <2>1, UpdateAssumption DEF TypeOK, Table
  <2>3. HostInv'
    BY <1>1, <1>4 DEF HostInv, Serving
  <2>4. TaskInv'
    BY <1>1, <1>2, <1>4, <2>1 DEF TaskInv, Serving
  <2>5. \A q \in Request : (q = r \/ disk'[q] \in {disk[q], records[q]})
    BY <1>3, <2>1
  <2>6. JournalInv'
    BY <1>1, <1>2, <1>3, <1>4, <1>6, <2>1, <2>5 DEF JournalInv, Owed, Serving
  <2>7. QED
    BY <2>2, <2>3, <2>4, <2>6
<1>9. QED
  BY <1>7, <1>8 DEF Transition

-----------------------------------------------------------------------------
\* Settling a request gives it an end; the others keep their records.
LEMMA SettledFact ==
    ASSUME TypeOK, NEW S \in SUBSET Unsettled
    PROVE  /\ Settled(S) \in Table
           /\ \A r \in Request : Settled(S)[r] # NoRecord <=> records[r] # NoRecord
           /\ \A r \in Request \ S : Settled(S)[r] = records[r]
           /\ \A r \in S : Settled(S)[r].phase \in Final
           /\ \A r \in Request : r \in S => records[r] # NoRecord /\ records[r].phase \notin Final
<1>1. \A r \in S : r \in Request /\ records[r] \in Record /\ records[r].phase \notin Final
  BY NoRecordAssumption DEF Unsettled, Recorded, RestartIsOver, Interrupted, Final, Terminal, TypeOK
<1>2. ASSUME NEW r \in S
      PROVE  /\ [records[r] EXCEPT !.phase = SettledPhase(r)] \in Record
             /\ [records[r] EXCEPT !.phase = SettledPhase(r)].phase \in Final
  <2>1. SettledPhase(r) \in Final
    BY <1>1 DEF SettledPhase, Record, Final
  <2>2. QED
    BY <1>1, <2>1 DEF Record, Terminal
<1>3. \A r \in S : Settled(S)[r] = [records[r] EXCEPT !.phase = SettledPhase(r)]
  BY <1>1 DEF Settled
<1>4. \A r \in Request \ S : Settled(S)[r] = records[r]
  BY DEF Settled
<1>5. Settled(S) \in Table
  BY <1>2, <1>4 DEF Settled, Table, TypeOK
<1>6. \A r \in S : Settled(S)[r] \in Record /\ Settled(S)[r].phase \in Final
  BY <1>2, <1>3
<1>7. \A r \in Request : Settled(S)[r] # NoRecord <=> records[r] # NoRecord
  BY <1>1, <1>4, <1>6, NoRecordAssumption
<1>8. QED
  BY <1>1, <1>4, <1>5, <1>6, <1>7, NoRecordAssumption

\* recover() keeps the invariant: what it tells is on disk, and a record it
\* could not save is as it was.
LEMMA RecoverStep ==
    ASSUME IInv, NEW S \in SUBSET Request, NEW watching, NEW also \in SUBSET Request,
           Recover(S, watching, also), loaded # 0,
           \A r \in also : records[r] # NoRecord,
           UNCHANGED <<hostVars, healthy, active, task, installs>>,
           sockets' = sockets, checking' \subseteq Device,
           observing' \subseteq Device, waiting' \subseteq Request,
           acked' \in SUBSET Request, \A r \in acked' \ acked : healthy /\ records[r] # NoRecord
    PROVE  IInv'
<1> USE DEF IInv
<1>1. /\ S \in SUBSET Unsettled /\ Unsettled \subseteq Request
      /\ records' = Settled(S)
      /\ UNCHANGED <<boots, up, installed, loaded, running>> /\ readable' = readable
  BY DEF Recover, Unsettled, Recorded, hostVars, fileVars, Saved
<1>2. /\ records' \in Table
      /\ \A r \in Request : records'[r] # NoRecord <=> records[r] # NoRecord
      /\ \A r \in Request \ S : records'[r] = records[r]
      /\ \A r \in S : records'[r].phase \in Final
      /\ \A r \in S : records[r] # NoRecord /\ records[r].phase \notin Final
  BY <1>1, SettledFact
<1>3. Unsettled # {} => Serving /\ active = NoRequest
  BY <1>1 DEF Unsettled, Recorded, HostInv
<1>4. \A r \in Request : told'[r] = told[r] \/ (records'[r] # NoRecord /\
          told'[r] = told[r] \cup ({records'[r].phase} \cap Final))
  BY <1>1, <1>2 DEF Recover, TypeOK
<1>5. told' \in [Request -> SUBSET Final]
  BY <1>1 DEF Recover, TypeOK
<1>6. \/ disk' = disk /\ records' = records /\ failures' = failures
      \/ /\ Serving /\ active = NoRequest /\ disk' \in Table /\ failures' \in Nat
         /\ \A r \in Request : records'[r] # NoRecord =>
               /\ disk'[r] # NoRecord
               /\ records'[r].phase \in Final => disk'[r].phase = records'[r].phase
  <2>1. CASE S = {}
    <3>1. records' = records
      BY <1>1, <1>2, <2>1 DEF TypeOK, Table
    <3>2. CASE Unsettled = {}
      BY <2>1, <3>1, <3>2 DEF Recover, fileVars
    <3>3. CASE Unsettled # {}
      <4>1. PICK r \in Unsettled : /\ failures' = failures + 1
                                   /\ disk' \in {disk, Settled({r})}
        BY <2>1, <3>3 DEF Recover
      <4>2. {r} \in SUBSET Unsettled
        BY <4>1
      <4>3. /\ Settled({r}) \in Table
            /\ \A q \in Request : Settled({r})[q] # NoRecord <=> records[q] # NoRecord
            /\ \A q \in Request \ {r} : Settled({r})[q] = records[q]
            /\ r \in Request /\ records[r].phase \notin Final
        BY <1>1, <4>2, SettledFact
      <4>4. failures' \in Nat /\ disk' \in Table
        <5>1. failures' \in Nat
          BY <4>1 DEF TypeOK
        <5>2. disk \in Table
          BY DEF TypeOK, Table
        <5>3. QED
          BY <4>1, <4>3, <5>1, <5>2
      <4>5. CASE disk' = disk
        BY <1>3, <3>1, <3>3, <4>4, <4>5 DEF JournalInv
      <4>6. CASE disk' = Settled({r})
        BY <1>3, <3>1, <3>3, <4>3, <4>4, <4>6
      <4>7. QED
        BY <4>1, <4>5, <4>6
    <3>4. QED
      BY <3>2, <3>3
  <2>2. CASE S # {} /\ S = Unsettled
    BY <1>1, <1>2, <1>3, <2>2 DEF Recover, Saved, TypeOK
  <2>3. CASE S # {} /\ S # Unsettled
    <3>1. PICK r \in Unsettled \ S : /\ failures' = failures + 1
                                     /\ disk' \in {records', Settled(S \cup {r})}
      BY <1>1, <2>3 DEF Recover
    <3>2. S \cup {r} \in SUBSET Unsettled
      BY <1>1, <3>1
    <3>3. /\ Settled(S \cup {r}) \in Table
          /\ \A q \in Request : Settled(S \cup {r})[q] # NoRecord <=> records[q] # NoRecord
          /\ r \in Request /\ records[r].phase \notin Final
      BY <1>1, <3>1, <3>2, SettledFact
    <3>4. \A q \in Request \ {r} : Settled(S \cup {r})[q] = records'[q]
      BY <1>1, <3>1 DEF Settled
    <3>5. failures' \in Nat /\ disk' \in Table
      BY <1>2, <3>1, <3>3 DEF TypeOK
    <3>6. r \notin S /\ records'[r] = records[r]
      BY <1>2, <3>1, <3>3
    <3>7. CASE disk' = records'
      BY <1>3, <3>1, <3>5, <3>7
    <3>8. CASE disk' = Settled(S \cup {r})
      BY <1>2, <1>3, <3>1, <3>3, <3>4, <3>5, <3>6, <3>8
    <3>9. QED
      BY <3>1, <3>7, <3>8
  <2>4. QED
    BY <2>1, <2>2, <2>3
<1>7. TypeOK'
  BY <1>1, <1>2, <1>5, <1>6 DEF TypeOK, Table
<1>8. HostInv'
  BY <1>1, <1>2 DEF HostInv, Serving
<1>9. TaskInv'
  <2>1. SUFFICES ASSUME NEW r \in Request, task[r] # "none"
                 PROVE  /\ told'[r] = {} /\ records'[r] = records[r]
    BY <1>1 DEF TaskInv, Serving
  <2>2. Unsettled = {}
    BY <1>3, <2>1, UpdateAssumption DEF TaskInv
  <2>3. records'[r] = records[r]
    BY <1>1, <1>2, <2>2
  <2>4. QED
    BY <1>4, <2>1, <2>3 DEF TaskInv
<1>10. JournalInv'
  <2>1. CASE disk' = disk /\ records' = records
    BY <1>1, <1>4, <2>1 DEF JournalInv, Owed, Serving, HostInv
  <2>2. CASE ~(disk' = disk /\ records' = records)
    BY <1>1, <1>2, <1>4, <1>6, <2>2 DEF JournalInv, Owed, Serving, TypeOK
  <2>3. QED
    BY <2>1, <2>2
<1>11. QED
  BY <1>7, <1>8, <1>9, <1>10

-----------------------------------------------------------------------------
(* Sockets, the package manager of the Host, and its process.              *)

\* A step that leaves the journal, the operation and what the devices know alone.
LEMMA QuietStep ==
    ASSUME IInv,
           UNCHANGED <<fileVars, boots, up, records, healthy, active, task, toldVars, installs>>,
           installed' \in Nat \ {0}, loaded' \in Nat, running' \in Nat \ {0},
           sockets' \subseteq Device, observing' \subseteq Device, checking' \subseteq Device,
           waiting' \subseteq Request,
           sockets' # {} => loaded' # 0, loaded' # 0 => up /\ running' = loaded'
    PROVE  IInv'
<1> USE DEF IInv
<1>1. UNCHANGED <<disk, readable, failures, boots, up, records, healthy, active, task,
                  acked, told, installs>>
  BY DEF fileVars, toldVars
<1>2. TypeOK'
  BY <1>1 DEF TypeOK
<1>3. HostInv'
  BY <1>1 DEF HostInv, Serving
<1>4. TaskInv'
  BY <1>1 DEF TaskInv, Serving
<1>5. JournalInv'
  BY <1>1 DEF JournalInv, Owed, Serving
<1>6. QED
  BY <1>2, <1>3, <1>4, <1>5

LEMMA ClosedFact ==
    ASSUME TypeOK, NEW D, Closed(D)
    PROVE  /\ sockets' = sockets \ D /\ observing' \subseteq Device
           /\ checking' \subseteq Device /\ waiting' \subseteq Request
BY DEF TypeOK, Closed

LEMMA SocketStep ==
    ASSUME IInv, NEW d \in Device, Connect(d) \/ Disconnect(d)
    PROVE  IInv'
<1>1. TypeOK /\ HostInv
  BY DEF IInv
<1>2. CASE Connect(d)
  <2>1. /\ UNCHANGED <<fileVars, boots, up, records, healthy, active, task, toldVars, installs,
                       installed, loaded, running, observing, waiting, checking>>
        /\ loaded # 0 /\ sockets' \subseteq Device
    BY <1>1, <1>2 DEF Connect, hostVars, TypeOK
  <2>2. QED
    BY <1>1, <2>1, QuietStep DEF TypeOK, HostInv
<1>3. CASE Disconnect(d)
  <2>1. /\ UNCHANGED <<fileVars, boots, up, records, healthy, active, task, toldVars, installs,
                       installed, loaded, running>>
        /\ Closed({d})
    BY <1>3 DEF Disconnect, hostVars
  <2>2. sockets' \subseteq sockets /\ observing' \subseteq Device
        /\ checking' \subseteq Device /\ waiting' \subseteq Request
    BY <1>1, <2>1, ClosedFact
  <2>3. QED
    BY <1>1, <2>1, <2>2, QuietStep DEF TypeOK, HostInv
<1>4. QED
  BY <1>2, <1>3

LEMMA PackageStep ==
    ASSUME IInv, HostUnloads \/ HostInstalls \/ HostLoads
    PROVE  IInv'
<1>1. TypeOK /\ HostInv /\ TaskInv
  BY DEF IInv
<1>2. CASE HostUnloads
  <2>1. /\ UNCHANGED <<fileVars, boots, up, records, healthy, active, task, toldVars, installs,
                       installed, running>>
        /\ loaded' = 0 /\ Closed(Device)
    BY <1>2 DEF HostUnloads
  <2>2. sockets' = {} /\ observing' \subseteq Device
        /\ checking' \subseteq Device /\ waiting' \subseteq Request
    BY <1>1, <2>1, ClosedFact DEF TypeOK
  <2>3. QED
    BY <1>1, <2>1, <2>2, QuietStep DEF TypeOK
<1>3. CASE HostInstalls
  <2>1. /\ UNCHANGED <<fileVars, boots, up, records, healthy, active, task, toldVars, installs,
                       loaded, running, sockets, observing, waiting, checking>>
        /\ \E r \in Request : task[r] = "install" /\ installed' \in {To[r], records[r].from}
    BY <1>3 DEF HostInstalls, deviceVars
  <2>2. installed' \in Nat \ {0}
    BY <1>1, <2>1, UpdateAssumption DEF TaskInv, TypeOK, Record
  <2>3. QED
    BY <1>1, <2>1, <2>2, QuietStep DEF TypeOK, HostInv
<1>4. CASE HostLoads
  <2>1. /\ UNCHANGED <<fileVars, boots, up, records, healthy, active, task, toldVars, installs,
                       installed, sockets, observing, waiting, checking>>
        /\ up /\ loaded' = installed /\ running' = installed
    BY <1>4 DEF HostLoads, deviceVars
  <2>2. QED
    BY <1>1, <2>1, QuietStep DEF TypeOK
<1>5. QED
  BY <1>2, <1>3, <1>4

\* The process dies: memory is gone, and what is owed stays on disk.
LEMMA DiesStep == ASSUME IInv, HostDies PROVE IInv'
<1> USE DEF IInv
<1>1. /\ UNCHANGED <<disk, readable, failures, boots, installed, running, acked, told,
                     healthy, installs>>
      /\ up' = FALSE /\ loaded' = 0 /\ active' = NoRequest
      /\ task' = [r \in Request |-> "none"] /\ records' = [r \in Request |-> NoRecord]
  BY DEF HostDies, fileVars, toldVars
<1>2. sockets' = {} /\ observing' \subseteq Device
      /\ checking' \subseteq Device /\ waiting' \subseteq Request
  BY ClosedFact DEF HostDies, TypeOK
<1>3. TypeOK'
  BY <1>1, <1>2 DEF TypeOK, Stage
<1>4. HostInv' /\ TaskInv'
  BY <1>1, <1>2 DEF HostInv, TaskInv, Serving
<1>5. JournalInv'
  BY <1>1 DEF JournalInv, Owed, Serving
<1>6. QED
  BY <1>3, <1>4, <1>5

\* The next process reads the journal, or serves no update.
LEMMA BootsStep == ASSUME IInv, HostBoots PROVE IInv'
<1> USE DEF IInv
<1>1. /\ UNCHANGED <<disk, readable, failures, installed, sockets, observing, waiting, checking,
                     acked, told, active, task, installs>>
      /\ ~up /\ up' = TRUE /\ boots' = boots + 1
      /\ loaded' = installed /\ running' = installed
      /\ records' = (IF readable THEN disk ELSE records) /\ healthy' = readable
  BY DEF HostBoots, fileVars, deviceVars, toldVars, Healthy
<1>2. (\A r \in Request : task[r] = "none") /\ \A r \in Request : records[r] = NoRecord
  BY <1>1 DEF HostInv, TaskInv, Serving
<1>3. TypeOK'
  BY <1>1 DEF TypeOK
<1>4. HostInv' /\ TaskInv'
  BY <1>1, <1>2, <1>3 DEF HostInv, TaskInv, Serving, TypeOK
<1>5. JournalInv'
  BY <1>1, <1>2 DEF JournalInv, Owed, Serving
<1>6. QED
  BY <1>3, <1>4, <1>5

LEMMA DamagedStep == ASSUME IInv, JournalIsDamaged PROVE IInv'
<1> USE DEF IInv
<1>1. /\ UNCHANGED <<disk, failures, boots, up, installed, loaded, running, sockets, observing,
                     waiting, checking, acked, told, records, healthy, active, task, installs>>
      /\ readable' = FALSE
  BY DEF JournalIsDamaged, hostVars, deviceVars, toldVars
<1>2. TypeOK'
  BY <1>1 DEF TypeOK
<1>3. HostInv' /\ TaskInv' /\ JournalInv'
  BY <1>1 DEF HostInv, TaskInv, JournalInv, Owed, Serving
<1>4. QED
  BY <1>2, <1>3

-----------------------------------------------------------------------------
(* apply() and check().                                                    *)

LEMMA KnownStep == ASSUME IInv, NEW r \in Request, ApplyKnown(r) PROVE IInv'
<1>1. /\ TypeOK /\ loaded # 0 /\ healthy /\ records[r] # NoRecord
      /\ UNCHANGED <<hostVars, healthy, active, task, installs>>
      /\ sockets' = sockets /\ waiting' = waiting /\ checking' = checking
  BY DEF ApplyKnown, IInv, HostInv
<1>2. Unsettled \subseteq Request
  BY DEF Unsettled, Recorded
<1>3. CASE Recover(Unsettled, observing, {r}) /\ Acknowledge(r, records'[r].phase)
  <2>1. /\ acked' \in SUBSET Request
        /\ \A q \in acked' \ acked : healthy /\ records[q] # NoRecord
        /\ observing' \subseteq Device
    BY <1>1, <1>3, UpdateAssumption DEF Acknowledge, TypeOK
  <2>2. {r} \in SUBSET Request /\ \A q \in {r} : records[q] # NoRecord
    BY <1>1
  <2>3. QED
    BY <1>1, <1>2, <1>3, <2>1, <2>2, RecoverStep DEF TypeOK
<1>4. ASSUME NEW S \in SUBSET Unsettled, Recover(S, observing, {}),
             UNCHANGED <<acked, observing>>
      PROVE  IInv'
  BY <1>1, <1>2, <1>4, RecoverStep DEF TypeOK
<1>5. QED
  BY <1>3, <1>4 DEF ApplyKnown

LEMMA CheckStep == ASSUME IInv, NEW d \in Device, Check(d) PROVE IInv'
<1>1. /\ TypeOK /\ loaded # 0
      /\ UNCHANGED <<hostVars, healthy, active, task, installs>>
      /\ sockets' = sockets /\ waiting' = waiting /\ acked' = acked
      /\ checking' \subseteq Device /\ observing' \subseteq Device
  BY DEF Check, IInv, HostInv, TypeOK
<1>2. PICK S \in SUBSET Unsettled : Recover(S, observing', {})
  BY DEF Check
<1>3. S \in SUBSET Request
  BY DEF Unsettled, Recorded
<1>4. QED
  BY <1>1, <1>2, <1>3, RecoverStep DEF TypeOK

LEMMA RepliesStep == ASSUME IInv, NEW d \in Device, CheckReplies(d) PROVE IInv'
<1> USE DEF IInv
<1>1. /\ UNCHANGED <<disk, readable, failures, boots, up, installed, loaded, running, sockets,
                     observing, waiting, acked, records, healthy, active, task, installs>>
      /\ checking' \subseteq Device
  BY DEF CheckReplies, fileVars, hostVars, TypeOK
<1>2. /\ told' \in [Request -> SUBSET Final]
      /\ \A r \in Request : told'[r] = told[r] \/
            (records[r] # NoRecord /\ told'[r] = told[r] \cup ({records[r].phase} \cap Final))
  BY DEF CheckReplies, LastOf, Recorded, TypeOK
<1>3. TypeOK'
  BY <1>1, <1>2 DEF TypeOK
<1>4. HostInv'
  BY <1>1 DEF HostInv, Serving
<1>5. TaskInv'
  BY <1>1, <1>2 DEF TaskInv, Serving
<1>6. JournalInv'
  BY <1>1, <1>2 DEF JournalInv, Owed, Serving
<1>7. QED
  BY <1>3, <1>4, <1>5, <1>6

\* A new request takes the place of the active one before its first await:
\* nobody relies on it yet, since the journal does not know it.
LEMMA NewStep == ASSUME IInv, NEW r \in Request, ApplyNew(r) PROVE IInv'
<1> USE DEF IInv
<1>1. /\ UNCHANGED <<disk, readable, failures, boots, up, installed, loaded, running, sockets,
                     observing, checking, acked, told, records, healthy, installs>>
      /\ waiting' \subseteq Request
      /\ active' = r /\ task' = [task EXCEPT ![r] = "prepare"]
      /\ records[r] = NoRecord /\ active = NoRequest
  BY DEF ApplyNew, Busy, fileVars, hostVars, toldVars, TypeOK
<1>2. Serving
  BY DEF ApplyNew, HostInv, Serving
<1>3. told[r] = {} /\ installs[r] = 0
  BY <1>1, <1>2 DEF JournalInv, Owed
<1>4. \A q \in Request : task[q] = "none"
  BY <1>1, UpdateAssumption DEF TaskInv
<1>5. TypeOK'
  BY <1>1 DEF TypeOK, Stage
<1>6. TaskInv'
  <2>1. \A q \in Request \ {r} : task'[q] = "none"
    BY <1>1, <1>4 DEF TypeOK
  <2>2. task'[r] = "prepare"
    BY <1>1 DEF TypeOK
  <2>3. QED
    BY <1>1, <1>2, <1>3, <2>1, <2>2 DEF TaskInv, Serving
<1>7. HostInv' /\ JournalInv'
  BY <1>1 DEF HostInv, JournalInv, Owed, Serving
<1>8. QED
  BY <1>5, <1>6, <1>7

LEMMA AgainStep == ASSUME IInv, NEW r \in Request, ApplyAgain(r) PROVE IInv'
<1>1. /\ UNCHANGED <<fileVars, boots, up, records, healthy, active, task, toldVars, installs,
                     installed, loaded, running, sockets, observing, checking>>
      /\ waiting' = waiting \cup {r}
  BY DEF ApplyAgain, hostVars
<1>2. QED
  BY <1>1, QuietStep DEF IInv, TypeOK, HostInv

-----------------------------------------------------------------------------
(* The operation of a request.                                             *)

\* The operation goes to a stage that needs no more than it has, or it ends.
LEMMA StageStep ==
    ASSUME IInv, NEW r \in Request, task[r] # "none", NEW stage \in Stage \ {"prepare", "accepted"},
           stage = "none" \/ task[r] # "prepare",
           task' = [task EXCEPT ![r] = stage],
           active' = (IF stage = "none" THEN NoRequest ELSE active),
           UNCHANGED <<readable, hostVars, sockets, checking, toldVars, observing,
                       records, healthy, installs>>,
           waiting' \subseteq Request, failures' \in Nat, disk' \in Table,
           \A q \in Request : q # r => disk'[q] \in {disk[q], records[q]},
           disk'[r] # disk[r] => task[r] = "prepare"
    PROVE  IInv'
<1> USE DEF IInv
<1>1. UNCHANGED <<readable, boots, up, installed, loaded, running, sockets, checking, acked,
                  told, observing, records, healthy, installs>>
  BY DEF hostVars, toldVars
<1>2. /\ active = r /\ Serving
      /\ task[r] = "prepare" => ~Owed(r) /\ records[r] = NoRecord
  BY DEF TaskInv, JournalInv, Owed
<1>3. /\ \A q \in Request \ {r} : task[q] = "none" /\ task'[q] = "none"
      /\ task'[r] = stage
  BY <1>2 DEF TaskInv, TypeOK
<1>4. TypeOK'
  BY <1>1 DEF TypeOK, Table
<1>5. HostInv'
  BY <1>1 DEF HostInv, Serving
<1>6. TaskInv'
  BY <1>1, <1>2, <1>3 DEF TaskInv, Serving
<1>7. JournalInv'
  BY <1>1, <1>2 DEF JournalInv, Owed, Serving
<1>8. QED
  BY <1>4, <1>5, <1>6, <1>7

LEMMA NewRecordFact == TypeOK /\ loaded # 0 => NewRecord \in Record /\ NewRecord.phase = "preparing"
<1>1. Recorded(records) \subseteq Request
  BY DEF Recorded
<1>2. Cardinality(Recorded(records)) \in Nat
  BY <1>1, UpdateAssumption, FS_Subset, FS_CardinalityType
<1>3. QED
  BY <1>2 DEF NewRecord, Record, TypeOK

\* Once the record is saved the request is accepted; a save that throws takes
\* the record out again, and nobody relies on what it may have left on disk.
LEMMA PreparedStep == ASSUME IInv, NEW r \in Request, Prepared(r) PROVE IInv'
<1> DEFINE recs == [records EXCEPT ![r] = NewRecord]
<1>1. /\ UNCHANGED <<readable, boots, up, installed, loaded, running, sockets, checking,
                     told, healthy, installs>>
      /\ waiting' \subseteq Request /\ loaded # 0 /\ task[r] = "prepare"
  BY DEF IInv, Prepared, Saved, SaveFails, hostVars, TypeOK, toldVars
<1>2. NewRecord \in Record /\ NewRecord.phase = "preparing"
  BY <1>1, NewRecordFact DEF IInv
<1>3. /\ recs \in Table /\ recs[r] = NewRecord /\ recs[r] # NoRecord
      /\ \A q \in Request \ {r} : recs[q] = records[q]
  BY <1>2, NoRecordAssumption DEF IInv, TypeOK, Table
<1>4. active = r /\ Serving /\ told[r] = {} /\ installs[r] = 0 /\ records[r] = NoRecord
  BY <1>1 DEF IInv, TaskInv
<1>5. CASE /\ Saved(recs) /\ records' = recs /\ active' = active
           /\ task' = [task EXCEPT ![r] = "accepted"]
           /\ Acknowledge(r, "preparing") \/ UNCHANGED <<acked, observing>>
  <2> USE DEF IInv
  <2>1. /\ disk' = recs /\ failures' = failures
        /\ task' \in [Request -> Stage] /\ task'[r] = "accepted"
        /\ \A q \in Request \ {r} : task[q] = "none" /\ task'[q] = "none"
    BY <1>4, <1>5 DEF Saved, TypeOK, Stage, TaskInv
  <2>2. observing' \subseteq Device /\ acked' \subseteq Request /\ acked' \subseteq acked \cup {r}
    <3>1. CASE Acknowledge(r, "preparing")
      BY <3>1, UpdateAssumption DEF Acknowledge, TypeOK
    <3>2. CASE UNCHANGED <<acked, observing>>
      BY <3>2 DEF TypeOK
    <3>3. QED
      BY <1>5, <3>1, <3>2
  <2>3. TypeOK'
    BY <1>1, <1>3, <1>5, <2>1, <2>2 DEF TypeOK, Table
  <2>4. HostInv'
    BY <1>1, <1>4 DEF HostInv, Serving
  <2>5. TaskInv'
    BY <1>1, <1>2, <1>3, <1>4, <1>5, <2>1 DEF TaskInv, Serving, Final
  <2>6. JournalInv'
    BY <1>1, <1>3, <1>4, <1>5, <2>1, <2>2 DEF JournalInv, Owed, Serving
  <2>7. QED
    BY <2>3, <2>4, <2>5, <2>6
<1>6. CASE SaveFails(recs) /\ Ended(r) /\ UNCHANGED <<records, toldVars, observing>>
  <2>1. failures' \in Nat /\ disk' \in {disk, recs}
    BY <1>6 DEF SaveFails, IInv, TypeOK
  <2>2. disk' \in Table /\ \A q \in Request : q # r => disk'[q] \in {disk[q], records[q]}
    BY <1>3, <2>1 DEF IInv, TypeOK, Table
  <2>3. task' = [task EXCEPT ![r] = "none"] /\ active' = NoRequest
    BY <1>4, <1>6 DEF Ended
  <2>4. UNCHANGED hostVars
    BY <1>1 DEF hostVars
  <2>5. QED
    BY <1>1, <1>6, <2>1, <2>2, <2>3, <2>4, StageStep DEF Stage
<1>7. QED
  BY <1>5, <1>6 DEF Prepared

LEMMA PrepareFailsStep == ASSUME IInv, NEW r \in Request, PrepareFails(r) PROVE IInv'
<1>1. /\ task[r] = "prepare" /\ task' = [task EXCEPT ![r] = "none"] /\ active' = NoRequest
      /\ UNCHANGED <<fileVars, hostVars, sockets, checking, toldVars, observing,
                     records, healthy, installs>>
      /\ waiting' \subseteq Request
  BY DEF PrepareFails, Ended, IInv, TaskInv, TypeOK
<1>2. /\ UNCHANGED <<disk, readable, failures>> /\ disk \in Table /\ failures \in Nat
  BY <1>1 DEF fileVars, IInv, TypeOK, Table
<1>3. QED
  BY <1>1, <1>2, StageStep DEF Stage

\* A call of the Host that throws, or one that restored the version before.
LEMMA WaitsStep ==
    ASSUME IInv, NEW r \in Request, task[r] \notin {"none", "prepare"},
           NEW stage \in {"throws", "restored"}, task' = [task EXCEPT ![r] = stage],
           UNCHANGED <<fileVars, hostVars, deviceVars, toldVars, records, healthy, active, installs>>
    PROVE  IInv'
<1>1. /\ UNCHANGED <<disk, readable, failures, sockets, observing, waiting, checking>>
      /\ disk \in Table /\ failures \in Nat /\ waiting \subseteq Request
  BY DEF fileVars, deviceVars, IInv, TypeOK, Table
<1>2. QED
  BY <1>1, StageStep DEF Stage

\* What the operation does after it is accepted.
LEMMA RunStep ==
    ASSUME IInv, NEW r \in Request,
           RunStarts(r) \/ UpdateReturns(r) \/ Restored(r) \/ Verified(r) \/ RunFails(r)
    PROVE  IInv'
<1> USE DEF Phase, Terminal, Final, Stage
<1>1. CASE RunStarts(r)
  <2>1. /\ task[r] = "accepted" /\ Transition(records, r, "installing", "install", "throws")
        /\ \/ installs' = installs
           \/ installs' = [installs EXCEPT ![r] = @ + 1]
    BY <1>1 DEF RunStarts
  <2>2. QED
    BY <2>1, TransitionStep
<1>2. CASE UpdateReturns(r)
  <2>1. task[r] = "install" /\ installs' = installs
    BY <1>2 DEF UpdateReturns
  <2>2. CASE Throws(r)
    BY <2>1, <2>2, WaitsStep DEF Throws
  <2>3. CASE Transition(records, r, "failed", "none", "throws")
    BY <2>1, <2>3, TransitionStep
  <2>4. CASE \/ Transition(records, r, "restart-required", "none", "throws")
             \/ Transition(records, r, "verifying", "verify", "throws")
    BY <2>1, <2>4, TransitionStep
  <2>5. CASE Transition([records EXCEPT ![r].restartAs = "rolled-back"], r,
                        "restart-required", "none", "throws")
    BY <2>1, <2>5, TransitionStep
  <2>6. CASE /\ task' = [task EXCEPT ![r] = "restored"]
             /\ UNCHANGED <<fileVars, hostVars, deviceVars, toldVars, records, healthy, active>>
    BY <2>1, <2>6, WaitsStep
  <2>7. QED
    BY <1>2, <2>2, <2>3, <2>4, <2>5, <2>6 DEF UpdateReturns
<1>3. CASE Restored(r)
  <2>1. task[r] = "restored" /\ installs' = installs
    BY <1>3 DEF Restored
  <2>2. CASE Throws(r)
    BY <2>1, <2>2, WaitsStep DEF Throws
  <2>3. ASSUME NEW phase \in {"rolled-back", "failed"},
               Transition(records, r, phase, "none", "throws")
        PROVE  IInv'
    BY <2>1, <2>3, TransitionStep
  <2>4. QED
    BY <1>3, <2>2, <2>3 DEF Restored
<1>4. CASE Verified(r)
  <2>1. task[r] = "verify" /\ installs' = installs
    BY <1>4 DEF Verified
  <2>2. CASE Throws(r)
    BY <2>1, <2>2, WaitsStep DEF Throws
  <2>3. Outcome(r) \in Phase
    BY DEF Outcome
  <2>4. CASE Transition(records, r, Outcome(r), "none", "throws")
    BY <2>1, <2>3, <2>4, TransitionStep
  <2>5. QED
    BY <1>4, <2>2, <2>4 DEF Verified
<1>5. CASE RunFails(r)
  <2>1. /\ task[r] = "throws" /\ installs' = installs
        /\ Transition(records, r, "failed", "none", "none")
    BY <1>5 DEF RunFails
  <2>2. QED
    BY <2>1, TransitionStep
<1>6. QED
  BY <1>1, <1>2, <1>3, <1>4, <1>5

-----------------------------------------------------------------------------
LEMMA SafeStep == IInv /\ [Next]_vars => IInv'
<1> SUFFICES ASSUME IInv, [Next]_vars PROVE IInv'
  OBVIOUS
<1>1. CASE UNCHANGED vars
  BY <1>1 DEF vars, fileVars, hostVars, deviceVars, toldVars, IInv, TypeOK, HostInv, TaskInv,
              JournalInv, Owed, Serving
<1>2. ASSUME NEW d \in Device, Connect(d) \/ Disconnect(d) PROVE IInv'
  BY <1>2, SocketStep
<1>3. ASSUME NEW d \in Device, Check(d) \/ CheckReplies(d) PROVE IInv'
  BY <1>3, CheckStep, RepliesStep
<1>4. CASE HostUnloads \/ HostInstalls \/ HostLoads
  BY <1>4, PackageStep
<1>5. CASE HostDies \/ HostBoots \/ JournalIsDamaged
  BY <1>5, DiesStep, BootsStep, DamagedStep
<1>6. ASSUME NEW r \in Request, ApplyKnown(r) \/ ApplyAgain(r) \/ ApplyNew(r) PROVE IInv'
  BY <1>6, KnownStep, AgainStep, NewStep
<1>7. ASSUME NEW r \in Request, PrepareFails(r) \/ Prepared(r) PROVE IInv'
  BY <1>7, PrepareFailsStep, PreparedStep
<1>8. ASSUME NEW r \in Request,
             RunStarts(r) \/ UpdateReturns(r) \/ Restored(r) \/ Verified(r) \/ RunFails(r)
      PROVE  IInv'
  BY <1>8, RunStep
<1>9. QED
  BY <1>1, <1>2, <1>3, <1>4, <1>5, <1>6, <1>7, <1>8 DEF Next, Operation

LEMMA SafeSpec == Spec => []IInv
BY StartFact, SafeStep, PTL DEF Spec

\* The journal, the cell of the process and what the devices know keep their
\* types: an operation that fails anywhere never leaves half a record.
THEOREM UpdateTypes == Spec => []TypeOK
BY SafeSpec, PTL DEF IInv

\* A request calls updateBundle() at most once, and never while another is
\* being installed, whatever dies or cannot be written in between.
THEOREM InstalledOnce == Spec => []InstallsOnce
BY SafeSpec, OnceFact, PTL

\* What a device was told of the end of its request is on disk and stays, and
\* an accepted request is never forgotten.
THEOREM WordHolds == Spec => []WordIsKept
BY SafeSpec, WordFact, PTL

-----------------------------------------------------------------------------
(* Which end a record may get.                                             *)

TrueEnd(r) ==
    records[r] # NoRecord /\ records'[r] # NoRecord /\ records'[r] # records[r] =>
        /\ records'[r].phase = "done" => running = To[r]
        /\ records'[r].phase = "rolled-back" => records[r].from \in {installed, running}

\* A record that recover() settles is settled by the copy that is loaded, which runs.
LEMMA RecoverEnd ==
    ASSUME IInv, NEW S \in SUBSET Unsettled, NEW watching, NEW also, Recover(S, watching, also),
           loaded # 0, NEW r \in Request
    PROVE  TrueEnd(r)
<1>1. running = loaded /\ records' = Settled(S)
  BY DEF IInv, HostInv, Recover
<1>2. CASE r \notin S
  BY <1>1, <1>2, SettledFact DEF IInv, TrueEnd
<1>3. CASE r \in S
  <2>1. records[r] \in Record
    BY <1>3, SettledFact DEF IInv, TypeOK
  <2>2. records'[r] = [records[r] EXCEPT !.phase = SettledPhase(r)]
    BY <1>1, <1>3 DEF Settled
  <2>3. records'[r].phase = SettledPhase(r)
    BY <2>1, <2>2 DEF Record
  <2>4. /\ SettledPhase(r) = "done" => loaded = To[r]
        /\ SettledPhase(r) = "rolled-back" => loaded = records[r].from
    BY <2>1 DEF SettledPhase, RestartIsOver, Record
  <2>5. QED
    BY <1>1, <2>3, <2>4 DEF TrueEnd
<1>4. QED
  BY <1>2, <1>3

\* A transition changes the record of its own request only, and gives it the
\* phase it was asked for or, when its save throws, none that is an end.
LEMMA TransitionEnd ==
    ASSUME IInv, NEW r \in Request, task[r] \notin {"none", "prepare"},
           NEW recs \in {records, [records EXCEPT ![r].restartAs = "rolled-back"]},
           NEW phase \in Phase, NEW then, NEW otherwise, Transition(recs, r, phase, then, otherwise),
           phase = "done" => running = To[r],
           phase = "rolled-back" => records[r].from \in {installed, running},
           NEW q \in Request
    PROVE  TrueEnd(q)
<1>1. TypeOK /\ records[r] # NoRecord /\ records[r].phase \notin Final
  BY DEF IInv, TaskInv
<1>2. /\ recs \in Table /\ recs[r] # NoRecord /\ recs[r].phase = records[r].phase
      /\ \A s \in Request \ {r} : recs[s] = records[s]
  BY <1>1, MarkFact
<1>3. /\ With(recs, r, phase)[r].phase = phase
      /\ \A s \in Request \ {r} : With(recs, r, phase)[s] = records[s]
  BY <1>1, <1>2, WithFact DEF TypeOK
<1>4. records' = With(recs, r, phase) \/ records' = recs
  BY DEF Transition, NotSaved
<1>5. CASE q # r
  BY <1>2, <1>3, <1>4, <1>5 DEF TrueEnd
<1>6. CASE q = r
  BY <1>1, <1>2, <1>3, <1>4, <1>6 DEF TrueEnd, Final
<1>7. QED
  BY <1>5, <1>6

LEMMA RunEnd ==
    ASSUME IInv, NEW r \in Request,
           RunStarts(r) \/ UpdateReturns(r) \/ Restored(r) \/ Verified(r) \/ RunFails(r),
           NEW q \in Request
    PROVE  TrueEnd(q)
<1> USE DEF Phase, Terminal, Final
<1>1. task[r] \notin {"none", "prepare"}
  BY DEF RunStarts, UpdateReturns, Restored, Verified, RunFails
<1>2. CASE UNCHANGED records
  BY <1>2 DEF TrueEnd
<1>3. ASSUME NEW recs \in {records, [records EXCEPT ![r].restartAs = "rolled-back"]},
             NEW phase \in Phase \ {"done", "rolled-back"}, NEW then, NEW otherwise,
             Transition(recs, r, phase, then, otherwise)
      PROVE  TrueEnd(q)
  BY <1>1, <1>3, TransitionEnd
<1>4. CASE Restored(r)
  <2>1. CASE installed = records[r].from /\ Transition(records, r, "rolled-back", "none", "throws")
    BY <1>1, <2>1, TransitionEnd
  <2>2. QED
    BY <1>2, <1>3, <1>4, <2>1 DEF Restored, Throws
<1>5. CASE Verified(r)
  <2>1. CASE Transition(records, r, Outcome(r), "none", "throws")
    <3>1. /\ Outcome(r) \in Phase \ {"rolled-back"}
          /\ Outcome(r) = "done" => running = To[r]
      BY DEF Outcome
    <3>2. QED
      BY <1>1, <2>1, <3>1, TransitionEnd
  <2>2. QED
    BY <1>2, <1>5, <2>1 DEF Verified, Throws
<1>6. CASE RunStarts(r)
  BY <1>3, <1>6 DEF RunStarts
<1>7. CASE RunFails(r)
  BY <1>3, <1>7 DEF RunFails
<1>8. CASE UpdateReturns(r)
  <2>1. CASE \/ Transition(records, r, "failed", "none", "throws")
             \/ Transition(records, r, "restart-required", "none", "throws")
             \/ Transition(records, r, "verifying", "verify", "throws")
    BY <1>3, <2>1
  <2>2. CASE Transition([records EXCEPT ![r].restartAs = "rolled-back"], r,
                        "restart-required", "none", "throws")
    BY <1>3, <2>2
  <2>3. QED
    BY <1>2, <1>8, <2>1, <2>2 DEF UpdateReturns, Throws
<1>9. QED
  BY <1>4, <1>5, <1>6, <1>7, <1>8

LEMMA TrueEndStep == ASSUME IInv, [Next]_vars, NEW r \in Request PROVE TrueEnd(r)
<1>1. CASE UNCHANGED records
  BY <1>1 DEF TrueEnd
<1>2. CASE HostDies \/ HostBoots
  BY <1>2 DEF HostDies, HostBoots, IInv, HostInv, Serving, TrueEnd
<1>3. ASSUME NEW d \in Device, Check(d) PROVE TrueEnd(r)
  BY <1>3, RecoverEnd DEF Check, IInv, HostInv
<1>4. ASSUME NEW q \in Request, ApplyKnown(q) PROVE TrueEnd(r)
  <2>1. loaded # 0
    BY <1>4 DEF ApplyKnown, IInv, HostInv
  <2>2. Unsettled \in SUBSET Unsettled
    OBVIOUS
  <2>3. QED
    BY <1>4, <2>1, <2>2, RecoverEnd DEF ApplyKnown
<1>5. ASSUME NEW q \in Request, Prepared(q) PROVE TrueEnd(r)
  <2>1. task[q] = "prepare" /\ records[q] = NoRecord
    BY <1>5 DEF Prepared, IInv, TaskInv
  <2>2. records' = records \/ records' = [records EXCEPT ![q] = NewRecord]
    BY <1>5 DEF Prepared
  <2>3. QED
    BY <2>1, <2>2 DEF TrueEnd, IInv, TypeOK
<1>6. ASSUME NEW q \in Request,
             RunStarts(q) \/ UpdateReturns(q) \/ Restored(q) \/ Verified(q) \/ RunFails(q)
      PROVE  TrueEnd(r)
  BY <1>6, RunEnd
<1>7. ASSUME NEW d \in Device, Connect(d) \/ Disconnect(d) \/ CheckReplies(d)
      PROVE  UNCHANGED records
  BY <1>7 DEF Connect, Disconnect, CheckReplies
<1>8. ASSUME NEW q \in Request, ApplyAgain(q) \/ ApplyNew(q) \/ PrepareFails(q)
      PROVE  UNCHANGED records
  BY <1>8 DEF ApplyAgain, ApplyNew, PrepareFails
<1>9. CASE UNCHANGED vars \/ HostUnloads \/ HostInstalls \/ HostLoads \/ JournalIsDamaged
  BY <1>1, <1>9 DEF vars, HostUnloads, HostInstalls, HostLoads, JournalIsDamaged
<1>10. QED
  BY <1>1, <1>2, <1>3, <1>4, <1>5, <1>6, <1>7, <1>8, <1>9 DEF Next, Operation

\* "done" is only said of the target that runs, and "rolled-back" of the version
\* before it, by whichever of the operation, a check or a later process ends it.
THEOREM EndsAreTrue == Spec => DoneIsTrue
<1>1. IInv /\ [Next]_vars => [\A r \in Request : TrueEnd(r)]_vars
  BY TrueEndStep
<1>2. QED
  BY <1>1, SafeSpec, PTL DEF Spec, DoneIsTrue, TrueEnd
=============================================================================
