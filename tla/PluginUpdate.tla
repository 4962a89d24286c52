---------------------------- MODULE PluginUpdate ----------------------------
(***************************************************************************)
(* The update of the plugin by itself (plugin-update.ts) and its two       *)
(* requests (wire-plugin-update.ts). The Host's package manager replaces   *)
(* the plugin while the update runs: the copy that accepted the request is *)
(* unloaded, its sockets are closed, and another copy finds the operation  *)
(* in a cell of the process. What must outlive the process is in a journal *)
(* that is written, synchronized and renamed; a failure behind the rename  *)
(* has written it all the same.                                            *)
(*                                                                         *)
(* An action is a handler from one await to the next. A definition named   *)
(* X_Fault is X with a fault, kept to show that the properties can tell    *)
(* them apart; the specification does not use it.                          *)
(***************************************************************************)
EXTENDS Naturals, FiniteSets

CONSTANTS Request, Device, Owner, \* update requests, and the device of each
          To,                     \* the version each request asks for
          First,                  \* the version installed at first
          NoRequest, NoRecord,
          MaxRecords,             \* records the journal holds (128)
          MaxBoots, MaxFailures   \* bounds: Host processes, writes that fail

ASSUME UpdateAssumption ==
    /\ Owner \in [Request -> Device]
    /\ First \in Nat \ {0} /\ To \in [Request -> Nat \ {0}]
    /\ NoRequest \notin Request
    /\ IsFiniteSet(Request) \* those of a run
    /\ MaxRecords \in Nat /\ MaxBoots \in Nat /\ MaxFailures \in Nat

VARIABLES disk, readable,       \* the journal file, and whether it can be read
          boots, up,            \* bootId, and whether the Host runs
          records, healthy,     \* the cell of the process: SharedState
          running, active,
          task,                 \* what the operation of a request waits for
          installed, loaded,    \* the package installed, the copy loaded (0 if none)
          sockets, observing,   \* devices that are connected, and those told of progress
          waiting, checking,    \* apply() and check() calls under way
          acked, told,          \* requests accepted, and the ends the devices heard of
          installs,             \* calls of updateBundle()
          failures              \* writes that failed so far

fileVars == <<disk, readable, failures>>
hostVars == <<boots, up, installed, loaded, running>>
deviceVars == <<sockets, observing, waiting, checking>>
toldVars == <<acked, told>>
vars == <<fileVars, hostVars, deviceVars, toldVars, records, healthy, active, task, installs>>

Final == {"done", "rolled-back", "failed"}
Terminal == Final \cup {"restart-required"}
Recorded(recs) == {r \in Request : recs[r] # NoRecord}

Record == [phase : Terminal \cup {"preparing", "installing", "verifying"}, from : Nat \ {0}, boot : Nat,
           restartAs : {"done", "rolled-back"}, position : Nat]
Stage == {"none", "prepare", "accepted", "install", "restored", "verify", "throws"}

ASSUME NoRecordAssumption == NoRecord \notin Record

Init ==
    /\ disk = [r \in Request |-> NoRecord] /\ readable = TRUE /\ failures = 0
    /\ boots = 1 /\ up = TRUE
    /\ records = disk /\ healthy = TRUE
    /\ installed = First /\ loaded = First /\ running = First
    /\ active = NoRequest
    /\ task = [r \in Request |-> "none"]
    /\ sockets = {} /\ observing = {} /\ waiting = {} /\ checking = {}
    /\ acked = {}
    /\ told = [r \in Request |-> {}]
    /\ installs = [r \in Request |-> 0]

-----------------------------------------------------------------------------
(* save() and transition()                                                 *)

Saved(recs) == disk' = recs /\ UNCHANGED <<readable, failures>>

SaveFails(recs) ==
    /\ failures < MaxFailures
    /\ failures' = failures + 1
    /\ disk' \in {disk, recs}
    /\ UNCHANGED readable

With(recs, r, phase) ==
    [recs EXCEPT ![r].phase = phase,
                 ![r].boot = IF phase = "restart-required" THEN boots ELSE @]

\* The listeners of the owner hear of a transition that is on disk; the record
\* of one that is not is as before.
Tell(r, phase) ==
    told' = IF Owner[r] \in observing THEN [told EXCEPT ![r] = @ \cup ({phase} \cap Final)] ELSE told

NotSaved_Told(recs, r, phase) == records' = With(recs, r, phase) /\ Tell(r, phase)
NotSaved(recs, r, phase) == records' = recs /\ told' = told

\* What the operation does next: `then`, or `otherwise` when the save throws.
Transition(recs, r, phase, then, otherwise) ==
    /\ \/ /\ Saved(With(recs, r, phase))
          /\ records' = With(recs, r, phase)
          /\ Tell(r, phase)
          /\ task' = [task EXCEPT ![r] = then]
       \/ /\ SaveFails(With(recs, r, phase))
          /\ NotSaved(recs, r, phase)
          /\ task' = [task EXCEPT ![r] = otherwise]
    /\ active' = IF task'[r] = "none" /\ active = r THEN NoRequest ELSE active
    /\ UNCHANGED <<hostVars, deviceVars, acked, healthy>>

-----------------------------------------------------------------------------
(* recover(): what is left of earlier processes, or of a write that failed.*)

RestartIsOver(rec, r) ==
    /\ rec.phase = "restart-required"
    /\ rec.boot # boots
    /\ loaded = IF rec.restartAs = "rolled-back" THEN rec.from ELSE To[r]

Interrupted(rec) == rec.phase \notin Terminal

Unsettled_RestartsOnly == IF active # NoRequest \/ ~healthy THEN {} ELSE
    {r \in Recorded(records) : RestartIsOver(records[r], r)}
Unsettled == IF active # NoRequest \/ ~healthy THEN {} ELSE
    {r \in Recorded(records) : RestartIsOver(records[r], r) \/ Interrupted(records[r])}

SettledPhase(r) ==
    IF RestartIsOver(records[r], r) THEN records[r].restartAs
    ELSE IF loaded = To[r] THEN "done" ELSE "failed"

Settled(S) == [r \in Request |->
    IF r \in S THEN [records[r] EXCEPT !.phase = SettledPhase(r)] ELSE records[r]]

\* Each record is saved before the next one is looked at, and told to the
\* devices that watch; `also` are requests whose record is sent in any case.
Recover(S, watching, also) ==
    /\ S \subseteq Unsettled
    /\ records' = Settled(S)
    /\ told' = [r \in Request |-> told[r] \cup
           IF r \in also \/ (r \in S /\ Owner[r] \in watching)
           THEN {Settled(S)[r].phase} \cap Final ELSE {}]
    /\ IF S = {} /\ Unsettled = {} THEN UNCHANGED fileVars
       ELSE IF S = Unsettled THEN Saved(Settled(S))
       ELSE \E r \in Unsettled \ S :
              /\ failures < MaxFailures /\ failures' = failures + 1
              /\ disk' \in {IF S = {} THEN disk ELSE Settled(S), Settled(S \cup {r})}
              /\ UNCHANGED readable

-----------------------------------------------------------------------------
(* Sockets, and the package manager of the Host.                           *)

Connect(d) ==
    /\ loaded # 0 /\ d \notin sockets
    /\ sockets' = sockets \cup {d}
    /\ UNCHANGED <<fileVars, hostVars, toldVars, observing, waiting, checking,
                   records, healthy, active, task, installs>>

Closed(D) ==
    /\ sockets' = sockets \ D
    /\ observing' = observing \ D
    /\ checking' = checking \ D
    /\ waiting' = {r \in waiting : Owner[r] \notin D}

Disconnect(d) ==
    /\ d \in sockets
    /\ Closed({d})
    /\ UNCHANGED <<fileVars, hostVars, toldVars, records, healthy, active, task, installs>>

Installing == \E r \in Request : task[r] = "install"

HostUnloads ==
    /\ Installing /\ loaded # 0
    /\ loaded' = 0
    /\ Closed(Device)
    /\ UNCHANGED <<fileVars, boots, up, installed, running, toldVars,
                   records, healthy, active, task, installs>>

\* The target, or the version before it when the manager restores it.
HostInstalls ==
    /\ \E r \in Request : /\ task[r] = "install"
                          /\ installed' \in {To[r], records[r].from} \ {installed}
    /\ UNCHANGED <<fileVars, boots, up, loaded, running, deviceVars, toldVars,
                   records, healthy, active, task, installs>>

\* A constructor that finds the cell only says which version runs.
HostLoads ==
    /\ up /\ loaded = 0
    /\ loaded' = installed /\ running' = installed
    /\ UNCHANGED <<fileVars, boots, up, installed, deviceVars, toldVars,
                   records, healthy, active, task, installs>>

HostDies ==
    /\ up /\ boots < MaxBoots
    /\ up' = FALSE /\ loaded' = 0
    /\ Closed(Device)
    /\ active' = NoRequest
    /\ task' = [r \in Request |-> "none"]
    /\ records' = [r \in Request |-> NoRecord]
    /\ UNCHANGED <<fileVars, boots, installed, running, toldVars, healthy, installs>>

\* What the first constructor of a process reads. A journal that cannot be
\* read stops every update.
Healthy_Always == TRUE
Healthy == readable

HostBoots ==
    /\ ~up
    /\ up' = TRUE /\ boots' = boots + 1
    /\ loaded' = installed /\ running' = installed
    /\ records' = IF readable THEN disk ELSE records
    /\ healthy' = Healthy
    /\ UNCHANGED <<fileVars, installed, deviceVars, toldVars, active, task, installs>>

JournalIsDamaged ==
    /\ readable /\ ~up
    /\ readable' = FALSE
    /\ UNCHANGED <<disk, failures, hostVars, deviceVars, toldVars,
                   records, healthy, active, task, installs>>

-----------------------------------------------------------------------------
(* apply(): a request that is known is answered and never carried out      *)
(* again; a new one takes the only place before its first await.           *)

\* The acknowledgement; the connection observes the rest of an operation.
Acknowledge(r, phase) ==
    /\ acked' = acked \cup {r}
    /\ observing' = IF phase \in Terminal THEN observing ELSE observing \cup {Owner[r]}

ApplyKnown(r) ==
    /\ Owner[r] \in sockets /\ healthy /\ records[r] # NoRecord
    /\ \/ /\ Recover(Unsettled, observing, {r})
          /\ Acknowledge(r, records'[r].phase)
       \/ \E S \in SUBSET Unsettled : \* E_INTERNAL
            /\ S # Unsettled
            /\ Recover(S, observing, {})
            /\ UNCHANGED <<acked, observing>>
    /\ UNCHANGED <<hostVars, sockets, waiting, checking, healthy, active, task, installs>>

\* The same request while it is being prepared shares the answer.
ApplyAgain(r) ==
    /\ Owner[r] \in sockets /\ healthy /\ records[r] = NoRecord
    /\ task[r] = "prepare"
    /\ waiting' = waiting \cup {r}
    /\ UNCHANGED <<fileVars, hostVars, sockets, observing, checking, toldVars,
                   records, healthy, active, task, installs>>

Busy == active # NoRequest

ApplyNew(r) ==
    /\ Owner[r] \in sockets /\ healthy /\ records[r] = NoRecord /\ task[r] = "none"
    /\ ~Busy
    /\ Cardinality(Recorded(records)) < MaxRecords
    /\ active' = r
    /\ task' = [task EXCEPT ![r] = "prepare"]
    /\ waiting' = waiting \cup {r}
    /\ UNCHANGED <<fileVars, hostVars, sockets, observing, checking, toldVars,
                   records, healthy, installs>>

-----------------------------------------------------------------------------
(* The operation of a request: prepare(), run(), and its end.              *)

Ended(r) ==
    /\ task' = [task EXCEPT ![r] = "none"]
    /\ active' = IF active = r THEN NoRequest ELSE active

\* The versions, the registries or the manifests refuse the target, or they changed.
PrepareFails(r) ==
    /\ task[r] = "prepare"
    /\ Ended(r)
    /\ waiting' = waiting \ {r}
    /\ UNCHANGED <<fileVars, hostVars, sockets, observing, checking, toldVars,
                   records, healthy, installs>>

NewRecord == [phase |-> "preparing", from |-> loaded, boot |-> 0, restartAs |-> "done",
              position |-> Cardinality(Recorded(records))]

\* The record is on disk before the request is accepted.
Prepared(r) ==
    /\ task[r] = "prepare"
    /\ installed = loaded /\ To[r] # installed
    /\ LET recs == [records EXCEPT ![r] = NewRecord] IN
       \/ /\ Saved(recs)
          /\ records' = recs
          /\ task' = [task EXCEPT ![r] = "accepted"]
          /\ active' = active
          /\ told' = told
          /\ IF r \in waiting THEN Acknowledge(r, "preparing") ELSE UNCHANGED <<acked, observing>>
       \/ /\ SaveFails(recs)
          /\ Ended(r)
          /\ UNCHANGED <<records, toldVars, observing>>
    /\ waiting' = waiting \ {r}
    /\ UNCHANGED <<hostVars, sockets, checking, healthy, installs>>

RunStarts(r) ==
    /\ task[r] = "accepted"
    /\ Transition(records, r, "installing", "install", "throws")
    /\ installs' = IF task'[r] = "install" THEN [installs EXCEPT ![r] = @ + 1] ELSE installs

Throws(r) ==
    /\ task' = [task EXCEPT ![r] = "throws"]
    /\ UNCHANGED <<fileVars, hostVars, deviceVars, toldVars, records, healthy, active>>

\* What updateBundle() says of the target, or of the version it restored.
UpdateReturns(r) ==
    /\ task[r] = "install"
    /\ \/ Throws(r)
       \/ Transition(records, r, "failed", "none", "throws")
       \/ /\ installed = To[r]
          /\ \/ Transition(records, r, "restart-required", "none", "throws")
             \/ Transition(records, r, "verifying", "verify", "throws")
       \/ /\ installed = records[r].from
          /\ Transition([records EXCEPT ![r].restartAs = "rolled-back"], r,
                        "restart-required", "none", "throws")
       \/ /\ task' = [task EXCEPT ![r] = "restored"]
          /\ UNCHANGED <<fileVars, hostVars, deviceVars, toldVars, records, healthy, active>>
    /\ UNCHANGED installs

\* listBundles() after a restoration: only the version that is installed counts.
Restored(r) ==
    /\ task[r] = "restored"
    /\ \/ Throws(r)
       \/ Transition(records, r, IF installed = records[r].from THEN "rolled-back" ELSE "failed",
                     "none", "throws")
    /\ UNCHANGED installs

\* listBundles() after an installation, and the copy that is loaded.
Outcome_Installed(r) == IF installed # To[r] THEN "failed" ELSE "done"
Outcome(r) ==
    IF installed # To[r] THEN "failed"
    ELSE IF running # To[r] THEN "restart-required" ELSE "done"

Verified(r) ==
    /\ task[r] = "verify"
    /\ \/ Throws(r)
       \/ Transition(records, r, Outcome(r), "none", "throws")
    /\ UNCHANGED installs

\* run() was rejected: its end is unknown, and so it says, if that can be saved.
RunFails(r) ==
    /\ task[r] = "throws"
    /\ Transition(records, r, "failed", "none", "none")
    /\ UNCHANGED installs

-----------------------------------------------------------------------------
(* check()                                                                 *)

Check(d) ==
    /\ d \in sockets
    /\ checking' = checking \cup {d}
    /\ observing' = observing \cup {d}
    /\ \E S \in SUBSET Unsettled : Recover(S, observing', {})
    /\ UNCHANGED <<hostVars, sockets, waiting, acked, healthy, active, task, installs>>

\* The reply has the last record of the device as it is now.
LastOf(d) == {r \in Recorded(records) : /\ Owner[r] = d
    /\ \A q \in Recorded(records) : Owner[q] = d => records[q].position <= records[r].position}

CheckReplies(d) ==
    /\ d \in checking
    /\ checking' = checking \ {d}
    /\ told' = [r \in Request |-> told[r] \cup 
           IF r \in LastOf(d) THEN {records[r].phase} \cap Final ELSE {}]
    /\ UNCHANGED <<fileVars, hostVars, sockets, observing, waiting, acked,
                   records, healthy, active, task, installs>>

-----------------------------------------------------------------------------
Operation(r) == \/ PrepareFails(r) \/ Prepared(r) \/ RunStarts(r) \/ UpdateReturns(r)
                \/ Restored(r) \/ Verified(r) \/ RunFails(r)

Next ==
    \/ \E d \in Device : Connect(d) \/ Disconnect(d) \/ Check(d) \/ CheckReplies(d)
    \/ HostUnloads \/ HostInstalls \/ HostLoads \/ HostDies \/ HostBoots \/ JournalIsDamaged
    \/ \E r \in Request : ApplyKnown(r) \/ ApplyAgain(r) \/ ApplyNew(r) \/ Operation(r)

\* The calls of the Host return, a copy is loaded again, and phones come back
\* and ask: not only while another request is being prepared, when check()
\* leaves the journal alone.
Fairness ==
    /\ \A r \in Request : WF_vars(Operation(r))
    /\ WF_vars(HostLoads) /\ WF_vars(HostBoots)
    /\ \A d \in Device : /\ WF_vars(Connect(d)) /\ WF_vars(CheckReplies(d))
                         /\ SF_vars(Check(d) /\ ~Busy)

Spec == Init /\ [][Next]_vars
FairSpec == Spec /\ Fairness

-----------------------------------------------------------------------------
(* Properties                                                              *)

\* The journal, the cell of the process and the history have the types of
\* SharedState and StoredRecord.
TypeOK ==
    /\ disk \in [Request -> Record \cup {NoRecord}] /\ records \in [Request -> Record \cup {NoRecord}]
    /\ readable \in BOOLEAN /\ healthy \in BOOLEAN /\ up \in BOOLEAN
    /\ boots \in Nat /\ failures \in Nat
    /\ installed \in Nat \ {0} /\ loaded \in Nat /\ running \in Nat \ {0}
    /\ active \in Request \cup {NoRequest}
    /\ task \in [Request -> Stage]
    /\ sockets \subseteq Device /\ observing \subseteq Device /\ checking \subseteq Device
    /\ waiting \subseteq Request /\ acked \subseteq Request
    /\ told \in [Request -> SUBSET Final]
    /\ installs \in [Request -> Nat]

\* One frame of the user installs at most once, however often it is sent
\* again, from whichever copy or process, with a journal that cannot be
\* written or read; and two requests are never installed at the same time.
InstallsOnce ==
    /\ \A r \in Request : installs[r] <= 1
    /\ Cardinality({r \in Request : task[r] \in {"install", "restored", "verify"}}) <= 1

\* A device that was told how a request ended will never be told otherwise:
\* the end it heard of is the one on disk, through reloads, crashes and
\* failing writes; and a request that was accepted is on disk.
WordIsKept == \A r \in Request :
    /\ r \in acked => disk[r] # NoRecord
    /\ \A phase \in told[r] : disk[r].phase = phase

\* A record ends in "done" only when the target is the version that runs, and
\* in "rolled-back" only when the version before it is installed or runs,
\* whether the operation, a later check or a later process finds it out.
DoneIsTrue == [][\A r \in Request :
    records[r] # NoRecord /\ records'[r] # NoRecord /\ records'[r] # records[r] =>
        /\ records'[r].phase = "done" => running = To[r]
        /\ records'[r].phase = "rolled-back" => records[r].from \in {installed, running}]_vars

\* The end of every accepted update is known at last: also when the process
\* died in the middle, or when neither the result nor the failure could be
\* written, the phones that come back and ask make it so.
EndIsKnown == \A r \in Request :
    r \in acked ~> (~readable \/ (disk[r] # NoRecord /\ disk[r].phase \in Terminal))
=============================================================================
