----------------------- MODULE RemoteTransportProofs -----------------------
(***************************************************************************)
(* Theorems about the Funnel transport, for every set of supervisors,      *)
(* helpers and settings, any number of changes, and whatever fails.        *)
(***************************************************************************)
EXTENDS RemoteTransport, TLAPS

Instance == [made : BOOLEAN, enabled : BOOLEAN, settings : Settings \cup {NoTarget},
             begun : BOOLEAN,
             phase : Phase \cup {"disabled", "unavailable"}, child : Helper \cup {NoHelper},
             checking : BOOLEAN, analysing : BOOLEAN, timer : BOOLEAN, stopping : BOOLEAN]
Process == [state : {"none", "up", "failed", "draining"},
            owner : Supervisor \cup {NoSupervisor}, killed : BOOLEAN]
Run == [at : {"idle", "stopping", "starting"}, target : Target \cup {NoTarget},
        own : Supervisor \cup {NoSupervisor}, helper : Helper \cup {NoHelper}]

\* The state without its bounds.
StateOK ==
    /\ config \in Target /\ applied \in Target \cup {NoTarget}
    /\ queued \in Nat /\ origin \in BOOLEAN
    /\ run \in Run
    /\ instance \in Supervisor \cup {NoSupervisor}
    /\ supervisor \in [Supervisor -> Instance]
    /\ helper \in [Helper -> Process]
    /\ disposer \in [at : {"no", "stopping", "done"}, helper : Helper \cup {NoHelper}]

\* Who refers to a supervisor and who waits for an exit: the reconcile under way and the
\* dispose wait only for the supervisor they stopped, and then there is no instance.
ChainInv ==
    /\ run.at # "stopping" => run.helper = NoHelper
    /\ run.at = "stopping" => instance = NoSupervisor /\ run.target \in Target
    /\ run.at # "idle" => run.own # NoSupervisor /\ supervisor[run.own].made
    /\ ~Disposed => disposer.helper = NoHelper
    /\ Disposed => instance = NoSupervisor
    /\ run.helper = NoHelper \/ disposer.helper = NoHelper
    /\ disposer.at = "done" => run.at = "idle" /\ disposer.helper = NoHelper
    /\ instance # NoSupervisor => supervisor[instance].made

\* What a supervisor may be at.  Until it is stopped it does one thing at a time: it has
\* a helper, looks for one, analyses an exit or waits to try again, and each of them only
\* if the settings it was made from want a helper and the origin listens.
OneThing(s) ==
    /\ Busy(s) => s.made /\ s.enabled /\ origin
    /\ s.stopping => s.child = NoHelper /\ ~s.timer
    /\ ~s.stopping =>
          /\ s.checking => s.child = NoHelper /\ ~s.analysing /\ ~s.timer
          /\ s.analysing => s.child = NoHelper /\ ~s.timer
          /\ s.timer => s.child = NoHelper
SupervisorInv ==
    \A i \in Supervisor :
        /\ supervisor[i].made /\ ~supervisor[i].stopping => i = instance
        /\ i = instance => ~supervisor[i].stopping
        /\ OneThing(supervisor[i])

\* Who has each helper: the supervisor whose child it is, or those who wait for its exit.
HelperInv ==
    /\ \A h \in Helper :
          /\ helper[h].state = "none" => helper[h] = NoProcess
          /\ helper[h].state # "none" =>
                helper[h].owner \in Supervisor /\ supervisor[helper[h].owner].made
          /\ helper[h].killed => supervisor[helper[h].owner].stopping
          /\ helper[h].state = "up" =>
                \/ supervisor[helper[h].owner].child = h
                \/ helper[h].killed /\ h \in {run.helper, disposer.helper}
    /\ \A i \in Supervisor : supervisor[i].child # NoHelper =>
          /\ helper[supervisor[i].child].owner = i
          /\ helper[supervisor[i].child].state \in {"up", "failed"}

\* The settings the instance was made from are those applied last, and those are the
\* settings there are unless a reconcile is to come.
KeyInv ==
    /\ instance # NoSupervisor =>
          applied = [enabled |-> supervisor[instance].enabled,
                     settings |-> supervisor[instance].settings]
    /\ ~Disposed /\ origin /\ queued = 0 =>
          config = (IF run.at = "stopping" THEN run.target ELSE applied)
    /\ ~Disposed /\ applied # NoTarget /\ run.at # "stopping" => instance # NoSupervisor

\* An instance that was started is never without a thing to do.
WorkInv ==
    instance # NoSupervisor /\ supervisor[instance].enabled /\ supervisor[instance].begun =>
        Busy(supervisor[instance])

IInv == StateOK /\ ChainInv /\ SupervisorInv /\ HelperInv /\ KeyInv /\ WorkInv

-----------------------------------------------------------------------------
LEMMA RecordFact ==
    /\ NoInstance \in Instance /\ ~Busy(NoInstance)
    /\ ~NoInstance.made /\ ~NoInstance.stopping
    /\ NoProcess \in Process /\ NoProcess.state = "none" /\ ~NoProcess.killed
    /\ IdleRun \in Run /\ IdleRun.at = "idle" /\ IdleRun.helper = NoHelper
    /\ IdleRun.own = NoSupervisor
BY DEF NoInstance, Instance, Busy, NoProcess, Process, IdleRun, Run

\* A helper that runs is the child of the instance, or its supervisor was stopped and
\* somebody waits for its exit, which nobody does while there is an instance.
LEMMA RunningFact ==
    ASSUME IInv, NEW h \in Helper, helper[h].state = "up"
    PROVE  /\ helper[h].owner \in Supervisor
           /\ \/ /\ helper[h].owner = instance /\ supervisor[instance].child = h
                 /\ ~helper[h].killed
              \/ /\ helper[h].killed /\ supervisor[helper[h].owner].stopping
                 /\ h \in {run.helper, disposer.helper} /\ instance = NoSupervisor
<1> USE RemoteAssumption DEF IInv
<1>1. helper[h].owner \in Supervisor /\ supervisor[helper[h].owner].made
  BY DEF HelperInv
<1>2. CASE supervisor[helper[h].owner].child = h
  <2>1. ~supervisor[helper[h].owner].stopping
    BY <1>1, <1>2 DEF SupervisorInv, OneThing
  <2>2. helper[h].owner = instance
    BY <1>1, <2>1 DEF SupervisorInv
  <2>3. QED
    BY <1>1, <1>2, <2>1, <2>2 DEF HelperInv, StateOK, Process
<1>3. CASE supervisor[helper[h].owner].child # h
  <2>1. helper[h].killed /\ h \in {run.helper, disposer.helper}
    BY <1>3 DEF HelperInv
  <2>2. run.at = "stopping" \/ Disposed
    BY <2>1 DEF ChainInv
  <2>3. QED
    BY <1>1, <2>1, <2>2 DEF ChainInv, HelperInv
<1>4. QED
  BY <1>2, <1>3

LEMMA NoOrphanFact == IInv => NoOrphan
<1> SUFFICES ASSUME IInv PROVE NoOrphan
  OBVIOUS
<1>1. ASSUME NEW g \in Running, NEW h \in Running PROVE g = h
  BY RunningFact, RemoteAssumption DEF Running, IInv, ChainInv
<1>2. ASSUME NEW h \in Running
      PROVE  \/ supervisor[helper[h].owner].child = h
             \/ helper[h].killed /\ h \in {run.helper, disposer.helper}
  BY RunningFact DEF Running
<1>3. ASSUME disposer.at = "done" PROVE Running = {}
  BY <1>3, RunningFact, RemoteAssumption DEF Running, IInv, ChainInv, Disposed
<1>4. QED
  BY <1>1, <1>2, <1>3 DEF NoOrphan

LEMMA FunnelIsTendedFact == IInv => FunnelIsTended
<1> SUFFICES ASSUME IInv PROVE FunnelIsTended
  OBVIOUS
<1> USE DEF IInv
<1>1. ASSUME Settled, NEW h \in Running
      PROVE  /\ helper[h].owner = instance /\ config.enabled
             /\ supervisor[instance].settings = config.settings
  <2>1. run.helper = NoHelper /\ disposer.helper = NoHelper
    BY <1>1 DEF Settled, ChainInv
  <2>2. h \in Helper /\ helper[h].state = "up"
    BY DEF Running
  <2>3. instance \in Supervisor /\ helper[h].owner = instance /\ supervisor[instance].child = h
    BY <2>1, <2>2, RunningFact, RemoteAssumption
  <2>4. supervisor[instance].enabled /\ origin
    BY <2>2, <2>3, RemoteAssumption DEF SupervisorInv, OneThing, Busy
  <2>5. config = applied
    BY <1>1, <2>4 DEF Settled, KeyInv
  <2>6. QED
    BY <2>3, <2>4, <2>5, RemoteAssumption DEF KeyInv
<1>2. ASSUME Wanted
      PROVE  /\ instance # NoSupervisor
             /\ Busy(supervisor[instance]) \/ ~supervisor[instance].begun
  <2>1. config = applied /\ applied # NoTarget
    BY <1>2, RemoteAssumption DEF Wanted, Settled, KeyInv, StateOK, Target
  <2>2. instance # NoSupervisor /\ supervisor[instance].enabled
    BY <1>2, <2>1 DEF Wanted, Settled, KeyInv
  <2>3. QED
    BY <2>2 DEF WorkInv
<1>3. QED
  BY <1>1, <1>2 DEF FunnelIsTended

-----------------------------------------------------------------------------
LEMMA InitFact == Init => IInv
<1> SUFFICES ASSUME Init PROVE IInv
  OBVIOUS
<1> USE RecordFact DEF Init
<1>1. StateOK
  BY DEF StateOK
<1>2. ChainInv
  BY DEF ChainInv, Disposed
<1>3. SupervisorInv
  BY RemoteAssumption DEF SupervisorInv, OneThing, Busy
<1>4. HelperInv
  BY DEF HelperInv, Busy
<1>5. KeyInv /\ WorkInv
  BY DEF KeyInv, WorkInv
<1>6. QED
  BY <1>1, <1>2, <1>3, <1>4, <1>5 DEF IInv

\* A supervisor goes on to t: the same, with the same helper, at another thing.
SameBut(t, s) ==
    /\ t.made = s.made /\ t.enabled = s.enabled /\ t.settings = s.settings
    /\ t.stopping = s.stopping /\ t.child = s.child /\ t.begun = s.begun

LEMMA SupervisorMoves ==
    ASSUME IInv, NEW i \in Supervisor, NEW t \in Instance,
           supervisor' = [supervisor EXCEPT ![i] = t],
           SameBut(t, supervisor[i]), OneThing(t),
           Busy(supervisor[i]) /\ ~t.stopping => Busy(t),
           run' = run \/ (run.at = "starting" /\ run' = IdleRun),
           UNCHANGED <<reconciler, helper, disposer>>
    PROVE  IInv'
<1> USE DEF IInv, reconciler
<1>1. /\ supervisor'[i] = t
      /\ \A k \in Supervisor \ {i} : supervisor'[k] = supervisor[k]
      /\ \A k \in Supervisor : SameBut(supervisor'[k], supervisor[k])
  BY DEF StateOK, SameBut
<1>2. StateOK'
  BY RecordFact DEF StateOK
<1>3. /\ run'.at # "stopping" <=> run.at # "stopping"
      /\ run'.at = "stopping" => run' = run
      /\ run'.helper = run.helper
      /\ run'.at # "idle" => run' = run
  BY RecordFact DEF ChainInv
<1>4. instance = NoSupervisor \/ instance \in Supervisor
  BY DEF StateOK
<1>5. run.own = NoSupervisor \/ run.own \in Supervisor
  BY DEF StateOK, Run
<1>6. ChainInv'
  BY <1>1, <1>3, <1>4, <1>5, RecordFact DEF ChainInv, Disposed, SameBut
<1>7. SupervisorInv'
  <2>1. ASSUME NEW k \in Supervisor PROVE OneThing(supervisor[k])'
    BY <1>1 DEF SupervisorInv, OneThing, Busy
  <2>2. QED
    BY <1>1, <2>1 DEF SupervisorInv, SameBut
<1>8. HelperInv'
  BY <1>1, <1>3 DEF HelperInv, SameBut
<1>9. KeyInv'
  BY <1>1, <1>3, <1>4 DEF KeyInv, Disposed, SameBut
<1>10. WorkInv'
  <2>1. ASSUME instance # NoSupervisor, supervisor'[instance].enabled,
               supervisor'[instance].begun
        PROVE  Busy(supervisor[instance])'
    <3>1. Busy(supervisor[instance]) /\ ~supervisor[instance].stopping /\ instance \in Supervisor
      BY <1>1, <1>4, <2>1 DEF WorkInv, SupervisorInv, SameBut
    <3>2. QED
      BY <1>1, <3>1 DEF SameBut, Busy
  <2>2. QED
    BY <1>3, <2>1, RecordFact DEF WorkInv
<1>11. QED
  BY <1>2, <1>6, <1>7, <1>8, <1>9, <1>10

LEMMA RescheduledFact ==
    ASSUME NEW s \in Instance, NEW phase \in {"unavailable", "error"}, ~s.stopping
    PROVE  /\ Rescheduled(s, phase) \in Instance /\ SameBut(Rescheduled(s, phase), s)
           /\ Rescheduled(s, phase).timer
           /\ Rescheduled(s, phase).checking = s.checking
           /\ Rescheduled(s, phase).analysing = s.analysing
BY DEF Rescheduled, Instance, SameBut, Phase

\* The search for a helper is over, or the analysis of an exit.
LEMMA CheckedFact ==
    ASSUME IInv, NEW i \in Supervisor, supervisor[i].checking,
           NEW s, s = [supervisor[i] EXCEPT !.checking = FALSE]
    PROVE  /\ s \in Instance /\ SameBut(s, supervisor[i]) /\ ~s.checking
           /\ s.timer = supervisor[i].timer /\ s.analysing = supervisor[i].analysing
           /\ supervisor[i].made /\ supervisor[i].enabled /\ origin
<1>1. supervisor[i] \in Instance
  BY DEF IInv, StateOK
<1>2. supervisor[i].made /\ supervisor[i].enabled /\ origin
  BY DEF IInv, SupervisorInv, OneThing, Busy
<1>3. QED
  BY <1>1, <1>2 DEF Instance, SameBut

LEMMA MissingStep ==
    ASSUME IInv, NEW i \in Supervisor, HelperMissing(i)
    PROVE  IInv'
<1> DEFINE s == [supervisor[i] EXCEPT !.checking = FALSE]
           t == IF s.stopping THEN s ELSE Rescheduled(s, "unavailable")
<1>1. supervisor[i].checking
  BY DEF HelperMissing
<1>2. /\ s \in Instance /\ SameBut(s, supervisor[i]) /\ ~s.checking
      /\ s.timer = supervisor[i].timer /\ s.analysing = supervisor[i].analysing
      /\ supervisor[i].made /\ supervisor[i].enabled /\ origin
  BY <1>1, CheckedFact
<1>3. OneThing(supervisor[i])
  BY DEF IInv, SupervisorInv
<1>4. supervisor' = [supervisor EXCEPT ![i] = t]
  BY DEF HelperMissing
<1>5. run' = run \/ (run.at = "starting" /\ run' = IdleRun)
  BY DEF HelperMissing, Returned
<1>6. UNCHANGED <<reconciler, helper, disposer>>
  BY DEF HelperMissing
<1> HIDE DEF s
<1>7. /\ t \in Instance /\ SameBut(t, supervisor[i])
      /\ ~t.checking /\ t.analysing = supervisor[i].analysing
      /\ IF t.stopping THEN t.timer = supervisor[i].timer ELSE t.timer
  <2>1. CASE s.stopping
    BY <1>2, <2>1
  <2>2. CASE ~s.stopping
    BY <1>2, <2>2, RescheduledFact DEF SameBut
  <2>3. QED
    BY <2>1, <2>2
<1> HIDE DEF t
<1>8. OneThing(t) /\ (~t.stopping => Busy(t))
  BY <1>1, <1>2, <1>3, <1>7 DEF OneThing, Busy, SameBut
<1>9. QED
  BY <1>4, <1>5, <1>6, <1>7, <1>8, SupervisorMoves

LEMMA AnalysedStep ==
    ASSUME IInv, NEW i \in Supervisor, Analysed(i)
    PROVE  IInv'
<1> DEFINE s == [supervisor[i] EXCEPT !.analysing = FALSE]
           t == IF s.stopping THEN s ELSE Rescheduled(s, "error")
<1>1. supervisor[i].analysing
  BY DEF Analysed
<1>2. /\ s \in Instance /\ SameBut(s, supervisor[i]) /\ ~s.analysing
      /\ s.timer = supervisor[i].timer /\ s.checking = supervisor[i].checking
  BY DEF IInv, StateOK, Instance, SameBut
<1>3. OneThing(supervisor[i])
  BY DEF IInv, SupervisorInv
<1>4. supervisor' = [supervisor EXCEPT ![i] = t]
  BY DEF Analysed
<1>5. UNCHANGED <<reconciler, run, helper, disposer>>
  BY DEF Analysed
<1> HIDE DEF s
<1>6. /\ t \in Instance /\ SameBut(t, supervisor[i])
      /\ ~t.analysing /\ t.checking = supervisor[i].checking
      /\ IF t.stopping THEN t.timer = supervisor[i].timer ELSE t.timer
  BY <1>2, RescheduledFact DEF SameBut
<1> HIDE DEF t
<1>7. OneThing(t) /\ (~t.stopping => Busy(t))
  BY <1>1, <1>3, <1>6 DEF OneThing, Busy, SameBut
<1>8. QED
  BY <1>4, <1>5, <1>6, <1>7, SupervisorMoves

LEMMA TimerStep ==
    ASSUME IInv, NEW i \in Supervisor, TimerFires(i)
    PROVE  IInv'
<1> DEFINE t == Started([supervisor[i] EXCEPT !.timer = FALSE])
<1>1. supervisor[i].timer /\ supervisor[i] \in Instance
  BY DEF TimerFires, IInv, StateOK
<1>2. OneThing(supervisor[i])
  BY DEF IInv, SupervisorInv
<1>3. ~supervisor[i].stopping /\ supervisor[i].child = NoHelper /\ supervisor[i].enabled
  BY <1>1, <1>2 DEF OneThing, Busy
<1>4. supervisor' = [supervisor EXCEPT ![i] = t]
  BY DEF TimerFires
<1>5. UNCHANGED <<reconciler, run, helper, disposer>>
  BY DEF TimerFires
<1>6. t \in Instance /\ SameBut(t, supervisor[i]) /\ ~t.timer /\ t.checking
      /\ t.analysing = supervisor[i].analysing
  BY <1>1, <1>3 DEF Started, MayStart, Instance, SameBut
<1> HIDE DEF t
<1>7. OneThing(t) /\ Busy(t)
  BY <1>1, <1>2, <1>3, <1>6 DEF OneThing, Busy, SameBut
<1>8. QED
  BY <1>4, <1>5, <1>6, <1>7, SupervisorMoves

LEMMA ReportStep ==
    ASSUME IInv, NEW h \in Helper, NEW phase \in Reported, HelperReports(h, phase)
    PROVE  IInv'
<1> DEFINE i == helper[h].owner
           t == [supervisor[i] EXCEPT !.phase = phase]
<1>1. i \in Supervisor
  BY DEF HelperReports, IInv, HelperInv
<1>2. supervisor' = [supervisor EXCEPT ![i] = t]
  BY DEF HelperReports
<1>3. UNCHANGED <<reconciler, run, helper, disposer>>
  BY DEF HelperReports
<1>4. OneThing(supervisor[i]) /\ supervisor[i] \in Instance
  BY <1>1 DEF IInv, SupervisorInv, StateOK
<1>5. t \in Instance /\ SameBut(t, supervisor[i]) /\ OneThing(t)
      /\ (Busy(supervisor[i]) => Busy(t))
  BY <1>4, RemoteAssumption DEF Instance, SameBut, OneThing, Busy
<1> HIDE DEF i, t
<1>6. QED
  BY <1>1, <1>2, <1>3, <1>5, SupervisorMoves

LEMMA FoundStep ==
    ASSUME IInv, NEW i \in Supervisor, HelperFound(i)
    PROVE  IInv'
<1>1. supervisor[i].checking
  BY DEF HelperFound
<1>2. run' = run \/ (run.at = "starting" /\ run' = IdleRun)
  BY DEF HelperFound, Returned
<1>3. UNCHANGED <<reconciler, disposer>>
  BY DEF HelperFound
<1>4. OneThing(supervisor[i]) /\ supervisor[i] \in Instance
  BY DEF IInv, SupervisorInv, StateOK
<1>5. CASE supervisor[i].stopping
  <2> DEFINE t == [supervisor[i] EXCEPT !.checking = FALSE]
  <2>1. supervisor' = [supervisor EXCEPT ![i] = t] /\ UNCHANGED helper
    BY <1>5 DEF HelperFound, GivesUp
  <2>2. t \in Instance /\ SameBut(t, supervisor[i]) /\ OneThing(t) /\ t.stopping
    BY <1>4, <1>5 DEF Instance, SameBut, OneThing, Busy
  <2> HIDE DEF t
  <2>3. QED
    BY <1>2, <1>3, <2>1, <2>2, SupervisorMoves
<1>6. CASE ~supervisor[i].stopping
  <2>1. PICK h \in Helper, state \in {"up", "failed"} :
          /\ helper[h] = NoProcess
          /\ helper' = [helper EXCEPT ![h] = [state |-> state, owner |-> i, killed |-> FALSE]]
          /\ supervisor' = [supervisor EXCEPT ![i].checking = FALSE, ![i].child = h,
                 ![i].phase = IF state = "up" THEN "starting" ELSE "error"]
    BY <1>6 DEF HelperFound, GivesUp
  <2> DEFINE t == supervisor'[i]
  <2>2. /\ t \in Instance /\ t.child = h /\ ~t.checking /\ t.made = supervisor[i].made
        /\ t.enabled = supervisor[i].enabled /\ t.settings = supervisor[i].settings
        /\ t.stopping = supervisor[i].stopping /\ t.timer = supervisor[i].timer
        /\ t.analysing = supervisor[i].analysing
        /\ \A k \in Supervisor \ {i} : supervisor'[k] = supervisor[k]
        /\ supervisor' \in [Supervisor -> Instance]
    BY <1>4, <2>1 DEF IInv, StateOK, Instance, Phase
  <2>3. /\ helper'[h].state \in {"up", "failed"} /\ helper'[h].owner = i
        /\ ~helper'[h].killed /\ helper' \in [Helper -> Process]
        /\ \A g \in Helper \ {h} : helper'[g] = helper[g]
    BY <2>1 DEF IInv, StateOK, Process
  <2> HIDE DEF t
  <2>4. /\ t.made /\ t.enabled /\ origin /\ ~t.analysing /\ ~t.timer
        /\ h # NoHelper /\ instance = i
    BY <1>1, <1>4, <1>6, <2>2, RemoteAssumption DEF OneThing, Busy, IInv, SupervisorInv
  <2>5. StateOK'
    BY <1>2, <1>3, <2>2, <2>3, RecordFact DEF IInv, StateOK, reconciler
  <2>6. /\ run'.at # "stopping" <=> run.at # "stopping"
        /\ run'.helper = run.helper
        /\ run'.at # "idle" => run' = run
    BY <1>2, RecordFact DEF IInv, ChainInv
  <2>7. ChainInv'
    BY <1>3, <2>2, <2>4, <2>6 DEF IInv, ChainInv, StateOK, Run, Disposed, reconciler, t
  <2>8. SupervisorInv'
    <3>1. ASSUME NEW k \in Supervisor PROVE OneThing(supervisor[k])'
      BY <1>3, <2>2, <2>4 DEF IInv, SupervisorInv, OneThing, Busy, reconciler, t
    <3>2. QED
      BY <1>3, <2>2, <2>4, <3>1 DEF IInv, SupervisorInv, reconciler, t
  <2>9. HelperInv'
    <3>1. \A k \in Supervisor : supervisor[k].child # h
      BY <2>1, <2>4, RecordFact DEF IInv, HelperInv
    <3>2. \A k \in Supervisor : supervisor[k].child \in Helper \cup {NoHelper}
      BY DEF IInv, StateOK, Instance
    <3>3. supervisor[i].child = NoHelper
      BY <1>1, <1>4, <1>6 DEF OneThing
    <3>4. supervisor'[i].child = h /\ supervisor'[i].made /\ i \in Supervisor
      BY <2>2, <2>4 DEF t
    <3>5. \A k \in Supervisor :
              /\ supervisor'[k].made = supervisor[k].made
              /\ supervisor'[k].stopping = supervisor[k].stopping
              /\ k # i => supervisor'[k].child = supervisor[k].child
      BY <2>2 DEF t
    <3>6. UNCHANGED disposer /\ run'.helper = run.helper
      BY <1>3, <2>6
    <3>7. helper[h].state = "none"
      BY <2>1, RecordFact
    <3>8. ASSUME NEW g \in Helper, g # h
          PROVE  /\ helper'[g].state = "none" => helper'[g] = NoProcess
                 /\ helper'[g].state # "none" =>
                       helper'[g].owner \in Supervisor /\ supervisor'[helper'[g].owner].made
                 /\ helper'[g].state = "up" =>
                       \/ supervisor'[helper'[g].owner].child = g
                       \/ helper'[g].killed /\ g \in {run'.helper, disposer'.helper}
      BY <2>3, <3>3, <3>5, <3>6, <3>8, RemoteAssumption DEF IInv, HelperInv
    <3>9. ASSUME NEW g \in Helper, helper'[g].killed
          PROVE  supervisor'[helper'[g].owner].stopping
      <4>1. g # h /\ helper'[g] = helper[g] /\ helper[g].killed
        BY <2>3, <3>9
      <4>2. helper[g].owner \in Supervisor
        BY <4>1, RecordFact DEF IInv, HelperInv
      <4>3. QED
        BY <3>5, <4>1, <4>2 DEF IInv, HelperInv
    <3>10. ASSUME NEW k \in Supervisor, supervisor'[k].child # NoHelper
           PROVE  /\ helper'[supervisor'[k].child].owner = k
                  /\ helper'[supervisor'[k].child].state \in {"up", "failed"}
      <4>1. CASE k = i
        BY <2>3, <3>4, <4>1
      <4>2. CASE k # i
        BY <2>3, <3>1, <3>2, <3>5, <3>10, <4>2 DEF IInv, HelperInv
      <4>3. QED
        BY <4>1, <4>2
    <3>11. QED
      BY <2>3, <3>4, <3>8, <3>9, <3>10 DEF HelperInv
  <2>10. KeyInv' /\ WorkInv'
    BY <1>3, <2>2, <2>4, <2>6 DEF IInv, KeyInv, WorkInv, Busy, Disposed, reconciler, t
  <2>11. QED
    BY <2>5, <2>7, <2>8, <2>9, <2>10 DEF IInv
<1>7. QED
  BY <1>5, <1>6

-----------------------------------------------------------------------------
\* A helper exits: it is nobody's child any more and nobody waits for it.
LEMMA ExitStep ==
    ASSUME IInv, NEW h \in Helper, HelperExits(h)
    PROVE  IInv'
<1> DEFINE i == helper[h].owner
           s == supervisor[i]
           t == AfterExit(s, h)
<1>1. helper[h].state = "up" /\ UNCHANGED reconciler
  BY DEF HelperExits
<1>2. /\ i \in Supervisor
      /\ \/ i = instance /\ s.child = h /\ ~helper[h].killed
         \/ helper[h].killed /\ s.stopping /\ instance = NoSupervisor
  BY <1>1, RunningFact
<1>3. s \in Instance /\ OneThing(s) /\ h # NoHelper
  BY <1>2, RemoteAssumption DEF IInv, StateOK, SupervisorInv
<1>4. /\ supervisor' = [supervisor EXCEPT ![i] = t]
      /\ helper' = [helper EXCEPT ![h].state = "draining"]
      /\ run' = [run EXCEPT !.helper = IF @ = h THEN NoHelper ELSE @]
      /\ disposer' = [disposer EXCEPT !.helper = IF @ = h THEN NoHelper ELSE @]
  BY DEF HelperExits
<1> HIDE DEF i
<1>5. /\ t \in Instance /\ t.made = s.made /\ t.enabled = s.enabled
      /\ t.settings = s.settings /\ t.stopping = s.stopping /\ t.begun = s.begun
      /\ t.child = NoHelper /\ t.checking = s.checking /\ t.timer = s.timer
      /\ t.analysing = (~s.stopping \/ s.analysing)
  <2>1. s.child \in {h, NoHelper}
    BY <1>2, <1>3 DEF OneThing
  <2>2. QED
    BY <1>3, <2>1 DEF AfterExit, Instance, Phase
<1>6. s.child = h \/ s.stopping
  BY <1>2
<1>7. /\ ~s.stopping => i = instance /\ s.child = h
      /\ instance # NoSupervisor => ~s.stopping
  BY <1>2, <1>3 DEF IInv, SupervisorInv, ChainInv
<1>8. OneThing(t)
  BY <1>3, <1>5, <1>7 DEF OneThing, Busy
<1> HIDE DEF s, t
<1>9. /\ supervisor' \in [Supervisor -> Instance] /\ supervisor'[i] = t
      /\ \A k \in Supervisor \ {i} : supervisor'[k] = supervisor[k]
  BY <1>2, <1>4, <1>5 DEF IInv, StateOK
<1>10. /\ helper' \in [Helper -> Process] /\ helper'[h].state = "draining"
       /\ helper'[h].owner = i /\ helper'[h].killed = helper[h].killed
       /\ \A g \in Helper \ {h} : helper'[g] = helper[g]
  BY <1>4 DEF IInv, StateOK, Process, i
<1>11. /\ run' \in Run /\ run'.at = run.at /\ run'.own = run.own /\ run'.target = run.target
       /\ run'.helper = (IF run.helper = h THEN NoHelper ELSE run.helper)
  BY <1>4 DEF IInv, StateOK, Run
<1>12. /\ disposer' \in [at : {"no", "stopping", "done"}, helper : Helper \cup {NoHelper}]
       /\ disposer'.at = disposer.at
       /\ disposer'.helper = (IF disposer.helper = h THEN NoHelper ELSE disposer.helper)
  BY <1>4 DEF IInv, StateOK
<1>13. StateOK'
  BY <1>1, <1>9, <1>10, <1>11, <1>12 DEF IInv, StateOK, reconciler
<1>14. \A k \in Supervisor : supervisor'[k].made = supervisor[k].made
           /\ supervisor'[k].enabled = supervisor[k].enabled
           /\ supervisor'[k].settings = supervisor[k].settings
           /\ supervisor'[k].stopping = supervisor[k].stopping
           /\ supervisor'[k].begun = supervisor[k].begun
  BY <1>5, <1>9 DEF s
<1>15. ChainInv'
  BY <1>1, <1>11, <1>12, <1>14 DEF IInv, ChainInv, StateOK, Run, Disposed, reconciler
<1>16. SupervisorInv'
  <2>1. ASSUME NEW k \in Supervisor PROVE OneThing(supervisor[k])'
    BY <1>1, <1>8, <1>9 DEF IInv, SupervisorInv, OneThing, Busy, reconciler
  <2>2. QED
    BY <1>1, <1>14, <2>1 DEF IInv, SupervisorInv, reconciler
<1>17. HelperInv'
  <2>1. ASSUME NEW g \in Helper, g # h
        PROVE  /\ helper'[g].state = "none" => helper'[g] = NoProcess
               /\ helper'[g].state # "none" =>
                     helper'[g].owner \in Supervisor /\ supervisor'[helper'[g].owner].made
               /\ helper'[g].state = "up" =>
                     \/ supervisor'[helper'[g].owner].child = g
                     \/ helper'[g].killed /\ g \in {run'.helper, disposer'.helper}
    <3>1. helper'[g] = helper[g]
      BY <1>10, <2>1
    <3>2. helper[g].owner = i => supervisor[helper[g].owner].child # g
      BY <1>6, <1>3, <2>1, RemoteAssumption DEF s, OneThing
    <3>3. QED
      BY <1>9, <1>11, <1>12, <1>14, <2>1, <3>1, <3>2 DEF IInv, HelperInv
  <2>2. ASSUME NEW g \in Helper, helper'[g].killed
        PROVE  supervisor'[helper'[g].owner].stopping
    <3>1. helper'[g].owner = helper[g].owner /\ helper[g].killed
      BY <1>10, <2>2 DEF i
    <3>2. helper[g].owner \in Supervisor
      BY <3>1, RecordFact DEF IInv, HelperInv
    <3>3. QED
      BY <1>14, <3>1, <3>2 DEF IInv, HelperInv
  <2>3. ASSUME NEW k \in Supervisor, supervisor'[k].child # NoHelper
        PROVE  /\ helper'[supervisor'[k].child].owner = k
               /\ helper'[supervisor'[k].child].state \in {"up", "failed"}
    <3>1. k # i /\ supervisor'[k] = supervisor[k] /\ supervisor[k].child \in Helper
      BY <1>5, <1>9, <2>3 DEF IInv, StateOK, Instance
    <3>2. supervisor[k].child # h
      BY <2>3, <3>1 DEF IInv, HelperInv, i
    <3>3. QED
      BY <1>10, <2>3, <3>1, <3>2 DEF IInv, HelperInv
  <2>4. helper'[h].owner \in Supervisor /\ supervisor'[helper'[h].owner].made
    BY <1>1, <1>2, <1>10, <1>14 DEF IInv, HelperInv, i
  <2>5. QED
    BY <1>10, <2>1, <2>2, <2>3, <2>4 DEF HelperInv
<1>18. KeyInv'
  BY <1>1, <1>11, <1>12, <1>14 DEF IInv, KeyInv, StateOK, Disposed, reconciler
<1>19. WorkInv'
  <2>1. ASSUME instance # NoSupervisor PROVE Busy(supervisor[instance]) => Busy(supervisor[instance])'
    BY <1>1, <1>5, <1>7, <1>9, <2>1 DEF Busy, IInv, StateOK, reconciler
  <2>2. QED
    BY <1>1, <1>11, <1>14, <2>1 DEF IInv, WorkInv, StateOK, reconciler
<1>20. QED
  BY <1>13, <1>15, <1>16, <1>17, <1>18, <1>19 DEF IInv

LEMMA OutputStep ==
    ASSUME IInv, NEW h \in Helper, OutputEnds(h)
    PROVE  IInv'
<1>1. /\ helper[h].state = "draining" /\ helper' = [helper EXCEPT ![h] = NoProcess]
      /\ UNCHANGED <<reconciler, run, supervisor, disposer>>
  BY DEF OutputEnds
<1>2. /\ helper' \in [Helper -> Process] /\ helper'[h] = NoProcess
      /\ \A g \in Helper \ {h} : helper'[g] = helper[g]
  BY <1>1, RecordFact DEF IInv, StateOK
<1>3. StateOK' /\ ChainInv' /\ SupervisorInv' /\ KeyInv' /\ WorkInv'
  BY <1>1, <1>2 DEF IInv, StateOK, ChainInv, SupervisorInv, OneThing, KeyInv, WorkInv,
     Disposed, reconciler
<1>4. HelperInv'
  <2>1. ASSUME NEW k \in Supervisor, supervisor[k].child # NoHelper
        PROVE  supervisor[k].child \in Helper \ {h}
    BY <1>1, <2>1 DEF IInv, StateOK, Instance, HelperInv
  <2>2. QED
    BY <1>1, <1>2, <2>1, RecordFact DEF IInv, HelperInv
<1>5. QED
  BY <1>3, <1>4 DEF IInv

LEMMA ForgottenStep ==
    ASSUME IInv, NEW i \in Supervisor, Forgotten(i)
    PROVE  IInv'
<1>1. /\ instance # i /\ run.own # i /\ \A h \in Helper : helper[h].owner # i
      /\ supervisor' = [supervisor EXCEPT ![i] = NoInstance]
      /\ UNCHANGED <<reconciler, run, helper, disposer>>
  BY DEF Forgotten
<1>2. /\ supervisor' \in [Supervisor -> Instance] /\ supervisor'[i] = NoInstance
      /\ \A k \in Supervisor \ {i} : supervisor'[k] = supervisor[k]
  BY <1>1, RecordFact DEF IInv, StateOK
<1>3. StateOK' /\ ChainInv' /\ KeyInv' /\ WorkInv'
  BY <1>1, <1>2 DEF IInv, StateOK, ChainInv, KeyInv, WorkInv, Run, Busy, Disposed, reconciler
<1>4. SupervisorInv'
  BY <1>1, <1>2, RecordFact DEF IInv, SupervisorInv, OneThing, Busy, reconciler
<1>5. HelperInv'
  <2>1. ASSUME NEW h \in Helper PROVE supervisor'[helper[h].owner] = supervisor[helper[h].owner]
    BY <1>1, <1>2 DEF IInv, StateOK
  <2>2. QED
    BY <1>1, <1>2, <2>1, RecordFact DEF IInv, HelperInv, Busy
<1>6. QED
  BY <1>3, <1>4, <1>5 DEF IInv

LEMMA SettingsStep ==
    ASSUME IInv, OriginListens \/ (\E c \in Target : Configure(c))
    PROVE  IInv'
<1>1. /\ config' \in Target /\ queued' = (IF Disposed THEN queued ELSE queued + 1)
      /\ UNCHANGED <<applied, instance, run, supervisor, helper, disposer>>
      /\ origin' \in BOOLEAN /\ (origin => origin')
  BY DEF Configure, OriginListens, IInv, StateOK
<1>2. StateOK' /\ ChainInv' /\ HelperInv' /\ SupervisorInv'
  BY <1>1 DEF IInv, StateOK, ChainInv, HelperInv, SupervisorInv, OneThing, Busy, Disposed
<1>3. ~Disposed => queued' # 0
  BY <1>1 DEF IInv, StateOK
<1>4. KeyInv'
  BY <1>1, <1>3 DEF IInv, KeyInv, Disposed
<1>5. WorkInv'
  BY <1>1 DEF IInv, WorkInv, Busy
<1>6. QED
  BY <1>2, <1>4, <1>5 DEF IInv

LEMMA SkipStep == ASSUME IInv, ReconcileSkips PROVE IInv'
<1>1. /\ queued > 0 /\ run.at = "idle" /\ queued' = queued - 1
      /\ Disposed \/ applied = config
      /\ UNCHANGED <<config, origin, applied, instance, run, supervisor, helper, disposer>>
  BY DEF ReconcileSkips, Begins, Skips
<1>2. StateOK' /\ ChainInv' /\ HelperInv' /\ SupervisorInv'
  BY <1>1 DEF IInv, StateOK, ChainInv, HelperInv, SupervisorInv, OneThing, Disposed
<1>3. KeyInv' /\ WorkInv'
  BY <1>1 DEF IInv, StateOK, KeyInv, WorkInv, Busy, Disposed
<1>4. QED
  BY <1>2, <1>3 DEF IInv

LEMMA DisposeReturnsStep == ASSUME IInv, DisposeReturns PROVE IInv'
<1>1. /\ disposer.at = "stopping" /\ disposer.helper = NoHelper /\ run.at = "idle"
      /\ disposer' = [disposer EXCEPT !.at = "done"]
      /\ UNCHANGED <<reconciler, run, supervisor, helper>>
  BY DEF DisposeReturns
<1>2. /\ disposer'.at = "done" /\ disposer'.helper = disposer.helper
      /\ disposer' \in [at : {"no", "stopping", "done"}, helper : Helper \cup {NoHelper}]
  BY <1>1 DEF IInv, StateOK
<1>3. Disposed /\ Disposed'
  BY <1>1, <1>2 DEF Disposed
<1>4. StateOK' /\ ChainInv' /\ SupervisorInv'
  BY <1>1, <1>2, <1>3 DEF IInv, StateOK, ChainInv, SupervisorInv, OneThing, reconciler
<1>5. HelperInv' /\ KeyInv' /\ WorkInv'
  BY <1>1, <1>2, <1>3 DEF IInv, HelperInv, KeyInv, WorkInv, reconciler
<1>6. QED
  BY <1>4, <1>5 DEF IInv

-----------------------------------------------------------------------------
\* The second half of a reconcile: there is no instance, nobody waits for a helper on its
\* behalf, and the supervisors differ from the ones before it in a status at most.
LEMMA ContinueStep ==
    ASSUME IInv, NEW target \in Target, NEW others \in [Supervisor -> Instance],
           \A k \in Supervisor :
              /\ SameBut(others[k], supervisor[k])
              /\ others[k].checking = supervisor[k].checking
              /\ others[k].analysing = supervisor[k].analysing
              /\ others[k].timer = supervisor[k].timer,
           Continue(target, others),
           instance = NoSupervisor, run.at \in {"idle", "stopping"}, run.helper = NoHelper,
           queued' \in Nat, ~Disposed /\ origin /\ queued' = 0 => config = target,
           disposer.at # "done",
           UNCHANGED <<config, origin, helper, disposer>>
    PROVE  IInv'
<1>1. CASE Disposed
  <2>1. run' = IdleRun /\ supervisor' = others /\ UNCHANGED <<instance, applied>>
    BY <1>1 DEF Continue
  <2>2. StateOK' /\ ChainInv'
    BY <1>1, <2>1, RecordFact DEF IInv, StateOK, ChainInv, Disposed
  <2>3. SupervisorInv'
    <3>1. ASSUME NEW k \in Supervisor PROVE OneThing(supervisor[k])'
      BY <2>1 DEF IInv, SupervisorInv, OneThing, Busy, SameBut
    <3>2. QED
      BY <2>1, <3>1 DEF IInv, SupervisorInv, SameBut
  <2>4. HelperInv'
    BY <2>1, RecordFact DEF IInv, HelperInv, SameBut
  <2>5. KeyInv' /\ WorkInv'
    BY <1>1, <2>1 DEF IInv, KeyInv, WorkInv, Disposed
  <2>6. QED
    BY <2>2, <2>3, <2>4, <2>5 DEF IInv
<1>2. CASE ~Disposed
  <2> DEFINE made == [NoInstance EXCEPT !.made = TRUE, !.enabled = target.enabled,
                         !.settings = target.settings, !.begun = origin,
                         !.phase = IF target.enabled THEN "stopped" ELSE "disabled"]
             s == IF origin THEN Started(made) ELSE made
  <2>1. PICK i \in Supervisor :
          /\ ~others[i].made
          /\ supervisor' = [others EXCEPT ![i] = s]
          /\ instance' = i
          /\ applied' = target
          /\ run' = IF s.checking
                    THEN [IdleRun EXCEPT !.at = "starting", !.target = target, !.own = i]
                    ELSE IdleRun
    BY <1>2 DEF Continue
  <2>2. /\ target.enabled \in BOOLEAN /\ target.settings \in Settings
        /\ target = [enabled |-> target.enabled, settings |-> target.settings]
    BY DEF Target
  <2> origin \in BOOLEAN
    BY DEF IInv, StateOK
  <2>3. /\ made \in Instance /\ made.made /\ made.enabled = target.enabled
        /\ made.settings = target.settings /\ ~made.stopping /\ made.child = NoHelper
        /\ ~made.checking /\ ~made.analysing /\ ~made.timer /\ made.begun = origin
    BY <2>2 DEF NoInstance, Instance, Phase
  <2> HIDE DEF made
  <2>4. /\ s \in Instance /\ s.made /\ s.enabled = target.enabled
        /\ s.settings = target.settings /\ ~s.stopping /\ s.child = NoHelper
        /\ ~s.analysing /\ ~s.timer /\ s.begun = origin
        /\ s.checking = (origin /\ target.enabled)
    BY <2>2, <2>3 DEF Started, MayStart, Instance, IInv, StateOK
  <2> HIDE DEF s
  <2>5. run' \in Run /\ run'.at \in {"idle", "starting"} /\ run'.helper = NoHelper
        /\ (run'.at = "starting" => run'.own = i)
    BY <2>1, RecordFact DEF IdleRun, Run
  <2>6. /\ supervisor' \in [Supervisor -> Instance] /\ supervisor'[i] = s
        /\ \A k \in Supervisor \ {i} : supervisor'[k] = others[k]
    BY <2>1, <2>4
  <2>7. StateOK'
    BY <2>1, <2>5, <2>6 DEF IInv, StateOK
  <2>8. i # NoSupervisor /\ disposer.helper = NoHelper /\ ~Disposed'
    BY <1>2, RemoteAssumption DEF IInv, ChainInv, Disposed
  <2>9. ChainInv'
    BY <1>2, <2>1, <2>4, <2>5, <2>6, <2>8 DEF ChainInv, Disposed
  <2>10. SupervisorInv'
    <3>1. ASSUME NEW k \in Supervisor PROVE OneThing(supervisor[k])'
      <4>1. CASE k = i
        BY <2>4, <2>6, <4>1 DEF OneThing, Busy
      <4>2. CASE k # i
        <5>1. OneThing(supervisor[k]) /\ supervisor'[k] = others[k]
          BY <2>6, <4>2 DEF IInv, SupervisorInv
        <5>2. QED
          BY <5>1 DEF OneThing, Busy, SameBut
      <4>3. QED
        BY <4>1, <4>2
    <3>2. ASSUME NEW k \in Supervisor, k # i, supervisor'[k].made PROVE supervisor'[k].stopping
      BY <2>6, <3>2, RemoteAssumption DEF IInv, SupervisorInv, SameBut
    <3>3. QED
      BY <2>1, <2>4, <2>6, <3>1, <3>2 DEF SupervisorInv
  <2>11. HelperInv'
    <3>1. ~supervisor[i].made /\ supervisor[i].child = NoHelper
      BY <2>1 DEF IInv, SupervisorInv, OneThing, Busy, SameBut
    <3>2. ASSUME NEW h \in Helper, helper[h].state # "none"
          PROVE  /\ helper[h].owner \in Supervisor \ {i}
                 /\ SameBut(supervisor'[helper[h].owner], supervisor[helper[h].owner])
      BY <2>6, <3>1, <3>2 DEF IInv, HelperInv
    <3>3. ASSUME NEW k \in Supervisor PROVE supervisor'[k].child = supervisor[k].child
      BY <2>4, <2>6, <3>1 DEF SameBut
    <3>4. ASSUME NEW h \in Helper, helper[h].state = "up"
          PROVE  supervisor[helper[h].owner].child = h
      BY <2>8, <3>4, RemoteAssumption DEF IInv, HelperInv
    <3>5. ASSUME NEW h \in Helper
          PROVE  /\ helper[h].state = "none" => helper[h] = NoProcess
                 /\ helper[h].state # "none" =>
                       helper[h].owner \in Supervisor /\ supervisor'[helper[h].owner].made
                 /\ helper[h].killed => supervisor'[helper[h].owner].stopping
                 /\ helper[h].state = "up" => supervisor'[helper[h].owner].child = h
      <4>1. helper[h].killed => helper[h].state # "none"
        BY RecordFact DEF IInv, HelperInv
      <4>2. QED
        BY <3>2, <3>3, <3>4, <4>1 DEF IInv, HelperInv, SameBut
    <3>6. ASSUME NEW k \in Supervisor, supervisor'[k].child # NoHelper
          PROVE  /\ helper[supervisor'[k].child].owner = k
                 /\ helper[supervisor'[k].child].state \in {"up", "failed"}
      BY <3>3, <3>6 DEF IInv, HelperInv
    <3>7. UNCHANGED helper
      OBVIOUS
    <3>8. QED
      BY <3>5, <3>6, <3>7 DEF HelperInv
  <2>12. KeyInv'
    BY <2>1, <2>2, <2>4, <2>5, <2>6, <2>8 DEF KeyInv, Disposed
  <2>13. WorkInv'
    BY <2>1, <2>4, <2>6 DEF WorkInv, Busy
  <2>14. QED
    BY <2>7, <2>9, <2>10, <2>11, <2>12, <2>13 DEF IInv
<1>3. QED
  BY <1>1, <1>2

LEMMA FirstStep == ASSUME IInv, FirstReconcile PROVE IInv'
<1>1. /\ queued > 0 /\ run.at = "idle" /\ queued' = queued - 1 /\ ~Disposed
      /\ instance = NoSupervisor /\ Continue(config, supervisor)
      /\ UNCHANGED <<config, origin, helper, disposer>>
  BY DEF FirstReconcile, Begins, Skips
<1>2. /\ config \in Target /\ supervisor \in [Supervisor -> Instance] /\ queued' \in Nat
      /\ run.helper = NoHelper /\ disposer.at # "done"
  BY <1>1 DEF IInv, StateOK, ChainInv, WorkInv, Disposed
<1>3. QED
  BY <1>1, <1>2, ContinueStep DEF SameBut

LEMMA PreviousStep == ASSUME IInv, PreviousStopped PROVE IInv'
<1> DEFINE others == [supervisor EXCEPT ![run.own].phase = "stopped"]
<1>1. /\ run.at = "stopping" /\ run.helper = NoHelper
      /\ Continue(run.target, others)
      /\ UNCHANGED <<config, origin, queued, helper, disposer>>
  BY DEF PreviousStopped, IsReaped
<1>2. /\ run.target \in Target /\ instance = NoSupervisor /\ queued' \in Nat
      /\ disposer.at # "done"
      /\ run.own \in Supervisor
  BY <1>1 DEF IInv, StateOK, ChainInv, WorkInv, Run
<1>3. /\ others \in [Supervisor -> Instance]
      /\ \A k \in Supervisor :
            /\ SameBut(others[k], supervisor[k])
            /\ others[k].checking = supervisor[k].checking
            /\ others[k].analysing = supervisor[k].analysing
            /\ others[k].timer = supervisor[k].timer
  <2>1. supervisor \in [Supervisor -> Instance] /\ supervisor[run.own] \in Instance
    BY <1>2 DEF IInv, StateOK
  <2>2. ASSUME NEW s \in Instance, NEW t, t = [s EXCEPT !.phase = "stopped"]
        PROVE  /\ t \in Instance /\ SameBut(t, s) /\ t.checking = s.checking
               /\ t.analysing = s.analysing /\ t.timer = s.timer
    BY <2>2 DEF Instance, Phase, SameBut
  <2>3. /\ others = [supervisor EXCEPT ![run.own] = [supervisor[run.own] EXCEPT !.phase = "stopped"]]
        /\ others[run.own] = [supervisor[run.own] EXCEPT !.phase = "stopped"]
    BY <1>2, <2>1
  <2> HIDE DEF others
  <2>4. others \in [Supervisor -> Instance]
    BY <2>1, <2>2, <2>3
  <2>5. \A k \in Supervisor \ {run.own} : others[k] = supervisor[k]
    BY <2>1, <2>3
  <2>6. QED
    BY <2>1, <2>2, <2>3, <2>4, <2>5 DEF SameBut
<1> HIDE DEF others
<1>4. ASSUME ~Disposed, origin, queued' = 0 PROVE config = run.target
  BY <1>1, <1>4 DEF IInv, KeyInv
<1>5. QED
  BY <1>1, <1>2, <1>3, <1>4, ContinueStep

\* The instance is stopped: the reconcile or the dispose that stops it waits for its
\* helper, which nobody else waits for.
LEMMA StopsStep ==
    ASSUME IInv, instance # NoSupervisor, ~Disposed, run.at # "stopping",
           helper' = Killed(supervisor[instance].child),
           supervisor' = [supervisor EXCEPT ![instance] = Stopped(@)],
           supervisor[instance].child \in {run'.helper, disposer'.helper},
           instance' = NoSupervisor, UNCHANGED origin
    PROVE  /\ supervisor' \in [Supervisor -> Instance] /\ helper' \in [Helper -> Process]
           /\ \A k \in Supervisor : supervisor'[k].made = supervisor[k].made
           /\ SupervisorInv' /\ HelperInv'
<1> DEFINE s == supervisor[instance]
           t == Stopped(s)
           c == s.child
<1>1. instance \in Supervisor /\ s \in Instance /\ OneThing(s)
  BY DEF IInv, StateOK, SupervisorInv
<1>2. /\ t \in Instance /\ t.made = s.made /\ t.enabled = s.enabled /\ t.stopping
      /\ t.child = NoHelper /\ ~t.timer /\ t.checking = s.checking
      /\ t.analysing = s.analysing
  BY <1>1 DEF Stopped, Instance, Phase
<1>3. OneThing(t)
  BY <1>1, <1>2 DEF OneThing, Busy
<1> HIDE DEF t
<1>4. /\ supervisor' \in [Supervisor -> Instance] /\ supervisor'[instance] = t
      /\ \A k \in Supervisor \ {instance} : supervisor'[k] = supervisor[k]
  BY <1>1, <1>2 DEF IInv, StateOK, t
<1>5. /\ helper' \in [Helper -> Process]
      /\ \A h \in Helper : /\ helper'[h].state = helper[h].state
                           /\ helper'[h].owner = helper[h].owner
                           /\ h # c => helper'[h] = helper[h]
                           /\ h = c => helper'[h].killed
  <2>1. ASSUME NEW p \in Process, NEW q, q = [p EXCEPT !.killed = TRUE]
        PROVE  q \in Process /\ q.state = p.state /\ q.owner = p.owner /\ q.killed
    BY <2>1 DEF Process
  <2>2. /\ helper \in [Helper -> Process]
        /\ helper' = [h \in Helper |-> IF h = c THEN [helper[h] EXCEPT !.killed = TRUE]
                                       ELSE helper[h]]
    BY DEF Killed, IInv, StateOK
  <2> HIDE DEF c
  <2>3. ASSUME NEW h \in Helper
        PROVE  /\ helper'[h] \in Process /\ helper'[h].state = helper[h].state
               /\ helper'[h].owner = helper[h].owner
               /\ h # c => helper'[h] = helper[h]
               /\ h = c => helper'[h].killed
    BY <2>1, <2>2
  <2>4. QED
    BY <2>2, <2>3
<1>6. \A k \in Supervisor : supervisor'[k].made = supervisor[k].made
                            /\ (supervisor[k].stopping => supervisor'[k].stopping)
  BY <1>2, <1>4
<1>7. SupervisorInv'
  <2>1. ASSUME NEW k \in Supervisor PROVE OneThing(supervisor[k])'
    BY <1>3, <1>4 DEF IInv, SupervisorInv, OneThing, Busy
  <2>2. ASSUME NEW k \in Supervisor, supervisor'[k].made PROVE supervisor'[k].stopping
    BY <1>2, <1>4, <2>2 DEF IInv, SupervisorInv
  <2>3. QED
    BY <2>1, <2>2, RemoteAssumption DEF SupervisorInv
<1>8. HelperInv'
  <2>1. c # NoHelper => c \in Helper /\ helper[c].owner = instance
                        /\ helper[c].state \in {"up", "failed"}
    BY <1>1 DEF IInv, HelperInv, Instance
  <2>2. ASSUME NEW h \in Helper
        PROVE  /\ helper'[h].state = "none" => helper'[h] = NoProcess
               /\ helper'[h].state # "none" =>
                     helper'[h].owner \in Supervisor /\ supervisor'[helper'[h].owner].made
    BY <1>5, <1>6, <2>1, RemoteAssumption DEF IInv, HelperInv
  <2>3. ASSUME NEW h \in Helper, helper'[h].killed
        PROVE  supervisor'[helper'[h].owner].stopping
    <3>1. CASE h = c
      BY <1>2, <1>4, <1>5, <2>1, <3>1, RemoteAssumption
    <3>2. CASE h # c
      <4>1. helper[h].killed /\ helper[h].state # "none"
        BY <1>5, <2>3, <3>2, RecordFact DEF IInv, HelperInv
      <4>2. QED
        BY <1>5, <1>6, <4>1 DEF IInv, HelperInv
    <3>3. QED
      BY <3>1, <3>2
  <2>4. ASSUME NEW h \in Helper, helper'[h].state = "up"
        PROVE  helper'[h].killed /\ h \in {run'.helper, disposer'.helper}
    <3>1. helper[h].state = "up"
      BY <1>5, <2>4
    <3>2. h = c
      BY <3>1, RunningFact
    <3>3. QED
      BY <1>5, <3>2
  <2>5. ASSUME NEW k \in Supervisor, supervisor'[k].child # NoHelper
        PROVE  /\ helper'[supervisor'[k].child].owner = k
               /\ helper'[supervisor'[k].child].state \in {"up", "failed"}
    <3>1. supervisor'[k] = supervisor[k] /\ supervisor[k].child \in Helper
      BY <1>2, <1>4, <2>5 DEF IInv, StateOK, Instance
    <3>2. QED
      BY <1>5, <2>5, <3>1 DEF IInv, HelperInv
  <2>6. QED
    BY <2>2, <2>3, <2>4, <2>5 DEF HelperInv
<1>9. QED
  BY <1>4, <1>5, <1>6, <1>7, <1>8

LEMMA NextStep == ASSUME IInv, NextReconcile PROVE IInv'
<1> DEFINE child == supervisor[instance].child
<1>1. /\ queued > 0 /\ run.at = "idle" /\ queued' = queued - 1 /\ ~Disposed
      /\ instance # NoSupervisor /\ instance' = NoSupervisor
      /\ helper' = Killed(child)
      /\ run' = [at |-> "stopping", target |-> config, own |-> instance, helper |-> child]
      /\ supervisor' = [supervisor EXCEPT ![instance] = Stopped(@)]
      /\ UNCHANGED <<config, origin, applied, disposer>>
  BY DEF NextReconcile, Begins, Skips
<1>2. /\ instance \in Supervisor /\ supervisor[instance].made
      /\ child \in Helper \cup {NoHelper} /\ config \in Target
  BY <1>1 DEF IInv, StateOK, Instance, ChainInv
<1> HIDE DEF child
<1>3. /\ supervisor' \in [Supervisor -> Instance] /\ helper' \in [Helper -> Process]
      /\ \A k \in Supervisor : supervisor'[k].made = supervisor[k].made
      /\ SupervisorInv' /\ HelperInv'
  BY <1>1, StopsStep DEF child
<1>4. StateOK'
  BY <1>1, <1>2, <1>3 DEF IInv, StateOK, Run
<1>5. ChainInv'
  BY <1>1, <1>2, <1>3, RemoteAssumption DEF IInv, ChainInv, Disposed
<1>6. KeyInv'
  BY <1>1 DEF KeyInv, Disposed
<1>7. WorkInv'
  BY <1>1 DEF IInv, WorkInv
<1>8. QED
  BY <1>3, <1>4, <1>5, <1>6, <1>7 DEF IInv

LEMMA DisposeStep == ASSUME IInv, Dispose PROVE IInv'
<1>1. /\ ~Disposed /\ instance' = NoSupervisor
      /\ UNCHANGED <<config, changes, origin, queued, applied, run>>
  BY DEF Dispose
<1>2. CASE instance = NoSupervisor
  <2>1. /\ disposer' = [at |-> "stopping", helper |-> NoHelper]
        /\ UNCHANGED <<supervisor, helper>>
    BY <1>2 DEF Dispose
  <2>2. disposer.helper = NoHelper /\ Disposed'
    BY <1>1, <2>1 DEF IInv, ChainInv, Disposed
  <2>3. StateOK' /\ ChainInv' /\ SupervisorInv' /\ KeyInv' /\ WorkInv'
    BY <1>1, <1>2, <2>1, <2>2
       DEF IInv, StateOK, ChainInv, SupervisorInv, OneThing, KeyInv, WorkInv, Disposed
  <2>4. HelperInv'
    BY <1>1, <1>2, <2>1, <2>2 DEF IInv, HelperInv
  <2>5. QED
    BY <2>3, <2>4 DEF IInv
<1>3. CASE instance # NoSupervisor
  <2> DEFINE child == supervisor[instance].child
  <2>1. /\ disposer' = [at |-> "stopping", helper |-> child]
        /\ helper' = Killed(child)
        /\ supervisor' = [supervisor EXCEPT ![instance] = Stopped(@)]
    BY <1>3 DEF Dispose
  <2>2. child \in Helper \cup {NoHelper} /\ instance \in Supervisor /\ run.at # "stopping"
    BY <1>3 DEF IInv, StateOK, Instance, ChainInv
  <2>3. Disposed'
    BY <2>1 DEF Disposed
  <2> HIDE DEF child
  <2>4. /\ supervisor' \in [Supervisor -> Instance] /\ helper' \in [Helper -> Process]
        /\ \A k \in Supervisor : supervisor'[k].made = supervisor[k].made
        /\ SupervisorInv' /\ HelperInv'
    BY <1>1, <1>3, <2>1, <2>2, StopsStep DEF child
  <2>5. StateOK'
    BY <1>1, <2>1, <2>2, <2>4 DEF IInv, StateOK
  <2>6. ChainInv'
    BY <1>1, <2>1, <2>2, <2>3, <2>4 DEF IInv, StateOK, ChainInv, Run
  <2>7. KeyInv' /\ WorkInv'
    BY <1>1, <2>3 DEF IInv, KeyInv, WorkInv
  <2>8. QED
    BY <2>4, <2>5, <2>6, <2>7 DEF IInv
<1>4. QED
  BY <1>2, <1>3

-----------------------------------------------------------------------------
LEMMA StepFact == ASSUME IInv, [Next]_vars PROVE IInv'
<1>1. CASE UNCHANGED vars
  BY <1>1 DEF vars, reconciler, IInv, StateOK, ChainInv, SupervisorInv, OneThing, HelperInv,
     KeyInv, WorkInv, Disposed
<1>2. CASE OriginListens \/ (\E c \in Target : Configure(c))
  BY <1>2, SettingsStep
<1>3. CASE ReconcilerStep
  BY <1>3, SkipStep, FirstStep, NextStep, PreviousStep DEF ReconcilerStep
<1>4. CASE Dispose \/ DisposeReturns
  BY <1>4, DisposeStep, DisposeReturnsStep
<1>5. ASSUME NEW i \in Supervisor, SupervisorStep(i) \/ HelperMissing(i) \/ Forgotten(i)
      PROVE  IInv'
  BY <1>5, FoundStep, AnalysedStep, TimerStep, MissingStep, ForgottenStep DEF SupervisorStep
<1>6. ASSUME NEW h \in Helper,
             OutputEnds(h) \/ HelperExits(h) \/ \E p \in Reported : HelperReports(h, p)
      PROVE  IInv'
  BY <1>6, OutputStep, ExitStep, ReportStep
<1>7. QED
  BY <1>1, <1>2, <1>3, <1>4, <1>5, <1>6 DEF Next

THEOREM SafeTransport == Spec => []IInv
BY InitFact, StepFact, PTL DEF Spec

\* Whatever order the settings, the searches, the exits and a dispose come in, there is
\* one helper process at most, somebody is responsible for it, and none is left when
\* dispose() returns (remote-supervisor.ts, start() and dispose(); transport-reconciler.ts).
THEOREM NoHelperIsLeftBehind == Spec => []NoOrphan
BY SafeTransport, NoOrphanFact, PTL

\* When the chain of reconciles is empty, the helper there is belongs to the supervisor
\* that was made from the settings there are, and a Funnel that is wanted is at work on
\* getting one, unless its supervisor was constructed before the origin listened: such a
\* change writes its key and starts nothing (transport-reconciler.ts, reconcile()).
THEOREM FunnelStaysTended == Spec => []FunnelIsTended
BY SafeTransport, FunnelIsTendedFact, PTL
=============================================================================
