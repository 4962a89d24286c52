--------------------------- MODULE RemoteTransport ---------------------------
(***************************************************************************)
(* The Funnel: the TransportReconciler that owns a RemoteSupervisor        *)
(* (transport-reconciler.ts), and the supervisors with their tunnel        *)
(* helpers, which are processes of their own (remote-supervisor.ts).  A    *)
(* supervisor looks for the helper, spawns it, reads its reports, and      *)
(* starts it again some time after it exits; a change of the settings      *)
(* disposes of the supervisor and constructs another one.                  *)
(*                                                                         *)
(* Delays are left to the scheduler: the time between two attempts is not  *)
(* modelled.  A definition named X_Fault is X with a fault, kept to show   *)
(* that the properties can tell them apart; the specification does not use *)
(* it.                                                                     *)
(***************************************************************************)
EXTENDS Naturals, FiniteSets

CONSTANTS Settings,              \* values of the settings a supervisor is made from
          Supervisor, NoSupervisor,
          Helper, NoHelper,
          NoTarget,
          Reported,              \* the phases of its helper that a run tells apart
          MaxChanges             \* bound: changes of the settings

\* What a line of the helper's output may say.
Phase == {"starting", "login_required", "online", "error", "stopped"}

ASSUME RemoteAssumption ==
    /\ Reported \subseteq Phase
    /\ NoTarget \notin [enabled : BOOLEAN, settings : Settings]
    /\ IsFiniteSet(Supervisor) /\ NoSupervisor \notin Supervisor
    /\ IsFiniteSet(Helper) /\ NoHelper \notin Helper
    /\ MaxChanges \in Nat

VARIABLES config,     \* the settings now
          changes,    \* how often they changed
          origin,     \* whether the loopback origin listens
          queued,     \* reconciles on the chain that have not begun
          run,        \* the reconcile that has begun; "helper" is the exit it waits for
          applied,    \* appliedKey
          instance,   \* instance
          supervisor, \* the supervisors
          helper,     \* the helper processes
          disposer    \* dispose(); "helper" is the exit it waits for

reconciler == <<config, changes, origin, queued, applied, instance>>
vars == <<reconciler, run, supervisor, helper, disposer>>

Target == [enabled : BOOLEAN, settings : Settings]

\* "begun" is whether the reconcile that constructed it called start(), "checking" start()
\* looking for the helper, "analysing" analyzeCrashExit(), "timer" restartTimer.
NoInstance == [made |-> FALSE, enabled |-> FALSE, settings |-> NoTarget, phase |-> "disabled",
               begun |-> FALSE,
               child |-> NoHelper, checking |-> FALSE, analysing |-> FALSE, timer |-> FALSE,
               stopping |-> FALSE]
NoProcess == [state |-> "none", owner |-> NoSupervisor, killed |-> FALSE]
IdleRun == [at |-> "idle", target |-> NoTarget, own |-> NoSupervisor, helper |-> NoHelper]
Disposed == disposer.at # "no"

Init ==
    /\ config \in Target
    /\ changes = 0
    /\ origin = FALSE
    /\ queued = 0
    /\ run = IdleRun
    /\ applied = NoTarget
    /\ instance = NoSupervisor
    /\ supervisor = [i \in Supervisor |-> NoInstance]
    /\ helper = [h \in Helper |-> NoProcess]
    /\ disposer = [at |-> "no", helper |-> NoHelper]

-----------------------------------------------------------------------------
(* RemoteSupervisor *)

\* start(), up to its first await: one helper at a time, and none after dispose().
MayStart(s) == s.enabled /\ s.child = NoHelper /\ ~s.stopping
Started(s) == IF MayStart(s) THEN [s EXCEPT !.checking = TRUE] ELSE s

\* dispose(), up to the await of the exit; the caller waits for the child.
Stopped(s) ==
    [s EXCEPT !.stopping = TRUE, !.timer = FALSE, !.child = NoHelper,
              !.phase = IF s.child = NoHelper THEN "stopped" ELSE @]
Killed(h) == [p \in Helper |-> IF p = h THEN [helper[p] EXCEPT !.killed = TRUE] ELSE helper[p]]

\* scheduleRestart()
Rescheduled_AfterCrash(s, phase) ==
    [s EXCEPT !.phase = phase, !.timer = ~s.stopping /\ phase = "error"]
Rescheduled(s, phase) == [s EXCEPT !.phase = phase, !.timer = ~s.stopping]

\* start() returned to the reconcile that called it.
Returned(i) == run' = IF run.at = "starting" /\ run.own = i THEN IdleRun ELSE run

HelperMissing(i) ==
    /\ supervisor[i].checking
    /\ LET s == [supervisor[i] EXCEPT !.checking = FALSE]
       IN  supervisor' = [supervisor EXCEPT ![i] =
               IF s.stopping THEN s ELSE Rescheduled(s, "unavailable")]
    /\ Returned(i)
    /\ UNCHANGED <<reconciler, helper, disposer>>

\* The helper was found: unless dispose() came first it is spawned, into the process h.  A
\* launch that fails leaves a child without a process, which has no exit event.
GivesUp_Never(s) == FALSE
GivesUp(s) == s.stopping
HelperFound(i) ==
    /\ supervisor[i].checking
    /\ IF GivesUp(supervisor[i])
       THEN /\ supervisor' = [supervisor EXCEPT ![i].checking = FALSE]
            /\ UNCHANGED helper
       ELSE \E h \in Helper :
            \E state \in {"up", "failed"} :
                /\ helper[h] = NoProcess
                /\ helper' = [helper EXCEPT ![h] = [state |-> state, owner |-> i, killed |-> FALSE]]
                /\ supervisor' = [supervisor EXCEPT ![i].checking = FALSE, ![i].child = h,
                       ![i].phase = IF state = "up" THEN "starting" ELSE "error"]
    /\ Returned(i)
    /\ UNCHANGED <<reconciler, disposer>>

\* A line of the helper's output, which may still be read after the exit event.
HelperReports(h, phase) ==
    /\ helper[h].state \in {"up", "draining"}
    /\ LET i == helper[h].owner
       IN  /\ ~(phase = "login_required" /\ supervisor[i].phase = "online")
           /\ supervisor' = [supervisor EXCEPT ![i].phase = phase]
    /\ UNCHANGED <<reconciler, run, helper, disposer>>

OutputEnds(h) ==
    /\ helper[h].state = "draining"
    /\ helper' = [helper EXCEPT ![h] = NoProcess]
    /\ UNCHANGED <<reconciler, run, supervisor, disposer>>

\* The exit event, which also ends the wait of whoever disposes of the supervisor.
AfterExit_KeepsChild(s, h) ==
    IF s.stopping THEN [s EXCEPT !.phase = "stopped"] ELSE [s EXCEPT !.analysing = TRUE]
AfterExit(s, h) ==
    LET left == [s EXCEPT !.child = IF @ = h THEN NoHelper ELSE @]
    IN  IF s.stopping THEN [left EXCEPT !.phase = "stopped"]
        ELSE [left EXCEPT !.analysing = TRUE]
HelperExits(h) ==
    /\ helper[h].state = "up"
    /\ helper' = [helper EXCEPT ![h].state = "draining"]
    /\ supervisor' = [supervisor EXCEPT ![helper[h].owner] = AfterExit(@, h)]
    /\ run' = [run EXCEPT !.helper = IF @ = h THEN NoHelper ELSE @]
    /\ disposer' = [disposer EXCEPT !.helper = IF @ = h THEN NoHelper ELSE @]
    /\ UNCHANGED reconciler

\* analyzeCrashExit() is done.
Analysed(i) ==
    /\ supervisor[i].analysing
    /\ LET s == [supervisor[i] EXCEPT !.analysing = FALSE]
       IN  supervisor' = [supervisor EXCEPT ![i] =
               IF s.stopping THEN s ELSE Rescheduled(s, "error")]
    /\ UNCHANGED <<reconciler, run, helper, disposer>>

TimerFires(i) ==
    /\ supervisor[i].timer
    /\ supervisor' = [supervisor EXCEPT ![i] = Started([@ EXCEPT !.timer = FALSE])]
    /\ UNCHANGED <<reconciler, run, helper, disposer>>

-----------------------------------------------------------------------------
(* The reconciler *)

\* The settings may change before the loopback origin listens.
Configure(c) ==
    /\ changes < MaxChanges
    /\ changes' = changes + 1
    /\ config' = c
    /\ queued' = IF Disposed THEN queued ELSE queued + 1
    /\ UNCHANGED <<origin, applied, instance, run, supervisor, helper, disposer>>

\* The loopback origin listens: the first reconcile is scheduled.
OriginListens ==
    /\ ~origin
    /\ origin' = TRUE
    /\ queued' = IF Disposed THEN queued ELSE queued + 1
    /\ UNCHANGED <<config, changes, applied, instance, run, supervisor, helper, disposer>>

\* The part of reconcile() after the previous supervisor is stopped: another one is
\* constructed, the key is written, and it is started if there is an origin.
Continue(target, others) ==
    IF Disposed
    THEN /\ run' = IdleRun
         /\ supervisor' = others
         /\ UNCHANGED <<instance, applied>>
    ELSE \E i \in Supervisor :
         LET made == [NoInstance EXCEPT !.made = TRUE, !.enabled = target.enabled,
                         !.settings = target.settings, !.begun = origin,
                         !.phase = IF target.enabled THEN "stopped" ELSE "disabled"]
             s == IF origin THEN Started(made) ELSE made
         IN  /\ ~others[i].made
             /\ supervisor' = [others EXCEPT ![i] = s]
             /\ instance' = i
             /\ applied' = target
             /\ run' = IF s.checking
                       THEN [IdleRun EXCEPT !.at = "starting", !.target = target, !.own = i]
                       ELSE IdleRun

Begins == queued > 0 /\ run.at = "idle"
Skips == Disposed \/ applied = config

ReconcileSkips ==
    /\ Begins
    /\ Skips
    /\ queued' = queued - 1
    /\ UNCHANGED <<config, changes, origin, applied, instance, run, supervisor, helper, disposer>>

FirstReconcile ==
    /\ Begins
    /\ ~Skips
    /\ instance = NoSupervisor
    /\ queued' = queued - 1
    /\ Continue(config, supervisor)
    /\ UNCHANGED <<config, changes, origin, helper, disposer>>

NextReconcile ==
    /\ Begins
    /\ ~Skips
    /\ instance # NoSupervisor
    /\ queued' = queued - 1
    /\ LET child == supervisor[instance].child
       IN  /\ helper' = Killed(child)
           /\ run' = [at |-> "stopping", target |-> config, own |-> instance, helper |-> child]
    /\ supervisor' = [supervisor EXCEPT ![instance] = Stopped(@)]
    /\ instance' = NoSupervisor
    /\ UNCHANGED <<config, changes, origin, applied, disposer>>

\* The previous helper has exited; its supervisor is no longer referred to.
IsReaped == run.helper = NoHelper
PreviousStopped ==
    /\ run.at = "stopping"
    /\ IsReaped
    /\ Continue(run.target, [supervisor EXCEPT ![run.own].phase = "stopped"])
    /\ UNCHANGED <<config, changes, origin, queued, helper, disposer>>

Dispose ==
    /\ ~Disposed
    /\ IF instance = NoSupervisor
       THEN /\ disposer' = [at |-> "stopping", helper |-> NoHelper]
            /\ UNCHANGED <<supervisor, helper>>
       ELSE LET child == supervisor[instance].child
            IN  /\ disposer' = [at |-> "stopping", helper |-> child]
                /\ helper' = Killed(child)
                /\ supervisor' = [supervisor EXCEPT ![instance] = Stopped(@)]
    /\ instance' = NoSupervisor
    /\ UNCHANGED <<config, changes, origin, queued, applied, run>>

DisposeReturns ==
    /\ disposer.at = "stopping"
    /\ disposer.helper = NoHelper
    /\ queued = 0 /\ run.at = "idle"
    /\ disposer' = [disposer EXCEPT !.at = "done"]
    /\ UNCHANGED <<reconciler, run, supervisor, helper>>

\* A supervisor that nobody refers to and that has nothing under way is collected.
Forgotten(i) ==
    /\ supervisor[i].made /\ instance # i /\ run.own # i
    /\ ~(supervisor[i].checking \/ supervisor[i].analysing \/ supervisor[i].timer)
    /\ \A h \in Helper : helper[h].owner # i
    /\ supervisor' = [supervisor EXCEPT ![i] = NoInstance]
    /\ UNCHANGED <<reconciler, run, helper, disposer>>

-----------------------------------------------------------------------------
ReconcilerStep == ReconcileSkips \/ FirstReconcile \/ NextReconcile \/ PreviousStopped
HelperStep(h) == OutputEnds(h) \/ (helper[h].killed /\ HelperExits(h))
SupervisorStep(i) == HelperFound(i) \/ Analysed(i) \/ TimerFires(i)

Next ==
    \/ \E c \in Target : Configure(c)
    \/ OriginListens \/ ReconcilerStep \/ Dispose \/ DisposeReturns
    \/ \E i \in Supervisor : SupervisorStep(i) \/ HelperMissing(i) \/ Forgotten(i)
    \/ \E h \in Helper : OutputEnds(h) \/ HelperExits(h) \/ \E p \in Reported : HelperReports(h, p)

Spec == Init /\ [][Next]_vars

\* Promises settle, timers fire, a helper that is there is found if it is looked for
\* often enough, and a helper that is killed exits.
Fairness ==
    /\ WF_vars(OriginListens) /\ WF_vars(ReconcilerStep) /\ WF_vars(DisposeReturns)
    /\ \A i \in Supervisor :
          /\ WF_vars(HelperFound(i) \/ HelperMissing(i)) /\ SF_vars(HelperFound(i))
          /\ WF_vars(Analysed(i)) /\ WF_vars(TimerFires(i)) /\ WF_vars(Forgotten(i))
    /\ \A h \in Helper : WF_vars(HelperStep(h))
LiveSpec == Spec /\ Fairness

-----------------------------------------------------------------------------
(***************************************************************************)
(* Properties.                                                             *)
(***************************************************************************)

TypeOK ==
    /\ config \in Target /\ applied \in Target \cup {NoTarget}
    /\ changes \in 0..MaxChanges /\ queued \in 0..(MaxChanges + 1) /\ origin \in BOOLEAN
    /\ run \in [at : {"idle", "stopping", "starting"}, target : Target \cup {NoTarget},
                own : Supervisor \cup {NoSupervisor}, helper : Helper \cup {NoHelper}]
    /\ instance \in Supervisor \cup {NoSupervisor}
    /\ supervisor \in [Supervisor ->
          [made : BOOLEAN, enabled : BOOLEAN, settings : Settings \cup {NoTarget}, begun : BOOLEAN,
           phase : Phase \cup {"disabled", "unavailable"}, child : Helper \cup {NoHelper},
           checking : BOOLEAN, analysing : BOOLEAN, timer : BOOLEAN, stopping : BOOLEAN]]
    /\ helper \in [Helper -> [state : {"none", "up", "failed", "draining"},
                              owner : Supervisor \cup {NoSupervisor}, killed : BOOLEAN]]
    /\ disposer \in [at : {"no", "stopping", "done"}, helper : Helper \cup {NoHelper}]
    /\ instance # NoSupervisor => supervisor[instance].made
    /\ \A i \in Supervisor : supervisor[i].child # NoHelper =>
          helper[supervisor[i].child].state \in {"up", "failed"}

Running == {h \in Helper : helper[h].state = "up"}

\* A helper that runs is the child of a supervisor, or killed and waited for: none is
\* left behind by a dispose() that came while the helper was looked for; and two never
\* run at once: they would share a state directory and a node name.
NoOrphan ==
    /\ \A g, h \in Running : g = h
    /\ \A h \in Running :
          \/ supervisor[helper[h].owner].child = h
          \/ helper[h].killed /\ h \in {run.helper, disposer.helper}
    /\ disposer.at = "done" => Running = {}

Settled == ~Disposed /\ queued = 0 /\ run.at = "idle"
Wanted == Settled /\ config.enabled /\ origin

\* It has a child, if only one that could not be launched, looks for a helper, or will.
Busy(s) == s.child # NoHelper \/ s.checking \/ s.analysing \/ s.timer

\* With the chain run dry the supervisor there is was made from the settings there are,
\* and it is at work.  The exception: a supervisor that a change constructed before the
\* origin listened was not started then, and is not when the origin listens, because that
\* reconcile finds the key unchanged.
FunnelIsTended ==
    /\ Settled => \A h \in Running : /\ helper[h].owner = instance
                                     /\ config.enabled
                                     /\ supervisor[instance].settings = config.settings
    /\ Wanted => /\ instance # NoSupervisor
                 /\ Busy(supervisor[instance]) \/ ~supervisor[instance].begun

\* The instance is past help: it was never started, or its helper could not be launched,
\* and then nothing schedules another attempt.
Neglected ==
    /\ instance # NoSupervisor
    /\ \/ ~supervisor[instance].begun
       \/ \E h \in Helper : helper[h].state = "failed" /\ supervisor[instance].child = h

\* A helper that is missing or exits, however often, is looked for and started again, as
\* long as the settings want it: the supervisor gives up only in the two cases above.
HelperComesBack == Wanted ~> Running # {} \/ ~Wanted \/ Neglected
=============================================================================
