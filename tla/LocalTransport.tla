--------------------------- MODULE LocalTransport ---------------------------
(***************************************************************************)
(* The LAN listener and the TransportReconciler that owns it               *)
(* (transport-reconciler.ts): every change of the settings appends a       *)
(* reconcile to a promise chain; a reconcile compares the target with the  *)
(* one applied last, stops the listener there is, waits until its last     *)
(* phone is gone, loads the TLS identity, and listens.  dispose() runs     *)
(* beside the chain.                                                       *)
(*                                                                         *)
(* A definition named X_Fault is X with a fault, kept to show that the     *)
(* properties can tell them apart; the specification does not use it.      *)
(***************************************************************************)
EXTENDS Naturals, FiniteSets

CONSTANTS Port,
          Listener, NoListener, \* LocalInstance objects, each with its server
          NoTarget,
          MaxChanges,           \* bound: changes of the settings
          LoadFails,            \* whether loading the TLS identity may fail
          ListenFails           \* whether the port may be taken

ASSUME LocalAssumption ==
    /\ IsFiniteSet(Listener) /\ NoListener \notin Listener
    /\ NoTarget \notin [enabled : BOOLEAN, port : Port]
    /\ MaxChanges \in Nat
    /\ {LoadFails, ListenFails} \subseteq BOOLEAN

VARIABLES config,    \* the settings now
          changes,   \* how often they changed
          queued,    \* reconciles on the chain that have not begun
          run,       \* the reconcile that has begun
          applied,   \* appliedKey
          instance,  \* instance
          listener,  \* the instances and their servers
          current,   \* currentStatus
          disposer   \* dispose() and the listener it waits for

localVars == <<config, changes, queued, run, applied, instance, listener, current, disposer>>

Config == [enabled : BOOLEAN, port : Port]

\* A placeholder has no server; a server is "closing" until its last phone has left.
Gone == [state |-> "none", port |-> 0, phones |-> FALSE]
IdleRun == [at |-> "idle", target |-> NoTarget, own |-> NoListener]
Disposed == disposer.at # "no"
IsGone(l) == \A k \in Listener : k = l => listener[k] = Gone

LocalInit ==
    /\ config \in {c \in Config : c.enabled}
    /\ changes = 0
    /\ queued = 1
    /\ run = IdleRun
    /\ applied = NoTarget
    /\ instance = NoListener
    /\ listener = [l \in Listener |-> Gone]
    /\ current = [phase |-> "starting", port |-> config.port]
    /\ disposer = [at |-> "no", waits |-> NoListener]

-----------------------------------------------------------------------------
\* stop(): closeServer() of a server that listens; any other is left to its begin().
Stopping_Forgets(l) == listener
Stopping(l) ==
    [k \in Listener |->
        IF k = l /\ listener[l].state = "listening"
        THEN [listener[l] EXCEPT !.state = "closing"] ELSE listener[k]]

\* status() of the reconciler.
Status ==
    IF instance # NoListener /\ listener[instance].state \in {"binding", "listening"}
    THEN [phase |-> "online", port |-> listener[instance].port]
    ELSE current

\* loader/volatile-update: any setting may have changed, not only these.
Configure(c) ==
    /\ changes < MaxChanges
    /\ changes' = changes + 1
    /\ config' = c
    /\ queued' = IF Disposed THEN queued ELSE queued + 1
    /\ UNCHANGED <<run, applied, instance, listener, current, disposer>>

\* The part of reconcile() after the previous instance is stopped, up to the await of
\* the TLS identity.
Continue(target) ==
    IF Disposed
    THEN /\ run' = IdleRun
         /\ UNCHANGED <<instance, listener, current>>
    ELSE IF ~target.enabled
    THEN /\ run' = IdleRun
         /\ current' = [phase |-> "disabled", port |-> target.port]
         /\ UNCHANGED <<instance, listener>>
    ELSE \E l \in Listener :
         /\ listener[l] = Gone
         /\ listener' = [listener EXCEPT ![l] = [Gone EXCEPT !.state = "placeholder",
                                                             !.port = target.port]]
         /\ instance' = l
         /\ run' = [at |-> "loading", target |-> target, own |-> l]
         /\ current' = [phase |-> "starting", port |-> target.port]

Begins_AtOnce == queued > 0
Begins == queued > 0 /\ run.at = "idle"
Skips == Disposed \/ applied = config

ReconcileSkips ==
    /\ Begins
    /\ Skips
    /\ queued' = queued - 1
    /\ UNCHANGED <<config, changes, run, applied, instance, listener, current, disposer>>

\* The key is written before the previous listener is stopped.
Reconcile ==
    /\ Begins
    /\ ~Skips
    /\ queued' = queued - 1
    /\ applied' = config
    /\ IF instance = NoListener
       THEN Continue(config)
       ELSE /\ listener' = Stopping(instance)
            /\ run' = [at |-> "stopping", target |-> config, own |-> instance]
            /\ instance' = NoListener
            /\ UNCHANGED current
    /\ UNCHANGED <<config, changes, disposer>>

PreviousStopped ==
    /\ run.at = "stopping"
    /\ IsGone(run.own)
    /\ Continue(run.target)
    /\ UNCHANGED <<config, changes, queued, applied, disposer>>

\* begin() after the identity is there: it was overtaken, or it listens.
TlsLoaded ==
    /\ run.at = "loading"
    /\ IF applied # run.target \/ Disposed
       THEN /\ run' = IdleRun
            /\ listener' = [listener EXCEPT ![run.own] = Gone]
       ELSE /\ run' = [run EXCEPT !.at = "listening"]
            /\ listener' = [listener EXCEPT ![run.own].state = "binding"]
    /\ UNCHANGED <<config, changes, queued, applied, instance, current, disposer>>

\* The error path: the half-made instance is dropped; the key stays.
Fails_KeepsInstance ==
    /\ run' = IdleRun
    /\ current' = [phase |-> "error", port |-> run.target.port]
    /\ UNCHANGED <<config, changes, queued, applied, instance, listener, disposer>>
Fails ==
    /\ run' = IdleRun
    /\ instance' = NoListener
    /\ listener' = [listener EXCEPT ![run.own] = Gone]
    /\ current' = [phase |-> "error", port |-> run.target.port]
    /\ UNCHANGED <<config, changes, queued, applied, disposer>>

TlsFails == LoadFails /\ run.at = "loading" /\ Fails
PortTaken == ListenFails /\ run.at = "listening" /\ Fails

\* begin() after listen(): dispose() may have taken the instance meanwhile.
Overtaken_Never == FALSE
Overtaken == instance # run.own \/ Disposed
Listens ==
    /\ run.at = "listening"
    /\ IF Overtaken
       THEN /\ listener' = [listener EXCEPT ![run.own].state = "closing"]
            /\ run' = [run EXCEPT !.at = "dropping"]
            /\ UNCHANGED current
       ELSE /\ listener' = [listener EXCEPT ![run.own].state = "listening"]
            /\ run' = IdleRun
            /\ current' = [phase |-> "online", port |-> run.target.port]
    /\ UNCHANGED <<config, changes, queued, applied, instance, disposer>>

Dropped ==
    /\ run.at = "dropping"
    /\ IsGone(run.own)
    /\ run' = IdleRun
    /\ UNCHANGED <<config, changes, queued, applied, instance, listener, current, disposer>>

-----------------------------------------------------------------------------
\* dispose(): it stops the instance, then waits for the chain.
Dispose ==
    /\ ~Disposed
    /\ disposer' = [at |-> "stopping", waits |-> IF instance # NoListener
                                                    /\ listener[instance].state = "listening"
                                                 THEN instance ELSE NoListener]
    /\ listener' = Stopping(instance)
    /\ instance' = NoListener
    /\ UNCHANGED <<config, changes, queued, run, applied, current>>

DisposeStopped ==
    /\ disposer.at = "stopping"
    /\ IsGone(disposer.waits)
    /\ disposer' = [at |-> "waiting", waits |-> NoListener]
    /\ UNCHANGED <<config, changes, queued, run, applied, instance, listener, current>>

ChainIsDone == queued = 0 /\ run.at = "idle"
DisposeReturns ==
    /\ disposer.at = "waiting"
    /\ ChainIsDone
    /\ disposer' = [disposer EXCEPT !.at = "done"]
    /\ UNCHANGED <<config, changes, queued, run, applied, instance, listener, current>>

\* The phones, and the callback of server.close() after the last of them.
PhoneConnects(l) ==
    /\ listener[l].state = "listening" /\ ~listener[l].phones
    /\ listener' = [listener EXCEPT ![l].phones = TRUE]
    /\ UNCHANGED <<config, changes, queued, run, applied, instance, current, disposer>>
PhoneLeaves(l) ==
    /\ listener[l].phones
    /\ listener' = [listener EXCEPT ![l].phones = FALSE]
    /\ UNCHANGED <<config, changes, queued, run, applied, instance, current, disposer>>
ServerClosed(l) ==
    /\ listener[l].state = "closing" /\ ~listener[l].phones
    /\ listener' = [listener EXCEPT ![l] = Gone]
    /\ UNCHANGED <<config, changes, queued, run, applied, instance, current, disposer>>

ChainStep ==
    \/ ReconcileSkips \/ Reconcile \/ PreviousStopped
    \/ TlsLoaded \/ TlsFails \/ Listens \/ PortTaken \/ Dropped
DisposeStep == DisposeStopped \/ DisposeReturns

LocalNext ==
    \/ \E c \in Config : Configure(c)
    \/ ChainStep
    \/ Dispose \/ DisposeStep
    \/ \E l \in Listener : PhoneConnects(l) \/ PhoneLeaves(l) \/ ServerClosed(l)

LocalSpec == LocalInit /\ [][LocalNext]_localVars

\* Promises settle, and a server without phones calls back.  Nothing makes a phone leave.
Fairness ==
    /\ WF_localVars(ChainStep) /\ WF_localVars(DisposeStep)
    /\ \A l \in Listener : WF_localVars(ServerClosed(l))
LiveSpec == LocalSpec /\ Fairness

-----------------------------------------------------------------------------
(***************************************************************************)
(* Properties.                                                             *)
(***************************************************************************)

LocalTypeOK ==
    /\ config \in Config
    /\ changes \in 0..MaxChanges
    /\ queued \in 0..(MaxChanges + 1)
    /\ run \in [at : {"idle", "stopping", "loading", "listening", "dropping"},
                target : Config \cup {NoTarget}, own : Listener \cup {NoListener}]
    /\ applied \in Config \cup {NoTarget}
    /\ instance \in Listener \cup {NoListener}
    /\ listener \in [Listener -> [state : {"none", "placeholder", "binding", "listening", "closing"},
                                  port : Port \cup {0}, phones : BOOLEAN]]
    /\ current \in [phase : {"starting", "online", "error", "disabled"}, port : Port]
    /\ disposer \in [at : {"no", "stopping", "waiting", "done"},
                     waits : Listener \cup {NoListener}]
    /\ instance # NoListener => listener[instance] # Gone

Open == {l \in Listener : listener[l].state \in {"binding", "listening"}}

\* Two reconciles never have a listener each, so that the plugin does not fight itself
\* for its port, whatever changes arrive while one is stopped or started.
OneListener == \A k, l \in Open : k = l

\* After dispose() has returned nothing listens, and nothing begins to, although the
\* reconcile that was under way had its listener in its own hands.
NothingStaysOpen == disposer.at = "done" => \A l \in Listener : listener[l] = Gone

\* When the chain has run dry the status is that of the settings and of the listener
\* there is: online on the port that is set, with a listener on it; disabled; or an error.
StatusIsRight ==
    ~Disposed /\ queued = 0 /\ run.at = "idle" =>
        /\ Status.port = config.port
        /\ (Status.phase = "disabled") <=> ~config.enabled
        /\ (Status.phase = "online") <=> \E l \in Open :
               listener[l].state = "listening" /\ listener[l].port = config.port
        /\ Open # {} => config.enabled
        /\ Status.phase # "starting"

\* The listener there is, or that there is none, is what the settings now ask for.
CarriedOut ==
    /\ queued = 0 /\ run.at = "idle" /\ applied = config
    /\ IF config.enabled
       THEN \E l \in Listener : /\ l = instance
                                /\ listener[l].state = "listening"
                                /\ listener[l].port = config.port
       ELSE Open = {}
PhonesLeave == \A l \in Listener : []<>~(listener[l].state = "closing" /\ listener[l].phones)

\* Every change of the settings is carried out in the end, unless the plugin is disposed
\* or the last attempt to listen failed, which the status then reports (and which is not
\* repeated: FailedLoadIsRetried).  It holds if the phones of a listener that closes
\* leave: closeServer() waits for a WebSocket that nobody closes.
ChangesAreApplied ==
    PhonesLeave => (queued > 0 ~> \/ CarriedOut \/ Disposed
                                  \/ queued = 0 /\ run.at = "idle" /\ Status.phase = "error")

\* While there is no instance the status is disabled, an error or the initial one.
OnlineHasInstance == instance = NoListener /\ ~Disposed => Status.phase # "online"

\* A load that failed does not poison the reconciles that follow: they try again.
FailedLoadIsRetried ==
    [][queued' < queued /\ current.phase = "error" /\ config.enabled /\ ~Disposed
          => run'.at # "idle"]_localVars
=============================================================================
