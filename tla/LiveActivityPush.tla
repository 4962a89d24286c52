-------------------------- MODULE LiveActivityPush --------------------------
(***************************************************************************)
(* Live Activities (wire-push.ts, live-activity.ts, the Live Activity of a *)
(* device in token.ts), the scheduler that coalesces their pushes          *)
(* (widget-push.ts), and the credential of the relay that carries them     *)
(* (push-gateway.ts, relay-client.ts).                                     *)
(*                                                                         *)
(* A phone registers the activity of a round of its session; the pushes    *)
(* update it until the round is over and then end it. Registrations wait   *)
(* for the enrollment at the relay, pushes for the relay, and meanwhile    *)
(* the session changes, the phone registers anew, rotates its token or     *)
(* reconnects. All devices watch one session, which exists.                *)
(*                                                                         *)
(* An action is a handler from one await to the next. A definition named   *)
(* X_Fault is X with a fault, kept to show that the properties can tell    *)
(* them apart; the specification does not use it.                          *)
(***************************************************************************)
EXTENDS Naturals, FiniteSets

CONSTANTS Device,
          NoSlot, NoFlush,
          MaxRegistrations, \* bound: registrations of all phones
          MaxChanges,       \* bound: changes of the session
          MaxMishaps,       \* bound: calls of the relay that fail, connections lost,
                            \* rights withdrawn and activities that expire
          MaxCredentials    \* bound: credentials the relay hands out one after the other

ASSUME LiveActivityAssumption ==
    /\ IsFiniteSet(Device)
    /\ {MaxRegistrations, MaxChanges, MaxMishaps} \subseteq Nat
    /\ MaxCredentials \in Nat \ {0}

VARIABLES phase,                \* of the session: liveActivityState().phase
          slot, allowed,        \* record.liveActivity, and whether the scopes cover it
          registering,          \* registrations that wait for enrollPushKey()
          timer, dirty, flush,  \* the scheduler, and the flush under way
          sent,                 \* LiveActivityPushManager.sent
          cell, valid,          \* the credential of the cell (0 if none), and the relay's
          hasKey,               \* whether a phone brought an enrollKey
          alerts,               \* the credentials of alert pushes under way
          delivered,            \* history: what the phone was last told of each activity
          brought,              \* history: the activities and tokens it registered
          withdrawn,            \* history: activities the phone took back, or replaced
          forgotten,            \* history: activities whose registration, and with it the
                                \* mark of their end, the bridge let go of by itself
          counts                \* how often what is bounded happened

pushVars == <<timer, dirty, flush, sent, delivered>>
relayVars == <<cell, valid, hasKey, alerts>>
deviceVars == <<slot, allowed, registering, brought, withdrawn, forgotten>>
vars == <<phase, pushVars, relayVars, deviceVars, counts>>

\* An activity, and a token, is named by the registration that brought it first.
Activity == 1..MaxRegistrations
Token == 1..MaxRegistrations

Slot == [activity : Activity, token : Token, ended : BOOLEAN, expired : BOOLEAN, left : BOOLEAN]

ASSUME NoSlotAssumption == NoSlot \notin Slot

Bounds == [registrations |-> MaxRegistrations, changes |-> MaxChanges,
           mishaps |-> MaxMishaps]
Count(what) == counts[what] < Bounds[what] /\ counts' = [counts EXCEPT ![what] = @ + 1]

Init ==
    /\ phase \in {"running", "ended"}
    /\ slot = [d \in Device |-> NoSlot] /\ allowed = [d \in Device |-> TRUE]
    /\ registering = {}
    /\ timer = FALSE /\ dirty = FALSE /\ flush = NoFlush
    /\ sent = [k \in Device \X Token |-> "nothing"]
    /\ cell = 0 /\ valid = 1 /\ hasKey = FALSE
    /\ alerts = {}
    /\ delivered = [d \in Device |-> [a \in Activity |-> "nothing"]]
    /\ brought = [d \in Device |-> {}]
    /\ withdrawn = [d \in Device |-> {}] /\ forgotten = [d \in Device |-> {}]
    /\ counts = [w \in DOMAIN Bounds |-> 0]

-----------------------------------------------------------------------------
(* WidgetPushScheduler                                                     *)

\* changed(), when a flush is under way or not
SchedulerChanged ==
    /\ dirty' = TRUE
    /\ timer' = (timer \/ flush = NoFlush)

\* What finally() does when the flush is over, and whether it was asked for meanwhile.
AfterFlush_Forgets(again) == timer' = FALSE /\ dirty' = again
AfterFlush(again) == timer' = again /\ dirty' = again

-----------------------------------------------------------------------------
(* The registry: setLiveActivity(), endLiveActivity(), clearLiveActivity() *)

\* A rotated token neither extends a round nor forgets that it is over.
Rotated_Restarts(old, new) == new
Rotated(old, new) ==
    IF old # NoSlot /\ old.activity = new.activity
    THEN [new EXCEPT !.ended = old.ended, !.expired = old.expired] ELSE new

\* LiveActivityPushManager.changed(): a round that is over is marked at once.
Marked(slots, now) == [d \in Device |->
    IF slots[d] # NoSlot /\ now = "ended" THEN [slots[d] EXCEPT !.ended = TRUE] ELSE slots[d]]

Cleared(slots, d, activity, token) ==
    IF slots[d] # NoSlot /\ slots[d].activity = activity /\ slots[d].token = token
    THEN [slots EXCEPT ![d] = NoSlot] ELSE slots

-----------------------------------------------------------------------------
(* ensureRelayEnrolled(), enroll(), healRelayCredential()                  *)

\* One attempt a minute: whether the last one is too recent is a free choice.
MayEnroll(token) == IF token = 0 THEN BOOLEAN ELSE {FALSE}

\* The relay answers an enrollment with its present credential, or not at all.
EnrollAnswered ==
    \/ cell' = valid /\ UNCHANGED counts
    \/ cell' = cell /\ Count("mishaps")

\* The relay no longer honours the credentials it handed out.
RelayForgets ==
    /\ valid < MaxCredentials
    /\ valid' = valid + 1
    /\ UNCHANGED <<phase, pushVars, deviceVars, cell, hasKey, alerts, counts>>

\* Only the credential that was refused is dropped.
Refused_Any(used) == hasKey
Refused(used) == hasKey /\ cell = used

\* Whoever was refused drops the credential and, if that was not tried just now,
\* enrolls again.
Heal(used) == cell' = IF Refused(used) THEN 0 ELSE cell

\* fanOut(): a notification; without a credential it tries to get one, and so does
\* one that was refused. Nobody but a flush and a registration waits for that, so
\* the attempt is one step.
AlertStarts ==
    /\ hasKey
    /\ cell # 0 /\ alerts = {}   \* bound: one notification under way
    /\ alerts' = {cell}
    /\ UNCHANGED <<phase, pushVars, deviceVars, cell, valid, hasKey, counts>>

AlertAnswered(used) ==
    /\ used \in alerts
    /\ alerts' = alerts \ {used}
    /\ IF used = valid THEN UNCHANGED cell ELSE Heal(used)
    /\ UNCHANGED <<phase, pushVars, deviceVars, valid, hasKey, counts>>

AlertEnrolls ==
    /\ hasKey /\ cell = 0
    /\ EnrollAnswered
    /\ UNCHANGED <<phase, pushVars, deviceVars, valid, hasKey, alerts>>

-----------------------------------------------------------------------------
(* c2s.liveActivity.register and .unregister                               *)

\* nextLiveActivityGeneration() of the connection; the latest of its registrations
\* is the one that pendingLiveActivityId names.
Superseded(d, activities) ==
    {[r EXCEPT !.latest = @ /\ (r.left \/ r.device # d \/ r.activity \notin activities)] :
        r \in registering}

Brought(d) == {r.activity : r \in brought[d]}
Tokens(d, a) == {r.token : r \in {x \in brought[d] : x.activity = a}}

\* enrollPushKey() keeps the key and enrolls if there is no credential. A phone has one
\* activity after the other: it does not go back to one it took back, but it may register
\* one again that the bridge no longer has.
RegisterArrives(d, a, t) ==
    /\ a \in Brought(d) \cup {counts.registrations + 1}
    /\ t \in Tokens(d, a) \cup {counts.registrations + 1}
    /\ allowed[d] /\ a \notin withdrawn[d]
    /\ Count("registrations")
    /\ \E enrolls \in MayEnroll(cell) : registering' = Superseded(d, Activity) \cup
          {[device |-> d, activity |-> a, token |-> t, latest |-> TRUE, left |-> FALSE,
            enrolls |-> enrolls]}
    /\ brought' = [brought EXCEPT ![d] = @ \cup {[activity |-> a, token |-> t]}]
    /\ hasKey' = TRUE
    /\ UNCHANGED <<phase, pushVars, slot, allowed, withdrawn, forgotten, cell, valid, alerts>>

\* A registration that another one of the connection overtook is refused (E_BUSY).
Current_Always(r) == allowed[r.device]
Current(r) == r.latest /\ allowed[r.device]

\* What a registration left on a lost connection takes the place of.
Displaced(r) == {k.activity : k \in {x \in {slot[r.device]} \ {NoSlot} : r.left}} \ {r.activity}

RegisterEnds(r) ==
    /\ r \in registering
    /\ registering' = registering \ {r}
    /\ IF r.enrolls THEN EnrollAnswered ELSE UNCHANGED <<cell, counts>>
    /\ IF Current(r)
       THEN /\ slot' = Marked([slot EXCEPT ![r.device] = Rotated(@,
                    [activity |-> r.activity, token |-> r.token, ended |-> FALSE,
                     expired |-> FALSE, left |-> r.left])], phase)
            /\ SchedulerChanged
            /\ withdrawn' = IF r.left \/ ~r.latest THEN withdrawn
                            ELSE [withdrawn EXCEPT ![r.device] =
                                    @ \cup ((1..counts.registrations) \ {r.activity})]
            /\ forgotten' = [forgotten EXCEPT ![r.device] = @ \cup Displaced(r)]
       ELSE UNCHANGED <<slot, timer, dirty, withdrawn, forgotten>>
    /\ UNCHANGED <<phase, allowed, brought, flush, sent, delivered, valid, hasKey, alerts>>

Unregister(d, a) ==
    /\ a \in Brought(d) \ withdrawn[d]
    /\ withdrawn' = [withdrawn EXCEPT ![d] = @ \cup {a}]
    /\ registering' = Superseded(d, {a})
    /\ slot' = IF slot[d] # NoSlot /\ slot[d].activity = a THEN [slot EXCEPT ![d] = NoSlot] ELSE slot
    /\ UNCHANGED <<phase, allowed, brought, forgotten, pushVars, relayVars, counts>>

\* The phone comes back on another connection: what waits on the first one goes
\* on, with a generation of its own. (Without one nothing changes.)
Reconnect(d) ==
    /\ \E r \in registering : r.device = d /\ ~r.left
    /\ Count("mishaps")
    /\ registering' = {[r EXCEPT !.left = @ \/ r.device = d] : r \in registering}
    /\ UNCHANGED <<phase, slot, allowed, brought, withdrawn, forgotten, pushVars, relayVars>>

\* The operator narrows the scopes of the device, and its registrations fail.
Narrowed(d) ==
    /\ allowed[d]
    /\ Count("mishaps")
    /\ allowed' = [allowed EXCEPT ![d] = FALSE]
    /\ UNCHANGED <<phase, slot, registering, brought, withdrawn, forgotten, pushVars, relayVars>>

\* Eight hours later.
Expires(d) ==
    /\ slot[d] # NoSlot /\ ~slot[d].expired
    /\ Count("mishaps")
    /\ slot' = [slot EXCEPT ![d].expired = TRUE]
    /\ UNCHANGED <<phase, allowed, registering, brought, withdrawn, forgotten, pushVars, relayVars>>

\* A change of the session list: HostBridge.refreshLiveActivities().
SessionChanges ==
    /\ Count("changes")
    /\ phase' \in {"running", "ended"} \ {phase}
    /\ slot' = Marked(slot, phase')
    /\ SchedulerChanged
    /\ UNCHANGED <<allowed, registering, brought, withdrawn, forgotten, flush, sent, delivered, relayVars>>

-----------------------------------------------------------------------------
(* LiveActivityPushManager.flush(): the devices are listed once; between   *)
(* the devices it waits for the relay.                                     *)

\* The state that is sent: that of the mark, or that of the session as it is now.
StateOf(r) == IF r.ended THEN "ended" ELSE phase
EventOf(r) == IF r.ended THEN "end" ELSE "update"

MayGet(entry) == entry.allowed /\ ~entry.slot.expired

\* What was sent is not sent again, and a token that was replaced gets nothing.
ToSend(d, entry, slots, sentNow) ==
    /\ MayGet(entry)
    /\ sentNow[<<d, entry.slot.token>>] # StateOf(entry.slot)
    /\ slots[d] # NoSlot /\ slots[d].token = entry.slot.token

Listed == [d \in {e \in Device : slot[e] # NoSlot} |-> [slot |-> slot[d], allowed |-> allowed[d]]]

\* From an answer (what is known then: `slots`, `sentNow`, `told`) to the next push
\* that waits or to the end of the list.
Advance(list, rest, slots, sentNow, again, told) ==
    \E skipped \in SUBSET rest :
      LET now == [d \in Device |->
             IF d \in skipped /\ ~MayGet(list[d])
             THEN Cleared(slots, d, list[d].slot.activity, list[d].slot.token)[d] ELSE slots[d]]
      IN /\ \A d \in skipped : ~ToSend(d, list[d], slots, sentNow)
         /\ slot' = now
         /\ delivered' = told
         /\ forgotten' = [d \in Device |-> IF slot[d] # NoSlot /\ now[d] = NoSlot
                THEN forgotten[d] \cup {slot[d].activity} ELSE forgotten[d]]
         /\ \/ /\ skipped = rest
               /\ flush' = NoFlush
               /\ AfterFlush(again)
               /\ sent' = [k \in Device \X Token |->
                    IF k[1] \in DOMAIN list /\ list[k[1]].slot.token = k[2] THEN sentNow[k] ELSE "nothing"]
            \/ \E d \in rest \ skipped :
                 /\ ToSend(d, list[d], slots, sentNow)
                 /\ flush' = [list |-> list, rest |-> rest \ (skipped \cup {d}), device |-> d,
                              state |-> StateOf(list[d].slot), used |-> cell, at |-> "push"]
                 /\ sent' = sentNow
                 /\ timer' = FALSE /\ dirty' = again

FlushStarts ==
    /\ timer
    /\ Advance(Listed, DOMAIN Listed, slot, sent, FALSE, delivered)
    /\ UNCHANGED <<phase, allowed, registering, brought, withdrawn, relayVars, counts>>

Pushed == flush.list[flush.device].slot

\* sendLiveActivity() is through.
Told == [delivered EXCEPT ![flush.device][Pushed.activity] = EventOf(Pushed)]

Answered(outcome, told) ==
    LET key == <<flush.device, Pushed.token>> IN
    Advance(flush.list, flush.rest,
            IF outcome = "invalid-token"
            THEN Cleared(slot, flush.device, Pushed.activity, Pushed.token) ELSE slot,
            IF outcome = "sent" THEN [sent EXCEPT ![key] = flush.state] ELSE sent,
            dirty \/ outcome = "failed", told)

PushAnswered ==
    /\ flush # NoFlush /\ flush.at = "push"
    /\ \/ /\ flush.used = valid
          /\ \/ Answered("sent", Told) /\ UNCHANGED counts
             \/ Answered("invalid-token", delivered) /\ Count("mishaps")
             \/ \E told \in {delivered, Told} : Answered("failed", told) /\ Count("mishaps")
          /\ UNCHANGED cell
       \/ /\ flush.used = 0 \* provider not ready
          /\ Answered("failed", delivered)
          /\ UNCHANGED <<cell, counts>>
       \/ /\ flush.used \notin {0, valid} \* HTTP 401
          /\ Heal(flush.used)
          /\ \/ /\ Refused(flush.used)
                /\ flush' = [flush EXCEPT !.at = "enroll"]
                /\ UNCHANGED <<slot, sent, timer, dirty, delivered, forgotten>>
             \/ Answered("failed", delivered)
          /\ UNCHANGED counts
    /\ UNCHANGED <<phase, allowed, registering, brought, withdrawn, valid, hasKey, alerts>>

FlushEnrolled ==
    /\ flush # NoFlush /\ flush.at = "enroll"
    /\ EnrollAnswered
    /\ Answered("failed", delivered)
    /\ UNCHANGED <<phase, allowed, registering, brought, withdrawn, valid, hasKey, alerts>>

-----------------------------------------------------------------------------
Next ==
    \/ RelayForgets \/ AlertStarts \/ AlertEnrolls \/ SessionChanges
    \/ FlushStarts \/ PushAnswered \/ FlushEnrolled
    \/ \E used \in 1..MaxCredentials : AlertAnswered(used)
    \/ \E r \in registering : RegisterEnds(r)
    \/ \E d \in Device : \/ Reconnect(d) \/ Narrowed(d) \/ Expires(d)
                         \/ \E a \in Activity : \/ Unregister(d, a)
                                                \/ \E t \in Token : RegisterArrives(d, a, t)

FlushStep == FlushStarts \/ PushAnswered \/ FlushEnrolled

\* The timer fires and calls return. Notifications, which get a credential when the
\* attempt of a flush to get one failed, need not come.
Fairness == WF_vars(FlushStep)

Spec == Init /\ [][Next]_vars
FairSpec == Spec /\ Fairness

-----------------------------------------------------------------------------
(* Properties                                                              *)

\* The phone has the last word on which activity is pushed: a registration
\* that waited while the phone unregistered the activity, or another one that
\* was accepted, does not come back. (Registrations left on a connection that
\* was lost do, see the README.)
LastWordHolds == \A d \in Device :
    slot[d] # NoSlot /\ ~slot[d].left => slot[d].activity \notin withdrawn[d]

\* A round that is over stays over: once the phone was told the end of an
\* activity, no push revives it, whatever token it registers for it meanwhile and
\* however soon the next round of the session starts. Two exceptions: pushes for a
\* registration left on a connection that was lost, and an activity whose registration,
\* with the mark of its end, the bridge let go of before the phone brought it again: one
\* that such a registration displaced, or that a push dropped because its token was
\* refused, its time was over or the device lost the right to it.
OverStaysOver == [][\A d \in Device, a \in Activity :
    delivered[d][a] = "end" /\ delivered'[d][a] = "update"
        => flush.list[d].slot.left \/ a \in forgotten[d]]_vars

\* A late refusal of an old credential does not drop the one that replaced it.
CredentialIsKept == [][cell = valid => cell' = cell]_vars

\* The phone has an activity on its screen that is over, and does not know it: it was
\* told neither the end nor, as an update, the last state.
Hanging(d) ==
    /\ slot[d] # NoSlot /\ slot[d].ended
    /\ delivered[d][slot[d].activity] # "end"
    /\ sent[<<d, slot[d].token>>] # "ended"

\* Every activity that is over is ended on the phone, or its registration goes:
\* coalesced pushes, failures and refused credentials only delay it. It is said of a
\* bridge that does not stay without a credential, for a flush does not ask for one
\* twice. The exception: the phone got the last state as an update, because its device
\* was listed before the round was over, and then nothing is sent again.
EndIsDelivered == \A d \in Device : <>[](cell = 0) \/ (Hanging(d) ~> ~Hanging(d))
=============================================================================
