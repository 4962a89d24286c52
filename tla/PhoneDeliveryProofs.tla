------------------------ MODULE PhoneDeliveryProofs ------------------------
(***************************************************************************)
(* Theorems about what reaches the phone, for any number of phones,        *)
(* sessions, connections and bridge lifetimes: the pushes of its Live      *)
(* Activities (LiveActivityPush), and the events and replays of its        *)
(* connections (EventReplay).                                              *)
(***************************************************************************)
EXTENDS LiveActivityPush, EventReplay,
        FiniteSetTheorems, SequenceTheorems, WellFoundedInduction, TLAPS

-----------------------------------------------------------------------------
(* Live Activities.                                                        *)


Registration == [device : Device, activity : Activity, token : Token, latest : BOOLEAN,
                 left : BOOLEAN, enrolls : BOOLEAN]

\* The part of the state that decides which activity is pushed.
RegistryTypes ==
    /\ slot \in [Device -> Slot \cup {NoSlot}]
    /\ registering \subseteq Registration
    /\ withdrawn = [d \in Device |-> withdrawn[d]]

\* A registration that may still be accepted on the connection of its phone.
Pending(r) == r.latest /\ ~r.left

\* Each phone waits for one such registration, for an activity it has not taken back.
PendingInv ==
    /\ \A r \in registering : Pending(r) => r.activity \notin withdrawn[r.device]
    /\ \A r, q \in registering : Pending(r) /\ Pending(q) /\ r.device = q.device => r = q

IInv == RegistryTypes /\ PendingInv /\ LastWordHolds

-----------------------------------------------------------------------------
\* A registration leaves the others of its connection that it concerns behind.
LEMMA SupersededFact ==
    ASSUME registering \subseteq Registration, NEW d \in Device, NEW A \in SUBSET Activity
    PROVE  /\ Superseded(d, A) \subseteq Registration
           /\ \A p \in Superseded(d, A) : Pending(p) =>
                  p \in registering /\ (p.device # d \/ p.activity \notin A)
<1> DEFINE after(r) == [r EXCEPT !.latest = @ /\ (r.left \/ r.device # d \/ r.activity \notin A)]
<1>1. ASSUME NEW r \in registering
      PROVE  /\ after(r) \in Registration
             /\ Pending(after(r)) => after(r) = r /\ (r.device # d \/ r.activity \notin A)
  BY DEF Registration, Pending
<1>2. Superseded(d, A) = {after(r) : r \in registering}
  BY DEF Superseded
<1>3. QED
  BY <1>1, <1>2

LEMMA MarkedFact ==
    ASSUME NEW slots \in [Device -> Slot \cup {NoSlot}], NEW now
    PROVE  /\ Marked(slots, now) \in [Device -> Slot \cup {NoSlot}]
           /\ \A d \in Device :
                \/ Marked(slots, now)[d] = slots[d]
                \/ /\ Marked(slots, now)[d] \in Slot
                   /\ slots[d] # NoSlot
                   /\ Marked(slots, now)[d].activity = slots[d].activity
                   /\ Marked(slots, now)[d].left = slots[d].left
BY DEF Marked, Slot

\* A flush takes registrations out of the registry and puts none in.
LEMMA AdvanceFact ==
    ASSUME NEW slots \in [Device -> Slot \cup {NoSlot}], NEW list, NEW rest, NEW sentNow,
           NEW again, NEW told, Advance(list, rest, slots, sentNow, again, told)
    PROVE  /\ slot' \in [Device -> Slot \cup {NoSlot}]
           /\ \A d \in Device : slot'[d] \in {slots[d], NoSlot}
BY DEF Advance, Cleared

LEMMA ClearedFact ==
    ASSUME RegistryTypes, NEW d, NEW activity, NEW token
    PROVE  /\ Cleared(slot, d, activity, token) \in [Device -> Slot \cup {NoSlot}]
           /\ \A e \in Device : Cleared(slot, d, activity, token)[e] \in {slot[e], NoSlot}
BY DEF Cleared, RegistryTypes

-----------------------------------------------------------------------------
LEMMA StartFact == Init => IInv
BY DEF Init, IInv, RegistryTypes, PendingInv, LastWordHolds

\* A step that leaves the registrations alone and whose slots are marked or cleared.
LEMMA SlotStep ==
    ASSUME IInv, UNCHANGED <<registering, withdrawn>>, slot' \in [Device -> Slot \cup {NoSlot}],
           \A d \in Device :
                \/ slot'[d] \in {slot[d], NoSlot}
                \/ /\ slot[d] # NoSlot /\ slot'[d].activity = slot[d].activity
                   /\ slot'[d].left = slot[d].left
    PROVE  IInv'
<1>1. RegistryTypes' /\ PendingInv'
  BY DEF IInv, RegistryTypes, PendingInv
<1>2. LastWordHolds'
  BY DEF IInv, LastWordHolds
<1>3. QED
  BY <1>1, <1>2 DEF IInv

LEMMA ArrivesStep ==
    ASSUME IInv, NEW d \in Device, NEW a \in Activity, NEW t \in Token, RegisterArrives(d, a, t)
    PROVE  IInv'
<1> USE DEF IInv
<1> DEFINE Arrival(enrolls) == [device |-> d, activity |-> a, token |-> t, latest |-> TRUE,
                                left |-> FALSE, enrolls |-> enrolls]
<1>0. PICK enrolls \in BOOLEAN : registering' = Superseded(d, Activity) \cup {Arrival(enrolls)}
  BY DEF RegisterArrives, MayEnroll
<1>1. PICK new \in Registration :
          /\ registering' = Superseded(d, Activity) \cup {new}
          /\ new.device = d /\ new.activity = a
  <2>1. /\ Arrival(enrolls) \in Registration
        /\ Arrival(enrolls).device = d /\ Arrival(enrolls).activity = a
    BY DEF Registration
  <2> HIDE DEF Arrival
  <2>2. QED
    BY <1>0, <2>1
<1>2. UNCHANGED <<slot, withdrawn>> /\ a \notin withdrawn[d]
  BY DEF RegisterArrives
<1>3. \A p \in registering : p.activity \in Activity
  BY DEF RegistryTypes, Registration
<1>4. /\ Superseded(d, Activity) \subseteq Registration
      /\ \A p \in Superseded(d, Activity) : Pending(p) => p \in registering /\ p.device # d
  BY <1>3, SupersededFact DEF RegistryTypes
<1>5. RegistryTypes'
  BY <1>1, <1>2, <1>4 DEF RegistryTypes
<1>6. PendingInv'
  BY <1>1, <1>2, <1>4 DEF PendingInv
<1>7. LastWordHolds'
  BY <1>2 DEF LastWordHolds
<1>8. QED
  BY <1>5, <1>6, <1>7

\* The accepted registration is of an activity that is not taken back, or of a
\* connection that was lost; it replaces every other activity of the phone.
LEMMA EndsStep == ASSUME IInv, NEW r \in registering, RegisterEnds(r) PROVE IInv'
<1> USE DEF IInv
<1>1. /\ registering' = registering \ {r} /\ r \in Registration
  BY DEF RegisterEnds, RegistryTypes
<1>2. CASE ~Current(r)
  <2>1. UNCHANGED <<slot, withdrawn>>
    BY <1>2 DEF RegisterEnds
  <2>2. QED
    BY <1>1, <2>1 DEF RegistryTypes, PendingInv, LastWordHolds
<1>3. CASE Current(r)
  <2> DEFINE new == [activity |-> r.activity, token |-> r.token, ended |-> FALSE,
                     expired |-> FALSE, left |-> r.left]
             slots == [slot EXCEPT ![r.device] = Rotated(@, new)]
  <2>1. /\ slot' = Marked(slots, phase)
        /\ withdrawn' = IF r.left \/ ~r.latest THEN withdrawn
                        ELSE [withdrawn EXCEPT ![r.device] =
                                @ \cup ((1..counts.registrations) \ {r.activity})]
        /\ r.latest
    BY <1>3 DEF RegisterEnds, Current
  <2>2. new \in Slot
    BY <1>1 DEF Registration, Slot
  <2>3. /\ Rotated(slot[r.device], new) \in Slot
        /\ Rotated(slot[r.device], new).activity = r.activity
        /\ Rotated(slot[r.device], new).left = r.left
    BY <1>1, <2>2 DEF Rotated, Slot, RegistryTypes, Registration
  <2>4. /\ slots \in [Device -> Slot \cup {NoSlot}]
        /\ slots[r.device] = Rotated(slot[r.device], new)
        /\ \A d \in Device \ {r.device} : slots[d] = slot[d]
    BY <1>1, <2>3 DEF RegistryTypes, Registration
  <2> HIDE DEF slots, new
  <2>5. /\ slot' \in [Device -> Slot \cup {NoSlot}]
        /\ \A d \in Device : slot'[d] # NoSlot =>
              slot'[d].activity = slots[d].activity /\ slot'[d].left = slots[d].left
        /\ \A d \in Device : slot'[d] # NoSlot => slots[d] # NoSlot
    BY <2>1, <2>4, MarkedFact
  <2>6. /\ slot'[r.device].activity = r.activity \/ slot'[r.device] = NoSlot
        /\ slot'[r.device].left = r.left \/ slot'[r.device] = NoSlot
        /\ \A d \in Device \ {r.device} : slot'[d] # NoSlot =>
              slot[d] # NoSlot /\ slot'[d].activity = slot[d].activity /\ slot'[d].left = slot[d].left
    BY <1>1, <2>3, <2>4, <2>5 DEF Registration
  <2>7. CASE r.left
    <3>1. withdrawn' = withdrawn
      BY <2>1, <2>7
    <3>2. QED
      BY <1>1, <2>5, <2>6, <2>7, <3>1 DEF RegistryTypes, PendingInv, LastWordHolds
  <2>8. CASE ~r.left
    <3>1. /\ withdrawn' = [withdrawn EXCEPT ![r.device] =
                              @ \cup ((1..counts.registrations) \ {r.activity})]
          /\ \A d \in Device \ {r.device} : withdrawn'[d] = withdrawn[d]
          /\ r.activity \notin withdrawn'[r.device]
      BY <1>1, <2>1, <2>8 DEF RegistryTypes, PendingInv, Pending, Registration
    <3>2. \A q \in registering' : Pending(q) => q.device # r.device
      BY <1>1, <2>1, <2>8 DEF PendingInv, Pending, RegistryTypes, Registration
    <3>3. RegistryTypes'
      BY <1>1, <2>5, <3>1 DEF RegistryTypes
    <3>4. PendingInv'
      BY <1>1, <3>1, <3>2 DEF PendingInv, RegistryTypes, Registration
    <3>5. LastWordHolds'
      BY <2>6, <3>1 DEF LastWordHolds
    <3>6. QED
      BY <3>3, <3>4, <3>5
  <2>9. QED
    BY <2>7, <2>8
<1>4. QED
  BY <1>2, <1>3

LEMMA UnregisterStep ==
    ASSUME IInv, NEW d \in Device, NEW a \in Activity, Unregister(d, a)
    PROVE  IInv'
<1> USE DEF IInv
<1>1. /\ withdrawn' = [withdrawn EXCEPT ![d] = @ \cup {a}]
      /\ registering' = Superseded(d, {a})
      /\ slot' = IF slot[d] # NoSlot /\ slot[d].activity = a
                 THEN [slot EXCEPT ![d] = NoSlot] ELSE slot
  BY DEF Unregister
<1>2. /\ registering' \subseteq Registration
      /\ \A p \in registering' : Pending(p) => p \in registering /\ (p.device # d \/ p.activity # a)
  BY <1>1, SupersededFact DEF RegistryTypes
<1>3. RegistryTypes'
  BY <1>1, <1>2 DEF RegistryTypes
<1>4. PendingInv'
  BY <1>1, <1>2 DEF PendingInv, RegistryTypes, Registration
<1>5. LastWordHolds'
  BY <1>1 DEF LastWordHolds, RegistryTypes
<1>6. QED
  BY <1>3, <1>4, <1>5

LEMMA ReconnectStep == ASSUME IInv, NEW d \in Device, Reconnect(d) PROVE IInv'
<1> USE DEF IInv
<1> DEFINE after(r) == [r EXCEPT !.left = @ \/ r.device = d]
<1>1. /\ UNCHANGED <<slot, withdrawn>>
      /\ registering' = {after(r) : r \in registering}
  BY DEF Reconnect
<1>2. ASSUME NEW r \in registering
      PROVE  after(r) \in Registration /\ (Pending(after(r)) => after(r) = r)
  BY DEF RegistryTypes, Registration, Pending
<1>3. /\ registering' \subseteq Registration
      /\ \A p \in registering' : Pending(p) => p \in registering
  BY <1>1, <1>2
<1>4. QED
  BY <1>1, <1>3 DEF RegistryTypes, PendingInv, LastWordHolds


\* A flush and its answers take registrations away at most.
LEMMA AnswerStep ==
    ASSUME IInv, UNCHANGED <<registering, withdrawn>>, NEW outcome, NEW told, Answered(outcome, told)
    PROVE  IInv'
<1> DEFINE slots == IF outcome = "invalid-token"
                    THEN Cleared(slot, flush.device, Pushed.activity, Pushed.token) ELSE slot
<1>1. /\ slots \in [Device -> Slot \cup {NoSlot}]
      /\ \A d \in Device : slots[d] \in {slot[d], NoSlot}
  BY ClearedFact DEF IInv, RegistryTypes
<1>2. /\ slot' \in [Device -> Slot \cup {NoSlot}]
      /\ \A d \in Device : slot'[d] \in {slots[d], NoSlot}
  BY <1>1, AdvanceFact DEF Answered
<1>3. \A d \in Device : slot'[d] \in {slot[d], NoSlot}
  BY <1>1, <1>2
<1>4. QED
  BY <1>2, <1>3, SlotStep

LEMMA FlushSteps == ASSUME IInv, FlushStep PROVE IInv'
<1>1. UNCHANGED <<registering, withdrawn>> /\ RegistryTypes
  BY DEF FlushStep, FlushStarts, PushAnswered, FlushEnrolled, IInv
<1>2. CASE FlushStarts
  <2>1. /\ slot' \in [Device -> Slot \cup {NoSlot}]
        /\ \A d \in Device : slot'[d] \in {slot[d], NoSlot}
    BY <1>1, <1>2, AdvanceFact DEF FlushStarts, RegistryTypes
  <2>2. QED
    BY <1>1, <2>1, SlotStep
<1>3. CASE UNCHANGED slot
  BY <1>1, <1>3, SlotStep DEF RegistryTypes
<1>4. CASE PushAnswered
  BY <1>1, <1>3, <1>4, AnswerStep DEF PushAnswered
<1>5. CASE FlushEnrolled
  BY <1>1, <1>5, AnswerStep DEF FlushEnrolled
<1>6. QED
  BY <1>2, <1>4, <1>5 DEF FlushStep

-----------------------------------------------------------------------------
LEMMA SafeStep == IInv /\ [Next]_vars => IInv'
<1> SUFFICES ASSUME IInv, [Next]_vars PROVE IInv'
  OBVIOUS
<1>1. CASE UNCHANGED <<slot, registering, withdrawn>>
  BY <1>1 DEF IInv, RegistryTypes, PendingInv, LastWordHolds
<1>2. CASE UNCHANGED vars
  BY <1>1, <1>2 DEF vars, deviceVars
<1>3. CASE RelayForgets \/ AlertStarts \/ AlertEnrolls
  BY <1>1, <1>3 DEF RelayForgets, AlertStarts, AlertEnrolls, deviceVars
<1>4. ASSUME NEW used \in 1..MaxCredentials, AlertAnswered(used) PROVE IInv'
  BY <1>1, <1>4 DEF AlertAnswered, deviceVars
<1>5. CASE SessionChanges
  BY <1>5, MarkedFact, SlotStep DEF SessionChanges, IInv, RegistryTypes
<1>6. CASE FlushStep
  BY <1>6, FlushSteps
<1>7. ASSUME NEW r \in registering, RegisterEnds(r) PROVE IInv'
  BY <1>7, EndsStep
<1>8. ASSUME NEW d \in Device, Reconnect(d) PROVE IInv'
  BY <1>8, ReconnectStep
<1>9. ASSUME NEW d \in Device, Narrowed(d) PROVE IInv'
  BY <1>1, <1>9 DEF Narrowed
<1>10. ASSUME NEW d \in Device, Expires(d) PROVE IInv'
  <2>1. /\ UNCHANGED <<registering, withdrawn>>
        /\ slot[d] \in Slot
        /\ slot' = [slot EXCEPT ![d].expired = TRUE]
        /\ RegistryTypes
    BY <1>10 DEF Expires, IInv, RegistryTypes
  <2> DEFINE new == [slot[d] EXCEPT !.expired = TRUE]
  <2>2. new \in Slot /\ new.activity = slot[d].activity /\ new.left = slot[d].left
    BY <2>1 DEF Slot
  <2>3. slot' = [slot EXCEPT ![d] = new] /\ slot[d] # NoSlot
    BY <1>10, <2>1 DEF Expires, Slot, RegistryTypes
  <2> HIDE DEF new
  <2>4. /\ slot' \in [Device -> Slot \cup {NoSlot}]
        /\ slot'[d] = new /\ \A e \in Device \ {d} : slot'[e] = slot[e]
    BY <2>1, <2>2, <2>3 DEF RegistryTypes
  <2>5. QED
    BY <2>1, <2>2, <2>3, <2>4, SlotStep
<1>11. ASSUME NEW d \in Device, NEW a \in Activity, Unregister(d, a) PROVE IInv'
  BY <1>11, UnregisterStep
<1>12. ASSUME NEW d \in Device, NEW a \in Activity, NEW t \in Token, RegisterArrives(d, a, t)
       PROVE  IInv'
  BY <1>12, ArrivesStep
<1>13. QED
  BY <1>2, <1>3, <1>4, <1>5, <1>6, <1>7, <1>8, <1>9, <1>10, <1>11, <1>12 DEF Next, FlushStep

LEMMA SafeSpec == Spec => []IInv
BY StartFact, SafeStep, PTL DEF Spec

\* An activity that the phone took back, or replaced by one that was accepted,
\* is not pushed again by a registration that waited meanwhile on its connection.
THEOREM LastWordIsKept == Spec => []LastWordHolds
BY SafeSpec, PTL DEF IInv

-----------------------------------------------------------------------------
(* The credential of the relay.                                            *)

LEMMA HealFact == ASSUME NEW used, used # valid, cell = valid, Heal(used) PROVE cell' = cell
BY DEF Heal, Refused

LEMMA EnrollFact == ASSUME cell = valid, EnrollAnswered PROVE cell' = cell
BY DEF EnrollAnswered

LEMMA CredentialStep == ASSUME [Next]_vars, cell = valid PROVE cell' = cell
<1>1. CASE UNCHANGED vars \/ RelayForgets \/ AlertStarts \/ SessionChanges \/ FlushStarts
  BY <1>1 DEF vars, relayVars, RelayForgets, AlertStarts, SessionChanges, FlushStarts
<1>2. CASE AlertEnrolls \/ FlushEnrolled
  BY <1>2, EnrollFact DEF AlertEnrolls, FlushEnrolled
<1>3. CASE PushAnswered
  BY <1>3, HealFact DEF PushAnswered
<1>4. ASSUME NEW used \in 1..MaxCredentials, AlertAnswered(used) PROVE cell' = cell
  BY <1>4, HealFact DEF AlertAnswered
<1>5. ASSUME NEW r \in registering, RegisterEnds(r) PROVE cell' = cell
  BY <1>5, EnrollFact DEF RegisterEnds
<1>6. ASSUME NEW d \in Device, Reconnect(d) \/ Narrowed(d) \/ Expires(d) PROVE cell' = cell
  BY <1>6 DEF Reconnect, Narrowed, Expires, relayVars
<1>7. ASSUME NEW d \in Device, NEW a \in Activity, Unregister(d, a) PROVE cell' = cell
  BY <1>7 DEF Unregister, relayVars
<1>8. ASSUME NEW d \in Device, NEW a \in Activity, NEW t \in Token, RegisterArrives(d, a, t)
      PROVE  cell' = cell
  BY <1>8 DEF RegisterArrives
<1>9. QED
  BY <1>1, <1>2, <1>3, <1>4, <1>5, <1>6, <1>7, <1>8 DEF Next

\* No answer that is late, of a push, a notification or an enrollment, takes away
\* the credential that the relay honours.
THEOREM CredentialStays == Spec => CredentialIsKept
<1>1. [Next]_vars => [cell = valid => cell' = cell]_vars
  BY CredentialStep
<1>2. QED
  BY <1>1, PTL DEF Spec, CredentialIsKept
-----------------------------------------------------------------------------
(***************************************************************************)
(* The end of a round.                                                     *)
(***************************************************************************)
Kinds == {"registrations", "changes", "mishaps"}

RoundTypes ==
    /\ delivered \in [Device -> [Activity -> {"nothing", "update", "end"}]]
    /\ forgotten = [d \in Device |-> forgotten[d]]
    /\ brought = [d \in Device |-> brought[d]]
    /\ counts \in [Kinds -> Nat]

\* Activities are numbered by the registrations that have arrived.
NumberInv ==
    /\ \A d \in Device : slot[d] # NoSlot => slot[d].activity <= counts.registrations
    /\ \A r \in registering : r.activity <= counts.registrations
    /\ \A d \in Device : \A a \in Brought(d) : a \in Nat /\ a <= counts.registrations

\* The phone took the activity back, or the bridge let go of it.
Elsewhere(d, a) == a \in withdrawn[d] \/ a \in forgotten[d]
IsOver(d, a) == slot[d] # NoSlot /\ slot[d].activity = a /\ slot[d].ended

\* An activity whose end the phone was told of is over in the registry, unless the
\* registry has let go of it.
EndInv == \A d \in Device, a \in Activity :
    delivered[d][a] = "end" => Elsewhere(d, a) \/ IsOver(d, a)

\* A registration as a flush has listed it: what was over then is over now, and what was
\* not over is no activity whose end the phone was told of.
Snap(d, s) ==
    /\ s \in Slot
    /\ s.ended => Elsewhere(d, s.activity) \/ IsOver(d, s.activity)
    /\ ~s.ended /\ ~s.left /\ delivered[d][s.activity] = "end" => s.activity \in forgotten[d]

FlushInv == flush # NoFlush =>
    /\ flush = [list |-> flush.list, rest |-> flush.rest, device |-> flush.device,
                state |-> flush.state, used |-> flush.used, at |-> flush.at]
    /\ flush.device \in Device \ flush.rest /\ flush.rest \subseteq Device
    /\ \A d \in flush.rest \cup {flush.device} : Snap(d, flush.list[d].slot)

RoundInv == RoundTypes /\ NumberInv /\ EndInv /\ FlushInv

-----------------------------------------------------------------------------
LEMMA RoundStart == Init => RoundInv
BY DEF Init, RoundInv, RoundTypes, NumberInv, EndInv, FlushInv, Bounds, Kinds, Brought

LEMMA CountFact ==
    ASSUME counts \in [Kinds -> Nat], NEW what \in Kinds, Count(what)
    PROVE  /\ counts' \in [Kinds -> Nat]
           /\ counts.registrations <= counts'.registrations
           /\ what = "registrations" => counts'.registrations = counts.registrations + 1
<1>1. counts' = [counts EXCEPT ![what] = counts[what] + 1]
  BY DEF Count
<1>2. counts[what] + 1 \in Nat /\ counts.registrations \in Nat
  BY DEF Kinds
<1>3. counts' \in [Kinds -> Nat]
  BY <1>1, <1>2
<1>4. counts'.registrations = IF what = "registrations" THEN counts.registrations + 1
                              ELSE counts.registrations
  BY <1>1 DEF Kinds
<1>5. QED
  BY <1>2, <1>3, <1>4

\* Whatever else a step does to the registry, it is enough that an activity that leaves it
\* is taken back or forgotten, and that one that is over stays over.
LEMMA RegistryStep ==
    ASSUME RoundInv, RoundTypes', NumberInv', UNCHANGED <<flush, delivered>>,
           \A d \in Device :
               /\ \A a \in Activity : a \in withdrawn[d] => a \in withdrawn'[d]
               /\ \A a \in Activity : a \in forgotten[d] => a \in forgotten'[d]
               /\ slot[d] # NoSlot /\ slot[d].ended =>
                      \/ slot[d].activity \in withdrawn'[d]
                      \/ slot[d].activity \in forgotten'[d]
                      \/ /\ slot'[d] # NoSlot /\ slot'[d].activity = slot[d].activity
                         /\ slot'[d].ended
    PROVE  RoundInv'
<1>1. \A d \in Device, a \in Activity :
          Elsewhere(d, a) \/ IsOver(d, a) => Elsewhere(d, a)' \/ IsOver(d, a)'
  BY DEF Elsewhere, IsOver
<1>2. EndInv'
  BY <1>1 DEF RoundInv, EndInv
<1>3. ASSUME NEW d \in Device, NEW s, Snap(d, s) PROVE Snap(d, s)'
  BY <1>1, <1>3 DEF Snap, Slot
<1>4. FlushInv'
  BY <1>3 DEF RoundInv, FlushInv
<1>5. QED
  BY <1>2, <1>4 DEF RoundInv

\* The registrations that wait keep their activities, and so do the slots.
LEMMA KeepsStep ==
    ASSUME IInv, RoundInv, UNCHANGED <<flush, delivered, brought, withdrawn, forgotten>>,
           counts' \in [Kinds -> Nat], counts.registrations <= counts'.registrations,
           \A r \in registering' : \E q \in registering : r.activity = q.activity,
           \A d \in Device : slot[d] = NoSlot => slot'[d] = NoSlot,
           \A d \in Device : slot[d] # NoSlot =>
               /\ slot'[d] # NoSlot /\ slot'[d].activity = slot[d].activity
               /\ slot[d].ended => slot'[d].ended
    PROVE  RoundInv'
<1>1. RoundTypes'
  BY DEF RoundInv, RoundTypes
<1>2. /\ \A d \in Device : slot[d] # NoSlot => slot[d].activity \in Nat
      /\ \A r \in registering : r.activity \in Nat
      /\ counts.registrations \in Nat /\ counts'.registrations \in Nat
  BY DEF IInv, RegistryTypes, Slot, Registration, Activity, RoundInv, RoundTypes, Kinds
<1>3. NumberInv'
  <2>1. ASSUME NEW d \in Device, slot'[d] # NoSlot
        PROVE  slot'[d].activity <= counts'.registrations
    BY <1>2, <2>1 DEF RoundInv, NumberInv
  <2>2. ASSUME NEW r \in registering' PROVE r.activity <= counts'.registrations
    BY <1>2 DEF RoundInv, NumberInv
  <2>3. \A d \in Device : \A a \in Brought(d)' : a \in Nat /\ a <= counts'.registrations
    BY <1>2 DEF RoundInv, NumberInv, Brought
  <2>4. QED
    BY <2>1, <2>2, <2>3 DEF NumberInv
<1>4. QED
  BY <1>1, <1>3, RegistryStep

\* What neither registers, nor changes a slot, nor belongs to a flush.
LEMMA QuietStep ==
    ASSUME IInv, RoundInv, UNCHANGED <<flush, delivered, brought, withdrawn, forgotten, slot, registering>>,
           UNCHANGED counts \/ Count("mishaps")
    PROVE  RoundInv'
<1>1. "mishaps" \in Kinds /\ counts \in [Kinds -> Nat] /\ counts.registrations \in Nat
  BY DEF Kinds, RoundInv, RoundTypes
<1>2. counts' \in [Kinds -> Nat] /\ counts.registrations <= counts'.registrations
  BY <1>1, CountFact
<1>3. QED
  BY <1>2, KeepsStep

LEMMA SupersededActivities ==
    ASSUME registering \subseteq Registration, NEW d, NEW A
    PROVE  \A p \in Superseded(d, A) : \E q \in registering : p.activity = q.activity
<1> DEFINE after(r) == [r EXCEPT !.latest = @ /\ (r.left \/ r.device # d \/ r.activity \notin A)]
<1>1. ASSUME NEW r \in registering PROVE after(r).activity = r.activity
  BY DEF Registration
<1>2. Superseded(d, A) = {after(r) : r \in registering}
  BY DEF Superseded
<1>3. QED
  BY <1>1, <1>2

LEMMA RoundArrives ==
    ASSUME IInv, RoundInv, NEW d \in Device, NEW a \in Activity, NEW t \in Token,
           RegisterArrives(d, a, t)
    PROVE  RoundInv'
<1>1. /\ Count("registrations") /\ UNCHANGED <<flush, delivered, withdrawn, forgotten, slot>>
      /\ a \in Brought(d) \cup {counts.registrations + 1}
      /\ brought' = [brought EXCEPT ![d] = @ \cup {[activity |-> a, token |-> t]}]
  BY DEF RegisterArrives, pushVars
<1>2. /\ counts' \in [Kinds -> Nat] /\ counts'.registrations = counts.registrations + 1
      /\ counts.registrations \in Nat
  BY <1>1, CountFact DEF Kinds, RoundInv, RoundTypes
<1>3. RoundTypes'
  <2>1. brought' = [e \in Device |-> brought'[e]]
    BY <1>1 DEF RoundInv, RoundTypes
  <2>2. QED
    BY <1>1, <1>2, <2>1 DEF RoundInv, RoundTypes
<1>4. /\ \A e \in Device : slot[e] # NoSlot => slot[e].activity \in Nat
      /\ \A r \in registering : r.activity \in Nat
  BY DEF IInv, RegistryTypes, Slot, Registration, Activity
<1>5. a <= counts'.registrations
  <2>1. CASE a = counts.registrations + 1
    BY <1>2, <2>1
  <2>2. CASE a \in Brought(d)
    BY <1>2, <2>2 DEF RoundInv, NumberInv
  <2>3. QED
    BY <1>1, <2>1, <2>2
<1>6. \A r \in registering' : r.activity = a \/ \E q \in registering : r.activity = q.activity
  <2>1. \A r \in Superseded(d, Activity) : \E q \in registering : r.activity = q.activity
    BY SupersededActivities DEF IInv, RegistryTypes
  <2>2. \A r \in registering' : r \in Superseded(d, Activity) \/ r.activity = a
    BY DEF RegisterArrives
  <2>3. QED
    BY <2>1, <2>2
<1>7. NumberInv'
  <2>1. ASSUME NEW e \in Device, slot'[e] # NoSlot
        PROVE  slot'[e].activity <= counts'.registrations
    BY <1>1, <1>2, <1>4, <2>1 DEF RoundInv, NumberInv
  <2>2. ASSUME NEW r \in registering' PROVE r.activity <= counts'.registrations
    BY <1>2, <1>4, <1>5, <1>6 DEF RoundInv, NumberInv
  <2>3. ASSUME NEW e \in Device, NEW x \in Brought(e)'
        PROVE  x \in Nat /\ x <= counts'.registrations
    <3>1. brought'[e] = brought[e] \cup (IF e = d THEN {[activity |-> a, token |-> t]} ELSE {})
      BY <1>1 DEF RoundInv, RoundTypes
    <3>2. x \in Brought(e) \/ x = a
      BY <2>3, <3>1 DEF Brought
    <3>3. QED
      BY <1>2, <1>5, <3>2 DEF RoundInv, NumberInv, Activity
  <2>4. QED
    BY <2>1, <2>2, <2>3 DEF NumberInv
<1>8. QED
  BY <1>1, <1>3, <1>7, RegistryStep

LEMMA RoundUnregister ==
    ASSUME IInv, RoundInv, NEW d \in Device, NEW a \in Activity, Unregister(d, a)
    PROVE  RoundInv'
<1>1. /\ withdrawn' = [withdrawn EXCEPT ![d] = @ \cup {a}] /\ registering' = Superseded(d, {a})
      /\ slot' = IF slot[d] # NoSlot /\ slot[d].activity = a THEN [slot EXCEPT ![d] = NoSlot] ELSE slot
      /\ UNCHANGED <<flush, delivered, brought, forgotten, counts>>
  BY DEF Unregister, pushVars
<1>2. RoundTypes'
  BY <1>1 DEF RoundInv, RoundTypes
<1>3. NumberInv'
  <2>1. \A r \in registering' : \E q \in registering : r.activity = q.activity
    BY <1>1, SupersededActivities DEF IInv, RegistryTypes
  <2>2. \A e \in Device : slot'[e] # NoSlot => slot'[e] = slot[e]
    BY <1>1 DEF IInv, RegistryTypes
  <2>3. QED
    BY <1>1, <2>1, <2>2 DEF RoundInv, NumberInv, Brought
<1>4. /\ a \in withdrawn'[d]
      /\ \A e \in Device : \A x \in Activity : x \in withdrawn[e] => x \in withdrawn'[e]
  BY <1>1 DEF IInv, RegistryTypes
<1>5. \A e \in Device : slot'[e] = slot[e] \/ (slot[e].activity = a /\ e = d)
  BY <1>1 DEF IInv, RegistryTypes
<1>6. QED
  BY <1>1, <1>2, <1>3, <1>4, <1>5, RegistryStep

\* A registration is accepted: of its own activity it keeps the end, and the one whose
\* place it takes is taken back by it or forgotten.
LEMMA RoundEnds ==
    ASSUME IInv, RoundInv, NEW r \in registering, RegisterEnds(r)
    PROVE  RoundInv'
<1> DEFINE d == r.device
           new == [activity |-> r.activity, token |-> r.token, ended |-> FALSE,
                   expired |-> FALSE, left |-> r.left]
           rotated == Rotated(slot[d], new)
<1>1. /\ d \in Device /\ r \in Registration /\ r.activity \in Activity
      /\ slot \in [Device -> Slot \cup {NoSlot}]
      /\ withdrawn = [e \in Device |-> withdrawn[e]]
  BY DEF IInv, RegistryTypes, Registration
<1>2. /\ registering' = registering \ {r} /\ UNCHANGED <<flush, delivered, brought>>
      /\ UNCHANGED counts \/ EnrollAnswered
  BY DEF RegisterEnds
<1>3. counts' \in [Kinds -> Nat] /\ counts.registrations <= counts'.registrations
      /\ counts.registrations \in Nat /\ counts'.registrations \in Nat
  <2>1. "mishaps" \in Kinds /\ counts \in [Kinds -> Nat] /\ counts.registrations \in Nat
    BY DEF Kinds, RoundInv, RoundTypes
  <2>2. counts' \in [Kinds -> Nat] /\ counts.registrations <= counts'.registrations
    BY <1>2, <2>1, CountFact DEF EnrollAnswered
  <2>3. QED
    BY <2>1, <2>2 DEF Kinds
<1>4. CASE ~Current(r)
  <2>1. UNCHANGED <<slot, withdrawn, forgotten>>
    BY <1>4 DEF RegisterEnds
  <2>2. QED
    BY <1>2, <1>3, <2>1, KeepsStep
<1>5. CASE Current(r)
  <2>1. /\ slot' = Marked([slot EXCEPT ![d] = rotated], phase)
        /\ withdrawn' = IF r.left \/ ~r.latest THEN withdrawn
                        ELSE [withdrawn EXCEPT ![d] = @ \cup ((1..counts.registrations) \ {r.activity})]
        /\ forgotten' = [forgotten EXCEPT ![d] = @ \cup Displaced(r)]
    BY <1>1, <1>5 DEF RegisterEnds
  <2>2. new \in Slot /\ new.activity = r.activity
    BY <1>1 DEF Slot, Registration
  <2>3. /\ rotated \in Slot /\ rotated.activity = r.activity
        /\ slot[d] # NoSlot /\ slot[d].activity = r.activity => rotated.ended = slot[d].ended
    <3>1. CASE slot[d] # NoSlot /\ slot[d].activity = r.activity
      <4>1. slot[d].ended \in BOOLEAN /\ slot[d].expired \in BOOLEAN
        BY <1>1, <3>1 DEF Slot
      <4>2. rotated = [activity |-> r.activity, token |-> r.token, ended |-> slot[d].ended,
                       expired |-> slot[d].expired, left |-> r.left]
        BY <3>1 DEF Rotated
      <4>3. QED
        BY <1>1, <4>1, <4>2 DEF Slot, Registration
    <3>2. CASE ~(slot[d] # NoSlot /\ slot[d].activity = r.activity)
      <4>1. rotated = new
        BY <3>2 DEF Rotated
      <4> HIDE DEF rotated, new
      <4>2. QED
        BY <2>2, <3>2, <4>1
    <3>3. QED
      BY <3>1, <3>2
  <2> HIDE DEF rotated, new
  <2> DEFINE before == [slot EXCEPT ![d] = rotated]
  <2>4. /\ before \in [Device -> Slot \cup {NoSlot}] /\ before[d] = rotated
        /\ \A e \in Device \ {d} : before[e] = slot[e]
    BY <1>1, <2>3
  <2> HIDE DEF before
  <2>5. \A e \in Device :
            \/ slot'[e] = before[e]
            \/ /\ before[e] # NoSlot /\ slot'[e] # NoSlot
               /\ slot'[e].activity = before[e].activity /\ slot'[e].ended
    <3>1. slot' = Marked(before, phase)
      BY <2>1 DEF before
    <3>2. ASSUME NEW e \in Device, before[e] # NoSlot, phase = "ended"
          PROVE  /\ slot'[e].activity = before[e].activity /\ slot'[e].ended
                 /\ slot'[e] # NoSlot
      <4>1. slot'[e] = [before[e] EXCEPT !.ended = TRUE] /\ before[e] \in Slot
        BY <2>4, <3>1, <3>2 DEF Marked
      <4>2. slot'[e] \in Slot
        BY <4>1 DEF Slot
      <4>3. QED
        BY <4>1, <4>2, NoSlotAssumption DEF Slot
    <3>3. ASSUME NEW e \in Device, before[e] = NoSlot \/ phase # "ended" PROVE slot'[e] = before[e]
      BY <3>1, <3>3 DEF Marked
    <3>4. QED
      BY <3>2, <3>3
  <2>6. /\ \A e \in Device : \A a \in Activity : a \in withdrawn[e] => a \in withdrawn'[e]
        /\ \A e \in Device : \A a \in Activity : a \in forgotten[e] => a \in forgotten'[e]
    BY <1>1, <2>1 DEF RoundInv, RoundTypes
  <2>7. slot[d] # NoSlot /\ slot[d].activity # r.activity =>
            slot[d].activity \in withdrawn'[d] \/ slot[d].activity \in forgotten'[d]
    <3>1. SUFFICES ASSUME slot[d] # NoSlot, slot[d].activity # r.activity
                   PROVE  slot[d].activity \in withdrawn'[d] \/ slot[d].activity \in forgotten'[d]
      OBVIOUS
    <3>2. CASE r.left
      <4>1. slot[d].activity \in Displaced(r)
        BY <3>1, <3>2 DEF Displaced
      <4>2. QED
        BY <1>1, <2>1, <4>1 DEF RoundInv, RoundTypes
    <3>3. CASE ~r.left
      <4>1. r.latest
        BY <1>5 DEF Current
      <4>2. slot[d].activity \in (1..counts.registrations) \ {r.activity}
        BY <1>1, <1>3, <3>1 DEF Slot, Activity, RoundInv, NumberInv
      <4>3. QED
        BY <1>1, <2>1, <3>3, <4>1, <4>2
    <3>4. QED
      BY <3>2, <3>3
  <2>8. RoundTypes'
    BY <1>2, <1>3, <2>1 DEF RoundInv, RoundTypes
  <2>9. NumberInv'
    <3>1. ASSUME NEW e \in Device, slot'[e] # NoSlot
          PROVE  slot'[e].activity = r.activity \/ (slot[e] # NoSlot /\ slot'[e].activity = slot[e].activity)
      BY <2>3, <2>4, <2>5, <3>1
    <3>2. \A e \in Device : slot[e] # NoSlot =>
              slot[e].activity \in Nat /\ slot[e].activity <= counts.registrations
      BY <1>1 DEF Slot, Activity, RoundInv, NumberInv
    <3>3. \A q \in registering : q.activity \in Nat /\ q.activity <= counts.registrations
      BY DEF IInv, RegistryTypes, Registration, Activity, RoundInv, NumberInv
    <3>4. ASSUME NEW e \in Device, slot'[e] # NoSlot
          PROVE  slot'[e].activity <= counts'.registrations
      BY <1>3, <3>1, <3>2, <3>3, <3>4
    <3>5. \A q \in registering' : q.activity <= counts'.registrations
      BY <1>2, <1>3, <3>3
    <3>6. \A e \in Device : \A a \in Brought(e)' : a \in Nat /\ a <= counts'.registrations
      BY <1>2, <1>3 DEF RoundInv, NumberInv, Brought
    <3>7. QED
      BY <3>4, <3>5, <3>6 DEF NumberInv
  <2>10. ASSUME NEW e \in Device, slot[e] # NoSlot, slot[e].ended
         PROVE  \/ slot[e].activity \in withdrawn'[e]
                \/ slot[e].activity \in forgotten'[e]
                \/ /\ slot'[e] # NoSlot /\ slot'[e].activity = slot[e].activity
                   /\ slot'[e].ended
    <3>1. CASE e # d
      BY <2>4, <2>5, <2>10, <3>1
    <3>2. CASE e = d /\ slot[d].activity # r.activity
      BY <2>7, <2>10, <3>2
    <3>3. CASE e = d /\ slot[d].activity = r.activity
      <4>1. rotated.ended /\ before[d] = rotated /\ rotated.activity = slot[d].activity
        BY <2>3, <2>4, <2>10, <3>3
      <4>2. rotated # NoSlot
        BY <2>3, NoSlotAssumption
      <4>3. QED
        BY <1>1, <2>5, <3>3, <4>1, <4>2
    <3>4. QED
      BY <3>1, <3>2, <3>3
  <2>11. QED
    BY <1>2, <2>6, <2>8, <2>9, <2>10, RegistryStep
<1>6. QED
  BY <1>4, <1>5

\* What is over stays over, or is gone, in a step that only lets go of registrations.
LEMMA OverIsKept ==
    ASSUME UNCHANGED withdrawn, NEW d, NEW a, slot'[d] \in {slot[d], NoSlot},
           \A x \in forgotten[d] : x \in forgotten'[d],
           slot[d] # NoSlot /\ slot'[d] = NoSlot => slot[d].activity \in forgotten'[d],
           Elsewhere(d, a) \/ IsOver(d, a)
    PROVE  Elsewhere(d, a)' \/ IsOver(d, a)'
<1>1. CASE Elsewhere(d, a)
  BY <1>1 DEF Elsewhere
<1>2. CASE IsOver(d, a) /\ slot'[d] = slot[d]
  BY <1>2 DEF IsOver
<1>3. CASE IsOver(d, a) /\ slot'[d] = NoSlot
  BY <1>3 DEF IsOver, Elsewhere
<1>4. QED
  BY <1>1, <1>2, <1>3

\* A flush goes on from an answer with what the phones were told by then.
LEMMA RoundAdvances ==
    ASSUME RoundTypes, NumberInv, UNCHANGED <<registering, brought, withdrawn>>,
           counts' \in [Kinds -> Nat], counts.registrations <= counts'.registrations,
           slot \in [Device -> Slot \cup {NoSlot}], registering \subseteq Registration,
           NEW list, NEW rest, rest \subseteq Device, NEW slots \in [Device -> Slot \cup {NoSlot}],
           NEW sentNow, NEW again,
           NEW told \in [Device -> [Activity -> {"nothing", "update", "end"}]],
           \A d \in Device : slots[d] \in {slot[d], NoSlot},
           \A d \in rest : slots[d] = slot[d] /\ told[d] = delivered[d],
           \A d \in rest : Snap(d, list[d].slot),
           \A d \in Device, a \in Activity : told[d][a] = "end" => Elsewhere(d, a) \/ IsOver(d, a),
           Advance(list, rest, slots, sentNow, again, told)
    PROVE  RoundInv' /\ delivered' = told
<1>1. PICK skipped \in SUBSET rest :
        LET now == [d \in Device |->
               IF d \in skipped /\ ~MayGet(list[d])
               THEN Cleared(slots, d, list[d].slot.activity, list[d].slot.token)[d] ELSE slots[d]]
        IN /\ slot' = now
           /\ delivered' = told
           /\ forgotten' = [d \in Device |-> IF slot[d] # NoSlot /\ now[d] = NoSlot
                  THEN forgotten[d] \cup {slot[d].activity} ELSE forgotten[d]]
           /\ \/ flush' = NoFlush
              \/ \E d \in rest \ skipped :
                   flush' = [list |-> list, rest |-> rest \ (skipped \cup {d}), device |-> d,
                             state |-> StateOf(list[d].slot), used |-> cell, at |-> "push"]
  BY DEF Advance
<1>2. /\ \A d \in Device : slot'[d] \in {slot[d], NoSlot}
      /\ \A d \in rest \ skipped : slot'[d] = slot[d]
      /\ slot' \in [Device -> Slot \cup {NoSlot}]
  <2>1. ASSUME NEW d \in Device
        PROVE  Cleared(slots, d, list[d].slot.activity, list[d].slot.token)[d] \in {slots[d], NoSlot}
    BY DEF Cleared
  <2>2. QED
    BY <1>1, <2>1
<1>3. forgotten' = [d \in Device |-> forgotten'[d]]
  BY <1>1
<1>4. delivered' = told
  BY <1>1
<1>10. \A d \in Device :
          /\ \A x \in forgotten[d] : x \in forgotten'[d]
          /\ slot[d] # NoSlot /\ slot'[d] = NoSlot => slot[d].activity \in forgotten'[d]
  BY <1>1
<1>11. \/ flush' = NoFlush
       \/ \E d \in rest \ skipped :
            flush' = [list |-> list, rest |-> rest \ (skipped \cup {d}), device |-> d,
                      state |-> StateOf(list[d].slot), used |-> cell, at |-> "push"]
  BY <1>1
<1>12. ASSUME NEW d \in Device, NEW a, Elsewhere(d, a) \/ IsOver(d, a)
       PROVE  Elsewhere(d, a)' \/ IsOver(d, a)'
  <2>1. UNCHANGED withdrawn
    OBVIOUS
  <2>2. slot'[d] \in {slot[d], NoSlot}
    BY <1>2, Zenon
  <2>3. \A x \in forgotten[d] : x \in forgotten'[d]
    BY <1>10, Zenon
  <2>4. slot[d] # NoSlot /\ slot'[d] = NoSlot => slot[d].activity \in forgotten'[d]
    BY <1>10, Zenon
  <2>5. QED
    BY <1>12, <2>1, <2>2, <2>3, <2>4, OverIsKept
<1>5. RoundTypes'
  BY <1>3, <1>4 DEF RoundTypes
<1>6. NumberInv'
  <2>1. /\ counts.registrations \in Nat /\ counts'.registrations \in Nat
        /\ \A d \in Device : slot[d] # NoSlot => slot[d].activity \in Nat
        /\ \A r \in registering : r.activity \in Nat
    BY DEF RoundTypes, Kinds, Slot, Registration, Activity
  <2>2. ASSUME NEW d \in Device, slot'[d] # NoSlot PROVE slot'[d].activity <= counts'.registrations
    <3>1. slot'[d] = slot[d] /\ slot[d] # NoSlot
      BY <1>2, <2>2
    <3>2. QED
      BY <2>1, <3>1 DEF NumberInv
  <2>3. \A r \in registering' : r.activity <= counts'.registrations
    BY <2>1 DEF NumberInv
  <2>4. \A d \in Device : \A a \in Brought(d)' : a \in Nat /\ a <= counts'.registrations
    <3>1. \A d \in Device : Brought(d)' = Brought(d)
      BY Zenon DEF Brought
    <3>2. QED
      BY <2>1, <3>1 DEF NumberInv
  <2>5. QED
    BY <2>2, <2>3, <2>4 DEF NumberInv
<1>7. EndInv'
  BY <1>4, <1>12 DEF EndInv
<1>8. FlushInv'
  <2>1. CASE flush' = NoFlush
    BY <2>1 DEF FlushInv
  <2>2. ASSUME NEW e \in rest \ skipped PROVE Snap(e, list[e].slot)'
    <3>1. delivered'[e] = delivered[e] /\ Snap(e, list[e].slot) /\ e \in Device
      BY <1>4
    <3>2. \A x \in forgotten[e] : x \in forgotten'[e]
      BY <1>10, <3>1
    <3> DEFINE s == list[e].slot
    <3>3. Elsewhere(e, s.activity) \/ IsOver(e, s.activity)
              => Elsewhere(e, s.activity)' \/ IsOver(e, s.activity)'
      BY <1>12, <3>1
    <3>4. QED
      BY <3>1, <3>2, <3>3 DEF Snap
  <2>3. ASSUME NEW d \in rest \ skipped,
               flush' = [list |-> list, rest |-> rest \ (skipped \cup {d}), device |-> d,
                         state |-> StateOf(list[d].slot), used |-> cell, at |-> "push"]
        PROVE  FlushInv'
    <3>1. /\ flush'.list = list /\ flush'.rest = rest \ (skipped \cup {d}) /\ flush'.device = d
          /\ flush' = [list |-> flush'.list, rest |-> flush'.rest, device |-> flush'.device,
                       state |-> flush'.state, used |-> flush'.used, at |-> flush'.at]
      BY <2>3
    <3>2. /\ d \in Device \ flush'.rest /\ flush'.rest \subseteq Device
          /\ flush'.rest \cup {d} \subseteq rest \ skipped
      BY <2>3, <3>1
    <3>3. QED
      BY <2>2, <3>1, <3>2 DEF FlushInv
  <2>4. QED
    BY <1>11, <2>1, <2>3
<1>9. QED
  BY <1>4, <1>5, <1>6, <1>7, <1>8 DEF RoundInv

LEMMA RoundFlushes ==
    ASSUME IInv, RoundInv, FlushStarts PROVE RoundInv' /\ UNCHANGED delivered
<1>1. /\ Advance(Listed, DOMAIN Listed, slot, sent, FALSE, delivered)
      /\ UNCHANGED <<registering, brought, withdrawn, counts>>
  BY DEF FlushStarts
<1>2. /\ DOMAIN Listed = {d \in Device : slot[d] # NoSlot}
      /\ \A d \in DOMAIN Listed : Listed[d].slot = slot[d]
  BY DEF Listed
<1>3. /\ slot \in [Device -> Slot \cup {NoSlot}] /\ registering \subseteq Registration
      /\ delivered \in [Device -> [Activity -> {"nothing", "update", "end"}]]
  BY DEF IInv, RegistryTypes, RoundInv, RoundTypes
<1>4. ASSUME NEW d \in DOMAIN Listed PROVE Snap(d, Listed[d].slot)
  <2>1. d \in Device /\ slot[d] \in Slot /\ slot[d] # NoSlot /\ slot[d].activity \in Activity
    BY <1>2, <1>3 DEF Slot
  <2>2. ~slot[d].left => slot[d].activity \notin withdrawn[d]
    BY <2>1 DEF IInv, LastWordHolds
  <2>3. Snap(d, slot[d])
    BY <2>1, <2>2 DEF Snap, IsOver, Elsewhere, RoundInv, EndInv
  <2>4. QED
    BY <1>2, <2>3
<1>5. /\ counts' \in [Kinds -> Nat] /\ counts.registrations <= counts'.registrations
  BY <1>1 DEF RoundInv, RoundTypes, Kinds
<1>6. \A d \in Device, a \in Activity : delivered[d][a] = "end" => Elsewhere(d, a) \/ IsOver(d, a)
  BY DEF RoundInv, EndInv
<1> DEFINE list == Listed
           rest == DOMAIN Listed
<1>7. rest \subseteq Device /\ \A d \in rest : Snap(d, list[d].slot)
  BY <1>2, <1>4
<1> HIDE DEF list, rest
<1>8. Advance(list, rest, slot, sent, FALSE, delivered)
  BY <1>1 DEF list, rest
<1>9. QED
  BY <1>1, <1>3, <1>5, <1>6, <1>7, <1>8, RoundAdvances DEF RoundInv

\* The phone was told of the activity of the push that was under way, or was not.
LEMMA RoundAnswered ==
    ASSUME IInv, RoundInv, flush # NoFlush, UNCHANGED <<registering, brought, withdrawn>>,
           counts' \in [Kinds -> Nat], counts.registrations <= counts'.registrations,
           NEW outcome, NEW told \in {delivered, Told}, outcome = "invalid-token" => told = delivered,
           Answered(outcome, told)
    PROVE  /\ RoundInv'
           /\ \A d \in Device, a \in Activity :
                 delivered[d][a] = "end" /\ delivered'[d][a] = "update"
                     => flush.list[d].slot.left \/ a \in forgotten[d]
<1> DEFINE dev == flush.device
           s == flush.list[dev].slot
           slots == IF outcome = "invalid-token" THEN Cleared(slot, dev, s.activity, s.token) ELSE slot
<1>1. /\ dev \in Device \ flush.rest /\ flush.rest \subseteq Device /\ Snap(dev, s)
      /\ \A d \in flush.rest : Snap(d, flush.list[d].slot)
  BY DEF RoundInv, FlushInv
<1>2. s \in Slot /\ s.activity \in Activity /\ Pushed = s
  BY <1>1 DEF Snap, Slot, Pushed
<1>3. /\ slot \in [Device -> Slot \cup {NoSlot}] /\ registering \subseteq Registration
      /\ delivered \in [Device -> [Activity -> {"nothing", "update", "end"}]]
  BY DEF IInv, RegistryTypes, RoundInv, RoundTypes
<1>4. /\ slots \in [Device -> Slot \cup {NoSlot}]
      /\ \A d \in Device : slots[d] \in {slot[d], NoSlot}
      /\ \A d \in Device \ {dev} : slots[d] = slot[d]
  BY <1>1, <1>3 DEF Cleared
<1>5. /\ told \in [Device -> [Activity -> {"nothing", "update", "end"}]]
      /\ \A d \in Device \ {dev} : told[d] = delivered[d]
      /\ \A a \in Activity : told[dev][a] = delivered[dev][a]
            \/ (a = s.activity /\ told[dev][a] = EventOf(s))
  <2>1. EventOf(s) \in {"update", "end"}
    BY DEF EventOf
  <2>2. Told = [delivered EXCEPT ![dev] = [delivered[dev] EXCEPT ![s.activity] = EventOf(s)]]
    BY <1>2, <1>3 DEF Told
  <2> HIDE DEF dev, s
  <2>3. CASE told = delivered
    BY <1>3, <2>3
  <2>4. CASE told = Told
    <3>1. [delivered[dev] EXCEPT ![s.activity] = EventOf(s)] \in [Activity -> {"nothing", "update", "end"}]
      BY <1>1, <1>2, <1>3, <2>1
    <3>2. QED
      BY <1>1, <1>2, <1>3, <2>1, <2>2, <2>4, <3>1
  <2>5. QED
    BY <2>3, <2>4
<1>6. ASSUME NEW d \in Device, NEW a \in Activity, told[d][a] = "end"
      PROVE  Elsewhere(d, a) \/ IsOver(d, a)
  <2>1. CASE delivered[d][a] = "end"
    BY <2>1 DEF RoundInv, EndInv
  <2>2. CASE delivered[d][a] # "end"
    <3>1. d = dev /\ a = s.activity /\ EventOf(s) = "end"
      BY <1>5, <1>6, <2>2
    <3>2. s.ended
      BY <3>1 DEF EventOf
    <3>3. QED
      BY <1>1, <3>1, <3>2 DEF Snap
  <2>3. QED
    BY <2>1, <2>2
<1> DEFINE list == flush.list
           rest == flush.rest
           sentNow == IF outcome = "sent" THEN [sent EXCEPT ![<<dev, s.token>>] = flush.state] ELSE sent
           again == dirty \/ outcome = "failed"
<1>7. Advance(list, rest, slots, sentNow, again, told)
  BY <1>2 DEF Answered
<1>8. /\ rest \subseteq Device /\ \A d \in rest : Snap(d, list[d].slot)
      /\ \A d \in rest : slots[d] = slot[d] /\ told[d] = delivered[d]
  BY <1>1, <1>4, <1>5
<1> HIDE DEF slots, sentNow, again
<1>9. RoundInv' /\ delivered' = told
  <2> HIDE DEF list, rest
  <2>1. QED
    BY <1>3, <1>4, <1>5, <1>6, <1>7, <1>8, RoundAdvances DEF RoundInv
<1>10. ASSUME NEW d \in Device, NEW a \in Activity, delivered[d][a] = "end", delivered'[d][a] = "update"
       PROVE  flush.list[d].slot.left \/ a \in forgotten[d]
  <2>1. told[d][a] = "update"
    BY <1>9, <1>10
  <2>2. d = dev /\ a = s.activity /\ EventOf(s) = "update"
    BY <1>5, <1>10, <2>1
  <2>3. ~s.ended
    BY <2>2 DEF EventOf
  <2>4. QED
    BY <1>1, <1>10, <2>2, <2>3 DEF Snap
<1>11. QED
  BY <1>9, <1>10

\* What a step may do to the history of one activity.
NoRoundRevived == \A d \in Device, a \in Activity :
    delivered[d][a] = "end" /\ delivered'[d][a] = "update"
        => flush.list[d].slot.left \/ a \in forgotten[d]

LEMMA RoundPushed == ASSUME IInv, RoundInv, PushAnswered PROVE RoundInv' /\ NoRoundRevived
<1>1. flush # NoFlush /\ UNCHANGED <<registering, brought, withdrawn>>
  BY DEF PushAnswered
<1>2. /\ "mishaps" \in Kinds /\ counts \in [Kinds -> Nat] /\ counts.registrations \in Nat
      /\ UNCHANGED counts \/ Count("mishaps")
  BY DEF PushAnswered, RoundInv, RoundTypes, Kinds
<1>3. counts' \in [Kinds -> Nat] /\ counts.registrations <= counts'.registrations
  BY <1>2, CountFact
<1>4. \/ \E outcome \in {"sent", "invalid-token", "failed"}, told \in {delivered, Told} :
            Answered(outcome, told) /\ (outcome = "invalid-token" => told = delivered)
      \/ /\ flush' = [flush EXCEPT !.at = "enroll"]
         /\ UNCHANGED <<slot, sent, timer, dirty, delivered, forgotten, counts>>
  BY DEF PushAnswered
<1>5. CASE \E outcome \in {"sent", "invalid-token", "failed"}, told \in {delivered, Told} :
               Answered(outcome, told) /\ (outcome = "invalid-token" => told = delivered)
  BY <1>1, <1>3, <1>5, RoundAnswered DEF NoRoundRevived
<1>6. CASE /\ flush' = [flush EXCEPT !.at = "enroll"]
           /\ UNCHANGED <<slot, sent, timer, dirty, delivered, forgotten, counts>>
  <2>1. RoundTypes' /\ NumberInv' /\ EndInv'
    BY <1>1, <1>6 DEF RoundInv, RoundTypes, NumberInv, Brought, EndInv, Elsewhere, IsOver
  <2>2. \A d, r : Snap(d, r) => Snap(d, r)'
    BY <1>1, <1>6 DEF Snap, Elsewhere, IsOver
  <2>3. flush = [list |-> flush.list, rest |-> flush.rest, device |-> flush.device,
                 state |-> flush.state, used |-> flush.used, at |-> flush.at]
    BY <1>1 DEF RoundInv, FlushInv
  <2>4. flush' = [list |-> flush.list, rest |-> flush.rest, device |-> flush.device,
                  state |-> flush.state, used |-> flush.used, at |-> "enroll"]
    BY <1>6, <2>3
  <2>5. FlushInv'
    BY <1>1, <2>2, <2>4 DEF RoundInv, FlushInv
  <2>6. NoRoundRevived
    BY <1>6 DEF NoRoundRevived
  <2>7. QED
    BY <2>1, <2>5, <2>6 DEF RoundInv
<1>7. QED
  BY <1>4, <1>5, <1>6

LEMMA RoundEnrolled == ASSUME IInv, RoundInv, FlushEnrolled PROVE RoundInv' /\ NoRoundRevived
<1>1. /\ flush # NoFlush /\ UNCHANGED <<registering, brought, withdrawn>>
      /\ EnrollAnswered /\ Answered("failed", delivered)
  BY DEF FlushEnrolled
<1>2. "mishaps" \in Kinds /\ counts \in [Kinds -> Nat] /\ counts.registrations \in Nat
  BY DEF RoundInv, RoundTypes, Kinds
<1>3. counts' \in [Kinds -> Nat] /\ counts.registrations <= counts'.registrations
  BY <1>1, <1>2, CountFact DEF EnrollAnswered
<1>4. QED
  BY <1>1, <1>3, RoundAnswered DEF NoRoundRevived

LEMMA RoundMarks == ASSUME IInv, RoundInv, SessionChanges PROVE RoundInv'
<1>1. /\ Count("changes") /\ slot' = Marked(slot, phase')
      /\ UNCHANGED <<flush, delivered, brought, withdrawn, forgotten, registering>>
  BY DEF SessionChanges
<1>2. "changes" \in Kinds /\ counts \in [Kinds -> Nat]
  BY DEF RoundInv, RoundTypes, Kinds
<1>3. counts' \in [Kinds -> Nat] /\ counts.registrations <= counts'.registrations
  BY <1>1, <1>2, CountFact
<1>4. ASSUME NEW d \in Device
      PROVE  /\ slot[d] = NoSlot => slot'[d] = NoSlot
             /\ slot[d] # NoSlot => /\ slot'[d] # NoSlot /\ slot'[d].activity = slot[d].activity
                                    /\ slot[d].ended => slot'[d].ended
  <2>1. slot[d] = NoSlot \/ slot[d] \in Slot
    BY DEF IInv, RegistryTypes
  <2>2. slot'[d] = IF slot[d] # NoSlot /\ phase' = "ended" THEN [slot[d] EXCEPT !.ended = TRUE] ELSE slot[d]
    BY <1>1 DEF Marked
  <2>3. CASE slot[d] # NoSlot /\ phase' = "ended"
    <3>1. slot'[d] \in Slot /\ slot'[d].activity = slot[d].activity /\ slot'[d].ended
      BY <2>1, <2>2, <2>3 DEF Slot
    <3>2. QED
      BY <2>3, <3>1, NoSlotAssumption
  <2>4. CASE ~(slot[d] # NoSlot /\ phase' = "ended")
    BY <2>2, <2>4
  <2>5. QED
    BY <2>3, <2>4
<1>5. QED
  BY <1>1, <1>3, <1>4, KeepsStep

LEMMA RoundExpires == ASSUME IInv, RoundInv, NEW d \in Device, Expires(d) PROVE RoundInv'
<1>1. /\ slot[d] # NoSlot /\ slot' = [slot EXCEPT ![d].expired = TRUE]
      /\ UNCHANGED <<flush, delivered, brought, withdrawn, forgotten, registering>>
      /\ Count("mishaps")
  BY DEF Expires, pushVars
<1>2. slot[d] \in Slot
  BY <1>1 DEF IInv, RegistryTypes
<1>3. slot'[d] = [slot[d] EXCEPT !.expired = TRUE] /\ \A e \in Device \ {d} : slot'[e] = slot[e]
  BY <1>1 DEF IInv, RegistryTypes
<1>4. slot'[d] \in Slot /\ slot'[d].activity = slot[d].activity /\ slot'[d].ended = slot[d].ended
  BY <1>2, <1>3 DEF Slot
<1>5. counts' \in [Kinds -> Nat] /\ counts.registrations <= counts'.registrations
  BY <1>1, CountFact DEF RoundInv, RoundTypes, Kinds
<1>6. QED
  BY <1>1, <1>3, <1>4, <1>5, NoSlotAssumption, KeepsStep

LEMMA RoundReconnects == ASSUME IInv, RoundInv, NEW d \in Device, Reconnect(d) PROVE RoundInv'
<1>1. /\ Count("mishaps") /\ registering' = {[r EXCEPT !.left = @ \/ r.device = d] : r \in registering}
      /\ UNCHANGED <<flush, delivered, brought, withdrawn, forgotten, slot>>
  BY DEF Reconnect, pushVars
<1>2. "mishaps" \in Kinds /\ counts \in [Kinds -> Nat]
  BY DEF RoundInv, RoundTypes, Kinds
<1>3. counts' \in [Kinds -> Nat] /\ counts.registrations <= counts'.registrations
  BY <1>1, <1>2, CountFact
<1>4. \A r \in registering : [r EXCEPT !.left = @ \/ r.device = d].activity = r.activity
  BY DEF IInv, RegistryTypes, Registration
<1>5. \A r \in registering' : \E q \in registering : r.activity = q.activity
  BY <1>1, <1>4
<1>6. QED
  BY <1>1, <1>3, <1>5, KeepsStep

LEMMA RoundStep == IInv /\ RoundInv /\ [Next]_vars => RoundInv' /\ NoRoundRevived
<1> SUFFICES ASSUME IInv, RoundInv, [Next]_vars PROVE RoundInv' /\ NoRoundRevived
  OBVIOUS
<1>1. UNCHANGED delivered => NoRoundRevived
  BY DEF NoRoundRevived
<1>2. CASE UNCHANGED vars
  BY <1>1, <1>2, QuietStep DEF vars, pushVars, deviceVars
<1>3. CASE RelayForgets \/ AlertStarts \/ AlertEnrolls
  BY <1>1, <1>3, QuietStep DEF RelayForgets, AlertStarts, AlertEnrolls, EnrollAnswered, pushVars, deviceVars
<1>4. ASSUME NEW used \in 1..MaxCredentials, AlertAnswered(used) PROVE RoundInv' /\ NoRoundRevived
  BY <1>1, <1>4, QuietStep DEF AlertAnswered, pushVars, deviceVars
<1>5. ASSUME NEW d \in Device, Narrowed(d) PROVE RoundInv' /\ NoRoundRevived
  BY <1>1, <1>5, QuietStep DEF Narrowed, pushVars
<1>6. CASE SessionChanges
  BY <1>1, <1>6, RoundMarks DEF SessionChanges
<1>7. CASE FlushStarts
  BY <1>1, <1>7, RoundFlushes
<1>8. CASE PushAnswered
  BY <1>8, RoundPushed
<1>9. CASE FlushEnrolled
  BY <1>9, RoundEnrolled
<1>10. ASSUME NEW r \in registering, RegisterEnds(r) PROVE RoundInv' /\ NoRoundRevived
  BY <1>1, <1>10, RoundEnds DEF RegisterEnds
<1>11. ASSUME NEW d \in Device, Reconnect(d) PROVE RoundInv' /\ NoRoundRevived
  BY <1>1, <1>11, RoundReconnects DEF Reconnect, pushVars
<1>12. ASSUME NEW d \in Device, Expires(d) PROVE RoundInv' /\ NoRoundRevived
  BY <1>1, <1>12, RoundExpires DEF Expires, pushVars
<1>13. ASSUME NEW d \in Device, NEW a \in Activity, Unregister(d, a) PROVE RoundInv' /\ NoRoundRevived
  BY <1>1, <1>13, RoundUnregister DEF Unregister, pushVars
<1>14. ASSUME NEW d \in Device, NEW a \in Activity, NEW t \in Token, RegisterArrives(d, a, t)
       PROVE  RoundInv' /\ NoRoundRevived
  BY <1>1, <1>14, RoundArrives DEF RegisterArrives, pushVars
<1>15. QED
  BY <1>2, <1>3, <1>4, <1>5, <1>6, <1>7, <1>8, <1>9, <1>10, <1>11, <1>12, <1>13, <1>14 DEF Next

\* Once a phone was told the end of an activity no push revives it, whatever it registers
\* and however flushes, failures and the next round follow each other; unless a registration
\* left on a lost connection is pushed, or the bridge let go of the activity's registration,
\* with the mark of its end, before the phone brought it again (live-activity.ts, flush();
\* token.ts, setLiveActivity()).
THEOREM RoundsStayOver == Spec => OverStaysOver
<1>1. Init => IInv /\ RoundInv
  BY StartFact, RoundStart
<1>2. IInv /\ RoundInv /\ [Next]_vars => (IInv /\ RoundInv)'
  BY SafeStep, RoundStep
<1>3. IInv /\ RoundInv /\ [Next]_vars => [NoRoundRevived]_vars
  BY RoundStep
<1>4. Spec => [][NoRoundRevived]_vars
  BY <1>1, <1>2, <1>3, PTL DEF Spec
<1>5. QED
  BY <1>4 DEF OverStaysOver, NoRoundRevived

-----------------------------------------------------------------------------
(* Events and replays.                                                     *)

-----------------------------------------------------------------------------
(* The inductive invariant.                                                *)

\* Frames that carry a number, and those that do not.
Numbered == {"global", "event"}
Frame == [kind : {"global", "welcome", "resync", "done"}, seq : Nat, n : Nat]
         \cup [kind : {"event", "tail", "failed"}, seq : Nat, n : Nat, session : Session]
Buffer == [open : Nat, frames : Seq(Frame)]
Read == [open : Nat \ {0}, session : Session, upTo : Nat \cup {NoCopy}]

\* The types, without the bounds.
StateOK ==
    /\ appended \in [Session -> Nat] /\ recorded \in [Session -> Nat]
    /\ life \in Nat \ {0} /\ log \in Seq(Frame)
    /\ status \in {"none", "open", "closing"}
    /\ watch \subseteq Session /\ opened \subseteq Session
    /\ opening \in [Session -> Buffer] /\ reads \subseteq Read
    /\ toPhone \in Seq(Frame)
    /\ cursor \in [life : Nat, seq : Nat]
    /\ copy \in [Session -> Nat \cup {NoCopy}]
    /\ page \in [Session -> {"none", "asked", "live"}]
    /\ conns \in Nat /\ opens \in Nat /\ base \in Nat /\ got \subseteq Nat
    /\ discarded \subseteq Session /\ overtaken \subseteq Session /\ replaced \subseteq Session
    /\ mistaken \in BOOLEAN

\* Frame i of a queue is of session s and of a kind.
Holds(q, i, kinds, s) == q[i].kind \in kinds /\ q[i].session = s

\* Every buffer has its reader, and a page the phone shows; a session that is open on a
\* connection that works is shown, and live or about to be.
OpensOK ==
    /\ \A r \in reads : r.open <= opens
    /\ \A r1, r2 \in reads : r1.open = r2.open => r1 = r2
    /\ \A s \in Session :
          IF opening[s].open = 0 THEN opening[s] = NoBuffer
          ELSE page[s] # "none" /\ \E r \in reads : r.session = s /\ r.open = opening[s].open
    /\ status = "open" => \A s \in opened :
          \/ page[s] = "live"
          \/ page[s] = "asked" /\ \E i \in 1..Len(toPhone) : Holds(toPhone, i, {"tail"}, s)

\* Without a connection there is nothing of one.
IdleOK ==
    status = "none" => /\ opened = {} /\ watch = {} /\ reads = {} /\ toPhone = <<>>
                       /\ \A s \in Session : opening[s] = NoBuffer /\ page[s] = "none"

\* The log has the frames in their order, and the events of each session in theirs.
LogOK ==
    /\ \A x \in 1..Len(log) :
          /\ log[x].seq = x /\ log[x].kind \in Numbered
          /\ log[x].kind = "event" => 1 <= log[x].n /\ log[x].n <= recorded[log[x].session]
    /\ \A x, y \in 1..Len(log) :
          x < y /\ log[x].kind = "event" /\ log[y].kind = "event"
              /\ log[x].session = log[y].session => log[x].n < log[y].n
    /\ \A s \in Session : recorded[s] <= appended[s]

\* No snapshot of a session is ahead of the host.
SnapshotOK ==
    /\ \A s \in Session : copy[s] <= appended[s]
    /\ \A r \in reads : r.upTo <= appended[r.session]
    /\ \A j \in 1..Len(toPhone) :
          toPhone[j].kind = "tail" => toPhone[j].n <= appended[toPhone[j].session]

\* The cursor is of this life and within its log, or of an earlier one.
CursorOK ==
    /\ cursor.life <= life
    /\ cursor.life = life => cursor.seq <= Len(log)
    /\ cursor.life = 0 => cursor = NoCursor
    /\ cursor = NoCursor => \A s \in Session : copy[s] = NoCopy

\* What is under way and has a number comes from the log.
FramesOK ==
    \A i \in 1..Len(toPhone) :
        /\ IF toPhone[i].kind \in Numbered
           THEN toPhone[i].seq \in 1..Len(log) /\ toPhone[i] = log[toPhone[i].seq]
           ELSE toPhone[i].seq = 0
        /\ toPhone[i].kind \in {"welcome", "resync"} => toPhone[i].n <= Len(log)

\* A connection begins with its welcome, and with the resync if there is one.
BeginOK ==
    /\ \A i \in 1..Len(toPhone) :
          /\ toPhone[i].kind = "welcome" => i = 1
          /\ toPhone[i].kind = "resync" =>
                cursor # NoCursor /\ \A j \in 1..Len(toPhone) : j < i => toPhone[j].kind = "welcome"
    /\ cursor = NoCursor =>
          /\ status = "open" => toPhone # <<>>
          /\ toPhone # <<>> => toPhone[1].kind = "welcome"

\* Global frames come behind all with lower numbers, the events of a session in order.
OrderOK ==
    \A i, j \in 1..Len(toPhone) : i < j =>
        /\ toPhone[j].kind = "global" => toPhone[i].seq < toPhone[j].seq
        /\ toPhone[i].kind = "event" /\ toPhone[j].kind = "event"
              /\ toPhone[i].session = toPhone[j].session => toPhone[i].seq < toPhone[j].seq

\* What waits behind a tail comes from the log, too, and after what was sent.
HeldOK ==
    \A s \in Session : \A i \in 1..Len(opening[s].frames) :
        LET f == opening[s].frames[i]
        IN  /\ f.kind = "event" /\ f.session = s
            /\ f.seq \in 1..Len(log) /\ f = log[f.seq]
            /\ \A j \in 1..Len(opening[s].frames) : j < i => opening[s].frames[j].seq < f.seq
            /\ \A j \in 1..Len(toPhone) : Holds(toPhone, j, {"event"}, s) => toPhone[j].seq < f.seq

\* A resync is under way.
Resyncs == \E i \in 1..Len(toPhone) : toPhone[i].kind = "resync"
\* Frame f gives the phone a new cursor.
Renews(f) == f.kind = "resync" \/ (f.kind = "welcome" /\ cursor = NoCursor)

\* A cursor of another life is going to be renewed before anything is numbered.
LifeOK ==
    /\ ~mistaken /\ cursor # NoCursor /\ cursor.life # life
    /\ status = "open" \/ \E i \in 1..Len(toPhone) : toPhone[i].seq > 0
    => Resyncs

\* Frame x of the log was sent, or is going to be.
Due(x) == status = "open" \/ \E i \in 1..Len(toPhone) : x <= toPhone[i].seq

\* The phone has frame x, or a snapshot that is newer.
Has(x) == x <= base \/ x \in got

\* Of the global frames the phone has those up to its cursor, and has or gets those sent,
\* itself or as part of a renewed snapshot.
GlobalsOK ==
    ~mistaken => \A x \in 1..Len(log) : log[x].kind = "global" =>
        /\ cursor.life = life /\ x <= cursor.seq => Has(x)
        /\ Due(x) => \/ \E i \in 1..Len(toPhone) : toPhone[i].seq = x
                     \/ \E i \in 1..Len(toPhone) : Renews(toPhone[i]) /\ x <= toPhone[i].n
                     \/ Has(x) /\ \A i \in 1..Len(toPhone) : ~Renews(toPhone[i])

\* What an open is answered with.
Answers == {"tail", "failed"}

\* An open of s has one answer, under way or at the await, and what was sent before the
\* answer is not newer.
AnswersOf(s) ==
    /\ \A r \in reads : r.session = s =>
          /\ opening[s].open = r.open
          /\ \A r2 \in reads : r2.session = s => r2 = r
          /\ \A i \in 1..Len(toPhone) : ~Holds(toPhone, i, Answers, s)
          /\ r.upTo # NoCopy =>
                /\ copy[s] <= r.upTo
                /\ \A i \in 1..Len(toPhone) :
                      Holds(toPhone, i, {"event"}, s) => toPhone[i].n <= r.upTo
    /\ \A j \in 1..Len(toPhone) : Holds(toPhone, j, Answers, s) =>
          /\ \A i \in 1..Len(toPhone) : Holds(toPhone, i, Answers, s) => i = j
          /\ toPhone[j].kind = "tail" =>
                /\ s \in opened /\ copy[s] <= toPhone[j].n
                /\ \A i \in 1..Len(toPhone) : i < j /\ Holds(toPhone, i, {"event"}, s)
                      => toPhone[i].n <= toPhone[j].n
    /\ page[s] = "live" => s \in opened

\* So it is of every session whose opens were each answered before the next.
AnswersOK == \A s \in Session \ replaced : AnswersOf(s)

\* The events of s after e are in the log.
Since(s, e) == \A k \in Nat : e < k /\ k <= recorded[s] =>
    \E x \in 1..Len(log) : log[x].kind = "event" /\ log[x].session = s /\ log[x].n = k

EventIn(x, s) == log[x].kind = "event" /\ log[x].session = s

\* Frame x waits behind the answer of s; it waits there or is on its way to the phone.
Held(x, s) == \E i \in 1..Len(opening[s].frames) : opening[s].frames[i].seq = x
UnderWay(x, s) == Held(x, s) \/ \E i \in 1..Len(toPhone) : toPhone[i].seq = x

\* The sessions none of the cases happened to that the property excepts.
Safe == Session \ (discarded \cup overtaken \cup replaced)

\* Frame x was sent, or is no later than the cursor or a snapshot the cursor will get.
Late(x) ==
    \/ Due(x)
    \/ cursor.life = life /\ x <= cursor.seq
    \/ \E i \in 1..Len(toPhone) : toPhone[i].kind \in {"welcome", "resync"} /\ x <= toPhone[i].n

\* On a connection the phone has copies only of sessions it watches or shows.
KeptOK == status # "none" => \A s \in Session : copy[s] # NoCopy => s \in watch \/ page[s] = "live"

\* The log has every event that a copy or a snapshot does not have.
SinceOK ==
    /\ ~mistaken /\ cursor.life = life =>
          \A s \in Session : copy[s] # NoCopy => Since(s, copy[s])
    /\ \A r \in reads : r.upTo # NoCopy => Since(r.session, r.upTo)
    /\ \A j \in 1..Len(toPhone) : toPhone[j].kind = "tail" => Since(toPhone[j].session, toPhone[j].n)

\* If the copy of s lacks event x of the log, or is going to, the event is under way.
CopyOf(s, x) ==
    /\ ~mistaken /\ cursor.life = life /\ copy[s] # NoCopy /\ copy[s] < log[x].n =>
          /\ x <= cursor.seq => UnderWay(x, s)
          /\ Due(x) /\ ~Resyncs => UnderWay(x, s)
    /\ \A j \in 1..Len(toPhone) :
          Holds(toPhone, j, {"tail"}, s) /\ toPhone[j].n < log[x].n /\ Late(x) => UnderWay(x, s)
    /\ \A r \in reads :
          r.session = s /\ r.upTo # NoCopy /\ r.upTo < log[x].n => Held(x, s)
CopiesOK == \A s \in Safe : \A x \in 1..Len(log) : EventIn(x, s) => CopyOf(s, x)

\* The inductive invariant.
ReplayInv ==
    /\ StateOK /\ OpensOK /\ IdleOK /\ LogOK /\ SnapshotOK /\ CursorOK
    /\ FramesOK /\ BeginOK /\ OrderOK /\ HeldOK
    /\ LifeOK /\ GlobalsOK /\ AnswersOK /\ KeptOK /\ SinceOK /\ CopiesOK
-----------------------------------------------------------------------------
(* Induction, as sets: what a least counterexample cannot be.              *)

\* Every set of numbers that is not empty has a least one.
LEMMA LeastNat ==
    ASSUME NEW S \in SUBSET Nat, S # {}
    PROVE  \E m \in S : \A k \in S : m <= k
<1> DEFINE T == {0..m : m \in S}
<1>1. \A m \in S : 0..m \in FiniteSubsetsOf(Nat)
  <2> SUFFICES ASSUME NEW m \in S PROVE 0..m \in FiniteSubsetsOf(Nat)
    OBVIOUS
  <2>1. IsFiniteSet(0..m)
    BY FS_Interval
  <2>2. 0..m \in SUBSET Nat
    OBVIOUS
  <2>3. QED
    BY <2>1, <2>2, Zenon DEF FiniteSubsetsOf
<1>2. T \subseteq FiniteSubsetsOf(Nat) /\ T # {}
  BY <1>1
<1>3. IsWellFoundedOn(StrictSubsetOrdering(Nat), FiniteSubsetsOf(Nat))
  BY FS_StrictSubsetOrderingWellFounded
<1> HIDE DEF T
<1>4. \E x \in T : \A y \in T : ~ (<<y, x>> \in StrictSubsetOrdering(Nat))
  BY <1>2, <1>3, WFMin
<1> USE DEF T
<1>5. PICK m \in S : \A k \in S : ~ (<<0..k, 0..m>> \in StrictSubsetOrdering(Nat))
  BY <1>4
<1>6. ASSUME NEW k \in S, k < m PROVE FALSE
  <2>1. 0..k \subseteq 0..m /\ m \notin 0..k /\ m \in 0..m
    BY <1>6
  <2>2. <<0..k, 0..m>> \in (SUBSET Nat) \X (SUBSET Nat) /\ 0..k # 0..m
    BY <2>1
  <2>3. <<0..k, 0..m>> \in StrictSubsetOrdering(Nat)
    BY <2>1, <2>2, Zenon DEF StrictSubsetOrdering
  <2>4. QED
    BY <2>3, <1>5, <1>6
<1>7. QED
  BY <1>6

\* A set that has 0, and n + 1 with every n, has them all.
LEMMA SetInduction ==
    ASSUME NEW S, 0 \in S, \A n \in Nat : n \in S => n + 1 \in S
    PROVE  Nat \subseteq S
<1> SUFFICES ASSUME Nat \ S # {} PROVE FALSE
  OBVIOUS
<1>1. PICK m \in Nat \ S : \A k \in Nat \ S : m <= k
  BY LeastNat
<1>2. m # 0 /\ m - 1 \in Nat
  OBVIOUS
<1>3. m - 1 \in S
  BY <1>1, <1>2
<1>4. QED
  BY <1>2, <1>3

-----------------------------------------------------------------------------
(* Queues.                                                                 *)

\* A sequence with one more element.
LEMMA AppendFact ==
    ASSUME NEW T, NEW q \in Seq(T), NEW x \in T
    PROVE  /\ Append(q, x) \in Seq(T) /\ Len(Append(q, x)) = Len(q) + 1 /\ Len(q) \in Nat
           /\ DOMAIN q = 1..Len(q) /\ DOMAIN Append(q, x) = 1..(Len(q) + 1)
           /\ Append(q, x)[Len(q) + 1] = x
           /\ \A i \in 1..Len(q) : Append(q, x)[i] = q[i]
           /\ \A i \in 1..Len(q) : q[i] \in T
  OBVIOUS

\* A sequence without its first element.
LEMMA TailFact ==
    ASSUME NEW T, NEW q \in Seq(T), q # <<>>
    PROVE  /\ Tail(q) \in Seq(T) /\ Len(Tail(q)) \in Nat /\ Len(q) = Len(Tail(q)) + 1
           /\ DOMAIN q = 1..Len(q) /\ DOMAIN Tail(q) = 1..Len(Tail(q))
           /\ \A i \in 1..Len(Tail(q)) : Tail(q)[i] = q[i + 1]
           /\ \A i \in 1..Len(q) : q[i] \in T
           /\ Head(q) = q[1] /\ 1 \in 1..Len(q) /\ q[1] \in T
  OBVIOUS

-----------------------------------------------------------------------------
(* What is sent.                                                           *)

LinkType == [status : {"none", "open", "closing"}, queue : Seq(Frame)]

\* The first m frames were sent over connection a, which is b now.
Sent(a, frames, m, b) ==
    /\ b \in LinkType
    /\ a.status # "open" => b = a
    /\ a.status = "open" => b.status \in {"open", "closing"}
    /\ Len(a.queue) <= Len(b.queue) /\ Len(b.queue) <= Len(a.queue) + m
    /\ \A i \in 1..Len(a.queue) : b.queue[i] = a.queue[i]
    /\ \A i \in 1..m : Len(a.queue) + i <= Len(b.queue) => b.queue[Len(a.queue) + i] = frames[i]
    /\ b.status = "open" => Len(b.queue) = Len(a.queue) + m

\* One more frame is sent.
LEMMA SendOne ==
    ASSUME NEW a \in LinkType, NEW frames \in Seq(Frame), NEW m \in Nat, m < Len(frames),
           NEW b, Sent(a, frames, m, b)
    PROVE  Sent(a, frames, m + 1, Send(b, frames[m + 1]))
<1> DEFINE f == frames[m + 1]
           c == Send(b, f)
           k == Len(a.queue)
           q == b.queue
           more == Append(q, f)
<1> SUFFICES Sent(a, frames, m + 1, c)
  OBVIOUS
<1>1. /\ b \in LinkType /\ q \in Seq(Frame) /\ Len(q) \in Nat /\ f \in Frame
      /\ a.queue \in Seq(Frame) /\ k \in Nat
  BY DEF Sent, LinkType
<1>2. /\ a.status # "open" => b = a
      /\ a.status = "open" => b.status \in {"open", "closing"}
      /\ k <= Len(q) /\ Len(q) <= k + m
      /\ \A i \in 1..k : q[i] = a.queue[i]
      /\ \A i \in 1..m : k + i <= Len(q) => q[k + i] = frames[i]
      /\ b.status = "open" => Len(q) = k + m
  BY DEF Sent
<1>3. /\ more \in Seq(Frame) /\ Len(more) = Len(q) + 1 /\ more[Len(q) + 1] = f
      /\ \A i \in 1..Len(q) : more[i] = q[i]
  BY <1>1, AppendFact
<1>4. \/ c = b /\ b.status # "open"
      \/ c = [b EXCEPT !.status = "closing"] /\ b.status = "open"
      \/ c = [b EXCEPT !.queue = more] /\ b.status = "open"
  BY DEF Send
<1>5. k <= Len(q) /\ Len(q) <= k + (m + 1)
  <2>1. \A x, y \in Nat : y <= x + m => y <= x + (m + 1)
    OBVIOUS
  <2>2. k \in Nat /\ Len(q) \in Nat /\ k <= Len(q) /\ Len(q) <= k + m
    BY <1>1, <1>2
  <2> HIDE DEF k, q
  <2>3. QED
    BY <2>1, <2>2
<1>6. CASE c = b /\ b.status # "open"
  <2>1. \A i \in 1..(m + 1) : k + i <= Len(q) => i \in 1..m
    BY <1>1, <1>2
  <2> HIDE DEF c, f
  <2>3. QED
    BY <1>1, <1>2, <1>5, <1>6, <2>1 DEF Sent
<1>7. CASE c = [b EXCEPT !.status = "closing"] /\ b.status = "open"
  <2>1. c \in LinkType /\ c.queue = q /\ c.status = "closing"
    BY <1>1, <1>7 DEF LinkType
  <2>2. a.status = "open"
    BY <1>2, <1>7
  <2>3. \A i \in 1..(m + 1) : k + i <= Len(q) => i \in 1..m
    BY <1>1, <1>2, <1>7
  <2> HIDE DEF c, f
  <2>4. QED
    BY <1>1, <1>2, <1>5, <2>1, <2>2, <2>3 DEF Sent
<1>8. CASE c = [b EXCEPT !.queue = more] /\ b.status = "open"
  <2> HIDE DEF more
  <2>1. c \in LinkType /\ c.queue = more /\ c.status = "open"
    BY <1>1, <1>3, <1>8 DEF LinkType
  <2>2. a.status = "open" /\ Len(q) = k + m
    BY <1>2, <1>8
  <2> HIDE DEF c
  <2>3. \A i \in 1..k : more[i] = a.queue[i]
    <3>1. \A i \in 1..k : i \in 1..Len(q)
      BY <1>1, <2>2
    <3>2. QED
      BY <1>2, <1>3, <3>1
  <2> HIDE DEF k, q
  <2>4. \A i \in 1..(m + 1) : more[k + i] = frames[i]
    <3> SUFFICES ASSUME NEW i \in 1..(m + 1) PROVE more[k + i] = frames[i]
      OBVIOUS
    <3>1. CASE i = m + 1
      <4>1. k + i = Len(q) + 1
        BY <1>1, <2>2, <3>1
      <4>2. more[k + i] = f
        BY <1>3, <4>1
      <4>3. QED
        BY <3>1, <4>2
    <3>2. CASE i # m + 1
      <4>1. i \in 1..m /\ k + i \in 1..Len(q) /\ k + i <= Len(q)
        BY <1>1, <2>2, <3>2
      <4>2. QED
        BY <1>2, <1>3, <4>1
    <3>3. QED
      BY <3>1, <3>2
  <2>5. Len(more) = k + (m + 1) /\ k <= Len(more) /\ Len(more) <= k + (m + 1)
    BY <1>1, <1>3, <2>2
  <2>6. c.queue = more /\ k = Len(a.queue)
    BY <2>1 DEF k
  <2> HIDE DEF f
  <2>7. QED
    BY <2>1, <2>2, <2>3, <2>4, <2>5, <2>6 DEF Sent
<1>9. QED
  BY <1>4, <1>6, <1>7, <1>8

\* One frame is sent.
LEMMA SendSent ==
    ASSUME NEW a \in LinkType, NEW f \in Frame
    PROVE  Sent(a, <<f>>, 1, Send(a, f))
<1> DEFINE frames == <<f>>
<1>1. frames \in Seq(Frame) /\ Len(frames) = 1 /\ frames[1] = f
  OBVIOUS
<1>2. a.queue \in Seq(Frame) /\ Len(a.queue) \in Nat
  BY DEF LinkType
<1>3. Sent(a, frames, 0, a)
  BY <1>2 DEF Sent, LinkType
<1> HIDE DEF frames
<1>4. Sent(a, frames, 0 + 1, Send(a, frames[0 + 1]))
  BY <1>1, <1>3, SendOne
<1>5. QED
  BY <1>1, <1>4 DEF frames

\* The connection after each frame of a list.
Sends(f, a, frames, n) ==
    f = [i \in 0..n |-> IF i = 0 THEN a ELSE Send(f[i - 1], frames[i])]

\* The list goes on with one more frame.
LEMMA SendsStep ==
    ASSUME NEW a, NEW frames, NEW n \in Nat, NEW f, Sends(f, a, frames, n)
    PROVE  \E g : Sends(g, a, frames, n + 1)
<1> DEFINE next == Send(f[n], frames[n + 1])
           g == [i \in 0..(n + 1) |-> IF i = n + 1 THEN next ELSE f[i]]
<1>1. \A i \in 0..n : g[i] = f[i]
  OBVIOUS
<1>2. \A i \in 0..n : f[i] = IF i = 0 THEN a ELSE Send(f[i - 1], frames[i])
  BY Zenon DEF Sends
<1>3. ASSUME NEW i \in 0..(n + 1)
      PROVE  g[i] = IF i = 0 THEN a ELSE Send(g[i - 1], frames[i])
  <2>1. CASE i = n + 1
    <3>1. g[i] = next /\ g[i - 1] = f[n] /\ i # 0
      BY <2>1
    <3>2. QED
      BY <3>1, <2>1
  <2>2. CASE i # n + 1
    <3>1. i \in 0..n /\ (i # 0 => i - 1 \in 0..n)
      BY <2>2
    <3> HIDE DEF g
    <3>2. QED
      BY <1>1, <1>2, <3>1
  <2>3. QED
    BY <2>1, <2>2
<1>4. g = [i \in 0..(n + 1) |-> g[i]]
  OBVIOUS
<1> HIDE DEF g
<1>5. Sends(g, a, frames, n + 1)
  BY <1>3, <1>4, Zenon DEF Sends
<1>6. QED
  BY <1>5

\* All frames of a list are sent.
LEMMA SendAllSent ==
    ASSUME NEW a \in LinkType, NEW frames \in Seq(Frame)
    PROVE  Sent(a, frames, Len(frames), SendAll(a, frames))
<1> DEFINE n == Len(frames)
           S == {k \in Nat : \E f : Sends(f, a, frames, k)}
<1>1. 0 \in S
  <2>1. Sends([i \in 0..0 |-> a], a, frames, 0)
    BY DEF Sends
  <2>2. QED
    BY <2>1
<1>2. \A k \in Nat : k \in S => k + 1 \in S
  BY SendsStep
<1> HIDE DEF S
<1>3. Nat \subseteq S
  BY <1>1, <1>2, SetInduction
<1>4. n \in Nat
  OBVIOUS
<1>5. \E f : Sends(f, a, frames, n)
  BY <1>3, <1>4 DEF S
<1> DEFINE f == CHOOSE f : Sends(f, a, frames, n)
<1>6. Sends(f, a, frames, n)
  BY <1>5
<1>7. SendAll(a, frames) = f[n]
  BY Zenon DEF SendAll, Sends
<1> HIDE DEF f
<1>8. \A i \in 0..n : f[i] = IF i = 0 THEN a ELSE Send(f[i - 1], frames[i])
  BY <1>6, Zenon DEF Sends
<1> DEFINE P == {k \in Nat : k <= n => Sent(a, frames, k, f[k])}
<1>9. 0 \in P
  <2>1. f[0] = a
    BY <1>4, <1>8
  <2>2. a.queue \in Seq(Frame) /\ Len(a.queue) \in Nat
    BY DEF LinkType
  <2>3. Sent(a, frames, 0, a)
    BY <2>2 DEF Sent, LinkType
  <2>4. QED
    BY <2>1, <2>3
<1>10. \A k \in Nat : k \in P => k + 1 \in P
  <2> SUFFICES ASSUME NEW k \in Nat, k \in P, k + 1 <= n
               PROVE  Sent(a, frames, k + 1, f[k + 1])
    OBVIOUS
  <2>1. Sent(a, frames, k, f[k]) /\ k < Len(frames)
    BY <1>4
  <2>2. f[k + 1] = Send(f[k], frames[k + 1])
    <3>1. k + 1 \in 0..n /\ k + 1 # 0 /\ (k + 1) - 1 = k
      BY <1>4
    <3>2. QED
      BY <1>8, <3>1
  <2>3. QED
    BY <2>1, <2>2, SendOne
<1> HIDE DEF P
<1>11. Nat \subseteq P
  BY <1>9, <1>10, SetInduction
<1>12. QED
  BY <1>4, <1>7, <1>11 DEF P

-----------------------------------------------------------------------------
(* Frames.                                                                 *)

\* What a frame has.
LEMMA FrameFact ==
    \A f \in Frame :
        /\ f.seq \in Nat /\ f.n \in Nat
        /\ f.kind \in {"global", "event", "tail", "failed", "welcome", "resync", "done"}
        /\ f.kind \in {"event", "tail", "failed"} => f.session \in Session
<1> SUFFICES ASSUME NEW f \in Frame
             PROVE  /\ f.seq \in Nat /\ f.n \in Nat
                    /\ f.kind \in {"global", "event", "tail", "failed", "welcome", "resync", "done"}
                    /\ f.kind \in {"event", "tail", "failed"} => f.session \in Session
  OBVIOUS
<1>1. CASE f \in [kind : {"global", "welcome", "resync", "done"}, seq : Nat, n : Nat]
  BY <1>1
<1>2. CASE f \in [kind : {"event", "tail", "failed"}, seq : Nat, n : Nat, session : Session]
  BY <1>2
<1>3. QED
  BY <1>1, <1>2 DEF Frame

\* The frames that are made.
LEMMA Frames ==
    /\ \A q \in Nat : Global(q) \in Frame /\ Welcome(q) \in Frame /\ Resync(q) \in Frame
    /\ ResumeDone \in Frame
    /\ \A s \in Session, e, q \in Nat : Event(s, e, q) \in Frame
    /\ \A s \in Session, e \in Nat : TailFrame(s, e) \in Frame /\ NotFound(s) \in Frame
  BY DEF Global, Welcome, Resync, ResumeDone, Event, TailFrame, NotFound, Frame

\* The initial states.
LEMMA InitHolds == ReplayInit => ReplayInv
<1> SUFFICES ASSUME ReplayInit PROVE ReplayInv
  OBVIOUS
<1>1. StateOK
  <2>1. NoBuffer \in Buffer /\ <<>> \in Seq(Frame)
    BY DEF NoBuffer, Buffer
  <2>2. opening \in [Session -> Buffer]
    BY <2>1 DEF ReplayInit
  <2>3. NoCursor \in [life : Nat, seq : Nat]
    BY DEF NoCursor
  <2>4. mistaken \in BOOLEAN
    BY Zenon DEF ReplayInit
  <2>5. copy \in [Session -> Nat \cup {NoCopy}]
    BY DEF ReplayInit
  <2>6. QED
    BY <2>1, <2>2, <2>3, <2>4, <2>5 DEF ReplayInit, StateOK
<1>2. OpensOK /\ IdleOK
  BY DEF ReplayInit, OpensOK, IdleOK, NoBuffer
<1>3. LogOK /\ SnapshotOK /\ CursorOK
  BY DEF ReplayInit, LogOK, SnapshotOK, CursorOK, NoCopy, NoCursor
<1>4. FramesOK /\ BeginOK /\ OrderOK /\ HeldOK
  BY DEF ReplayInit, FramesOK, BeginOK, OrderOK, HeldOK, NoBuffer
<1>5. LifeOK /\ GlobalsOK
  BY DEF ReplayInit, LifeOK, GlobalsOK
<1>6. AnswersOK /\ KeptOK
  BY DEF ReplayInit, AnswersOK, AnswersOf, KeptOK
<1>7. SinceOK /\ CopiesOK
  BY DEF ReplayInit, SinceOK, CopiesOK
<1>8. QED
  BY <1>1, <1>2, <1>3, <1>4, <1>5, <1>6, <1>7 DEF ReplayInv

\* What the types say of the parts.
Parts ==
    /\ \A t \in Session : /\ appended[t] \in Nat /\ recorded[t] \in Nat
                          /\ copy[t] \in Int /\ NoCopy <= copy[t]
                          /\ copy[t] # NoCopy => copy[t] \in Nat
                          /\ page[t] \in {"none", "asked", "live"}
                          /\ opening[t] \in Buffer /\ opening[t].open \in Nat
                          /\ opening[t].frames \in Seq(Frame)
                          /\ Len(opening[t].frames) \in Nat
    /\ \A r \in reads : /\ r \in Read /\ r.open \in Nat /\ r.open # 0 /\ r.session \in Session
                        /\ r.upTo \in Int /\ NoCopy <= r.upTo
                        /\ r.upTo # NoCopy => r.upTo \in Nat
    /\ toPhone \in Seq(Frame) /\ Len(toPhone) \in Nat /\ log \in Seq(Frame) /\ Len(log) \in Nat
    /\ cursor.life \in Nat /\ cursor.seq \in Nat
    /\ cursor = [life |-> cursor.life, seq |-> cursor.seq]
    /\ NoCopy \in Int /\ NoCopy < 0

\* What a sequence of frames has.
FramesIn(q) ==
    \A i \in 1..Len(q) :
        /\ q[i] \in Frame /\ q[i].seq \in Nat /\ q[i].n \in Nat
        /\ q[i].kind \in {"global", "event", "tail", "failed", "welcome", "resync", "done"}
        /\ q[i].kind \in {"event", "tail", "failed"} => q[i].session \in Session

\* Every queue of frames has frames of the kinds and types there are.
LEMMA FramesInFact == \A q \in Seq(Frame) : FramesIn(q)
  BY FrameFact DEF FramesIn

\* The types of the parts of the state, one by one.
LEMMA PartsFact ==
    ASSUME StateOK
    PROVE  /\ Parts /\ FramesIn(toPhone) /\ FramesIn(log)
           /\ \A t \in Session : FramesIn(opening[t].frames)
<1>1. \A t \in Session : /\ appended[t] \in Nat /\ recorded[t] \in Nat
                         /\ copy[t] \in Nat \cup {NoCopy}
                         /\ page[t] \in {"none", "asked", "live"}
  BY DEF StateOK
<1>2. \A t \in Session : copy[t] \in Int /\ NoCopy <= copy[t] /\ (copy[t] # NoCopy => copy[t] \in Nat)
  BY <1>1 DEF NoCopy
<1>3. \A t \in Session : /\ opening[t] \in Buffer /\ opening[t].open \in Nat
                         /\ opening[t].frames \in Seq(Frame)
                         /\ Len(opening[t].frames) \in Nat
  BY DEF StateOK, Buffer
<1>4. \A r \in reads : r \in Read
  BY DEF StateOK
<1>5. \A r \in Read : /\ r.open \in Nat /\ r.open # 0 /\ r.session \in Session
                      /\ r.upTo \in Nat \cup {NoCopy}
  BY DEF Read
<1>6. \A r \in Read : r.upTo \in Int /\ NoCopy <= r.upTo /\ (r.upTo # NoCopy => r.upTo \in Nat)
  BY <1>5 DEF NoCopy
<1>7. toPhone \in Seq(Frame) /\ Len(toPhone) \in Nat /\ log \in Seq(Frame) /\ Len(log) \in Nat
  BY DEF StateOK
<1>8. /\ cursor.life \in Nat /\ cursor.seq \in Nat
      /\ cursor = [life |-> cursor.life, seq |-> cursor.seq]
  BY DEF StateOK
<1>9. NoCopy \in Int /\ NoCopy < 0
  BY DEF NoCopy
<1>10. Parts
  BY <1>1, <1>2, <1>3, <1>4, <1>5, <1>6, <1>7, <1>8, <1>9 DEF Parts
<1>11. QED
  BY <1>3, <1>7, <1>10, FramesInFact

\* No answer to an open of s is under way: neither a reader nor a frame.
LEMMA AwaitedFact ==
    ASSUME StateOK, NEW s
    PROVE  ~Awaited(s, toPhone) => /\ \A r \in reads : r.session # s
                                   /\ \A i \in 1..Len(toPhone) : ~Holds(toPhone, i, Answers, s)
<1>1. DOMAIN toPhone = 1..Len(toPhone)
  BY DEF StateOK
<1>2. QED
  BY <1>1 DEF Awaited, Holds, Answers

-----------------------------------------------------------------------------
(* Steps that send nothing.                                                *)

\* The host appends an event.
LEMMA HostAppendsStep ==
    ASSUME ReplayInv, NEW s \in Session, HostAppends(s)
    PROVE  ReplayInv'
<1>1. StateOK /\ LogOK /\ SnapshotOK
  BY DEF ReplayInv
<1>0. Parts /\ FramesIn(toPhone)
  BY <1>1, PartsFact
<1>2. /\ appended' = [appended EXCEPT ![s] = @ + 1]
      /\ life' = life /\ recorded' = recorded /\ log' = log
      /\ status' = status /\ watch' = watch /\ opened' = opened /\ opening' = opening
      /\ reads' = reads /\ toPhone' = toPhone
      /\ cursor' = cursor /\ copy' = copy /\ page' = page /\ base' = base /\ got' = got
      /\ conns' = conns /\ opens' = opens
      /\ discarded' = discarded /\ overtaken' = overtaken /\ replaced' = replaced
      /\ mistaken' = mistaken
  BY DEF HostAppends, bridge, connection, phone, losses
<1>3. appended' \in [Session -> Nat] /\ \A t \in Session : appended[t] <= appended'[t]
  BY <1>1, <1>2 DEF StateOK
<1>4. StateOK'
  BY <1>1, <1>2, <1>3 DEF StateOK
<1>5. LogOK'
  <2>1. \A t \in Session : recorded'[t] <= appended'[t]
    BY <1>1, <1>2, <1>3 DEF StateOK, LogOK
  <2>2. QED
    BY <1>1, <1>2, <2>1 DEF LogOK
<1>6. SnapshotOK'
  <2>0. \A t \in Session : appended'[t] \in Nat /\ appended[t] \in Nat
    BY <1>1, <1>3 DEF StateOK
  <2>1. \A t \in Session : copy[t] <= appended'[t]
    BY <1>0, <1>1, <1>3, <2>0 DEF Parts, SnapshotOK
  <2>2. \A r \in reads : r.upTo <= appended'[r.session]
    BY <1>0, <1>1, <1>3, <2>0 DEF Parts, SnapshotOK
  <2>3. \A j \in 1..Len(toPhone) :
            toPhone[j].kind = "tail" => toPhone[j].n <= appended'[toPhone[j].session]
    <3> SUFFICES ASSUME NEW j \in 1..Len(toPhone), toPhone[j].kind = "tail"
                 PROVE  toPhone[j].n <= appended'[toPhone[j].session]
      OBVIOUS
    <3>1. toPhone[j].session \in Session /\ toPhone[j].n \in Nat
      BY <1>0 DEF FramesIn
    <3>2. toPhone[j].n <= appended[toPhone[j].session]
      BY <1>1 DEF SnapshotOK
    <3>3. QED
      BY <1>3, <2>0, <3>1, <3>2
  <2>4. QED
    BY <1>2, <2>1, <2>2, <2>3 DEF SnapshotOK
<1>7. OpensOK' /\ IdleOK' /\ CursorOK' /\ KeptOK'
  BY <1>2 DEF ReplayInv, OpensOK, IdleOK, CursorOK, KeptOK, Holds
<1>8. FramesOK' /\ BeginOK' /\ OrderOK' /\ HeldOK'
  BY <1>2 DEF ReplayInv, FramesOK, BeginOK, OrderOK, HeldOK, Holds
<1>9. LifeOK' /\ GlobalsOK'
  BY <1>2 DEF ReplayInv, LifeOK, GlobalsOK, Resyncs, Renews, Due, Has
<1>10. AnswersOK' /\ SinceOK'
  BY <1>2 DEF ReplayInv, AnswersOK, AnswersOf, SinceOK, Since, Holds
<1>11. CopiesOK'
  BY <1>2 DEF ReplayInv, CopiesOK, CopyOf, Safe, EventIn, Held, UnderWay, Late, Resyncs, Due, Holds
<1>12. QED
  BY <1>4, <1>5, <1>6, <1>7, <1>8, <1>9, <1>10, <1>11 DEF ReplayInv

\* A phone asks for a session: a new buffer, and a reader of its own.
LEMMA PhoneOpensStep ==
    ASSUME ReplayInv, NEW s \in Session, PhoneOpens(s)
    PROVE  ReplayInv'
<1> DEFINE new == [open |-> opens + 1, session |-> s, upTo |-> NoCopy]
           buffer == [open |-> opens + 1, frames |-> <<>>]
<1>1. StateOK /\ OpensOK /\ AnswersOK /\ CopiesOK
  BY DEF ReplayInv
<1>2. Parts /\ opens \in Nat
  BY <1>1, PartsFact DEF StateOK
<1>3. /\ appended' = appended /\ life' = life /\ recorded' = recorded /\ log' = log
      /\ status' = status /\ watch' = watch /\ opened' = opened /\ toPhone' = toPhone
      /\ cursor' = cursor /\ copy' = copy /\ base' = base /\ got' = got
      /\ conns' = conns /\ overtaken' = overtaken /\ mistaken' = mistaken
      /\ opens' = opens + 1 /\ status # "none"
      /\ reads' = reads \cup {new}
      /\ opening' = [opening EXCEPT ![s] = buffer]
      /\ page' = [page EXCEPT ![s] = IF @ = "none" THEN "asked" ELSE @]
  BY DEF PhoneOpens, bridge, SetBuffer
<1>4. /\ replaced \subseteq replaced' /\ replaced' \subseteq Session
      /\ discarded \subseteq discarded' /\ discarded' \subseteq Session
      /\ s \notin replaced' => ~Awaited(s, toPhone)
      /\ s \notin discarded' => opening[s].frames = <<>>
  BY <1>1 DEF PhoneOpens, NoteReplaced, SetBuffer, StateOK
<1>5. /\ buffer \in Buffer /\ new \in Read /\ buffer.open = opens + 1 /\ buffer.frames = <<>>
      /\ new.open = opens + 1 /\ new.session = s /\ new.upTo = NoCopy
  BY <1>2 DEF Buffer, Read
<1> HIDE DEF new, buffer
<1>6. /\ opening'[s] = buffer /\ \A t \in Session : t # s => opening'[t] = opening[t]
      /\ \A t \in Session : t # s => page'[t] = page[t]
      /\ page'[s] = IF page[s] = "none" THEN "asked" ELSE page[s]
  BY <1>1, <1>3 DEF StateOK
<1>7. StateOK'
  <2>1. opening' \in [Session -> Buffer] /\ page' \in [Session -> {"none", "asked", "live"}]
    BY <1>1, <1>3, <1>5 DEF StateOK
  <2>2. QED
    BY <1>1, <1>3, <1>4, <1>5, <2>1 DEF StateOK
<1>8. OpensOK'
  <2>1. \A r \in reads : r.open <= opens /\ r.open # opens + 1
    BY <1>1, <1>2 DEF OpensOK, Parts
  <2>2. \A r \in reads' : r.open <= opens'
    BY <1>2, <1>3, <1>5, <2>1 DEF Parts
  <2>3. \A r1, r2 \in reads' : r1.open = r2.open => r1 = r2
    BY <1>1, <1>3, <1>5, <2>1 DEF OpensOK
  <2>4. ASSUME NEW t \in Session
        PROVE  IF opening'[t].open = 0 THEN opening'[t] = NoBuffer
               ELSE page'[t] # "none" /\ \E r \in reads' : r.session = t /\ r.open = opening'[t].open
    <3>1. CASE t = s
      <4>1. opening'[t].open = opens + 1 /\ opens + 1 # 0 /\ page'[t] # "none"
        BY <1>2, <1>5, <1>6, <3>1
      <4>2. new \in reads' /\ new.session = t /\ new.open = opening'[t].open
        BY <1>3, <1>5, <3>1, <4>1
      <4>3. QED
        BY <4>1, <4>2
    <3>2. CASE t # s
      BY <1>1, <1>3, <1>6, <3>2 DEF OpensOK
    <3>3. QED
      BY <3>1, <3>2
  <2>5. ASSUME status' = "open", NEW t \in opened'
        PROVE  \/ page'[t] = "live"
               \/ page'[t] = "asked" /\ \E i \in 1..Len(toPhone') : Holds(toPhone', i, {"tail"}, t)
    <3>1. \/ page[t] = "live"
          \/ page[t] = "asked" /\ \E i \in 1..Len(toPhone) : Holds(toPhone, i, {"tail"}, t)
      BY <1>1, <1>3, <2>5 DEF OpensOK
    <3>2. page'[t] = page[t]
      <4>1. t \in Session
        BY <1>1, <1>3 DEF StateOK
      <4>2. QED
        BY <1>6, <3>1, <4>1
    <3>3. QED
      BY <1>3, <3>1, <3>2 DEF Holds
  <2>6. QED
    BY <2>2, <2>3, <2>4, <2>5 DEF OpensOK
<1>9. IdleOK'
  BY <1>3 DEF IdleOK
<1>10. LogOK' /\ CursorOK'
  BY <1>3 DEF ReplayInv, LogOK, CursorOK
<1>11. SnapshotOK'
  <2>1. new.upTo <= appended[new.session]
    BY <1>2, <1>5 DEF Parts
  <2>2. QED
    BY <1>3, <2>1 DEF ReplayInv, SnapshotOK
<1>12. FramesOK' /\ BeginOK' /\ OrderOK'
  BY <1>3 DEF ReplayInv, FramesOK, BeginOK, OrderOK
<1>13. HeldOK'
  <2>1. Len(opening'[s].frames) = 0
    BY <1>5, <1>6
  <2>2. QED
    BY <1>3, <1>6, <2>1 DEF ReplayInv, HeldOK, Holds
<1>14. LifeOK' /\ GlobalsOK'
  BY <1>3 DEF ReplayInv, LifeOK, GlobalsOK, Resyncs, Renews, Due, Has
<1>15. AnswersOK'
  <2> SUFFICES ASSUME NEW t \in Session, t \notin replaced' PROVE AnswersOf(t)'
    BY DEF AnswersOK
  <2>1. CASE t = s
    <3>1. (\A r \in reads : r.session # t) /\ \A i \in 1..Len(toPhone) : ~Holds(toPhone, i, Answers, t)
      BY <1>1, <1>4, <2>1, AwaitedFact
    <3>2. \A r \in reads' : r.session = t => r = new
      BY <1>3, <3>1
    <3>3. page'[t] = "live" => page[t] = "live"
      BY <1>6, <2>1
    <3>4. page[t] = "live" => t \in opened
      BY <1>1, <1>4 DEF AnswersOK, AnswersOf
    <3>5. QED
      BY <1>3, <1>5, <1>6, <2>1, <3>1, <3>2, <3>3, <3>4 DEF AnswersOf, Holds
  <2>2. CASE t # s
    <3>1. \A r \in reads' : r.session = t => r \in reads
      BY <1>3, <1>5, <2>2
    <3>2. t \in Session \ replaced /\ opening'[t] = opening[t] /\ page'[t] = page[t]
      BY <1>4, <1>6, <2>2
    <3>3. AnswersOf(t)
      BY <1>1, <3>2 DEF AnswersOK
    <3>4. QED
      BY <1>3, <3>1, <3>2, <3>3 DEF AnswersOf, Holds
  <2>3. QED
    BY <2>1, <2>2
<1>16. KeptOK'
  <2>1. \A t \in Session : page[t] = "live" => page'[t] = "live"
    BY <1>6
  <2>2. QED
    BY <1>3, <2>1 DEF ReplayInv, KeptOK
<1>17. SinceOK'
  BY <1>3, <1>5 DEF ReplayInv, SinceOK, Since
<1>18. CopiesOK'
  <2>1. Safe' \subseteq Safe
    BY <1>3, <1>4 DEF Safe
  <2>2. \A t \in Safe' : \A x : Held(x, t) => Held(x, t)'
    <3> SUFFICES ASSUME NEW t \in Safe', NEW x, Held(x, t) PROVE Held(x, t)'
      OBVIOUS
    <3>1. t \in Session /\ t \notin discarded'
      BY DEF Safe
    <3>2. t # s
      <4>1. t = s => Len(opening[t].frames) = 0
        BY <1>4, <3>1
      <4>2. QED
        BY <4>1 DEF Held
    <3>3. QED
      BY <1>6, <3>1, <3>2 DEF Held
  <2>3. \A x : Due(x)' = Due(x) /\ Late(x)' = Late(x) /\ Resyncs' = Resyncs
    BY <1>3 DEF Due, Late, Resyncs
  <2>4. \A t \in Safe' : \A x : UnderWay(x, t) => UnderWay(x, t)'
    BY <1>3, <2>2 DEF UnderWay
  <2>5. ASSUME NEW t \in Safe', NEW x \in 1..Len(log), EventIn(x, t)
        PROVE  CopyOf(t, x)'
    <3>1. \A r \in reads' : r.upTo # NoCopy => r \in reads
      BY <1>3, <1>5
    <3>2. CopyOf(t, x)
      BY <1>1, <2>1, <2>5 DEF CopiesOK
    <3>3. QED
      BY <1>3, <2>2, <2>3, <2>4, <3>1, <3>2 DEF CopyOf, Holds
  <2>6. QED
    BY <1>3, <2>5 DEF CopiesOK, EventIn
<1>19. QED
  BY <1>7, <1>8, <1>9, <1>10, <1>11, <1>12, <1>13, <1>14, <1>15, <1>16, <1>17, <1>18 DEF ReplayInv

\* The host takes the snapshot for an open.
LEMMA HostReadsStep ==
    ASSUME ReplayInv, NEW r \in reads, HostReads(r)
    PROVE  ReplayInv'
<1> DEFINE s == r.session
           new == [r EXCEPT !.upTo = appended[s]]
<1>1. StateOK /\ OpensOK /\ AnswersOK /\ CopiesOK /\ SnapshotOK /\ LogOK
  BY DEF ReplayInv
<1>2. Parts /\ FramesIn(toPhone) /\ FramesIn(log) /\ s \in Session
  BY <1>1, PartsFact DEF Parts
<1>3. /\ appended' = appended /\ life' = life /\ recorded' = recorded /\ log' = log
      /\ status' = status /\ watch' = watch /\ opened' = opened /\ opening' = opening
      /\ toPhone' = toPhone
      /\ cursor' = cursor /\ copy' = copy /\ page' = page /\ base' = base /\ got' = got
      /\ conns' = conns /\ opens' = opens
      /\ discarded' = discarded /\ overtaken' = overtaken /\ replaced' = replaced
      /\ mistaken' = mistaken
      /\ reads' = (reads \ {r}) \cup {new} /\ r.upTo = NoCopy
  BY DEF HostReads, bridge, phone, losses
<1>4. /\ new \in Read /\ new.open = r.open /\ new.session = s /\ new.upTo = appended[s]
      /\ r \in Read /\ appended[s] \in Nat
  BY <1>1, <1>2 DEF StateOK, Read, Parts
<1> HIDE DEF new
<1>5. StateOK'
  BY <1>1, <1>3, <1>4 DEF StateOK
<1>6. OpensOK'
  <2>1. \A r1 \in reads' : r1.open <= opens
    BY <1>1, <1>3, <1>4 DEF OpensOK
  <2>2. \A r1, r2 \in reads' : r1.open = r2.open => r1 = r2
    BY <1>1, <1>3, <1>4 DEF OpensOK
  <2>3. \A r1 \in reads : \E r2 \in reads' : r2.session = r1.session /\ r2.open = r1.open
    BY <1>3, <1>4
  <2>4. QED
    BY <1>1, <1>3, <2>1, <2>2, <2>3 DEF OpensOK, Holds
<1>7. IdleOK'
  <2>1. status # "none"
    BY DEF ReplayInv, IdleOK
  <2>2. QED
    BY <1>3, <2>1 DEF IdleOK
<1>8. LogOK' /\ CursorOK' /\ KeptOK'
  BY <1>3 DEF ReplayInv, LogOK, CursorOK, KeptOK
<1>9. SnapshotOK'
  BY <1>1, <1>3, <1>4 DEF SnapshotOK
<1>10. FramesOK' /\ BeginOK' /\ OrderOK' /\ HeldOK'
  BY <1>3 DEF ReplayInv, FramesOK, BeginOK, OrderOK, HeldOK, Holds
<1>11. LifeOK' /\ GlobalsOK'
  BY <1>3 DEF ReplayInv, LifeOK, GlobalsOK, Resyncs, Renews, Due, Has
<1>12. AnswersOK'
  <2> SUFFICES ASSUME NEW t \in Session, t \notin replaced PROVE AnswersOf(t)'
    BY <1>3 DEF AnswersOK
  <2>1. AnswersOf(t)
    BY <1>1 DEF AnswersOK
  <2>2. CASE t = s
    <3>1. \A i \in 1..Len(toPhone) : Holds(toPhone, i, {"event"}, t) => toPhone[i].n <= appended[t]
      <4> SUFFICES ASSUME NEW i \in 1..Len(toPhone), Holds(toPhone, i, {"event"}, t)
                   PROVE  toPhone[i].n <= appended[t]
        OBVIOUS
      <4>1. /\ toPhone[i].seq \in 1..Len(log) /\ toPhone[i] = log[toPhone[i].seq]
            /\ toPhone[i].kind = "event" /\ toPhone[i].session = t /\ toPhone[i].n \in Nat
        BY <1>2 DEF ReplayInv, FramesOK, FramesIn, Holds, Numbered
      <4>2. toPhone[i].n <= recorded[t] /\ recorded[t] <= appended[t]
        BY <1>1, <4>1 DEF LogOK
      <4>3. QED
        BY <1>2, <4>1, <4>2 DEF Parts
    <3>2. copy[t] <= appended[t]
      BY <1>1 DEF SnapshotOK
    <3>3. \A r1 \in reads' : r1.session = t => r1 = new
      BY <1>3, <2>1, <2>2 DEF AnswersOf
    <3>4. /\ opening[t].open = new.open
          /\ \A i \in 1..Len(toPhone) : ~Holds(toPhone, i, Answers, t)
      BY <1>4, <2>1, <2>2 DEF AnswersOf
    <3>5. page[t] = "live" => t \in opened
      BY <2>1 DEF AnswersOf
    <3>6. QED
      BY <1>3, <1>4, <2>2, <3>1, <3>2, <3>3, <3>4, <3>5 DEF AnswersOf, Holds
  <2>3. CASE t # s
    <3>1. \A r1 \in reads' : r1.session = t => r1 \in reads
      BY <1>3, <1>4, <2>3
    <3>2. QED
      BY <1>3, <2>1, <3>1 DEF AnswersOf, Holds
  <2>4. QED
    BY <2>2, <2>3
<1>13. SinceOK'
  <2>1. Since(s, appended[s])
    <3>1. recorded[s] <= appended[s] /\ recorded[s] \in Nat /\ appended[s] \in Nat
      BY <1>1, <1>2 DEF LogOK, Parts
    <3>2. QED
      BY <3>1 DEF Since
  <2>2. \A r1 \in reads' : r1.upTo # NoCopy => Since(r1.session, r1.upTo)
    BY <1>3, <1>4, <2>1 DEF ReplayInv, SinceOK
  <2>3. QED
    BY <1>3, <2>2 DEF ReplayInv, SinceOK, Since
<1>14. CopiesOK'
  <2>1. ASSUME NEW t \in Safe, NEW x \in 1..Len(log), EventIn(x, t)
        PROVE  CopyOf(t, x)'
    <3>1. CopyOf(t, x)
      BY <1>1, <2>1 DEF CopiesOK
    <3>2. t = s => ~(new.upTo < log[x].n)
      <4> SUFFICES ASSUME t = s PROVE ~(appended[s] < log[x].n)
        BY <1>4
      <4>1. log[x].n <= recorded[s] /\ recorded[s] <= appended[s]
        BY <1>1, <1>2, <2>1 DEF LogOK, EventIn
      <4>2. log[x].n \in Nat /\ recorded[s] \in Nat /\ appended[s] \in Nat
        BY <1>2 DEF FramesIn, Parts
      <4>3. QED
        BY <4>1, <4>2
    <3>3. \A y, z : Held(y, z)' = Held(y, z) /\ UnderWay(y, z)' = UnderWay(y, z)
      BY <1>3 DEF Held, UnderWay
    <3>4. \A y : Due(y)' = Due(y) /\ Late(y)' = Late(y) /\ Resyncs' = Resyncs
      BY <1>3 DEF Due, Late, Resyncs
    <3>5. \A r1 \in reads' : /\ r1.session = t /\ r1.upTo # NoCopy /\ r1.upTo < log[x].n
                             => Held(x, t)
      BY <1>3, <1>4, <3>1, <3>2 DEF CopyOf
    <3>6. QED
      BY <1>3, <3>1, <3>3, <3>4, <3>5 DEF CopyOf, Holds
  <2>2. Safe' = Safe
    BY <1>3 DEF Safe
  <2>3. QED
    BY <1>3, <2>1, <2>2 DEF CopiesOK, EventIn
<1>15. QED
  BY <1>5, <1>6, <1>7, <1>8, <1>9, <1>10, <1>11, <1>12, <1>13, <1>14 DEF ReplayInv

\* A phone keeps the copies of what it watches or shows live, and drops the others.
LEMMA KeptFact ==
    ASSUME StateOK, NEW w, NEW pages
    PROVE  /\ KeptCopies(w, pages) \in [Session -> Nat \cup {NoCopy}]
           /\ \A t \in Session : /\ KeptCopies(w, pages)[t] \in {copy[t], NoCopy}
                                 /\ KeptCopies(w, pages)[t] <= copy[t]
                                 /\ KeptCopies(w, pages)[t] # NoCopy =>
                                       t \in w \/ pages[t] = "live"
<1>1. \A t \in Session : copy[t] \in Nat \cup {NoCopy} /\ copy[t] \in Int /\ NoCopy <= copy[t]
  BY PartsFact DEF StateOK, Parts
<1>2. \A t \in Session : KeptCopies(w, pages)[t] =
          IF t \in w \/ pages[t] = "live" THEN copy[t] ELSE NoCopy
  BY DEF KeptCopies
<1>3. KeptCopies(w, pages) \in [Session -> Nat \cup {NoCopy}]
  BY <1>1 DEF KeptCopies
<1>4. QED
  BY <1>1, <1>2, <1>3

\* The phone leaves a page.
LEMMA PhoneClosesStep ==
    ASSUME ReplayInv, NEW s \in Session, PhoneCloses(s)
    PROVE  ReplayInv'
<1>1. StateOK /\ OpensOK /\ AnswersOK /\ CopiesOK /\ SnapshotOK
  BY DEF ReplayInv
<1>2. Parts /\ FramesIn(toPhone)
  BY <1>1, PartsFact
<1>3. /\ appended' = appended /\ life' = life /\ recorded' = recorded /\ log' = log
      /\ status' = status /\ watch' = watch /\ toPhone' = toPhone /\ reads' = reads
      /\ cursor' = cursor /\ base' = base /\ got' = got
      /\ conns' = conns /\ opens' = opens /\ overtaken' = overtaken /\ mistaken' = mistaken
      /\ status # "none"
      /\ opened' = opened \ {s}
      /\ opening' = [opening EXCEPT ![s] = NoBuffer]
      /\ page' = [page EXCEPT ![s] = "none"]
      /\ copy' = KeptCopies(watch, page')
  BY DEF PhoneCloses, bridge, SetBuffer
<1>4. /\ replaced \subseteq replaced' /\ replaced' \subseteq Session
      /\ discarded \subseteq discarded' /\ discarded' \subseteq Session
      /\ s \notin replaced' => ~Awaited(s, toPhone)
      /\ s \notin discarded' => opening[s].frames = <<>>
  BY <1>1 DEF PhoneCloses, NoteReplaced, SetBuffer, StateOK
<1>5. /\ opening'[s] = NoBuffer /\ \A t \in Session : t # s => opening'[t] = opening[t]
      /\ page'[s] = "none" /\ \A t \in Session : t # s => page'[t] = page[t]
      /\ NoBuffer \in Buffer /\ NoBuffer.open = 0 /\ NoBuffer.frames = <<>>
  BY <1>1, <1>3 DEF StateOK, NoBuffer, Buffer
<1>6. /\ copy' \in [Session -> Nat \cup {NoCopy}]
      /\ \A t \in Session : /\ copy'[t] \in {copy[t], NoCopy} /\ copy'[t] <= copy[t]
                            /\ copy'[t] # NoCopy => t \in watch \/ page'[t] = "live"
                            /\ copy'[t] \in Int /\ copy[t] \in Int
  <2>1. copy' \in [Session -> Nat \cup {NoCopy}]
    BY <1>1, <1>3, KeptFact
  <2>2. \A t \in Session : /\ copy'[t] \in {copy[t], NoCopy} /\ copy'[t] <= copy[t]
                           /\ copy'[t] # NoCopy => t \in watch \/ page'[t] = "live"
    BY <1>1, <1>3, KeptFact
  <2>3. QED
    BY <1>2, <2>1, <2>2 DEF Parts
<1>7. StateOK'
  <2>1. opening' \in [Session -> Buffer] /\ page' \in [Session -> {"none", "asked", "live"}]
    BY <1>1, <1>3, <1>5 DEF StateOK
  <2>2. opened' \subseteq Session
    BY <1>1, <1>3 DEF StateOK
  <2>3. QED
    BY <1>1, <1>3, <1>4, <1>6, <2>1, <2>2 DEF StateOK
<1>8. OpensOK'
  <2>1. ASSUME NEW t \in Session
        PROVE  IF opening'[t].open = 0 THEN opening'[t] = NoBuffer
               ELSE page'[t] # "none" /\ \E r \in reads : r.session = t /\ r.open = opening'[t].open
    BY <1>1, <1>5 DEF OpensOK
  <2>2. ASSUME status = "open", NEW t \in opened'
        PROVE  \/ page'[t] = "live"
               \/ page'[t] = "asked" /\ \E i \in 1..Len(toPhone) : Holds(toPhone, i, {"tail"}, t)
    <3>1. \/ page[t] = "live"
          \/ page[t] = "asked" /\ \E i \in 1..Len(toPhone) : Holds(toPhone, i, {"tail"}, t)
      BY <1>1, <1>3, <2>2 DEF OpensOK
    <3>2. page'[t] = page[t]
      BY <1>1, <1>3, <1>5 DEF StateOK
    <3>3. QED
      BY <3>1, <3>2
  <2>3. QED
    BY <1>1, <1>3, <2>1, <2>2 DEF OpensOK, Holds
<1>9. IdleOK'
  BY <1>3 DEF IdleOK
<1>10. LogOK'
  BY <1>3 DEF ReplayInv, LogOK
<1>11. SnapshotOK'
  <2>1. \A t \in Session : copy'[t] <= appended[t]
    BY <1>1, <1>2, <1>6 DEF SnapshotOK, Parts
  <2>2. QED
    BY <1>1, <1>3, <2>1 DEF SnapshotOK
<1>12. CursorOK'
  BY <1>3, <1>6 DEF ReplayInv, CursorOK
<1>13. FramesOK' /\ BeginOK' /\ OrderOK'
  BY <1>3 DEF ReplayInv, FramesOK, BeginOK, OrderOK
<1>14. HeldOK'
  <2>1. Len(opening'[s].frames) = 0
    BY <1>5
  <2>2. QED
    BY <1>3, <1>5, <2>1 DEF ReplayInv, HeldOK, Holds
<1>15. LifeOK' /\ GlobalsOK'
  BY <1>3 DEF ReplayInv, LifeOK, GlobalsOK, Resyncs, Renews, Due, Has
<1>16. AnswersOK'
  <2> SUFFICES ASSUME NEW t \in Session, t \notin replaced' PROVE AnswersOf(t)'
    BY DEF AnswersOK
  <2>1. AnswersOf(t)
    BY <1>1, <1>4 DEF AnswersOK
  <2>2. CASE t = s
    <3>1. (\A r \in reads : r.session # t) /\ \A i \in 1..Len(toPhone) : ~Holds(toPhone, i, Answers, t)
      BY <1>1, <1>4, <2>2, AwaitedFact
    <3>2. QED
      BY <1>3, <1>5, <2>2, <3>1 DEF AnswersOf, Holds
  <2>3. CASE t # s
    <3>1. \A n \in Int : copy[t] <= n => copy'[t] <= n
      BY <1>6
    <3>2. \A r \in reads : r.upTo \in Int
      BY <1>2 DEF Parts
    <3>3. \A i \in 1..Len(toPhone) : toPhone[i].n \in Int
      BY <1>2 DEF FramesIn
    <3>4. opening'[t] = opening[t] /\ page'[t] = page[t] /\ (t \in opened => t \in opened')
      BY <1>3, <1>5, <2>3
    <3>5. QED
      BY <1>3, <2>1, <3>1, <3>2, <3>3, <3>4 DEF AnswersOf, Holds
  <2>4. QED
    BY <2>2, <2>3
<1>17. KeptOK'
  BY <1>3, <1>6 DEF KeptOK
<1>18. SinceOK'
  <2>1. \A t \in Session : copy'[t] # NoCopy => copy'[t] = copy[t]
    BY <1>6
  <2>2. SinceOK
    BY DEF ReplayInv
  <2>3. \A t, e : Since(t, e)' = Since(t, e)
    BY <1>3 DEF Since
  <2>4. QED
    BY <1>3, <2>1, <2>2, <2>3 DEF SinceOK
<1>19. CopiesOK'
  <2>1. Safe' \subseteq Safe
    BY <1>3, <1>4 DEF Safe
  <2>2. \A t \in Safe' : \A x : Held(x, t) => Held(x, t)'
    <3> SUFFICES ASSUME NEW t \in Safe', NEW x, Held(x, t) PROVE Held(x, t)'
      OBVIOUS
    <3>1. t \in Session /\ t \notin discarded'
      BY DEF Safe
    <3>2. t # s
      <4>1. t = s => Len(opening[t].frames) = 0
        BY <1>4, <3>1
      <4>2. QED
        BY <4>1 DEF Held
    <3>3. QED
      BY <1>5, <3>1, <3>2 DEF Held
  <2>3. \A x : Due(x)' = Due(x) /\ Late(x)' = Late(x) /\ Resyncs' = Resyncs
    BY <1>3 DEF Due, Late, Resyncs
  <2>4. \A t \in Safe' : \A x : UnderWay(x, t) => UnderWay(x, t)'
    BY <1>3, <2>2 DEF UnderWay
  <2>5. ASSUME NEW t \in Safe', NEW x \in 1..Len(log), EventIn(x, t)
        PROVE  CopyOf(t, x)'
    <3>1. t \in Session
      BY DEF Safe
    <3>2. CopyOf(t, x)
      BY <1>1, <2>1, <2>5 DEF CopiesOK
    <3>3. copy'[t] # NoCopy => copy'[t] = copy[t]
      BY <1>6, <3>1
    <3>4. QED
      BY <1>3, <2>2, <2>3, <2>4, <3>2, <3>3 DEF CopyOf, Holds
  <2>6. QED
    BY <1>3, <2>5 DEF CopiesOK, EventIn
<1>20. QED
  BY <1>7, <1>8, <1>9, <1>10, <1>11, <1>12, <1>13, <1>14, <1>15, <1>16, <1>17, <1>18, <1>19 DEF ReplayInv

\* The phone watches other sessions.
LEMMA PhoneWatchesStep ==
    ASSUME ReplayInv, NEW w \in SUBSET Session, PhoneWatches(w)
    PROVE  ReplayInv'
<1>1. StateOK /\ OpensOK /\ AnswersOK /\ CopiesOK /\ SnapshotOK
  BY DEF ReplayInv
<1>2. Parts /\ FramesIn(toPhone)
  BY <1>1, PartsFact
<1>3. /\ appended' = appended /\ life' = life /\ recorded' = recorded /\ log' = log
      /\ status' = status /\ opened' = opened /\ opening' = opening
      /\ toPhone' = toPhone /\ reads' = reads
      /\ cursor' = cursor /\ page' = page /\ base' = base /\ got' = got
      /\ conns' = conns /\ opens' = opens
      /\ discarded' = discarded /\ overtaken' = overtaken /\ replaced' = replaced
      /\ mistaken' = mistaken
      /\ status # "none" /\ watch' = w
      /\ copy' = KeptCopies(w, page)
  BY DEF PhoneWatches, bridge, losses
<1>4. /\ copy' \in [Session -> Nat \cup {NoCopy}]
      /\ \A t \in Session : /\ copy'[t] \in {copy[t], NoCopy} /\ copy'[t] <= copy[t]
                            /\ copy'[t] # NoCopy => t \in watch' \/ page[t] = "live"
                            /\ copy'[t] \in Int /\ copy[t] \in Int
  <2>1. copy' \in [Session -> Nat \cup {NoCopy}]
    BY <1>1, <1>3, KeptFact
  <2>2. \A t \in Session : /\ copy'[t] \in {copy[t], NoCopy} /\ copy'[t] <= copy[t]
                           /\ copy'[t] # NoCopy => t \in watch' \/ page[t] = "live"
    BY <1>1, <1>3, KeptFact
  <2>3. QED
    BY <1>2, <2>1, <2>2 DEF Parts
<1>5. StateOK'
  BY <1>1, <1>3, <1>4 DEF StateOK
<1>6. OpensOK' /\ IdleOK' /\ LogOK'
  BY <1>3 DEF ReplayInv, OpensOK, IdleOK, LogOK, Holds
<1>7. SnapshotOK'
  <2>1. \A t \in Session : copy'[t] <= appended[t]
    BY <1>1, <1>2, <1>4 DEF SnapshotOK, Parts
  <2>2. QED
    BY <1>1, <1>3, <2>1 DEF SnapshotOK
<1>8. CursorOK'
  BY <1>3, <1>4 DEF ReplayInv, CursorOK
<1>9. FramesOK' /\ BeginOK' /\ OrderOK' /\ HeldOK'
  BY <1>3 DEF ReplayInv, FramesOK, BeginOK, OrderOK, HeldOK, Holds
<1>10. LifeOK' /\ GlobalsOK'
  BY <1>3 DEF ReplayInv, LifeOK, GlobalsOK, Resyncs, Renews, Due, Has
<1>11. AnswersOK'
  <2> SUFFICES ASSUME NEW t \in Session, t \notin replaced PROVE AnswersOf(t)'
    BY <1>3 DEF AnswersOK
  <2>1. AnswersOf(t)
    BY <1>1 DEF AnswersOK
  <2>2. \A n \in Int : copy[t] <= n => copy'[t] <= n
    BY <1>4
  <2>3. \A r \in reads : r.upTo \in Int
    BY <1>2 DEF Parts
  <2>4. \A i \in 1..Len(toPhone) : toPhone[i].n \in Int
    BY <1>2 DEF FramesIn
  <2>5. QED
    BY <1>3, <2>1, <2>2, <2>3, <2>4 DEF AnswersOf, Holds
<1>12. KeptOK'
  BY <1>3, <1>4 DEF KeptOK
<1>13. SinceOK'
  <2>1. \A t \in Session : copy'[t] # NoCopy => copy'[t] = copy[t]
    BY <1>4
  <2>2. SinceOK
    BY DEF ReplayInv
  <2>3. \A t, e : Since(t, e)' = Since(t, e)
    BY <1>3 DEF Since
  <2>4. QED
    BY <1>3, <2>1, <2>2, <2>3 DEF SinceOK
<1>14. CopiesOK'
  <2>1. \A x : Due(x)' = Due(x) /\ Late(x)' = Late(x) /\ Resyncs' = Resyncs
    BY <1>3 DEF Due, Late, Resyncs
  <2>2. \A x, t : Held(x, t)' = Held(x, t) /\ UnderWay(x, t)' = UnderWay(x, t)
    BY <1>3 DEF Held, UnderWay
  <2>3. ASSUME NEW t \in Safe, NEW x \in 1..Len(log), EventIn(x, t)
        PROVE  CopyOf(t, x)'
    <3>1. t \in Session
      BY DEF Safe
    <3>2. CopyOf(t, x)
      BY <1>1, <2>3 DEF CopiesOK
    <3>3. copy'[t] # NoCopy => copy'[t] = copy[t]
      BY <1>4, <3>1
    <3>4. QED
      BY <1>3, <2>1, <2>2, <3>2, <3>3 DEF CopyOf, Holds
  <2>4. Safe' = Safe
    BY <1>3 DEF Safe
  <2>5. QED
    BY <1>3, <2>3, <2>4 DEF CopiesOK, EventIn
<1>15. QED
  BY <1>5, <1>6, <1>7, <1>8, <1>9, <1>10, <1>11, <1>12, <1>13, <1>14 DEF ReplayInv

-----------------------------------------------------------------------------
(* A connection ends.                                                      *)

\* Nothing of the connection is left.
Gone == /\ status' = "none" /\ watch' = {} /\ opened' = {} /\ reads' = {} /\ toPhone' = <<>>
        /\ Len(toPhone') = 0 /\ \A i : i \notin 1..Len(toPhone')
        /\ opening' \in [Session -> Buffer]
        /\ page' \in [Session -> {"none", "asked", "live"}]
        /\ \A s \in Session : /\ opening'[s] = NoBuffer /\ page'[s] = "none"
                              /\ \A i : i \notin 1..Len(opening'[s].frames)
        /\ overtaken \subseteq overtaken' /\ overtaken' \subseteq Session

\* What is not read then of events that the cursor has passed makes a session overtaken.
LEMMA GoneFact ==
    ASSUME StateOK, FramesOK, HeldOK, Disconnect
    PROVE  /\ Gone
           /\ \A s \in Session \ overtaken', x \in 1..Len(log) :
                  EventIn(x, s) /\ UnderWay(x, s) => cursor.seq < x
<1> DEFINE unread == Range(toPhone) \cup UNION {Range(opening[s].frames) : s \in Session}
           behind == {f \in unread : f.kind = "event" /\ f.seq <= cursor.seq}
<1>1. /\ status' = "none" /\ watch' = {} /\ opened' = {} /\ reads' = {} /\ toPhone' = <<>>
      /\ opening' = [s \in Session |-> NoBuffer]
      /\ page' = [s \in Session |-> "none"]
      /\ overtaken' = overtaken \cup {f.session : f \in behind}
  BY Zenon DEF Disconnect
<1>2. Parts /\ FramesIn(toPhone) /\ \A t \in Session : FramesIn(opening[t].frames)
  BY PartsFact
<1>3. /\ \A i \in 1..Len(toPhone) : toPhone[i] \in unread
      /\ \A s \in Session : \A i \in 1..Len(opening[s].frames) : opening[s].frames[i] \in unread
  <2>1. DOMAIN toPhone = 1..Len(toPhone)
    BY DEF StateOK
  <2>2. \A s \in Session : DOMAIN opening[s].frames = 1..Len(opening[s].frames)
    BY <1>2 DEF Parts
  <2>3. \A i \in 1..Len(toPhone) : toPhone[i] \in Range(toPhone)
    BY <2>1 DEF Range
  <2>4. \A s \in Session : \A i \in 1..Len(opening[s].frames) :
            opening[s].frames[i] \in Range(opening[s].frames)
    BY <2>2 DEF Range
  <2>5. QED
    BY <2>3, <2>4
<1>4. \A f \in unread : f.kind = "event" => f.session \in Session
  <2>1. \A f \in Range(toPhone) : f \in Frame
    BY DEF StateOK, Range
  <2>2. ASSUME NEW s \in Session, NEW f \in Range(opening[s].frames) PROVE f \in Frame
    BY <1>2 DEF Parts, Range
  <2>3. \A f \in unread : f \in Frame
    BY <2>1, <2>2
  <2>4. QED
    BY <2>3, FrameFact
<1> HIDE DEF unread
<1>5. overtaken \subseteq overtaken' /\ overtaken' \subseteq Session
  BY <1>1, <1>4 DEF StateOK
<1>6. NoBuffer \in Buffer /\ NoBuffer.frames = <<>>
  BY DEF NoBuffer, Buffer
<1>7. Gone
  <2>1. Len(toPhone') = 0 /\ \A i : i \notin 1..Len(toPhone')
    BY <1>1
  <2>2. \A s \in Session : /\ opening'[s] = NoBuffer /\ page'[s] = "none"
                           /\ \A i : i \notin 1..Len(opening'[s].frames)
    BY <1>1, <1>6
  <2>3. /\ opening' \in [Session -> Buffer]
        /\ page' \in [Session -> {"none", "asked", "live"}]
    BY <1>1, <1>6
  <2>4. QED
    BY <1>1, <1>5, <2>1, <2>2, <2>3 DEF Gone
<1>8. ASSUME NEW s \in Session \ overtaken', NEW x \in 1..Len(log), EventIn(x, s), UnderWay(x, s)
      PROVE  cursor.seq < x
  <2>1. \E f \in unread : f.seq = x /\ f = log[x]
    <3>1. CASE Held(x, s)
      <4>1. PICK i \in 1..Len(opening[s].frames) : opening[s].frames[i].seq = x
        BY <3>1 DEF Held
      <4>2. opening[s].frames[i] = log[x]
        BY <4>1 DEF HeldOK
      <4>3. QED
        BY <1>3, <4>1, <4>2
    <3>2. CASE ~Held(x, s)
      <4>1. PICK i \in 1..Len(toPhone) : toPhone[i].seq = x
        BY <1>8, <3>2 DEF UnderWay
      <4>2. x # 0 /\ toPhone[i] = log[x]
        BY <4>1 DEF FramesOK
      <4>3. QED
        BY <1>3, <4>1, <4>2
    <3>3. QED
      BY <3>1, <3>2
  <2>2. PICK f \in unread : f.seq = x /\ f = log[x]
    BY <2>1
  <2>3. f.kind = "event" /\ f.session = s
    BY <1>8, <2>2 DEF EventIn
  <2>4. ~(f.seq <= cursor.seq)
    BY <1>1, <2>3
  <2>5. QED
    BY <1>2, <2>2, <2>4 DEF Parts
<1>9. QED
  BY <1>7, <1>8

\* What every end of a connection keeps.
LEMMA GoneKeeps ==
    ASSUME ReplayInv, Gone,
           appended' = appended, copy' = copy, cursor' = cursor, opens' = opens,
           discarded' = discarded, replaced' = replaced, mistaken' = mistaken, conns' = conns
    PROVE  /\ OpensOK' /\ IdleOK' /\ SnapshotOK' /\ FramesOK' /\ BeginOK' /\ OrderOK' /\ HeldOK'
           /\ LifeOK' /\ AnswersOK' /\ KeptOK'
           /\ ~(\E x \in Nat : Due(x)')
<1>1. OpensOK'
  BY DEF Gone, OpensOK, NoBuffer
<1>2. IdleOK'
  BY DEF Gone, IdleOK
<1>3. SnapshotOK'
  BY DEF Gone, SnapshotOK, ReplayInv
<1>4. FramesOK' /\ BeginOK' /\ OrderOK'
  BY DEF Gone, FramesOK, BeginOK, OrderOK
<1>5. HeldOK'
  BY DEF Gone, HeldOK
<1>6. LifeOK'
  BY DEF Gone, LifeOK
<1>7. AnswersOK'
  BY DEF Gone, AnswersOK, AnswersOf
<1>8. KeptOK'
  BY DEF Gone, KeptOK
<1>9. ~(\E x \in Nat : Due(x)')
  BY DEF Gone, Due
<1>10. QED
  BY <1>1, <1>2, <1>3, <1>4, <1>5, <1>6, <1>7, <1>8, <1>9

\* The connection is lost.
LEMMA DropStep ==
    ASSUME ReplayInv, Drop
    PROVE  ReplayInv'
<1>1. StateOK /\ CopiesOK /\ FramesOK /\ HeldOK
  BY DEF ReplayInv
<1>2. /\ appended' = appended /\ life' = life /\ recorded' = recorded /\ log' = log
      /\ cursor' = cursor /\ copy' = copy /\ base' = base /\ got' = got
      /\ conns' = conns /\ opens' = opens /\ discarded' = discarded
      /\ replaced' = replaced /\ mistaken' = mistaken /\ Disconnect
  BY DEF Drop, bridge
<1>3. /\ Gone
      /\ \A s \in Session \ overtaken', x \in 1..Len(log) :
             EventIn(x, s) /\ UnderWay(x, s) => cursor.seq < x
  BY <1>1, <1>2, GoneFact
<1>4. /\ OpensOK' /\ IdleOK' /\ SnapshotOK' /\ FramesOK' /\ BeginOK' /\ OrderOK' /\ HeldOK'
      /\ LifeOK' /\ AnswersOK' /\ KeptOK'
      /\ ~(\E x \in Nat : Due(x)')
  BY <1>2, <1>3, GoneKeeps
<1>5. StateOK'
  <2>1. <<>> \in Seq(Frame)
    OBVIOUS
  <2>2. QED
    BY <1>1, <1>2, <1>3, <2>1 DEF StateOK, Gone
<1>6. LogOK' /\ CursorOK'
  BY <1>2 DEF ReplayInv, LogOK, CursorOK
<1>7. GlobalsOK'
  BY <1>2, <1>4 DEF ReplayInv, GlobalsOK, Has
<1>8. SinceOK'
  BY <1>2, <1>3 DEF ReplayInv, SinceOK, Since, Gone
<1>9. CopiesOK'
  <2>1. Safe' \subseteq Safe /\ Safe' \subseteq Session \ overtaken'
    BY <1>2, <1>3 DEF Safe, Gone
  <2>2. ASSUME NEW t \in Safe', NEW x \in 1..Len(log), EventIn(x, t)
        PROVE  CopyOf(t, x)'
    <3>1. CopyOf(t, x)
      BY <1>1, <2>1, <2>2 DEF CopiesOK
    <3>2. UnderWay(x, t) => ~(x <= cursor.seq)
      <4>1. cursor.seq \in Nat /\ x \in Nat
        BY <1>1 DEF StateOK
      <4>2. UnderWay(x, t) => cursor.seq < x
        BY <1>3, <2>1, <2>2
      <4>3. QED
        BY <4>1, <4>2
    <3>3. ~Due(x)'
      BY <1>4
    <3>4. QED
      BY <1>2, <1>3, <3>1, <3>2, <3>3 DEF CopyOf, Gone
  <2>3. QED
    BY <1>2, <2>2 DEF CopiesOK, EventIn
<1>10. QED
  BY <1>4, <1>5, <1>6, <1>7, <1>8, <1>9 DEF ReplayInv

\* The bridge is built again.
LEMMA RestartStep ==
    ASSUME ReplayInv, Restart
    PROVE  ReplayInv'
<1>1. StateOK /\ FramesOK /\ HeldOK /\ CursorOK
  BY DEF ReplayInv
<1>2. /\ appended' = appended /\ life' = life + 1 /\ recorded' = appended /\ log' = <<>>
      /\ cursor' = cursor /\ copy' = copy /\ base' = 0 /\ got' = {}
      /\ conns' = conns /\ opens' = opens /\ discarded' = discarded
      /\ replaced' = replaced /\ mistaken' = mistaken /\ Disconnect
  BY DEF Restart
<1>3. Gone
  BY <1>1, <1>2, GoneFact
<1>4. /\ OpensOK' /\ IdleOK' /\ SnapshotOK' /\ FramesOK' /\ BeginOK' /\ OrderOK' /\ HeldOK'
      /\ LifeOK' /\ AnswersOK' /\ KeptOK'
  BY <1>2, <1>3, GoneKeeps
<1>5. StateOK'
  <2>1. <<>> \in Seq(Frame) /\ life + 1 \in Nat \ {0}
    BY <1>1 DEF StateOK
  <2>2. QED
    BY <1>1, <1>2, <1>3, <2>1 DEF StateOK, Gone
<1>6. \A x : x \notin 1..Len(log')
  BY <1>2
<1>7. cursor.life < life' /\ cursor.life # life'
  BY <1>1, <1>2, PartsFact DEF CursorOK, StateOK, Parts
<1>8. LogOK'
  <2>1. \A s \in Session : appended[s] <= appended[s]
    BY <1>1, PartsFact DEF Parts
  <2>2. QED
    BY <1>2, <1>6, <2>1 DEF LogOK
<1>9. CursorOK'
  <2>1. cursor.life <= life'
    BY <1>1, <1>2, PartsFact DEF CursorOK, StateOK, Parts
  <2>2. QED
    BY <1>1, <1>2, <1>7, <2>1 DEF CursorOK
<1>10. GlobalsOK'
  BY <1>6 DEF GlobalsOK
<1>11. SinceOK'
  BY <1>2, <1>3, <1>7 DEF SinceOK, Gone
<1>12. CopiesOK'
  BY <1>6 DEF CopiesOK
<1>13. QED
  BY <1>4, <1>5, <1>8, <1>9, <1>10, <1>11, <1>12 DEF ReplayInv

-----------------------------------------------------------------------------
(* A frame is recorded.                                                    *)

\* A queue may have one more frame at its end.
OneMore(q, p, f) ==
    /\ p \in Seq(Frame) /\ Len(q) <= Len(p) /\ Len(p) <= Len(q) + 1
    /\ \A i \in 1..Len(q) : i \in 1..Len(p) /\ p[i] = q[i]
    /\ \A i \in 1..Len(p) : i \notin 1..Len(q) => p[i] = f /\ i = Len(q) + 1

\* A queue, and a queue with one more frame at its end, have at most that frame more.
LEMMA OneMoreFact ==
    ASSUME NEW q \in Seq(Frame), NEW f \in Frame
    PROVE  /\ OneMore(q, q, f) /\ OneMore(q, Append(q, f), f)
           /\ Len(q) + 1 \in 1..Len(Append(q, f)) /\ Append(q, f)[Len(q) + 1] = f
<1>1. Len(q) \in Nat
  OBVIOUS
<1>2. OneMore(q, q, f)
  BY <1>1 DEF OneMore
<1> DEFINE p == Append(q, f)
<1>3. /\ p \in Seq(Frame) /\ Len(p) = Len(q) + 1 /\ p[Len(q) + 1] = f
      /\ \A i \in 1..Len(q) : p[i] = q[i]
  BY AppendFact
<1> HIDE DEF p
<1>4. OneMore(q, p, f) /\ Len(q) + 1 \in 1..Len(p)
  BY <1>1, <1>3 DEF OneMore
<1>5. QED
  BY <1>2, <1>3, <1>4 DEF p

\* The new frame is at the end of the queue, or of the buffer of its session.
Arrived(f) == \E i \in 1..Len(toPhone') : toPhone'[i] = f
Buffered(f) == /\ f.kind = "event"
               /\ \E i \in 1..Len(opening'[f.session].frames) : opening'[f.session].frames[i] = f

\* What push() does with a frame.
PushedOut(f) ==
    /\ OneMore(toPhone, toPhone', f)
    /\ Len(toPhone') # Len(toPhone) => status = "open" /\ status' = "open"
    /\ status' = status \/ (status = "open" /\ status' = "closing")
    /\ opening' \in [Session -> Buffer]
    /\ \A t \in Session :
          /\ opening'[t].open = opening[t].open
          /\ OneMore(opening[t].frames, opening'[t].frames, f)
          /\ Len(opening'[t].frames) # Len(opening[t].frames) =>
                /\ status # "none" /\ opening[t] # NoBuffer /\ f.kind = "event" /\ f.session = t
                /\ toPhone' = toPhone
    /\ f.kind = "event" /\ Len(toPhone') # Len(toPhone) => opening[f.session] = NoBuffer
    /\ status' = "open" /\ Accepts(f, watch) => Arrived(f) \/ Buffered(f)
    /\ status # "none" /\ f.kind = "event" /\ opening[f.session] # NoBuffer => Buffered(f)

\* push() sends the frame, closes the connection, holds the frame back or drops it.
LEMMA PushFact ==
    ASSUME StateOK, NEW f \in Frame, Push(f)
    PROVE  PushedOut(f)
<1> DEFINE held == f.kind = "event" /\ f.session \in Opening
           longer == Append(toPhone, f)
<1>1. Parts /\ (f.kind = "event" => f.session \in Session)
  BY PartsFact, FrameFact
<1>2. \/ /\ status' = status /\ toPhone' = toPhone /\ opening' = opening
         /\ status = "none" \/ ~Accepts(f, watch) \/ (status = "closing" /\ ~held)
      \/ /\ status # "none" /\ held /\ status' = status /\ toPhone' = toPhone
         /\ opening' = [opening EXCEPT ![f.session].frames = Append(@, f)]
      \/ /\ status = "open" /\ ~held /\ status' = "closing" /\ toPhone' = toPhone
         /\ opening' = opening
      \/ /\ status = "open" /\ ~held /\ status' = "open" /\ toPhone' = longer
         /\ opening' = opening
  <2>1. Link.status = status /\ Link.queue = toPhone
    BY DEF Link
  <2>2. CASE status = "none" \/ ~Accepts(f, watch)
    BY <2>2 DEF Push
  <2>3. CASE status # "none" /\ Accepts(f, watch) /\ held
    BY <2>3 DEF Push
  <2>4. CASE status # "none" /\ Accepts(f, watch) /\ ~held
    <3>1. Output(Send(Link, f)) /\ opening' = opening
      BY <2>4 DEF Push
    <3>2. CASE status = "open"
      BY <2>1, <2>4, <3>1, <3>2 DEF Output, Send, Link
    <3>3. CASE status # "open"
      BY <2>1, <2>4, <3>1, <3>3 DEF Output, Send, Link, StateOK
    <3>4. QED
      BY <3>2, <3>3
  <2>5. QED
    BY <2>2, <2>3, <2>4
<1>3. /\ OneMore(toPhone, toPhone, f) /\ OneMore(toPhone, longer, f)
      /\ Len(toPhone) + 1 \in 1..Len(longer) /\ longer[Len(toPhone) + 1] = f
  BY <1>1, OneMoreFact DEF Parts
<1>4. \A t \in Session :
         /\ OneMore(opening[t].frames, opening[t].frames, f)
         /\ OneMore(opening[t].frames, Append(opening[t].frames, f), f)
         /\ \E i \in 1..Len(Append(opening[t].frames, f)) : Append(opening[t].frames, f)[i] = f
  BY <1>1, OneMoreFact DEF Parts
<1>5. held <=> f.kind = "event" /\ opening[f.session] # NoBuffer
  BY <1>1 DEF Opening
<1>6. opening \in [Session -> Buffer]
  BY DEF StateOK
<1>7. held => Accepts(f, watch)
  BY DEF Accepts
<1> HIDE DEF longer
<1>8. CASE /\ status' = status /\ toPhone' = toPhone /\ opening' = opening
           /\ status = "none" \/ ~Accepts(f, watch) \/ (status = "closing" /\ ~held)
  <2>1. ~(status' = "open" /\ Accepts(f, watch))
    BY <1>8
  <2>2. ~(status # "none" /\ held)
    BY <1>7, <1>8
  <2> HIDE DEF held
  <2>3. QED
    BY <1>3, <1>4, <1>5, <1>6, <1>8, <2>1, <2>2 DEF PushedOut
<1>9. CASE /\ status # "none" /\ held /\ status' = status /\ toPhone' = toPhone
           /\ opening' = [opening EXCEPT ![f.session].frames = Append(@, f)]
  <2>1. f.kind = "event" /\ f.session \in Session /\ opening[f.session] # NoBuffer
    BY <1>1, <1>5, <1>9
  <2> DEFINE s == f.session
             frames == Append(opening[s].frames, f)
  <2>2. frames \in Seq(Frame)
    BY <1>1, <2>1 DEF Parts
  <2> HIDE DEF frames
  <2>3. /\ opening' = [opening EXCEPT ![s] = [opening[s] EXCEPT !.frames = frames]]
    BY <1>9 DEF frames
  <2>4. [opening[s] EXCEPT !.frames = frames] = [open |-> opening[s].open, frames |-> frames]
    <3>1. opening[s] \in Buffer
      BY <1>1, <2>1 DEF Parts
    <3> HIDE DEF s
    <3>2. QED
      BY <3>1 DEF Buffer
  <2>5. [open |-> opening[s].open, frames |-> frames] \in Buffer
    BY <1>1, <2>1, <2>2 DEF Parts, Buffer
  <2>6. /\ opening' \in [Session -> Buffer]
        /\ opening'[s].open = opening[s].open /\ opening'[s].frames = frames
        /\ \A t \in Session : t # s => opening'[t] = opening[t]
    BY <1>6, <2>1, <2>3, <2>4, <2>5
  <2>7. /\ OneMore(opening[s].frames, frames, f)
        /\ \E i \in 1..Len(frames) : frames[i] = f
    BY <1>4, <2>1 DEF frames
  <2>8. Buffered(f)
    BY <2>1, <2>6, <2>7 DEF Buffered
  <2> HIDE DEF held
  <2>9. \A t \in Session : t # s => /\ opening'[t].open = opening[t].open
                                    /\ OneMore(opening[t].frames, opening'[t].frames, f)
                                    /\ Len(opening'[t].frames) = Len(opening[t].frames)
    BY <1>4, <2>6
  <2>10. QED
    BY <1>3, <1>9, <2>1, <2>6, <2>7, <2>8, <2>9 DEF PushedOut
<1>10. CASE /\ status = "open" /\ ~held /\ status' = "closing" /\ toPhone' = toPhone
            /\ opening' = opening
  BY <1>3, <1>4, <1>5, <1>6, <1>10 DEF PushedOut
<1>11. CASE /\ status = "open" /\ ~held /\ status' = "open" /\ toPhone' = longer
            /\ opening' = opening
  <2>1. Arrived(f)
    BY <1>3, <1>11 DEF Arrived
  <2>2. QED
    BY <1>3, <1>4, <1>5, <1>6, <1>11, <2>1 DEF PushedOut
<1>12. QED
  BY <1>2, <1>8, <1>9, <1>10, <1>11

\* A frame is numbered, kept and pushed.
Recorded(f) ==
    /\ f \in Frame /\ f.seq = Len(log) + 1 /\ f.kind \in Numbered
    /\ log' = Append(log, f) /\ PushedOut(f)
    /\ recorded' \in [Session -> Nat]
    /\ \A t \in Session : /\ recorded[t] <= recorded'[t] /\ recorded'[t] <= appended[t]
                          /\ recorded'[t] # recorded[t] => f.kind = "event" /\ f.session = t
    /\ f.kind = "event" => /\ f.n = recorded[f.session] + 1 /\ f.n = recorded'[f.session]
    /\ appended' = appended /\ life' = life /\ watch' = watch /\ opened' = opened
    /\ reads' = reads /\ cursor' = cursor /\ copy' = copy /\ page' = page /\ base' = base
    /\ got' = got /\ conns' = conns /\ opens' = opens
    /\ discarded' = discarded /\ overtaken' = overtaken /\ replaced' = replaced
    /\ mistaken' = mistaken

\* The log afterwards.
Longer(f) ==
    /\ log' \in Seq(Frame) /\ Len(log) \in Nat /\ Len(log') = Len(log) + 1
    /\ log'[Len(log) + 1] = f /\ f.seq = Len(log) + 1 /\ f.seq \in 1..Len(log')
    /\ \A x \in 1..Len(log) : x \in 1..Len(log') /\ log'[x] = log[x] /\ x < Len(log) + 1
    /\ \A x \in 1..Len(log') : x \in 1..Len(log) \/ (x = Len(log) + 1 /\ x \notin 1..Len(log))

\* record() adds one frame to the log and numbers it.
LEMMA LongerFact ==
    ASSUME StateOK, NEW f, Recorded(f)
    PROVE  Longer(f)
<1>1. /\ log' \in Seq(Frame) /\ Len(log) \in Nat /\ Len(log') = Len(log) + 1
      /\ log'[Len(log) + 1] = f /\ f.seq = Len(log) + 1
      /\ \A x \in 1..Len(log) : log'[x] = log[x]
  BY AppendFact DEF StateOK, Recorded
<1>2. QED
  BY <1>1 DEF Longer

\* What a recorded frame is to the queue, and to the buffers.
Queued(f) ==
    /\ Len(toPhone) \in Nat /\ Len(toPhone') \in Nat
    /\ \A i \in 1..Len(toPhone) : i \in 1..Len(toPhone') /\ toPhone'[i] = toPhone[i]
    /\ \A i \in 1..Len(toPhone') : i \notin 1..Len(toPhone) =>
          /\ toPhone'[i] = f /\ i = Len(toPhone) + 1
          /\ status = "open" /\ status' = "open"
          /\ f.kind = "event" => opening[f.session] = NoBuffer
    /\ \A t \in Session :
          /\ \A i \in 1..Len(opening[t].frames) :
                i \in 1..Len(opening'[t].frames) /\ opening'[t].frames[i] = opening[t].frames[i]
          /\ \A i \in 1..Len(opening'[t].frames) : i \notin 1..Len(opening[t].frames) =>
                /\ opening'[t].frames[i] = f /\ i = Len(opening[t].frames) + 1
                /\ Len(opening[t].frames) \in Nat
                /\ opening[t] # NoBuffer /\ f.kind = "event" /\ f.session = t
                /\ toPhone' = toPhone

\* What record() does to the frames under way and to the buffers behind the tails.
LEMMA QueuedFact ==
    ASSUME StateOK, NEW f, Recorded(f)
    PROVE  Queued(f)
<1>1. Parts /\ PushedOut(f)
  BY PartsFact DEF Recorded
<1>2. OneMore(toPhone, toPhone', f) /\ Len(toPhone) \in Nat /\ Len(toPhone') \in Nat
  BY <1>1 DEF PushedOut, Parts, OneMore
<1>3. Len(toPhone') = Len(toPhone) => \A i \in 1..Len(toPhone') : i \in 1..Len(toPhone)
  BY <1>2
<1>4. ASSUME NEW t \in Session
      PROVE  /\ OneMore(opening[t].frames, opening'[t].frames, f)
             /\ Len(opening[t].frames) \in Nat /\ Len(opening'[t].frames) \in Nat
             /\ Len(opening'[t].frames) = Len(opening[t].frames) =>
                   \A i \in 1..Len(opening'[t].frames) : i \in 1..Len(opening[t].frames)
  <2>1. OneMore(opening[t].frames, opening'[t].frames, f) /\ Len(opening[t].frames) \in Nat
    BY <1>1 DEF PushedOut, Parts
  <2>2. Len(opening'[t].frames) \in Nat
    BY <2>1 DEF OneMore
  <2>3. QED
    BY <2>1, <2>2
<1>5. \A i \in 1..Len(toPhone) : i \in 1..Len(toPhone') /\ toPhone'[i] = toPhone[i]
  BY <1>2 DEF OneMore
<1>6. ASSUME NEW i \in 1..Len(toPhone'), i \notin 1..Len(toPhone)
      PROVE  /\ toPhone'[i] = f /\ i = Len(toPhone) + 1
             /\ status = "open" /\ status' = "open"
             /\ f.kind = "event" => opening[f.session] = NoBuffer
  <2>1. toPhone'[i] = f /\ i = Len(toPhone) + 1
    BY <1>2, <1>6 DEF OneMore
  <2>2. Len(toPhone') # Len(toPhone)
    BY <1>3, <1>6
  <2>3. QED
    BY <1>1, <2>1, <2>2 DEF PushedOut
<1>7. ASSUME NEW t \in Session, NEW i \in 1..Len(opening[t].frames)
      PROVE  i \in 1..Len(opening'[t].frames) /\ opening'[t].frames[i] = opening[t].frames[i]
  BY <1>4 DEF OneMore
<1>8. ASSUME NEW t \in Session, NEW i \in 1..Len(opening'[t].frames),
             i \notin 1..Len(opening[t].frames)
      PROVE  /\ opening'[t].frames[i] = f /\ i = Len(opening[t].frames) + 1
             /\ Len(opening[t].frames) \in Nat
             /\ opening[t] # NoBuffer /\ f.kind = "event" /\ f.session = t
             /\ toPhone' = toPhone
  <2>1. opening'[t].frames[i] = f /\ i = Len(opening[t].frames) + 1
    BY <1>4, <1>8 DEF OneMore
  <2>2. Len(opening'[t].frames) # Len(opening[t].frames)
    BY <1>4, <1>8
  <2>3. QED
    BY <1>1, <1>4, <2>1, <2>2 DEF PushedOut
<1>9. QED
  BY <1>2, <1>5, <1>6, <1>7, <1>8 DEF Queued

\* The parts of the invariant that are not about numbers.
LEMMA RecordedOpens ==
    ASSUME StateOK, OpensOK, IdleOK, KeptOK, SnapshotOK, NEW f, Recorded(f)
    PROVE  StateOK' /\ OpensOK' /\ IdleOK' /\ KeptOK' /\ SnapshotOK'
<1>1. Parts /\ PushedOut(f) /\ Queued(f) /\ Longer(f)
  BY PartsFact, QueuedFact, LongerFact DEF Recorded
<1>2. StateOK'
  <2>1. toPhone' \in Seq(Frame) /\ opening' \in [Session -> Buffer] /\ log' \in Seq(Frame)
    BY <1>1 DEF PushedOut, OneMore, Longer
  <2>2. status' \in {"none", "open", "closing"}
    BY <1>1 DEF PushedOut, StateOK
  <2>3. QED
    BY <2>1, <2>2 DEF Recorded, StateOK
<1>3. \A t \in Session : opening'[t].open = opening[t].open
  BY <1>1 DEF PushedOut
<1>4. \A t \in Session : opening[t] = NoBuffer => opening'[t] = NoBuffer
  <2> SUFFICES ASSUME NEW t \in Session, opening[t] = NoBuffer PROVE opening'[t] = NoBuffer
    OBVIOUS
  <2>1. Len(opening'[t].frames) = Len(opening[t].frames) /\ opening[t].frames = <<>>
    BY <1>1 DEF PushedOut, NoBuffer
  <2>2. opening'[t] \in Buffer /\ opening'[t].open = 0
    BY <1>1, <1>3 DEF PushedOut, NoBuffer
  <2>3. opening'[t].frames = <<>> /\ opening'[t] = [open |-> opening'[t].open, frames |-> opening'[t].frames]
    BY <2>1, <2>2 DEF Buffer
  <2>4. QED
    BY <2>2, <2>3 DEF NoBuffer
<1>5. \A i \in 1..Len(toPhone) : i \in 1..Len(toPhone') /\ toPhone'[i] = toPhone[i]
  BY <1>1 DEF Queued
<1>6. OpensOK'
  <2>1. \A t \in Session :
          IF opening'[t].open = 0 THEN opening'[t] = NoBuffer
          ELSE page'[t] # "none" /\ \E r \in reads' : r.session = t /\ r.open = opening'[t].open
    BY <1>3, <1>4 DEF OpensOK, Recorded
  <2>2. ASSUME status' = "open", NEW t \in opened
        PROVE  \/ page[t] = "live"
               \/ page[t] = "asked" /\ \E i \in 1..Len(toPhone') : Holds(toPhone', i, {"tail"}, t)
    <3>1. status = "open"
      BY <1>1, <2>2 DEF PushedOut
    <3>2. \/ page[t] = "live"
          \/ page[t] = "asked" /\ \E i \in 1..Len(toPhone) : Holds(toPhone, i, {"tail"}, t)
      BY <2>2, <3>1 DEF OpensOK
    <3>3. QED
      BY <1>5, <3>2 DEF Holds
  <2>3. QED
    BY <2>1, <2>2 DEF OpensOK, Recorded
<1>7. IdleOK'
  <2> SUFFICES ASSUME status' = "none"
               PROVE  /\ opened' = {} /\ watch' = {} /\ reads' = {} /\ toPhone' = <<>>
                      /\ \A s \in Session : opening'[s] = NoBuffer /\ page'[s] = "none"
    BY DEF IdleOK
  <2>1. status = "none" /\ Len(toPhone') = Len(toPhone)
    BY <1>1 DEF PushedOut
  <2>2. toPhone' = <<>>
    <3>1. toPhone = <<>>
      BY <2>1 DEF IdleOK
    <3>2. toPhone' \in Seq(Frame) /\ Len(toPhone') = 0
      BY <1>1, <2>1, <3>1 DEF PushedOut, OneMore
    <3>3. QED
      BY <3>2
  <2>3. QED
    BY <1>4, <2>1, <2>2 DEF IdleOK, Recorded
<1>8. KeptOK'
  <2>1. status' # "none" => status # "none"
    BY <1>1 DEF PushedOut
  <2>2. QED
    BY <2>1 DEF KeptOK, Recorded
<1>9. SnapshotOK'
  <2>1. ASSUME NEW j \in 1..Len(toPhone'), toPhone'[j].kind = "tail"
        PROVE  toPhone'[j].n <= appended[toPhone'[j].session]
    <3>1. j \in 1..Len(toPhone)
      BY <1>1, <2>1 DEF Queued, Recorded, Numbered
    <3>2. QED
      BY <1>5, <2>1, <3>1 DEF SnapshotOK
  <2>2. QED
    BY <2>1 DEF SnapshotOK, Recorded
<1>10. QED
  BY <1>2, <1>6, <1>7, <1>8, <1>9

\* The parts that are about numbers and their order.
LEMMA RecordedOrder ==
    ASSUME StateOK, LogOK, CursorOK, FramesOK, BeginOK, OrderOK, HeldOK, LifeOK, OpensOK,
           NEW f, Recorded(f)
    PROVE  LogOK' /\ CursorOK' /\ FramesOK' /\ BeginOK' /\ OrderOK' /\ HeldOK' /\ LifeOK'
<1> DEFINE top == Len(log) + 1
<1>1. Parts /\ PushedOut(f) /\ Queued(f) /\ Longer(f) /\ f \in Frame
  BY PartsFact, QueuedFact, LongerFact DEF Recorded
<1>2. /\ Len(log) \in Nat /\ top \in 1..Len(log') /\ Len(log') = top /\ log'[top] = f /\ f.seq = top
      /\ \A x \in 1..Len(log) : x \in 1..Len(log') /\ log'[x] = log[x] /\ x < top
      /\ \A x \in 1..Len(log') : x \in 1..Len(log) \/ x = top
  BY <1>1 DEF Longer
<1>3. /\ f.kind \in Numbered /\ f.kind # "welcome" /\ f.kind # "resync" /\ f.kind # "tail"
      /\ f.kind = "event" => f.session \in Session /\ f.n \in Nat
  BY <1>1, FrameFact DEF Recorded, Numbered
<1>4. /\ Len(toPhone) \in Nat /\ Len(toPhone') \in Nat
      /\ \A i \in 1..Len(toPhone) : i \in 1..Len(toPhone') /\ toPhone'[i] = toPhone[i]
      /\ \A i \in 1..Len(toPhone') : i \notin 1..Len(toPhone) =>
            toPhone'[i] = f /\ i = Len(toPhone) + 1 /\ status = "open"
  BY <1>1 DEF Queued
<1> HIDE DEF top
<1>5. LogOK'
  <2>1. ASSUME NEW x \in 1..Len(log')
        PROVE  /\ log'[x].seq = x /\ log'[x].kind \in Numbered
               /\ log'[x].kind = "event" => 1 <= log'[x].n /\ log'[x].n <= recorded'[log'[x].session]
    <3>1. CASE x \in 1..Len(log)
      <4>1. /\ log[x].seq = x /\ log[x].kind \in Numbered
            /\ log[x].kind = "event" => 1 <= log[x].n /\ log[x].n <= recorded[log[x].session]
        BY <3>1 DEF LogOK
      <4>2. log[x].kind = "event" => log[x].session \in Session /\ log[x].n \in Nat
        BY <1>1, <3>1, PartsFact DEF FramesIn
      <4>3. \A t \in Session : recorded[t] <= recorded'[t] /\ recorded[t] \in Nat /\ recorded'[t] \in Nat
        BY <1>1 DEF Recorded, Parts
      <4>4. log'[x] = log[x]
        BY <1>2, <3>1
      <4>5. log[x].kind = "event" => log[x].n <= recorded'[log[x].session]
        <5> SUFFICES ASSUME log[x].kind = "event" PROVE log[x].n <= recorded'[log[x].session]
          OBVIOUS
        <5> DEFINE t == log[x].session
                   n == log[x].n
        <5>1. t \in Session /\ n \in Nat /\ n <= recorded[t]
          BY <4>1, <4>2
        <5> HIDE DEF t, n
        <5>2. n <= recorded'[t]
          BY <4>3, <5>1
        <5>3. QED
          BY <5>2 DEF t, n
      <4>6. QED
        BY <4>1, <4>4, <4>5
    <3>2. CASE x = top
      <4>1. f.kind = "event" => 1 <= f.n /\ f.n <= recorded'[f.session]
        BY <1>1, <1>3 DEF Recorded, Parts
      <4>2. QED
        BY <1>2, <1>3, <3>2, <4>1
    <3>3. QED
      BY <1>2, <3>1, <3>2
  <2>2. ASSUME NEW x \in 1..Len(log'), NEW y \in 1..Len(log'), x < y,
               log'[x].kind = "event", log'[y].kind = "event", log'[x].session = log'[y].session
        PROVE  log'[x].n < log'[y].n
    <3>1. x \in 1..Len(log)
      BY <1>2, <2>2
    <3>2. CASE y \in 1..Len(log)
      BY <1>2, <2>2, <3>1, <3>2 DEF LogOK
    <3>3. CASE y = top
      <4>1. /\ log[x].n <= recorded[f.session] /\ log[x].n \in Nat /\ log'[y] = f /\ log'[x] = log[x]
            /\ f.kind = "event"
        BY <1>1, <1>2, <2>2, <3>1, <3>3, PartsFact DEF LogOK, FramesIn
      <4>2. f.n = recorded[f.session] + 1 /\ recorded[f.session] \in Nat
        BY <1>1, <1>3, <4>1 DEF Recorded, Parts
      <4>3. QED
        BY <4>1, <4>2
    <3>4. QED
      BY <1>2, <3>2, <3>3
  <2>3. \A t \in Session : recorded'[t] <= appended'[t]
    BY DEF Recorded
  <2>4. QED
    BY <2>1, <2>2, <2>3 DEF LogOK
<1>6. CursorOK'
  <2>1. cursor.seq <= Len(log) => cursor.seq <= Len(log')
    BY <1>1, <1>2 DEF Parts
  <2>2. QED
    BY <2>1 DEF CursorOK, Recorded
<1>7. FramesOK'
  <2> SUFFICES ASSUME NEW i \in 1..Len(toPhone')
               PROVE  /\ IF toPhone'[i].kind \in Numbered
                         THEN toPhone'[i].seq \in 1..Len(log') /\ toPhone'[i] = log'[toPhone'[i].seq]
                         ELSE toPhone'[i].seq = 0
                      /\ toPhone'[i].kind \in {"welcome", "resync"} => toPhone'[i].n <= Len(log')
    BY DEF FramesOK
  <2>1. CASE i \in 1..Len(toPhone)
    <3>1. /\ IF toPhone[i].kind \in Numbered
             THEN toPhone[i].seq \in 1..Len(log) /\ toPhone[i] = log[toPhone[i].seq]
             ELSE toPhone[i].seq = 0
          /\ toPhone[i].kind \in {"welcome", "resync"} => toPhone[i].n <= Len(log)
      BY <2>1 DEF FramesOK
    <3>2. toPhone[i].n \in Nat /\ toPhone'[i] = toPhone[i]
      BY <1>4, <2>1, PartsFact DEF FramesIn
    <3>3. toPhone[i].n <= Len(log) => toPhone[i].n <= Len(log')
      BY <1>2, <1>1, <3>2 DEF Longer
    <3>4. QED
      BY <1>2, <3>1, <3>2, <3>3
  <2>2. CASE i \notin 1..Len(toPhone)
    BY <1>2, <1>3, <1>4, <2>2
  <2>3. QED
    BY <2>1, <2>2
<1>8. BeginOK'
  <2>1. ASSUME NEW i \in 1..Len(toPhone')
        PROVE  /\ toPhone'[i].kind = "welcome" => i = 1
               /\ toPhone'[i].kind = "resync" =>
                     /\ cursor # NoCursor
                     /\ \A j \in 1..Len(toPhone') : j < i => toPhone'[j].kind = "welcome"
    <3>1. CASE i \in 1..Len(toPhone)
      <4>1. \A j \in 1..Len(toPhone') : j < i => j \in 1..Len(toPhone)
        BY <1>4, <3>1
      <4>2. QED
        BY <1>4, <3>1, <4>1 DEF BeginOK
    <3>2. CASE i \notin 1..Len(toPhone)
      BY <1>3, <1>4, <3>2
    <3>3. QED
      BY <3>1, <3>2
  <2>2. ASSUME cursor = NoCursor
        PROVE  /\ status' = "open" => toPhone' # <<>>
               /\ toPhone' # <<>> => toPhone'[1].kind = "welcome"
    <3>1. CASE toPhone = <<>>
      <4>1. status # "open"
        BY <2>2, <3>1 DEF BeginOK
      <4>2. \A i \in 1..Len(toPhone') : i \in 1..Len(toPhone)
        BY <1>4, <4>1
      <4>3. toPhone' = <<>>
        <5>1. Len(toPhone) = 0
          BY <3>1
        <5>2. Len(toPhone') = 0 /\ toPhone' \in Seq(Frame)
          BY <1>1, <1>4, <4>2, <5>1 DEF PushedOut, OneMore
        <5>3. QED
          BY <5>2
      <4>4. status' # "open"
        BY <1>1, <4>1 DEF PushedOut
      <4>5. QED
        BY <4>3, <4>4
    <3>2. CASE toPhone # <<>>
      <4>1. 1 \in 1..Len(toPhone)
        BY <1>1, <3>2 DEF Parts
      <4>2. toPhone[1].kind = "welcome"
        BY <2>2, <3>2 DEF BeginOK
      <4>3. 1 \in 1..Len(toPhone') /\ toPhone'[1].kind = "welcome"
        BY <1>4, <4>1, <4>2
      <4>4. QED
        BY <4>3
    <3>3. QED
      BY <3>1, <3>2
  <2>3. QED
    BY <2>1, <2>2 DEF BeginOK, Recorded
<1>9. \A i \in 1..Len(toPhone) : toPhone[i].seq < top /\ toPhone[i].seq \in Nat
  <2> SUFFICES ASSUME NEW i \in 1..Len(toPhone)
               PROVE  toPhone[i].seq < top /\ toPhone[i].seq \in Nat
    OBVIOUS
  <2>1. toPhone[i].seq \in 1..Len(log) \/ toPhone[i].seq = 0
    BY DEF FramesOK
  <2>2. QED
    BY <1>2, <2>1 DEF top
<1>10. OrderOK'
  <2> SUFFICES ASSUME NEW i \in 1..Len(toPhone'), NEW j \in 1..Len(toPhone'), i < j
               PROVE  /\ toPhone'[j].kind = "global" => toPhone'[i].seq < toPhone'[j].seq
                      /\ toPhone'[i].kind = "event" /\ toPhone'[j].kind = "event"
                            /\ toPhone'[i].session = toPhone'[j].session
                         => toPhone'[i].seq < toPhone'[j].seq
    BY DEF OrderOK
  <2>1. i \in 1..Len(toPhone)
    BY <1>4
  <2>2. CASE j \in 1..Len(toPhone)
    BY <1>4, <2>1, <2>2 DEF OrderOK
  <2>3. CASE j \notin 1..Len(toPhone)
    BY <1>2, <1>4, <1>9, <2>1, <2>3
  <2>4. QED
    BY <2>2, <2>3
<1>11. HeldOK'
  <2> SUFFICES ASSUME NEW t \in Session, NEW i \in 1..Len(opening'[t].frames)
               PROVE  LET g == opening'[t].frames[i]
                      IN  /\ g.kind = "event" /\ g.session = t
                          /\ g.seq \in 1..Len(log') /\ g = log'[g.seq]
                          /\ \A j \in 1..Len(opening'[t].frames) : j < i => opening'[t].frames[j].seq < g.seq
                          /\ \A j \in 1..Len(toPhone') : Holds(toPhone', j, {"event"}, t) => toPhone'[j].seq < g.seq
    BY DEF HeldOK, Holds
  <2>1. CASE i \in 1..Len(opening[t].frames)
    <3> DEFINE g == opening[t].frames[i]
    <3>1. /\ g.kind = "event" /\ g.session = t
          /\ g.seq \in 1..Len(log) /\ g = log[g.seq]
          /\ \A j \in 1..Len(opening[t].frames) : j < i => opening[t].frames[j].seq < g.seq
          /\ \A j \in 1..Len(toPhone) : Holds(toPhone, j, {"event"}, t) => toPhone[j].seq < g.seq
      BY <2>1 DEF HeldOK
    <3>2. opening'[t].frames[i] = g /\ \A j \in 1..Len(opening[t].frames) : opening'[t].frames[j] = opening[t].frames[j]
      BY <1>1, <2>1 DEF Queued
    <3>3. \A j \in 1..Len(opening'[t].frames) : j < i => j \in 1..Len(opening[t].frames)
      BY <1>1, <2>1 DEF Parts
    <3>4. \A j \in 1..Len(toPhone') : Holds(toPhone', j, {"event"}, t) => j \in 1..Len(toPhone)
      <4> SUFFICES ASSUME NEW j \in 1..Len(toPhone'), Holds(toPhone', j, {"event"}, t), j \notin 1..Len(toPhone)
                   PROVE  FALSE
        OBVIOUS
      <4>1. toPhone'[j] = f /\ (f.kind = "event" => opening[f.session] = NoBuffer)
        BY <1>1 DEF Queued
      <4>2. opening[t] = NoBuffer
        BY <4>1 DEF Holds
      <4>3. Len(opening[t].frames) = 0
        BY <4>2 DEF NoBuffer
      <4>4. QED
        BY <2>1, <4>3
    <3> HIDE DEF g
    <3>5. QED
      BY <1>2, <1>4, <3>1, <3>2, <3>3, <3>4 DEF Holds
  <2>2. CASE i \notin 1..Len(opening[t].frames)
    <3>1. /\ opening'[t].frames[i] = f /\ i = Len(opening[t].frames) + 1
          /\ Len(opening[t].frames) \in Nat
          /\ f.kind = "event" /\ f.session = t /\ toPhone' = toPhone
      BY <1>1, <2>2 DEF Queued
    <3>2. \A j \in 1..Len(opening'[t].frames) : j < i =>
             /\ j \in 1..Len(opening[t].frames) /\ opening'[t].frames[j] = opening[t].frames[j]
      BY <1>1, <3>1 DEF Queued
    <3>3. \A j \in 1..Len(opening[t].frames) : opening[t].frames[j].seq < top
      BY <1>2 DEF HeldOK
    <3>4. QED
      BY <1>2, <1>9, <3>1, <3>2, <3>3 DEF Holds
  <2>3. QED
    BY <2>1, <2>2
<1>12. LifeOK'
  <2> SUFFICES ASSUME ~mistaken, cursor # NoCursor, cursor.life # life,
                      status' = "open" \/ \E i \in 1..Len(toPhone') : toPhone'[i].seq > 0
               PROVE  Resyncs'
    BY DEF LifeOK, Recorded
  <2>1. status = "open" \/ \E i \in 1..Len(toPhone) : toPhone[i].seq > 0
    <3>1. status' = "open" => status = "open"
      BY <1>1 DEF PushedOut
    <3>2. QED
      BY <1>4, <3>1
  <2>2. Resyncs
    BY <2>1 DEF LifeOK
  <2>3. QED
    BY <1>4, <2>2 DEF Resyncs
<1>13. QED
  BY <1>5, <1>6, <1>7, <1>8, <1>10, <1>11, <1>12

\* The globals, the answers and the copies.
LEMMA RecordedGlobals ==
    ASSUME StateOK, CursorOK, FramesOK, GlobalsOK, NEW f, Recorded(f)
    PROVE  GlobalsOK'
<1> DEFINE top == Len(log) + 1
<1>1. Parts /\ PushedOut(f) /\ Queued(f) /\ Longer(f) /\ FramesIn(toPhone)
  BY PartsFact, QueuedFact, LongerFact DEF Recorded
<1>2. /\ Len(log) \in Nat /\ top \in 1..Len(log') /\ Len(log') = top /\ log'[top] = f /\ f.seq = top
      /\ \A x \in 1..Len(log) : x \in 1..Len(log') /\ log'[x] = log[x] /\ x < top
      /\ \A x \in 1..Len(log') : x \in 1..Len(log) \/ x = top
  BY <1>1 DEF Longer
<1>3. f.kind \in Numbered /\ f.kind # "welcome" /\ f.kind # "resync"
  BY DEF Recorded, Numbered
<1>4. /\ \A i \in 1..Len(toPhone) : i \in 1..Len(toPhone') /\ toPhone'[i] = toPhone[i]
      /\ \A i \in 1..Len(toPhone') : i \notin 1..Len(toPhone) =>
            toPhone'[i] = f /\ status = "open"
  BY <1>1 DEF Queued
<1>5. \A i \in 1..Len(toPhone) : ~(top <= toPhone[i].seq) /\ toPhone[i].seq \in Nat
  <2> SUFFICES ASSUME NEW i \in 1..Len(toPhone)
               PROVE  ~(top <= toPhone[i].seq) /\ toPhone[i].seq \in Nat
    OBVIOUS
  <2>1. toPhone[i].seq \in 1..Len(log) \/ toPhone[i].seq = 0
    BY DEF FramesOK
  <2>2. QED
    BY <1>2, <2>1
<1> HIDE DEF top
<1> SUFFICES ASSUME ~mistaken, NEW x \in 1..Len(log'), log'[x].kind = "global"
             PROVE  /\ cursor.life = life /\ x <= cursor.seq => Has(x)
                    /\ Due(x)' => \/ \E i \in 1..Len(toPhone') : toPhone'[i].seq = x
                                  \/ \E i \in 1..Len(toPhone') : Renews(toPhone'[i]) /\ x <= toPhone'[i].n
                                  \/ Has(x) /\ \A i \in 1..Len(toPhone') : ~Renews(toPhone'[i])
  BY DEF GlobalsOK, Has, Renews, Recorded
<1>6. ~Renews(f)
  BY <1>3 DEF Renews
<1>7. CASE x \in 1..Len(log)
  <2>1. /\ cursor.life = life /\ x <= cursor.seq => Has(x)
        /\ Due(x) => \/ \E i \in 1..Len(toPhone) : toPhone[i].seq = x
                     \/ \E i \in 1..Len(toPhone) : Renews(toPhone[i]) /\ x <= toPhone[i].n
                     \/ Has(x) /\ \A i \in 1..Len(toPhone) : ~Renews(toPhone[i])
    BY <1>2, <1>7 DEF GlobalsOK
  <2>2. Due(x)' => Due(x)
    <3>1. status' = "open" => status = "open"
      BY <1>1 DEF PushedOut
    <3>2. QED
      BY <1>4, <3>1 DEF Due
  <2>3. \A i \in 1..Len(toPhone') : Renews(toPhone'[i]) => i \in 1..Len(toPhone)
    BY <1>4, <1>6
  <2>4. QED
    BY <1>4, <2>1, <2>2, <2>3
<1>8. CASE x = top
  <2>1. ~(cursor.life = life /\ x <= cursor.seq)
    BY <1>1, <1>2, <1>8 DEF CursorOK, Parts, top
  <2>2. ASSUME Due(x)' PROVE \E i \in 1..Len(toPhone') : toPhone'[i].seq = x
    <3>1. CASE \E i \in 1..Len(toPhone') : i \notin 1..Len(toPhone)
      BY <1>2, <1>4, <1>8, <3>1
    <3>2. CASE \A i \in 1..Len(toPhone') : i \in 1..Len(toPhone)
      <4>1. \A i \in 1..Len(toPhone') : ~(x <= toPhone'[i].seq)
        BY <1>4, <1>5, <1>8, <3>2
      <4>2. status' = "open"
        BY <2>2, <4>1 DEF Due
      <4>3. f.kind = "global"
        BY <1>2, <1>8
      <4>4. Accepts(f, watch) /\ ~Buffered(f)
        BY <4>3 DEF Accepts, Buffered
      <4>5. Arrived(f)
        BY <1>1, <4>2, <4>4 DEF PushedOut
      <4>6. QED
        BY <1>2, <1>8, <4>5 DEF Arrived
    <3>3. QED
      BY <3>1, <3>2
  <2>3. QED
    BY <2>1, <2>2
<1>9. QED
  BY <1>2, <1>7, <1>8

\* An event that is recorded of a session that waits for an answer is held back.
LEMMA RecordedAnswers ==
    ASSUME StateOK, AnswersOK, SinceOK, NEW f, Recorded(f)
    PROVE  AnswersOK' /\ SinceOK'
<1>1. Parts /\ PushedOut(f) /\ Queued(f) /\ Longer(f) /\ FramesIn(toPhone) /\ FramesIn(log)
  BY PartsFact, QueuedFact, LongerFact DEF Recorded
<1>2. f.kind \in Numbered /\ f.kind \notin Answers
  BY DEF Recorded, Numbered, Answers
<1>3. /\ \A i \in 1..Len(toPhone) : i \in 1..Len(toPhone') /\ toPhone'[i] = toPhone[i]
      /\ \A i \in 1..Len(toPhone') : i \notin 1..Len(toPhone) =>
            /\ toPhone'[i] = f /\ i = Len(toPhone) + 1
            /\ f.kind = "event" => opening[f.session] = NoBuffer
  BY <1>1 DEF Queued
<1>4. \A t \in Session : opening'[t].open = opening[t].open
  BY <1>1 DEF PushedOut
<1>5. \A t, i : i \in 1..Len(toPhone') /\ Holds(toPhone', i, Answers, t) =>
          i \in 1..Len(toPhone) /\ Holds(toPhone, i, Answers, t)
  BY <1>2, <1>3 DEF Holds
<1>6. AnswersOK'
  <2> SUFFICES ASSUME NEW t \in Session, t \notin replaced PROVE AnswersOf(t)'
    BY DEF AnswersOK, Recorded
  <2>1. AnswersOf(t)
    BY DEF AnswersOK
  <2>2. \A r \in reads : r.session = t =>
            /\ opening'[t].open = r.open
            /\ \A r2 \in reads : r2.session = t => r2 = r
            /\ \A i \in 1..Len(toPhone') : ~Holds(toPhone', i, Answers, t)
    BY <1>4, <1>5, <2>1 DEF AnswersOf
  <2>3. ASSUME NEW r \in reads, r.session = t, r.upTo # NoCopy
        PROVE  /\ copy[t] <= r.upTo
               /\ \A i \in 1..Len(toPhone') : Holds(toPhone', i, {"event"}, t) => toPhone'[i].n <= r.upTo
    <3>1. opening[t] # NoBuffer
      BY <1>1, <2>1, <2>3 DEF AnswersOf, Parts, NoBuffer
    <3>2. \A i \in 1..Len(toPhone') : Holds(toPhone', i, {"event"}, t) => i \in 1..Len(toPhone)
      BY <1>3, <3>1 DEF Holds
    <3>3. QED
      BY <1>3, <2>1, <2>3, <3>2 DEF AnswersOf, Holds
  <2>4. ASSUME NEW j \in 1..Len(toPhone'), Holds(toPhone', j, Answers, t)
        PROVE  /\ \A i \in 1..Len(toPhone') : Holds(toPhone', i, Answers, t) => i = j
               /\ toPhone'[j].kind = "tail" =>
                     /\ t \in opened /\ copy[t] <= toPhone'[j].n
                     /\ \A i \in 1..Len(toPhone') : i < j /\ Holds(toPhone', i, {"event"}, t)
                           => toPhone'[i].n <= toPhone'[j].n
    <3>1. j \in 1..Len(toPhone) /\ Holds(toPhone, j, Answers, t) /\ toPhone'[j] = toPhone[j]
      BY <1>3, <1>5, <2>4
    <3>2. \A i \in 1..Len(toPhone') : i < j => i \in 1..Len(toPhone) /\ toPhone'[i] = toPhone[i]
      BY <1>1, <1>3, <3>1 DEF Parts
    <3>3. \A i \in 1..Len(toPhone') : Holds(toPhone', i, Answers, t) => i = j
      BY <1>5, <2>1, <3>1 DEF AnswersOf
    <3>4. toPhone[j].kind = "tail" =>
              /\ t \in opened /\ copy[t] <= toPhone[j].n
              /\ \A i \in 1..Len(toPhone) : i < j /\ Holds(toPhone, i, {"event"}, t)
                    => toPhone[i].n <= toPhone[j].n
      BY <2>1, <3>1 DEF AnswersOf
    <3>5. QED
      BY <3>1, <3>2, <3>3, <3>4 DEF Holds
  <2>5. page[t] = "live" => t \in opened
    BY <2>1 DEF AnswersOf
  <2>6. QED
    BY <2>2, <2>3, <2>4, <2>5 DEF AnswersOf, Recorded, Holds
<1>7. \A t \in Session, e \in Int : Since(t, e) => Since(t, e)'
  <2> SUFFICES ASSUME NEW t \in Session, NEW e \in Int, Since(t, e) PROVE Since(t, e)'
    OBVIOUS
  <2> SUFFICES ASSUME NEW k \in Nat, e < k, k <= recorded'[t]
               PROVE  \E x \in 1..Len(log') :
                         log'[x].kind = "event" /\ log'[x].session = t /\ log'[x].n = k
    BY DEF Since
  <2>1. CASE k <= recorded[t]
    <3>1. \E x \in 1..Len(log) : log[x].kind = "event" /\ log[x].session = t /\ log[x].n = k
      BY <2>1 DEF Since
    <3>2. QED
      BY <1>1, <3>1 DEF Longer
  <2>2. CASE ~(k <= recorded[t])
    <3>1. recorded'[t] # recorded[t]
      BY <2>2
    <3>2. f.kind = "event" /\ f.session = t /\ f.n = recorded[t] + 1 /\ f.n = recorded'[t]
      BY <3>1 DEF Recorded
    <3>3. f.n = k
      BY <1>1, <2>2, <3>2 DEF Parts
    <3>4. QED
      BY <1>1, <3>2, <3>3 DEF Longer
  <2>3. QED
    BY <2>1, <2>2
<1>8. SinceOK'
  <2>1. ASSUME ~mistaken, cursor.life = life, NEW t \in Session, copy[t] # NoCopy
        PROVE  Since(t, copy[t])'
    <3>1. Since(t, copy[t]) /\ copy[t] \in Int
      BY <1>1, <2>1 DEF SinceOK, Parts
    <3>2. PICK e \in Int : e = copy[t]
      BY <3>1
    <3>3. Since(t, e)'
      BY <1>7, <3>1, <3>2
    <3>4. copy'[t] = e
      BY <3>2 DEF Recorded
    <3>5. QED
      BY <3>3, <3>4 DEF Since
  <2>2. ASSUME NEW r \in reads, r.upTo # NoCopy
        PROVE  Since(r.session, r.upTo)'
    <3>1. Since(r.session, r.upTo) /\ r.session \in Session /\ r.upTo \in Int
      BY <1>1, <2>2 DEF SinceOK, Parts
    <3>2. QED
      BY <1>7, <3>1
  <2>3. ASSUME NEW j \in 1..Len(toPhone'), toPhone'[j].kind = "tail"
        PROVE  Since(toPhone[j].session, toPhone[j].n)' /\ toPhone'[j] = toPhone[j]
    <3>1. j \in 1..Len(toPhone) /\ toPhone'[j] = toPhone[j]
      BY <1>2, <1>3, <2>3 DEF Answers
    <3>2. /\ Since(toPhone[j].session, toPhone[j].n)
          /\ toPhone[j].session \in Session /\ toPhone[j].n \in Int
      BY <1>1, <2>3, <3>1 DEF SinceOK, FramesIn
    <3>3. QED
      BY <1>7, <3>1, <3>2
  <2>4. QED
    BY <2>1, <2>2, <2>3 DEF SinceOK, Since, Recorded
<1>9. QED
  BY <1>6, <1>8

\* A frame that is recorded is under way to every copy that lacks it.
LEMMA RecordedCopies ==
    ASSUME StateOK, CursorOK, FramesOK, IdleOK, AnswersOK, KeptOK, CopiesOK,
           NEW f, Recorded(f)
    PROVE  CopiesOK'
<1> DEFINE top == Len(log) + 1
<1>1. Parts /\ PushedOut(f) /\ Queued(f) /\ Longer(f) /\ FramesIn(toPhone)
  BY PartsFact, QueuedFact, LongerFact DEF Recorded
<1>2. /\ Len(log) \in Nat /\ top \in 1..Len(log') /\ Len(log') = top /\ log'[top] = f /\ f.seq = top
      /\ \A x \in 1..Len(log) : x \in 1..Len(log') /\ log'[x] = log[x] /\ x < top
      /\ \A x \in 1..Len(log') : x \in 1..Len(log) \/ x = top
  BY <1>1 DEF Longer
<1>3. /\ f.kind \in Numbered /\ f.kind # "welcome" /\ f.kind # "resync" /\ f.kind # "tail"
  BY DEF Recorded, Numbered
<1>4. /\ \A i \in 1..Len(toPhone) : i \in 1..Len(toPhone') /\ toPhone'[i] = toPhone[i]
      /\ \A i \in 1..Len(toPhone') : i \notin 1..Len(toPhone) =>
            toPhone'[i] = f /\ status = "open"
  BY <1>1 DEF Queued
<1>5. status' = "open" => status = "open"
  BY <1>1 DEF PushedOut
<1>6. \A t \in Session : \A x : Held(x, t) => Held(x, t)'
  BY <1>1 DEF Queued, Held
<1>7. \A t \in Session : \A x : UnderWay(x, t) => UnderWay(x, t)'
  BY <1>4, <1>6 DEF UnderWay
<1>8. \A x : Due(x)' => Due(x)
  BY <1>4, <1>5 DEF Due
<1>9. \A x : Late(x)' => Late(x)
  BY <1>3, <1>4, <1>8 DEF Late, Recorded
<1>10. Resyncs => Resyncs'
  BY <1>4 DEF Resyncs
<1>11. \A i \in 1..Len(toPhone') : toPhone'[i].kind = "tail" =>
           i \in 1..Len(toPhone) /\ toPhone'[i] = toPhone[i]
  BY <1>3, <1>4
<1>12. \A i \in 1..Len(toPhone) : ~(top <= toPhone[i].seq) /\ toPhone[i].seq \in Nat
  <2> SUFFICES ASSUME NEW i \in 1..Len(toPhone)
               PROVE  ~(top <= toPhone[i].seq) /\ toPhone[i].seq \in Nat
    OBVIOUS
  <2>1. toPhone[i].seq \in 1..Len(log) \/ toPhone[i].seq = 0
    BY DEF FramesOK
  <2>2. QED
    BY <1>2, <2>1
<1> HIDE DEF top
<1> SUFFICES ASSUME NEW t \in Safe, NEW x \in 1..Len(log'), EventIn(x, t)'
             PROVE  CopyOf(t, x)'
  <2>1. Safe' = Safe
    BY DEF Safe, Recorded
  <2>2. QED
    BY <2>1 DEF CopiesOK
<1>13. t \in Session /\ t \in Session \ replaced
  BY DEF Safe
<1>14. AnswersOf(t)
  BY <1>13 DEF AnswersOK
<1>15. CASE x \in 1..Len(log)
  <2>1. EventIn(x, t) /\ log'[x] = log[x]
    BY <1>2, <1>15 DEF EventIn
  <2>2. CopyOf(t, x)
    BY <1>15, <2>1 DEF CopiesOK
  <2>3. ASSUME ~mistaken, cursor.life = life, copy[t] # NoCopy, copy[t] < log[x].n
        PROVE  /\ x <= cursor.seq => UnderWay(x, t)'
               /\ Due(x)' /\ ~Resyncs' => UnderWay(x, t)'
    BY <1>7, <1>8, <1>10, <1>13, <2>2, <2>3 DEF CopyOf
  <2>4. ASSUME NEW j \in 1..Len(toPhone'), Holds(toPhone', j, {"tail"}, t), toPhone'[j].n < log[x].n,
               Late(x)'
        PROVE  UnderWay(x, t)'
    <3>1. j \in 1..Len(toPhone) /\ Holds(toPhone, j, {"tail"}, t) /\ toPhone[j].n < log[x].n
      BY <1>11, <2>4 DEF Holds
    <3>2. UnderWay(x, t)
      BY <1>9, <2>2, <2>4, <3>1 DEF CopyOf
    <3>3. QED
      BY <1>7, <1>13, <3>2
  <2>5. ASSUME NEW r \in reads, r.session = t, r.upTo # NoCopy, r.upTo < log[x].n
        PROVE  Held(x, t)'
    BY <1>6, <1>13, <2>2, <2>5 DEF CopyOf
  <2>6. QED
    BY <2>1, <2>3, <2>4, <2>5 DEF CopyOf, Recorded, Holds
<1>16. CASE x = top
  <2>1. f.kind = "event" /\ f.session = t /\ log'[x] = f /\ f.seq = x
    BY <1>2, <1>16 DEF EventIn
  <2>2. ~(x <= cursor.seq /\ cursor.life = life)
    BY <1>1, <1>2, <1>16 DEF CursorOK, Parts, top
  <2>3. Buffered(f) => Held(x, t)' /\ UnderWay(x, t)'
    BY <2>1 DEF Buffered, Held, UnderWay
  <2>4. Arrived(f) => UnderWay(x, t)'
    BY <2>1 DEF Arrived, UnderWay
  <2>5. ASSUME \E i \in 1..Len(toPhone') : x <= toPhone'[i].seq
        PROVE  Arrived(f)
    BY <1>4, <1>12, <1>16, <2>5 DEF Arrived
  <2>6. ASSUME status' = "open", t \in opened \/ t \in watch
        PROVE  UnderWay(x, t)'
    <3>1. Accepts(f, watch)
      BY <2>1, <2>6 DEF Accepts
    <3>2. Arrived(f) \/ Buffered(f)
      BY <1>1, <2>6, <3>1 DEF PushedOut
    <3>3. QED
      BY <2>3, <2>4, <3>2
  <2>7. ASSUME ~mistaken, cursor.life = life, copy[t] # NoCopy, Due(x)'
        PROVE  UnderWay(x, t)'
    <3>1. CASE status' = "open"
      <4>1. t \in watch \/ page[t] = "live"
        BY <1>5, <1>13, <2>7, <3>1 DEF KeptOK
      <4>2. t \in opened \/ t \in watch
        BY <1>14, <4>1 DEF AnswersOf
      <4>3. QED
        BY <2>6, <3>1, <4>2
    <3>2. CASE status' # "open"
      BY <2>4, <2>5, <2>7, <3>2 DEF Due
    <3>3. QED
      BY <3>1, <3>2
  <2>8. ASSUME NEW j \in 1..Len(toPhone'), Holds(toPhone', j, {"tail"}, t), Late(x)'
        PROVE  UnderWay(x, t)'
    <3>1. j \in 1..Len(toPhone) /\ Holds(toPhone, j, {"tail"}, t)
      BY <1>11, <2>8 DEF Holds
    <3>2. t \in opened
      BY <1>14, <3>1 DEF AnswersOf, Holds, Answers
    <3>3. ASSUME NEW i \in 1..Len(toPhone'), toPhone'[i].kind \in {"welcome", "resync"}
          PROVE  ~(x <= toPhone'[i].n)
      <4>1. i \in 1..Len(toPhone) /\ toPhone'[i] = toPhone[i]
        BY <1>3, <1>4, <3>3
      <4>2. toPhone[i].n <= Len(log) /\ toPhone[i].n \in Nat
        BY <1>1, <3>3, <4>1 DEF FramesOK, FramesIn
      <4>3. QED
        BY <1>2, <1>16, <4>1, <4>2 DEF top
    <3>4. Due(x)'
      BY <2>2, <2>8, <3>3 DEF Late, Recorded
    <3>5. QED
      BY <2>4, <2>5, <2>6, <3>2, <3>4 DEF Due
  <2>9. ASSUME NEW r \in reads, r.session = t PROVE Held(x, t)'
    <3>1. opening[t] # NoBuffer
      BY <1>1, <1>14, <2>9 DEF AnswersOf, Parts, NoBuffer
    <3>2. status # "none"
      BY <2>9 DEF IdleOK
    <3>3. Buffered(f)
      BY <1>1, <2>1, <3>1, <3>2 DEF PushedOut
    <3>4. QED
      BY <2>3, <3>3
  <2>10. QED
    BY <2>2, <2>7, <2>8, <2>9 DEF CopyOf, Recorded, Holds
<1>17. QED
  BY <1>2, <1>15, <1>16

\* A recorded frame keeps the invariant.
LEMMA RecordedStep ==
    ASSUME ReplayInv, NEW f, Recorded(f)
    PROVE  ReplayInv'
<1>1. StateOK' /\ OpensOK' /\ IdleOK' /\ KeptOK' /\ SnapshotOK'
  BY RecordedOpens DEF ReplayInv
<1>2. LogOK' /\ CursorOK' /\ FramesOK' /\ BeginOK' /\ OrderOK' /\ HeldOK' /\ LifeOK'
  BY RecordedOrder DEF ReplayInv
<1>3. GlobalsOK'
  BY RecordedGlobals DEF ReplayInv
<1>4. AnswersOK' /\ SinceOK'
  BY RecordedAnswers DEF ReplayInv
<1>5. CopiesOK'
  BY RecordedCopies DEF ReplayInv
<1>6. QED
  BY <1>1, <1>2, <1>3, <1>4, <1>5 DEF ReplayInv

\* The bridge learns of an event.
LEMMA RecordEventStep ==
    ASSUME ReplayInv, NEW s \in Session, RecordEvent(s)
    PROVE  ReplayInv'
<1> DEFINE f == Event(s, recorded[s] + 1, Len(log) + 1)
<1>1. Parts /\ StateOK /\ LogOK
  BY PartsFact DEF ReplayInv
<1>2. /\ recorded[s] < appended[s] /\ recorded' = [recorded EXCEPT ![s] = recorded[s] + 1]
      /\ recorded'[s] = recorded[s] + 1
  BY <1>1 DEF RecordEvent, StateOK
<1>3. /\ log' = Append(log, f) /\ Push(f)
      /\ appended' = appended /\ life' = life /\ watch' = watch /\ opened' = opened
      /\ reads' = reads /\ cursor' = cursor /\ copy' = copy /\ page' = page /\ base' = base
      /\ got' = got /\ conns' = conns /\ opens' = opens
      /\ discarded' = discarded /\ overtaken' = overtaken /\ replaced' = replaced
      /\ mistaken' = mistaken
  BY <1>2 DEF RecordEvent, Record, phone, losses
<1>4. recorded[s] + 1 \in Nat /\ Len(log) + 1 \in Nat
  BY <1>1 DEF Parts
<1>5. /\ f \in Frame /\ f.seq = Len(log) + 1 /\ f.kind = "event" /\ f.session = s
      /\ f.n = recorded[s] + 1
  BY <1>4, Frames DEF Event
<1> HIDE DEF f
<1>6. PushedOut(f)
  BY <1>1, <1>3, <1>5, PushFact
<1>7. recorded' \in [Session -> Nat]
  BY <1>1, <1>2, <1>4 DEF StateOK
<1>8. ASSUME NEW t \in Session
      PROVE  /\ recorded[t] <= recorded'[t] /\ recorded'[t] <= appended[t]
             /\ recorded'[t] # recorded[t] => t = s
  <2>1. recorded[t] \in Nat /\ appended[t] \in Nat /\ recorded[t] <= appended[t]
    BY <1>1 DEF Parts, LogOK
  <2>2. recorded'[t] = IF t = s THEN recorded[t] + 1 ELSE recorded[t]
    BY <1>1, <1>2 DEF StateOK
  <2>3. QED
    BY <1>2, <2>1, <2>2
<1>9. Recorded(f)
  BY <1>2, <1>3, <1>5, <1>6, <1>7, <1>8 DEF Recorded, Numbered
<1>10. QED
  BY <1>9, RecordedStep

\* The bridge records a frame that is not about one session's events.
LEMMA RecordGlobalStep ==
    ASSUME ReplayInv, RecordGlobal
    PROVE  ReplayInv'
<1> DEFINE f == Global(Len(log) + 1)
<1>1. Parts /\ StateOK /\ LogOK
  BY PartsFact DEF ReplayInv
<1>2. /\ log' = Append(log, f) /\ Push(f) /\ recorded' = recorded
      /\ appended' = appended /\ life' = life /\ watch' = watch /\ opened' = opened
      /\ reads' = reads /\ cursor' = cursor /\ copy' = copy /\ page' = page /\ base' = base
      /\ got' = got /\ conns' = conns /\ opens' = opens
      /\ discarded' = discarded /\ overtaken' = overtaken /\ replaced' = replaced
      /\ mistaken' = mistaken
  BY DEF RecordGlobal, Record, phone, losses
<1>3. f \in Frame /\ f.seq = Len(log) + 1 /\ f.kind = "global"
  BY <1>1, Frames DEF Global, Parts
<1> HIDE DEF f
<1>4. PushedOut(f)
  BY <1>1, <1>2, <1>3, PushFact
<1>5. \A t \in Session : recorded[t] <= recorded[t] /\ recorded[t] <= appended[t]
  BY <1>1 DEF Parts, LogOK
<1>6. Recorded(f)
  BY <1>1, <1>2, <1>3, <1>4, <1>5 DEF Recorded, Numbered, StateOK
<1>7. QED
  BY <1>6, RecordedStep

-----------------------------------------------------------------------------
(* An open is answered.                                                    *)

\* The frames F were sent, as many of them as there was room for.
Grown(F) ==
    /\ toPhone' \in Seq(Frame) /\ Len(toPhone) \in Nat /\ Len(toPhone') \in Nat
    /\ \A i \in 1..Len(toPhone) : i \in 1..Len(toPhone') /\ toPhone'[i] = toPhone[i]
    /\ \A i \in 1..Len(toPhone') : i \notin 1..Len(toPhone) =>
          /\ status = "open"
          /\ i - Len(toPhone) \in 1..Len(F) /\ toPhone'[i] = F[i - Len(toPhone)]
    /\ status' = status \/ (status = "open" /\ status' = "closing")
    /\ status' = "open" => \A m \in 1..Len(F) :
          Len(toPhone) + m \in 1..Len(toPhone') /\ toPhone'[Len(toPhone) + m] = F[m]

\* The connection of a state is one that Send can work on.
LEMMA LinkFact ==
    ASSUME StateOK
    PROVE  Link \in LinkType /\ Link.status = status /\ Link.queue = toPhone
  BY DEF StateOK, Link, LinkType

\* What Sent says of the connection.
LEMMA GrownFact ==
    ASSUME StateOK, NEW F \in Seq(Frame), NEW out, Sent(Link, F, Len(F), out), Output(out)
    PROVE  Grown(F)
<1>1. Link \in LinkType /\ Link.status = status /\ Link.queue = toPhone
  BY LinkFact
<1>2. status' = out.status /\ toPhone' = out.queue /\ out \in LinkType
  BY DEF Output, Sent
<1>3. toPhone \in Seq(Frame) /\ toPhone' \in Seq(Frame) /\ Len(toPhone) \in Nat /\ Len(toPhone') \in Nat
      /\ Len(F) \in Nat
  BY <1>2 DEF StateOK, LinkType
<1>4. /\ status # "open" => out = Link
      /\ status = "open" => status' \in {"open", "closing"}
      /\ Len(toPhone) <= Len(toPhone') /\ Len(toPhone') <= Len(toPhone) + Len(F)
      /\ \A i \in 1..Len(toPhone) : toPhone'[i] = toPhone[i]
      /\ \A m \in 1..Len(F) : Len(toPhone) + m <= Len(toPhone') => toPhone'[Len(toPhone) + m] = F[m]
      /\ status' = "open" => Len(toPhone') = Len(toPhone) + Len(F)
  BY <1>1, <1>2 DEF Sent
<1>5. status # "open" => status' = status /\ toPhone' = toPhone
  BY <1>1, <1>2, <1>4
<1> DEFINE k == Len(toPhone)
           p == Len(toPhone')
           l == Len(F)
<1>6. \A i \in 1..k : i \in 1..p /\ toPhone'[i] = toPhone[i]
  <2>1. k \in Nat /\ p \in Nat /\ k <= p
    BY <1>3, <1>4
  <2>2. \A i \in 1..k : i \in 1..p
    <3> HIDE DEF k, p
    <3>1. QED
      BY <2>1
  <2>3. QED
    BY <1>4, <2>2
<1>7. ASSUME NEW i \in 1..p, i \notin 1..k
      PROVE  status = "open" /\ i - k \in 1..l /\ toPhone'[i] = F[i - k]
  <2>1. status = "open"
    BY <1>5, <1>7
  <2>2. k \in Nat /\ p \in Nat /\ l \in Nat /\ p <= k + l
    BY <1>3, <1>4
  <2>3. i - k \in 1..l /\ k + (i - k) = i /\ i <= p
    <3> HIDE DEF k, p, l
    <3>1. QED
      BY <1>7, <2>2
  <2>4. k + (i - k) <= p
    BY <2>3
  <2>5. toPhone'[k + (i - k)] = F[i - k]
    BY <1>4, <2>3, <2>4
  <2>6. QED
    BY <2>1, <2>3, <2>5
<1>8. ASSUME status' = "open", NEW m \in 1..l
      PROVE  k + m \in 1..p /\ toPhone'[k + m] = F[m]
  <2>1. k \in Nat /\ p \in Nat /\ l \in Nat /\ p = k + l
    BY <1>3, <1>4, <1>8
  <2>2. k + m \in 1..p /\ k + m <= p
    <3> HIDE DEF k, p, l
    <3>1. QED
      BY <2>1
  <2>3. QED
    BY <1>4, <2>2
<1>9. QED
  BY <1>3, <1>4, <1>5, <1>6, <1>7, <1>8 DEF Grown

\* A list is sent after another.
LEMMA SentThen ==
    ASSUME NEW a \in LinkType, NEW F \in Seq(Frame), NEW G \in Seq(Frame), NEW b, NEW c,
           Sent(a, F, Len(F), b), Sent(b, G, Len(G), c)
    PROVE  Sent(a, F \o G, Len(F \o G), c)
<1> DEFINE H == F \o G
           k == Len(a.queue)
           l == Len(F)
           m == Len(G)
           q == Len(b.queue)
           p == Len(c.queue)
<1>1. /\ H \in Seq(Frame) /\ Len(H) = l + m /\ l \in Nat /\ m \in Nat
      /\ \A i \in 1..l : H[i] = F[i]
      /\ \A i \in 1..(l + m) : i \notin 1..l => H[i] = G[i - l]
  OBVIOUS
<1>2. /\ b \in LinkType
      /\ a.status # "open" => b = a
      /\ a.status = "open" => b.status \in {"open", "closing"}
      /\ k <= q /\ q <= k + l
      /\ \A i \in 1..k : b.queue[i] = a.queue[i]
      /\ \A i \in 1..l : k + i <= q => b.queue[k + i] = F[i]
      /\ b.status = "open" => q = k + l
  BY DEF Sent
<1>3. /\ c \in LinkType
      /\ b.status # "open" => c = b
      /\ b.status = "open" => c.status \in {"open", "closing"}
      /\ q <= p /\ p <= q + m
      /\ \A i \in 1..q : c.queue[i] = b.queue[i]
      /\ \A i \in 1..m : q + i <= p => c.queue[q + i] = G[i]
      /\ c.status = "open" => p = q + m
  BY DEF Sent
<1>4. k \in Nat /\ q \in Nat /\ p \in Nat
  BY <1>2, <1>3 DEF LinkType
<1> HIDE DEF H, k, l, m, q, p
<1>5. k <= p /\ p <= k + (l + m) /\ \A i \in 1..k : i \in 1..q
  BY <1>1, <1>2, <1>3, <1>4
<1>6. \A i \in 1..k : c.queue[i] = a.queue[i]
  BY <1>2, <1>3, <1>5
<1>7. ASSUME NEW i \in 1..(l + m), k + i <= p
      PROVE  c.queue[k + i] = H[i]
  <2>1. CASE i \in 1..l
    <3>1. CASE k + i <= q
      <4>1. k + i \in 1..q
        BY <1>1, <1>4, <2>1, <3>1
      <4>2. QED
        BY <1>1, <1>2, <1>3, <2>1, <3>1, <4>1
    <3>2. CASE ~(k + i <= q)
      <4>1. b.status # "open"
        BY <1>1, <1>2, <1>4, <2>1, <3>2
      <4>2. p = q
        BY <1>3, <4>1 DEF p, q
      <4>3. QED
        BY <1>7, <3>2, <4>2
    <3>3. QED
      BY <3>1, <3>2
  <2>2. CASE i \notin 1..l
    <3>1. b.status = "open"
      <4>1. b.status # "open" => p = q
        BY <1>3 DEF p, q
      <4>2. ~(k + i <= k + l)
        BY <1>1, <1>4, <2>2
      <4>3. QED
        BY <1>1, <1>2, <1>4, <1>7, <4>1, <4>2
    <3>2. q = k + l
      BY <1>2, <3>1
    <3>3. i - l \in 1..m /\ q + (i - l) = k + i
      BY <1>1, <1>4, <2>2, <3>2
    <3>4. c.queue[q + (i - l)] = G[i - l]
      BY <1>3, <1>7, <3>3
    <3>5. QED
      BY <1>1, <2>2, <3>3, <3>4
  <2>3. QED
    BY <2>1, <2>2
<1>8. a.status # "open" => c = a
  <2>1. a.status # "open" => b = a
    BY <1>2
  <2>2. QED
    BY <1>3, <2>1
<1>9. a.status = "open" => c.status \in {"open", "closing"}
  BY <1>2, <1>3
<1>10. c.status = "open" => p = k + (l + m)
  <2>1. c.status = "open" => b.status = "open"
    BY <1>3
  <2>2. QED
    BY <1>1, <1>2, <1>3, <1>4, <2>1
<1>11. Sent(a, H, l + m, c)
  BY <1>3, <1>5, <1>6, <1>7, <1>8, <1>9, <1>10 DEF Sent, k, p
<1>12. QED
  BY <1>1, <1>11 DEF H

\* Open r is answered with F, the answer and what was held back for it.
Replied(r, F) ==
    LET s == r.session
        own == opening[s].open = r.open
        held == opening[s].frames
    IN  /\ F \in Seq(Frame) /\ Len(F) \in Nat /\ 1 \in 1..Len(F) /\ Grown(F)
        /\ F[1].kind \in Answers /\ F[1].session = s /\ F[1].seq = 0
        /\ F[1].kind = "tail" => r.upTo # NoCopy /\ F[1].n = r.upTo /\ (own => s \in opened')
        /\ \A m \in 1..Len(F) : m # 1 => m - 1 \in 1..Len(held) /\ F[m] = held[m - 1] /\ own
        /\ reads' = reads \ {r}
        /\ opening' \in [Session -> Buffer]
        /\ \A t \in Session : t # s => opening'[t] = opening[t]
        /\ opening'[s] = IF own THEN NoBuffer ELSE opening[s]
        /\ opened \subseteq opened' /\ opened' \subseteq Session
        /\ \A t \in opened' : t \in opened \/ (t = s /\ own /\ F[1].kind = "tail")
        /\ own /\ s \notin discarded' \cup overtaken' =>
              \/ held = <<>>
              \/ status' = "open" /\ Len(F) = Len(held) + 1
        /\ discarded \subseteq discarded' /\ discarded' \subseteq Session
        /\ overtaken \subseteq overtaken' /\ overtaken' \subseteq Session
        /\ appended' = appended /\ life' = life /\ recorded' = recorded /\ log' = log
        /\ watch' = watch /\ cursor' = cursor /\ copy' = copy /\ page' = page
        /\ base' = base /\ got' = got /\ conns' = conns /\ opens' = opens
        /\ replaced' = replaced /\ mistaken' = mistaken

\* The frames of the answer: after the first, events of the session in their order.
Fresh(F, s) ==
    /\ F[1].kind \in Answers /\ F[1].session = s /\ F[1].seq = 0 /\ F[1].n \in Nat
    /\ \A m \in 1..Len(F) : m # 1 =>
          /\ F[m].kind = "event" /\ F[m].session = s
          /\ F[m].seq \in 1..Len(log) /\ F[m] = log[F[m].seq]
          /\ \A l \in 1..Len(F) : l # 1 /\ l < m => F[l].seq < F[m].seq
          /\ \A j \in 1..Len(toPhone) : Holds(toPhone, j, {"event"}, s) => toPhone[j].seq < F[m].seq

\* What the answer of an open releases is newer than what was sent before it.
LEMMA FreshFact ==
    ASSUME StateOK, HeldOK, NEW r \in reads, NEW F, Replied(r, F)
    PROVE  Fresh(F, r.session)
<1> DEFINE s == r.session
           held == opening[s].frames
<1>1. /\ F \in Seq(Frame) /\ Len(F) \in Nat /\ 1 \in 1..Len(F)
      /\ F[1].kind \in Answers /\ F[1].session = s /\ F[1].seq = 0
      /\ \A m \in 1..Len(F) : m # 1 => m - 1 \in 1..Len(held) /\ F[m] = held[m - 1]
  BY DEF Replied
<1>2. F[1].n \in Nat /\ s \in Session
  BY <1>1, FramesInFact, PartsFact DEF FramesIn, Parts
<1>3. ASSUME NEW m \in 1..Len(F), m # 1
      PROVE  /\ F[m].kind = "event" /\ F[m].session = s
             /\ F[m].seq \in 1..Len(log) /\ F[m] = log[F[m].seq]
             /\ \A l \in 1..Len(F) : l # 1 /\ l < m => F[l].seq < F[m].seq
             /\ \A j \in 1..Len(toPhone) : Holds(toPhone, j, {"event"}, s) => toPhone[j].seq < F[m].seq
  <2>1. m - 1 \in 1..Len(held) /\ F[m] = held[m - 1]
    BY <1>1, <1>3
  <2>2. /\ held[m - 1].kind = "event" /\ held[m - 1].session = s
        /\ held[m - 1].seq \in 1..Len(log) /\ held[m - 1] = log[held[m - 1].seq]
        /\ \A j \in 1..Len(held) : j < m - 1 => held[j].seq < held[m - 1].seq
        /\ \A j \in 1..Len(toPhone) : Holds(toPhone, j, {"event"}, s) => toPhone[j].seq < held[m - 1].seq
    BY <1>2, <2>1 DEF HeldOK
  <2>3. ASSUME NEW l \in 1..Len(F), l # 1, l < m PROVE F[l].seq < F[m].seq
    <3>1. l - 1 \in 1..Len(held) /\ F[l] = held[l - 1]
      BY <1>1, <2>3
    <3>2. l - 1 < m - 1
      BY <1>1, <2>3
    <3>3. QED
      BY <2>1, <2>2, <3>1, <3>2
  <2>4. QED
    BY <2>1, <2>2, <2>3
<1>4. QED
  BY <1>1, <1>2, <1>3 DEF Fresh

\* A reader is there only while there is a connection.
LEMMA RepliedOpens ==
    ASSUME StateOK, OpensOK, IdleOK, KeptOK, SnapshotOK, LogOK, CursorOK, HeldOK,
           NEW r \in reads, NEW F, Replied(r, F)
    PROVE  StateOK' /\ OpensOK' /\ IdleOK' /\ KeptOK' /\ SnapshotOK' /\ LogOK' /\ CursorOK'
<1> DEFINE s == r.session
<1>1. Parts /\ FramesIn(toPhone) /\ Grown(F) /\ Fresh(F, s) /\ s \in Session
  BY PartsFact, FreshFact DEF Replied, Parts
<1>2. status # "none" /\ status' # "none"
  BY <1>1 DEF IdleOK, Grown
<1>3. StateOK'
  <2>1. toPhone' \in Seq(Frame) /\ status' \in {"none", "open", "closing"}
    BY <1>1 DEF Grown, StateOK
  <2>2. opening' \in [Session -> Buffer] /\ opened' \subseteq Session /\ reads' \subseteq Read
    BY DEF Replied, StateOK
  <2>3. QED
    BY <2>1, <2>2 DEF StateOK, Replied
<1>4. OpensOK'
  <2>1. /\ \A r1 \in reads' : r1.open <= opens
        /\ \A r1, r2 \in reads' : r1.open = r2.open => r1 = r2
    BY DEF OpensOK, Replied
  <2>2. ASSUME NEW t \in Session
        PROVE  IF opening'[t].open = 0 THEN opening'[t] = NoBuffer
               ELSE page[t] # "none" /\ \E r1 \in reads' : r1.session = t /\ r1.open = opening'[t].open
    <3>1. CASE opening'[t] = NoBuffer
      BY <3>1 DEF NoBuffer
    <3>2. CASE opening'[t] # NoBuffer
      <4>1. opening'[t] = opening[t] /\ (t = s => opening[t].open # r.open)
        BY <3>2 DEF Replied
      <4>2. opening[t].open # 0
        BY <3>2, <4>1 DEF OpensOK
      <4>3. page[t] # "none" /\ \E r1 \in reads : r1.session = t /\ r1.open = opening[t].open
        BY <4>2 DEF OpensOK
      <4>4. PICK r1 \in reads : r1.session = t /\ r1.open = opening[t].open
        BY <4>3
      <4>5. r1 # r
        BY <4>1, <4>4
      <4>6. QED
        BY <4>1, <4>2, <4>3, <4>4, <4>5 DEF Replied
    <3>3. QED
      BY <3>1, <3>2
  <2>3. ASSUME status' = "open", NEW t \in opened'
        PROVE  \/ page[t] = "live"
               \/ page[t] = "asked" /\ \E i \in 1..Len(toPhone') : Holds(toPhone', i, {"tail"}, t)
    <3>1. status = "open"
      BY <1>1, <2>3 DEF Grown
    <3>2. CASE t \in opened
      <4>1. \/ page[t] = "live"
            \/ page[t] = "asked" /\ \E i \in 1..Len(toPhone) : Holds(toPhone, i, {"tail"}, t)
        BY <3>1, <3>2 DEF OpensOK
      <4>2. QED
        BY <1>1, <4>1 DEF Grown, Holds
    <3>3. CASE t \notin opened
      <4>1. t = s /\ opening[s].open = r.open /\ F[1].kind = "tail" /\ F[1].session = s /\ 1 \in 1..Len(F)
        BY <2>3, <3>3 DEF Replied
      <4>2. page[t] # "none" /\ page[t] \in {"none", "asked", "live"}
        BY <1>1, <4>1 DEF OpensOK, Parts
      <4>3. Len(toPhone) + 1 \in 1..Len(toPhone') /\ toPhone'[Len(toPhone) + 1] = F[1]
        BY <1>1, <2>3, <4>1 DEF Grown
      <4>4. Holds(toPhone', Len(toPhone) + 1, {"tail"}, t)
        BY <4>1, <4>3 DEF Holds
      <4>5. QED
        BY <4>2, <4>3, <4>4
    <3>4. QED
      BY <3>2, <3>3
  <2>4. QED
    BY <2>1, <2>2, <2>3 DEF OpensOK, Replied
<1>5. IdleOK'
  BY <1>2 DEF IdleOK
<1>6. KeptOK'
  BY <1>2 DEF KeptOK, Replied
<1>7. SnapshotOK'
  <2>1. ASSUME NEW j \in 1..Len(toPhone'), toPhone'[j].kind = "tail"
        PROVE  toPhone'[j].n <= appended[toPhone'[j].session]
    <3>1. CASE j \in 1..Len(toPhone)
      BY <1>1, <2>1, <3>1 DEF SnapshotOK, Grown
    <3>2. CASE j \notin 1..Len(toPhone)
      <4> DEFINE m == j - Len(toPhone)
      <4>1. m \in 1..Len(F) /\ toPhone'[j] = F[m]
        BY <1>1, <3>2 DEF Grown
      <4> HIDE DEF m
      <4>2. m = 1
        BY <1>1, <2>1, <4>1 DEF Fresh
      <4>3. F[1].n = r.upTo /\ F[1].session = s
        BY <2>1, <4>1, <4>2 DEF Replied
      <4>4. QED
        BY <4>1, <4>2, <4>3 DEF SnapshotOK
    <3>3. QED
      BY <3>1, <3>2
  <2>2. QED
    BY <2>1 DEF SnapshotOK, Replied
<1>8. LogOK' /\ CursorOK'
  BY DEF LogOK, CursorOK, Replied
<1>9. QED
  BY <1>3, <1>4, <1>5, <1>6, <1>7, <1>8

\* The order of what is under way.
LEMMA RepliedOrder ==
    ASSUME StateOK, FramesOK, BeginOK, OrderOK, HeldOK, LifeOK, GlobalsOK,
           NEW r \in reads, NEW F, Replied(r, F)
    PROVE  FramesOK' /\ BeginOK' /\ OrderOK' /\ HeldOK' /\ LifeOK' /\ GlobalsOK'
<1> DEFINE s == r.session
           k == Len(toPhone)
<1>1. Parts /\ FramesIn(toPhone) /\ Grown(F) /\ Fresh(F, s) /\ s \in Session /\ log' = log
  BY PartsFact, FreshFact DEF Replied, Parts
<1>2. /\ k \in Nat
      /\ \A i \in 1..k : i \in 1..Len(toPhone') /\ toPhone'[i] = toPhone[i]
      /\ \A i \in 1..Len(toPhone') : i \notin 1..k =>
            status = "open" /\ i - k \in 1..Len(F) /\ toPhone'[i] = F[i - k]
      /\ status' = "open" => status = "open"
      /\ Len(toPhone') \in Nat
  BY <1>1 DEF Grown
<1> HIDE DEF k
<1>3. ASSUME NEW i \in 1..Len(toPhone'), i \notin 1..k
      PROVE  /\ toPhone'[i] = F[i - k]
             /\ i - k = 1 => toPhone'[i].kind \in Answers /\ toPhone'[i].seq = 0
             /\ i - k # 1 => /\ toPhone'[i].kind = "event" /\ toPhone'[i].session = s
                             /\ toPhone'[i].seq \in 1..Len(log) /\ toPhone'[i] = log[toPhone'[i].seq]
             /\ toPhone'[i].kind \in {"event", "tail", "failed"}
  BY <1>1, <1>2, <1>3 DEF Fresh, Answers
<1>4. FramesOK'
  <2> SUFFICES ASSUME NEW i \in 1..Len(toPhone')
               PROVE  /\ IF toPhone'[i].kind \in Numbered
                         THEN toPhone'[i].seq \in 1..Len(log) /\ toPhone'[i] = log[toPhone'[i].seq]
                         ELSE toPhone'[i].seq = 0
                      /\ toPhone'[i].kind \in {"welcome", "resync"} => toPhone'[i].n <= Len(log)
    BY <1>1 DEF FramesOK
  <2>1. CASE i \in 1..k
    BY <1>2, <2>1 DEF FramesOK, k
  <2>2. CASE i \notin 1..k
    BY <1>3, <2>2 DEF Answers, Numbered
  <2>3. QED
    BY <2>1, <2>2
<1>5. BeginOK'
  <2>1. ASSUME NEW i \in 1..Len(toPhone')
        PROVE  /\ toPhone'[i].kind = "welcome" => i = 1
               /\ toPhone'[i].kind = "resync" =>
                     /\ cursor # NoCursor
                     /\ \A j \in 1..Len(toPhone') : j < i => toPhone'[j].kind = "welcome"
    <3>1. CASE i \in 1..k
      <4>1. \A j \in 1..Len(toPhone') : j < i => j \in 1..k
        BY <1>2, <3>1
      <4>2. QED
        BY <1>2, <3>1, <4>1 DEF BeginOK, k
    <3>2. CASE i \notin 1..k
      BY <1>3, <3>2
    <3>3. QED
      BY <3>1, <3>2
  <2>2. ASSUME cursor = NoCursor
        PROVE  /\ status' = "open" => toPhone' # <<>>
               /\ toPhone' # <<>> => toPhone'[1].kind = "welcome"
    <3>1. CASE toPhone = <<>>
      <4>1. status # "open"
        BY <2>2, <3>1 DEF BeginOK
      <4>2. \A i \in 1..Len(toPhone') : i \in 1..k
        BY <1>2, <4>1
      <4>3. toPhone' = <<>>
        <5>1. k = 0
          BY <3>1 DEF k
        <5>2. Len(toPhone') = 0 /\ toPhone' \in Seq(Frame)
          BY <1>1, <1>2, <4>2, <5>1 DEF Grown
        <5>3. QED
          BY <5>2
      <4>4. QED
        BY <1>2, <4>1, <4>3
    <3>2. CASE toPhone # <<>>
      <4>1. 1 \in 1..k
        BY <1>1, <3>2 DEF Parts, k
      <4>2. toPhone[1].kind = "welcome"
        BY <2>2, <3>2 DEF BeginOK
      <4>3. 1 \in 1..Len(toPhone') /\ toPhone'[1].kind = "welcome"
        BY <1>2, <4>1, <4>2
      <4>4. QED
        BY <4>3
    <3>3. QED
      BY <3>1, <3>2
  <2>3. QED
    BY <2>1, <2>2 DEF BeginOK, Replied
<1>6. OrderOK'
  <2> SUFFICES ASSUME NEW i \in 1..Len(toPhone'), NEW j \in 1..Len(toPhone'), i < j
               PROVE  /\ toPhone'[j].kind = "global" => toPhone'[i].seq < toPhone'[j].seq
                      /\ toPhone'[i].kind = "event" /\ toPhone'[j].kind = "event"
                            /\ toPhone'[i].session = toPhone'[j].session
                         => toPhone'[i].seq < toPhone'[j].seq
    BY DEF OrderOK
  <2>1. CASE j \in 1..k
    <3>1. i \in 1..k
      BY <1>2, <2>1
    <3>2. QED
      BY <1>2, <2>1, <3>1 DEF OrderOK, k
  <2>2. CASE j \notin 1..k
    <3>1. toPhone'[j].kind # "global"
      BY <1>3, <2>2
    <3>2. ASSUME toPhone'[i].kind = "event", toPhone'[j].kind = "event",
                 toPhone'[i].session = toPhone'[j].session
          PROVE  toPhone'[i].seq < toPhone'[j].seq
      <4>1. j - k \in 1..Len(F) /\ j - k # 1 /\ toPhone'[j] = F[j - k] /\ F[j - k].session = s
        BY <1>2, <1>3, <2>2, <3>2 DEF Answers
      <4>2. CASE i \in 1..k
        <5>1. Holds(toPhone, i, {"event"}, s) /\ toPhone'[i] = toPhone[i] /\ i \in 1..Len(toPhone)
          BY <1>2, <3>2, <4>1, <4>2 DEF Holds, k
        <5>2. toPhone[i].seq < F[j - k].seq
          BY <1>1, <4>1, <5>1 DEF Fresh
        <5>3. QED
          BY <4>1, <5>1, <5>2
      <4>3. CASE i \notin 1..k
        <5>1. i - k \in 1..Len(F) /\ i - k # 1 /\ toPhone'[i] = F[i - k]
          BY <1>2, <1>3, <3>2, <4>3 DEF Answers
        <5>2. i - k < j - k
          BY <1>2
        <5>3. F[i - k].seq < F[j - k].seq
          BY <1>1, <4>1, <5>1, <5>2 DEF Fresh
        <5>4. QED
          BY <4>1, <5>1, <5>3
      <4>4. QED
        BY <4>2, <4>3
    <3>3. QED
      BY <3>1, <3>2
  <2>3. QED
    BY <2>1, <2>2
<1>7. HeldOK'
  <2> SUFFICES ASSUME NEW t \in Session, NEW i \in 1..Len(opening'[t].frames)
               PROVE  LET g == opening'[t].frames[i]
                      IN  /\ g.kind = "event" /\ g.session = t
                          /\ g.seq \in 1..Len(log) /\ g = log[g.seq]
                          /\ \A j \in 1..Len(opening'[t].frames) : j < i => opening'[t].frames[j].seq < g.seq
                          /\ \A j \in 1..Len(toPhone') : Holds(toPhone', j, {"event"}, t) => toPhone'[j].seq < g.seq
    BY <1>1 DEF HeldOK, Holds
  <2>1. opening'[t] # NoBuffer
    <3>1. Len(NoBuffer.frames) = 0
      BY DEF NoBuffer
    <3>2. QED
      BY <3>1
  <2>2. opening'[t] = opening[t] /\ (t = s => opening[s].open # r.open)
    BY <2>1 DEF Replied
  <2>3. \A j \in 1..Len(toPhone') : Holds(toPhone', j, {"event"}, t) => j \in 1..k
    <3> SUFFICES ASSUME NEW j \in 1..Len(toPhone'), Holds(toPhone', j, {"event"}, t), j \notin 1..k
                 PROVE  FALSE
      OBVIOUS
    <3>1. toPhone'[j].kind = "event" /\ toPhone'[j].session = s /\ t = s /\ j - k # 1 /\ j - k \in 1..Len(F)
      BY <1>2, <1>3 DEF Holds, Answers
    <3>2. opening[s].open = r.open
      BY <3>1 DEF Replied
    <3>3. QED
      BY <2>2, <3>1, <3>2
  <2>4. QED
    BY <1>2, <2>2, <2>3 DEF HeldOK, Holds, k
<1>8. LifeOK'
  <2> SUFFICES ASSUME ~mistaken, cursor # NoCursor, cursor.life # life,
                      status' = "open" \/ \E i \in 1..Len(toPhone') : toPhone'[i].seq > 0
               PROVE  Resyncs'
    BY DEF LifeOK, Replied
  <2>1. status = "open" \/ \E i \in 1..Len(toPhone) : toPhone[i].seq > 0
    BY <1>2 DEF k
  <2>2. Resyncs
    BY <2>1 DEF LifeOK
  <2>3. QED
    BY <1>2, <2>2 DEF Resyncs, k
<1>9. GlobalsOK'
  <2> SUFFICES ASSUME ~mistaken, NEW x \in 1..Len(log), log[x].kind = "global"
               PROVE  /\ cursor.life = life /\ x <= cursor.seq => Has(x)
                      /\ Due(x)' => \/ \E i \in 1..Len(toPhone') : toPhone'[i].seq = x
                                    \/ \E i \in 1..Len(toPhone') : Renews(toPhone'[i]) /\ x <= toPhone'[i].n
                                    \/ Has(x) /\ \A i \in 1..Len(toPhone') : ~Renews(toPhone'[i])
    BY <1>1 DEF GlobalsOK, Has, Renews, Replied
  <2>1. /\ cursor.life = life /\ x <= cursor.seq => Has(x)
        /\ Due(x) => \/ \E i \in 1..Len(toPhone) : toPhone[i].seq = x
                     \/ \E i \in 1..Len(toPhone) : Renews(toPhone[i]) /\ x <= toPhone[i].n
                     \/ Has(x) /\ \A i \in 1..Len(toPhone) : ~Renews(toPhone[i])
    BY DEF GlobalsOK
  <2>2. Due(x)' => Due(x)
    BY <1>2 DEF Due, k
  <2>3. \A i \in 1..Len(toPhone') : Renews(toPhone'[i]) => i \in 1..k
    BY <1>3 DEF Renews
  <2>4. QED
    BY <1>2, <2>1, <2>2, <2>3 DEF k
<1>10. QED
  BY <1>4, <1>5, <1>6, <1>7, <1>8, <1>9

\* The copies and the answers.
LEMMA RepliedCopies ==
    ASSUME StateOK, HeldOK, AnswersOK, SinceOK, CopiesOK, NEW r \in reads, NEW F, Replied(r, F)
    PROVE  AnswersOK' /\ SinceOK' /\ CopiesOK'
<1> DEFINE s == r.session
           k == Len(toPhone)
           own == opening[s].open = r.open
<1>1. Parts /\ FramesIn(toPhone) /\ Grown(F) /\ Fresh(F, s) /\ s \in Session
  BY PartsFact, FreshFact DEF Replied, Parts
<1>2. /\ k \in Nat
      /\ \A i \in 1..k : i \in 1..Len(toPhone') /\ toPhone'[i] = toPhone[i]
      /\ \A i \in 1..Len(toPhone') : i \notin 1..k =>
            status = "open" /\ i - k \in 1..Len(F) /\ toPhone'[i] = F[i - k]
      /\ status' = "open" => status = "open"
      /\ status' = "open" => \A m \in 1..Len(F) : k + m \in 1..Len(toPhone') /\ toPhone'[k + m] = F[m]
      /\ Len(toPhone') \in Nat
  BY <1>1 DEF Grown
<1> HIDE DEF k
<1>3. ASSUME NEW i \in 1..Len(toPhone'), i \notin 1..k
      PROVE  /\ i - k = 1 => /\ toPhone'[i].kind \in Answers /\ toPhone'[i].seq = 0
                             /\ toPhone'[i].kind = "tail" => /\ r.upTo # NoCopy /\ toPhone'[i].n = r.upTo
                                                             /\ own => s \in opened'
             /\ i - k # 1 => toPhone'[i].kind = "event"
             /\ toPhone'[i].session = s /\ toPhone'[i].kind \in {"event", "tail", "failed"}
  <2>1. i - k \in 1..Len(F) /\ toPhone'[i] = F[i - k]
    BY <1>2, <1>3
  <2>2. i - k = 1 => /\ toPhone'[i].kind \in Answers /\ toPhone'[i].seq = 0 /\ toPhone'[i].session = s
                     /\ toPhone'[i].kind = "tail" => /\ r.upTo # NoCopy /\ toPhone'[i].n = r.upTo
                                                     /\ own => s \in opened'
    BY <2>1 DEF Replied
  <2>3. i - k # 1 => toPhone'[i].kind = "event" /\ toPhone'[i].session = s
    BY <1>1, <2>1 DEF Fresh
  <2>4. QED
    BY <2>2, <2>3 DEF Answers
<1>4. /\ reads' = reads \ {r} /\ opened \subseteq opened' /\ replaced' = replaced
      /\ copy' = copy /\ page' = page /\ log' = log /\ recorded' = recorded
      /\ cursor' = cursor /\ life' = life /\ mistaken' = mistaken
      /\ \A t \in Session : t # s => opening'[t] = opening[t]
  BY DEF Replied
<1>5. s \notin replaced => /\ AnswersOf(s) /\ own /\ \A r2 \in reads' : r2.session # s
                           /\ \A i \in 1..k : ~Holds(toPhone, i, Answers, s)
                           /\ r.upTo # NoCopy =>
                                /\ copy[s] <= r.upTo
                                /\ \A i \in 1..k : Holds(toPhone, i, {"event"}, s) => toPhone[i].n <= r.upTo
  <2> SUFFICES ASSUME s \notin replaced
               PROVE  /\ AnswersOf(s) /\ own /\ \A r2 \in reads' : r2.session # s
                      /\ \A i \in 1..k : ~Holds(toPhone, i, Answers, s)
                      /\ r.upTo # NoCopy =>
                           /\ copy[s] <= r.upTo
                           /\ \A i \in 1..k : Holds(toPhone, i, {"event"}, s) => toPhone[i].n <= r.upTo
    OBVIOUS
  <2>1. AnswersOf(s)
    BY <1>1 DEF AnswersOK
  <2>2. QED
    BY <1>4, <2>1 DEF AnswersOf, k
<1>6. \A i \in 1..Len(toPhone') : \A kinds, t : Holds(toPhone', i, kinds, t) /\ i \in 1..k =>
          Holds(toPhone, i, kinds, t)
  BY <1>2 DEF Holds
<1>7. AnswersOK'
  <2> SUFFICES ASSUME NEW t \in Session, t \notin replaced PROVE AnswersOf(t)'
    BY <1>4 DEF AnswersOK
  <2>1. AnswersOf(t)
    BY DEF AnswersOK
  <2>2. CASE t # s
    <3>1. \A i \in 1..Len(toPhone') : \A kinds : Holds(toPhone', i, kinds, t) =>
              i \in 1..k /\ Holds(toPhone, i, kinds, t)
      BY <1>3, <1>6, <2>2 DEF Holds
    <3>2. opening'[t] = opening[t] /\ (t \in opened => t \in opened')
      BY <1>4, <2>2
    <3>3. \A i \in 1..k : toPhone'[i] = toPhone[i] /\ i \in 1..Len(toPhone)
      BY <1>2 DEF k
    <3>4. ASSUME NEW r1 \in reads', r1.session = t
          PROVE  /\ opening'[t].open = r1.open
                 /\ \A r2 \in reads' : r2.session = t => r2 = r1
                 /\ \A i \in 1..Len(toPhone') : ~Holds(toPhone', i, Answers, t)
                 /\ r1.upTo # NoCopy =>
                      /\ copy[t] <= r1.upTo
                      /\ \A i \in 1..Len(toPhone') :
                            Holds(toPhone', i, {"event"}, t) => toPhone'[i].n <= r1.upTo
      <4>1. r1 \in reads
        BY <1>4
      <4>2. QED
        BY <1>4, <2>1, <3>1, <3>2, <3>3, <3>4, <4>1 DEF AnswersOf
    <3>5. ASSUME NEW j \in 1..Len(toPhone'), Holds(toPhone', j, Answers, t)
          PROVE  /\ \A i \in 1..Len(toPhone') : Holds(toPhone', i, Answers, t) => i = j
                 /\ toPhone'[j].kind = "tail" =>
                      /\ t \in opened' /\ copy[t] <= toPhone'[j].n
                      /\ \A i \in 1..Len(toPhone') : i < j /\ Holds(toPhone', i, {"event"}, t)
                            => toPhone'[i].n <= toPhone'[j].n
      BY <2>1, <3>1, <3>2, <3>3, <3>5 DEF AnswersOf
    <3>6. page[t] = "live" => t \in opened'
      BY <2>1, <3>2 DEF AnswersOf
    <3>7. QED
      BY <1>4, <3>4, <3>5, <3>6 DEF AnswersOf
  <2>3. CASE t = s
    <3>1. \A i \in 1..Len(toPhone') : Holds(toPhone', i, Answers, s) => i \notin 1..k /\ i = k + 1
      <4> SUFFICES ASSUME NEW i \in 1..Len(toPhone'), Holds(toPhone', i, Answers, s)
                   PROVE  i \notin 1..k /\ i = k + 1
        OBVIOUS
      <4>1. i \notin 1..k
        BY <1>5, <1>6, <2>3
      <4>2. i - k = 1
        BY <1>3, <4>1 DEF Holds, Answers
      <4>3. QED
        BY <1>2, <4>1, <4>2
    <3>2. ASSUME NEW j \in 1..Len(toPhone'), Holds(toPhone', j, Answers, s), toPhone'[j].kind = "tail"
          PROVE  /\ s \in opened' /\ copy[s] <= toPhone'[j].n
                 /\ \A i \in 1..Len(toPhone') : i < j /\ Holds(toPhone', i, {"event"}, s)
                       => toPhone'[i].n <= toPhone'[j].n
      <4>1. j \notin 1..k /\ j = k + 1 /\ j - k = 1
        BY <1>2, <3>1, <3>2
      <4>2. r.upTo # NoCopy /\ toPhone'[j].n = r.upTo /\ s \in opened'
        BY <1>3, <1>5, <2>3, <3>2, <4>1
      <4>3. \A i \in 1..Len(toPhone') : i < j => i \in 1..k
        BY <1>2, <4>1
      <4>4. \A i \in 1..k : Holds(toPhone', i, {"event"}, s) => toPhone'[i].n <= r.upTo
        BY <1>2, <1>5, <1>6, <2>3, <4>2
      <4>5. QED
        BY <1>5, <2>3, <4>2, <4>3, <4>4
    <3>3. page[s] = "live" => s \in opened'
      BY <1>4, <2>1, <2>3 DEF AnswersOf
    <3>4. QED
      BY <1>4, <1>5, <2>3, <3>1, <3>2, <3>3 DEF AnswersOf
  <2>4. QED
    BY <2>2, <2>3
<1>8. SinceOK'
  <2>1. \A t, e : Since(t, e)' = Since(t, e)
    BY <1>4 DEF Since
  <2>2. ASSUME NEW j \in 1..Len(toPhone'), toPhone'[j].kind = "tail"
        PROVE  Since(toPhone'[j].session, toPhone'[j].n)
    <3>1. CASE j \in 1..k
      BY <1>2, <2>2, <3>1 DEF SinceOK, k
    <3>2. CASE j \notin 1..k
      <4>1. toPhone'[j].session = s /\ r.upTo # NoCopy /\ toPhone'[j].n = r.upTo
        BY <1>3, <2>2, <3>2
      <4>2. Since(r.session, r.upTo)
        BY <4>1 DEF SinceOK
      <4>3. QED
        BY <4>1, <4>2
    <3>3. QED
      BY <3>1, <3>2
  <2>3. \A r1 \in reads' : r1 \in reads
    BY <1>4
  <2>4. QED
    BY <1>4, <2>1, <2>2, <2>3 DEF SinceOK
<1>9. CopiesOK'
  <2>1. \A t \in Safe' : t \in Safe /\ t \in Session /\ t \notin replaced
                         /\ t \notin discarded' \cup overtaken'
    BY DEF Safe, Replied
  <2>2. \A t \in Session : \A x : t # s => Held(x, t)' = Held(x, t)
    BY <1>4 DEF Held
  <2>3. ASSUME NEW x, Held(x, s), s \in Safe'
        PROVE  \E i \in 1..Len(toPhone') : toPhone'[i].seq = x
    <3>1. PICK i \in 1..Len(opening[s].frames) : opening[s].frames[i].seq = x
      BY <2>3 DEF Held
    <3>2. own /\ s \notin discarded' \cup overtaken' /\ opening[s].frames # <<>>
      BY <1>5, <2>1, <2>3, <3>1
    <3>3. status' = "open" /\ Len(F) = Len(opening[s].frames) + 1
      BY <3>2 DEF Replied
    <3>4. Len(opening[s].frames) \in Nat
      BY <1>1 DEF Parts
    <3>5. i + 1 \in 1..Len(F) /\ i + 1 # 1 /\ (i + 1) - 1 = i
      BY <3>1, <3>3, <3>4
    <3>6. F[i + 1] = opening[s].frames[i]
      BY <3>5 DEF Replied
    <3>7. k + (i + 1) \in 1..Len(toPhone') /\ toPhone'[k + (i + 1)] = F[i + 1]
      BY <1>2, <3>3, <3>5
    <3>8. QED
      BY <3>1, <3>6, <3>7
  <2>4. ASSUME NEW t \in Safe', NEW x, UnderWay(x, t) PROVE UnderWay(x, t)'
    <3>1. CASE \E i \in 1..Len(toPhone) : toPhone[i].seq = x
      BY <1>2, <3>1 DEF UnderWay, k
    <3>2. CASE Held(x, t) /\ t # s
      BY <2>1, <2>2, <3>2 DEF UnderWay
    <3>3. CASE Held(x, t) /\ t = s
      BY <2>3, <3>3 DEF UnderWay
    <3>4. QED
      BY <2>4, <3>1, <3>2, <3>3 DEF UnderWay
  <2>5. \A x : Due(x)' => Due(x)
    BY <1>2 DEF Due, k
  <2>6. \A i \in 1..Len(toPhone') : toPhone'[i].kind \in {"welcome", "resync"} => i \in 1..k
    BY <1>3
  <2>7. \A x : Late(x)' => Late(x)
    BY <1>2, <1>4, <2>5, <2>6 DEF Late, k
  <2>8. Resyncs => Resyncs'
    BY <1>2 DEF Resyncs, k
  <2> SUFFICES ASSUME NEW t \in Safe', NEW x \in 1..Len(log), EventIn(x, t)
               PROVE  CopyOf(t, x)'
    BY <1>4 DEF CopiesOK, EventIn
  <2>9. CopyOf(t, x)
    BY <2>1 DEF CopiesOK
  <2>10. ASSUME ~mistaken, cursor.life = life, copy[t] # NoCopy, copy[t] < log[x].n
         PROVE  /\ x <= cursor.seq => UnderWay(x, t)'
                /\ Due(x)' /\ ~Resyncs' => UnderWay(x, t)'
    BY <2>4, <2>5, <2>8, <2>9, <2>10 DEF CopyOf
  <2>11. ASSUME NEW r1 \in reads, r1.session = t, r1.upTo # NoCopy, r1.upTo < log[x].n
         PROVE  Held(x, t)
    BY <2>9, <2>11 DEF CopyOf
  <2>12. ASSUME NEW j \in 1..Len(toPhone'), Holds(toPhone', j, {"tail"}, t), toPhone'[j].n < log[x].n,
                Late(x)'
         PROVE  UnderWay(x, t)'
    <3>1. CASE j \in 1..k
      <4>1. Holds(toPhone, j, {"tail"}, t) /\ toPhone'[j] = toPhone[j] /\ j \in 1..Len(toPhone)
        BY <1>2, <1>6, <2>12, <3>1 DEF k
      <4>2. UnderWay(x, t)
        BY <2>7, <2>9, <2>12, <4>1 DEF CopyOf
      <4>3. QED
        BY <2>4, <4>2
    <3>2. CASE j \notin 1..k
      <4>1. t = s /\ toPhone'[j].kind = "tail"
        BY <1>3, <2>12, <3>2 DEF Holds
      <4>2. r.upTo # NoCopy /\ toPhone'[j].n = r.upTo
        BY <1>3, <3>2, <4>1
      <4>3. Held(x, t)
        BY <2>11, <2>12, <4>1, <4>2
      <4>4. UnderWay(x, t)
        BY <4>3 DEF UnderWay
      <4>5. QED
        BY <2>4, <4>4
    <3>3. QED
      BY <3>1, <3>2
  <2>13. ASSUME NEW r1 \in reads', r1.session = t, r1.upTo # NoCopy, r1.upTo < log[x].n
         PROVE  Held(x, t)'
    <3>1. t # s /\ r1 \in reads
      BY <1>4, <1>5, <2>1, <2>13
    <3>2. QED
      BY <2>1, <2>2, <2>11, <2>13, <3>1
  <2>14. QED
    BY <1>4, <2>10, <2>12, <2>13 DEF CopyOf
<1>10. QED
  BY <1>7, <1>8, <1>9

\* An answer keeps the invariant.
LEMMA RepliedStep ==
    ASSUME ReplayInv, NEW r \in reads, NEW F, Replied(r, F)
    PROVE  ReplayInv'
<1>1. StateOK' /\ OpensOK' /\ IdleOK' /\ KeptOK' /\ SnapshotOK' /\ LogOK' /\ CursorOK'
  BY RepliedOpens DEF ReplayInv
<1>2. FramesOK' /\ BeginOK' /\ OrderOK' /\ HeldOK' /\ LifeOK' /\ GlobalsOK'
  BY RepliedOrder DEF ReplayInv
<1>3. AnswersOK' /\ SinceOK' /\ CopiesOK'
  BY RepliedCopies DEF ReplayInv
<1>4. QED
  BY <1>1, <1>2, <1>3 DEF ReplayInv

\* The tail is sent, and behind it what was held back.
LEMMA OpenRepliesStep ==
    ASSUME ReplayInv, NEW r \in reads, OpenReplies(r)
    PROVE  ReplayInv'
<1> DEFINE s == r.session
           own == opening[s].open = r.open
           held == opening[s].frames
           f == TailFrame(s, r.upTo)
           tailed == Send(Link, f)
           flushed == SendAll(tailed, held)
<1>1. StateOK /\ Parts /\ s \in Session /\ Link \in LinkType
  BY PartsFact, LinkFact DEF ReplayInv, Parts
<1>2. /\ r.upTo # NoCopy /\ reads' = reads \ {r}
      /\ IF own
         THEN /\ opened' = opened \cup {s}
              /\ opening' = [opening EXCEPT ![s] = NoBuffer]
              /\ Output(flushed)
              /\ overtaken' = IF flushed.status = "open" \/ held = <<>>
                              THEN overtaken ELSE overtaken \cup {s}
         ELSE Output(tailed) /\ opened' = opened /\ opening' = opening /\ overtaken' = overtaken
      /\ appended' = appended /\ life' = life /\ recorded' = recorded /\ log' = log
      /\ watch' = watch /\ cursor' = cursor /\ copy' = copy /\ page' = page
      /\ base' = base /\ got' = got /\ conns' = conns /\ opens' = opens
      /\ discarded' = discarded /\ replaced' = replaced /\ mistaken' = mistaken
  BY DEF OpenReplies, OwnsBuffer, bridge, phone
<1>3. r.upTo \in Nat /\ f \in Frame
  BY <1>1, <1>2, Frames DEF Parts
<1>4. f.kind = "tail" /\ f.session = s /\ f.seq = 0 /\ f.n = r.upTo
  BY DEF TailFrame
<1>5. NoBuffer \in Buffer
  BY DEF NoBuffer, Buffer
<1>6. held \in Seq(Frame) /\ Len(held) \in Nat
  BY <1>1 DEF Parts
<1> HIDE DEF f
<1>7. Sent(Link, <<f>>, 1, tailed)
  BY <1>1, <1>3, SendSent
<1> HIDE DEF tailed
<1>8. tailed \in LinkType /\ <<f>> \in Seq(Frame) /\ Len(<<f>>) = 1 /\ <<f>>[1] = f
  BY <1>3, <1>7 DEF Sent
<1>9. Sent(tailed, held, Len(held), flushed)
  BY <1>6, <1>8, SendAllSent
<1> HIDE DEF flushed
<1>10. discarded \subseteq Session /\ overtaken \subseteq overtaken' /\ overtaken' \subseteq Session
  BY <1>1, <1>2 DEF StateOK
<1>11. CASE own
  <2> DEFINE F == <<f>> \o held
  <2>1. Sent(Link, F, Len(F), flushed)
    BY <1>1, <1>6, <1>7, <1>8, <1>9, SentThen
  <2>2. /\ F \in Seq(Frame) /\ Len(F) = Len(held) + 1 /\ F[1] = f
        /\ \A m \in 1..(Len(held) + 1) : m # 1 => F[m] = held[m - 1]
    BY <1>6, <1>8
  <2> HIDE DEF F
  <2>3. Len(F) \in Nat /\ 1 \in 1..Len(F) /\ \A m \in 1..Len(F) : m # 1 => m - 1 \in 1..Len(held)
    BY <1>6, <2>2
  <2>4. Grown(F)
    BY <1>1, <1>2, <1>11, <2>1, <2>2, GrownFact
  <2>5. /\ opened' = opened \cup {s} /\ opening' = [opening EXCEPT ![s] = NoBuffer]
        /\ status' = flushed.status
        /\ overtaken' = IF flushed.status = "open" \/ held = <<>>
                        THEN overtaken ELSE overtaken \cup {s}
    BY <1>2, <1>11 DEF Output
  <2>6. /\ opening' \in [Session -> Buffer] /\ opening'[s] = NoBuffer
        /\ \A t \in Session : t # s => opening'[t] = opening[t]
    BY <1>1, <1>5, <2>5 DEF StateOK
  <2>7. /\ opened \subseteq opened' /\ opened' \subseteq Session /\ s \in opened'
        /\ \A t \in opened' : t \in opened \/ t = s
    BY <1>1, <2>5 DEF StateOK
  <2>8. s \notin overtaken' => status' = "open" \/ held = <<>>
    BY <2>5
  <2> HIDE DEF held
  <2>9. Replied(r, F)
    BY <1>2, <1>4, <1>10, <1>11, <2>2, <2>3, <2>4, <2>6, <2>7, <2>8 DEF Replied, Answers, held
  <2>10. QED
    BY <2>9, RepliedStep
<1>12. CASE ~own
  <2> DEFINE F == <<f>>
  <2>1. Sent(Link, F, Len(F), tailed) /\ F \in Seq(Frame) /\ Len(F) = 1 /\ F[1] = f
    BY <1>7, <1>8
  <2>2. Output(tailed) /\ opened' = opened /\ opening' = opening /\ overtaken' = overtaken
    BY <1>2, <1>12
  <2> HIDE DEF F
  <2>3. Grown(F)
    BY <1>1, <2>1, <2>2, GrownFact
  <2>4. opening \in [Session -> Buffer] /\ opened \subseteq Session
    BY <1>1 DEF StateOK
  <2>5. Len(F) \in Nat /\ 1 \in 1..Len(F) /\ \A m \in 1..Len(F) : m = 1
    BY <2>1
  <2>6. Replied(r, F)
    BY <1>2, <1>4, <1>10, <1>12, <2>1, <2>2, <2>3, <2>4, <2>5 DEF Replied, Answers
  <2>7. QED
    BY <2>6, RepliedStep
<1>13. QED
  BY <1>11, <1>12

\* The history call of an open fails.
LEMMA OpenFailsStep ==
    ASSUME ReplayInv, NEW r \in reads, OpenFails(r)
    PROVE  ReplayInv'
<1> DEFINE s == r.session
           own == opening[s].open = r.open
           held == opening[s].frames
           f == NotFound(s)
           out == Send(Link, f)
           F == <<f>>
<1>1. StateOK /\ Parts /\ s \in Session /\ Link \in LinkType
  BY PartsFact, LinkFact DEF ReplayInv, Parts
<1>2. /\ reads' = reads \ {r} /\ Output(out)
      /\ IF own
         THEN /\ opening' = [opening EXCEPT ![s] = NoBuffer]
              /\ discarded' = IF held = <<>> THEN discarded ELSE discarded \cup {s}
         ELSE opening' = opening /\ discarded' = discarded
      /\ appended' = appended /\ life' = life /\ recorded' = recorded /\ log' = log
      /\ watch' = watch /\ opened' = opened /\ cursor' = cursor /\ copy' = copy /\ page' = page
      /\ base' = base /\ got' = got /\ conns' = conns /\ opens' = opens
      /\ overtaken' = overtaken /\ replaced' = replaced /\ mistaken' = mistaken
  BY DEF OpenFails, OwnsBuffer, SetBuffer, bridge, phone
<1>3. f \in Frame /\ f.kind = "failed" /\ f.session = s /\ f.seq = 0
  BY <1>1, Frames DEF NotFound, Parts
<1> HIDE DEF f
<1>4. Sent(Link, F, 1, out)
  BY <1>1, <1>3, SendSent
<1>5. F \in Seq(Frame) /\ Len(F) = 1 /\ F[1] = f
  BY <1>3
<1> HIDE DEF F, out
<1>6. Grown(F)
  BY <1>1, <1>2, <1>4, <1>5, GrownFact
<1>7. NoBuffer \in Buffer
  BY DEF NoBuffer, Buffer
<1>8. /\ opening' \in [Session -> Buffer]
      /\ \A t \in Session : t # s => opening'[t] = opening[t]
      /\ opening'[s] = IF own THEN NoBuffer ELSE opening[s]
  BY <1>1, <1>2, <1>7 DEF StateOK
<1>9. /\ discarded \subseteq discarded' /\ discarded' \subseteq Session /\ overtaken \subseteq Session
      /\ opened \subseteq Session
      /\ own /\ s \notin discarded' => held = <<>>
  BY <1>1, <1>2 DEF StateOK
<1>10. Len(F) \in Nat /\ 1 \in 1..Len(F) /\ \A m \in 1..Len(F) : m = 1
  BY <1>5
<1>11. Replied(r, F)
  BY <1>2, <1>3, <1>5, <1>6, <1>8, <1>9, <1>10 DEF Replied, Answers
<1>12. QED
  BY <1>11, RepliedStep

-----------------------------------------------------------------------------
(* A phone connects, and resumes.                                          *)

\* The frames of the log up to i that a resume from seq repeats.
Repeats(q, i, seq, w) ==
    /\ q \in Seq(Frame)
    /\ \A m \in 1..Len(q) : /\ q[m].seq \in 1..i /\ seq < q[m].seq /\ q[m] = log[q[m].seq]
                            /\ \A l \in 1..Len(q) : l < m => q[l].seq < q[m].seq
    /\ \A y \in 1..i : seq < y /\ Oldest <= y /\ Accepts(log[y], w) =>
          \E m \in 1..Len(q) : q[m] = log[y]

\* One frame after the other is looked at.
Looked(q, i, seq, w) ==
    IF i <= seq \/ i < Oldest THEN <<>> ELSE IF Accepts(log[i], w) THEN Append(q, log[i]) ELSE q
Passes(p, seq, w, n) ==
    p = [i \in 0..n |-> IF i <= seq \/ i < Oldest THEN <<>>
                        ELSE IF Accepts(log[i], w) THEN Append(p[i - 1], log[i])
                        ELSE p[i - 1]]

\* The next frame passes or not.
LEMMA RepeatsStep ==
    ASSUME StateOK, LogOK, NEW seq \in Nat, NEW w, NEW i \in Nat, i + 1 <= Len(log),
           NEW q, Repeats(q, i, seq, w)
    PROVE  Repeats(Looked(q, i + 1, seq, w), i + 1, seq, w)
<1> DEFINE k == i + 1
           f == log[k]
           p == Looked(q, k, seq, w)
<1>1. Parts /\ FramesIn(log)
  BY PartsFact
<1>2. k \in 1..Len(log) /\ k \in Nat /\ Oldest \in Int
  BY <1>1, LimitAssumption DEF Parts, Oldest
<1>3. f \in Frame /\ f.seq = k
  BY <1>1, <1>2 DEF LogOK, FramesIn
<1>4. /\ q \in Seq(Frame) /\ Len(q) \in Nat
      /\ \A m \in 1..Len(q) : /\ q[m].seq \in 1..i /\ seq < q[m].seq /\ q[m] = log[q[m].seq]
                              /\ \A l \in 1..Len(q) : l < m => q[l].seq < q[m].seq
      /\ \A y \in 1..i : seq < y /\ Oldest <= y /\ Accepts(log[y], w) =>
            \E m \in 1..Len(q) : q[m] = log[y]
  BY DEF Repeats
<1>5. CASE k <= seq \/ k < Oldest
  <2>1. p = <<>>
    BY <1>5 DEF Looked
  <2>2. \A y \in 1..k : ~(seq < y /\ Oldest <= y)
    BY <1>2, <1>5
  <2> HIDE DEF p, k
  <2>3. p \in Seq(Frame) /\ Len(p) = 0
    BY <2>1
  <2>4. Repeats(p, k, seq, w)
    BY <2>2, <2>3 DEF Repeats
  <2>5. QED
    BY <2>4 DEF p, k
<1>6. CASE ~(k <= seq \/ k < Oldest) /\ ~Accepts(f, w)
  <2>1. p = q
    BY <1>6 DEF Looked
  <2>2. \A y \in 1..k : y \in 1..i \/ y = k
    BY <1>2
  <2>3. \A y \in 1..i : y \in 1..k
    BY <1>2
  <2> HIDE DEF p, k
  <2>4. Repeats(p, k, seq, w)
    BY <1>4, <1>6, <2>1, <2>2, <2>3 DEF Repeats
  <2>5. QED
    BY <2>4 DEF p, k
<1>7. CASE ~(k <= seq \/ k < Oldest) /\ Accepts(f, w)
  <2>1. p = Append(q, f)
    BY <1>7 DEF Looked
  <2> HIDE DEF p
  <2>2. /\ p \in Seq(Frame) /\ Len(p) = Len(q) + 1 /\ p[Len(q) + 1] = f
        /\ \A m \in 1..Len(q) : p[m] = q[m]
    <3> HIDE DEF f
    <3>1. QED
      BY <1>3, <1>4, <2>1, AppendFact
  <2>3. \A y \in 1..k : y \in 1..i \/ y = k
    BY <1>2
  <2>4. /\ \A y \in 1..i : y \in 1..k /\ y < k
        /\ k \in 1..k /\ seq < k
    BY <1>2, <1>7
  <2>5. /\ \A m \in 1..Len(p) : m \in 1..Len(q) \/ m = Len(q) + 1
        /\ \A m \in 1..Len(q) : m \in 1..Len(p) /\ m < Len(q) + 1
        /\ Len(q) + 1 \in 1..Len(p)
        /\ \A m \in 1..Len(q) : \A l \in 1..Len(p) : l < m => l \in 1..Len(q)
    BY <1>4, <2>2
  <2> HIDE DEF p, k, f
  <2>6. \A m \in 1..Len(p) : p[m].seq \in 1..k /\ seq < p[m].seq /\ p[m] = log[p[m].seq]
    BY <1>3, <1>4, <2>2, <2>4, <2>5 DEF f
  <2>7. ASSUME NEW m \in 1..Len(p), NEW l \in 1..Len(p), l < m PROVE p[l].seq < p[m].seq
    <3>1. CASE m \in 1..Len(q)
      BY <1>4, <2>2, <2>5, <2>7, <3>1
    <3>2. CASE m = Len(q) + 1
      <4>1. l \in 1..Len(q)
        BY <1>4, <2>5, <2>7, <3>2
      <4>2. p[l].seq \in 1..i /\ p[m].seq = k
        BY <1>3, <1>4, <2>2, <3>2, <4>1
      <4>3. QED
        BY <2>4, <4>2
    <3>3. QED
      BY <2>5, <3>1, <3>2
  <2>8. ASSUME NEW y \in 1..k, seq < y, Oldest <= y, Accepts(log[y], w)
        PROVE  \E m \in 1..Len(p) : p[m] = log[y]
    BY <1>4, <2>2, <2>3, <2>5, <2>8 DEF f
  <2>9. Repeats(p, k, seq, w)
    BY <2>2, <2>6, <2>7, <2>8 DEF Repeats
  <2>10. QED
    BY <2>9 DEF p, k
<1>8. QED
  BY <1>5, <1>6, <1>7

\* The list goes on with one more frame.
LEMMA PassesStep ==
    ASSUME StateOK, NEW seq \in Nat, NEW w, NEW n \in Nat, NEW f, Passes(f, seq, w, n)
    PROVE  \E g : Passes(g, seq, w, n + 1)
<1> DEFINE next == Looked(f[n], n + 1, seq, w)
           g == [i \in 0..(n + 1) |-> IF i = n + 1 THEN next ELSE f[i]]
<1>1. \A i \in 0..n : g[i] = f[i]
  OBVIOUS
<1>2. \A i \in 0..n : f[i] = IF i <= seq \/ i < Oldest THEN <<>>
                             ELSE IF Accepts(log[i], w) THEN Append(f[i - 1], log[i])
                             ELSE f[i - 1]
  BY Zenon DEF Passes
<1>3. ASSUME NEW i \in 0..(n + 1)
      PROVE  g[i] = IF i <= seq \/ i < Oldest THEN <<>>
                    ELSE IF Accepts(log[i], w) THEN Append(g[i - 1], log[i])
                    ELSE g[i - 1]
  <2>1. CASE i = n + 1
    <3>1. g[i] = next /\ g[i - 1] = f[n]
      BY <2>1
    <3> HIDE DEF g
    <3>2. next = IF i <= seq \/ i < Oldest THEN <<>>
                 ELSE IF Accepts(log[i], w) THEN Append(f[n], log[i]) ELSE f[n]
      BY <2>1 DEF Looked
    <3>3. QED
      BY <3>1, <3>2
  <2>2. CASE i # n + 1
    <3>1. i \in 0..n /\ (i = 0 \/ i - 1 \in 0..n) /\ (i = 0 => i <= seq)
      BY <2>2
    <3> HIDE DEF g
    <3>2. QED
      BY <1>1, <1>2, <3>1
  <2>3. QED
    BY <2>1, <2>2
<1>4. g = [i \in 0..(n + 1) |-> g[i]]
  OBVIOUS
<1> HIDE DEF g
<1>5. Passes(g, seq, w, n + 1)
  BY <1>3, <1>4, Zenon DEF Passes
<1>6. QED
  BY <1>5

\* What resumeFrom() repeats: the frames of the ring behind seq that pass.
LEMMA MissedFact ==
    ASSUME StateOK, LogOK, NEW seq \in Nat, NEW w
    PROVE  Repeats(Missed(seq, w), Len(log), seq, w)
<1> DEFINE n == Len(log)
           S == {k \in Nat : \E f : Passes(f, seq, w, k)}
<1>1. 0 \in S
  <2>1. Passes([i \in 0..0 |-> <<>>], seq, w, 0)
    BY DEF Passes
  <2>2. QED
    BY <2>1
<1>2. \A k \in Nat : k \in S => k + 1 \in S
  BY PassesStep
<1> HIDE DEF S
<1>3. Nat \subseteq S
  BY <1>1, <1>2, SetInduction
<1>4. n \in Nat
  BY PartsFact DEF Parts
<1>5. \E f : Passes(f, seq, w, n)
  BY <1>3, <1>4 DEF S
<1> DEFINE f == CHOOSE f : Passes(f, seq, w, n)
<1>6. Passes(f, seq, w, n)
  BY <1>5
<1>7. Missed(seq, w) = f[n]
  BY Zenon DEF Missed, Passes
<1> HIDE DEF f
<1>8. \A i \in 0..n : f[i] = IF i <= seq \/ i < Oldest THEN <<>>
                             ELSE IF Accepts(log[i], w) THEN Append(f[i - 1], log[i])
                             ELSE f[i - 1]
  BY <1>6, Zenon DEF Passes
<1> DEFINE P == {k \in Nat : k <= n => Repeats(f[k], k, seq, w)}
<1>9. 0 \in P
  <2>1. f[0] = <<>>
    <3>1. 0 \in 0..n /\ 0 <= seq
      BY <1>4
    <3>2. QED
      BY <1>8, <3>1
  <2>2. <<>> \in Seq(Frame) /\ Len(<<>>) = 0
    OBVIOUS
  <2>3. Repeats(<<>>, 0, seq, w)
    BY <2>2 DEF Repeats
  <2>4. QED
    BY <2>1, <2>3
<1>10. \A k \in Nat : k \in P => k + 1 \in P
  <2> SUFFICES ASSUME NEW k \in Nat, k \in P, k + 1 <= n
               PROVE  Repeats(f[k + 1], k + 1, seq, w)
    OBVIOUS
  <2>1. Repeats(f[k], k, seq, w)
    BY <1>4
  <2>2. f[k + 1] = Looked(f[k], k + 1, seq, w)
    <3>1. k + 1 \in 0..n /\ (k + 1) - 1 = k
      BY <1>4
    <3>2. QED
      BY <1>8, <3>1 DEF Looked
  <2>3. QED
    BY <2>1, <2>2, RepeatsStep
<1> HIDE DEF P
<1>11. Nat \subseteq P
  BY <1>9, <1>10, SetInduction
<1>12. n \in P /\ n <= n
  BY <1>4, <1>11
<1>13. QED
  BY <1>7, <1>12 DEF P

\* The first frames of a connection: the welcome, and what onAuthenticated() answers to
\* the cursor.
Began(F, w) ==
    /\ F \in Seq(Frame) /\ Len(F) \in Nat /\ 1 \in 1..Len(F) /\ F[1] = Welcome(Len(log))
    /\ \A m \in 1..Len(F) : m # 1 =>
          /\ cursor # NoCursor
          /\ \/ m = 2 /\ F[m] = Resync(Len(log))
             \/ F[m] = ResumeDone
             \/ /\ F[m].kind \in Numbered /\ F[m].seq \in 1..Len(log) /\ F[m] = log[F[m].seq]
                /\ \A l \in 1..Len(F) : l # 1 /\ l < m => F[l].seq < F[m].seq /\ F[l].seq > 0
    /\ cursor # NoCursor =>
          \/ 2 \in 1..Len(F) /\ F[2] = Resync(Len(log))
          \/ /\ CanResumeFrom(cursor.seq)
             /\ \A m \in 1..Len(F) : F[m].kind # "resync"
             /\ \A y \in 1..Len(log) : cursor.seq < y /\ Accepts(log[y], w) =>
                   \E m \in 1..Len(F) : F[m] = log[y]

\* What a connection begins with: the welcome, and then the replay or the resync.
LEMMA BeganFact ==
    ASSUME StateOK, LogOK, NEW w
    PROVE  Began(<<Welcome(Len(log))>> \o
                   (IF cursor = NoCursor THEN <<>>
                    ELSE IF CanResumeFrom(cursor.seq) THEN Replay(cursor.seq, w)
                    ELSE <<Resync(Len(log))>>), w)
<1> DEFINE n == Len(log)
           missed == Missed(cursor.seq, w)
           hello == Welcome(n)
           again == Resync(n)
           answer == IF cursor = NoCursor THEN <<>>
                     ELSE IF CanResumeFrom(cursor.seq) THEN Replay(cursor.seq, w)
                     ELSE <<Resync(n)>>
           F == <<hello>> \o answer
<1>1. Parts /\ FramesIn(log) /\ n \in Nat /\ cursor.seq \in Nat
  BY PartsFact DEF Parts
<1>2. hello \in Frame /\ again \in Frame /\ ResumeDone \in Frame
  BY <1>1, Frames
<1>3. hello.kind = "welcome" /\ again.kind = "resync" /\ ResumeDone.kind = "done"
  BY DEF Welcome, Resync, ResumeDone
<1>4. Repeats(missed, n, cursor.seq, w)
  BY <1>1, MissedFact
<1>5. \/ answer = <<>> /\ cursor = NoCursor
      \/ answer = <<again>> /\ cursor # NoCursor
      \/ answer = Append(missed, ResumeDone) /\ CanResumeFrom(cursor.seq) /\ cursor # NoCursor
  BY DEF Replay
<1> HIDE DEF hello, again, missed, answer
<1>6. CASE answer = <<>> /\ cursor = NoCursor
  <2>1. F \in Seq(Frame) /\ Len(F) = 1 /\ F[1] = hello
    BY <1>2, <1>6
  <2>2. Len(F) \in Nat /\ 1 \in 1..Len(F) /\ \A m \in 1..Len(F) : m = 1
    BY <2>1
  <2> HIDE DEF F
  <2>3. Began(F, w)
    BY <1>6, <2>1, <2>2 DEF Began, hello
  <2>4. QED
    BY <2>3 DEF F, answer, hello
<1>7. CASE answer = <<again>> /\ cursor # NoCursor
  <2>1. F \in Seq(Frame) /\ Len(F) = 2 /\ F[1] = hello /\ F[2] = again
    BY <1>2, <1>7
  <2>2. Len(F) \in Nat /\ 1 \in 1..Len(F) /\ 2 \in 1..Len(F) /\ \A m \in 1..Len(F) : m = 1 \/ m = 2
    BY <2>1
  <2> HIDE DEF F
  <2>3. Began(F, w)
    BY <1>7, <2>1, <2>2 DEF Began, hello, again
  <2>4. QED
    BY <2>3 DEF F, answer, hello
<1>8. CASE answer = Append(missed, ResumeDone) /\ CanResumeFrom(cursor.seq) /\ cursor # NoCursor
  <2>1. /\ missed \in Seq(Frame)
        /\ \A m \in 1..Len(missed) :
              /\ missed[m].seq \in 1..n /\ missed[m] = log[missed[m].seq]
              /\ \A l \in 1..Len(missed) : l < m => missed[l].seq < missed[m].seq
        /\ \A y \in 1..n : cursor.seq < y /\ Oldest <= y /\ Accepts(log[y], w) =>
              \E m \in 1..Len(missed) : missed[m] = log[y]
    BY <1>4 DEF Repeats
  <2> DEFINE l == Len(missed)
  <2>2. l \in Nat
    BY <2>1
  <2>3. /\ answer \in Seq(Frame) /\ Len(answer) = l + 1 /\ answer[l + 1] = ResumeDone
        /\ \A m \in 1..l : answer[m] = missed[m]
    BY <1>2, <1>8, <2>1, AppendFact
  <2>4. /\ F \in Seq(Frame) /\ Len(F) = l + 2 /\ F[1] = hello /\ F[l + 2] = ResumeDone
        /\ \A m \in 2..(l + 2) : F[m] = answer[m - 1]
    <3>1. /\ F \in Seq(Frame) /\ Len(F) = Len(answer) + 1 /\ F[1] = hello
          /\ \A m \in 2..(Len(answer) + 1) : F[m] = answer[m - 1]
      BY <1>2, <2>3
    <3> HIDE DEF F
    <3>2. l + 2 \in 2..(Len(answer) + 1) /\ (l + 2) - 1 = l + 1 /\ Len(answer) + 1 = l + 2
      BY <2>2, <2>3
    <3>3. QED
      BY <2>3, <3>1, <3>2
  <2> HIDE DEF F, l
  <2>5. \A m \in 2..(l + 1) : m - 1 \in 1..l /\ F[m] = missed[m - 1]
    <3>1. \A m \in 2..(l + 1) : m - 1 \in 1..l /\ m \in 2..(l + 2)
      BY <2>2
    <3>2. QED
      BY <2>3, <2>4, <3>1
  <2>6. \A m \in 1..Len(F) : m # 1 => m \in 2..(l + 1) \/ m = l + 2
    BY <2>2, <2>4
  <2>7. Len(F) \in Nat /\ 1 \in 1..Len(F)
    BY <2>2, <2>4
  <2>8. ASSUME NEW m \in 2..(l + 1)
        PROVE  /\ F[m].kind \in Numbered /\ F[m].seq \in 1..n /\ F[m] = log[F[m].seq]
               /\ \A j \in 1..Len(F) : j # 1 /\ j < m => F[j].seq < F[m].seq /\ F[j].seq > 0
    <3>1. m - 1 \in 1..l /\ F[m] = missed[m - 1]
      BY <2>5
    <3>2. F[m].seq \in 1..n /\ F[m] = log[F[m].seq]
      BY <2>1, <3>1 DEF l
    <3>3. F[m].kind \in Numbered
      BY <3>2 DEF LogOK
    <3>4. ASSUME NEW j \in 1..Len(F), j # 1, j < m PROVE F[j].seq < F[m].seq /\ F[j].seq > 0
      <4>1. j \in 2..(l + 1) /\ j - 1 < m - 1
        BY <2>2, <2>4, <3>4
      <4>2. j - 1 \in 1..l /\ F[j] = missed[j - 1]
        BY <2>5, <4>1
      <4>3. missed[j - 1].seq < missed[m - 1].seq /\ missed[j - 1].seq \in 1..n
        BY <2>1, <3>1, <4>1, <4>2 DEF l
      <4>4. QED
        BY <3>1, <4>2, <4>3
    <3>5. QED
      BY <3>2, <3>3, <3>4
  <2>9. \A m \in 1..Len(F) : F[m].kind # "resync"
    <3> SUFFICES ASSUME NEW m \in 1..Len(F) PROVE F[m].kind # "resync"
      OBVIOUS
    <3>1. CASE m = 1
      BY <1>3, <2>4, <3>1
    <3>2. CASE m = l + 2
      BY <1>3, <2>4, <3>2
    <3>3. CASE m \in 2..(l + 1)
      BY <2>8, <3>3 DEF Numbered
    <3>4. QED
      BY <2>6, <3>1, <3>2, <3>3
  <2>10. ASSUME NEW y \in 1..n, cursor.seq < y, Accepts(log[y], w)
         PROVE  \E m \in 1..Len(F) : F[m] = log[y]
    <3>1. Oldest <= y
      <4>1. cursor.seq + 1 >= Oldest /\ Oldest \in Int
        BY <1>1, <1>8, LimitAssumption DEF CanResumeFrom, Oldest
      <4>2. QED
        BY <1>1, <2>10, <4>1
    <3>2. PICK m \in 1..l : missed[m] = log[y]
      BY <2>1, <2>10, <3>1 DEF l
    <3>3. m + 1 \in 2..(l + 1) /\ (m + 1) - 1 = m /\ m + 1 \in 1..Len(F)
      BY <2>2, <2>4
    <3>4. F[m + 1] = log[y]
      BY <2>5, <3>2, <3>3
    <3>5. QED
      BY <3>3, <3>4
  <2>11. Began(F, w)
    <3>1. F[1] = Welcome(n) /\ F \in Seq(Frame)
      BY <2>4 DEF hello
    <3>2. ASSUME NEW m \in 1..Len(F), m # 1
          PROVE  \/ F[m] = ResumeDone
                 \/ /\ F[m].kind \in Numbered /\ F[m].seq \in 1..n /\ F[m] = log[F[m].seq]
                    /\ \A j \in 1..Len(F) : j # 1 /\ j < m => F[j].seq < F[m].seq /\ F[j].seq > 0
      BY <2>4, <2>6, <2>8, <3>2
    <3>3. QED
      BY <1>8, <2>7, <2>9, <2>10, <3>1, <3>2 DEF Began
  <2>12. QED
    BY <2>11 DEF F, answer, hello
<1>9. QED
  BY <1>5, <1>6, <1>7, <1>8

\* Nothing is left of an earlier connection, and as many of the first frames are on
\* their way as there was room for.
Connected(F, w) ==
    /\ status = "none" /\ Began(F, w) /\ w \subseteq Session
    /\ status' \in {"open", "closing"}
    /\ toPhone' \in Seq(Frame) /\ Len(toPhone') \in Nat
    /\ \A i \in 1..Len(toPhone') : i \in 1..Len(F) /\ toPhone'[i] = F[i]
    /\ status' = "open" => Len(toPhone') = Len(F)
    /\ watch' = w /\ conns' \in Nat
    /\ copy' = KeptCopies(w, page) /\ mistaken' \in BOOLEAN
    /\ ~mistaken' => ~mistaken
    /\ ~mistaken' /\ cursor # NoCursor /\ CanResumeFrom(cursor.seq) => cursor.life = life
    /\ appended' = appended /\ life' = life /\ recorded' = recorded /\ log' = log
    /\ opened' = opened /\ opening' = opening /\ reads' = reads
    /\ cursor' = cursor /\ page' = page /\ base' = base /\ got' = got /\ opens' = opens
    /\ discarded' = discarded /\ overtaken' = overtaken /\ replaced' = replaced

\* What is sent first, and what a phone that reads event x or later reads before it.
ConnectedFirst(F, w) ==
    /\ \A i \in 1..Len(toPhone') :
          /\ toPhone'[i].kind \notin {"tail", "failed"}
          /\ toPhone'[i].kind = "welcome" => i = 1
          /\ toPhone'[i].kind = "resync" => i = 2 /\ cursor # NoCursor
          /\ IF toPhone'[i].kind \in Numbered
             THEN toPhone'[i].seq \in 1..Len(log) /\ toPhone'[i] = log[toPhone'[i].seq] /\ i # 1
             ELSE toPhone'[i].seq = 0
          /\ toPhone'[i].kind \in {"welcome", "resync"} => toPhone'[i].n = Len(log)
          /\ toPhone'[i].kind \in Numbered =>
                \A j \in 1..Len(F) : j < i => F[j].seq < toPhone'[i].seq
    /\ \A i \in 1..Len(toPhone') : toPhone'[i].seq > 0 => i \in 2..Len(F)
    /\ \A i \in 1..Len(toPhone') : \A j \in 1..Len(F) : j <= i => j \in 1..Len(toPhone')
    /\ status' = "open" => \A j \in 1..Len(F) : j \in 1..Len(toPhone')

\* A new connection has the welcome first, and no answer of an open.
LEMMA ConnectedFirstFact ==
    ASSUME StateOK, NEW F, NEW w, Connected(F, w)
    PROVE  ConnectedFirst(F, w)
<1>1. /\ Began(F, w) /\ Len(toPhone') \in Nat /\ Parts /\ Len(F) \in Nat
      /\ \A i \in 1..Len(toPhone') : i \in 1..Len(F) /\ toPhone'[i] = F[i]
      /\ status' = "open" => Len(toPhone') = Len(F)
  BY PartsFact DEF Connected, Began
<1>2. ASSUME NEW i \in 1..Len(F)
      PROVE  /\ F[i].kind \notin {"tail", "failed"}
             /\ F[i].kind = "welcome" => i = 1
             /\ F[i].kind = "resync" => i = 2 /\ cursor # NoCursor
             /\ IF F[i].kind \in Numbered
                THEN F[i].seq \in 1..Len(log) /\ F[i] = log[F[i].seq] /\ i # 1
                ELSE F[i].seq = 0
             /\ F[i].kind \in {"welcome", "resync"} => F[i].n = Len(log)
             /\ F[i].kind \in Numbered => \A j \in 1..Len(F) : j < i => F[j].seq < F[i].seq
  <2>1. CASE i = 1
    BY <1>1, <2>1 DEF Began, Welcome, Numbered
  <2>2. CASE i # 1 /\ i = 2 /\ F[i] = Resync(Len(log))
    BY <1>1, <2>2 DEF Began, Resync, Numbered
  <2>3. CASE i # 1 /\ F[i] = ResumeDone
    BY <2>3 DEF ResumeDone, Numbered
  <2>4. CASE /\ i # 1 /\ F[i].kind \in Numbered /\ F[i].seq \in 1..Len(log) /\ F[i] = log[F[i].seq]
             /\ \A l \in 1..Len(F) : l # 1 /\ l < i => F[l].seq < F[i].seq /\ F[l].seq > 0
    <3>1. F[1].seq = 0
      BY <1>1 DEF Began, Welcome
    <3>2. \A j \in 1..Len(F) : j < i => F[j].seq < F[i].seq
      BY <1>1, <2>4, <3>1 DEF Parts
    <3>3. QED
      BY <2>4, <3>2 DEF Numbered
  <2>5. QED
    BY <1>1, <2>1, <2>2, <2>3, <2>4 DEF Began
<1>3. ASSUME NEW i \in 1..Len(toPhone'), toPhone'[i].seq > 0 PROVE i \in 2..Len(F)
  <2>1. i \in 1..Len(F) /\ F[i].seq > 0
    BY <1>1, <1>3
  <2>2. i # 1
    BY <1>1, <2>1 DEF Began, Welcome
  <2>3. QED
    BY <1>1, <2>1, <2>2
<1>4. \A i \in 1..Len(toPhone') : \A j \in 1..Len(F) : j <= i => j \in 1..Len(toPhone')
  BY <1>1
<1>5. QED
  BY <1>1, <1>2, <1>3, <1>4 DEF ConnectedFirst

\* Whoever reads frame x or later, or all, has read the beginning.
LEMMA ConnectedDue ==
    ASSUME StateOK, NEW F, NEW w, Connected(F, w), NEW x \in 1..Len(log), Due(x)'
    PROVE  /\ 1 \in 1..Len(toPhone') /\ toPhone'[1] = F[1]
           /\ 2 \in 1..Len(F) /\ F[2].kind = "resync" => 2 \in 1..Len(toPhone') /\ toPhone'[2] = F[2]
           /\ \A m \in 1..Len(F) : F[m].kind \in Numbered /\ F[m].seq = x =>
                 m \in 1..Len(toPhone') /\ toPhone'[m] = F[m]
<1>1. /\ ConnectedFirst(F, w) /\ 1 \in 1..Len(F) /\ Len(F) \in Nat
      /\ \A i \in 1..Len(toPhone') : i \in 1..Len(F) /\ toPhone'[i] = F[i]
      /\ Len(toPhone') \in Nat /\ Parts /\ FramesIn(log)
  BY ConnectedFirstFact, PartsFact DEF Connected, Began
<1>2. CASE status' = "open"
  BY <1>1, <1>2 DEF ConnectedFirst
<1>3. CASE status' # "open"
  <2>1. PICK i \in 1..Len(toPhone') : x <= toPhone'[i].seq
    BY <1>3 DEF Due
  <2>2. /\ IF toPhone'[i].kind \in Numbered
           THEN toPhone'[i].seq \in 1..Len(log) /\ toPhone'[i] = log[toPhone'[i].seq] /\ i # 1
           ELSE toPhone'[i].seq = 0
        /\ toPhone'[i].kind \in Numbered =>
                \A j \in 1..Len(F) : j < i => F[j].seq < toPhone'[i].seq
    BY <1>1 DEF ConnectedFirst
  <2>3. toPhone'[i].seq \in 1..Len(log) /\ toPhone'[i].seq > 0 /\ toPhone'[i].kind \in Numbered
    BY <1>1, <2>1, <2>2 DEF Parts
  <2>4. i \in 2..Len(F) /\ \A j \in 1..Len(F) : j <= i => j \in 1..Len(toPhone')
    BY <1>1, <2>3 DEF ConnectedFirst
  <2>5. 1 \in 1..Len(toPhone') /\ (2 \in 1..Len(F) => 2 \in 1..Len(toPhone'))
    BY <1>1, <2>4
  <2>6. ASSUME NEW m \in 1..Len(F), F[m].kind \in Numbered, F[m].seq = x
        PROVE  m \in 1..Len(toPhone')
    <3>1. CASE m <= i
      BY <2>4, <3>1
    <3>2. CASE ~(m <= i)
      <4>1. m \in 2..Len(F) /\ i < m /\ m # 1 /\ i # 1 /\ i \in 1..Len(F)
        BY <1>1, <2>4, <3>2
      <4>2. F[m] # ResumeDone /\ F[m] # Resync(Len(log))
        BY <2>6 DEF ResumeDone, Resync, Numbered
      <4>3. F[i].seq < F[m].seq
        BY <4>1, <4>2 DEF Connected, Began
      <4>4. x \in Nat /\ F[i].seq = toPhone'[i].seq
        BY <1>1 DEF Parts
      <4>5. QED
        BY <2>1, <2>3, <2>6, <4>3, <4>4
    <3>3. QED
      BY <3>1, <3>2
  <2>7. QED
    BY <1>1, <2>5, <2>6
<1>4. QED
  BY <1>2, <1>3

\* A new connection keeps the invariant.
LEMMA ConnectedStep ==
    ASSUME ReplayInv, NEW F, NEW w, Connected(F, w)
    PROVE  ReplayInv'
<1>1. StateOK /\ Parts /\ FramesIn(toPhone) /\ FramesIn(log) /\ ConnectedFirst(F, w)
  BY PartsFact, ConnectedFirstFact DEF ReplayInv
<1>2. /\ appended' = appended /\ life' = life /\ recorded' = recorded /\ log' = log
      /\ opened' = opened /\ opening' = opening /\ reads' = reads
      /\ cursor' = cursor /\ page' = page /\ base' = base /\ got' = got /\ opens' = opens
      /\ discarded' = discarded /\ overtaken' = overtaken /\ replaced' = replaced
      /\ copy' = KeptCopies(w, page) /\ watch' = w /\ status = "none" /\ Began(F, w)
      /\ status' \in {"open", "closing"} /\ toPhone' \in Seq(Frame) /\ Len(toPhone') \in Nat
      /\ ~mistaken' => ~mistaken
      /\ ~mistaken' /\ cursor # NoCursor /\ CanResumeFrom(cursor.seq) => cursor.life = life
      /\ conns' \in Nat /\ w \subseteq Session /\ mistaken' \in BOOLEAN
      /\ status' = "open" => Len(toPhone') = Len(F)
  BY Zenon DEF Connected
<1>3. /\ opened = {} /\ watch = {} /\ reads = {} /\ toPhone = <<>> /\ Len(toPhone) = 0
      /\ \A s \in Session : opening[s] = NoBuffer /\ page[s] = "none"
  BY <1>2 DEF ReplayInv, IdleOK
<1>4. NoBuffer.open = 0 /\ NoBuffer.frames = <<>> /\ Len(NoBuffer.frames) = 0
  BY DEF NoBuffer
<1>5. /\ copy' \in [Session -> Nat \cup {NoCopy}]
      /\ \A t \in Session : /\ copy'[t] \in {copy[t], NoCopy} /\ copy'[t] <= copy[t]
                            /\ copy'[t] # NoCopy => t \in w \/ page[t] = "live"
                            /\ copy'[t] \in Int /\ copy[t] \in Int
  <2>1. copy' \in [Session -> Nat \cup {NoCopy}]
    BY <1>1, <1>2, KeptFact
  <2>2. \A t \in Session : /\ copy'[t] \in {copy[t], NoCopy} /\ copy'[t] <= copy[t]
                           /\ copy'[t] # NoCopy => t \in w \/ page[t] = "live"
    BY <1>1, <1>2, KeptFact
  <2>3. QED
    BY <1>1, <2>1, <2>2 DEF Parts
<1>6. \A i \in 1..Len(toPhone') :
          /\ toPhone'[i].kind \notin {"tail", "failed"}
          /\ toPhone'[i].kind = "welcome" => i = 1
          /\ toPhone'[i].kind = "resync" => i = 2 /\ cursor # NoCursor
          /\ IF toPhone'[i].kind \in Numbered
             THEN toPhone'[i].seq \in 1..Len(log) /\ toPhone'[i] = log[toPhone'[i].seq] /\ i # 1
             ELSE toPhone'[i].seq = 0
          /\ toPhone'[i].kind \in {"welcome", "resync"} => toPhone'[i].n = Len(log)
          /\ toPhone'[i].kind \in Numbered =>
                \A j \in 1..Len(F) : j < i => F[j].seq < toPhone'[i].seq
  BY <1>1 DEF ConnectedFirst
<1>7. /\ \A i \in 1..Len(toPhone') : i \in 1..Len(F) /\ toPhone'[i] = F[i]
      /\ F[1] = Welcome(Len(log)) /\ 1 \in 1..Len(F) /\ Len(F) \in Nat
      /\ cursor # NoCursor =>
            \/ 2 \in 1..Len(F) /\ F[2] = Resync(Len(log))
            \/ /\ CanResumeFrom(cursor.seq)
               /\ \A m \in 1..Len(F) : F[m].kind # "resync"
               /\ \A y \in 1..Len(log) : cursor.seq < y /\ Accepts(log[y], w) =>
                     \E m \in 1..Len(F) : F[m] = log[y]
  BY <1>2 DEF Connected, Began
<1>8. /\ \A x \in 1..Len(log) : Due(x)' =>
            /\ 1 \in 1..Len(toPhone') /\ toPhone'[1] = F[1]
            /\ 2 \in 1..Len(F) /\ F[2].kind = "resync" => 2 \in 1..Len(toPhone') /\ toPhone'[2] = F[2]
            /\ \A m \in 1..Len(F) : F[m].kind \in Numbered /\ F[m].seq = x =>
                  m \in 1..Len(toPhone') /\ toPhone'[m] = F[m]
  BY <1>1, ConnectedDue
<1>9. /\ Welcome(Len(log)).kind = "welcome" /\ Welcome(Len(log)).n = Len(log)
      /\ Resync(Len(log)).kind = "resync" /\ Resync(Len(log)).n = Len(log)
  BY DEF Welcome, Resync
<1>10. LogOK /\ CursorOK
  BY DEF ReplayInv
<1>11. StateOK'
  <2>1. cursor' \in [life : Nat, seq : Nat] /\ opening' \in [Session -> Buffer] /\ reads' \subseteq Read
    BY <1>1, <1>2 DEF StateOK
  <2>2. status' \in {"none", "open", "closing"}
    BY <1>2
  <2>3. QED
    BY <1>1, <1>2, <1>5, <2>1, <2>2 DEF StateOK
<1>12. OpensOK' /\ IdleOK'
  BY <1>2, <1>3, <1>4 DEF OpensOK, IdleOK
<1>13. LogOK' /\ CursorOK'
  BY <1>2, <1>5, <1>10 DEF LogOK, CursorOK
<1>14. SnapshotOK'
  <2>1. \A t \in Session : copy'[t] <= appended[t]
    BY <1>1, <1>5 DEF ReplayInv, SnapshotOK, Parts
  <2>2. QED
    BY <1>2, <1>3, <1>6, <2>1 DEF SnapshotOK
<1>15. FramesOK'
  <2>1. Len(log) <= Len(log)
    BY <1>1 DEF Parts
  <2>2. QED
    BY <1>2, <1>6, <2>1 DEF FramesOK
<1>16. BeginOK'
  <2>1. ASSUME cursor = NoCursor
        PROVE  /\ status' = "open" => toPhone' # <<>>
               /\ toPhone' # <<>> => toPhone'[1].kind = "welcome"
    <3>1. toPhone' # <<>> => 1 \in 1..Len(toPhone')
      BY <1>2
    <3>2. QED
      BY <1>2, <1>7, <1>9, <3>1
  <2>2. ASSUME NEW i \in 1..Len(toPhone'), toPhone'[i].kind = "resync", NEW j \in 1..Len(toPhone'), j < i
        PROVE  toPhone'[j].kind = "welcome"
    <3>1. j = 1
      BY <1>2, <1>6, <2>2
    <3>2. QED
      BY <1>7, <1>9, <3>1
  <2>3. QED
    BY <1>2, <1>6, <2>1, <2>2 DEF BeginOK
<1>17. OrderOK'
  <2> SUFFICES ASSUME NEW i \in 1..Len(toPhone'), NEW j \in 1..Len(toPhone'), i < j,
                      toPhone'[j].kind \in Numbered
               PROVE  toPhone'[i].seq < toPhone'[j].seq
    BY DEF OrderOK, Numbered
  <2>1. QED
    BY <1>6, <1>7
<1>18. HeldOK'
  BY <1>2, <1>3, <1>4 DEF HeldOK
<1>19. \A x \in 1..Len(log) : log[x].seq = x /\ log[x].kind \in Numbered
  BY <1>10 DEF LogOK
<1>20. ASSUME cursor # NoCursor, 2 \in 1..Len(F), F[2] = Resync(Len(log)),
              status' = "open" \/ \E i \in 1..Len(toPhone') : toPhone'[i].seq > 0
       PROVE  2 \in 1..Len(toPhone') /\ toPhone'[2].kind = "resync" /\ toPhone'[2].n = Len(log)
  <2>1. 2 \in 1..Len(toPhone')
    <3>1. CASE status' = "open"
      BY <1>2, <1>20, <3>1
    <3>2. CASE \E i \in 1..Len(toPhone') : toPhone'[i].seq > 0
      BY <1>1, <1>20, <3>2 DEF ConnectedFirst
    <3>3. QED
      BY <1>20, <3>1, <3>2
  <2>2. QED
    BY <1>7, <1>9, <1>20, <2>1
<1>21. LifeOK'
  <2> SUFFICES ASSUME ~mistaken', cursor # NoCursor, cursor.life # life,
                      status' = "open" \/ \E i \in 1..Len(toPhone') : toPhone'[i].seq > 0
               PROVE  Resyncs'
    BY <1>2 DEF LifeOK
  <2>1. 2 \in 1..Len(F) /\ F[2] = Resync(Len(log))
    BY <1>2, <1>7
  <2>2. QED
    BY <1>20, <2>1 DEF Resyncs
<1>22. GlobalsOK'
  <2> SUFFICES ASSUME ~mistaken', NEW x \in 1..Len(log), log[x].kind = "global"
               PROVE  /\ cursor.life = life /\ x <= cursor.seq => Has(x)
                      /\ Due(x)' => \/ \E i \in 1..Len(toPhone') : toPhone'[i].seq = x
                                    \/ \E i \in 1..Len(toPhone') : Renews(toPhone'[i]) /\ x <= toPhone'[i].n
                                    \/ Has(x) /\ \A i \in 1..Len(toPhone') : ~Renews(toPhone'[i])
    BY <1>2 DEF GlobalsOK, Has, Renews
  <2>1. cursor.life = life /\ x <= cursor.seq => Has(x)
    BY <1>2 DEF ReplayInv, GlobalsOK
  <2>2. ASSUME Due(x)'
        PROVE  \/ \E i \in 1..Len(toPhone') : toPhone'[i].seq = x
               \/ \E i \in 1..Len(toPhone') : Renews(toPhone'[i]) /\ x <= toPhone'[i].n
               \/ Has(x) /\ \A i \in 1..Len(toPhone') : ~Renews(toPhone'[i])
    <3>1. x <= Len(log)
      BY <1>1 DEF Parts
    <3>2. /\ 1 \in 1..Len(toPhone') /\ toPhone'[1] = F[1]
          /\ 2 \in 1..Len(F) /\ F[2].kind = "resync" => 2 \in 1..Len(toPhone') /\ toPhone'[2] = F[2]
          /\ \A m \in 1..Len(F) : F[m].kind \in Numbered /\ F[m].seq = x =>
                m \in 1..Len(toPhone') /\ toPhone'[m] = F[m]
      BY <1>8, <2>2
    <3>3. CASE cursor = NoCursor
      <4>1. Renews(toPhone'[1]) /\ x <= toPhone'[1].n
        BY <1>7, <1>9, <3>1, <3>2, <3>3 DEF Renews
      <4>2. QED
        BY <3>2, <4>1
    <3>4. CASE cursor # NoCursor /\ 2 \in 1..Len(F) /\ F[2] = Resync(Len(log))
      <4>1. Renews(toPhone'[2]) /\ x <= toPhone'[2].n /\ 2 \in 1..Len(toPhone')
        BY <1>9, <3>1, <3>2, <3>4 DEF Renews
      <4>2. QED
        BY <4>1
    <3>5. CASE /\ cursor # NoCursor /\ CanResumeFrom(cursor.seq)
               /\ \A m \in 1..Len(F) : F[m].kind # "resync"
               /\ \A y \in 1..Len(log) : cursor.seq < y /\ Accepts(log[y], w) =>
                     \E m \in 1..Len(F) : F[m] = log[y]
      <4>1. cursor.life = life
        BY <1>2, <3>5
      <4>2. \A i \in 1..Len(toPhone') : ~Renews(toPhone'[i])
        BY <1>7, <3>5 DEF Renews
      <4>3. CASE x <= cursor.seq
        BY <2>1, <4>1, <4>2, <4>3
      <4>4. CASE ~(x <= cursor.seq)
        <5>1. cursor.seq < x /\ Accepts(log[x], w)
          BY <1>1, <4>4 DEF Parts, Accepts
        <5>2. PICK m \in 1..Len(F) : F[m] = log[x]
          BY <3>5, <5>1
        <5>3. m \in 1..Len(toPhone') /\ toPhone'[m].seq = x
          BY <1>19, <3>2, <5>2
        <5>4. QED
          BY <5>3
      <4>5. QED
        BY <4>3, <4>4
    <3>6. QED
      BY <1>7, <3>3, <3>4, <3>5
  <2>3. QED
    BY <2>1, <2>2
<1>23. AnswersOK'
  <2> SUFFICES ASSUME NEW t \in Session PROVE AnswersOf(t)'
    BY <1>2 DEF AnswersOK
  <2>1. page'[t] # "live" /\ reads' = {}
    BY <1>2, <1>3
  <2>2. \A i \in 1..Len(toPhone') : ~Holds(toPhone', i, Answers, t)
    BY <1>6 DEF Holds, Answers
  <2>3. QED
    BY <2>1, <2>2 DEF AnswersOf
<1>24. KeptOK'
  BY <1>2, <1>5 DEF KeptOK
<1>25. \A t \in Session : copy'[t] # NoCopy => copy'[t] = copy[t] /\ t \in w /\ cursor # NoCursor
  BY <1>3, <1>5, <1>10 DEF CursorOK
<1>26. SinceOK'
  <2>1. \A t, e : Since(t, e)' = Since(t, e)
    BY <1>2 DEF Since
  <2>2. ~mistaken' /\ cursor.life = life => \A t \in Session : copy'[t] # NoCopy => Since(t, copy'[t])
    BY <1>2, <1>25 DEF ReplayInv, SinceOK
  <2>3. \A j \in 1..Len(toPhone') : toPhone'[j].kind # "tail"
    BY <1>6
  <2>4. QED
    BY <1>2, <1>3, <2>1, <2>2, <2>3 DEF SinceOK
<1>27. CopiesOK'
  <2> SUFFICES ASSUME NEW t \in Safe, NEW x \in 1..Len(log), EventIn(x, t)
               PROVE  CopyOf(t, x)'
    <3>1. Safe' = Safe
      BY <1>2 DEF Safe
    <3>2. QED
      BY <1>2, <3>1 DEF CopiesOK, EventIn
  <2>1. t \in Session
    BY DEF Safe
  <2>2. CopyOf(t, x)
    BY DEF ReplayInv, CopiesOK
  <2>3. ~UnderWay(x, t)
    BY <1>3, <1>4, <2>1 DEF UnderWay, Held
  <2>4. ASSUME ~mistaken', cursor.life = life, copy'[t] # NoCopy, copy'[t] < log[x].n
        PROVE  /\ ~(x <= cursor.seq)
               /\ Due(x)' /\ ~Resyncs' => UnderWay(x, t)'
    <3>1. copy'[t] = copy[t] /\ t \in w /\ cursor # NoCursor
      BY <1>25, <2>1, <2>4
    <3>2. ~(x <= cursor.seq)
      BY <1>2, <2>2, <2>3, <2>4, <3>1 DEF CopyOf
    <3>3. ASSUME Due(x)', ~Resyncs' PROVE UnderWay(x, t)'
      <4>1. ~(2 \in 1..Len(F) /\ F[2] = Resync(Len(log)))
        BY <1>8, <1>9, <3>3 DEF Resyncs
      <4>2. \A y \in 1..Len(log) : cursor.seq < y /\ Accepts(log[y], w) =>
                \E m \in 1..Len(F) : F[m] = log[y]
        BY <1>7, <3>1, <4>1
      <4>3. cursor.seq < x /\ Accepts(log[x], w)
        BY <1>1, <3>1, <3>2 DEF Parts, Accepts, EventIn
      <4>4. PICK m \in 1..Len(F) : F[m] = log[x]
        BY <4>2, <4>3
      <4>5. m \in 1..Len(toPhone') /\ toPhone'[m].seq = x
        BY <1>8, <1>19, <3>3, <4>4
      <4>6. QED
        BY <4>5 DEF UnderWay
    <3>4. QED
      BY <3>2, <3>3
  <2>5. \A j \in 1..Len(toPhone') : ~Holds(toPhone', j, {"tail"}, t)
    BY <1>6 DEF Holds
  <2>6. QED
    BY <1>2, <1>3, <2>4, <2>5 DEF CopyOf
<1>28. QED
  BY <1>11, <1>12, <1>13, <1>14, <1>15, <1>16, <1>17, <1>18, <1>21, <1>22, <1>23, <1>24, <1>26, <1>27 DEF ReplayInv

\* A phone connects, with a cursor or without.
LEMMA ConnectStep ==
    ASSUME ReplayInv, NEW w \in SUBSET Session, Connect(w)
    PROVE  ReplayInv'
<1> DEFINE resumed == CanResumeFrom(cursor.seq)
           F == <<Welcome(Len(log))>> \o
                   (IF cursor = NoCursor THEN <<>>
                    ELSE IF CanResumeFrom(cursor.seq) THEN Replay(cursor.seq, w)
                    ELSE <<Resync(Len(log))>>)
           a == [status |-> "open", queue |-> <<>>]
           out == SendAll(a, F)
<1>1. StateOK /\ LogOK /\ Parts
  BY PartsFact DEF ReplayInv
<1>2. /\ status = "none" /\ conns' = conns + 1 /\ watch' = w /\ Output(out)
      /\ copy' = KeptCopies(w, page)
      /\ appended' = appended /\ life' = life /\ recorded' = recorded /\ log' = log
      /\ opened' = opened /\ opening' = opening /\ reads' = reads
      /\ cursor' = cursor /\ page' = page /\ base' = base /\ got' = got /\ opens' = opens
      /\ discarded' = discarded /\ overtaken' = overtaken /\ replaced' = replaced
  BY DEF Connect, bridge, losses
<1>3. mistaken' = (mistaken \/ (cursor # NoCursor /\ resumed /\ cursor.life # life))
  BY Zenon DEF Connect
<1>4. Began(F, w)
  BY <1>1, BeganFact
<1> HIDE DEF F
<1>5. F \in Seq(Frame) /\ Len(F) \in Nat
  BY <1>4 DEF Began
<1>6. a \in LinkType /\ a.status = "open" /\ a.queue = <<>> /\ Len(a.queue) = 0
  BY DEF LinkType
<1> HIDE DEF a
<1>7. Sent(a, F, Len(F), out)
  BY <1>5, <1>6, SendAllSent
<1> HIDE DEF out
<1>8. /\ out \in LinkType /\ out.status \in {"open", "closing"}
      /\ Len(out.queue) <= Len(F)
      /\ \A i \in 1..Len(F) : i <= Len(out.queue) => out.queue[i] = F[i]
      /\ out.status = "open" => Len(out.queue) = Len(F)
  <2>1. \A i \in 1..Len(F) : 0 + i = i
    BY <1>5
  <2>2. 0 + Len(F) = Len(F)
    BY <1>5
  <2>3. QED
    BY <1>6, <1>7, <2>1, <2>2 DEF Sent
<1>9. /\ status' = out.status /\ toPhone' = out.queue /\ toPhone' \in Seq(Frame) /\ Len(toPhone') \in Nat
  BY <1>2, <1>8 DEF Output, LinkType
<1>10. \A i \in 1..Len(toPhone') : i \in 1..Len(F) /\ toPhone'[i] = F[i]
  BY <1>5, <1>8, <1>9
<1>11. conns' \in Nat
  BY <1>1, <1>2 DEF StateOK
<1>12. /\ mistaken' \in BOOLEAN /\ (~mistaken' => ~mistaken)
       /\ ~mistaken' /\ cursor # NoCursor /\ CanResumeFrom(cursor.seq) => cursor.life = life
  BY <1>3, Zenon
<1>13. w \subseteq Session
  OBVIOUS
<1>14. Connected(F, w)
  BY <1>2, <1>4, <1>8, <1>9, <1>10, <1>11, <1>12, <1>13 DEF Connected
<1>15. QED
  BY <1>14, ConnectedStep

-----------------------------------------------------------------------------
(* The phone takes a frame.                                                *)

\* The phone took f.
Received(f) ==
    /\ 1 \in 1..Len(toPhone) /\ f = toPhone[1] /\ f \in Frame
    /\ toPhone' \in Seq(Frame) /\ Len(toPhone') \in Nat
    /\ \A i \in 1..Len(toPhone') : i + 1 \in 1..Len(toPhone) /\ toPhone'[i] = toPhone[i + 1]
    /\ \A i \in 1..Len(toPhone) : i # 1 =>
          i - 1 \in 1..Len(toPhone') /\ toPhone'[i - 1] = toPhone[i]
    /\ cursor' = IF Renews(f) THEN [life |-> life, seq |-> f.n]
                 ELSE IF f.seq > cursor.seq THEN [life |-> life, seq |-> f.seq]
                 ELSE cursor
    /\ base' = IF Renews(f) THEN f.n ELSE base
    /\ got' = IF Renews(f) THEN {} ELSE IF f.seq = 0 THEN got ELSE got \cup {f.seq}
    /\ copy' \in [Session -> Nat \cup {NoCopy}]
    /\ \A t \in Session :
          copy'[t] = IF f.kind = "resync" THEN NoCopy
                     ELSE IF f.kind = "tail" /\ f.session = t /\ (t \in watch \/ page[t] # "none") THEN f.n
                     ELSE IF f.kind = "event" /\ f.session = t /\ copy[t] = f.n - 1 THEN f.n
                     ELSE copy[t]
    /\ page' \in [Session -> {"none", "asked", "live"}]
    /\ \A t \in Session :
          \/ f.kind = "tail" /\ f.session = t /\ page[t] # "none" /\ page'[t] = "live"
          \/ ~(f.kind = "tail" /\ f.session = t /\ page[t] # "none") /\ page'[t] = page[t]
          \/ /\ f.kind = "failed" /\ f.session = t /\ page[t] = "asked" /\ page'[t] = "none"
             /\ \A r \in reads : r.session # t
             /\ \A i \in 1..Len(toPhone') : ~Holds(toPhone', i, Answers, t)
    /\ appended' = appended /\ life' = life /\ recorded' = recorded /\ log' = log
    /\ status' = status /\ watch' = watch /\ opened' = opened /\ opening' = opening
    /\ reads' = reads /\ conns' = conns /\ opens' = opens
    /\ discarded' = discarded /\ overtaken' = overtaken /\ replaced' = replaced
    /\ mistaken' = mistaken

\* What the phone does with the frame it reads.
LEMMA ReceivedFact ==
    ASSUME StateOK, PhoneReceives
    PROVE  Received(Head(toPhone))
<1> DEFINE f == Head(toPhone)
           q == Tail(toPhone)
<1>1. Parts /\ toPhone \in Seq(Frame) /\ toPhone # <<>> /\ toPhone' = q
  BY PartsFact DEF StateOK, PhoneReceives
<1>2. /\ q \in Seq(Frame) /\ Len(q) \in Nat /\ Len(toPhone) = Len(q) + 1
      /\ \A i \in 1..Len(q) : q[i] = toPhone[i + 1]
      /\ f = toPhone[1] /\ 1 \in 1..Len(toPhone) /\ f \in Frame
      /\ DOMAIN q = 1..Len(q)
  BY <1>1, TailFact
<1> HIDE DEF q
<1>3. /\ \A i \in 1..Len(q) : i + 1 \in 1..Len(toPhone) /\ q[i] = toPhone[i + 1]
      /\ \A i \in 1..Len(toPhone) : i # 1 => i - 1 \in 1..Len(q) /\ q[i - 1] = toPhone[i]
  <2>1. \A i \in 1..Len(q) : i + 1 \in 1..Len(toPhone)
    BY <1>2
  <2>2. \A i \in 1..Len(toPhone) : i # 1 => i - 1 \in 1..Len(q) /\ (i - 1) + 1 = i
    BY <1>2
  <2>3. QED
    BY <1>2, <2>1, <2>2
<1>4. /\ f.n \in Nat /\ f.seq \in Nat
      /\ f.kind \in {"event", "tail", "failed"} => f.session \in Session
  BY <1>2, FrameFact
<1>5. /\ cursor' = IF Renews(f) THEN [life |-> life, seq |-> f.n]
                   ELSE IF f.seq > cursor.seq THEN [life |-> life, seq |-> f.seq]
                   ELSE cursor
      /\ base' = IF Renews(f) THEN f.n ELSE base
      /\ got' = IF Renews(f) THEN {} ELSE IF f.seq = 0 THEN got ELSE got \cup {f.seq}
  BY DEF PhoneReceives, Renews
<1>6. /\ copy' = IF f.kind = "resync" THEN [s \in Session |-> NoCopy]
                 ELSE IF f.kind = "tail" /\ f.session \in watch \cup Shown
                 THEN [copy EXCEPT ![f.session] = f.n]
                 ELSE IF f.kind = "event" /\ copy[f.session] = f.n - 1
                 THEN [copy EXCEPT ![f.session] = f.n]
                 ELSE copy
      /\ page' = IF f.kind = "tail" /\ f.session \in Shown
                 THEN [page EXCEPT ![f.session] = "live"]
                 ELSE IF f.kind = "failed" /\ page[f.session] = "asked"
                         /\ ~Awaited(f.session, toPhone')
                 THEN [page EXCEPT ![f.session] = "none"]
                 ELSE page
  BY DEF PhoneReceives
<1> HIDE DEF f
<1>7. copy \in [Session -> Nat \cup {NoCopy}] /\ page \in [Session -> {"none", "asked", "live"}]
  BY DEF StateOK
<1>8. copy' \in [Session -> Nat \cup {NoCopy}] /\ page' \in [Session -> {"none", "asked", "live"}]
  BY <1>4, <1>6, <1>7
<1>9. ASSUME NEW t \in Session
      PROVE  copy'[t] = IF f.kind = "resync" THEN NoCopy
                        ELSE IF f.kind = "tail" /\ f.session = t /\ (t \in watch \/ page[t] # "none") THEN f.n
                        ELSE IF f.kind = "event" /\ f.session = t /\ copy[t] = f.n - 1 THEN f.n
                        ELSE copy[t]
  BY <1>4, <1>6, <1>7 DEF Shown
<1>10. ASSUME NEW t \in Session, ~Awaited(t, toPhone')
       PROVE  /\ \A r \in reads : r.session # t
              /\ \A i \in 1..Len(toPhone') : ~Holds(toPhone', i, Answers, t)
  BY <1>1, <1>2, <1>10 DEF Awaited, Holds, Answers
<1>11. ASSUME NEW t \in Session
       PROVE  \/ f.kind = "tail" /\ f.session = t /\ page[t] # "none" /\ page'[t] = "live"
              \/ ~(f.kind = "tail" /\ f.session = t /\ page[t] # "none") /\ page'[t] = page[t]
              \/ f.kind = "failed" /\ f.session = t /\ page[t] = "asked" /\ page'[t] = "none"
                 /\ ~Awaited(t, toPhone')
  <2>1. CASE f.kind = "tail" /\ f.session \in Shown
    BY <1>4, <1>6, <1>7, <2>1 DEF Shown
  <2>2. CASE ~(f.kind = "tail" /\ f.session \in Shown) /\ f.kind = "failed" /\ page[f.session] = "asked"
             /\ ~Awaited(f.session, toPhone')
    BY <1>4, <1>6, <1>7, <2>2 DEF Shown
  <2>3. CASE /\ ~(f.kind = "tail" /\ f.session \in Shown)
             /\ ~(f.kind = "failed" /\ page[f.session] = "asked" /\ ~Awaited(f.session, toPhone'))
    <3>1. page' = page
      BY <1>6, <2>3
    <3>2. QED
      BY <1>4, <2>3, <3>1 DEF Shown
  <2>4. QED
    BY <2>1, <2>2, <2>3
<1>12. /\ appended' = appended /\ life' = life /\ recorded' = recorded /\ log' = log
       /\ status' = status /\ watch' = watch /\ opened' = opened /\ opening' = opening
       /\ reads' = reads /\ conns' = conns /\ opens' = opens
       /\ discarded' = discarded /\ overtaken' = overtaken /\ replaced' = replaced
       /\ mistaken' = mistaken
  BY DEF PhoneReceives, bridge, losses
<1>13. Received(f)
  BY <1>1, <1>2, <1>3, <1>5, <1>8, <1>9, <1>10, <1>11, <1>12 DEF Received
<1>14. QED
  BY <1>13 DEF f

\* What the next frame says of those behind it.
ReceivedNext(f) ==
    /\ f.seq \in Nat /\ f.n \in Nat
    /\ f.kind \in {"event", "tail", "failed"} => f.session \in Session
    /\ IF f.kind \in Numbered THEN f.seq \in 1..Len(log) /\ f.seq > 0 /\ f = log[f.seq] ELSE f.seq = 0
    /\ f.kind \in {"welcome", "resync"} => f.n <= Len(log)
    /\ \A i \in 1..Len(toPhone') :
          /\ toPhone'[i].kind # "welcome"
          /\ toPhone'[i].kind = "resync" => f.kind = "welcome" /\ cursor # NoCursor
    /\ cursor = NoCursor => f.kind = "welcome"
    /\ cursor' # NoCursor
    /\ \/ Renews(f) /\ cursor'.life = life /\ cursor'.seq = f.n /\ f.kind \in {"welcome", "resync"}
       \/ ~Renews(f) /\ f.seq > cursor.seq /\ cursor'.life = life /\ cursor'.seq = f.seq /\ f.seq > 0
       \/ ~Renews(f) /\ ~(f.seq > cursor.seq) /\ cursor' = cursor
    /\ ~Renews(f) => cursor # NoCursor

\* The cursor after a frame is that of the frame, or renewed by it.
LEMMA ReceivedNextFact ==
    ASSUME StateOK, FramesOK, BeginOK, NEW f, Received(f)
    PROVE  ReceivedNext(f)
<1>1. Parts /\ f \in Frame /\ f = toPhone[1] /\ 1 \in 1..Len(toPhone)
  BY PartsFact DEF Received
<1>2. /\ f.seq \in Nat /\ f.n \in Nat
      /\ f.kind \in {"event", "tail", "failed"} => f.session \in Session
  BY <1>1, FrameFact
<1>3. /\ IF f.kind \in Numbered THEN f.seq \in 1..Len(log) /\ f = log[f.seq] ELSE f.seq = 0
      /\ f.kind \in {"welcome", "resync"} => f.n <= Len(log)
  BY <1>1 DEF FramesOK
<1>4. f.kind \in Numbered => f.seq > 0
  BY <1>1, <1>3 DEF Parts
<1>5. ASSUME NEW i \in 1..Len(toPhone')
      PROVE  /\ toPhone'[i].kind # "welcome"
             /\ toPhone'[i].kind = "resync" => f.kind = "welcome" /\ cursor # NoCursor
  <2>1. i + 1 \in 1..Len(toPhone) /\ toPhone'[i] = toPhone[i + 1]
    BY DEF Received
  <2>2. i + 1 # 1 /\ 1 < i + 1
    OBVIOUS
  <2>3. QED
    BY <1>1, <2>1, <2>2 DEF BeginOK
<1>6. cursor = NoCursor => f.kind = "welcome"
  <2>1. toPhone # <<>>
    BY <1>1
  <2>2. QED
    BY <1>1, <2>1 DEF BeginOK
<1>7. \/ Renews(f) /\ cursor' = [life |-> life, seq |-> f.n]
      \/ ~Renews(f) /\ f.seq > cursor.seq /\ cursor' = [life |-> life, seq |-> f.seq]
      \/ ~Renews(f) /\ ~(f.seq > cursor.seq) /\ cursor' = cursor
  BY DEF Received
<1>8. ~Renews(f) => cursor # NoCursor
  BY <1>6 DEF Renews
<1>9. life # 0 /\ NoCursor.life = 0
  BY DEF StateOK, NoCursor
<1>10. cursor' # NoCursor
  BY <1>7, <1>8, <1>9
<1>11. Renews(f) => f.kind \in {"welcome", "resync"}
  BY DEF Renews
<1>12. f.seq > cursor.seq => f.seq > 0
  BY <1>1, <1>2 DEF Parts
<1>13. QED
  BY <1>2, <1>3, <1>4, <1>5, <1>6, <1>7, <1>8, <1>10, <1>11, <1>12 DEF ReceivedNext

\* The types, the pages and the snapshots.
LEMMA ReceivedOpens ==
    ASSUME StateOK, OpensOK, IdleOK, LogOK, SnapshotOK, CursorOK, KeptOK, FramesOK, BeginOK,
           NEW f, Received(f)
    PROVE  StateOK' /\ OpensOK' /\ IdleOK' /\ LogOK' /\ SnapshotOK' /\ CursorOK' /\ KeptOK'
<1>1. Parts /\ FramesIn(toPhone) /\ FramesIn(log) /\ ReceivedNext(f)
  BY PartsFact, ReceivedNextFact
<1>2. /\ appended' = appended /\ life' = life /\ recorded' = recorded /\ log' = log
      /\ status' = status /\ watch' = watch /\ opened' = opened /\ opening' = opening
      /\ reads' = reads /\ conns' = conns /\ opens' = opens
      /\ discarded' = discarded /\ overtaken' = overtaken /\ replaced' = replaced
      /\ mistaken' = mistaken
      /\ 1 \in 1..Len(toPhone) /\ f = toPhone[1] /\ f \in Frame
      /\ toPhone' \in Seq(Frame) /\ Len(toPhone') \in Nat
      /\ copy' \in [Session -> Nat \cup {NoCopy}]
      /\ page' \in [Session -> {"none", "asked", "live"}]
  BY DEF Received
<1>3. /\ \A i \in 1..Len(toPhone') : i + 1 \in 1..Len(toPhone) /\ toPhone'[i] = toPhone[i + 1]
      /\ \A i \in 1..Len(toPhone) : i # 1 =>
            i - 1 \in 1..Len(toPhone') /\ toPhone'[i - 1] = toPhone[i]
  BY DEF Received
<1>4. \A t \in Session :
          copy'[t] = IF f.kind = "resync" THEN NoCopy
                     ELSE IF f.kind = "tail" /\ f.session = t /\ (t \in watch \/ page[t] # "none") THEN f.n
                     ELSE IF f.kind = "event" /\ f.session = t /\ copy[t] = f.n - 1 THEN f.n
                     ELSE copy[t]
  BY DEF Received
<1>5. \A t \in Session :
          \/ f.kind = "tail" /\ f.session = t /\ page[t] # "none" /\ page'[t] = "live"
          \/ ~(f.kind = "tail" /\ f.session = t /\ page[t] # "none") /\ page'[t] = page[t]
          \/ /\ f.kind = "failed" /\ f.session = t /\ page[t] = "asked" /\ page'[t] = "none"
             /\ \A r \in reads : r.session # t
             /\ \A i \in 1..Len(toPhone') : ~Holds(toPhone', i, Answers, t)
  BY DEF Received
<1>6. StateOK'
  <2>1. cursor' \in [life : Nat, seq : Nat] /\ base' \in Nat /\ got' \subseteq Nat
    <3>1. /\ cursor' = IF Renews(f) THEN [life |-> life, seq |-> f.n]
                       ELSE IF f.seq > cursor.seq THEN [life |-> life, seq |-> f.seq]
                       ELSE cursor
          /\ base' = IF Renews(f) THEN f.n ELSE base
          /\ got' = IF Renews(f) THEN {} ELSE IF f.seq = 0 THEN got ELSE got \cup {f.seq}
      BY DEF Received
    <3>2. life \in Nat /\ f.n \in Nat /\ f.seq \in Nat /\ base \in Nat /\ got \subseteq Nat
          /\ cursor \in [life : Nat, seq : Nat]
      BY <1>1 DEF ReceivedNext, StateOK
    <3>3. QED
      BY <3>1, <3>2
  <2>2. opening' \in [Session -> Buffer] /\ reads' \subseteq Read
    BY <1>2 DEF StateOK
  <2>3. QED
    BY <1>2, <2>1, <2>2 DEF StateOK
<1>7. OpensOK'
  <2>1. ASSUME NEW t \in Session, opening[t].open # 0
        PROVE  page'[t] # "none" /\ \E r \in reads : r.session = t /\ r.open = opening[t].open
    <3>1. page[t] # "none" /\ \E r \in reads : r.session = t /\ r.open = opening[t].open
      BY <2>1 DEF OpensOK
    <3>2. QED
      BY <1>5, <3>1
  <2>2. ASSUME status = "open", NEW t \in opened
        PROVE  \/ page'[t] = "live"
               \/ page'[t] = "asked" /\ \E i \in 1..Len(toPhone') : Holds(toPhone', i, {"tail"}, t)
    <3>1. t \in Session
      BY DEF StateOK
    <3>2. CASE page[t] = "live"
      BY <1>5, <3>1, <3>2
    <3>3. CASE page[t] = "asked" /\ \E i \in 1..Len(toPhone) : Holds(toPhone, i, {"tail"}, t)
      <4>1. PICK i \in 1..Len(toPhone) : Holds(toPhone, i, {"tail"}, t)
        BY <3>3
      <4>2. CASE i = 1
        <5>1. f.kind = "tail" /\ f.session = t
          BY <1>2, <4>1, <4>2 DEF Holds
        <5>2. QED
          BY <1>5, <3>1, <3>3, <5>1
      <4>3. CASE i # 1
        <5>1. i - 1 \in 1..Len(toPhone') /\ Holds(toPhone', i - 1, {"tail"}, t)
          BY <1>3, <4>1, <4>3 DEF Holds
        <5>2. Holds(toPhone', i - 1, Answers, t)
          BY <5>1 DEF Holds, Answers
        <5>3. QED
          BY <1>5, <3>1, <3>3, <5>1, <5>2
      <4>4. QED
        BY <4>2, <4>3
    <3>4. QED
      BY <2>2, <3>2, <3>3 DEF OpensOK
  <2>3. QED
    BY <1>2, <2>1, <2>2 DEF OpensOK
<1>8. IdleOK'
  <2>1. status # "none"
    <3>1. toPhone # <<>>
      BY <1>2
    <3>2. QED
      BY <3>1 DEF IdleOK
  <2>2. QED
    BY <1>2, <2>1 DEF IdleOK
<1>9. LogOK'
  BY <1>2 DEF LogOK
<1>10. SnapshotOK'
  <2>1. ASSUME NEW t \in Session PROVE copy'[t] <= appended[t]
    <3>1. copy[t] <= appended[t] /\ NoCopy <= appended[t]
      BY <1>1 DEF SnapshotOK, Parts
    <3>2. f.kind = "tail" /\ f.session = t => f.n <= appended[t]
      BY <1>2 DEF SnapshotOK
    <3>3. f.kind = "event" /\ f.session = t => f.n <= appended[t]
      <4> SUFFICES ASSUME f.kind = "event", f.session = t PROVE f.n <= appended[t]
        OBVIOUS
      <4>1. f.seq \in 1..Len(log) /\ f = log[f.seq]
        BY <1>1 DEF ReceivedNext, Numbered
      <4>2. f.n <= recorded[t] /\ recorded[t] <= appended[t]
        BY <4>1 DEF LogOK
      <4>3. QED
        BY <1>1, <4>2 DEF Parts, ReceivedNext
    <3>4. QED
      BY <1>4, <3>1, <3>2, <3>3
  <2>2. \A j \in 1..Len(toPhone') : toPhone'[j].kind = "tail" =>
            toPhone'[j].n <= appended[toPhone'[j].session]
    BY <1>3 DEF SnapshotOK
  <2>3. QED
    BY <1>2, <2>1, <2>2 DEF SnapshotOK
<1>11. CursorOK'
  <2>1. cursor'.life <= life /\ (cursor'.life = life => cursor'.seq <= Len(log))
    <3>1. life <= life
      BY DEF StateOK
    <3>2. f.seq <= Len(log)
      BY <1>1 DEF ReceivedNext, Parts
    <3>3. QED
      BY <1>1, <3>1, <3>2 DEF ReceivedNext, CursorOK
  <2>2. cursor'.life # 0
    <3>1. life # 0
      BY DEF StateOK
    <3>2. QED
      BY <1>1, <3>1 DEF ReceivedNext, CursorOK
  <2>3. QED
    BY <1>1, <1>2, <2>1, <2>2 DEF CursorOK, ReceivedNext
<1>12. KeptOK'
  <2> SUFFICES ASSUME status # "none", NEW t \in Session, copy'[t] # NoCopy
               PROVE  t \in watch \/ page'[t] = "live"
    BY <1>2 DEF KeptOK
  <2>1. page[t] = "live" => page'[t] = "live"
    BY <1>5
  <2>2. CASE f.kind = "tail" /\ f.session = t /\ (t \in watch \/ page[t] # "none")
    BY <1>5, <2>2
  <2>3. CASE f.kind = "event" /\ f.session = t /\ copy[t] = f.n - 1
    <3>1. f.seq \in 1..Len(log) /\ f = log[f.seq]
      BY <1>1, <2>3 DEF ReceivedNext, Numbered
    <3>2. 1 <= f.n
      BY <2>3, <3>1 DEF LogOK
    <3>3. copy[t] # NoCopy
      BY <1>1, <2>3, <3>2 DEF NoCopy, ReceivedNext
    <3>4. QED
      BY <2>1, <3>3 DEF KeptOK
  <2>4. CASE copy'[t] = copy[t]
    BY <2>1, <2>4 DEF KeptOK
  <2>5. QED
    BY <1>4, <2>2, <2>3, <2>4
<1>13. QED
  BY <1>6, <1>7, <1>8, <1>9, <1>10, <1>11, <1>12

\* The order of what is under way, and the global frames.
LEMMA ReceivedOrder ==
    ASSUME StateOK, FramesOK, BeginOK, OrderOK, HeldOK, LifeOK, GlobalsOK, LogOK,
           NEW f, Received(f)
    PROVE  FramesOK' /\ BeginOK' /\ OrderOK' /\ HeldOK' /\ LifeOK' /\ GlobalsOK'
<1>1. Parts /\ FramesIn(toPhone) /\ FramesIn(log) /\ ReceivedNext(f)
  BY PartsFact, ReceivedNextFact
<1>2. /\ life' = life /\ log' = log /\ status' = status /\ opening' = opening
      /\ mistaken' = mistaken
      /\ 1 \in 1..Len(toPhone) /\ f = toPhone[1]
      /\ Len(toPhone') \in Nat
  BY DEF Received
<1>3. /\ \A i \in 1..Len(toPhone') : i + 1 \in 1..Len(toPhone) /\ toPhone'[i] = toPhone[i + 1]
      /\ \A i \in 1..Len(toPhone) : i # 1 =>
            i - 1 \in 1..Len(toPhone') /\ toPhone'[i - 1] = toPhone[i]
  BY DEF Received
<1>4. \A i \in 1..Len(toPhone') : toPhone'[i].kind # "welcome"
                                  /\ (toPhone'[i].kind = "resync" => f.kind = "welcome" /\ cursor # NoCursor)
  BY <1>1 DEF ReceivedNext
<1>5. cursor' # NoCursor
  BY <1>1 DEF ReceivedNext
<1>6. \A i \in 1..Len(toPhone') : Renews(toPhone[i])' <=> toPhone'[i].kind = "resync"
  BY <1>4 DEF Renews
<1>7. FramesOK'
  BY <1>2, <1>3 DEF FramesOK
<1>8. BeginOK'
  <2> SUFFICES ASSUME NEW i \in 1..Len(toPhone'), toPhone'[i].kind = "resync",
                      NEW j \in 1..Len(toPhone'), j < i
               PROVE  toPhone'[j].kind = "welcome"
    BY <1>4, <1>5 DEF BeginOK
  <2>1. i + 1 \in 1..Len(toPhone) /\ toPhone[i + 1].kind = "resync"
        /\ j + 1 \in 1..Len(toPhone) /\ toPhone'[j] = toPhone[j + 1] /\ j + 1 < i + 1
    BY <1>3
  <2>2. QED
    BY <2>1 DEF BeginOK
<1>9. OrderOK'
  <2> SUFFICES ASSUME NEW i \in 1..Len(toPhone'), NEW j \in 1..Len(toPhone'), i < j
               PROVE  /\ toPhone'[j].kind = "global" => toPhone'[i].seq < toPhone'[j].seq
                      /\ toPhone'[i].kind = "event" /\ toPhone'[j].kind = "event"
                            /\ toPhone'[i].session = toPhone'[j].session
                         => toPhone'[i].seq < toPhone'[j].seq
    BY DEF OrderOK
  <2>1. i + 1 \in 1..Len(toPhone) /\ toPhone'[i] = toPhone[i + 1]
        /\ j + 1 \in 1..Len(toPhone) /\ toPhone'[j] = toPhone[j + 1] /\ i + 1 < j + 1
    BY <1>3
  <2>2. QED
    BY <2>1 DEF OrderOK
<1>10. HeldOK'
  <2>1. ASSUME NEW t \in Session, NEW j \in 1..Len(toPhone'), Holds(toPhone', j, {"event"}, t)
        PROVE  j + 1 \in 1..Len(toPhone) /\ Holds(toPhone, j + 1, {"event"}, t) /\ toPhone'[j] = toPhone[j + 1]
    BY <1>3, <2>1 DEF Holds
  <2> SUFFICES ASSUME NEW t \in Session, NEW i \in 1..Len(opening[t].frames)
               PROVE  LET g == opening[t].frames[i]
                      IN  /\ g.kind = "event" /\ g.session = t
                          /\ g.seq \in 1..Len(log) /\ g = log[g.seq]
                          /\ \A j \in 1..Len(opening[t].frames) : j < i => opening[t].frames[j].seq < g.seq
                          /\ \A j \in 1..Len(toPhone') : Holds(toPhone', j, {"event"}, t) => toPhone'[j].seq < g.seq
    <3>1. opening' = opening /\ log' = log
      BY <1>2
    <3>2. QED
      BY <3>1 DEF HeldOK
  <2> DEFINE h == opening[t].frames[i]
  <2>2. /\ h.kind = "event" /\ h.session = t /\ h.seq \in 1..Len(log) /\ h = log[h.seq]
        /\ \A j \in 1..Len(opening[t].frames) : j < i => opening[t].frames[j].seq < h.seq
        /\ \A j \in 1..Len(toPhone) : Holds(toPhone, j, {"event"}, t) => toPhone[j].seq < h.seq
    BY DEF HeldOK
  <2>3. ASSUME NEW j \in 1..Len(toPhone'), Holds(toPhone', j, {"event"}, t)
        PROVE  toPhone'[j].seq < h.seq
    <3>1. j + 1 \in 1..Len(toPhone) /\ Holds(toPhone, j + 1, {"event"}, t) /\ toPhone'[j] = toPhone[j + 1]
      BY <2>1, <2>3
    <3> HIDE DEF h
    <3>2. QED
      BY <2>2, <3>1
  <2> HIDE DEF h
  <2>4. QED
    <3>1. h = opening[t].frames[i]
      BY DEF h
    <3>2. QED
      BY <2>2, <2>3, <3>1
<1>11. LifeOK'
  <2> SUFFICES ASSUME ~mistaken, cursor'.life # life,
                      status = "open" \/ \E i \in 1..Len(toPhone') : toPhone'[i].seq > 0
               PROVE  Resyncs'
    BY <1>2 DEF LifeOK
  <2>1. ~Renews(f) /\ cursor' = cursor
    BY <1>1 DEF ReceivedNext
  <2>2. cursor # NoCursor /\ cursor.life # life
    BY <1>5, <2>1
  <2>3. Resyncs
    BY <1>3, <2>2 DEF LifeOK
  <2>4. PICK i \in 1..Len(toPhone) : toPhone[i].kind = "resync"
    BY <2>3 DEF Resyncs
  <2>5. i # 1
    BY <1>2, <2>1, <2>4 DEF Renews
  <2>6. QED
    BY <1>3, <2>4, <2>5 DEF Resyncs
<1>12. ASSUME NEW i \in 1..Len(toPhone), i # 1, Renews(toPhone[i])
       PROVE  toPhone[i].kind = "resync" /\ f.kind = "welcome" /\ cursor # NoCursor
  BY <1>3, <1>4, <1>12 DEF Renews
<1>13. GlobalsOK'
  <2> SUFFICES ASSUME ~mistaken, NEW x \in 1..Len(log), log[x].kind = "global"
               PROVE  /\ cursor'.life = life /\ x <= cursor'.seq => Has(x)'
                      /\ Due(x)' => \/ \E i \in 1..Len(toPhone') : toPhone'[i].seq = x
                                    \/ \E i \in 1..Len(toPhone') : Renews(toPhone[i])' /\ x <= toPhone'[i].n
                                    \/ Has(x)' /\ \A i \in 1..Len(toPhone') : ~Renews(toPhone[i])'
    BY <1>2 DEF GlobalsOK, Renews
  <2>1. /\ cursor.life = life /\ x <= cursor.seq => Has(x)
        /\ Due(x) => \/ \E i \in 1..Len(toPhone) : toPhone[i].seq = x
                     \/ \E i \in 1..Len(toPhone) : Renews(toPhone[i]) /\ x <= toPhone[i].n
                     \/ Has(x) /\ \A i \in 1..Len(toPhone) : ~Renews(toPhone[i])
    BY DEF GlobalsOK
  <2>2. /\ base' = IF Renews(f) THEN f.n ELSE base
        /\ got' = IF Renews(f) THEN {} ELSE IF f.seq = 0 THEN got ELSE got \cup {f.seq}
    BY DEF Received
  <2>3. /\ Renews(f) /\ x <= f.n => Has(x)'
        /\ ~Renews(f) /\ Has(x) => Has(x)'
        /\ ~Renews(f) /\ f.seq = x => Has(x)'
    <3>1. Renews(f) /\ x <= f.n => Has(x)'
      BY <2>2 DEF Has
    <3>2. ~Renews(f) => base' = base /\ got \subseteq got' /\ (f.seq # 0 => f.seq \in got')
      BY <2>2
    <3>3. x # 0
      BY <1>1 DEF Parts
    <3>4. QED
      BY <3>1, <3>2, <3>3 DEF Has
  <2>4. x > 0 /\ x \in Nat /\ log[x].seq = x
    BY <1>1 DEF Parts, LogOK
  <2>5. ASSUME NEW i \in 1..Len(toPhone), i # 1, toPhone[i].seq = x
        PROVE  f.seq < x
    <3>1. toPhone[i].kind \in Numbered /\ toPhone[i] = log[x]
      BY <2>4, <2>5 DEF FramesOK
    <3>2. 1 < i /\ toPhone[i].kind = "global"
      BY <1>2, <2>5, <3>1
    <3>3. QED
      BY <1>2, <2>5, <3>2 DEF OrderOK
  <2>6. ASSUME cursor'.life = life, x <= cursor'.seq
        PROVE  Has(x)'
    <3>1. CASE Renews(f)
      BY <1>1, <2>3, <2>6, <3>1 DEF ReceivedNext
    <3>2. CASE ~Renews(f) /\ ~(f.seq > cursor.seq)
      BY <1>1, <2>1, <2>3, <2>6, <3>2 DEF ReceivedNext
    <3>3. CASE ~Renews(f) /\ f.seq > cursor.seq
      <4>1. x <= f.seq /\ f.seq > 0 /\ f.seq \in Nat
        BY <1>1, <2>6, <3>3 DEF ReceivedNext
      <4>2. Due(x)
        BY <1>2, <4>1 DEF Due
      <4>3. CASE \E i \in 1..Len(toPhone) : toPhone[i].seq = x
        <5>1. PICK i \in 1..Len(toPhone) : toPhone[i].seq = x
          BY <4>3
        <5>2. i = 1
          BY <2>4, <2>5, <4>1, <5>1
        <5>3. QED
          BY <1>2, <2>3, <3>3, <5>1, <5>2
      <4>4. CASE \E i \in 1..Len(toPhone) : Renews(toPhone[i])
        <5>1. PICK i \in 1..Len(toPhone) : Renews(toPhone[i])
          BY <4>4
        <5>2. i # 1
          BY <1>2, <3>3, <5>1
        <5>3. f.kind = "welcome"
          BY <1>12, <5>1, <5>2
        <5>4. QED
          BY <1>1, <4>1, <5>3 DEF ReceivedNext, Numbered
      <4>5. CASE Has(x)
        BY <2>3, <3>3, <4>5
      <4>6. QED
        BY <2>1, <4>2, <4>3, <4>4, <4>5
    <3>4. QED
      BY <3>1, <3>2, <3>3
  <2>7. ASSUME Due(x)'
        PROVE  \/ \E i \in 1..Len(toPhone') : toPhone'[i].seq = x
               \/ \E i \in 1..Len(toPhone') : Renews(toPhone[i])' /\ x <= toPhone'[i].n
               \/ Has(x)' /\ \A i \in 1..Len(toPhone') : ~Renews(toPhone[i])'
    <3>1. Due(x)
      BY <1>2, <1>3, <2>7 DEF Due
    <3>2. CASE \E i \in 1..Len(toPhone) : toPhone[i].seq = x
      <4>1. PICK i \in 1..Len(toPhone) : toPhone[i].seq = x
        BY <3>2
      <4>2. CASE i # 1
        BY <1>3, <4>1, <4>2
      <4>3. CASE i = 1
        <5>1. f.seq = x /\ f.kind \in Numbered
          BY <1>1, <1>2, <2>4, <4>1, <4>3 DEF ReceivedNext
        <5>2. ~Renews(f) /\ f.kind # "welcome"
          BY <5>1 DEF Numbered, Renews
        <5>3. QED
          BY <1>4, <1>6, <2>3, <5>1, <5>2
      <4>4. QED
        BY <4>2, <4>3
    <3>3. CASE \E i \in 1..Len(toPhone) : Renews(toPhone[i]) /\ x <= toPhone[i].n
      <4>1. PICK i \in 1..Len(toPhone) : Renews(toPhone[i]) /\ x <= toPhone[i].n
        BY <3>3
      <4>2. CASE i # 1
        <5>1. toPhone[i].kind = "resync" /\ i - 1 \in 1..Len(toPhone') /\ toPhone'[i - 1] = toPhone[i]
          BY <1>3, <1>12, <4>1, <4>2
        <5>2. Renews(toPhone[i - 1])' /\ x <= toPhone'[i - 1].n
          BY <1>6, <4>1, <5>1
        <5>3. QED
          BY <5>1, <5>2
      <4>3. CASE i = 1
        <5>1. Renews(f) /\ x <= f.n
          BY <1>2, <4>1, <4>3
        <5>2. ~(f.kind = "welcome" /\ cursor # NoCursor)
          BY <5>1 DEF Renews
        <5>3. QED
          BY <1>4, <1>6, <2>3, <5>1, <5>2
      <4>4. QED
        BY <4>2, <4>3
    <3>4. CASE Has(x) /\ \A i \in 1..Len(toPhone) : ~Renews(toPhone[i])
      <4>1. ~Renews(f)
        BY <1>2, <3>4
      <4>2. \A i \in 1..Len(toPhone') : toPhone'[i].kind # "resync"
        BY <1>3, <3>4 DEF Renews
      <4>3. QED
        BY <1>6, <2>3, <3>4, <4>1, <4>2
    <3>5. QED
      BY <2>1, <3>1, <3>2, <3>3, <3>4
  <2>8. QED
    BY <2>6, <2>7
<1>14. QED
  BY <1>7, <1>8, <1>9, <1>10, <1>11, <1>13

\* What a copy becomes, and what it tells of the cursor.
ReceivedCopy(f, t) ==
    \/ f.kind = "resync" /\ copy'[t] = NoCopy
    \/ /\ f.kind = "tail" /\ f.session = t /\ copy'[t] = f.n /\ f.seq = 0 /\ cursor' = cursor
       /\ Holds(toPhone, 1, {"tail"}, t) /\ Holds(toPhone, 1, Answers, t)
    \/ /\ f.kind = "event" /\ f.session = t /\ copy[t] = f.n - 1 /\ copy'[t] = f.n /\ copy[t] # NoCopy
       /\ Holds(toPhone, 1, {"event"}, t)
    \/ /\ f.kind # "resync" /\ copy'[t] = copy[t]
       /\ f.kind = "event" /\ f.session = t => copy[t] # f.n - 1

\* The copy after a frame: the tail of its session, its next event, or what it was.
LEMMA ReceivedCopyFact ==
    ASSUME StateOK, LogOK, FramesOK, BeginOK, CursorOK, LifeOK, NEW f, Received(f), NEW t \in Session
    PROVE  /\ ReceivedCopy(f, t)
           /\ ~mistaken /\ cursor'.life = life /\ copy[t] # NoCopy /\ f.kind # "resync" =>
                 cursor.life = life /\ ~Renews(f)
<1>1. Parts /\ ReceivedNext(f) /\ f = toPhone[1] /\ 1 \in 1..Len(toPhone)
  <2>1. f = toPhone[1] /\ 1 \in 1..Len(toPhone)
    BY DEF Received
  <2>2. QED
    BY <2>1, PartsFact, ReceivedNextFact
<1>2. copy'[t] = IF f.kind = "resync" THEN NoCopy
                 ELSE IF f.kind = "tail" /\ f.session = t /\ (t \in watch \/ page[t] # "none") THEN f.n
                 ELSE IF f.kind = "event" /\ f.session = t /\ copy[t] = f.n - 1 THEN f.n
                 ELSE copy[t]
  BY DEF Received
<1>3. ASSUME f.kind = "tail" PROVE f.seq = 0 /\ cursor' = cursor
  <2>1. ~Renews(f) /\ f.seq = 0
    BY <1>1, <1>3 DEF ReceivedNext, Renews, Numbered
  <2>2. QED
    BY <1>1, <2>1 DEF ReceivedNext
<1>4. ASSUME f.kind = "event", f.session = t PROVE 1 <= f.n /\ f.n \in Nat
  <2>1. f.seq \in 1..Len(log) /\ f = log[f.seq] /\ f.n \in Nat
    BY <1>1, <1>4 DEF ReceivedNext, Numbered
  <2>2. QED
    BY <1>4, <2>1 DEF LogOK
<1>5. ReceivedCopy(f, t)
  <2>1. f.kind = "event" /\ f.session = t /\ copy[t] = f.n - 1 => copy[t] # NoCopy
    BY <1>4 DEF NoCopy
  <2>2. f.kind = "tail" /\ f.session = t =>
            Holds(toPhone, 1, {"tail"}, t) /\ Holds(toPhone, 1, Answers, t)
    BY <1>1 DEF Holds, Answers
  <2>3. f.kind = "event" /\ f.session = t => Holds(toPhone, 1, {"event"}, t)
    BY <1>1 DEF Holds
  <2>4. QED
    BY <1>2, <1>3, <2>1, <2>2, <2>3 DEF ReceivedCopy
<1>6. ASSUME ~mistaken, cursor'.life = life, copy[t] # NoCopy, f.kind # "resync"
      PROVE  cursor.life = life /\ ~Renews(f)
  <2>1. cursor # NoCursor
    BY <1>6 DEF CursorOK
  <2>2. ~Renews(f)
    BY <1>6, <2>1 DEF Renews
  <2>3. CASE f.seq > cursor.seq
    <3>1. f.seq > 0 /\ f.kind \in Numbered
      BY <1>1, <2>2, <2>3 DEF ReceivedNext, Parts
    <3>2. ~Resyncs
      <4> SUFFICES ASSUME NEW i \in 1..Len(toPhone), toPhone[i].kind = "resync" PROVE FALSE
        BY DEF Resyncs
      <4>1. i # 1
        BY <1>1, <1>6
      <4>2. i - 1 \in 1..Len(toPhone') /\ toPhone'[i - 1] = toPhone[i]
        BY <4>1 DEF Received
      <4>3. f.kind = "welcome"
        BY <1>1, <4>2 DEF ReceivedNext
      <4>4. QED
        BY <3>1, <4>3 DEF Numbered
    <3>3. \E i \in 1..Len(toPhone) : toPhone[i].seq > 0
      BY <1>1, <3>1
    <3>4. cursor.life = life
      BY <1>6, <2>1, <3>2, <3>3 DEF LifeOK
    <3>5. QED
      BY <2>2, <3>4
  <2>4. CASE ~(f.seq > cursor.seq)
    BY <1>1, <1>6, <2>2, <2>4 DEF ReceivedNext
  <2>5. QED
    BY <2>3, <2>4
<1>7. QED
  BY <1>5, <1>6

\* The answers and the events that the copies lack.
LEMMA ReceivedAnswers ==
    ASSUME StateOK, LogOK, FramesOK, BeginOK, CursorOK, LifeOK, AnswersOK, SinceOK,
           NEW f, Received(f)
    PROVE  AnswersOK' /\ SinceOK'
<1>1. Parts /\ FramesIn(toPhone) /\ ReceivedNext(f)
  BY PartsFact, ReceivedNextFact
<1>2. /\ life' = life /\ recorded' = recorded /\ log' = log /\ opened' = opened
      /\ opening' = opening /\ reads' = reads /\ replaced' = replaced
      /\ mistaken' = mistaken
      /\ 1 \in 1..Len(toPhone) /\ f = toPhone[1] /\ Len(toPhone') \in Nat
  BY DEF Received
<1>3. \A i \in 1..Len(toPhone') : i + 1 \in 1..Len(toPhone) /\ toPhone'[i] = toPhone[i + 1]
                                  /\ 1 < i + 1 /\ 1 # i + 1
  BY DEF Received
<1>4. \A i \in 1..Len(toPhone') : \A kinds, t : Holds(toPhone', i, kinds, t) =>
          Holds(toPhone, i + 1, kinds, t)
  BY <1>3 DEF Holds
<1>5. \A t \in Session : ReceivedCopy(f, t)
  BY ReceivedCopyFact
<1>6. AnswersOK'
  <2> SUFFICES ASSUME NEW t \in Session, t \notin replaced PROVE AnswersOf(t)'
    BY <1>2 DEF AnswersOK
  <2>1. AnswersOf(t)
    BY DEF AnswersOK
  <2>2. ReceivedCopy(f, t)
    BY <1>5
  <2>3. ASSUME NEW n \in Nat, copy[t] <= n, ~Holds(toPhone, 1, Answers, t),
               Holds(toPhone, 1, {"event"}, t) => toPhone[1].n <= n
        PROVE  copy'[t] <= n
    BY <1>1, <1>2, <2>2, <2>3 DEF ReceivedCopy, Parts
  <2>4. ASSUME NEW r \in reads, r.session = t
        PROVE  /\ opening[t].open = r.open
               /\ \A r2 \in reads : r2.session = t => r2 = r
               /\ \A i \in 1..Len(toPhone') : ~Holds(toPhone', i, Answers, t)
               /\ r.upTo # NoCopy =>
                    /\ copy'[t] <= r.upTo
                    /\ \A i \in 1..Len(toPhone') :
                          Holds(toPhone', i, {"event"}, t) => toPhone'[i].n <= r.upTo
    <3>1. /\ opening[t].open = r.open
          /\ \A r2 \in reads : r2.session = t => r2 = r
          /\ \A i \in 1..Len(toPhone) : ~Holds(toPhone, i, Answers, t)
          /\ r.upTo # NoCopy =>
               /\ copy[t] <= r.upTo
               /\ \A i \in 1..Len(toPhone) : Holds(toPhone, i, {"event"}, t) => toPhone[i].n <= r.upTo
      BY <2>1, <2>4 DEF AnswersOf
    <3>2. r.upTo # NoCopy => copy'[t] <= r.upTo
      <4>1. r.upTo # NoCopy => r.upTo \in Nat
        BY <1>1 DEF Parts
      <4>2. QED
        BY <1>2, <2>3, <3>1, <4>1
    <3>3. QED
      BY <1>3, <1>4, <3>1, <3>2
  <2>5. ASSUME NEW j \in 1..Len(toPhone'), Holds(toPhone', j, Answers, t)
        PROVE  /\ \A i \in 1..Len(toPhone') : Holds(toPhone', i, Answers, t) => i = j
               /\ toPhone'[j].kind = "tail" =>
                    /\ t \in opened /\ copy'[t] <= toPhone'[j].n
                    /\ \A i \in 1..Len(toPhone') : i < j /\ Holds(toPhone', i, {"event"}, t)
                          => toPhone'[i].n <= toPhone'[j].n
    <3> DEFINE k == j + 1
    <3>1. k \in 1..Len(toPhone) /\ toPhone'[j] = toPhone[k] /\ Holds(toPhone, k, Answers, t) /\ 1 < k
          /\ 1 # k
      BY <1>3, <1>4, <2>5
    <3>2. \A i \in 1..Len(toPhone') : (i + 1 = k => i = j) /\ (i < j => i + 1 < k)
      BY <1>2
    <3> HIDE DEF k
    <3>3. /\ \A i \in 1..Len(toPhone) : Holds(toPhone, i, Answers, t) => i = k
          /\ toPhone[k].kind = "tail" =>
               /\ t \in opened /\ copy[t] <= toPhone[k].n
               /\ \A i \in 1..Len(toPhone) : i < k /\ Holds(toPhone, i, {"event"}, t)
                     => toPhone[i].n <= toPhone[k].n
      BY <2>1, <3>1 DEF AnswersOf
    <3>4. ~Holds(toPhone, 1, Answers, t)
      BY <1>2, <3>1, <3>3
    <3>5. toPhone[k].n \in Nat
      BY <1>1, <3>1 DEF FramesIn
    <3>6. toPhone[k].kind = "tail" => copy'[t] <= toPhone[k].n
      BY <1>2, <2>3, <3>1, <3>3, <3>4, <3>5
    <3>7. QED
      BY <1>3, <1>4, <3>1, <3>2, <3>3, <3>6
  <2>6. page'[t] = "live" => t \in opened
    <3>1. page'[t] = page[t] \/ page'[t] = "none" \/ (f.kind = "tail" /\ f.session = t)
      BY DEF Received
    <3>2. f.kind = "tail" /\ f.session = t => t \in opened
      <4>1. f.kind = "tail" /\ f.session = t => Holds(toPhone, 1, Answers, t) /\ toPhone[1].kind = "tail"
        BY <1>2 DEF Holds, Answers
      <4>2. QED
        BY <1>2, <2>1, <4>1 DEF AnswersOf
    <3>3. QED
      BY <2>1, <3>1, <3>2 DEF AnswersOf
  <2>7. QED
    BY <1>2, <2>4, <2>5, <2>6 DEF AnswersOf
<1>7. SinceOK'
  <2>1. \A t, e : Since(t, e)' = Since(t, e)
    BY <1>2 DEF Since
  <2>2. \A j \in 1..Len(toPhone) : toPhone[j].kind = "tail" => Since(toPhone[j].session, toPhone[j].n)
    BY DEF SinceOK
  <2>3. ASSUME ~mistaken, cursor'.life = life, NEW t \in Session, copy'[t] # NoCopy
        PROVE  Since(t, copy'[t])
    <3>1. ReceivedCopy(f, t)
      BY <1>5
    <3>2. CASE f.kind = "tail" /\ f.session = t /\ copy'[t] = f.n
      BY <1>2, <2>2, <3>2
    <3>3. ASSUME copy[t] # NoCopy, f.kind # "resync" PROVE Since(t, copy[t])
      <4>1. cursor.life = life
        BY <2>3, <3>3, ReceivedCopyFact
      <4>2. QED
        BY <2>3, <3>3, <4>1 DEF SinceOK
    <3>4. CASE /\ f.kind = "event" /\ f.session = t /\ copy[t] = f.n - 1 /\ copy'[t] = f.n
               /\ copy[t] # NoCopy
      <4>1. Since(t, copy[t])
        BY <3>3, <3>4
      <4>2. f.n \in Nat
        BY <1>1 DEF ReceivedNext
      <4>3. \A k \in Nat : f.n < k => f.n - 1 < k
        BY <4>2
      <4>4. Since(t, f.n)
        BY <3>4, <4>1, <4>3 DEF Since
      <4>5. QED
        BY <3>4, <4>4
    <3>5. CASE f.kind # "resync" /\ copy'[t] = copy[t]
      BY <2>3, <3>3, <3>5
    <3>6. QED
      BY <2>3, <3>1, <3>2, <3>4, <3>5 DEF ReceivedCopy
  <2>4. \A j \in 1..Len(toPhone') : toPhone'[j].kind = "tail" =>
            Since(toPhone'[j].session, toPhone'[j].n)
    BY <1>3, <2>2
  <2>5. \A r \in reads : r.upTo # NoCopy => Since(r.session, r.upTo)
    BY DEF SinceOK
  <2>6. QED
    BY <1>2, <2>1, <2>3, <2>4, <2>5 DEF SinceOK
<1>8. QED
  BY <1>6, <1>7

\* The copies.
LEMMA ReceivedCopies ==
    ASSUME StateOK, LogOK, FramesOK, BeginOK, CursorOK, LifeOK, AnswersOK, SinceOK,
           OrderOK, HeldOK, CopiesOK, NEW f, Received(f)
    PROVE  CopiesOK'
<1>1. Parts /\ FramesIn(toPhone) /\ FramesIn(log) /\ ReceivedNext(f)
  BY PartsFact, ReceivedNextFact
<1>2. /\ life' = life /\ log' = log /\ opening' = opening /\ reads' = reads /\ status' = status
      /\ discarded' = discarded /\ overtaken' = overtaken /\ replaced' = replaced
      /\ mistaken' = mistaken
      /\ 1 \in 1..Len(toPhone) /\ f = toPhone[1] /\ Len(toPhone') \in Nat
  BY DEF Received
<1>3. /\ \A i \in 1..Len(toPhone') : i + 1 \in 1..Len(toPhone) /\ toPhone'[i] = toPhone[i + 1]
                                     /\ 1 < i + 1
      /\ \A i \in 1..Len(toPhone) : i # 1 =>
            i - 1 \in 1..Len(toPhone') /\ toPhone'[i - 1] = toPhone[i]
  BY DEF Received
<1>4. \A x, t : UnderWay(x, t) => UnderWay(x, t)' \/ f.seq = x
  <2> SUFFICES ASSUME NEW x, NEW t, UnderWay(x, t), f.seq # x PROVE UnderWay(x, t)'
    OBVIOUS
  <2>1. CASE Held(x, t)
    BY <1>2, <2>1 DEF UnderWay, Held
  <2>2. CASE \E i \in 1..Len(toPhone) : toPhone[i].seq = x
    <3>1. PICK i \in 1..Len(toPhone) : toPhone[i].seq = x
      BY <2>2
    <3>2. i # 1
      BY <1>2, <3>1
    <3>3. QED
      BY <1>3, <3>1, <3>2 DEF UnderWay
  <2>3. QED
    BY <2>1, <2>2 DEF UnderWay
<1>5. \A x : Due(x)' => Due(x)
  BY <1>2, <1>3 DEF Due
<1>6. ASSUME NEW x, cursor'.life = life, x <= cursor'.seq PROVE Late(x)
  <2>1. CASE Renews(f) /\ cursor'.seq = f.n /\ f.kind \in {"welcome", "resync"}
    BY <1>2, <1>6, <2>1 DEF Late
  <2>2. CASE cursor'.seq = f.seq
    BY <1>2, <1>6, <2>2 DEF Late, Due
  <2>3. CASE cursor' = cursor
    BY <1>6, <2>3 DEF Late
  <2>4. QED
    BY <1>1, <2>1, <2>2, <2>3 DEF ReceivedNext
<1>7. \A x : Late(x)' => Late(x)
  <2> SUFFICES ASSUME NEW x, Late(x)' PROVE Late(x)
    OBVIOUS
  <2>1. CASE Due(x)'
    BY <1>5, <2>1 DEF Late
  <2>2. CASE cursor'.life = life /\ x <= cursor'.seq
    BY <1>6, <2>2
  <2>3. CASE \E i \in 1..Len(toPhone') : toPhone'[i].kind \in {"welcome", "resync"} /\ x <= toPhone'[i].n
    BY <1>3, <2>3 DEF Late
  <2>4. QED
    BY <1>2, <2>1, <2>2, <2>3 DEF Late
<1>8. f.kind # "resync" /\ ~Resyncs' => ~Resyncs
  BY <1>2, <1>3 DEF Resyncs
<1>9. f.kind \in Numbered => ~Resyncs
  <2> SUFFICES ASSUME f.kind \in Numbered, NEW i \in 1..Len(toPhone), toPhone[i].kind = "resync"
               PROVE  FALSE
    BY DEF Resyncs
  <2>1. i # 1
    BY <1>2 DEF Numbered
  <2>2. f.kind = "welcome"
    BY <1>1, <1>3, <2>1 DEF ReceivedNext
  <2>3. QED
    BY <2>2 DEF Numbered
<1>10. \A x \in 1..Len(log) : log[x].seq = x /\ x \in Nat /\ x > 0
  BY <1>1 DEF LogOK, Parts
<1> SUFFICES ASSUME NEW t \in Safe, NEW x \in 1..Len(log), EventIn(x, t)
             PROVE  CopyOf(t, x)'
  <2>1. Safe' = Safe
    BY <1>2 DEF Safe
  <2>2. QED
    BY <1>2, <2>1 DEF CopiesOK, EventIn
<1>11. t \in Session /\ t \notin replaced
  BY DEF Safe
<1>12. CopyOf(t, x) /\ AnswersOf(t) /\ ReceivedCopy(f, t)
  BY <1>11, ReceivedCopyFact DEF CopiesOK, AnswersOK
<1>13. f.seq = x => f = log[x] /\ f.kind = "event" /\ f.session = t /\ f.kind \in Numbered
  BY <1>1, <1>10 DEF ReceivedNext, EventIn, Numbered
<1>14. ASSUME NEW y \in 1..Len(log), EventIn(y, t), f.seq = x, y < x
       PROVE  ~UnderWay(y, t)
  <2>1. ASSUME Held(y, t) PROVE FALSE
    <3>1. PICK i \in 1..Len(opening[t].frames) : opening[t].frames[i].seq = y
      BY <2>1 DEF Held
    <3>2. Holds(toPhone, 1, {"event"}, t)
      BY <1>2, <1>13, <1>14 DEF Holds
    <3>3. toPhone[1].seq < y
      BY <1>2, <1>11, <3>1, <3>2 DEF HeldOK
    <3>4. QED
      BY <1>2, <1>10, <1>14, <3>3
  <2>2. ASSUME NEW i \in 1..Len(toPhone), toPhone[i].seq = y PROVE FALSE
    <3>1. i # 1 /\ 1 < i
      BY <1>2, <1>10, <1>14, <2>2
    <3>2. toPhone[i] = log[y]
      BY <1>10, <2>2 DEF FramesOK
    <3>3. toPhone[i].kind = "event" /\ toPhone[i].session = t
      BY <1>14, <3>2 DEF EventIn
    <3>4. toPhone[1].seq < toPhone[i].seq
      BY <1>2, <1>13, <1>14, <3>1, <3>3 DEF OrderOK
    <3>5. QED
      BY <1>2, <1>10, <1>14, <2>2, <3>4
  <2>3. QED
    BY <2>1, <2>2 DEF UnderWay
<1>15. ASSUME ~mistaken, cursor'.life = life, copy'[t] # NoCopy, copy'[t] < log[x].n
       PROVE  /\ x <= cursor'.seq => UnderWay(x, t)'
              /\ Due(x)' /\ ~Resyncs' => UnderWay(x, t)'
  <2>1. f.kind # "resync"
    BY <1>12, <1>15 DEF ReceivedCopy
  <2>2. CASE f.kind = "tail" /\ f.session = t /\ copy'[t] = f.n /\ f.seq = 0 /\ Holds(toPhone, 1, {"tail"}, t)
    <3>1. x <= cursor'.seq \/ Due(x)' => Late(x)
      BY <1>5, <1>6, <1>15 DEF Late
    <3>2. Late(x) => UnderWay(x, t)
      BY <1>2, <1>12, <1>15, <2>2 DEF CopyOf
    <3>3. f.seq # x
      BY <1>10, <2>2
    <3>4. QED
      BY <1>4, <3>1, <3>2, <3>3
  <2>3. ASSUME copy[t] # NoCopy, copy[t] < log[x].n
        PROVE  /\ cursor.life = life
               /\ x <= cursor'.seq => UnderWay(x, t)
               /\ Due(x)' /\ ~Resyncs' => UnderWay(x, t)
    <3>1. cursor.life = life /\ ~Renews(f)
      BY <1>11, <1>15, <2>1, <2>3, ReceivedCopyFact
    <3>2. /\ x <= cursor.seq => UnderWay(x, t)
          /\ Due(x) /\ ~Resyncs => UnderWay(x, t)
      BY <1>12, <1>15, <2>3, <3>1 DEF CopyOf
    <3>3. ASSUME x <= cursor'.seq PROVE UnderWay(x, t)
      <4>1. CASE cursor' = cursor
        BY <3>2, <3>3, <4>1
      <4>2. CASE cursor'.seq = f.seq /\ f.seq > 0
        <5>1. Due(x)
          BY <1>2, <3>3, <4>2 DEF Due
        <5>2. f.kind \in Numbered
          BY <1>1, <4>2 DEF ReceivedNext
        <5>3. QED
          BY <1>9, <3>2, <5>1, <5>2
      <4>3. QED
        BY <1>1, <3>1, <4>1, <4>2 DEF ReceivedNext
    <3>4. Due(x)' /\ ~Resyncs' => UnderWay(x, t)
      BY <1>5, <1>8, <2>1, <3>2
    <3>5. QED
      BY <3>1, <3>3, <3>4
  <2>4. CASE f.kind = "event" /\ f.session = t /\ copy[t] = f.n - 1 /\ copy'[t] = f.n /\ copy[t] # NoCopy
    <3>1. f.n \in Nat /\ log[x].n \in Nat
      BY <1>1 DEF ReceivedNext, FramesIn
    <3>2. copy[t] < log[x].n
      BY <1>15, <2>4, <3>1
    <3>3. f.seq # x
      BY <1>13, <1>15, <2>4, <3>1
    <3>4. QED
      BY <1>4, <2>3, <2>4, <3>2, <3>3
  <2>5. CASE /\ f.kind # "resync" /\ copy'[t] = copy[t]
             /\ f.kind = "event" /\ f.session = t => copy[t] # f.n - 1
    <3>1. copy[t] # NoCopy /\ copy[t] < log[x].n
      BY <1>15, <2>5
    <3>2. CASE f.seq # x
      BY <1>4, <2>3, <3>1, <3>2
    <3>3. CASE f.seq = x
      <4>1. f = log[x] /\ f.kind = "event" /\ f.session = t /\ f.kind \in Numbered
        BY <1>13, <3>3
      <4>2. copy[t] \in Nat /\ f.n \in Nat
        BY <1>1, <1>11, <3>1 DEF Parts, ReceivedNext
      <4> DEFINE k == f.n - 1
      <4>3. k \in Nat /\ copy[t] < k /\ k < f.n
        BY <2>5, <3>1, <4>1, <4>2
      <4>4. cursor.life = life
        BY <2>3, <3>1
      <4>5. Since(t, copy[t])
        BY <1>11, <1>15, <3>1, <4>4 DEF SinceOK
      <4>6. f.n <= recorded[t] /\ recorded[t] \in Nat
        BY <1>1, <1>11, <4>1 DEF LogOK, Parts
      <4>7. k <= recorded[t]
        BY <4>2, <4>3, <4>6
      <4> HIDE DEF k
      <4>8. PICK y \in 1..Len(log) : log[y].kind = "event" /\ log[y].session = t /\ log[y].n = k
        BY <4>3, <4>5, <4>7 DEF Since
      <4>9. y < x
        <5>1. y # x
          BY <4>1, <4>2, <4>3, <4>8
        <5>2. ~(x < y)
          <6>1. x < y => log[x].n < log[y].n
            BY <4>1, <4>8 DEF LogOK
          <6>2. QED
            BY <4>1, <4>2, <4>3, <4>8, <6>1
        <5>3. QED
          BY <1>10, <5>1, <5>2
      <4>10. EventIn(y, t) /\ copy[t] < log[y].n
        BY <4>3, <4>8 DEF EventIn
      <4>11. CopyOf(t, y)
        BY <4>10 DEF CopiesOK
      <4>12. Due(y)
        <5>1. y <= toPhone[1].seq
          BY <1>2, <1>10, <3>3, <4>9
        <5>2. QED
          BY <1>2, <5>1 DEF Due
      <4>13. UnderWay(y, t)
        BY <1>9, <1>15, <3>1, <4>1, <4>4, <4>10, <4>11, <4>12 DEF CopyOf
      <4>14. QED
        BY <1>14, <3>3, <4>9, <4>10, <4>13
    <3>4. QED
      BY <3>2, <3>3
  <2>6. QED
    BY <1>12, <2>1, <2>2, <2>4, <2>5 DEF ReceivedCopy
<1>16. ASSUME NEW j \in 1..Len(toPhone'), Holds(toPhone', j, {"tail"}, t), toPhone'[j].n < log[x].n,
              Late(x)'
       PROVE  UnderWay(x, t)'
  <2> DEFINE k == j + 1
  <2>1. k \in 1..Len(toPhone) /\ toPhone'[j] = toPhone[k] /\ 1 < k
    BY <1>3
  <2> HIDE DEF k
  <2>2. Holds(toPhone, k, {"tail"}, t) /\ Holds(toPhone, k, Answers, t) /\ toPhone[k].kind = "tail"
    BY <1>16, <2>1 DEF Holds, Answers
  <2>3. UnderWay(x, t)
    BY <1>7, <1>12, <1>16, <2>1, <2>2 DEF CopyOf
  <2>4. f.seq # x
    <3> SUFFICES ASSUME f.seq = x PROVE FALSE
      OBVIOUS
    <3>1. f = log[x] /\ Holds(toPhone, 1, {"event"}, t)
      BY <1>2, <1>13 DEF Holds
    <3>2. toPhone[1].n <= toPhone[k].n
      BY <1>2, <1>12, <2>1, <2>2, <3>1 DEF AnswersOf
    <3>3. f.n \in Nat /\ toPhone[k].n \in Nat
      BY <1>1, <2>1 DEF ReceivedNext, FramesIn
    <3>4. QED
      BY <1>2, <1>16, <2>1, <3>1, <3>2, <3>3
  <2>5. QED
    BY <1>4, <2>3, <2>4
<1>17. ASSUME NEW r \in reads, r.session = t, r.upTo # NoCopy, r.upTo < log[x].n
       PROVE  Held(x, t)'
  BY <1>2, <1>12, <1>17 DEF CopyOf, Held
<1>18. QED
  BY <1>2, <1>15, <1>16, <1>17 DEF CopyOf

\* The phone takes the next frame.
LEMMA PhoneReceivesStep ==
    ASSUME ReplayInv, PhoneReceives
    PROVE  ReplayInv'
<1>1. PICK f : Received(f)
  BY ReceivedFact DEF ReplayInv
<1>2. StateOK' /\ OpensOK' /\ IdleOK' /\ LogOK' /\ SnapshotOK' /\ CursorOK' /\ KeptOK'
  BY <1>1, ReceivedOpens DEF ReplayInv
<1>3. FramesOK' /\ BeginOK' /\ OrderOK' /\ HeldOK' /\ LifeOK' /\ GlobalsOK'
  BY <1>1, ReceivedOrder DEF ReplayInv
<1>4. AnswersOK' /\ SinceOK'
  BY <1>1, ReceivedAnswers DEF ReplayInv
<1>5. CopiesOK'
  BY <1>1, ReceivedCopies DEF ReplayInv
<1>6. QED
  BY <1>2, <1>3, <1>4, <1>5 DEF ReplayInv

-----------------------------------------------------------------------------
(* The invariant, and what it gives.                                       *)

\* Every step keeps the invariant.
LEMMA StepHolds == ReplayInv /\ [ReplayNext]_replayVars => ReplayInv'
<1> SUFFICES ASSUME ReplayInv, [ReplayNext]_replayVars PROVE ReplayInv'
  OBVIOUS
<1>1. CASE UNCHANGED replayVars
  <2>1. /\ appended' = appended /\ life' = life /\ recorded' = recorded /\ log' = log
        /\ status' = status /\ watch' = watch /\ opened' = opened /\ opening' = opening
        /\ reads' = reads /\ toPhone' = toPhone /\ cursor' = cursor /\ copy' = copy
        /\ page' = page /\ base' = base /\ got' = got /\ conns' = conns /\ opens' = opens
        /\ discarded' = discarded /\ overtaken' = overtaken /\ replaced' = replaced
        /\ mistaken' = mistaken
    BY <1>1 DEF replayVars, bridge, connection, phone, losses
  <2>2. StateOK' /\ OpensOK' /\ IdleOK' /\ LogOK' /\ SnapshotOK' /\ CursorOK'
    BY <2>1 DEF ReplayInv, StateOK, OpensOK, IdleOK, LogOK, SnapshotOK, CursorOK, Holds
  <2>3. FramesOK' /\ BeginOK' /\ OrderOK' /\ HeldOK' /\ LifeOK' /\ KeptOK'
    BY <2>1 DEF ReplayInv, FramesOK, BeginOK, OrderOK, HeldOK, LifeOK, Resyncs, KeptOK, Holds
  <2>4. GlobalsOK'
    BY <2>1 DEF ReplayInv, GlobalsOK, Renews, Due, Has
  <2>5. AnswersOK'
    BY <2>1 DEF ReplayInv, AnswersOK, AnswersOf, Holds
  <2>6. SinceOK'
    <3>1. \A t, e : Since(t, e)' = Since(t, e)
      BY <2>1 DEF Since
    <3>2. QED
      BY <2>1, <3>1 DEF ReplayInv, SinceOK
  <2>7. CopiesOK'
    <3>1. \A t, x : Held(x, t)' = Held(x, t) /\ UnderWay(x, t)' = UnderWay(x, t)
      BY <2>1 DEF Held, UnderWay
    <3>2. \A x : Due(x)' = Due(x) /\ Late(x)' = Late(x) /\ Resyncs' = Resyncs
      BY <2>1 DEF Due, Late, Resyncs
    <3>3. \A t, x : CopyOf(t, x)' = CopyOf(t, x)
      BY <2>1, <3>1, <3>2 DEF CopyOf, Holds
    <3>4. QED
      BY <2>1, <3>3 DEF ReplayInv, CopiesOK, EventIn, Safe
  <2>8. QED
    BY <2>2, <2>3, <2>4, <2>5, <2>6, <2>7 DEF ReplayInv
<1>2. CASE ReplayNext
  <2>1. CASE \E s \in Session : HostAppends(s) \/ RecordEvent(s) \/ PhoneOpens(s) \/ PhoneCloses(s)
    BY <2>1, HostAppendsStep, RecordEventStep, PhoneOpensStep, PhoneClosesStep
  <2>2. CASE RecordGlobal
    BY <2>2, RecordGlobalStep
  <2>3. CASE \E r \in reads : HostReads(r) \/ OpenReplies(r) \/ OpenFails(r)
    BY <2>3, HostReadsStep, OpenRepliesStep, OpenFailsStep
  <2>4. CASE \E w \in SUBSET Session : PhoneWatches(w) \/ Connect(w)
    BY <2>4, PhoneWatchesStep, ConnectStep
  <2>5. CASE Drop
    BY <2>5, DropStep
  <2>6. CASE Restart
    BY <2>6, RestartStep
  <2>7. CASE PhoneReceives
    BY <2>7, PhoneReceivesStep
  <2>8. QED
    BY <1>2, <2>1, <2>2, <2>3, <2>4, <2>5, <2>6, <2>7 DEF ReplayNext
<1>3. QED
  BY <1>1, <1>2

\* Log, queue, buffers, answers of opens, cursor and copies agree with each other, in every
\* reachable state and for any number of sessions, opens, connections and lives.
THEOREM Invariant == ReplaySpec => []ReplayInv
<1>1. ReplayInit => ReplayInv
  BY InitHolds
<1>2. ReplayInv /\ [ReplayNext]_replayVars => ReplayInv'
  BY StepHolds
<1>3. QED
  BY <1>1, <1>2, PTL DEF ReplaySpec

\* GlobalsReachPhone follows from GlobalsOK when nothing is under way.
LEMMA GlobalsImplied == ReplayInv => GlobalsReachPhone
<1> SUFFICES ASSUME ReplayInv, status = "open", toPhone = <<>>, ~mistaken,
                    NEW i \in base + 1..Len(log), log[i].kind = "global"
             PROVE  i \in got
  BY DEF GlobalsReachPhone, CaughtUp, HasAllGlobals
<1>1. base \in Nat /\ Len(log) \in Nat /\ Len(toPhone) = 0
  BY DEF ReplayInv, StateOK
<1>2. i \in 1..Len(log) /\ ~(i <= base)
  BY <1>1
<1>3. Due(i)
  BY DEF Due
<1>4. Has(i)
  BY <1>1, <1>2, <1>3 DEF ReplayInv, GlobalsOK
<1>5. QED
  BY <1>2, <1>4 DEF Has

\* A copy that lacked an event would have it pending, and nothing is pending.
LEMMA CopiesImplied == ReplayInv => CopiesUpToDate
<1> SUFFICES ASSUME ReplayInv, status = "open", toPhone = <<>>, reads = {}, ~mistaken,
                    NEW s \in Safe, copy[s] # NoCopy
             PROVE  copy[s] >= recorded[s]
  BY DEF CopiesUpToDate, Quiet, CaughtUp, CopiesCurrent, Safe
<1>1. Parts /\ s \in Session /\ Len(toPhone) = 0
  BY PartsFact DEF ReplayInv, Safe
<1>2. copy[s] \in Nat /\ recorded[s] \in Nat
  BY <1>1 DEF Parts
<1>3. cursor # NoCursor
  BY <1>1 DEF ReplayInv, CursorOK
<1>4. ~Resyncs
  BY <1>1 DEF Resyncs
<1>5. cursor.life = life
  BY <1>3, <1>4 DEF ReplayInv, LifeOK
<1>6. SUFFICES ASSUME copy[s] < recorded[s] PROVE FALSE
  BY <1>2
<1>7. Since(s, copy[s])
  BY <1>1, <1>5 DEF ReplayInv, SinceOK
<1>8. PICK x \in 1..Len(log) : log[x].kind = "event" /\ log[x].session = s /\ log[x].n = recorded[s]
  <2>1. recorded[s] <= recorded[s]
    BY <1>2
  <2>2. QED
    BY <1>2, <1>6, <1>7, <2>1 DEF Since
<1>9. CopyOf(s, x)
  BY <1>8 DEF ReplayInv, CopiesOK, EventIn
<1>10. Due(x)
  BY DEF Due
<1>11. UnderWay(x, s)
  BY <1>4, <1>5, <1>6, <1>8, <1>9, <1>10 DEF CopyOf
<1>12. Held(x, s)
  BY <1>1, <1>11 DEF UnderWay
<1>13. opening[s] # NoBuffer
  <2>1. Len(NoBuffer.frames) = 0
    BY DEF NoBuffer
  <2>2. QED
    BY <1>12, <2>1 DEF Held
<1>14. opening[s] = NoBuffer
  BY <1>1 DEF ReplayInv, OpensOK
<1>15. QED
  BY <1>13, <1>14

\* The tail at the head of the queue is the only answer of its session.
LEMMA RollbackImplied == ReplayInv => NoRollback
<1> DEFINE f == Head(toPhone)
           s == f.session
<1> SUFFICES ASSUME ReplayInv, toPhone # <<>>, f.kind = "tail", s \in (watch \cup Shown) \ replaced
             PROVE  f.n >= copy[s]
  BY DEF NoRollback
<1>1. toPhone \in Seq(Frame) /\ Parts
  BY PartsFact DEF ReplayInv, StateOK
<1>2. f = toPhone[1] /\ 1 \in 1..Len(toPhone) /\ f \in Frame
  BY <1>1, TailFact
<1> HIDE DEF f
<1>3. s \in Session /\ f.n \in Nat
  BY <1>2, FrameFact
<1>4. AnswersOf(s)
  BY <1>3 DEF ReplayInv, AnswersOK
<1>5. Holds(toPhone, 1, Answers, s) /\ toPhone[1].kind = "tail"
  BY <1>2 DEF Holds, Answers
<1>6. copy[s] <= f.n
  BY <1>2, <1>4, <1>5 DEF AnswersOf
<1>7. QED
  BY <1>1, <1>3, <1>6 DEF Parts

\* An open session has a page on the phone.
LEMMA RevivalImplied == ReplayInv => NoRevival
  BY DEF ReplayInv, OpensOK, NoRevival, Shown, StateOK

\* A phone that has read its frames has every list delta, pending interaction and notice
\* since its last resync, however often the connection dropped and resumed.
THEOREM GlobalsDelivered == ReplaySpec => []GlobalsReachPhone
<1>1. QED
  BY Invariant, GlobalsImplied, PTL

\* A copy that the phone keeps is never behind the events that the bridge knows, across
\* drops, replays, restarts of the bridge and opens, but for the sessions named.
THEOREM CopiesCorrect == ReplaySpec => []CopiesUpToDate
<1>1. QED
  BY Invariant, CopiesImplied, PTL

\* No history tail takes back an event that the phone has seen, unless the session was
\* opened or closed again before the tail arrived.
THEOREM NeverRolledBack == ReplaySpec => []NoRollback
<1>1. QED
  BY Invariant, RollbackImplied, PTL

\* A history answer that comes after the phone left the page does not bring the session's
\* delivery back.
THEOREM NeverRevived == ReplaySpec => []NoRevival
<1>1. QED
  BY Invariant, RevivalImplied, PTL

-----------------------------------------------------------------------------
(* The bounds and the types.                                               *)

\* The bounds of a run.
Bounded == Len(log) <= MaxFrames /\ opens <= MaxOpens /\ cursor.seq <= MaxFrames

\* Every step keeps the bounds.
LEMMA BoundedStep == ReplayInv /\ Bounded /\ [ReplayNext]_replayVars => Bounded'
<1> SUFFICES ASSUME ReplayInv, Bounded, [ReplayNext]_replayVars PROVE Bounded'
  OBVIOUS
<1>1. StateOK /\ Parts /\ opens \in Nat /\ MaxFrames \in Nat /\ MaxOpens \in Nat
  BY PartsFact, BoundsAssumption DEF ReplayInv, StateOK
<1>2. CASE /\ Len(log) < MaxFrames /\ opens' = opens /\ cursor' = cursor
           /\ \E f : log' = Append(log, f)
  <2>1. PICK f : log' = Append(log, f)
    BY <1>2
  <2>2. Len(Append(log, f)) = Len(log) + 1
    BY <1>1 DEF Parts
  <2>3. QED
    BY <1>1, <1>2, <2>1, <2>2 DEF Bounded, Parts
<1>3. CASE opens < MaxOpens /\ opens' = opens + 1 /\ log' = log /\ cursor' = cursor
  BY <1>1, <1>3 DEF Bounded
<1>4. CASE PhoneReceives
  <2>1. PICK f : Received(f)
    BY <1>1, <1>4, ReceivedFact
  <2>2. CursorOK' /\ ReceivedNext(f)
    BY <1>1, <2>1, ReceivedOpens, ReceivedNextFact DEF ReplayInv
  <2>3. log' = log /\ opens' = opens
    BY <2>1 DEF Received
  <2>4. f.seq <= Len(log) /\ f.seq \in Nat /\ f.n \in Nat
    BY <1>1, <2>2 DEF ReceivedNext, Parts
  <2>5. cursor'.seq <= MaxFrames
    BY <1>1, <2>2, <2>4 DEF ReceivedNext, Bounded, Parts
  <2>6. QED
    BY <2>3, <2>5 DEF Bounded
<1>5. CASE log' = log /\ opens' = opens /\ cursor' = cursor
  BY <1>5 DEF Bounded
<1>6. CASE log' = <<>> /\ opens' = opens /\ cursor' = cursor
  BY <1>1, <1>6 DEF Bounded
<1>7. \/ /\ Len(log) < MaxFrames /\ opens' = opens /\ cursor' = cursor
         /\ \E f : log' = Append(log, f)
      \/ opens < MaxOpens /\ opens' = opens + 1 /\ log' = log /\ cursor' = cursor
      \/ PhoneReceives
      \/ log' = log /\ opens' = opens /\ cursor' = cursor
      \/ log' = <<>> /\ opens' = opens /\ cursor' = cursor
  <2>1. CASE UNCHANGED replayVars
    BY <2>1 DEF replayVars, bridge, phone
  <2>2. CASE \E s \in Session : HostAppends(s) \/ RecordEvent(s) \/ PhoneOpens(s) \/ PhoneCloses(s)
    BY <2>2 DEF HostAppends, RecordEvent, Record, PhoneOpens, PhoneCloses, bridge, phone
  <2>3. CASE RecordGlobal
    BY <2>3 DEF RecordGlobal, Record, phone
  <2>4. CASE \E r \in reads : HostReads(r) \/ OpenReplies(r) \/ OpenFails(r)
    BY <2>4 DEF HostReads, OpenReplies, OpenFails, bridge, phone
  <2>5. CASE \E w \in SUBSET Session : PhoneWatches(w) \/ Connect(w)
    BY <2>5 DEF PhoneWatches, Connect, bridge
  <2>6. CASE Drop \/ Restart
    BY <2>6 DEF Drop, Restart, bridge
  <2>7. QED
    BY <2>1, <2>2, <2>3, <2>4, <2>5, <2>6 DEF ReplayNext
<1>8. QED
  BY <1>2, <1>3, <1>4, <1>5, <1>6, <1>7

\* The types follow, with the bounds.
LEMMA TypeImplied == ReplayInv /\ Bounded => TypeOK
<1> SUFFICES ASSUME ReplayInv, Bounded PROVE TypeOK
  OBVIOUS
<1>1. /\ StateOK /\ Parts /\ FramesIn(toPhone) /\ FramesIn(log)
      /\ DOMAIN log = 1..Len(log) /\ DOMAIN toPhone = 1..Len(toPhone)
      /\ opens \in Nat /\ MaxFrames \in Nat /\ MaxOpens \in Nat
  BY PartsFact, BoundsAssumption DEF ReplayInv, StateOK
<1>2. \A i \in DOMAIN log : FrameOK(log[i])
  <2> SUFFICES ASSUME NEW i \in 1..Len(log) PROVE FrameOK(log[i])
    BY <1>1
  <2>1. log[i].seq = i
    BY DEF ReplayInv, LogOK
  <2>2. i \in 0..MaxFrames
    BY <1>1 DEF Bounded, Parts
  <2>3. QED
    BY <1>1, <2>1, <2>2 DEF FramesIn, FrameOK
<1>3. \A i \in DOMAIN toPhone : FrameOK(toPhone[i])
  <2> SUFFICES ASSUME NEW i \in 1..Len(toPhone) PROVE FrameOK(toPhone[i])
    BY <1>1
  <2>1. toPhone[i].seq \in 1..Len(log) \/ toPhone[i].seq = 0
    BY DEF ReplayInv, FramesOK
  <2>2. toPhone[i].seq \in 0..MaxFrames
    BY <1>1, <2>1 DEF Bounded, Parts
  <2>3. QED
    BY <1>1, <2>2 DEF FramesIn, FrameOK
<1>4. \A s \in Session : \A i \in DOMAIN opening[s].frames : opening[s].frames[i].session = s
  <2>1. \A s \in Session : DOMAIN opening[s].frames = 1..Len(opening[s].frames)
    BY <1>1 DEF Parts
  <2>2. QED
    BY <2>1 DEF ReplayInv, HeldOK
<1>5. \A r \in reads : r.open \in 1..MaxOpens /\ r.upTo \in Nat \cup {NoCopy}
  <2> SUFFICES ASSUME NEW r \in reads PROVE r.open \in 1..MaxOpens /\ r.upTo \in Nat \cup {NoCopy}
    OBVIOUS
  <2>1. r.open <= opens
    BY DEF ReplayInv, OpensOK
  <2>2. r.open \in 1..MaxOpens
    BY <1>1, <2>1 DEF Bounded, Parts
  <2>3. QED
    BY <1>1, <2>2 DEF Parts
<1>6. cursor \in [life : Nat, seq : 0..MaxFrames]
  <2>1. cursor.seq \in 0..MaxFrames
    BY <1>1 DEF Bounded, Parts
  <2>2. QED
    BY <1>1, <2>1 DEF Parts
<1>7. QED
  BY <1>1, <1>2, <1>3, <1>4, <1>5, <1>6 DEF TypeOK, StateOK

\* Every variable has its type, and the counters stay within their bounds.
THEOREM TypeCorrect == ReplaySpec => []TypeOK
<1>1. ReplayInit => Bounded
  BY BoundsAssumption DEF ReplayInit, Bounded, NoCursor
<1>2. ReplayInv /\ Bounded /\ [ReplayNext]_replayVars => Bounded'
  BY BoundedStep
<1>3. ReplayInv /\ Bounded => TypeOK
  BY TypeImplied
<1>4. QED
  BY Invariant, <1>1, <1>2, <1>3, PTL DEF ReplaySpec
============================================================================
