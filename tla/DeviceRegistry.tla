--------------------------- MODULE DeviceRegistry ---------------------------
(***************************************************************************)
(* The registry of paired devices (src/token.ts, DeviceStore): one map in  *)
(* memory, written to one file as a whole by a chain of writes that run    *)
(* one after the other and swallow their errors.  Around it, the callers   *)
(* that wait between reading and changing it: a phone that registers its   *)
(* push token, and pushes that come back rejected.                         *)
(*                                                                         *)
(* When the plugin is reloaded in the same process a new store loads the   *)
(* file.  Nobody waits for the writes of the old store, nor for handlers   *)
(* and pushes that refer to it: they go on with the old map, and its chain *)
(* writes to the same file.  Stores are numbered in the order they load.   *)
(*                                                                         *)
(* A definition named X_Fault is X with a fault, kept to show that the     *)
(* properties can tell them apart; the specification does not use it.      *)
(***************************************************************************)
EXTENDS Naturals, Sequences, FiniteSets

CONSTANTS Device,      \* identities: hashes of public keys
          Token,       \* APNs device tokens
          NoToken,
          Scope,       \* DEVICE_SCOPES
          NotifyScope, \* notifications.register
          LegacyFull,  \* LEGACY_FULL_SCOPE_SETS
          MaxDevices,  \* MAX_DEVICES
          MaxStores,   \* bound: stores that one process loads
          MaxChanges,  \* bound: writes that handlers ask for in a run
          MaxPushes    \* bound: pushes, and registrations of tokens, under way at a time

ASSUME RegistryAssumption ==
    /\ IsFiniteSet(Device)
    /\ NoToken \notin Token
    /\ NotifyScope \in Scope
    /\ LegacyFull \subseteq SUBSET Scope
    /\ {MaxDevices, MaxStores, MaxChanges, MaxPushes} \subseteq Nat \ {0}

VARIABLES newest,   \* the store the plugin uses; the ones before it were left behind
          registry, \* devices, of each store
          file,     \* devices-v2.json
          queued,   \* writes of each store that wait for its flushTail
          writing,  \* the documents each store is writing
          waiting,  \* registrations of push tokens that wait for the enrollment
          pushes,   \* pushes that were sent and not answered
          history,  \* of the newest store: its last write failed; an older store wrote after it
          changes   \* bound: writes that handlers asked for so far

vars == <<newest, registry, file, queued, writing, waiting, pushes, history, changes>>

Store == 1..MaxStores

Absent == [status |-> "absent", scopes |-> {}, token |-> NoToken]
Nobody == [d \in Device |-> Absent]
Active(k, d) == registry[k][d].status = "active"
Known == {d \in Device : registry[newest][d].status # "absent"}

\* upgradeLegacyFullScopes()
Upgraded(scopes) == IF scopes \in LegacyFull THEN Scope ELSE scopes

\* No write of a store fails or is undone so far.
Clean == [failed |-> FALSE, overwritten |-> FALSE]

Init ==
    /\ newest = 1
    /\ registry = [k \in Store |-> Nobody]
    /\ file = Nobody
    /\ queued = [k \in Store |-> 0]
    /\ writing = [k \in Store |-> <<>>]
    /\ waiting = {}
    /\ pushes = {}
    /\ history = Clean
    /\ changes = 0

-----------------------------------------------------------------------------
\* flush(): one more write at the end of the chain of store k.
Flush(k) ==
    /\ changes < MaxChanges
    /\ changes' = changes + 1
    /\ queued' = [queued EXCEPT ![k] = @ + 1]

\* Store k holds these devices now.
Put(k, document) == registry' = [registry EXCEPT ![k] = document]

\* writeFile(): the document is what the registry holds when its turn has come.
StartWrite_Unchained(k) ==
    /\ queued[k] > 0 /\ Len(writing[k]) < 2
    /\ queued' = [queued EXCEPT ![k] = @ - 1]
    /\ writing' = [writing EXCEPT ![k] = Append(@, registry[k])]
    /\ UNCHANGED <<newest, registry, file, waiting, pushes, history, changes>>
StartWrite(k) ==
    /\ queued[k] > 0 /\ writing[k] = <<>>
    /\ queued' = [queued EXCEPT ![k] = @ - 1]
    /\ writing' = [writing EXCEPT ![k] = <<registry[k]>>]
    /\ UNCHANGED <<newest, registry, file, waiting, pushes, history, changes>>

\* A sequence without its i-th element.
Without(documents, i) ==
    SubSeq(documents, 1, i - 1) \o SubSeq(documents, i + 1, Len(documents))

\* writeFile() to its end: the file is replaced at once, or stays and the error
\* is swallowed.
EndWrite(k, i, ok) ==
    /\ writing' = [writing EXCEPT ![k] = Without(@, i)]
    /\ file' = IF ok THEN writing[k][i] ELSE file
    /\ history' = [failed |-> IF k = newest THEN ~ok ELSE history.failed,
                   overwritten |-> IF ok THEN k # newest ELSE history.overwritten]
    /\ UNCHANGED <<newest, registry, queued, waiting, pushes, changes>>

\* load(): what a store reads from a file, and whether it writes that back.
Loaded(document) ==
    [d \in Device |-> IF document[d].status = "active"
                      THEN [document[d] EXCEPT !.scopes = Upgraded(@)] ELSE document[d]]
Upgrades == IF Loaded(file) = file THEN 0 ELSE 1

\* The process dies, or is started again: what was not written is lost.
Restart ==
    /\ newest' = 1
    /\ registry' = [k \in Store |-> IF k = 1 THEN Loaded(file) ELSE Nobody]
    /\ queued' = [k \in Store |-> IF k = 1 THEN Upgrades ELSE 0]
    /\ writing' = [k \in Store |-> <<>>]
    /\ waiting' = {}
    /\ pushes' = {}
    /\ history' = Clean
    /\ UNCHANGED <<file, changes>>

\* The plugin is unloaded and loaded again in the same process: the new store
\* starts from the file, and what the old one has under way goes on.
Reload ==
    /\ newest < MaxStores
    /\ newest' = newest + 1
    /\ Put(newest + 1, Loaded(file))
    /\ queued' = [queued EXCEPT ![newest + 1] = Upgrades]
    /\ history' = Clean
    /\ UNCHANGED <<file, writing, waiting, pushes, changes>>

-----------------------------------------------------------------------------
\* What the plugin does with the store it uses.

\* handlePair() and register(): a valid code was presented.
MayPair(d) == Cardinality(Known) < MaxDevices \/ Active(newest, d)
Pair(d, scopes) ==
    /\ MayPair(d)
    /\ Put(newest, [registry[newest] EXCEPT ![d] =
           [@ EXCEPT !.status = "active", !.scopes = Upgraded(scopes)]])
    /\ Flush(newest)
    /\ UNCHANGED <<newest, file, writing, waiting, pushes, history>>

\* markAuthenticated(): names and times only.
Authenticated(d) ==
    /\ Active(newest, d)
    /\ Flush(newest)
    /\ UNCHANGED <<newest, registry, file, writing, waiting, pushes, history>>

\* setScopes(), from the settings page.
SetScopes(d, scopes) ==
    /\ Active(newest, d)
    /\ Put(newest, [registry[newest] EXCEPT ![d].scopes = scopes])
    /\ Flush(newest)
    /\ UNCHANGED <<newest, file, writing, waiting, pushes, history>>

\* revoke(), by c2s.device.revoke or by revokeDevice() of the settings page; on a
\* device that is revoked already it does nothing.
Revoked(record) == [record EXCEPT !.status = "revoked", !.token = NoToken]
Revoke(d) ==
    /\ Active(newest, d)
    /\ Put(newest, [registry[newest] EXCEPT ![d] = Revoked(@)])
    /\ Flush(newest)
    /\ UNCHANGED <<newest, file, writing, waiting, pushes, history>>

\* c2s.push.register passes the gate with the scopes of its connection, and waits
\* for the enrollment.
RegisterArrives(d, t) ==
    /\ Active(newest, d) /\ NotifyScope \in registry[newest][d].scopes
    /\ Cardinality(waiting) < MaxPushes
    /\ waiting' = waiting \cup {<<newest, d, t>>}
    /\ UNCHANGED <<newest, registry, file, queued, writing, pushes, history, changes>>

-----------------------------------------------------------------------------
\* What goes on with the store it began with.

\* setPushToken(): t is d's and nobody else's.
WithToken_Shared(devices, d, t) == [devices EXCEPT ![d].token = t]
WithToken(devices, d, t) ==
    [e \in Device |->
        IF e = d THEN [devices[e] EXCEPT !.token = t]
        ELSE IF devices[e].token = t THEN [devices[e] EXCEPT !.token = NoToken]
        ELSE devices[e]]

\* After the wait the device is read again.
MayRegister_Unchecked(k, d) == TRUE
MayRegister(k, d) == Active(k, d) /\ NotifyScope \in registry[k][d].scopes
RegisterEnds(k, d, t) ==
    /\ waiting' = waiting \ {<<k, d, t>>}
    /\ IF MayRegister(k, d) /\ registry[k][d].token # t
       THEN Put(k, WithToken(registry[k], d, t)) /\ Flush(k)
       ELSE UNCHANGED <<registry, queued, changes>>
    /\ UNCHANGED <<newest, file, writing, pushes, history>>

\* fanOut(), which has its store from before the sender was ready: a notification
\* for everybody that may get one.
Push(k, d) ==
    /\ k <= newest
    /\ Cardinality(pushes) < MaxPushes
    /\ registry[k][d].token # NoToken /\ NotifyScope \in registry[k][d].scopes
    /\ pushes' = pushes \cup {<<k, d, registry[k][d].token>>}
    /\ UNCHANGED <<newest, registry, file, queued, writing, waiting, history, changes>>

\* clearPushToken(): the token the answer is about is not compared.
PushAnswered(k, d, t, unregistered) ==
    /\ pushes' = pushes \ {<<k, d, t>>}
    /\ IF unregistered /\ registry[k][d].token # NoToken
       THEN Put(k, [registry[k] EXCEPT ![d].token = NoToken]) /\ Flush(k)
       ELSE UNCHANGED <<registry, queued, changes>>
    /\ UNCHANGED <<newest, file, writing, waiting, history>>

Next ==
    \/ \E k \in Store :
          \/ \E i \in 1..Len(writing[k]), ok \in BOOLEAN : EndWrite(k, i, ok)
          \/ StartWrite(k)
          \/ \E d \in Device : Push(k, d)
    \/ Restart
    \/ Reload
    \/ \E d \in Device :
          \/ \E scopes \in SUBSET Scope : Pair(d, scopes) \/ SetScopes(d, scopes)
          \/ Authenticated(d) \/ Revoke(d)
          \/ \E t \in Token : RegisterArrives(d, t)
    \/ \E r \in waiting : RegisterEnds(r[1], r[2], r[3])
    \/ \E p \in pushes, unregistered \in BOOLEAN :
          PushAnswered(p[1], p[2], p[3], unregistered)

Spec == Init /\ [][Next]_vars

-----------------------------------------------------------------------------
(***************************************************************************)
(* Properties.                                                             *)
(***************************************************************************)

Record == [status : {"absent", "active", "revoked"}, scopes : SUBSET Scope,
           token : Token \cup {NoToken}]
Document == [Device -> Record]

TypeOK ==
    /\ newest \in Store
    /\ registry \in [Store -> Document]
    /\ file \in Document
    /\ queued \in [Store -> Nat]
    /\ writing \in [Store -> Seq(Document)]
    /\ waiting \subseteq Store \X Device \X Token
    /\ pushes \subseteq Store \X Device \X Token
    /\ history \in [failed : BOOLEAN, overwritten : BOOLEAN]
    /\ changes \in 0..MaxChanges
    /\ Cardinality(Known) <= MaxDevices

\* When the chain of writes of the store in use is empty and its last write
\* succeeded, the file holds the registry: no change misses its write and no older
\* document of it replaces a newer one.  Excepted is a file that a store left
\* behind by a reload wrote since.
NothingUnsaved ==
    queued[newest] = 0 /\ writing[newest] = <<>> /\ ~history.failed
        => file = registry[newest] \/ history.overwritten

\* A push token belongs to one device, in the memory of every store and in the file,
\* whatever phones register, lose and pair again: nobody gets the notifications of
\* another's device.
OneOwnerPerToken ==
    \A document \in {registry[k] : k \in Store} \cup {file} : \A d, e \in Device :
        d # e /\ document[d].token # NoToken => document[e].token # document[d].token

\* A device that was revoked is no target of pushes, also when a registration was
\* waiting while it was revoked, and whichever store wrote the file.
RevokedIsNoTarget ==
    \A document \in {registry[k] : k \in Store} \cup {file} : \A d \in Device :
        document[d].token # NoToken => document[d].status = "active"

\* token.ts, writes are serialized and never interleaved: nobody but the store in
\* use replaces the file.
OneWriter == ~history.overwritten

\* A phone that was told that it is unbound stays unbound until it pairs again
\* (PROTOCOL.md: only after revoked:true it deletes its credentials).
UnbindingIsDurable ==
    [][\A d \in Device :
          registry[newest][d].status = "revoked" /\ registry'[newest'][d].status = "active"
              => \E scopes \in SUBSET Scope : Pair(d, scopes)]_vars

\* Scopes that were chosen on the settings page stay as they are in the file: a load
\* gives nobody more.  (Pairing never leaves a legacy full set there.)
NarrowingIsKept == Loaded(file) = file

\* A rejection takes away the token it is about and no other.
RotatedTokenIsKept ==
    [][\A p \in pushes : PushAnswered(p[1], p[2], p[3], TRUE)
          => registry[p[1]][p[2]].token \in {p[3], registry'[p[1]][p[2]].token}]_vars
=============================================================================
