------------------------ MODULE DeviceRegistryProofs ------------------------
(***************************************************************************)
(* Theorems about the device registry and its file, for every set of       *)
(* devices, tokens and scopes and every bound.                             *)
(***************************************************************************)
EXTENDS DeviceRegistry, FiniteSetTheorems, TLAPS

\* A token has one owner, and that one is paired.
SingleOwner(document) ==
    \A d, e \in Device :
        d # e /\ document[d].token # NoToken => document[e].token # document[d].token
OwnersPaired(document) ==
    \A d \in Device : document[d].token # NoToken => document[d].status = "active"
TokensOK(document) == SingleOwner(document) /\ OwnersPaired(document)

History == [failed : BOOLEAN, overwritten : BOOLEAN]

\* A chain writes one document at a time.
Chain == {<<>>} \cup {<<document>> : document \in Document}

\* Handlers and pushes that began with one of the first n stores.
Begun(n) == (1..n) \X Device \X Token

\* The state without its bounds.
StateOK ==
    /\ newest \in Store
    /\ registry \in [Store -> Document] /\ file \in Document
    /\ queued \in [Store -> Nat] /\ writing \in [Store -> Chain]
    /\ waiting \subseteq Begun(newest) /\ pushes \subseteq Begun(newest)
    /\ history \in History

\* A store that was not loaded yet has nothing to write.
FreshInv == \A k \in Store : k > newest => queued[k] = 0 /\ writing[k] = <<>>

\* Every document, wherever it is, has its tokens in order.
TokenInv ==
    /\ TokensOK(file)
    /\ \A k \in Store : TokensOK(registry[k])
    /\ \A k \in Store : writing[k] # <<>> => TokensOK(writing[k][1])

\* Whoever changes the registry in use queues a write, so with none queued the one
\* under way, and without that the file, has it all, unless another store wrote since.
SavedInv ==
    queued[newest] = 0 =>
        /\ writing[newest] # <<>> => writing[newest][1] = registry[newest]
        /\ writing[newest] = <<>> /\ ~history.failed
             => file = registry[newest] \/ history.overwritten

IInv == StateOK /\ FreshInv /\ TokenInv /\ SavedInv

-----------------------------------------------------------------------------
LEMMA AbsentFact ==
    /\ Absent \in Record /\ Absent.token = NoToken /\ Absent.status = "absent"
BY RegistryAssumption DEF Absent, Record

LEMMA AbsentTokens == TokensOK([d \in Device |-> Absent])
BY AbsentFact DEF TokensOK, SingleOwner, OwnersPaired

LEMMA StoreFact == Store \subseteq Nat /\ 1 \in Store /\ MaxStores \in Nat
BY RegistryAssumption DEF Store

\* A write under way is the only one of its store, and when it ends none is left.
LEMMA ChainFact ==
    ASSUME NEW chain \in Chain
    PROVE  /\ chain # <<>> => chain[1] \in Document
           /\ \A i \in 1..Len(chain) : chain # <<>> /\ i = 1 /\ Without(chain, i) = <<>>
<1>1. CASE chain = <<>>
  BY <1>1
<1>2. ASSUME NEW document \in Document, chain = <<document>> PROVE /\ chain[1] = document
              /\ Len(chain) = 1 /\ Without(chain, 1) = <<>>
  <2>1. Len(chain) = 1 /\ chain[1] = document
    BY <1>2
  <2>2. SubSeq(chain, 1, 0) = <<>> /\ SubSeq(chain, 2, 1) = <<>>
    BY <1>2, <2>1
  <2>3. QED
    BY <2>1, <2>2 DEF Without
<1>3. ASSUME NEW i \in 1..Len(chain), chain # <<>>
      PROVE  i = 1 /\ Without(chain, i) = <<>>
  <2>1. Len(chain) = 1 /\ Without(chain, 1) = <<>>
    BY <1>2, <1>3 DEF Chain
  <2>2. QED
    BY <2>1
<1>4. chain # <<>> => chain[1] \in Document
  BY <1>2 DEF Chain
<1>5. \A i \in 1..Len(chain) : chain # <<>>
  BY <1>1
<1>6. QED
  BY <1>3, <1>4, <1>5

-----------------------------------------------------------------------------
(* What the mutations do to a document.                                    *)

LEMMA LoadedTokens ==
    ASSUME NEW document \in Document
    PROVE  /\ Loaded(document) \in Document
           /\ \A d \in Device : /\ Loaded(document)[d].token = document[d].token
                                /\ Loaded(document)[d].status = document[d].status
           /\ TokensOK(document) => TokensOK(Loaded(document))
<1>1. ASSUME NEW scopes \in SUBSET Scope PROVE Upgraded(scopes) \in SUBSET Scope
  BY DEF Upgraded
<1>2. ASSUME NEW d \in Device
      PROVE  /\ Loaded(document)[d] \in Record
             /\ Loaded(document)[d].token = document[d].token
             /\ Loaded(document)[d].status = document[d].status
  BY <1>1, <1>2 DEF Loaded, Document, Record
<1>3. Loaded(document) \in Document
  BY <1>2 DEF Document, Loaded
<1>4. QED
  BY <1>2, <1>3 DEF TokensOK, SingleOwner, OwnersPaired

\* A record with the token it had, if it stays paired, or with none.
LEMMA OneRecordTokens ==
    ASSUME NEW devices \in Document, TokensOK(devices), NEW d \in Device, NEW record \in Record,
           \/ record.token = devices[d].token /\ record.status = "active"
           \/ record.token = NoToken
    PROVE  /\ [devices EXCEPT ![d] = record] \in Document
           /\ TokensOK([devices EXCEPT ![d] = record])
BY DEF TokensOK, SingleOwner, OwnersPaired, Document

\* A record with other scopes keeps its token.
LEMMA ChosenRecord ==
    ASSUME NEW record \in Record, NEW scopes \in SUBSET Scope
    PROVE  LET changed == [record EXCEPT !.scopes = scopes]
           IN  /\ changed \in Record
               /\ changed.token = record.token
               /\ changed.status = record.status
BY DEF Record

LEMMA WithTokenTokens ==
    ASSUME NEW devices \in Document, TokensOK(devices), NEW d \in Device, NEW t \in Token,
           devices[d].status = "active"
    PROVE  WithToken(devices, d, t) \in Document /\ TokensOK(WithToken(devices, d, t))
<1>1. t # NoToken
  BY RegistryAssumption
<1>2. ASSUME NEW e \in Device
      PROVE  /\ WithToken(devices, d, t)[e] \in Record
             /\ WithToken(devices, d, t)[e].status = devices[e].status
             /\ WithToken(devices, d, t)[e].token =
                  IF e = d THEN t ELSE IF devices[e].token = t THEN NoToken
                                       ELSE devices[e].token
  <2>1. devices[e] \in Record
    BY DEF Document
  <2>2. WithToken(devices, d, t)[e] = IF e = d THEN [devices[e] EXCEPT !.token = t]
                             ELSE IF devices[e].token = t
                             THEN [devices[e] EXCEPT !.token = NoToken]
                             ELSE devices[e]
    BY DEF WithToken
  <2>3. [devices[e] EXCEPT !.token = t] \in Record /\ [devices[e] EXCEPT !.token = NoToken] \in Record
    BY <2>1 DEF Record
  <2>4. [devices[e] EXCEPT !.token = t].token = t /\ [devices[e] EXCEPT !.token = t].status = devices[e].status
    BY <2>1 DEF Record
  <2>5. QED
    BY <2>1, <2>2, <2>3, <2>4 DEF Record
<1>3. WithToken(devices, d, t) \in Document
  BY <1>2 DEF WithToken, Document
<1>4. QED
  BY <1>1, <1>2, <1>3 DEF TokensOK, SingleOwner, OwnersPaired

-----------------------------------------------------------------------------
LEMMA StateInit == Init => IInv
<1> SUFFICES ASSUME Init PROVE IInv
  OBVIOUS
<1>1. Nobody \in Document /\ TokensOK(Nobody)
  BY AbsentFact, AbsentTokens DEF Nobody, Document
<1>2. StateOK
  BY <1>1, StoreFact DEF StateOK, Init, History, Chain, Clean
<1>3. TokenInv
  BY <1>1 DEF TokenInv, Init
<1>4. SavedInv /\ FreshInv
  BY StoreFact DEF SavedInv, FreshInv, Init
<1>5. QED
  BY <1>2, <1>3, <1>4 DEF IInv

\* A handler that changed the devices of a store, or not, and queued its write.
LEMMA Mutation ==
    ASSUME IInv, NEW k \in Store, k <= newest,
           NEW document \in Document, TokensOK(document), Put(k, document), Flush(k),
           UNCHANGED <<newest, file, writing, history>>,
           waiting' \subseteq Begun(newest), pushes' \subseteq Begun(newest)
    PROVE  IInv'
<1>0. StateOK /\ FreshInv /\ TokenInv /\ SavedInv
  BY DEF IInv
<1>1. /\ registry' = [registry EXCEPT ![k] = document]
      /\ queued' = [queued EXCEPT ![k] = @ + 1]
  BY DEF Put, Flush
<1>2. /\ registry' \in [Store -> Document] /\ queued' \in [Store -> Nat]
      /\ queued'[k] > 0
      /\ \A j \in Store \ {k} : registry'[j] = registry[j] /\ queued'[j] = queued[j]
      /\ registry'[k] = document
  BY <1>0, <1>1 DEF StateOK
<1>3. StateOK'
  BY <1>0, <1>2 DEF StateOK
<1>4. FreshInv'
  <2>1. ASSUME NEW j \in Store, j > newest PROVE j # k
    BY <2>1, <1>0, StoreFact DEF StateOK
  <2>2. QED
    BY <1>0, <1>2, <2>1 DEF FreshInv
<1>5. TokenInv'
  BY <1>0, <1>2 DEF TokenInv
<1>6. SavedInv'
  <2>1. CASE k = newest
    BY <1>2, <2>1 DEF SavedInv
  <2>2. CASE k # newest
    BY <1>0, <1>2, <2>2 DEF SavedInv, StateOK
  <2>3. QED
    BY <2>1, <2>2
<1>7. QED
  BY <1>3, <1>4, <1>5, <1>6 DEF IInv

\* A step that leaves registry, file and writes alone.
LEMMA NoMutation ==
    ASSUME IInv, UNCHANGED <<newest, registry, file, queued, writing, history>>,
           waiting' \subseteq Begun(newest), pushes' \subseteq Begun(newest)
    PROVE  IInv'
BY DEF IInv, StateOK, FreshInv, TokenInv, SavedInv

LEMMA WriteStep ==
    ASSUME IInv, NEW k \in Store,
           StartWrite(k) \/ \E i \in 1..Len(writing[k]), ok \in BOOLEAN : EndWrite(k, i, ok)
    PROVE  IInv'
<1>0. StateOK /\ FreshInv /\ TokenInv /\ SavedInv
  BY DEF IInv
<1>1. /\ newest \in Store /\ registry[k] \in Document /\ registry \in [Store -> Document]
      /\ file \in Document
      /\ writing \in [Store -> Chain] /\ writing[k] \in Chain /\ queued \in [Store -> Nat]
  BY <1>0 DEF StateOK
<1>2. CASE StartWrite(k)
  <2>1. /\ queued[k] > 0 /\ queued' = [queued EXCEPT ![k] = @ - 1]
        /\ writing' = [writing EXCEPT ![k] = <<registry[k]>>]
        /\ UNCHANGED <<newest, registry, file, waiting, pushes, history>>
    BY <1>2 DEF StartWrite
  <2>2. <<registry[k]>> \in Chain /\ <<registry[k]>>[1] = registry[k]
    BY <1>1 DEF Chain
  <2>3. /\ writing'[k] = <<registry[k]>>
        /\ \A j \in Store \ {k} : writing'[j] = writing[j] /\ queued'[j] = queued[j]
        /\ writing' \in [Store -> Chain] /\ queued' \in [Store -> Nat]
    BY <1>1, <2>1, <2>2
  <2>4. StateOK'
    BY <1>0, <2>1, <2>3 DEF StateOK
  <2>5. ~(k > newest)
    BY <1>0, <2>1 DEF FreshInv
  <2>6. FreshInv'
    BY <1>0, <2>1, <2>3, <2>5 DEF FreshInv
  <2>7. TokenInv'
    BY <1>0, <2>1, <2>2, <2>3 DEF TokenInv
  <2>8. SavedInv'
    <3>1. CASE k = newest
      BY <2>1, <2>2, <2>3, <3>1 DEF SavedInv
    <3>2. CASE k # newest
      BY <1>0, <1>1, <2>1, <2>3, <3>2 DEF SavedInv
    <3>3. QED
      BY <3>1, <3>2
  <2>9. QED
    BY <2>4, <2>6, <2>7, <2>8 DEF IInv
<1>3. ASSUME NEW i \in 1..Len(writing[k]), NEW ok \in BOOLEAN, EndWrite(k, i, ok)
      PROVE  IInv'
  <2>1. /\ writing[k] # <<>> /\ i = 1 /\ Without(writing[k], i) = <<>>
        /\ writing[k][1] \in Document
    BY <1>1, ChainFact
  <2>2. /\ writing' = [writing EXCEPT ![k] = <<>>]
        /\ file' = IF ok THEN writing[k][1] ELSE file
        /\ history' = [failed |-> IF k = newest THEN ~ok ELSE history.failed,
                       overwritten |-> IF ok THEN k # newest ELSE history.overwritten]
        /\ UNCHANGED <<newest, registry, queued, waiting, pushes>>
    BY <1>3, <2>1 DEF EndWrite
  <2>3. /\ writing' \in [Store -> Chain] /\ writing'[k] = <<>>
        /\ \A j \in Store \ {k} : writing'[j] = writing[j]
    BY <1>1, <2>2 DEF Chain
  <2>4. history' \in History /\ file' \in Document
    BY <1>0, <1>1, <2>1, <2>2 DEF StateOK, History
  <2>5. StateOK'
    BY <1>0, <2>2, <2>3, <2>4 DEF StateOK
  <2>6. FreshInv'
    BY <1>0, <2>2, <2>3 DEF FreshInv
  <2>7. TokenInv'
    BY <1>0, <2>1, <2>2, <2>3 DEF TokenInv
  <2>8. SavedInv'
    <3>1. /\ history'.failed = (IF k = newest THEN ~ok ELSE history.failed)
          /\ history'.overwritten = (IF ok THEN k # newest ELSE history.overwritten)
      BY <2>2
    <3>2. CASE k = newest
      BY <1>0, <2>1, <2>2, <2>3, <3>1, <3>2 DEF SavedInv
    <3>3. CASE k # newest
      BY <1>0, <1>1, <2>2, <2>3, <3>1, <3>3 DEF SavedInv
    <3>4. QED
      BY <3>2, <3>3
  <2>9. QED
    BY <2>5, <2>6, <2>7, <2>8 DEF IInv
<1>4. QED
  BY <1>2, <1>3

LEMMA LoadStep ==
    ASSUME IInv, Restart \/ Reload
    PROVE  IInv'
<1>0. StateOK /\ FreshInv /\ TokenInv /\ SavedInv
  BY DEF IInv
<1>1. /\ file \in Document /\ TokensOK(file) /\ newest \in Store
      /\ registry \in [Store -> Document] /\ writing \in [Store -> Chain] /\ queued \in [Store -> Nat]
  BY <1>0 DEF StateOK, TokenInv
<1>2. Loaded(file) \in Document /\ TokensOK(Loaded(file))
  BY <1>1, LoadedTokens
<1>3. Upgrades \in Nat /\ (Upgrades = 0 => Loaded(file) = file)
  BY DEF Upgrades
<1>4. Clean \in History /\ Clean.overwritten = FALSE
  BY DEF Clean, History
<1>5. Nobody \in Document /\ TokensOK(Nobody)
  BY AbsentFact, AbsentTokens DEF Nobody, Document
<1>6. CASE Restart
  <2>1. /\ newest' = 1 /\ file' = file /\ waiting' = {} /\ pushes' = {} /\ history' = Clean
        /\ registry' = [k \in Store |-> IF k = 1 THEN Loaded(file) ELSE Nobody]
        /\ queued' = [k \in Store |-> IF k = 1 THEN Upgrades ELSE 0]
        /\ writing' = [k \in Store |-> <<>>]
    BY <1>6 DEF Restart
  <2>2. StateOK'
    BY <1>1, <1>2, <1>3, <1>4, <1>5, <2>1, StoreFact DEF StateOK, Chain
  <2>3. FreshInv' /\ TokenInv'
    BY <1>1, <1>2, <1>5, <2>1, StoreFact DEF FreshInv, TokenInv
  <2>4. SavedInv'
    BY <1>3, <2>1, StoreFact DEF SavedInv
  <2>5. QED
    BY <2>2, <2>3, <2>4 DEF IInv
<1>7. CASE Reload
  <2> DEFINE n == newest + 1
  <2>1. /\ newest < MaxStores /\ newest' = n
        /\ registry' = [registry EXCEPT ![n] = Loaded(file)]
        /\ queued' = [queued EXCEPT ![n] = Upgrades]
        /\ history' = Clean /\ UNCHANGED <<file, writing, waiting, pushes>>
    BY <1>7 DEF Reload, Put
  <2>2. newest \in Nat /\ n \in Store /\ n > newest /\ \A k \in Store : k > n => k > newest /\ k # n
    BY <1>1, <2>1, StoreFact DEF Store
  <2>3. Begun(newest) \subseteq Begun(n)
    BY <2>2 DEF Begun
  <2>4. /\ registry' \in [Store -> Document] /\ queued' \in [Store -> Nat]
        /\ registry'[n] = Loaded(file) /\ queued'[n] = Upgrades
        /\ \A k \in Store \ {n} : registry'[k] = registry[k] /\ queued'[k] = queued[k]
    BY <1>1, <1>2, <1>3, <2>1, <2>2
  <2>5. StateOK'
    <3>1. waiting' \subseteq Begun(n) /\ pushes' \subseteq Begun(n)
      BY <1>0, <2>1, <2>3 DEF StateOK
    <3>2. QED
      BY <1>1, <1>4, <2>1, <2>2, <2>4, <3>1 DEF StateOK
  <2>6. FreshInv'
    BY <1>0, <2>1, <2>2, <2>4 DEF FreshInv
  <2>7. TokenInv'
    BY <1>0, <1>2, <2>1, <2>4 DEF TokenInv
  <2>8. SavedInv'
    <3>1. writing[n] = <<>>
      BY <1>0, <2>2 DEF FreshInv
    <3>2. QED
      BY <1>3, <2>1, <2>4, <3>1 DEF SavedInv
  <2>9. QED
    BY <2>5, <2>6, <2>7, <2>8 DEF IInv
<1>8. QED
  BY <1>6, <1>7

\* What the actions on one device of one store start from.
LEMMA DevicesFact ==
    ASSUME IInv, NEW k \in Store, NEW d \in Device
    PROVE  /\ registry[k] \in Document /\ registry[k][d] \in Record /\ TokensOK(registry[k])
           /\ newest \in Store /\ newest <= newest
           /\ waiting \subseteq Begun(newest) /\ pushes \subseteq Begun(newest)
           /\ registry = [registry EXCEPT ![k] = registry[k]]
BY StoreFact DEF IInv, StateOK, TokenInv, Document

LEMMA PairingStep ==
    ASSUME IInv, NEW d \in Device, NEW scopes \in SUBSET Scope,
           Pair(d, scopes) \/ SetScopes(d, scopes) \/ Authenticated(d) \/ Revoke(d)
    PROVE  IInv'
<1> DEFINE devices == registry[newest]
<1>0. newest \in Store
  BY DEF IInv, StateOK
<1>1. /\ devices \in Document /\ devices[d] \in Record /\ TokensOK(devices)
      /\ newest <= newest
      /\ waiting \subseteq Begun(newest) /\ pushes \subseteq Begun(newest)
      /\ registry = [registry EXCEPT ![newest] = devices]
  BY <1>0, DevicesFact
<1>2. /\ UNCHANGED <<newest, file, writing, history>> /\ Flush(newest)
      /\ waiting' \subseteq Begun(newest) /\ pushes' \subseteq Begun(newest)
  BY <1>1 DEF Pair, SetScopes, Authenticated, Revoke
<1>3. ASSUME NEW document \in Document, TokensOK(document), Put(newest, document)
      PROVE  IInv'
  BY <1>0, <1>1, <1>2, <1>3, Mutation
<1>4. ASSUME NEW record \in Record, Put(newest, [devices EXCEPT ![d] = record]),
             \/ record.token = devices[d].token /\ record.status = "active"
             \/ record.token = NoToken
      PROVE  IInv'
  BY <1>1, <1>3, <1>4, OneRecordTokens
<1>5. CASE Pair(d, scopes)
  <2> DEFINE record == [devices[d] EXCEPT !.status = "active", !.scopes = Upgraded(scopes)]
  <2>1. record \in Record /\ record.token = devices[d].token /\ record.status = "active"
    BY <1>1 DEF Record, Upgraded
  <2>2. Put(newest, [devices EXCEPT ![d] = record])
    BY <1>5 DEF Pair
  <2> HIDE DEF record
  <2>3. QED
    BY <1>4, <2>1, <2>2
<1>6. CASE SetScopes(d, scopes)
  <2> DEFINE record == [devices[d] EXCEPT !.scopes = scopes]
  <2>1. record \in Record /\ record.token = devices[d].token /\ record.status = devices[d].status
    BY <1>1, ChosenRecord
  <2>2. Put(newest, [devices EXCEPT ![d] = record]) /\ devices[d].status = "active"
    BY <1>6 DEF SetScopes, Active
  <2> HIDE DEF record
  <2>3. QED
    BY <1>4, <2>1, <2>2
<1>7. CASE Authenticated(d)
  <2>1. Put(newest, devices)
    BY <1>1, <1>7 DEF Authenticated, Put
  <2>2. QED
    BY <1>1, <1>3, <2>1
<1>8. CASE Revoke(d)
  <2>1. Revoked(devices[d]) \in Record /\ Revoked(devices[d]).token = NoToken
    BY <1>1 DEF Revoked, Record
  <2>2. Put(newest, [devices EXCEPT ![d] = Revoked(devices[d])])
    BY <1>8 DEF Revoke
  <2>3. QED
    BY <1>4, <2>1, <2>2
<1>9. QED
  BY <1>5, <1>6, <1>7, <1>8

LEMMA ArrivalStep ==
    ASSUME IInv, NEW k \in Store, NEW d \in Device, NEW t \in Token,
           RegisterArrives(d, t) \/ Push(k, d)
    PROVE  IInv'
<1>0. newest \in Store
  BY DEF IInv, StateOK
<1>1. /\ registry[k] \in Document /\ registry[k][d] \in Record
      /\ waiting \subseteq Begun(newest) /\ pushes \subseteq Begun(newest)
  BY DevicesFact
<1>2. \A j \in Store, u \in Token : j <= newest => <<j, d, u>> \in Begun(newest)
  BY <1>0, StoreFact DEF Begun, Store
<1>3. CASE RegisterArrives(d, t)
  <2>1. <<newest, d, t>> \in Begun(newest)
    BY <1>0, <1>2, DevicesFact
  <2>2. QED
    BY <1>1, <1>3, <2>1, NoMutation DEF RegisterArrives
<1>4. CASE Push(k, d)
  <2>1. registry[k][d].token \in Token
    BY <1>1, <1>4 DEF Push, Record
  <2>2. <<k, d, registry[k][d].token>> \in Begun(newest)
    BY <1>2, <1>4, <2>1 DEF Push
  <2>3. QED
    BY <1>1, <1>4, <2>2, NoMutation DEF Push
<1>5. QED
  BY <1>3, <1>4

\* The end of a registration, and the answer to a push, of any store.
LEMMA AnswerStep ==
    ASSUME IInv, NEW k \in Store, k <= newest, NEW d \in Device, NEW t \in Token,
           RegisterEnds(k, d, t)
           \/ \E unregistered \in BOOLEAN : PushAnswered(k, d, t, unregistered)
    PROVE  IInv'
<1>1. /\ registry[k] \in Document /\ registry[k][d] \in Record /\ TokensOK(registry[k])
      /\ waiting \subseteq Begun(newest) /\ pushes \subseteq Begun(newest)
  BY DevicesFact
<1>2. /\ UNCHANGED <<newest, file, writing, history>>
      /\ waiting' \subseteq Begun(newest) /\ pushes' \subseteq Begun(newest)
  BY <1>1 DEF RegisterEnds, PushAnswered
<1>3. CASE UNCHANGED <<registry, queued>>
  BY <1>2, <1>3, NoMutation
<1>4. ASSUME NEW document \in Document, TokensOK(document), Put(k, document), Flush(k)
      PROVE  IInv'
  BY <1>2, <1>4, Mutation
<1>5. CASE RegisterEnds(k, d, t) /\ MayRegister(k, d) /\ registry[k][d].token # t
  <2>1. registry[k][d].status = "active"
    BY <1>5 DEF MayRegister, Active
  <2>2. WithToken(registry[k], d, t) \in Document /\ TokensOK(WithToken(registry[k], d, t))
    BY <1>1, <2>1, WithTokenTokens
  <2>3. QED
    BY <1>4, <1>5, <2>2 DEF RegisterEnds
<1>6. ASSUME PushAnswered(k, d, t, TRUE), registry[k][d].token # NoToken
      PROVE  IInv'
  <2> DEFINE record == [registry[k][d] EXCEPT !.token = NoToken]
  <2>1. record \in Record /\ record.token = NoToken
    BY <1>1 DEF Record
  <2>2. /\ [registry[k] EXCEPT ![d] = record] \in Document
        /\ TokensOK([registry[k] EXCEPT ![d] = record])
    BY <1>1, <2>1, OneRecordTokens
  <2>3. Put(k, [registry[k] EXCEPT ![d] = record]) /\ Flush(k)
    BY <1>6 DEF PushAnswered
  <2>4. QED
    BY <1>4, <2>2, <2>3
<1>7. QED
  BY <1>3, <1>5, <1>6 DEF RegisterEnds, PushAnswered

-----------------------------------------------------------------------------
LEMMA SafeStep == IInv /\ [Next]_vars => IInv'
<1> SUFFICES ASSUME IInv, [Next]_vars PROVE IInv'
  OBVIOUS
<1>1. ASSUME NEW r \in waiting \cup pushes
      PROVE  r[1] \in Store /\ r[1] <= newest /\ r[2] \in Device /\ r[3] \in Token
  <2>1. r \in Begun(newest) /\ newest \in Store
    BY DEF IInv, StateOK
  <2>2. r[1] \in 1..newest /\ r[2] \in Device /\ r[3] \in Token
    BY <2>1 DEF Begun
  <2>3. QED
    BY <2>1, <2>2, StoreFact DEF Store
<1>2. ASSUME NEW r \in waiting, RegisterEnds(r[1], r[2], r[3]) PROVE IInv'
  BY <1>1, <1>2, AnswerStep
<1>3. ASSUME NEW p \in pushes, NEW unregistered \in BOOLEAN,
             PushAnswered(p[1], p[2], p[3], unregistered)
      PROVE  IInv'
  BY <1>1, <1>3, AnswerStep
<1>4. ASSUME NEW k \in Store, NEW d \in Device, Push(k, d) PROVE IInv'
  <2>1. registry[k][d].token \in Token
    BY <1>4, DevicesFact DEF Push, Record
  <2>2. QED
    BY <1>4, <2>1, ArrivalStep
<1>5. ASSUME NEW d \in Device, NEW t \in Token, RegisterArrives(d, t) PROVE IInv'
  BY <1>5, ArrivalStep, StoreFact
<1>6. CASE UNCHANGED vars
  BY <1>6, NoMutation DEF vars, IInv, StateOK
<1>7. ASSUME NEW d \in Device, Authenticated(d) \/ Revoke(d) PROVE IInv'
  BY <1>7, PairingStep, {} \in SUBSET Scope
<1>8. QED
  BY <1>2, <1>3, <1>4, <1>5, <1>6, <1>7, WriteStep, LoadStep, PairingStep DEF Next

LEMMA SafeSpec == Spec => []IInv
BY StateInit, SafeStep, PTL DEF Spec

\* When the chain of writes of the store in use is empty and its last write succeeded,
\* the file holds the registry, unless a store left behind by a reload wrote since: no
\* mutation of a handler forgets its write, for any number of stores.
THEOREM FileCatchesUp == Spec => []NothingUnsaved
<1>1. IInv => NothingUnsaved
  BY DEF IInv, SavedInv, NothingUnsaved
<1>2. QED
  BY <1>1, SafeSpec, PTL

\* A push token belongs to one device, for any number of phones and stores, in memory and
\* in every file that a load may find.
THEOREM TokenHasOneOwner == Spec => []OneOwnerPerToken
<1>1. IInv => OneOwnerPerToken
  BY DEF IInv, TokenInv, TokensOK, SingleOwner, OneOwnerPerToken
<1>2. QED
  BY <1>1, SafeSpec, PTL

\* A revoked device is no target of pushes, whatever registrations wait while it is
\* revoked, and whichever store's document a load finds.
THEOREM RevokedGetsNothing == Spec => []RevokedIsNoTarget
<1>1. IInv => RevokedIsNoTarget
  BY DEF IInv, TokenInv, TokensOK, OwnersPaired, RevokedIsNoTarget
<1>2. QED
  BY <1>1, SafeSpec, PTL
=============================================================================
