------------------------- MODULE PreviewTunnelProofs -------------------------
(***************************************************************************)
(* Theorems about the preview tunnel, for every set of stream ids, any     *)
(* windows, any number of streams opened one after the other, and whatever *)
(* the phone, the services and the settings page do.                       *)
(*                                                                         *)
(* The steps of the model are compositions of a few operators on the state *)
(* of the tunnel (Send, Flush, CloseStream).  The proof follows them: the  *)
(* part of the invariant that they touch is a predicate on that state,     *)
(* Sound, a lemma says for each of them that it is kept, and the steps are *)
(* put together from these lemmas.                                         *)
(***************************************************************************)
EXTENDS PreviewTunnel, FiniteSetTheorems, SequenceTheorems, WellFoundedInduction, TLAPS

-----------------------------------------------------------------------------
(* Induction, as sets: what a least counterexample cannot be.              *)

\* Every set of numbers that is not empty has a least one.
LEMMA LeastNat ==
    ASSUME NEW S \in SUBSET Nat, S # {}
    PROVE  \E m \in S : \A k \in S : m <= k
<1> DEFINE T == {0..m : m \in S}
<1>1. \A m \in S : 0..m \in FiniteSubsetsOf(Nat)
  <2> SUFFICES ASSUME NEW m \in S PROVE 0..m \in FiniteSubsetsOf(Nat)
    OBVIOUS
  <2>1. IsFiniteSet(0..m)
    BY FS_Interval
  <2>2. 0..m \in SUBSET Nat
    OBVIOUS
  <2>3. QED
    BY <2>1, <2>2, Zenon DEF FiniteSubsetsOf
<1>2. T \subseteq FiniteSubsetsOf(Nat) /\ T # {}
  BY <1>1
<1>3. IsWellFoundedOn(StrictSubsetOrdering(Nat), FiniteSubsetsOf(Nat))
  BY FS_StrictSubsetOrderingWellFounded
<1> HIDE DEF T
<1>4. \E x \in T : \A y \in T : ~ (<<y, x>> \in StrictSubsetOrdering(Nat))
  BY <1>2, <1>3, WFMin
<1> USE DEF T
<1>5. PICK m \in S : \A k \in S : ~ (<<0..k, 0..m>> \in StrictSubsetOrdering(Nat))
  BY <1>4
<1>6. ASSUME NEW k \in S, k < m PROVE FALSE
  <2>1. 0..k \subseteq 0..m /\ m \notin 0..k /\ m \in 0..m
    BY <1>6
  <2>2. <<0..k, 0..m>> \in (SUBSET Nat) \X (SUBSET Nat) /\ 0..k # 0..m
    BY <2>1
  <2>3. <<0..k, 0..m>> \in StrictSubsetOrdering(Nat)
    BY <2>1, <2>2, Zenon DEF StrictSubsetOrdering
  <2>4. QED
    BY <2>3, <1>5, <1>6
<1>7. QED
  BY <1>6

\* A set that has 0, and n + 1 with every n, has them all.
LEMMA SetInduction ==
    ASSUME NEW S, 0 \in S, \A n \in Nat : n \in S => n + 1 \in S
    PROVE  Nat \subseteq S
<1> SUFFICES ASSUME Nat \ S # {} PROVE FALSE
  OBVIOUS
<1>1. PICK m \in Nat \ S : \A k \in Nat \ S : m <= k
  BY LeastNat
<1>2. m # 0 /\ m - 1 \in Nat
  OBVIOUS
<1>3. m - 1 \in S
  BY <1>1, <1>2
<1>4. QED
  BY <1>2, <1>3

-----------------------------------------------------------------------------
(* Queues.                                                                 *)

\* A sequence with one more element.
LEMMA AppendFact ==
    ASSUME NEW T, NEW q \in Seq(T), NEW x \in T
    PROVE  /\ Append(q, x) \in Seq(T) /\ Len(Append(q, x)) = Len(q) + 1 /\ Len(q) \in Nat
           /\ DOMAIN q = 1..Len(q) /\ DOMAIN Append(q, x) = 1..(Len(q) + 1)
           /\ Append(q, x)[Len(q) + 1] = x
           /\ \A i \in 1..Len(q) : Append(q, x)[i] = q[i]
           /\ \A i \in 1..Len(q) : q[i] \in T
  OBVIOUS

\* A sequence without its first element.
LEMMA TailFact ==
    ASSUME NEW T, NEW q \in Seq(T), q # <<>>
    PROVE  /\ Tail(q) \in Seq(T) /\ Len(Tail(q)) \in Nat /\ Len(q) = Len(Tail(q)) + 1
           /\ DOMAIN q = 1..Len(q) /\ DOMAIN Tail(q) = 1..Len(Tail(q))
           /\ \A i \in 1..Len(Tail(q)) : Tail(q)[i] = q[i + 1]
           /\ \A i \in 1..Len(q) : q[i] \in T
           /\ Head(q) = q[1] /\ 1 \in 1..Len(q) /\ q[1] \in T
  OBVIOUS

-----------------------------------------------------------------------------
(* The sum of numbers: Total is defined by recursion.                      *)

\* f is the function of the sums of w, up to n.
Sums(f, w, n) == f = [i \in 0..n |-> IF i = 0 THEN 0 ELSE f[i - 1] + w[i]]

\* The sums go on with one more number.
LEMMA SumsStep ==
    ASSUME NEW w, NEW n \in Nat, NEW f, Sums(f, w, n)
    PROVE  \E g : Sums(g, w, n + 1)
<1> DEFINE next == f[n] + w[n + 1]
           g == [i \in 0..(n + 1) |-> IF i = n + 1 THEN next ELSE f[i]]
<1>1. \A i \in 0..n : g[i] = f[i]
  OBVIOUS
<1>2. \A i \in 0..n : f[i] = IF i = 0 THEN 0 ELSE f[i - 1] + w[i]
  BY Zenon DEF Sums
<1>3. ASSUME NEW i \in 0..(n + 1)
      PROVE  g[i] = IF i = 0 THEN 0 ELSE g[i - 1] + w[i]
  <2>1. CASE i = n + 1
    <3>1. g[i] = next /\ g[i - 1] = f[n] /\ i # 0
      BY <2>1
    <3>2. QED
      BY <3>1, <2>1
  <2>2. CASE i # n + 1
    <3>1. i \in 0..n /\ (i # 0 => i - 1 \in 0..n)
      BY <2>2
    <3> HIDE DEF g
    <3>2. QED
      BY <1>1, <1>2, <3>1
  <2>3. QED
    BY <2>1, <2>2
<1>4. g = [i \in 0..(n + 1) |-> g[i]]
  OBVIOUS
<1> HIDE DEF g
<1>5. Sums(g, w, n + 1)
  BY <1>3, <1>4, Zenon DEF Sums
<1>6. QED
  BY <1>5

\* There are sums of every length.
LEMMA SumsExist ==
    ASSUME NEW w, NEW n \in Nat
    PROVE  \E f : Sums(f, w, n)
<1> DEFINE S == {k \in Nat : \E f : Sums(f, w, k)}
<1>1. 0 \in S
  <2>1. Sums([i \in 0..0 |-> 0], w, 0)
    BY DEF Sums
  <2>2. QED
    BY <2>1
<1>2. \A k \in Nat : k \in S => k + 1 \in S
  BY SumsStep
<1> HIDE DEF S
<1>3. Nat \subseteq S
  BY <1>1, <1>2, SetInduction
<1>4. QED
  BY <1>3 DEF S

\* Total is the last of them.
LEMMA TotalIs ==
    ASSUME NEW w \in Seq(Nat)
    PROVE  \E f : Sums(f, w, Len(w)) /\ Total(w) = f[Len(w)]
<1> DEFINE f == CHOOSE f : Sums(f, w, Len(w))
<1>1. Len(w) \in Nat
  OBVIOUS
<1>2. Sums(f, w, Len(w))
  BY <1>1, SumsExist
<1>3. Total(w) = f[Len(w)]
  BY Zenon DEF Total, Sums
<1>4. QED
  BY <1>2, <1>3

\* What sums are, one by one.
LEMMA SumsAre ==
    ASSUME NEW n \in Nat, NEW w \in [1..n -> Nat], NEW f, Sums(f, w, n)
    PROVE  /\ f[0] = 0
           /\ \A i \in 1..n : f[i] = f[i - 1] + w[i]
           /\ \A i \in 0..n : f[i] \in Nat
<1>1. \A i \in 0..n : f[i] = IF i = 0 THEN 0 ELSE f[i - 1] + w[i]
  BY Zenon DEF Sums
<1>2. f[0] = 0 /\ \A i \in 1..n : f[i] = f[i - 1] + w[i]
  BY <1>1
<1> DEFINE S == {k \in Nat : k <= n => f[k] \in Nat}
<1>3. 0 \in S
  BY <1>2
<1>4. ASSUME NEW k \in Nat, k \in S PROVE k + 1 \in S
  <2> SUFFICES ASSUME k + 1 <= n PROVE f[k + 1] \in Nat
    OBVIOUS
  <2>1. k + 1 \in 1..n /\ (k + 1) - 1 = k /\ f[k] \in Nat /\ w[k + 1] \in Nat
    BY <1>4
  <2>2. QED
    BY <1>2, <2>1
<1> HIDE DEF S
<1>5. Nat \subseteq S
  BY <1>3, <1>4, SetInduction
<1>6. QED
  BY <1>2, <1>5 DEF S

\* The sums of numbers that go on begin with those of their first ones.
LEMMA SumsPrefix ==
    ASSUME NEW n \in Nat, NEW v \in [1..n -> Nat], NEW w \in [1..(n + 1) -> Nat],
           \A i \in 1..n : v[i] = w[i],
           NEW f, Sums(f, v, n), NEW g, Sums(g, w, n + 1)
    PROVE  f[n] = g[n]
<1>1. /\ \A i \in 0..n : f[i] = IF i = 0 THEN 0 ELSE f[i - 1] + v[i]
      /\ \A i \in 0..(n + 1) : g[i] = IF i = 0 THEN 0 ELSE g[i - 1] + w[i]
  BY Zenon DEF Sums
<1> DEFINE S == {k \in Nat : k <= n => f[k] = g[k]}
<1>2. 0 \in S
  BY <1>1
<1>3. ASSUME NEW k \in Nat, k \in S PROVE k + 1 \in S
  <2> SUFFICES ASSUME k + 1 <= n PROVE f[k + 1] = g[k + 1]
    OBVIOUS
  <2>1. /\ k + 1 \in 1..n /\ k + 1 \in 0..n /\ k + 1 \in 0..(n + 1) /\ (k + 1) - 1 = k
        /\ f[k] = g[k] /\ k + 1 # 0
    BY <1>3
  <2>2. QED
    BY <1>1, <2>1
<1> HIDE DEF S
<1>4. Nat \subseteq S
  BY <1>2, <1>3, SetInduction
<1>5. QED
  BY <1>4 DEF S

\* Sums of what follows a first number.
LEMMA SumsShift ==
    ASSUME NEW n \in Nat, NEW v \in [1..n -> Nat], NEW w \in [1..(n + 1) -> Nat],
           \A i \in 1..n : v[i] = w[i + 1],
           NEW f, Sums(f, v, n), NEW g, Sums(g, w, n + 1)
    PROVE  g[n + 1] = w[1] + f[n]
<1>1. /\ f[0] = 0 /\ \A i \in 1..n : f[i] = f[i - 1] + v[i]
      /\ \A i \in 0..n : f[i] \in Nat
  BY SumsAre
<1>2. g[0] = 0 /\ \A i \in 1..(n + 1) : g[i] = g[i - 1] + w[i]
  <2>1. n + 1 \in Nat
    OBVIOUS
  <2>2. QED
    BY <2>1, SumsAre
<1> DEFINE S == {k \in Nat : k <= n => g[k + 1] = w[1] + f[k]}
<1>3. 0 \in S
  <2>1. 1 \in 1..(n + 1) /\ w[1] \in Nat
    OBVIOUS
  <2>2. g[1] = g[0] + w[1]
    BY <1>2, <2>1
  <2>3. QED
    BY <1>1, <1>2, <2>1, <2>2
<1>4. ASSUME NEW k \in Nat, k \in S PROVE k + 1 \in S
  <2> SUFFICES ASSUME k + 1 <= n PROVE g[(k + 1) + 1] = w[1] + f[k + 1]
    OBVIOUS
  <2> DEFINE j == k + 1
  <2>1. j \in 1..n /\ j - 1 = k /\ j + 1 \in 1..(n + 1) /\ (j + 1) - 1 = j
    OBVIOUS
  <2>2. g[j] = w[1] + f[k]
    BY <1>4
  <2>3. f[j] = f[k] + v[j] /\ g[j + 1] = g[j] + w[j + 1] /\ v[j] = w[j + 1]
    BY <1>1, <1>2, <2>1
  <2>4. f[k] \in Nat /\ v[j] \in Nat /\ w[1] \in Nat
    BY <1>1, <2>1
  <2>5. QED
    BY <2>2, <2>3, <2>4
<1> HIDE DEF S
<1>5. Nat \subseteq S
  BY <1>3, <1>4, SetInduction
<1>6. QED
  BY <1>5 DEF S

\* A sum is a number, and at least each of its terms; a sum of noughts is nought.
LEMMA TotalNat ==
    ASSUME NEW w \in Seq(Nat)
    PROVE  /\ Total(w) \in Nat
           /\ (\A i \in 1..Len(w) : w[i] = 0) => Total(w) = 0
<1> DEFINE n == Len(w)
<1>1. n \in Nat /\ w \in [1..n -> Nat]
  OBVIOUS
<1>2. PICK f : Sums(f, w, n) /\ Total(w) = f[n]
  BY TotalIs
<1> HIDE DEF n
<1>3. f[0] = 0 /\ (\A i \in 1..n : f[i] = f[i - 1] + w[i]) /\ \A i \in 0..n : f[i] \in Nat
  BY <1>1, <1>2, SumsAre
<1>4. ASSUME \A i \in 1..n : w[i] = 0 PROVE Total(w) = 0
  <2> DEFINE S == {k \in Nat : k <= n => f[k] = 0}
  <2>1. 0 \in S
    BY <1>3
  <2>2. ASSUME NEW k \in Nat, k \in S PROVE k + 1 \in S
    <3> SUFFICES ASSUME k + 1 <= n PROVE f[k + 1] = 0
      OBVIOUS
    <3>1. k + 1 \in 1..n /\ (k + 1) - 1 = k /\ f[k] = 0
      BY <1>1, <2>2
    <3>2. QED
      BY <1>3, <1>4, <3>1
  <2> HIDE DEF S
  <2>3. Nat \subseteq S
    BY <2>1, <2>2, SetInduction
  <2>4. QED
    BY <1>1, <1>2, <2>3 DEF S
<1>5. QED
  BY <1>1, <1>2, <1>3, <1>4 DEF n

\* One more number at the end.
LEMMA TotalMore ==
    ASSUME NEW v \in Seq(Nat), NEW w \in Seq(Nat), Len(w) = Len(v) + 1,
           \A i \in 1..Len(v) : v[i] = w[i]
    PROVE  Total(w) = Total(v) + w[Len(w)]
<1> DEFINE n == Len(v)
<1>1. /\ n \in Nat /\ Len(w) = n + 1 /\ v \in [1..n -> Nat] /\ w \in [1..(n + 1) -> Nat]
      /\ \A i \in 1..n : v[i] = w[i]
  BY LenProperties
<1>2. PICK f : Sums(f, v, n) /\ Total(v) = f[n]
  BY TotalIs
<1>3. PICK g : Sums(g, w, n + 1) /\ Total(w) = g[n + 1]
  BY <1>1, TotalIs
<1> HIDE DEF n
<1>4. n + 1 \in Nat /\ n + 1 \in 1..(n + 1) /\ (n + 1) - 1 = n
  BY <1>1
<1>5. f[n] = g[n]
  BY <1>1, <1>2, <1>3, SumsPrefix
<1>6. g[n + 1] = g[n] + w[n + 1]
  BY <1>1, <1>3, <1>4, SumsAre
<1>7. QED
  BY <1>1, <1>2, <1>3, <1>5, <1>6

\* One more number in front.
LEMMA TotalRest ==
    ASSUME NEW v \in Seq(Nat), NEW w \in Seq(Nat), Len(w) = Len(v) + 1,
           \A i \in 1..Len(v) : v[i] = w[i + 1]
    PROVE  Total(w) = w[1] + Total(v)
<1> DEFINE n == Len(v)
<1>1. /\ n \in Nat /\ Len(w) = n + 1 /\ v \in [1..n -> Nat] /\ w \in [1..(n + 1) -> Nat]
      /\ \A i \in 1..n : v[i] = w[i + 1]
  BY LenProperties
<1>2. PICK f : Sums(f, v, n) /\ Total(v) = f[n]
  BY TotalIs
<1>3. PICK g : Sums(g, w, n + 1) /\ Total(w) = g[n + 1]
  BY <1>1, TotalIs
<1> HIDE DEF n
<1>4. g[n + 1] = w[1] + f[n]
  BY <1>1, <1>2, <1>3, SumsShift
<1>5. QED
  BY <1>2, <1>3, <1>4

-----------------------------------------------------------------------------
(* Units and answers in a queue.                                           *)

\* What a frame counts for, and each frame of a queue.
Worth(f, kind, serials) == IF f.kind = kind /\ f.serial \in serials THEN f.units ELSE 0
\* What the frames of a queue carry of a kind, one by one: Units is their sum.
Weights(q, kind, serials) == [i \in 1..Len(q) |-> Worth(q[i], kind, serials)]

\* They are numbers, and add up to the units.
LEMMA WeightsFact ==
    ASSUME NEW q \in Seq(Frame), NEW kind, NEW serials
    PROVE  /\ Weights(q, kind, serials) \in Seq(Nat)
           /\ Len(Weights(q, kind, serials)) = Len(q)
           /\ \A i \in 1..Len(q) : Weights(q, kind, serials)[i] = Worth(q[i], kind, serials)
           /\ Units(q, kind, serials) = Total(Weights(q, kind, serials))
<1>1. Len(q) \in Nat /\ \A i \in 1..Len(q) : q[i] \in Frame
  OBVIOUS
<1>2. \A i \in 1..Len(q) : Worth(q[i], kind, serials) \in Nat
  BY <1>1 DEF Frame, Worth
<1>3. Units(q, kind, serials) = Total(Weights(q, kind, serials))
  BY DEF Units, Weights, Worth
<1>4. QED
  BY <1>1, <1>2, <1>3 DEF Weights

\* Units are a number; none, when no frame of the queue has any.
LEMMA UnitsNat ==
    ASSUME NEW q \in Seq(Frame), NEW kind, NEW serials
    PROVE  /\ Units(q, kind, serials) \in Nat
           /\ (\A i \in 1..Len(q) : q[i].kind # kind \/ q[i].serial \notin serials)
                 => Units(q, kind, serials) = 0
<1> DEFINE w == Weights(q, kind, serials)
<1>1. /\ w \in Seq(Nat) /\ Len(w) = Len(q) /\ Units(q, kind, serials) = Total(w)
      /\ \A i \in 1..Len(q) : w[i] = Worth(q[i], kind, serials)
  BY WeightsFact
<1> HIDE DEF w
<1>2. ASSUME \A i \in 1..Len(q) : q[i].kind # kind \/ q[i].serial \notin serials
      PROVE  \A i \in 1..Len(w) : w[i] = 0
  BY <1>1, <1>2 DEF Worth
<1>3. QED
  BY <1>1, <1>2, TotalNat

\* Units of a queue with one more frame.
LEMMA UnitsAppend ==
    ASSUME NEW q \in Seq(Frame), NEW f \in Frame, NEW kind, NEW serials
    PROVE  Units(Append(q, f), kind, serials) = Units(q, kind, serials) + Worth(f, kind, serials)
<1> DEFINE more == Append(q, f)
           v == Weights(q, kind, serials)
           w == Weights(more, kind, serials)
<1>1. /\ more \in Seq(Frame) /\ Len(more) = Len(q) + 1 /\ Len(q) \in Nat
      /\ more[Len(q) + 1] = f /\ \A i \in 1..Len(q) : more[i] = q[i]
  BY AppendFact
<1> HIDE DEF more
<1>2. /\ v \in Seq(Nat) /\ Len(v) = Len(q) /\ Units(q, kind, serials) = Total(v)
      /\ \A i \in 1..Len(q) : v[i] = Worth(q[i], kind, serials)
  BY WeightsFact
<1>3. /\ w \in Seq(Nat) /\ Len(w) = Len(q) + 1 /\ Units(more, kind, serials) = Total(w)
      /\ \A i \in 1..(Len(q) + 1) : w[i] = Worth(more[i], kind, serials)
  BY <1>1, WeightsFact
<1> HIDE DEF v, w
<1>4. Len(q) + 1 \in 1..(Len(q) + 1) /\ \A i \in 1..Len(q) : i \in 1..(Len(q) + 1)
  BY <1>1
<1>5. w[Len(q) + 1] = Worth(f, kind, serials) /\ \A i \in 1..Len(v) : v[i] = w[i]
  BY <1>1, <1>2, <1>3, <1>4
<1>6. Total(w) = Total(v) + w[Len(w)]
  BY <1>2, <1>3, <1>5, TotalMore
<1>7. QED
  BY <1>2, <1>3, <1>5, <1>6 DEF more

\* Units of a queue without its first frame.
LEMMA UnitsTail ==
    ASSUME NEW q \in Seq(Frame), q # <<>>, NEW kind, NEW serials
    PROVE  Units(q, kind, serials) = Worth(Head(q), kind, serials) + Units(Tail(q), kind, serials)
<1> DEFINE rest == Tail(q)
           n == Len(rest)
           v == Weights(rest, kind, serials)
           w == Weights(q, kind, serials)
<1>1. /\ rest \in Seq(Frame) /\ n \in Nat /\ Len(q) = n + 1 /\ Head(q) = q[1]
      /\ \A i \in 1..n : rest[i] = q[i + 1]
  BY TailFact
<1> HIDE DEF rest
<1>2. /\ v \in Seq(Nat) /\ Len(v) = n /\ Units(rest, kind, serials) = Total(v)
      /\ \A i \in 1..n : v[i] = Worth(rest[i], kind, serials)
  BY <1>1, WeightsFact
<1>3. /\ w \in Seq(Nat) /\ Len(w) = n + 1 /\ Units(q, kind, serials) = Total(w)
      /\ \A i \in 1..(n + 1) : w[i] = Worth(q[i], kind, serials)
  BY <1>1, WeightsFact
<1> HIDE DEF n, v, w
<1>4. 1 \in 1..(n + 1) /\ \A i \in 1..n : i + 1 \in 1..(n + 1)
  BY <1>1
<1>5. w[1] = Worth(Head(q), kind, serials) /\ \A i \in 1..Len(v) : v[i] = w[i + 1]
  BY <1>1, <1>2, <1>3, <1>4
<1>6. Total(w) = w[1] + Total(v)
  BY <1>2, <1>3, <1>5, TotalRest
<1>7. QED
  BY <1>2, <1>3, <1>5, <1>6 DEF rest

\* How many answers to open requests for an id are under way.
AnswerTo(f, s) == IF f.kind \in {"opened", "failed"} /\ f.stream = s THEN 1 ELSE 0
\* The answers to the requests for a stream id in a queue, one by one and together.
Flags(q, s) == [i \in 1..Len(q) |-> AnswerTo(q[i], s)]
Answers(q, s) == Total(Flags(q, s))

\* They are numbers, too.
LEMMA FlagsFact ==
    ASSUME NEW q \in Seq(Frame), NEW s
    PROVE  /\ Flags(q, s) \in Seq(Nat)
           /\ Len(Flags(q, s)) = Len(q)
           /\ \A i \in 1..Len(q) : Flags(q, s)[i] = AnswerTo(q[i], s)
           /\ Answers(q, s) = Total(Flags(q, s))
<1>1. Len(q) \in Nat /\ \A i \in 1..Len(q) : q[i] \in Frame
  OBVIOUS
<1>2. \A i \in 1..Len(q) : AnswerTo(q[i], s) \in Nat
  BY DEF AnswerTo
<1>3. Answers(q, s) = Total(Flags(q, s))
  BY DEF Answers
<1>4. QED
  BY <1>1, <1>2, <1>3 DEF Flags

\* Answers are a number; none, when no frame of the queue is one.
LEMMA AnswersNat ==
    ASSUME NEW q \in Seq(Frame), NEW s
    PROVE  /\ Answers(q, s) \in Nat
           /\ (\A i \in 1..Len(q) : AnswerTo(q[i], s) = 0)
                 => Answers(q, s) = 0
<1> DEFINE w == Flags(q, s)
<1>1. /\ w \in Seq(Nat) /\ Len(w) = Len(q) /\ Answers(q, s) = Total(w)
      /\ \A i \in 1..Len(q) : w[i] = AnswerTo(q[i], s)
  BY FlagsFact
<1> HIDE DEF w
<1>2. ASSUME \A i \in 1..Len(q) : AnswerTo(q[i], s) = 0
      PROVE  \A i \in 1..Len(w) : w[i] = 0
  BY <1>1, <1>2
<1>3. QED
  BY <1>1, <1>2, TotalNat

\* Answers of a queue with one more frame.
LEMMA AnswersAppend ==
    ASSUME NEW q \in Seq(Frame), NEW f \in Frame, NEW s
    PROVE  Answers(Append(q, f), s) = Answers(q, s) + AnswerTo(f, s)
<1> DEFINE more == Append(q, f)
           v == Flags(q, s)
           w == Flags(more, s)
<1>1. /\ more \in Seq(Frame) /\ Len(more) = Len(q) + 1 /\ Len(q) \in Nat
      /\ more[Len(q) + 1] = f /\ \A i \in 1..Len(q) : more[i] = q[i]
  BY AppendFact
<1> HIDE DEF more
<1>2. /\ v \in Seq(Nat) /\ Len(v) = Len(q) /\ Answers(q, s) = Total(v)
      /\ \A i \in 1..Len(q) : v[i] = AnswerTo(q[i], s)
  BY FlagsFact
<1>3. /\ w \in Seq(Nat) /\ Len(w) = Len(q) + 1 /\ Answers(more, s) = Total(w)
      /\ \A i \in 1..(Len(q) + 1) : w[i] = AnswerTo(more[i], s)
  BY <1>1, FlagsFact
<1> HIDE DEF v, w
<1>4. Len(q) + 1 \in 1..(Len(q) + 1) /\ \A i \in 1..Len(q) : i \in 1..(Len(q) + 1)
  BY <1>1
<1>5. w[Len(q) + 1] = AnswerTo(f, s) /\ \A i \in 1..Len(v) : v[i] = w[i]
  BY <1>1, <1>2, <1>3, <1>4
<1>6. Total(w) = Total(v) + w[Len(w)]
  BY <1>2, <1>3, <1>5, TotalMore
<1>7. QED
  BY <1>2, <1>3, <1>5, <1>6 DEF more

\* Answers of a queue without its first frame.
LEMMA AnswersTail ==
    ASSUME NEW q \in Seq(Frame), q # <<>>, NEW s
    PROVE  Answers(q, s) = AnswerTo(Head(q), s) + Answers(Tail(q), s)
<1> DEFINE rest == Tail(q)
           n == Len(rest)
           v == Flags(rest, s)
           w == Flags(q, s)
<1>1. /\ rest \in Seq(Frame) /\ n \in Nat /\ Len(q) = n + 1 /\ Head(q) = q[1]
      /\ \A i \in 1..n : rest[i] = q[i + 1]
  BY TailFact
<1> HIDE DEF rest
<1>2. /\ v \in Seq(Nat) /\ Len(v) = n /\ Answers(rest, s) = Total(v)
      /\ \A i \in 1..n : v[i] = AnswerTo(rest[i], s)
  BY <1>1, FlagsFact
<1>3. /\ w \in Seq(Nat) /\ Len(w) = n + 1 /\ Answers(q, s) = Total(w)
      /\ \A i \in 1..(n + 1) : w[i] = AnswerTo(q[i], s)
  BY <1>1, FlagsFact
<1> HIDE DEF n, v, w
<1>4. 1 \in 1..(n + 1) /\ \A i \in 1..n : i + 1 \in 1..(n + 1)
  BY <1>1
<1>5. w[1] = AnswerTo(Head(q), s) /\ \A i \in 1..Len(v) : v[i] = w[i + 1]
  BY <1>1, <1>2, <1>3, <1>4
<1>6. Total(w) = w[1] + Total(v)
  BY <1>2, <1>3, <1>5, TotalRest
<1>7. QED
  BY <1>2, <1>3, <1>5, <1>6 DEF rest

-----------------------------------------------------------------------------
(* The inductive invariant.                                                *)

\* The part of the state that Commit writes.
StateType == [streams : [Stream -> StreamState], queue : Seq(Frame), timer : BOOLEAN,
              sockets : Int]

\* The streams that are open in it.
OpenIn(st) == {s \in Stream : st.streams[s] # NoStream}

\* A stream of id s and serial n is in the tunnel, in a frame, or at the phone.
Named(st, vw, s, n) ==
    \/ st.streams[s].serial = n
    \/ vw[s].serial = n
    \/ \E i \in 1..Len(st.queue) : st.queue[i].stream = s /\ st.queue[i].serial = n

\* A serial is one id's, and not younger than the last stream.
NamesOK(st, vw, last) ==
    \A s \in Stream, n \in Serial \ {0} : Named(st, vw, s, n) =>
        n <= last /\ \A t \in Stream : Named(st, vw, t, n) => t = s

\* Serial 0 is that of no stream, and of the frame that says so.
SerialsOK(st, vw) ==
    /\ \A s \in Stream : st.streams[s].serial = 0 => st.streams[s] = NoStream
    /\ \A s \in Stream : vw[s].serial = 0 => vw[s] = NoView
    /\ \A i \in 1..Len(st.queue) : st.queue[i].serial = 0 <=> st.queue[i].kind = "failed"

\* Frames that belong to a stream that was opened.
Body == {"data", "credit"} \cup Reason

\* Frames of a stream come after the one that opened it, and none after the last.
Ordered(q) ==
    \A i, j \in 1..Len(q) :
        q[i].serial = q[j].serial /\ q[i].serial # 0 /\ i # j =>
            /\ q[i].kind = "opened" => i < j
            /\ q[i].kind \in Reason => j < i

\* One stream at a time is on its way to be opened at the phone, which has none.
Single(q, vw) ==
    \A i \in 1..Len(q) : q[i].kind = "opened" =>
        /\ vw[q[i].stream] = NoView
        /\ \A j \in 1..Len(q) : q[j].kind = "opened" /\ q[j].stream = q[i].stream => i = j

\* A stream is on its way to be opened at the phone; it is there already, or it is.
Announced(q, s, n) == \E i \in 1..Len(q) :
    q[i].kind = "opened" /\ q[i].stream = s /\ q[i].serial = n
Live(q, vw, s, n) == vw[s].serial = n \/ Announced(q, s, n)

\* The phone has every open stream, or is about to.
Told(st, vw) == \A s \in OpenIn(st) : Live(st.queue, vw, s, st.streams[s].serial)

\* A frame of a stream finds the phone with this stream or with none.
Finds(q, vw) ==
    \A i \in 1..Len(q) : q[i].kind \in Body =>
        \/ \E j \in 1..Len(q) : /\ j < i /\ q[j].kind = "opened"
                                /\ q[j].stream = q[i].stream /\ q[j].serial = q[i].serial
        \/ /\ \A j \in 1..Len(q) : j < i => ~(q[j].kind = "opened" /\ q[j].stream = q[i].stream)
           /\ vw[q[i].stream].serial \in {0, q[i].serial}

\* The last frame of a stream is sent when it is gone.
Over(st) ==
    \A i \in 1..Len(st.queue) : st.queue[i].kind \in Reason =>
        \A s \in Stream : st.streams[s].serial # st.queue[i].serial

\* What streams, frames and the phone's view of them are to each other.
Shape(h, st, vw, last) ==
    /\ st \in StateType /\ vw \in [Stream -> ViewState] /\ last \in Serial
    /\ SerialsOK(st, vw) /\ NamesOK(st, vw, last)
    /\ st.sockets = Cardinality(OpenIn(st))
    /\ h => /\ Ordered(st.queue) /\ Single(st.queue, vw) /\ Finds(st.queue, vw)
            /\ Told(st, vw) /\ Over(st)
    /\ ~h => \A s \in Stream : vw[s] = NoView

\* Writes under way are those of streams that were opened, and inside their windows.
WritesOK(st, wr, last) ==
    /\ wr \in [Stream -> [Serial -> Nat]]
    /\ \A s \in Stream, n \in Serial : wr[s][n] > 0 => n \in 1..last
    /\ \A s \in OpenIn(st) : st.streams[s].recvWindow + wr[s][st.streams[s].serial] <= Window

\* The units that the frames of a kind carry for one stream.
UnitsOf(q, kind, n) == Units(q, kind, {n})

\* An open stream r with view v: the window down (what may be sent, is on its way or
\* is not given back), the window up, and where everything is that its service sent.
StreamOK(q, v, r, w, e, a) ==
    LET data == UnitsOf(q, "data", r.serial)
        credit == UnitsOf(q, "credit", r.serial)
    IN  /\ r.sendWindow + data + (IF v.serial = r.serial THEN v.unread ELSE 0) = Window
        /\ ~r.ended => r.recvWindow + w = Window
        /\ v.serial = r.serial => v.window + credit = r.recvWindow
        /\ v.serial # r.serial => r.recvWindow = Window /\ credit = 0 /\ w = 0
        /\ e = a + data + r.pending

\* All open streams are right.
StreamsOK(st, vw, wr, em, ar) ==
    \A s \in OpenIn(st) :
        StreamOK(st.queue, vw[s], st.streams[s], wr[s][st.streams[s].serial],
                 em[st.streams[s].serial], ar[st.streams[s].serial])

\* What a service sent before its end is at the phone or on its way.
EofOK(q, vw, em, ar) ==
    \A i \in 1..Len(q) :
        q[i].kind = "eof" /\ Live(q, vw, q[i].stream, q[i].serial) =>
            em[q[i].serial] = ar[q[i].serial] + UnitsOf(q, "data", q[i].serial)

\* What the windows and the counts are.
Flow(h, st, vw, wr, em, ar, last) ==
    /\ WritesOK(st, wr, last)
    /\ em \in [Serial -> Nat] /\ ar \in [Serial -> Nat]
    /\ h => /\ \A n \in Serial : n > last => em[n] = 0 /\ ar[n] = 0
            /\ StreamsOK(st, vw, wr, em, ar)
            /\ EofOK(st.queue, vw, em, ar)

\* What the tunnel, the phone and the frames between them are to each other.
Sound(h, st, vw, wr, em, ar, last) ==
    Shape(h, st, vw, last) /\ Flow(h, st, vw, wr, em, ar, last)

\* Connects under way; together with the streams they were asked for.
Attempts(cn) == {x \in Stream \X (1..MaxOpens) : x[2] <= cn[x[1]]}
\* They and the streams opened are not more than the requests.
Counted(cn, last, n) ==
    /\ cn \in [Stream -> Nat] /\ n \in 0..MaxOpens
    /\ \A s \in Stream : cn[s] <= n
    /\ last + Cardinality(Attempts(cn)) <= n

\* Every request is under way or answered by a frame, until the phone disconnects; a
\* phone that keeps to the protocol asks once, for an id it does not use.
Asked ==
    /\ asks \in [Stream -> Nat]
    /\ ~disposed => \A s \in Stream : asks[s] = connecting[s] + Answers(toPhone, s)
    /\ honest => \A s \in Stream : asks[s] <= 1 /\ (asks[s] = 1 => view[s] = NoView)

\* When the phone has disconnected nothing is left.
Ended ==
    disposed => /\ toPhone = <<>> /\ ~timer
                /\ \A s \in Stream : streams[s] = NoStream /\ view[s] = NoView /\ asks[s] = 0

\* The types of the rest.
Others ==
    /\ enabled \in BOOLEAN /\ disposed \in BOOLEAN /\ honest \in BOOLEAN
    /\ authorizing \subseteq Port /\ grants \subseteq Port /\ cancelled \subseteq Stream

\* The inductive invariant.
IInv ==
    /\ Sound(honest, Now, view, writes, emitted, arrived, born)
    /\ Counted(connecting, born, opens) /\ Asked /\ Ended /\ Others

-----------------------------------------------------------------------------
(* Lemmas about the shape.                                                 *)

\* Steps that change fields only.
LEMMA ShapeKept ==
    ASSUME NEW h, NEW st, NEW vw, NEW last, Shape(h, st, vw, last),
           NEW st2 \in StateType, NEW vw2 \in [Stream -> ViewState],
           st2.queue = st.queue, st2.sockets = st.sockets,
           \A t \in Stream : /\ st2.streams[t].serial = st.streams[t].serial
                             /\ st.streams[t] = NoStream => st2.streams[t] = NoStream
                             /\ vw2[t].serial = vw[t].serial
                             /\ vw[t] = NoView => vw2[t] = NoView
    PROVE  Shape(h, st2, vw2, last) /\ OpenIn(st2) = OpenIn(st)
<1> USE DEF Shape
<1>1. \A i \in 1..Len(st.queue) : st.queue[i].stream \in Stream
  <2>1. st.queue \in Seq(Frame)
    BY DEF StateType
  <2>2. \A i \in 1..Len(st.queue) : st.queue[i] \in Frame
    BY <2>1
  <2>3. QED
    BY <2>2 DEF Frame
<1>2. SerialsOK(st2, vw2)
  BY DEF SerialsOK
<1>3. OpenIn(st2) = OpenIn(st)
  <2>1. ASSUME NEW t \in Stream PROVE st2.streams[t] = NoStream <=> st.streams[t] = NoStream
    <3>1. st2.streams[t] = NoStream => st2.streams[t].serial = 0
      BY DEF NoStream
    <3>2. QED
      BY <3>1 DEF SerialsOK
  <2>2. QED
    BY <2>1 DEF OpenIn
<1>4. NamesOK(st2, vw2, last)
  <2>1. \A s \in Stream, n \in Serial : Named(st2, vw2, s, n) <=> Named(st, vw, s, n)
    BY DEF Named
  <2>2. QED
    BY <2>1 DEF NamesOK
<1>5. ASSUME h
      PROVE  /\ Ordered(st2.queue) /\ Single(st2.queue, vw2) /\ Finds(st2.queue, vw2)
             /\ Told(st2, vw2) /\ Over(st2)
  <2>1. Ordered(st2.queue) /\ Over(st2)
    BY <1>5 DEF Over
  <2>2. Single(st2.queue, vw2)
    <3>1. \A i \in 1..Len(st.queue) : st.queue[i].stream \in Stream
      BY <1>1
    <3>2. Single(st.queue, vw) /\ st2.queue = st.queue
      BY <1>5
    <3> HIDE DEF Shape
    <3>3. QED
      BY <3>1, <3>2 DEF Single
  <2>3. Finds(st2.queue, vw2)
    <3>1. \A i \in 1..Len(st.queue) :
              vw2[st.queue[i].stream].serial = vw[st.queue[i].stream].serial
      BY <1>1
    <3>2. Finds(st.queue, vw) /\ st2.queue = st.queue
      BY <1>5
    <3> HIDE DEF Shape
    <3>3. QED
      BY <3>1, <3>2 DEF Finds
  <2>4. Told(st2, vw2)
    BY <1>3, <1>5 DEF Told, Live, OpenIn
  <2>5. QED
    BY <2>1, <2>2, <2>3, <2>4
<1>6. QED
  BY <1>2, <1>3, <1>4, <1>5

\* A frame is on its way to the phone behind those that were.
LEMMA LiveAppend ==
    ASSUME NEW q \in Seq(Frame), NEW f \in Frame, NEW vw, NEW s, NEW n
    PROVE  Live(Append(q, f), vw, s, n) <=>
               Live(q, vw, s, n) \/ (f.kind = "opened" /\ f.stream = s /\ f.serial = n)
<1>1. /\ Len(Append(q, f)) = Len(q) + 1 /\ Len(q) \in Nat /\ Append(q, f)[Len(q) + 1] = f
      /\ \A i \in 1..Len(q) : Append(q, f)[i] = q[i]
  BY AppendFact
<1> DEFINE more == Append(q, f)
<1> HIDE DEF more
<1>2. \A i \in 1..(Len(q) + 1) : i \in 1..Len(q) \/ i = Len(q) + 1
  BY <1>1
<1>3. Len(q) + 1 \in 1..(Len(q) + 1) /\ 1..Len(q) \subseteq 1..(Len(q) + 1)
  BY <1>1
<1>4. QED
  BY <1>1, <1>2, <1>3 DEF Live, Announced

\* A frame of a stream, behind those under way.
LEMMA BodySends ==
    ASSUME NEW q \in Seq(Frame), NEW vw, NEW f \in Frame, f.kind \in Body, f.serial # 0,
           Ordered(q), Single(q, vw), Finds(q, vw), Live(q, vw, f.stream, f.serial),
           \A i \in 1..Len(q) : q[i].kind \in Reason => q[i].serial # f.serial
    PROVE  Ordered(Append(q, f)) /\ Single(Append(q, f), vw) /\ Finds(Append(q, f), vw)
<1> DEFINE more == Append(q, f)
           n == Len(q)
<1>1. /\ Len(more) = n + 1 /\ n \in Nat /\ more[n + 1] = f
      /\ \A i \in 1..n : more[i] = q[i]
  BY AppendFact
<1>2. \A i \in 1..(n + 1) : i \in 1..n \/ i = n + 1
  BY <1>1
<1>3. /\ n + 1 \in 1..(n + 1) /\ 1..n \subseteq 1..(n + 1)
      /\ \A i \in 1..n : i < n + 1 /\ ~(n + 1 < i) /\ i # n + 1
  BY <1>1
<1>4. f.kind # "opened"
  BY DEF Body, Reason
<1> HIDE DEF more, n
<1>5. Ordered(more)
  <2> SUFFICES ASSUME NEW i \in 1..(n + 1), NEW j \in 1..(n + 1), i # j,
                      more[i].serial = more[j].serial, more[i].serial # 0
               PROVE  /\ more[i].kind = "opened" => i < j
                      /\ more[i].kind \in Reason => j < i
    BY <1>1 DEF Ordered
  <2>1. CASE i \in 1..n /\ j \in 1..n
    BY <1>1, <2>1 DEF Ordered, n
  <2>2. CASE i = n + 1 /\ j \in 1..n
    BY <1>1, <1>3, <1>4, <2>2
  <2>3. CASE i \in 1..n /\ j = n + 1
    BY <1>1, <1>3, <2>3 DEF n
  <2>4. QED
    BY <1>2, <2>1, <2>2, <2>3
<1>6. Single(more, vw)
  <2> SUFFICES ASSUME NEW i \in 1..(n + 1), more[i].kind = "opened"
               PROVE  /\ vw[more[i].stream] = NoView
                      /\ \A j \in 1..(n + 1) : more[j].kind = "opened"
                            /\ more[j].stream = more[i].stream => i = j
    BY <1>1 DEF Single
  <2>1. i \in 1..n /\ q[i] = more[i]
    BY <1>1, <1>2, <1>4
  <2>2. \A j \in 1..(n + 1) : more[j].kind = "opened" => j \in 1..n /\ q[j] = more[j]
    BY <1>1, <1>2, <1>4
  <2>3. QED
    BY <2>1, <2>2 DEF Single, n
<1>7. Finds(more, vw)
  <2> SUFFICES ASSUME NEW i \in 1..(n + 1), more[i].kind \in Body
               PROVE  \/ \E j \in 1..(n + 1) :
                            /\ j < i /\ more[j].kind = "opened"
                            /\ more[j].stream = more[i].stream /\ more[j].serial = more[i].serial
                      \/ /\ \A j \in 1..(n + 1) :
                               j < i => ~(more[j].kind = "opened"
                                            /\ more[j].stream = more[i].stream)
                         /\ vw[more[i].stream].serial \in {0, more[i].serial}
    BY <1>1 DEF Finds
  <2>1. CASE i \in 1..n
    <3>1. CASE \E j \in 1..n : /\ j < i /\ q[j].kind = "opened"
                               /\ q[j].stream = q[i].stream /\ q[j].serial = q[i].serial
      BY <1>1, <1>3, <2>1, <3>1
    <3>2. CASE /\ \A j \in 1..n : j < i => ~(q[j].kind = "opened" /\ q[j].stream = q[i].stream)
               /\ vw[q[i].stream].serial \in {0, q[i].serial}
      <4>1. \A j \in 1..(n + 1) : j < i => j \in 1..n
        BY <1>2, <1>3, <2>1
      <4>2. QED
        BY <1>1, <2>1, <3>2, <4>1
    <3>3. QED
      BY <1>1, <2>1, <3>1, <3>2 DEF Finds, n
  <2>2. CASE i = n + 1
    <3>1. CASE Announced(q, f.stream, f.serial)
      BY <1>1, <1>3, <2>2, <3>1 DEF Announced, n
    <3>2. CASE vw[f.stream].serial = f.serial
      <4>1. \A j \in 1..n : ~(q[j].kind = "opened" /\ q[j].stream = f.stream)
        BY <3>2 DEF Single, NoView, n
      <4>2. QED
        BY <1>1, <1>2, <1>4, <2>2, <3>2, <4>1
    <3>3. QED
      BY <3>1, <3>2 DEF Live
  <2>3. QED
    BY <1>2, <2>1, <2>2
<1>8. QED
  BY <1>5, <1>6, <1>7 DEF more

\* What the frames of a queue are.
LEMMA QueueFact ==
    ASSUME NEW st \in StateType
    PROVE  /\ st.queue \in Seq(Frame) /\ Len(st.queue) \in Nat
           /\ \A i \in 1..Len(st.queue) :
                 /\ st.queue[i] \in Frame
                 /\ st.queue[i].stream \in Stream /\ st.queue[i].serial \in Serial
                 /\ st.queue[i].units \in Nat
                 /\ st.queue[i].kind \in {"opened", "data", "credit", "failed"} \cup Reason
<1>1. st.queue \in Seq(Frame)
  BY DEF StateType
<1>2. Len(st.queue) \in Nat /\ \A i \in 1..Len(st.queue) : st.queue[i] \in Frame
  BY <1>1
<1>3. QED
  BY <1>1, <1>2 DEF Frame

\* Names do not get wrong when there are fewer of them.
LEMMA NamesLess ==
    ASSUME NEW st, NEW st2, NEW vw, NEW vw2, NEW last, NamesOK(st, vw, last),
           \A s \in Stream, n \in Serial \ {0} : Named(st2, vw2, s, n) => Named(st, vw, s, n)
    PROVE  NamesOK(st2, vw2, last)
  BY DEF NamesOK

\* A frame of an open stream goes behind the others.
LEMMA ShapeSends ==
    ASSUME NEW h, NEW st, NEW vw, NEW last, Shape(h, st, vw, last),
           NEW f \in Frame, f.kind \in {"data", "credit"}, f.serial # 0,
           f.serial = st.streams[f.stream].serial,
           NEW st2 \in StateType, st2.streams = st.streams, st2.sockets = st.sockets,
           st2.queue = Append(st.queue, f)
    PROVE  Shape(h, st2, vw, last) /\ OpenIn(st2) = OpenIn(st)
<1> DEFINE q == st.queue
           more == st2.queue
<1>1. /\ st \in StateType /\ vw \in [Stream -> ViewState] /\ last \in Serial
      /\ SerialsOK(st, vw) /\ NamesOK(st, vw, last) /\ st.sockets = Cardinality(OpenIn(st))
      /\ ~h => \A s \in Stream : vw[s] = NoView
  BY DEF Shape
<1>2. q \in Seq(Frame)
  BY <1>1, QueueFact
<1>3. /\ Len(more) = Len(q) + 1 /\ Len(q) \in Nat /\ more[Len(q) + 1] = f
      /\ \A i \in 1..Len(q) : more[i] = q[i]
  BY <1>2, AppendFact
<1>4. \A i \in 1..(Len(q) + 1) : i \in 1..Len(q) \/ i = Len(q) + 1
  BY <1>3
<1>5. f.stream \in Stream /\ f.serial \in Serial /\ f.kind \in Body /\ f.kind # "failed"
      /\ f.kind \notin Reason
  BY DEF Frame, Body, Reason
<1>6. OpenIn(st2) = OpenIn(st)
  BY DEF OpenIn
<1>7. f.stream \in OpenIn(st)
  BY <1>5 DEF OpenIn, NoStream
<1> HIDE DEF q, more
<1>8. SerialsOK(st2, vw)
  <2>1. \A i \in 1..Len(more) : more[i].serial = 0 <=> more[i].kind = "failed"
    BY <1>1, <1>3, <1>4, <1>5 DEF SerialsOK, q
  <2>2. QED
    BY <1>1, <2>1 DEF SerialsOK, more
<1>9. NamesOK(st2, vw, last)
  <2>1. \A s \in Stream, n \in Serial \ {0} : Named(st2, vw, s, n) => Named(st, vw, s, n)
    BY <1>3, <1>4 DEF Named, q, more
  <2>2. QED
    BY <1>1, <2>1, NamesLess
<1>10. ASSUME h
       PROVE  /\ Ordered(more) /\ Single(more, vw) /\ Finds(more, vw)
              /\ Told(st2, vw) /\ Over(st2)
  <2>1. /\ Ordered(q) /\ Single(q, vw) /\ Finds(q, vw) /\ Told(st, vw) /\ Over(st)
    BY <1>10 DEF Shape, q
  <2>2. Live(q, vw, f.stream, f.serial)
    BY <1>7, <2>1 DEF Told, q
  <2>3. \A i \in 1..Len(q) : q[i].kind \in Reason => q[i].serial # f.serial
    BY <1>5, <2>1 DEF Over, q
  <2>4. Ordered(more) /\ Single(more, vw) /\ Finds(more, vw)
    BY <1>2, <1>5, <2>1, <2>2, <2>3, BodySends DEF q, more
  <2>5. Told(st2, vw)
    BY <1>2, <1>6, <2>1, LiveAppend DEF Told, q
  <2>6. Over(st2)
    BY <1>3, <1>4, <1>5, <2>1 DEF Over, q, more
  <2>7. QED
    BY <2>1, <2>4, <2>5, <2>6
<1>11. QED
  BY <1>1, <1>6, <1>8, <1>9, <1>10 DEF Shape, more

\* Without one of the open streams there is one less of them.
LEMMA OpenLess ==
    ASSUME NEW st \in StateType, NEW st2 \in StateType, NEW s \in OpenIn(st),
           st2.streams = [st.streams EXCEPT ![s] = NoStream],
           st.sockets = Cardinality(OpenIn(st)), st2.sockets = st.sockets - 1
    PROVE  OpenIn(st2) = OpenIn(st) \ {s} /\ st2.sockets = Cardinality(OpenIn(st2))
<1>1. OpenIn(st2) = OpenIn(st) \ {s}
  BY DEF OpenIn, StateType
<1>2. IsFiniteSet(OpenIn(st))
  BY LimitAssumption, FS_Subset DEF OpenIn
<1>3. QED
  BY <1>1, <1>2, FS_RemoveElement

\* A stream is closed; the phone is told so, or not.
LEMMA ShapeCloses ==
    ASSUME NEW h, NEW st, NEW vw, NEW last, Shape(h, st, vw, last), NEW s \in OpenIn(st),
           NEW why \in Reason,
           NEW st2 \in StateType, st2.streams = [st.streams EXCEPT ![s] = NoStream],
           st2.sockets = st.sockets - 1,
           st2.queue \in {st.queue, Append(st.queue, Closed(s, st.streams[s].serial, why))}
    PROVE  Shape(h, st2, vw, last) /\ OpenIn(st2) = OpenIn(st) \ {s}
<1> DEFINE q == st.queue
           n == st.streams[s].serial
           f == Closed(s, n, why)
           more == st2.queue
<1>1. /\ st \in StateType /\ vw \in [Stream -> ViewState] /\ last \in Serial
      /\ SerialsOK(st, vw) /\ NamesOK(st, vw, last) /\ st.sockets = Cardinality(OpenIn(st))
      /\ ~h => \A t \in Stream : vw[t] = NoView
  BY DEF Shape
<1>2. q \in Seq(Frame) /\ s \in Stream
  BY <1>1, QueueFact DEF OpenIn
<1>3. n \in Serial \ {0}
  BY <1>1, <1>2 DEF SerialsOK, OpenIn, StateType, StreamState
<1>4. f \in Frame /\ f.stream = s /\ f.serial = n /\ f.kind = why /\ why \in Body
      /\ why \notin {"opened", "failed"}
  BY <1>2, <1>3 DEF Closed, Frame, Body, Reason
<1>5. OpenIn(st2) = OpenIn(st) \ {s} /\ st2.sockets = Cardinality(OpenIn(st2))
  BY <1>1, OpenLess
<1>6. /\ st2.streams[s] = NoStream /\ st2.streams[s].serial = 0
      /\ \A t \in Stream : t # s => st2.streams[t] = st.streams[t]
  BY <1>1, <1>2 DEF StateType, NoStream
<1>7. \/ more = q
      \/ /\ more = Append(q, f)
         /\ Len(more) = Len(q) + 1 /\ Len(q) \in Nat /\ more[Len(q) + 1] = f
         /\ \A i \in 1..Len(q) : more[i] = q[i]
         /\ \A i \in 1..Len(more) : i \in 1..Len(q) \/ i = Len(q) + 1
  BY <1>2, <1>4, AppendFact
<1> HIDE DEF q, n, f, more
<1>8. SerialsOK(st2, vw)
  <2>1. \A i \in 1..Len(more) : more[i].serial = 0 <=> more[i].kind = "failed"
    BY <1>1, <1>3, <1>4, <1>7 DEF SerialsOK, q
  <2>2. QED
    BY <1>1, <1>6, <2>1 DEF SerialsOK, more
<1>9. NamesOK(st2, vw, last)
  <2>1. \A t \in Stream, m \in Serial \ {0} : Named(st2, vw, t, m) => Named(st, vw, t, m)
    BY <1>3, <1>4, <1>6, <1>7 DEF Named, q, more, n
  <2>2. QED
    BY <1>1, <2>1, NamesLess
<1>10. ASSUME h
       PROVE  /\ Ordered(more) /\ Single(more, vw) /\ Finds(more, vw)
              /\ Told(st2, vw) /\ Over(st2)
  <2>1. /\ Ordered(q) /\ Single(q, vw) /\ Finds(q, vw) /\ Told(st, vw) /\ Over(st)
    BY <1>10 DEF Shape, q
  <2>2. Live(q, vw, s, n)
    BY <2>1 DEF Told, q, n
  <2>3. \A i \in 1..Len(q) : q[i].kind \in Reason => q[i].serial # n
    BY <1>2, <2>1 DEF Over, q, n
  <2>4. Ordered(more) /\ Single(more, vw) /\ Finds(more, vw)
    <3>1. f.kind \in Body /\ f.serial # 0 /\ Live(q, vw, f.stream, f.serial)
          /\ \A i \in 1..Len(q) : q[i].kind \in Reason => q[i].serial # f.serial
      BY <1>3, <1>4, <2>2, <2>3
    <3>2. Ordered(Append(q, f)) /\ Single(Append(q, f), vw) /\ Finds(Append(q, f), vw)
      BY <1>2, <1>4, <2>1, <3>1, BodySends
    <3>3. QED
      BY <1>7, <2>1, <3>2
  <2>5. Told(st2, vw)
    <3> SUFFICES ASSUME NEW t \in OpenIn(st2) PROVE Live(more, vw, t, st2.streams[t].serial)
      BY DEF Told, more
    <3>1. t \in OpenIn(st) /\ st2.streams[t] = st.streams[t]
      BY <1>5, <1>6 DEF OpenIn
    <3>2. Live(q, vw, t, st.streams[t].serial)
      BY <2>1, <3>1 DEF Told, q
    <3>3. Live(Append(q, f), vw, t, st.streams[t].serial)
      BY <1>2, <1>4, <3>2, LiveAppend
    <3>4. QED
      BY <1>7, <3>1, <3>2, <3>3
  <2>6. Over(st2)
    <3> SUFFICES ASSUME NEW i \in 1..Len(more), more[i].kind \in Reason, NEW t \in Stream
                 PROVE  st2.streams[t].serial # more[i].serial
      BY DEF Over, more
    <3>1. CASE i \in 1..Len(q) /\ more[i] = q[i]
      <4>1. \A u \in Stream : st.streams[u].serial # q[i].serial
        BY <2>1, <3>1 DEF Over, q
      <4>2. more[i].serial # 0
        BY <1>8 DEF SerialsOK, more, Reason
      <4>3. QED
        BY <1>6, <3>1, <4>1, <4>2
    <3>2. CASE more[i] = f
      <4>1. t # s => st.streams[t].serial # n
        BY <1>1, <1>2, <1>3 DEF NamesOK, Named, n
      <4>2. QED
        BY <1>3, <1>4, <1>6, <3>2, <4>1
    <3>3. QED
      BY <1>7, <3>1, <3>2
  <2>7. QED
    BY <2>1, <2>4, <2>5, <2>6
<1>11. QED
  BY <1>1, <1>5, <1>8, <1>9, <1>10 DEF Shape, more

\* The phone gives up its view of a stream that is not open.
LEMMA ShapeViewGone ==
    ASSUME NEW h, NEW st, NEW vw, NEW last, Shape(h, st, vw, last),
           NEW s \in Stream, s \notin OpenIn(st), NEW vw2, vw2 = [vw EXCEPT ![s] = NoView]
    PROVE  Shape(h, st, vw2, last)
<1>1. /\ st \in StateType /\ vw \in [Stream -> ViewState] /\ last \in Serial
      /\ SerialsOK(st, vw) /\ NamesOK(st, vw, last) /\ st.sockets = Cardinality(OpenIn(st))
      /\ ~h => \A t \in Stream : vw[t] = NoView
  BY DEF Shape
<1>2. NoView \in ViewState
  BY LimitAssumption DEF NoView, ViewState, Serial
<1>3. /\ vw2 \in [Stream -> ViewState] /\ vw2[s] = NoView /\ vw2[s].serial = 0
      /\ \A t \in Stream : t # s => vw2[t] = vw[t]
  BY <1>1, <1>2 DEF NoView
<1>4. SerialsOK(st, vw2)
  BY <1>1, <1>3 DEF SerialsOK
<1>5. NamesOK(st, vw2, last)
  <2>1. \A t \in Stream, n \in Serial \ {0} : Named(st, vw2, t, n) => Named(st, vw, t, n)
    BY <1>3 DEF Named
  <2>2. QED
    BY <1>1, <2>1, NamesLess
<1>6. ASSUME h
      PROVE  /\ Ordered(st.queue) /\ Single(st.queue, vw2) /\ Finds(st.queue, vw2)
             /\ Told(st, vw2) /\ Over(st)
  <2>1. /\ Ordered(st.queue) /\ Single(st.queue, vw) /\ Finds(st.queue, vw)
        /\ Told(st, vw) /\ Over(st)
    BY <1>6 DEF Shape
  <2>2. \A i \in 1..Len(st.queue) : st.queue[i].stream \in Stream
    BY <1>1, QueueFact
  <2>3. Single(st.queue, vw2)
    BY <1>3, <2>1, <2>2 DEF Single
  <2>4. Finds(st.queue, vw2)
    <3>1. \A i \in 1..Len(st.queue) :
             vw2[st.queue[i].stream].serial \in {0, vw[st.queue[i].stream].serial}
      BY <1>3, <2>2
    <3>2. QED
      BY <2>1, <3>1 DEF Finds
  <2>5. Told(st, vw2)
    BY <1>3, <2>1 DEF Told, Live, OpenIn
  <2>6. QED
    BY <2>1, <2>3, <2>4, <2>5
<1>7. QED
  BY <1>1, <1>3, <1>4, <1>5, <1>6 DEF Shape

\* An answer that refuses goes behind the others.
LEMMA ShapeFails ==
    ASSUME NEW h, NEW st, NEW vw, NEW last, Shape(h, st, vw, last), NEW s \in Stream,
           NEW st2 \in StateType, st2.streams = st.streams, st2.sockets = st.sockets,
           st2.queue = Append(st.queue, Failed(s))
    PROVE  Shape(h, st2, vw, last) /\ OpenIn(st2) = OpenIn(st)
<1> DEFINE q == st.queue
           n == Len(q)
           more == st2.queue
           f == Failed(s)
<1>1. /\ st \in StateType /\ vw \in [Stream -> ViewState] /\ last \in Serial
      /\ SerialsOK(st, vw) /\ NamesOK(st, vw, last) /\ st.sockets = Cardinality(OpenIn(st))
      /\ ~h => \A t \in Stream : vw[t] = NoView
  BY DEF Shape
<1>2. f \in Frame /\ f.serial = 0 /\ f.kind = "failed" /\ f.kind \notin Body
  BY LimitAssumption DEF Failed, Frame, Serial, Body, Reason
<1>3. q \in Seq(Frame)
  BY <1>1, QueueFact
<1>4. /\ Len(more) = n + 1 /\ n \in Nat /\ more[n + 1] = f
      /\ \A i \in 1..n : more[i] = q[i]
  BY <1>2, <1>3, AppendFact
<1>5. \A i \in 1..(n + 1) : i \in 1..n \/ i = n + 1
  BY <1>4
<1>6. 1..n \subseteq 1..(n + 1) /\ n + 1 \in 1..(n + 1) /\ \A i \in 1..n : ~(n + 1 < i)
  BY <1>4
<1>7. OpenIn(st2) = OpenIn(st)
  BY DEF OpenIn
<1> HIDE DEF q, n, more, f
<1>8. SerialsOK(st2, vw)
  <2>1. \A i \in 1..Len(more) : more[i].serial = 0 <=> more[i].kind = "failed"
    BY <1>1, <1>2, <1>4, <1>5 DEF SerialsOK, q, n
  <2>2. QED
    BY <1>1, <2>1 DEF SerialsOK, more
<1>9. NamesOK(st2, vw, last)
  <2>1. \A t \in Stream, m \in Serial \ {0} : Named(st2, vw, t, m) => Named(st, vw, t, m)
    BY <1>2, <1>4, <1>5 DEF Named, q, more, n
  <2>2. QED
    BY <1>1, <2>1, NamesLess
<1>10. ASSUME h
       PROVE  /\ Ordered(more) /\ Single(more, vw) /\ Finds(more, vw)
              /\ Told(st2, vw) /\ Over(st2)
  <2>1. /\ Ordered(q) /\ Single(q, vw) /\ Finds(q, vw) /\ Told(st, vw) /\ Over(st)
    BY <1>10 DEF Shape, q
  <2>2. Ordered(more)
    BY <1>2, <1>4, <1>5, <2>1 DEF Ordered, n
  <2>3. Single(more, vw)
    <3>1. \A i \in 1..(n + 1) : more[i].kind = "opened" => i \in 1..n /\ more[i] = q[i]
      BY <1>2, <1>4, <1>5
    <3>2. QED
      BY <1>4, <2>1, <3>1 DEF Single, n
  <2>4. Finds(more, vw)
    <3>1. \A i \in 1..(n + 1) : more[i].kind \in Body => i \in 1..n /\ more[i] = q[i]
      BY <1>2, <1>4, <1>5
    <3>2. \A i \in 1..n, j \in 1..(n + 1) : j < i => j \in 1..n /\ more[j] = q[j]
      BY <1>4, <1>5, <1>6
    <3>3. \A i \in 1..n : i \in 1..(n + 1) /\ more[i] = q[i]
      BY <1>4, <1>6
    <3>4. Len(q) = n /\ Len(more) = n + 1
      BY <1>4 DEF n
    <3>5. QED
      BY <2>1, <3>1, <3>2, <3>3, <3>4 DEF Finds
  <2>5. Told(st2, vw)
    BY <1>2, <1>3, <1>7, <2>1, LiveAppend DEF Told, q, f
  <2>6. Over(st2)
    BY <1>2, <1>4, <1>5, <2>1 DEF Over, q, more, n, Reason
  <2>7. QED
    BY <2>2, <2>3, <2>4, <2>5, <2>6
<1>11. QED
  BY <1>1, <1>7, <1>8, <1>9, <1>10 DEF Shape, more

\* A stream opens for an id that the phone has none of, and is answered so.
LEMMA ShapeOpens ==
    ASSUME NEW h, NEW st, NEW vw, NEW last, Shape(h, st, vw, last), NEW s \in Stream,
           st.streams[s] = NoStream, last + 1 \in Serial,
           h => /\ vw[s] = NoView
                /\ \A i \in 1..Len(st.queue) :
                      ~(st.queue[i].kind = "opened" /\ st.queue[i].stream = s),
           NEW st2 \in StateType,
           st2.streams = [st.streams EXCEPT ![s] = NewStream(last + 1)],
           st2.sockets = st.sockets + 1,
           st2.queue = Append(st.queue, Opened(s, last + 1))
    PROVE  Shape(h, st2, vw, last + 1) /\ OpenIn(st2) = OpenIn(st) \cup {s}
<1> DEFINE q == st.queue
           n == Len(q)
           m == last + 1
           more == st2.queue
           f == Opened(s, m)
<1>1. /\ st \in StateType /\ vw \in [Stream -> ViewState] /\ last \in Serial
      /\ SerialsOK(st, vw) /\ NamesOK(st, vw, last) /\ st.sockets = Cardinality(OpenIn(st))
      /\ ~h => \A t \in Stream : vw[t] = NoView
  BY DEF Shape
<1>2. /\ last \in Nat /\ m \in Serial \ {0} /\ m > last
      /\ \A k \in Serial : k <= last => k <= m /\ k # m
  BY <1>1, LimitAssumption DEF Serial
<1>3. f \in Frame /\ f.serial = m /\ f.kind = "opened" /\ f.stream = s
      /\ f.kind \notin Body /\ f.kind # "failed" /\ f.kind \notin Reason
  BY <1>2 DEF Opened, Frame, Body, Reason
<1>4. q \in Seq(Frame)
  BY <1>1, QueueFact
<1>5. /\ Len(more) = n + 1 /\ n \in Nat /\ more[n + 1] = f
      /\ \A i \in 1..n : more[i] = q[i]
  BY <1>3, <1>4, AppendFact
<1>6. \A i \in 1..(n + 1) : i \in 1..n \/ i = n + 1
  BY <1>5
<1>7. 1..n \subseteq 1..(n + 1) /\ n + 1 \in 1..(n + 1) /\ \A i \in 1..n : ~(n + 1 < i)
  BY <1>5
<1>8. /\ st2.streams[s] = NewStream(m) /\ st2.streams[s].serial = m
      /\ \A t \in Stream : t # s => st2.streams[t] = st.streams[t]
  BY <1>1 DEF StateType, NewStream, NoStream
<1>9. NewStream(m) # NoStream
  BY <1>2 DEF NewStream, NoStream
<1>10. OpenIn(st2) = OpenIn(st) \cup {s}
  BY <1>8, <1>9 DEF OpenIn
<1>11. st2.sockets = Cardinality(OpenIn(st2))
  <2>1. IsFiniteSet(OpenIn(st)) /\ s \notin OpenIn(st)
    BY LimitAssumption, FS_Subset DEF OpenIn
  <2>2. QED
    BY <1>1, <1>10, <2>1, FS_AddElement
<1>12. \A t \in Stream, k \in Serial \ {0} : Named(st, vw, t, k) => k <= last
  BY <1>1 DEF NamesOK
<1>13. \A t \in Stream : ~Named(st, vw, t, m)
  BY <1>2, <1>12
<1>14. \A i \in 1..n : q[i].serial # m
  BY <1>1, <1>13, QueueFact DEF Named, q, n
<1> HIDE DEF q, n, m, more, f
<1>15. SerialsOK(st2, vw)
  <2>1. \A i \in 1..Len(more) : more[i].serial = 0 <=> more[i].kind = "failed"
    <3>1. \A i \in 1..n : q[i].serial = 0 <=> q[i].kind = "failed"
      BY <1>1 DEF SerialsOK, q, n
    <3>2. f.serial # 0 /\ f.kind # "failed"
      BY <1>2, <1>3
    <3>3. QED
      BY <1>5, <1>6, <3>1, <3>2
  <2>2. \A t \in Stream : st2.streams[t].serial = 0 => st2.streams[t] = NoStream
    BY <1>1, <1>2, <1>8 DEF SerialsOK
  <2>3. QED
    BY <1>1, <2>1, <2>2 DEF SerialsOK, more
<1>16. NamesOK(st2, vw, m)
  <2>1. \A t \in Stream, k \in Serial \ {0} :
           Named(st2, vw, t, k) => Named(st, vw, t, k) \/ (t = s /\ k = m)
    BY <1>2, <1>3, <1>5, <1>6, <1>8 DEF Named, q, more, n
  <2>2. SUFFICES ASSUME NEW t \in Stream, NEW k \in Serial \ {0}, Named(st2, vw, t, k)
                 PROVE  k <= m /\ \A u \in Stream : Named(st2, vw, u, k) => u = t
    BY DEF NamesOK
  <2>3. CASE k = m
    <3>1. m <= m
      BY <1>2 DEF Serial
    <3>2. QED
      BY <1>13, <2>1, <2>2, <2>3, <3>1
  <2>4. CASE k # m
    <3>1. Named(st, vw, t, k)
      BY <2>1, <2>2, <2>4
    <3>2. k <= last /\ \A u \in Stream : Named(st, vw, u, k) => u = t
      BY <1>1, <3>1 DEF NamesOK
    <3>3. QED
      BY <1>2, <2>1, <2>4, <3>2
  <2>5. QED
    BY <2>3, <2>4
<1>17. ASSUME h
       PROVE  /\ Ordered(more) /\ Single(more, vw) /\ Finds(more, vw)
              /\ Told(st2, vw) /\ Over(st2)
  <2>1. /\ Ordered(q) /\ Single(q, vw) /\ Finds(q, vw) /\ Told(st, vw) /\ Over(st)
    BY <1>17 DEF Shape, q
  <2>2. vw[s] = NoView /\ \A i \in 1..n : ~(q[i].kind = "opened" /\ q[i].stream = s)
    BY <1>17 DEF q, n
  <2>3. Ordered(more)
    <3>1. ASSUME NEW i \in 1..(n + 1), NEW j \in 1..(n + 1), i # j,
                 more[i].serial = more[j].serial
          PROVE  i \in 1..n /\ j \in 1..n
      BY <1>3, <1>5, <1>6, <1>14, <3>1
    <3>2. QED
      BY <1>5, <2>1, <3>1 DEF Ordered, n
  <2>4. Single(more, vw)
    <3> SUFFICES ASSUME NEW i \in 1..(n + 1), more[i].kind = "opened"
                 PROVE  /\ vw[more[i].stream] = NoView
                        /\ \A j \in 1..(n + 1) : more[j].kind = "opened"
                              /\ more[j].stream = more[i].stream => i = j
      BY <1>5 DEF Single
    <3>1. CASE i \in 1..n
      BY <1>3, <1>5, <1>6, <2>1, <2>2, <3>1 DEF Single, n
    <3>2. CASE i = n + 1
      BY <1>3, <1>5, <1>6, <2>2, <3>2
    <3>3. QED
      BY <1>6, <3>1, <3>2
  <2>5. Finds(more, vw)
    <3>1. \A i \in 1..(n + 1) : more[i].kind \in Body => i \in 1..n /\ more[i] = q[i]
      BY <1>3, <1>5, <1>6
    <3>2. \A i \in 1..n, j \in 1..(n + 1) : j < i => j \in 1..n /\ more[j] = q[j]
      BY <1>5, <1>6, <1>7
    <3>3. \A i \in 1..n : i \in 1..(n + 1) /\ more[i] = q[i]
      BY <1>5, <1>7
    <3>4. Len(q) = n /\ Len(more) = n + 1
      BY <1>5 DEF n
    <3>5. QED
      BY <2>1, <3>1, <3>2, <3>3, <3>4 DEF Finds
  <2>6. Told(st2, vw)
    <3> SUFFICES ASSUME NEW t \in OpenIn(st2) PROVE Live(more, vw, t, st2.streams[t].serial)
      BY DEF Told, more
    <3>1. CASE t = s
      <4>1. Announced(more, s, m)
        BY <1>3, <1>5, <1>7 DEF Announced
      <4>2. QED
        BY <1>8, <3>1, <4>1 DEF Live
    <3>2. CASE t # s
      <4>1. t \in OpenIn(st) /\ t \in Stream /\ st2.streams[t] = st.streams[t]
        BY <1>8, <1>10, <3>2 DEF OpenIn
      <4>2. Live(q, vw, t, st.streams[t].serial)
        BY <2>1, <4>1 DEF Told, q
      <4>3. more = Append(q, f)
        BY DEF more, q, f, m
      <4>4. QED
        BY <1>3, <1>4, <4>1, <4>2, <4>3, LiveAppend
    <3>3. QED
      BY <3>1, <3>2
  <2>7. Over(st2)
    <3>1. ASSUME NEW i \in 1..(n + 1), more[i].kind \in Reason, NEW t \in Stream
          PROVE  st2.streams[t].serial # more[i].serial
      <4>1. i \in 1..n /\ more[i] = q[i]
        BY <1>3, <1>5, <1>6, <3>1
      <4>2. st.streams[t].serial # q[i].serial
        BY <2>1, <3>1, <4>1 DEF Over, q, n
      <4>3. QED
        BY <1>8, <1>14, <4>1, <4>2
    <3>2. QED
      BY <1>5, <3>1 DEF Over, more
  <2>8. QED
    BY <2>3, <2>4, <2>5, <2>6, <2>7
<1>18. QED
  BY <1>1, <1>2, <1>10, <1>11, <1>15, <1>16, <1>17 DEF Shape, more, m

\* The phone takes the next frame.
LEMMA ShapeReceives ==
    ASSUME NEW h, NEW st, NEW vw, NEW last, Shape(h, st, vw, last), st.queue # <<>>,
           NEW st2 \in StateType, st2.streams = st.streams, st2.sockets = st.sockets,
           st2.queue = Tail(st.queue),
           NEW f \in Frame, f = Head(st.queue), NEW v2 \in ViewState,
           ~h => v2 = NoView,
           h /\ f.kind = "opened" => v2.serial = f.serial,
           h /\ f.kind \in Reason => v2 = NoView,
           h /\ f.kind \notin {"opened"} \cup Reason =>
               /\ v2.serial = vw[f.stream].serial
               /\ vw[f.stream] = NoView => v2 = NoView,
           NEW vw2 \in [Stream -> ViewState], vw2[f.stream] = v2,
           \A t \in Stream : t # f.stream => vw2[t] = vw[t]
    PROVE  Shape(h, st2, vw2, last) /\ OpenIn(st2) = OpenIn(st)
<1> DEFINE q == st.queue
           rest == st2.queue
           n == Len(rest)
<1>1. /\ st \in StateType /\ vw \in [Stream -> ViewState] /\ last \in Serial
      /\ SerialsOK(st, vw) /\ NamesOK(st, vw, last) /\ st.sockets = Cardinality(OpenIn(st))
      /\ ~h => \A t \in Stream : vw[t] = NoView
  BY DEF Shape
<1>2. q \in Seq(Frame) /\ f \in Frame /\ \A i \in 1..Len(q) : q[i].stream \in Stream
  BY <1>1, QueueFact, TailFact
<1>3. /\ n \in Nat /\ Len(q) = n + 1 /\ q[1] = f
      /\ \A i \in 1..n : rest[i] = q[i + 1]
  BY <1>2, TailFact
<1>4. \A i \in 1..(n + 1) : i = 1 \/ (i - 1 \in 1..n /\ rest[i - 1] = q[i])
  <2>1. \A i \in 1..(n + 1) : i = 1 \/ (i - 1 \in 1..n /\ (i - 1) + 1 = i)
    BY <1>3
  <2>2. QED
    BY <1>3, <2>1
<1>5. 1 \in 1..(n + 1) /\ \A i \in 1..n : i + 1 \in 1..(n + 1) /\ i + 1 # 1 /\ 1 < i + 1
  BY <1>3
<1>6. /\ vw2 \in [Stream -> ViewState] /\ vw2[f.stream] = v2 /\ f.stream \in Stream
      /\ \A t \in Stream : t # f.stream => vw2[t] = vw[t]
  BY <1>1, <1>2 DEF Frame
<1>7. OpenIn(st2) = OpenIn(st)
  BY DEF OpenIn
<1>8. /\ NoView.serial = 0
      /\ f.kind = "opened" => f.kind \notin Body /\ f.kind \notin Reason /\ f.kind # "failed"
      /\ f.kind \in Reason => f.kind \in Body
  BY DEF NoView, Body, Reason
<1> HIDE DEF q, n, rest
<1>9. f.serial = 0 <=> f.kind = "failed"
  BY <1>1, <1>3, <1>5 DEF SerialsOK, q
<1>10. /\ \A t \in Stream : vw2[t].serial = 0 => vw2[t] = NoView
       /\ \A t \in Stream, k \in Serial \ {0} : vw2[t].serial = k =>
             vw[t].serial = k \/ (t = f.stream /\ k = f.serial)
  <2>1. \A t \in Stream : vw[t].serial = 0 => vw[t] = NoView
    BY <1>1 DEF SerialsOK
  <2>2. ASSUME NEW t \in Stream
        PROVE  /\ vw2[t].serial = 0 => vw2[t] = NoView
               /\ \A k \in Serial \ {0} : vw2[t].serial = k =>
                     vw[t].serial = k \/ (t = f.stream /\ k = f.serial)
    <3>1. CASE t # f.stream
      BY <1>6, <2>1, <3>1
    <3>2. CASE t = f.stream
      BY <1>6, <1>8, <1>9, <2>1, <3>2
    <3>3. QED
      BY <3>1, <3>2
  <2>3. QED
    BY <2>2
<1>11. SerialsOK(st2, vw2)
  <2>1. \A i \in 1..n : rest[i].serial = 0 <=> rest[i].kind = "failed"
    BY <1>1, <1>3, <1>5 DEF SerialsOK, q
  <2>2. QED
    BY <1>1, <1>10, <2>1 DEF SerialsOK, rest, n
<1>12. NamesOK(st2, vw2, last)
  <2>1. \A t \in Stream, k \in Serial \ {0} : Named(st2, vw2, t, k) => Named(st, vw, t, k)
    BY <1>3, <1>5, <1>10 DEF Named, q, rest, n
  <2>2. QED
    BY <1>1, <2>1, NamesLess
<1>13. ASSUME h
       PROVE  /\ Ordered(rest) /\ Single(rest, vw2) /\ Finds(rest, vw2)
              /\ Told(st2, vw2) /\ Over(st2)
  <2>1. /\ Ordered(q) /\ Single(q, vw) /\ Finds(q, vw) /\ Told(st, vw) /\ Over(st)
    BY <1>13 DEF Shape, q
  <2>2. \A i \in 1..n, j \in 1..n : (i < j <=> i + 1 < j + 1) /\ (i # j <=> i + 1 # j + 1)
    BY <1>3
  <2>3. Ordered(rest)
    <3>1. \A i, j \in 1..(n + 1) :
             q[i].serial = q[j].serial /\ q[i].serial # 0 /\ i # j =>
                 /\ q[i].kind = "opened" => i < j
                 /\ q[i].kind \in Reason => j < i
      BY <1>3, <2>1 DEF Ordered
    <3>2. QED
      BY <1>3, <1>5, <2>2, <3>1 DEF Ordered, n
  <2>4. \A i \in 1..(n + 1) : q[i].kind = "opened" =>
          /\ vw[q[i].stream] = NoView
          /\ \A j \in 1..(n + 1) : q[j].kind = "opened" /\ q[j].stream = q[i].stream => i = j
    BY <1>3, <2>1 DEF Single
  <2>5. Single(rest, vw2)
    <3> SUFFICES ASSUME NEW i \in 1..n, rest[i].kind = "opened"
                 PROVE  /\ vw2[rest[i].stream] = NoView
                        /\ \A j \in 1..n : rest[j].kind = "opened"
                              /\ rest[j].stream = rest[i].stream => i = j
      BY DEF Single, n
    <3>1. /\ i + 1 \in 1..(n + 1) /\ q[i + 1] = rest[i] /\ vw[rest[i].stream] = NoView
          /\ rest[i].stream \in Stream
      BY <1>2, <1>3, <1>5, <2>4
    <3>2. \A j \in 1..n : rest[j].kind = "opened" /\ rest[j].stream = rest[i].stream => i = j
      BY <1>3, <1>5, <2>2, <2>4, <3>1
    <3>3. f.stream = rest[i].stream => f.kind # "opened"
      BY <1>3, <1>5, <2>4, <3>1
    <3>4. vw2[rest[i].stream] = NoView
      BY <1>6, <1>13, <3>1, <3>3
    <3>5. QED
      BY <3>2, <3>4
  <2>6. Finds(rest, vw2)
    <3> SUFFICES ASSUME NEW i \in 1..n, rest[i].kind \in Body
                 PROVE  \/ \E j \in 1..n :
                              /\ j < i /\ rest[j].kind = "opened"
                              /\ rest[j].stream = rest[i].stream /\ rest[j].serial = rest[i].serial
                        \/ /\ \A j \in 1..n : j < i =>
                                 ~(rest[j].kind = "opened" /\ rest[j].stream = rest[i].stream)
                           /\ vw2[rest[i].stream].serial \in {0, rest[i].serial}
      BY DEF Finds, n
    <3>1. i + 1 \in 1..(n + 1) /\ q[i + 1] = rest[i] /\ rest[i].stream \in Stream
      BY <1>2, <1>3, <1>5
    <3>2. \/ \E j \in 1..(n + 1) : /\ j < i + 1 /\ q[j].kind = "opened"
                                   /\ q[j].stream = rest[i].stream
                                   /\ q[j].serial = rest[i].serial
          \/ /\ \A j \in 1..(n + 1) : j < i + 1 =>
                   ~(q[j].kind = "opened" /\ q[j].stream = rest[i].stream)
             /\ vw[rest[i].stream].serial \in {0, rest[i].serial}
      BY <1>3, <2>1, <3>1 DEF Finds
    <3>3. CASE f.kind = "opened" /\ f.stream = rest[i].stream /\ f.serial = rest[i].serial
      <4>1. \A j \in 1..n : ~(rest[j].kind = "opened" /\ rest[j].stream = rest[i].stream)
        BY <1>3, <1>5, <2>4, <3>3
      <4>2. QED
        BY <1>6, <1>13, <3>3, <4>1
    <3>4. CASE \E j \in 1..(n + 1) : /\ j < i + 1 /\ q[j].kind = "opened" /\ j # 1
                                     /\ q[j].stream = rest[i].stream
                                     /\ q[j].serial = rest[i].serial
      <4>1. PICK j \in 1..(n + 1) : /\ j < i + 1 /\ q[j].kind = "opened" /\ j # 1
                                    /\ q[j].stream = rest[i].stream
                                    /\ q[j].serial = rest[i].serial
        BY <3>4
      <4>2. j - 1 \in 1..n /\ rest[j - 1] = q[j] /\ j - 1 < i
        BY <1>3, <1>4, <4>1
      <4>3. QED
        BY <4>1, <4>2
    <3>5. CASE /\ \A j \in 1..(n + 1) : j < i + 1 =>
                     ~(q[j].kind = "opened" /\ q[j].stream = rest[i].stream)
               /\ vw[rest[i].stream].serial \in {0, rest[i].serial}
      <4>1. \A j \in 1..n : j < i =>
               ~(rest[j].kind = "opened" /\ rest[j].stream = rest[i].stream)
        BY <1>3, <1>5, <2>2, <3>5
      <4>2. ~(f.kind = "opened" /\ f.stream = rest[i].stream)
        BY <1>3, <1>5, <3>5
      <4>3. vw2[rest[i].stream].serial \in {0, rest[i].serial}
        BY <1>6, <1>8, <1>13, <3>1, <3>5, <4>2
      <4>4. QED
        BY <4>1, <4>3
    <3>6. QED
      BY <1>3, <3>2, <3>3, <3>4, <3>5
  <2>7. Told(st2, vw2)
    <3> SUFFICES ASSUME NEW t \in OpenIn(st2) PROVE Live(rest, vw2, t, st2.streams[t].serial)
      BY DEF Told, rest
    <3> DEFINE k == st.streams[t].serial
    <3>1. t \in OpenIn(st) /\ t \in Stream /\ Live(q, vw, t, k) /\ k # 0
      BY <1>1, <1>7, <2>1 DEF Told, OpenIn, q, SerialsOK
    <3> HIDE DEF k
    <3>2. CASE \E i \in 1..(n + 1) :
                   i # 1 /\ q[i].kind = "opened" /\ q[i].stream = t /\ q[i].serial = k
      BY <1>4, <3>2 DEF Live, Announced, n, k
    <3>3. CASE f.kind = "opened" /\ f.stream = t /\ f.serial = k
      BY <1>6, <1>13, <3>3 DEF Live, k
    <3>4. CASE vw[t].serial = k
      <4>1. CASE t # f.stream
        BY <1>6, <3>1, <3>4, <4>1 DEF Live, k
      <4>2. CASE t = f.stream
        <5>1. f.kind # "opened"
          BY <1>3, <1>5, <1>8, <2>4, <3>1, <3>4, <4>2
        <5>2. f.kind \notin Reason
          <6> SUFFICES ASSUME f.kind \in Reason PROVE FALSE
            OBVIOUS
          <6>1. \A j \in 1..(n + 1) : ~(j < 1)
            BY <1>3
          <6>2. vw[t].serial \in {0, f.serial}
            BY <1>3, <1>5, <1>8, <2>1, <4>2, <6>1 DEF Finds
          <6>3. st.streams[t].serial # f.serial
            BY <1>3, <1>5, <2>1, <3>1 DEF Over, q
          <6>4. QED
            BY <3>1, <3>4, <6>2, <6>3 DEF k
        <5>3. vw2[t].serial = k
          BY <1>6, <1>13, <3>4, <4>2, <5>1, <5>2
        <5>4. QED
          BY <5>3 DEF Live, k
      <4>3. QED
        BY <4>1, <4>2
    <3>5. QED
      BY <1>3, <3>1, <3>2, <3>3, <3>4 DEF Live, Announced
  <2>8. Over(st2)
    <3>1. \A i \in 1..(n + 1) : q[i].kind \in Reason =>
             \A s \in Stream : st.streams[s].serial # q[i].serial
      BY <1>3, <2>1 DEF Over, q
    <3>2. QED
      BY <1>3, <1>5, <3>1 DEF Over, n, rest
  <2>9. QED
    BY <2>3, <2>5, <2>6, <2>7, <2>8
<1>14. QED
  BY <1>1, <1>6, <1>7, <1>11, <1>12, <1>13 DEF Shape, rest

-----------------------------------------------------------------------------
(* Lemmas about the windows and the counts: one per kind of step.          *)

\* Open streams have serials of their own.
LEMMA SerialsApart ==
    ASSUME NEW h, NEW st, NEW vw, NEW last, Shape(h, st, vw, last), NEW s \in OpenIn(st)
    PROVE  /\ s \in Stream /\ st.streams[s] \in StreamState
           /\ st.streams[s].serial \in Serial \ {0} /\ st.streams[s].serial <= last
           /\ \A t \in Stream : Named(st, vw, t, st.streams[s].serial) => t = s
           /\ \A t \in Stream : t # s => st.streams[t].serial # st.streams[s].serial
<1>1. st \in StateType /\ SerialsOK(st, vw) /\ NamesOK(st, vw, last)
  BY DEF Shape
<1>2. s \in Stream /\ st.streams[s] # NoStream /\ st.streams[s] \in StreamState
  BY <1>1 DEF OpenIn, StateType
<1>3. st.streams[s].serial \in Serial \ {0}
  BY <1>1, <1>2 DEF SerialsOK, StreamState
<1>4. Named(st, vw, s, st.streams[s].serial)
  BY DEF Named
<1>5. /\ st.streams[s].serial <= last
      /\ \A t \in Stream : Named(st, vw, t, st.streams[s].serial) => t = s
  BY <1>1, <1>2, <1>3, <1>4 DEF NamesOK
<1>6. \A t \in Stream : st.streams[t].serial = st.streams[s].serial
         => Named(st, vw, t, st.streams[s].serial)
  BY DEF Named
<1>7. QED
  BY <1>2, <1>3, <1>5, <1>6

\* The units of one stream in a queue with one more frame.
LEMMA UnitsMore ==
    ASSUME NEW q \in Seq(Frame), NEW f \in Frame, NEW kind, NEW n
    PROVE  /\ f.kind # kind \/ f.serial # n =>
                 UnitsOf(Append(q, f), kind, n) = UnitsOf(q, kind, n)
           /\ f.kind = kind /\ f.serial = n =>
                 UnitsOf(Append(q, f), kind, n) = UnitsOf(q, kind, n) + f.units
           /\ UnitsOf(q, kind, n) \in Nat /\ f.units \in Nat
<1>1. UnitsOf(Append(q, f), kind, n) = UnitsOf(q, kind, n) + Worth(f, kind, {n})
  BY UnitsAppend DEF UnitsOf
<1>2. UnitsOf(q, kind, n) \in Nat /\ f.units \in Nat
  BY UnitsNat DEF Frame, UnitsOf
<1>3. /\ f.kind # kind \/ f.serial # n => Worth(f, kind, {n}) = 0
      /\ f.kind = kind /\ f.serial = n => Worth(f, kind, {n}) = f.units
  BY DEF Worth
<1>4. QED
  BY <1>1, <1>2, <1>3

\* The units of one stream in a queue without its first frame.
LEMMA UnitsRest ==
    ASSUME NEW q \in Seq(Frame), q # <<>>, NEW f, f = Head(q), NEW kind, NEW n
    PROVE  /\ f.kind # kind \/ f.serial # n =>
                 UnitsOf(Tail(q), kind, n) = UnitsOf(q, kind, n)
           /\ f.kind = kind /\ f.serial = n =>
                 UnitsOf(q, kind, n) = UnitsOf(Tail(q), kind, n) + f.units
           /\ UnitsOf(q, kind, n) \in Nat /\ UnitsOf(Tail(q), kind, n) \in Nat /\ f.units \in Nat
<1>1. UnitsOf(q, kind, n) = Worth(f, kind, {n}) + UnitsOf(Tail(q), kind, n)
  BY UnitsTail DEF UnitsOf
<1>2. Tail(q) \in Seq(Frame) /\ f \in Frame
  BY TailFact
<1>3. UnitsOf(q, kind, n) \in Nat /\ UnitsOf(Tail(q), kind, n) \in Nat /\ f.units \in Nat
  BY <1>2, UnitsNat DEF Frame, UnitsOf
<1>4. /\ f.kind # kind \/ f.serial # n => Worth(f, kind, {n}) = 0
      /\ f.kind = kind /\ f.serial = n => Worth(f, kind, {n}) = f.units
  BY DEF Worth
<1>5. QED
  BY <1>1, <1>3, <1>4

\* Nothing changes but the timer.
LEMMA SoundSame ==
    ASSUME NEW h, NEW st, NEW vw, NEW wr, NEW em, NEW ar, NEW last,
           Sound(h, st, vw, wr, em, ar, last),
           NEW st2 \in StateType, st2.streams = st.streams, st2.queue = st.queue,
           st2.sockets = st.sockets
    PROVE  Sound(h, st2, vw, wr, em, ar, last) /\ OpenIn(st2) = OpenIn(st)
<1>1. Shape(h, st, vw, last) /\ Flow(h, st, vw, wr, em, ar, last) /\ vw \in [Stream -> ViewState]
  BY DEF Sound, Shape
<1>2. Shape(h, st2, vw, last) /\ OpenIn(st2) = OpenIn(st)
  BY <1>1, ShapeKept
<1>3. Flow(h, st2, vw, wr, em, ar, last)
  BY <1>1, <1>2 DEF Flow, WritesOK, StreamsOK, EofOK
<1>4. QED
  BY <1>2, <1>3 DEF Sound

\* Fields of id s change, and no frame is sent.
Changes(h, st, vw, wr, em, ar, s, st2, vw2, wr2, em2) ==
    LET n == st.streams[s].serial
    IN  /\ st2 \in StateType /\ st2.queue = st.queue /\ st2.sockets = st.sockets
        /\ st2.streams[s].serial = n
        /\ st.streams[s] = NoStream => st2.streams[s] = NoStream
        /\ \A t \in Stream : t # s => st2.streams[t] = st.streams[t]
        /\ vw2 \in [Stream -> ViewState] /\ vw2[s].serial = vw[s].serial
        /\ vw[s] = NoView => vw2[s] = NoView
        /\ \A t \in Stream : t # s => vw2[t] = vw[t]
        /\ wr2 \in [Stream -> [Serial -> Nat]]
        /\ \A t \in Stream, m \in Serial : t # s \/ m # n => wr2[t][m] = wr[t][m]
        /\ em2 \in [Serial -> Nat] /\ \A m \in Serial : m # n => em2[m] = em[m]
        /\ s \notin OpenIn(st) => wr2 = wr /\ em2 = em
        /\ s \in OpenIn(st) => st2.streams[s].recvWindow + wr2[s][n] <= Window
        /\ h /\ s \in OpenIn(st) =>
              StreamOK(st.queue, vw2[s], st2.streams[s], wr2[s][n], em2[n], ar[n])

\* Such a change keeps everything right.
LEMMA SoundChange ==
    ASSUME NEW h, NEW st, NEW vw, NEW wr, NEW em, NEW ar, NEW last,
           Sound(h, st, vw, wr, em, ar, last), NEW s \in Stream,
           NEW st2, NEW vw2, NEW wr2, NEW em2,
           Changes(h, st, vw, wr, em, ar, s, st2, vw2, wr2, em2)
    PROVE  Sound(h, st2, vw2, wr2, em2, ar, last) /\ OpenIn(st2) = OpenIn(st)
<1> DEFINE n == st.streams[s].serial
<1>0. /\ st2 \in StateType /\ st2.queue = st.queue /\ st2.sockets = st.sockets
      /\ n = st.streams[s].serial /\ st2.streams[s].serial = n
      /\ st.streams[s] = NoStream => st2.streams[s] = NoStream
      /\ \A t \in Stream : t # s => st2.streams[t] = st.streams[t]
      /\ vw2 \in [Stream -> ViewState] /\ vw2[s].serial = vw[s].serial
      /\ vw[s] = NoView => vw2[s] = NoView
      /\ \A t \in Stream : t # s => vw2[t] = vw[t]
      /\ wr2 \in [Stream -> [Serial -> Nat]]
      /\ \A t \in Stream, m \in Serial : t # s \/ m # n => wr2[t][m] = wr[t][m]
      /\ em2 \in [Serial -> Nat] /\ \A m \in Serial : m # n => em2[m] = em[m]
      /\ s \notin OpenIn(st) => wr2 = wr /\ em2 = em
      /\ s \in OpenIn(st) => st2.streams[s].recvWindow + wr2[s][n] <= Window
      /\ h /\ s \in OpenIn(st) =>
            StreamOK(st.queue, vw2[s], st2.streams[s], wr2[s][n], em2[n], ar[n])
  BY DEF Changes
<1> USE <1>0
<1> HIDE DEF n
<1>1. /\ Shape(h, st, vw, last) /\ Flow(h, st, vw, wr, em, ar, last)
      /\ st \in StateType /\ last \in Serial
  BY DEF Sound, Shape
<1>2. Shape(h, st2, vw2, last) /\ OpenIn(st2) = OpenIn(st)
  <2>1. \A t \in Stream : /\ st2.streams[t].serial = st.streams[t].serial
                          /\ st.streams[t] = NoStream => st2.streams[t] = NoStream
                          /\ vw2[t].serial = vw[t].serial
                          /\ vw[t] = NoView => vw2[t] = NoView
    OBVIOUS
  <2>2. QED
    BY <1>1, <2>1, ShapeKept
<1>3. \A t \in OpenIn(st) : t # s => /\ st2.streams[t] = st.streams[t] /\ vw2[t] = vw[t]
                                     /\ st.streams[t].serial \in Serial
                                     /\ (s \in OpenIn(st) => st.streams[t].serial # n)
  BY <1>1, SerialsApart
<1>4. s \in OpenIn(st) => n \in 1..last
  <2> SUFFICES ASSUME s \in OpenIn(st) PROVE n \in 1..last
    OBVIOUS
  <2>1. n \in Serial \ {0} /\ n <= last
    BY <1>1, SerialsApart
  <2>2. QED
    BY <1>1, <2>1, LimitAssumption DEF Serial
<1>5. WritesOK(st2, wr2, last)
  <2>1. WritesOK(st, wr, last)
    BY <1>1 DEF Flow
  <2>2. \A t \in Stream, m \in Serial : wr2[t][m] > 0 => m \in 1..last
    <3> SUFFICES ASSUME NEW t \in Stream, NEW m \in Serial, wr2[t][m] > 0 PROVE m \in 1..last
      OBVIOUS
    <3>1. CASE wr2[t][m] = wr[t][m]
      BY <2>1, <3>1 DEF WritesOK
    <3>2. CASE wr2[t][m] # wr[t][m]
      BY <1>4, <3>2
    <3>3. QED
      BY <3>1, <3>2
  <2>3. \A t \in OpenIn(st) :
           st2.streams[t].recvWindow + wr2[t][st2.streams[t].serial] <= Window
    <3> SUFFICES ASSUME NEW t \in OpenIn(st)
                 PROVE  st2.streams[t].recvWindow + wr2[t][st2.streams[t].serial] <= Window
      OBVIOUS
    <3>1. CASE t = s
      BY <3>1
    <3>2. CASE t # s
      <4>1. st2.streams[t] = st.streams[t] /\ st.streams[t].serial \in Serial /\ t \in Stream
        BY <1>3, <3>2 DEF OpenIn
      <4>2. wr2[t][st.streams[t].serial] = wr[t][st.streams[t].serial]
        BY <3>2, <4>1
      <4>3. QED
        BY <2>1, <4>1, <4>2 DEF WritesOK
    <3>3. QED
      BY <3>1, <3>2
  <2>4. QED
    BY <1>2, <2>2, <2>3 DEF WritesOK
<1>6. ASSUME h
      PROVE  /\ \A m \in Serial : m > last => em2[m] = 0 /\ ar[m] = 0
             /\ StreamsOK(st2, vw2, wr2, em2, ar)
             /\ EofOK(st2.queue, vw2, em2, ar)
  <2>1. /\ \A m \in Serial : m > last => em[m] = 0 /\ ar[m] = 0
        /\ StreamsOK(st, vw, wr, em, ar) /\ EofOK(st.queue, vw, em, ar)
    BY <1>1, <1>6 DEF Flow
  <2>2. \A m \in Serial : m > last => em2[m] = 0 /\ ar[m] = 0
    <3> SUFFICES ASSUME NEW m \in Serial, m > last PROVE em2[m] = em[m]
      BY <2>1
    <3>1. s \in OpenIn(st) => m # n
      BY <1>1, <1>4, LimitAssumption DEF Serial
    <3>2. QED
      BY <3>1
  <2>3. StreamsOK(st2, vw2, wr2, em2, ar)
    <3> SUFFICES ASSUME NEW t \in OpenIn(st)
                 PROVE  StreamOK(st2.queue, vw2[t], st2.streams[t],
                                 wr2[t][st2.streams[t].serial], em2[st2.streams[t].serial],
                                 ar[st2.streams[t].serial])
      BY <1>2 DEF StreamsOK
    <3>1. CASE t = s
      BY <1>6, <3>1
    <3>2. CASE t # s
      <4>1. /\ st2.streams[t] = st.streams[t] /\ vw2[t] = vw[t] /\ t \in Stream
            /\ st.streams[t].serial \in Serial
            /\ (s \in OpenIn(st) => st.streams[t].serial # n)
        BY <1>3, <3>2 DEF OpenIn
      <4>2. /\ wr2[t][st.streams[t].serial] = wr[t][st.streams[t].serial]
            /\ em2[st.streams[t].serial] = em[st.streams[t].serial]
        BY <3>2, <4>1
      <4>3. StreamOK(st.queue, vw[t], st.streams[t], wr[t][st.streams[t].serial],
                     em[st.streams[t].serial], ar[st.streams[t].serial])
        BY <2>1 DEF StreamsOK
      <4>4. QED
        BY <4>1, <4>2, <4>3
    <3>3. QED
      BY <3>1, <3>2
  <2>4. EofOK(st2.queue, vw2, em2, ar)
    <3> SUFFICES ASSUME NEW i \in 1..Len(st.queue), st.queue[i].kind = "eof",
                        Live(st.queue, vw2, st.queue[i].stream, st.queue[i].serial)
                 PROVE  em2[st.queue[i].serial] = ar[st.queue[i].serial]
                            + UnitsOf(st.queue, "data", st.queue[i].serial)
      BY DEF EofOK
    <3>1. st.queue[i].stream \in Stream /\ st.queue[i].serial \in Serial
      BY <1>1, QueueFact
    <3>2. Live(st.queue, vw, st.queue[i].stream, st.queue[i].serial)
      BY <3>1 DEF Live
    <3>3. em[st.queue[i].serial] = ar[st.queue[i].serial]
              + UnitsOf(st.queue, "data", st.queue[i].serial)
      BY <2>1, <3>2 DEF EofOK
    <3>4. em2[st.queue[i].serial] = em[st.queue[i].serial]
      <4>1. CASE s \in OpenIn(st)
        <5>1. st.queue[i].serial # n
          BY <1>1, <1>6 DEF Shape, Over, Reason
        <5>2. QED
          BY <3>1, <5>1
      <4>2. CASE s \notin OpenIn(st)
        BY <4>2
      <4>3. QED
        BY <4>1, <4>2
    <3>5. QED
      BY <3>3, <3>4
  <2>5. QED
    BY <2>2, <2>3, <2>4
<1>7. ar \in [Serial -> Nat]
  BY <1>1 DEF Flow
<1>8. QED
  BY <1>2, <1>5, <1>6, <1>7 DEF Sound, Flow

\* Data of an open stream is sent, or not.
LEMMA SoundMoves ==
    ASSUME NEW h, NEW st, NEW vw, NEW wr, NEW em, NEW ar, NEW last,
           Sound(h, st, vw, wr, em, ar, last), NEW s \in OpenIn(st),
           NEW r, r = st.streams[s], NEW k \in Nat, k <= r.pending, k <= r.sendWindow,
           NEW st2 \in StateType, st2.sockets = st.sockets,
           st2.queue = IF k = 0 THEN st.queue ELSE Append(st.queue, Data(s, r.serial, k)),
           st2.streams[s] # NoStream,
           st2.streams[s].serial = r.serial, st2.streams[s].sendWindow = r.sendWindow - k,
           st2.streams[s].recvWindow = r.recvWindow, st2.streams[s].pending = r.pending - k,
           st2.streams[s].ended = r.ended,
           \A t \in Stream : t # s => st2.streams[t] = st.streams[t]
    PROVE  Sound(h, st2, vw, wr, em, ar, last) /\ OpenIn(st2) = OpenIn(st)
<1> DEFINE q == st.queue
           n == r.serial
           f == Data(s, n, k)
           mid == [st EXCEPT !.queue = st2.queue]
<1>1. /\ Shape(h, st, vw, last) /\ Flow(h, st, vw, wr, em, ar, last)
      /\ st \in StateType /\ vw \in [Stream -> ViewState]
  BY DEF Sound, Shape
<1>2. /\ s \in Stream /\ r \in StreamState /\ n \in Serial \ {0}
      /\ \A t \in Stream : t # s => st.streams[t].serial # n
  BY <1>1, SerialsApart
<1>3. f \in Frame /\ f.kind = "data" /\ f.stream = s /\ f.serial = n /\ f.units = k
  BY <1>2 DEF Data, Frame
<1>4. q \in Seq(Frame) /\ mid \in StateType
  BY <1>1, QueueFact DEF StateType
<1>5. /\ mid.streams = st.streams /\ mid.sockets = st.sockets /\ mid.queue = st2.queue
      /\ mid.timer = st.timer
  BY <1>1 DEF StateType
<1> HIDE DEF q, n, f, mid
<1>6. Shape(h, mid, vw, last) /\ OpenIn(mid) = OpenIn(st)
  <2>1. CASE k = 0
    <3>1. mid.queue = st.queue
      BY <1>5, <2>1
    <3>2. \A t \in Stream : /\ mid.streams[t].serial = st.streams[t].serial
                            /\ st.streams[t] = NoStream => mid.streams[t] = NoStream
                            /\ vw[t].serial = vw[t].serial
                            /\ vw[t] = NoView => vw[t] = NoView
      BY <1>5
    <3>3. QED
      BY <1>1, <1>4, <1>5, <3>1, <3>2, ShapeKept
  <2>2. CASE k # 0
    <3>1. /\ mid.queue = Append(st.queue, f) /\ f.kind \in {"data", "credit"}
          /\ f.serial # 0 /\ f.serial = st.streams[f.stream].serial
      BY <1>2, <1>3, <1>5, <2>2 DEF f, n
    <3>2. QED
      BY <1>1, <1>3, <1>4, <1>5, <3>1, ShapeSends
  <2>3. QED
    BY <2>1, <2>2
<1>7. Shape(h, st2, vw, last) /\ OpenIn(st2) = OpenIn(st)
  <2>1. \A t \in Stream : /\ st2.streams[t].serial = mid.streams[t].serial
                          /\ mid.streams[t] = NoStream => st2.streams[t] = NoStream
                          /\ vw[t].serial = vw[t].serial
                          /\ vw[t] = NoView => vw[t] = NoView
    BY <1>5 DEF OpenIn
  <2>2. QED
    BY <1>1, <1>4, <1>5, <1>6, <2>1, ShapeKept
<1>8. WritesOK(st2, wr, last)
  <2>1. WritesOK(st, wr, last)
    BY <1>1 DEF Flow
  <2>2. \A t \in OpenIn(st) : /\ st2.streams[t].recvWindow = st.streams[t].recvWindow
                              /\ st2.streams[t].serial = st.streams[t].serial
    BY DEF OpenIn
  <2>3. QED
    BY <1>7, <2>1, <2>2 DEF WritesOK
<1>9. /\ \A m : UnitsOf(st2.queue, "credit", m) = UnitsOf(q, "credit", m)
      /\ \A m : m # n => UnitsOf(st2.queue, "data", m) = UnitsOf(q, "data", m)
      /\ UnitsOf(st2.queue, "data", n) = UnitsOf(q, "data", n) + k
      /\ UnitsOf(q, "data", n) \in Nat
  <2>1. CASE k = 0
    <3>1. st2.queue = q /\ UnitsOf(q, "data", n) \in Nat
      BY <1>4, <2>1, UnitsMore, <1>3 DEF q
    <3>2. QED
      BY <2>1, <3>1
  <2>2. CASE k # 0
    <3>1. st2.queue = Append(q, f)
      BY <2>2 DEF q, f, n
    <3>2. ASSUME NEW m
          PROVE  UnitsOf(Append(q, f), "credit", m) = UnitsOf(q, "credit", m)
      <4>1. f.kind # "credit" \/ f.serial # m
        BY <1>3
      <4>2. QED
        BY <1>3, <1>4, <4>1, UnitsMore
    <3>3. ASSUME NEW m, m # n
          PROVE  UnitsOf(Append(q, f), "data", m) = UnitsOf(q, "data", m)
      <4>1. f.kind # "data" \/ f.serial # m
        BY <1>3, <3>3
      <4>2. QED
        BY <1>3, <1>4, <4>1, UnitsMore
    <3>4. /\ UnitsOf(Append(q, f), "data", n) = UnitsOf(q, "data", n) + f.units
          /\ UnitsOf(q, "data", n) \in Nat
      <4>1. f.kind = "data" /\ f.serial = n
        BY <1>3
      <4>2. QED
        BY <1>3, <1>4, <4>1, UnitsMore
    <3>5. QED
      BY <1>3, <3>1, <3>2, <3>3, <3>4
  <2>3. QED
    BY <2>1, <2>2
<1>10. ASSUME h PROVE StreamsOK(st2, vw, wr, em, ar) /\ EofOK(st2.queue, vw, em, ar)
  <2>1. StreamsOK(st, vw, wr, em, ar) /\ EofOK(q, vw, em, ar)
    BY <1>1, <1>10 DEF Flow, q
  <2>2. ASSUME NEW t \in OpenIn(st)
        PROVE  StreamOK(st2.queue, vw[t], st2.streams[t], wr[t][st2.streams[t].serial],
                        em[st2.streams[t].serial], ar[st2.streams[t].serial])
    <3>1. StreamOK(q, vw[t], st.streams[t], wr[t][st.streams[t].serial],
                   em[st.streams[t].serial], ar[st.streams[t].serial])
      BY <2>1 DEF StreamsOK, q
    <3>2. CASE t # s
      <4>1. st2.streams[t] = st.streams[t] /\ st.streams[t].serial # n
        BY <1>2, <3>2 DEF OpenIn
      <4>2. /\ UnitsOf(st2.queue, "data", st.streams[t].serial)
                   = UnitsOf(q, "data", st.streams[t].serial)
            /\ UnitsOf(st2.queue, "credit", st.streams[t].serial)
                   = UnitsOf(q, "credit", st.streams[t].serial)
        BY <1>9, <4>1
      <4>3. QED
        BY <3>1, <4>1, <4>2 DEF StreamOK
    <3>3. CASE t = s
      <4>1. UnitsOf(st2.queue, "credit", n) = UnitsOf(q, "credit", n)
        BY <1>9
      <4>2. /\ vw[s].unread \in Nat /\ r.sendWindow \in Nat /\ r.pending \in Nat
            /\ ar[n] \in Nat /\ em[n] \in Nat /\ Window \in Nat
        BY <1>1, <1>2, WindowAssumption DEF StreamState, ViewState, Flow
      <4>3. /\ r.sendWindow + UnitsOf(q, "data", n)
                   + (IF vw[s].serial = n THEN vw[s].unread ELSE 0) = Window
            /\ ~r.ended => r.recvWindow + wr[s][n] = Window
            /\ vw[s].serial = n => vw[s].window + UnitsOf(q, "credit", n) = r.recvWindow
            /\ vw[s].serial # n => r.recvWindow = Window /\ UnitsOf(q, "credit", n) = 0
                                   /\ wr[s][n] = 0
            /\ em[n] = ar[n] + UnitsOf(q, "data", n) + r.pending
        BY <3>1, <3>3 DEF StreamOK, n
      <4>4. /\ (r.sendWindow - k) + (UnitsOf(q, "data", n) + k)
                   + (IF vw[s].serial = n THEN vw[s].unread ELSE 0) = Window
            /\ em[n] = ar[n] + (UnitsOf(q, "data", n) + k) + (r.pending - k)
        BY <1>9, <4>2, <4>3
      <4>5. QED
        BY <1>9, <3>3, <4>1, <4>3, <4>4 DEF StreamOK, n
    <3>4. QED
      BY <3>2, <3>3
  <2>3. ASSUME NEW i \in 1..Len(st2.queue), st2.queue[i].kind = "eof",
               Live(st2.queue, vw, st2.queue[i].stream, st2.queue[i].serial)
        PROVE  em[st2.queue[i].serial] = ar[st2.queue[i].serial]
                   + UnitsOf(st2.queue, "data", st2.queue[i].serial)
    <3>1. i \in 1..Len(q) /\ st2.queue[i] = q[i]
      BY <1>3, <1>4, <2>3, AppendFact DEF q, f, n
    <3>2. Live(q, vw, q[i].stream, q[i].serial)
      BY <1>3, <1>4, <2>3, <3>1, LiveAppend DEF q, f, n
    <3>3. q[i].serial # n
      BY <1>1, <1>2, <1>10, <2>3, <3>1 DEF Shape, Over, q, n, Reason
    <3>4. em[q[i].serial] = ar[q[i].serial] + UnitsOf(q, "data", q[i].serial)
      BY <2>1, <2>3, <3>1, <3>2 DEF EofOK
    <3>5. QED
      BY <1>9, <3>1, <3>3, <3>4
  <2>4. QED
    BY <1>7, <2>2, <2>3 DEF StreamsOK, EofOK
<1>11. QED
  BY <1>1, <1>7, <1>8, <1>10 DEF Sound, Flow

\* A stream is closed; the phone is told so, or not: of its end when nothing is pending.
LEMMA SoundCloses ==
    ASSUME NEW h, NEW st, NEW vw, NEW wr, NEW em, NEW ar, NEW last,
           Sound(h, st, vw, wr, em, ar, last), NEW s \in OpenIn(st),
           NEW why \in Reason, NEW notify \in BOOLEAN,
           why = "eof" /\ notify => st.streams[s].pending = 0
    PROVE  /\ Sound(h, CloseStream(st, s, why, notify), vw, wr, em, ar, last)
           /\ OpenIn(CloseStream(st, s, why, notify)) = OpenIn(st) \ {s}
           /\ CloseStream(st, s, why, notify).streams = [st.streams EXCEPT ![s] = NoStream]
<1> DEFINE q == st.queue
           r == st.streams[s]
           n == r.serial
           f == Closed(s, n, why)
           st2 == CloseStream(st, s, why, notify)
<1>1. /\ Shape(h, st, vw, last) /\ Flow(h, st, vw, wr, em, ar, last)
      /\ st \in StateType /\ vw \in [Stream -> ViewState]
  BY DEF Sound, Shape
<1>2. /\ s \in Stream /\ r \in StreamState /\ n \in Serial \ {0}
      /\ \A t \in Stream : t # s => st.streams[t].serial # n
  BY <1>1, SerialsApart
<1>3. f \in Frame /\ f.kind = why /\ f.stream = s /\ f.serial = n /\ why \notin {"data", "credit"}
      /\ why # "opened"
  BY <1>2 DEF Closed, Frame, Reason
<1>4. q \in Seq(Frame) /\ NoStream \in StreamState
  BY <1>1, QueueFact, WindowAssumption, LimitAssumption DEF NoStream, StreamState, Serial
<1>5. /\ st2 \in StateType
      /\ st2.streams = [st.streams EXCEPT ![s] = NoStream] /\ st2.sockets = st.sockets - 1
      /\ st2.queue = IF notify THEN Append(q, f) ELSE q
  <2> DEFINE gone == [st EXCEPT !.streams[s] = NoStream, !.sockets = @ - 1]
  <2> DEFINE left == [st.streams EXCEPT ![s] = NoStream]
  <2>0. /\ st.streams \in [Stream -> StreamState] /\ left \in [Stream -> StreamState]
        /\ st.sockets \in Int
    BY <1>1, <1>2, <1>4 DEF StateType
  <2>1. /\ gone \in StateType /\ gone.queue = q
        /\ gone.streams = left /\ gone.sockets = st.sockets - 1
    <3>1. gone = [st EXCEPT !.streams = left, !.sockets = st.sockets - 1]
      BY <1>1 DEF StateType
    <3> HIDE DEF gone, left
    <3>2. gone = [streams |-> left, queue |-> st.queue, timer |-> st.timer,
                  sockets |-> st.sockets - 1]
      BY <1>1, <3>1 DEF StateType
    <3>3. st.queue \in Seq(Frame) /\ st.timer \in BOOLEAN /\ st.sockets - 1 \in Int
      BY <1>1 DEF StateType
    <3>4. gone \in StateType
      BY <2>0, <3>2, <3>3 DEF StateType
    <3>5. QED
      BY <3>2, <3>4 DEF q
  <2>2. st2 = IF notify THEN [gone EXCEPT !.queue = Append(@, f)] ELSE gone
    BY DEF CloseStream, Send
  <2>3. Append(q, f) \in Seq(Frame)
    BY <1>3, <1>4, AppendFact
  <2> HIDE DEF gone, st2, f, q
  <2>4. QED
    BY <2>1, <2>2, <2>3 DEF StateType
<1> HIDE DEF q, r, n, f, st2
<1>6. Shape(h, st2, vw, last) /\ OpenIn(st2) = OpenIn(st) \ {s}
  <2>1. st2.queue \in {st.queue, Append(st.queue, Closed(s, st.streams[s].serial, why))}
    BY <1>5 DEF q, f, n, r
  <2>2. /\ st2 \in StateType /\ st2.streams = [st.streams EXCEPT ![s] = NoStream]
        /\ st2.sockets = st.sockets - 1
    BY <1>5
  <2>3. QED
    BY <1>1, <2>1, <2>2, ShapeCloses
<1>7. \A t \in OpenIn(st2) : /\ t \in OpenIn(st) /\ t # s
                             /\ st2.streams[t] = st.streams[t] /\ st.streams[t].serial # n
  BY <1>1, <1>2, <1>5, <1>6 DEF OpenIn, StateType
<1>8. WritesOK(st2, wr, last)
  BY <1>1, <1>7 DEF Flow, WritesOK
<1>9. \A m : /\ UnitsOf(st2.queue, "data", m) = UnitsOf(q, "data", m)
             /\ UnitsOf(st2.queue, "credit", m) = UnitsOf(q, "credit", m)
  <2>1. ASSUME NEW m
        PROVE  /\ UnitsOf(Append(q, f), "data", m) = UnitsOf(q, "data", m)
               /\ UnitsOf(Append(q, f), "credit", m) = UnitsOf(q, "credit", m)
    <3>1. f.kind # "data" /\ f.kind # "credit"
      BY <1>3
    <3>2. QED
      BY <1>3, <1>4, <3>1, UnitsMore
  <2>2. QED
    BY <1>5, <2>1
<1>10. ASSUME h PROVE StreamsOK(st2, vw, wr, em, ar) /\ EofOK(st2.queue, vw, em, ar)
  <2>1. StreamsOK(st, vw, wr, em, ar) /\ EofOK(q, vw, em, ar)
    BY <1>1, <1>10 DEF Flow, q
  <2>2. ASSUME NEW t \in OpenIn(st2)
        PROVE  StreamOK(st2.queue, vw[t], st2.streams[t], wr[t][st2.streams[t].serial],
                        em[st2.streams[t].serial], ar[st2.streams[t].serial])
    <3>1. StreamOK(q, vw[t], st2.streams[t], wr[t][st2.streams[t].serial],
                   em[st2.streams[t].serial], ar[st2.streams[t].serial])
      BY <1>7, <2>1 DEF StreamsOK, q
    <3>2. QED
      BY <1>9, <3>1 DEF StreamOK
  <2>3. ASSUME NEW i \in 1..Len(st2.queue), st2.queue[i].kind = "eof",
               Live(st2.queue, vw, st2.queue[i].stream, st2.queue[i].serial)
        PROVE  em[st2.queue[i].serial] = ar[st2.queue[i].serial]
                   + UnitsOf(st2.queue, "data", st2.queue[i].serial)
    <3>1. CASE i \in 1..Len(q) /\ st2.queue[i] = q[i]
      <4>1. Live(q, vw, q[i].stream, q[i].serial)
        BY <1>3, <1>4, <1>5, <2>3, <3>1, LiveAppend
      <4>2. em[q[i].serial] = ar[q[i].serial] + UnitsOf(q, "data", q[i].serial)
        BY <2>1, <2>3, <3>1, <4>1 DEF EofOK
      <4>3. QED
        BY <1>9, <3>1, <4>2
    <3>2. CASE notify /\ st2.queue[i] = f
      <4>1. StreamOK(q, vw[s], r, wr[s][n], em[n], ar[n])
        BY <2>1 DEF StreamsOK, q, r, n
      <4>2. r.pending = 0 /\ em[n] \in Nat /\ ar[n] \in Nat /\ UnitsOf(q, "data", n) \in Nat
        BY <1>1, <1>2, <1>3, <1>4, <2>3, <3>2, UnitsMore DEF Flow, r
      <4>3. em[n] = ar[n] + UnitsOf(q, "data", n)
        BY <4>1, <4>2 DEF StreamOK, n
      <4>4. QED
        BY <1>3, <1>9, <3>2, <4>3
    <3>3. (i \in 1..Len(q) /\ st2.queue[i] = q[i]) \/ (notify /\ st2.queue[i] = f)
      <4>1. CASE notify
        <5>1. /\ st2.queue = Append(q, f) /\ Len(Append(q, f)) = Len(q) + 1 /\ Len(q) \in Nat
              /\ Append(q, f)[Len(q) + 1] = f /\ \A j \in 1..Len(q) : Append(q, f)[j] = q[j]
          BY <1>3, <1>4, <1>5, <4>1, AppendFact
        <5>2. i \in 1..Len(q) \/ i = Len(q) + 1
          BY <2>3, <5>1
        <5>3. QED
          BY <4>1, <5>1, <5>2
      <4>2. CASE ~notify
        BY <1>5, <2>3, <4>2
      <4>3. QED
        BY <4>1, <4>2
    <3>4. QED
      BY <3>1, <3>2, <3>3
  <2>4. QED
    BY <2>2, <2>3 DEF StreamsOK, EofOK
<1>11. Sound(h, st2, vw, wr, em, ar, last)
  BY <1>1, <1>6, <1>8, <1>10 DEF Sound, Flow
<1>12. QED
  BY <1>5, <1>6, <1>11 DEF st2

\* The phone gives up its view of a stream that is not open.
LEMMA SoundViewGone ==
    ASSUME NEW h, NEW st, NEW vw, NEW wr, NEW em, NEW ar, NEW last,
           Sound(h, st, vw, wr, em, ar, last), NEW s \in Stream, s \notin OpenIn(st),
           NEW vw2, vw2 = [vw EXCEPT ![s] = NoView]
    PROVE  Sound(h, st, vw2, wr, em, ar, last)
<1>1. /\ Shape(h, st, vw, last) /\ Flow(h, st, vw, wr, em, ar, last)
      /\ st \in StateType /\ vw \in [Stream -> ViewState] /\ SerialsOK(st, vw)
  BY DEF Sound, Shape
<1>2. Shape(h, st, vw2, last)
  BY <1>1, ShapeViewGone
<1>3. vw2[s].serial = 0 /\ \A t \in Stream : t # s => vw2[t] = vw[t]
  BY <1>1 DEF NoView
<1>4. ASSUME h PROVE StreamsOK(st, vw2, wr, em, ar) /\ EofOK(st.queue, vw2, em, ar)
  <2>1. StreamsOK(st, vw, wr, em, ar) /\ EofOK(st.queue, vw, em, ar)
    BY <1>1, <1>4 DEF Flow
  <2>2. \A t \in OpenIn(st) : vw2[t] = vw[t]
    BY <1>3 DEF OpenIn
  <2>3. \A i \in 1..Len(st.queue) : st.queue[i].kind = "eof" =>
           st.queue[i].serial # 0 /\ st.queue[i].stream \in Stream
    BY <1>1, QueueFact DEF SerialsOK
  <2>4. \A i \in 1..Len(st.queue) : st.queue[i].kind = "eof"
            /\ Live(st.queue, vw2, st.queue[i].stream, st.queue[i].serial)
            => Live(st.queue, vw, st.queue[i].stream, st.queue[i].serial)
    BY <1>3, <2>3 DEF Live
  <2>5. QED
    BY <2>1, <2>2, <2>4 DEF StreamsOK, EofOK
<1>5. QED
  BY <1>1, <1>2, <1>4 DEF Sound, Flow

\* A frame goes behind the others that carries nothing and is no end.
LEMMA FlowBehind ==
    ASSUME NEW h, NEW st, NEW vw, NEW wr, NEW em, NEW ar, NEW last,
           st \in StateType, StreamsOK(st, vw, wr, em, ar), EofOK(st.queue, vw, em, ar),
           NEW f \in Frame, f.kind \notin {"data", "credit", "eof"},
           f.kind = "opened" => \A i \in 1..Len(st.queue) : st.queue[i].serial # f.serial
    PROVE  /\ EofOK(Append(st.queue, f), vw, em, ar)
           /\ \A n : /\ UnitsOf(Append(st.queue, f), "data", n) = UnitsOf(st.queue, "data", n)
                     /\ UnitsOf(Append(st.queue, f), "credit", n) = UnitsOf(st.queue, "credit", n)
           /\ \A t \in OpenIn(st) :
                 StreamOK(Append(st.queue, f), vw[t], st.streams[t],
                          wr[t][st.streams[t].serial], em[st.streams[t].serial],
                          ar[st.streams[t].serial])
<1> DEFINE q == st.queue
           more == Append(q, f)
<1>1. q \in Seq(Frame)
  BY QueueFact
<1>2. ASSUME NEW n
      PROVE  /\ UnitsOf(more, "data", n) = UnitsOf(q, "data", n)
             /\ UnitsOf(more, "credit", n) = UnitsOf(q, "credit", n)
  <2>1. f.kind # "data" /\ f.kind # "credit"
    OBVIOUS
  <2> HIDE DEF q
  <2>2. QED
    BY <1>1, <2>1, UnitsMore
<1>3. /\ Len(more) = Len(q) + 1 /\ Len(q) \in Nat /\ more[Len(q) + 1] = f
      /\ \A i \in 1..Len(q) : more[i] = q[i]
  BY <1>1, AppendFact
<1> HIDE DEF q, more
<1>4. EofOK(more, vw, em, ar)
  <2> SUFFICES ASSUME NEW i \in 1..Len(more), more[i].kind = "eof",
                      Live(more, vw, more[i].stream, more[i].serial)
               PROVE  em[more[i].serial] = ar[more[i].serial]
                          + UnitsOf(more, "data", more[i].serial)
    BY DEF EofOK
  <2>1. i \in 1..Len(q) /\ more[i] = q[i]
    BY <1>3
  <2>2. Live(q, vw, q[i].stream, q[i].serial)
    BY <1>1, <2>1, LiveAppend DEF q, more
  <2>3. em[q[i].serial] = ar[q[i].serial] + UnitsOf(q, "data", q[i].serial)
    BY <2>1, <2>2 DEF EofOK, q
  <2>4. QED
    BY <1>2, <2>1, <2>3
<1>5. ASSUME NEW t \in OpenIn(st)
      PROVE  StreamOK(more, vw[t], st.streams[t], wr[t][st.streams[t].serial],
                      em[st.streams[t].serial], ar[st.streams[t].serial])
  <2>1. StreamOK(q, vw[t], st.streams[t], wr[t][st.streams[t].serial],
                 em[st.streams[t].serial], ar[st.streams[t].serial])
    BY DEF StreamsOK, q
  <2>2. QED
    BY <1>2, <2>1 DEF StreamOK
<1>6. QED
  BY <1>2, <1>4, <1>5 DEF q, more

\* An answer that refuses goes behind the others.
LEMMA SoundFails ==
    ASSUME NEW h, NEW st, NEW vw, NEW wr, NEW em, NEW ar, NEW last,
           Sound(h, st, vw, wr, em, ar, last), NEW s \in Stream
    PROVE  Sound(h, Send(st, Failed(s)), vw, wr, em, ar, last)
<1> DEFINE st2 == Send(st, Failed(s))
<1>1. /\ Shape(h, st, vw, last) /\ Flow(h, st, vw, wr, em, ar, last) /\ st \in StateType
  BY DEF Sound, Shape
<1>2. /\ Failed(s) \in Frame /\ Failed(s).kind \notin {"data", "credit", "eof"}
      /\ Failed(s).kind # "opened"
  BY LimitAssumption DEF Failed, Frame, Serial
<1>3. st.queue \in Seq(Frame)
  BY <1>1, QueueFact
<1>4. Append(st.queue, Failed(s)) \in Seq(Frame)
  BY <1>2, <1>3, AppendFact
<1>5. /\ st2 \in StateType /\ st2.streams = st.streams /\ st2.sockets = st.sockets
      /\ st2.queue = Append(st.queue, Failed(s))
  BY <1>1, <1>4 DEF Send, StateType
<1> HIDE DEF st2
<1>6. Shape(h, st2, vw, last) /\ OpenIn(st2) = OpenIn(st)
  BY <1>1, <1>5, ShapeFails
<1>7. WritesOK(st2, wr, last)
  BY <1>1, <1>5, <1>6 DEF WritesOK, Flow
<1>8. ASSUME h PROVE StreamsOK(st2, vw, wr, em, ar) /\ EofOK(st2.queue, vw, em, ar)
  <2>1. StreamsOK(st, vw, wr, em, ar) /\ EofOK(st.queue, vw, em, ar)
    BY <1>1, <1>8 DEF Flow
  <2>2. QED
    BY <1>1, <1>2, <1>5, <1>6, <2>1, FlowBehind DEF StreamsOK
<1>9. QED
  BY <1>1, <1>6, <1>7, <1>8 DEF Sound, Flow, st2

\* What a new stream is.
LEMMA NewStreamFact ==
    ASSUME NEW n \in Serial
    PROVE  /\ NewStream(n).serial = n /\ NewStream(n).sendWindow = Window
           /\ NewStream(n).recvWindow = Window /\ NewStream(n).pending = 0
           /\ NewStream(n).ended = FALSE /\ NewStream(n) \in StreamState
<1>1. /\ NewStream(n).serial = n /\ NewStream(n).sendWindow = Window
      /\ NewStream(n).recvWindow = Window /\ NewStream(n).pending = 0
      /\ NewStream(n).ended = FALSE
  BY DEF NewStream, NoStream
<1>2. NewStream(n) \in [serial : Serial, sendWindow : Nat, recvWindow : Nat,
                        pending : Nat, ended : BOOLEAN, paused : BOOLEAN]
  BY WindowAssumption DEF NewStream, NoStream
<1>3. Window \in 0..MaxSendWindow /\ Window \in 0..Window
  BY WindowAssumption
<1> DEFINE r == NewStream(n)
<1> HIDE DEF r
<1>4. r \in StreamState
  BY <1>1, <1>2, <1>3 DEF StreamState, r
<1>5. QED
  BY <1>1, <1>4 DEF r

\* A stream opens for an id that the phone has none of.
LEMMA SoundOpens ==
    ASSUME NEW h, NEW st, NEW vw, NEW wr, NEW em, NEW ar, NEW last,
           Sound(h, st, vw, wr, em, ar, last), NEW s \in Stream,
           st.streams[s] = NoStream, last + 1 \in Serial,
           h => /\ vw[s] = NoView
                /\ \A i \in 1..Len(st.queue) :
                      ~(st.queue[i].kind = "opened" /\ st.queue[i].stream = s),
           NEW st2 \in StateType,
           st2.streams = [st.streams EXCEPT ![s] = NewStream(last + 1)],
           st2.sockets = st.sockets + 1,
           st2.queue = Append(st.queue, Opened(s, last + 1))
    PROVE  Sound(h, st2, vw, wr, em, ar, last + 1)
<1> DEFINE m == last + 1
           f == Opened(s, m)
           r == NewStream(m)
<1>1. /\ Shape(h, st, vw, last) /\ Flow(h, st, vw, wr, em, ar, last) /\ st \in StateType
      /\ last \in Serial /\ NamesOK(st, vw, last)
  BY DEF Sound, Shape
<1>2. last \in Nat /\ m \in Nat /\ m \in Serial \ {0} /\ m > last /\ Window \in Nat
      /\ \A k \in Serial : k > m => k > last
  BY <1>1, LimitAssumption, WindowAssumption DEF Serial
<1>3. f \in Frame /\ f.serial = m /\ f.kind = "opened" /\ f.stream = s
      /\ f.kind \notin {"data", "credit", "eof"}
  BY <1>2 DEF Opened, Frame
<1>4. /\ r.serial = m /\ r.sendWindow = Window /\ r.recvWindow = Window
      /\ r.pending = 0 /\ r.ended = FALSE
  BY <1>2, NewStreamFact
<1>6. st.queue \in Seq(Frame)
  BY <1>1, QueueFact
<1> HIDE DEF m, f, r
<1>8. /\ st2.streams = [st.streams EXCEPT ![s] = r]
      /\ st2.sockets = st.sockets + 1 /\ st2.queue = Append(st.queue, f)
  BY DEF m, f, r
<1>9. Shape(h, st2, vw, m) /\ OpenIn(st2) = OpenIn(st) \cup {s}
  <2>1. /\ st2 \in StateType /\ st2.streams = [st.streams EXCEPT ![s] = NewStream(last + 1)]
        /\ st2.sockets = st.sockets + 1 /\ st2.queue = Append(st.queue, Opened(s, last + 1))
    BY <1>8 DEF m, f, r
  <2>2. QED
    BY <1>1, <2>1, ShapeOpens DEF m
<1>10. \A t \in Stream : ~Named(st, vw, t, m)
  BY <1>1, <1>2 DEF NamesOK
<1>11. \A i \in 1..Len(st.queue) : st.queue[i].serial # m
  BY <1>1, <1>10, QueueFact DEF Named
<1>12. \A t \in OpenIn(st2) : t # s => t \in OpenIn(st) /\ st2.streams[t] = st.streams[t]
  BY <1>1, <1>8, <1>9 DEF OpenIn, StateType
<1>13. st2.streams[s] = r /\ r.serial = m
  BY <1>1, <1>4, <1>8 DEF StateType
<1>14. wr[s][m] = 0
  BY <1>1, <1>2 DEF Flow, WritesOK
<1>15. WritesOK(st2, wr, m)
  <2>1. WritesOK(st, wr, last)
    BY <1>1 DEF Flow
  <2>2. \A k \in 1..last : k \in 1..m
    BY <1>2
  <2>3. \A t \in Stream, k \in Serial : wr[t][k] > 0 => k \in 1..m
    BY <2>1, <2>2 DEF WritesOK
  <2>4. r.recvWindow + wr[s][m] <= Window
    BY <1>2, <1>4, <1>14
  <2>5. \A t \in OpenIn(st2) : st2.streams[t].recvWindow + wr[t][st2.streams[t].serial] <= Window
    BY <1>12, <1>13, <2>1, <2>4 DEF WritesOK
  <2>6. QED
    BY <2>1, <2>3, <2>5 DEF WritesOK
<1>16. ASSUME h
       PROVE  /\ \A k \in Serial : k > m => em[k] = 0 /\ ar[k] = 0
              /\ StreamsOK(st2, vw, wr, em, ar) /\ EofOK(st2.queue, vw, em, ar)
  <2>1. /\ StreamsOK(st, vw, wr, em, ar) /\ EofOK(st.queue, vw, em, ar)
        /\ \A k \in Serial : k > last => em[k] = 0 /\ ar[k] = 0
    BY <1>1, <1>16 DEF Flow
  <2>2. /\ EofOK(Append(st.queue, f), vw, em, ar)
        /\ \A n : /\ UnitsOf(Append(st.queue, f), "data", n) = UnitsOf(st.queue, "data", n)
                  /\ UnitsOf(Append(st.queue, f), "credit", n) = UnitsOf(st.queue, "credit", n)
        /\ \A t \in OpenIn(st) :
              StreamOK(Append(st.queue, f), vw[t], st.streams[t],
                       wr[t][st.streams[t].serial], em[st.streams[t].serial],
                       ar[st.streams[t].serial])
    BY <1>1, <1>3, <1>11, <2>1, FlowBehind
  <2>3. StreamOK(st2.queue, vw[s], r, wr[s][m], em[m], ar[m])
    <3>1. vw[s].serial = 0 /\ em[m] = 0 /\ ar[m] = 0
      BY <1>2, <1>16, <2>1 DEF NoView
    <3>2. UnitsOf(st.queue, "data", m) = 0 /\ UnitsOf(st.queue, "credit", m) = 0
      <4>1. \A i \in 1..Len(st.queue) : st.queue[i].serial \notin {m}
        BY <1>11
      <4>2. QED
        BY <1>6, <4>1, UnitsNat DEF UnitsOf
    <3>3. UnitsOf(st2.queue, "data", m) = 0 /\ UnitsOf(st2.queue, "credit", m) = 0
      BY <1>8, <2>2, <3>2
    <3>4. QED
      BY <1>2, <1>4, <1>14, <3>1, <3>3 DEF StreamOK
  <2>4. StreamsOK(st2, vw, wr, em, ar)
    BY <1>8, <1>12, <1>13, <2>2, <2>3 DEF StreamsOK
  <2>5. QED
    BY <1>2, <1>8, <2>1, <2>2, <2>4
<1>17. QED
  BY <1>1, <1>9, <1>15, <1>16 DEF Sound, Flow, m

\* The callback of a write for stream n of id s.
Called(wr, s, n, wr2) ==
    /\ wr[s][n] > 0
    /\ wr2 \in [Stream -> [Serial -> Nat]] /\ wr2[s][n] = wr[s][n] - 1
    /\ \A t \in Stream, m \in Serial : t # s \/ m # n => wr2[t][m] = wr[t][m]

\* A write of a stream that is gone ends.
LEMMA SoundForgets ==
    ASSUME NEW h, NEW st, NEW vw, NEW wr, NEW em, NEW ar, NEW last,
           Sound(h, st, vw, wr, em, ar, last), NEW s \in Stream, NEW n \in Serial,
           st.streams[s].serial # n, NEW wr2, Called(wr, s, n, wr2)
    PROVE  Sound(h, st, vw, wr2, em, ar, last)
<1>0. /\ wr2 \in [Stream -> [Serial -> Nat]]
      /\ wr2[s][n] <= wr[s][n]
      /\ \A t \in Stream, m \in Serial : t # s \/ m # n => wr2[t][m] = wr[t][m]
  <2>1. wr \in [Stream -> [Serial -> Nat]]
    BY DEF Sound, Flow, WritesOK
  <2>2. QED
    BY <2>1 DEF Called
<1> USE <1>0
<1>1. /\ Shape(h, st, vw, last) /\ Flow(h, st, vw, wr, em, ar, last)
  BY DEF Sound
<1>2. \A t \in OpenIn(st) : wr2[t][st.streams[t].serial] = wr[t][st.streams[t].serial]
  BY <1>1, SerialsApart
<1>3. WritesOK(st, wr2, last)
  <2>1. WritesOK(st, wr, last)
    BY <1>1 DEF Flow
  <2>2. ASSUME NEW t \in Stream, NEW m \in Serial, wr2[t][m] > 0 PROVE m \in 1..last
    <3>1. wr[t][m] \in Nat /\ wr2[t][m] \in Nat /\ wr2[t][m] <= wr[t][m]
      <4>1. wr[t][m] \in Nat /\ wr2[t][m] \in Nat
        BY <2>1 DEF WritesOK
      <4>2. CASE t = s /\ m = n
        BY <4>1, <4>2
      <4>3. CASE t # s \/ m # n
        BY <4>1, <4>3
      <4>4. QED
        BY <4>2, <4>3
    <3>2. wr[t][m] > 0
      BY <2>2, <3>1
    <3>3. QED
      BY <2>1, <3>2 DEF WritesOK
  <2>3. QED
    BY <1>2, <2>1, <2>2 DEF WritesOK
<1>4. h => StreamsOK(st, vw, wr2, em, ar)
  BY <1>1, <1>2 DEF Flow, StreamsOK
<1>5. QED
  BY <1>1, <1>3, <1>4 DEF Sound, Flow

\* The stream that the write was for has its window back, and the frame says so.
Credited(st, s, st2) ==
    LET r == st.streams[s]
    IN  /\ st2 \in StateType /\ st2.queue = Append(st.queue, CreditBack(s, r.serial))
        /\ st2.sockets = st.sockets /\ st2.streams[s].recvWindow = r.recvWindow + 1
        /\ st2.streams[s].serial = r.serial /\ st2.streams[s].sendWindow = r.sendWindow
        /\ st2.streams[s].pending = r.pending /\ st2.streams[s].ended = r.ended
        /\ \A t \in Stream : t # s => st2.streams[t] = st.streams[t]

\* A window given back, with its frame, keeps everything right.
LEMMA SoundWritten ==
    ASSUME NEW h, NEW st, NEW vw, NEW wr, NEW em, NEW ar, NEW last,
           Sound(h, st, vw, wr, em, ar, last), NEW s \in OpenIn(st),
           NEW wr2, Called(wr, s, st.streams[s].serial, wr2),
           NEW st2, Credited(st, s, st2)
    PROVE  Sound(h, st2, vw, wr2, em, ar, last)
<1> DEFINE r == st.streams[s]
           n == r.serial
<1>0. /\ n = st.streams[s].serial /\ r = st.streams[s] /\ wr[s][n] > 0
      /\ wr2 \in [Stream -> [Serial -> Nat]] /\ wr2[s][n] = wr[s][n] - 1
      /\ \A t \in Stream, m \in Serial : t # s \/ m # n => wr2[t][m] = wr[t][m]
      /\ st2 \in StateType /\ st2.queue = Append(st.queue, CreditBack(s, n))
      /\ st2.sockets = st.sockets /\ st2.streams[s].recvWindow = r.recvWindow + 1
      /\ st2.streams[s].serial = n /\ st2.streams[s].sendWindow = r.sendWindow
      /\ st2.streams[s].pending = r.pending /\ st2.streams[s].ended = r.ended
      /\ \A t \in Stream : t # s => st2.streams[t] = st.streams[t]
  BY DEF Called, Credited
<1> HIDE DEF n, r
<1> USE <1>0
<1> DEFINE q == st.queue
           f == CreditBack(s, n)
           mid == [st EXCEPT !.queue = Append(st.queue, f)]
<1>1. /\ Shape(h, st, vw, last) /\ Flow(h, st, vw, wr, em, ar, last)
      /\ st \in StateType /\ vw \in [Stream -> ViewState] /\ WritesOK(st, wr, last)
  BY DEF Sound, Shape, Flow
<1>2. /\ s \in Stream /\ r \in StreamState /\ n \in Serial \ {0}
      /\ \A t \in Stream : t # s => st.streams[t].serial # n
  BY <1>1, SerialsApart
<1>3. f \in Frame /\ f.kind = "credit" /\ f.stream = s /\ f.serial = n /\ f.units = 1
  BY <1>2 DEF CreditBack, Frame
<1>4. q \in Seq(Frame)
  BY <1>1, QueueFact
<1>5. Append(q, f) \in Seq(Frame)
  BY <1>3, <1>4, AppendFact
<1>6. /\ r.recvWindow \in Nat /\ wr[s][n] \in Nat /\ r.recvWindow + wr[s][n] <= Window
      /\ r.recvWindow + 1 \in 0..Window
      /\ (r.recvWindow + 1) + wr2[s][n] = r.recvWindow + wr[s][n]
  <2>1. r.recvWindow \in Nat /\ wr[s][n] \in Nat /\ Window \in Nat
    BY <1>1, <1>2, WindowAssumption DEF StreamState, WritesOK
  <2>2. r.recvWindow + wr[s][n] <= Window
    BY <1>1 DEF WritesOK
  <2>3. wr2[s][n] = wr[s][n] - 1 /\ wr[s][n] > 0
    OBVIOUS
  <2> DEFINE a == r.recvWindow
             b == wr[s][n]
             c == wr2[s][n]
  <2>4. a \in Nat /\ b \in Nat /\ Window \in Nat /\ a + b <= Window /\ c = b - 1 /\ b > 0
    BY <2>1, <2>2, <2>3
  <2> HIDE DEF a, b, c
  <2>5. a + 1 \in 0..Window /\ (a + 1) + c = a + b
    BY <2>4
  <2>6. QED
    BY <2>1, <2>2, <2>5 DEF a, b, c
<1>7. /\ mid \in StateType /\ mid.queue = Append(st.queue, f) /\ mid.streams = st.streams
      /\ mid.sockets = st.sockets
  BY <1>1, <1>5 DEF StateType
<1> HIDE DEF q, f, mid
<1>8. st2.queue = mid.queue /\ st2.streams[s] # NoStream
  BY <1>2, <1>7 DEF NoStream, f
<1>10. Shape(h, mid, vw, last) /\ OpenIn(mid) = OpenIn(st)
  <2>1. /\ f.kind \in {"data", "credit"} /\ f.serial # 0
        /\ f.serial = st.streams[f.stream].serial
    BY <1>2, <1>3
  <2>2. QED
    BY <1>1, <1>3, <1>7, <2>1, ShapeSends
<1>11. Shape(h, st2, vw, last) /\ OpenIn(st2) = OpenIn(st)
  <2>1. \A t \in Stream : /\ st2.streams[t].serial = mid.streams[t].serial
                          /\ mid.streams[t] = NoStream => st2.streams[t] = NoStream
                          /\ vw[t].serial = vw[t].serial
                          /\ vw[t] = NoView => vw[t] = NoView
    BY <1>7, <1>8 DEF OpenIn
  <2>2. st2.sockets = mid.sockets
    BY <1>7
  <2>3. QED
    BY <1>1, <1>8, <1>10, <2>1, <2>2, ShapeKept
<1>12. WritesOK(st2, wr2, last)
  <2>1. ASSUME NEW t \in Stream, NEW m \in Serial, wr2[t][m] > 0 PROVE m \in 1..last
    <3>1. CASE t = s /\ m = n
      BY <1>1, <1>2, <3>1 DEF WritesOK
    <3>2. CASE t # s \/ m # n
      BY <1>1, <2>1, <3>2 DEF WritesOK
    <3>3. QED
      BY <3>1, <3>2
  <2>2. ASSUME NEW t \in OpenIn(st)
        PROVE  st2.streams[t].recvWindow + wr2[t][st2.streams[t].serial] <= Window
    <3>1. CASE t = s
      <4>1. st2.streams[t].recvWindow = r.recvWindow + 1 /\ st2.streams[t].serial = n
        BY <3>1
      <4>2. QED
        BY <1>6, <3>1, <4>1
    <3>2. CASE t # s
      <4>1. st2.streams[t] = st.streams[t] /\ st.streams[t].serial \in Serial /\ t \in Stream
        BY <1>1, <1>8, <3>2, SerialsApart DEF OpenIn
      <4>2. wr2[t][st.streams[t].serial] = wr[t][st.streams[t].serial]
        BY <3>2, <4>1
      <4>3. QED
        BY <1>1, <4>1, <4>2 DEF WritesOK
    <3>3. QED
      BY <3>1, <3>2
  <2>3. QED
    BY <1>11, <2>1, <2>2 DEF WritesOK
<1>13. /\ \A m : UnitsOf(st2.queue, "data", m) = UnitsOf(q, "data", m)
       /\ \A m : m # n => UnitsOf(st2.queue, "credit", m) = UnitsOf(q, "credit", m)
       /\ UnitsOf(st2.queue, "credit", n) = UnitsOf(q, "credit", n) + 1
       /\ UnitsOf(q, "credit", n) \in Nat
  <2>1. st2.queue = Append(q, f)
    BY DEF q, f
  <2>2. ASSUME NEW m PROVE UnitsOf(st2.queue, "data", m) = UnitsOf(q, "data", m)
    <3>1. f.kind # "data"
      BY <1>3
    <3>2. QED
      BY <1>3, <1>4, <2>1, <3>1, UnitsMore
  <2>3. ASSUME NEW m, m # n PROVE UnitsOf(st2.queue, "credit", m) = UnitsOf(q, "credit", m)
    <3>1. f.serial # m
      BY <1>3, <2>3
    <3>2. QED
      BY <1>3, <1>4, <2>1, <3>1, UnitsMore
  <2>4. UnitsOf(st2.queue, "credit", n) = UnitsOf(q, "credit", n) + f.units
    BY <1>3, <1>4, <2>1, UnitsMore
  <2>5. UnitsOf(q, "credit", n) \in Nat
    BY <1>3, <1>4, UnitsMore
  <2>6. QED
    BY <1>3, <2>2, <2>3, <2>4, <2>5
<1>14. ASSUME h PROVE StreamsOK(st2, vw, wr2, em, ar) /\ EofOK(st2.queue, vw, em, ar)
  <2>1. StreamsOK(st, vw, wr, em, ar) /\ EofOK(q, vw, em, ar)
    BY <1>1, <1>14 DEF Flow, q
  <2>2. ASSUME NEW t \in OpenIn(st)
        PROVE  StreamOK(st2.queue, vw[t], st2.streams[t], wr2[t][st2.streams[t].serial],
                        em[st2.streams[t].serial], ar[st2.streams[t].serial])
    <3>1. StreamOK(q, vw[t], st.streams[t], wr[t][st.streams[t].serial],
                   em[st.streams[t].serial], ar[st.streams[t].serial])
      BY <2>1 DEF StreamsOK, q
    <3>2. CASE t # s
      <4>1. /\ st2.streams[t] = st.streams[t] /\ st.streams[t].serial # n
            /\ st.streams[t].serial \in Serial /\ t \in Stream
        BY <1>1, <1>2, <1>8, <3>2, SerialsApart DEF OpenIn
      <4>2. wr2[t][st.streams[t].serial] = wr[t][st.streams[t].serial]
        BY <3>2, <4>1
      <4>3. QED
        BY <1>13, <3>1, <4>1, <4>2 DEF StreamOK
    <3>3. CASE t = s
      <4>1. /\ r.sendWindow + UnitsOf(q, "data", n)
                   + (IF vw[s].serial = n THEN vw[s].unread ELSE 0) = Window
            /\ ~r.ended => r.recvWindow + wr[s][n] = Window
            /\ vw[s].serial = n => vw[s].window + UnitsOf(q, "credit", n) = r.recvWindow
            /\ vw[s].serial # n => wr[s][n] = 0
            /\ em[n] = ar[n] + UnitsOf(q, "data", n) + r.pending
        BY <3>1, <3>3 DEF StreamOK
      <4>2. vw[s].serial = n
        BY <1>6, <4>1
      <4>3. vw[s].window \in Nat
        BY <1>1, <1>2 DEF ViewState
      <4>4. /\ ~r.ended => (r.recvWindow + 1) + wr2[s][n] = Window
            /\ vw[s].window + (UnitsOf(q, "credit", n) + 1) = r.recvWindow + 1
        <5>1. ~r.ended => r.recvWindow + wr[s][n] = Window
          BY <4>1
        <5>2. vw[s].window + UnitsOf(q, "credit", n) = r.recvWindow
          BY <4>1, <4>2
        <5> DEFINE c == UnitsOf(q, "credit", n)
                   a == r.recvWindow
                   v == vw[s].window
        <5>3. v \in Nat /\ c \in Nat /\ a \in Nat /\ v + c = a
          BY <1>6, <1>13, <4>3, <5>2
        <5> HIDE DEF c, a, v
        <5>4. v + (c + 1) = a + 1
          BY <5>3
        <5>5. QED
          BY <1>6, <5>1, <5>4 DEF c, a, v
      <4>5. QED
        BY <1>8, <1>13, <3>3, <4>1, <4>2, <4>4 DEF StreamOK
    <3>4. QED
      BY <3>2, <3>3
  <2>3. ASSUME NEW i \in 1..Len(st2.queue), st2.queue[i].kind = "eof",
               Live(st2.queue, vw, st2.queue[i].stream, st2.queue[i].serial)
        PROVE  em[st2.queue[i].serial] = ar[st2.queue[i].serial]
                   + UnitsOf(st2.queue, "data", st2.queue[i].serial)
    <3>1. st2.queue = Append(q, f)
      BY DEF q, f
    <3>2. i \in 1..Len(q) /\ st2.queue[i] = q[i]
      <4>1. /\ Len(Append(q, f)) = Len(q) + 1 /\ Len(q) \in Nat
            /\ Append(q, f)[Len(q) + 1] = f /\ \A j \in 1..Len(q) : Append(q, f)[j] = q[j]
        BY <1>3, <1>4, AppendFact
      <4>2. i \in 1..Len(q) \/ i = Len(q) + 1
        BY <3>1, <4>1
      <4>3. QED
        BY <1>3, <2>3, <3>1, <4>1, <4>2
    <3>3. Live(q, vw, q[i].stream, q[i].serial)
      BY <1>3, <1>4, <2>3, <3>1, <3>2, LiveAppend
    <3>4. em[q[i].serial] = ar[q[i].serial] + UnitsOf(q, "data", q[i].serial)
      BY <2>1, <2>3, <3>2, <3>3 DEF EofOK
    <3>5. QED
      BY <1>13, <3>2, <3>4
  <2>4. QED
    BY <1>11, <2>2, <2>3 DEF StreamsOK, EofOK
<1>15. QED
  BY <1>1, <1>11, <1>12, <1>14 DEF Sound, Flow

\* The view of a stream id before and after frame f.
Sees(h, f, v, v2) ==
    /\ ~h => v2 = NoView
    /\ h => /\ f.kind = "opened" =>
                  v2.serial = f.serial /\ v2.window = Window /\ v2.unread = 0
            /\ f.kind \in Reason => v2 = NoView
            /\ f.kind = "data" /\ v # NoView =>
                  /\ v2.serial = v.serial /\ v2.window = v.window
                  /\ v2.unread = v.unread + f.units
            /\ f.kind = "credit" /\ v # NoView =>
                  /\ v2.serial = v.serial /\ v2.window = v.window + f.units
                  /\ v2.unread = v.unread
            /\ f.kind \in {"data", "credit"} /\ v = NoView => v2 = v
            /\ f.kind = "failed" => v2 = v

\* The phone takes the next frame.
Reads(h, st, vw, ar, st2, vw2, ar2) ==
    LET f == Head(st.queue)
        v == vw[f.stream]
    IN  /\ st2 \in StateType /\ st2.streams = st.streams /\ st2.sockets = st.sockets
        /\ st2.queue = Tail(st.queue)
        /\ vw2 \in [Stream -> ViewState] /\ Sees(h, f, v, vw2[f.stream])
        /\ \A t \in Stream : t # f.stream => vw2[t] = vw[t]
        /\ ar2 \in [Serial -> Nat]
        /\ f.kind = "data" /\ v # NoView =>
              /\ ar2[v.serial] = ar[v.serial] + f.units
              /\ \A n \in Serial : n # v.serial => ar2[n] = ar[n]
        /\ f.kind # "data" \/ v = NoView => ar2 = ar

\* A frame that arrives keeps everything right.
LEMMA SoundReceives ==
    ASSUME NEW h, NEW st, NEW vw, NEW wr, NEW em, NEW ar, NEW last,
           Sound(h, st, vw, wr, em, ar, last), st.queue # <<>>,
           NEW st2, NEW vw2, NEW ar2, Reads(h, st, vw, ar, st2, vw2, ar2)
    PROVE  Sound(h, st2, vw2, wr, em, ar2, last)
<1> DEFINE f == Head(st.queue)
           v == vw[f.stream]
           v2 == vw2[f.stream]
<1>0. /\ f = Head(st.queue) /\ v = vw[f.stream] /\ v2 = vw2[f.stream]
      /\ st2 \in StateType /\ st2.streams = st.streams /\ st2.sockets = st.sockets
      /\ st2.queue = Tail(st.queue)
      /\ vw2 \in [Stream -> ViewState] /\ Sees(h, f, v, v2) /\ v2 \in ViewState
      /\ \A t \in Stream : t # f.stream => vw2[t] = vw[t]
      /\ ar2 \in [Serial -> Nat]
      /\ f.kind = "data" /\ v # NoView =>
            /\ ar2[v.serial] = ar[v.serial] + f.units
            /\ \A n \in Serial : n # v.serial => ar2[n] = ar[n]
      /\ f.kind # "data" \/ v = NoView => ar2 = ar
  <2>1. st \in StateType
    BY DEF Sound, Shape
  <2>2. f \in Frame
    BY <2>1, QueueFact, TailFact
  <2>3. f.stream \in Stream
    BY <2>2 DEF Frame
  <2> HIDE DEF f
  <2>4. v2 \in ViewState
    BY <2>3 DEF Reads
  <2>5. QED
    BY <2>4 DEF Reads, f
<1> HIDE DEF f, v, v2
<1> USE <1>0
<1> DEFINE q == st.queue
           rest == st2.queue
           k == Len(rest)
           s == f.stream
<1>1. /\ Shape(h, st, vw, last) /\ Flow(h, st, vw, wr, em, ar, last)
      /\ st \in StateType /\ vw \in [Stream -> ViewState]
      /\ SerialsOK(st, vw) /\ NamesOK(st, vw, last)
  BY DEF Sound, Shape, Flow
<1>2. q \in Seq(Frame) /\ f \in Frame
  BY <1>1, QueueFact, TailFact
<1>3. /\ k \in Nat /\ Len(q) = k + 1 /\ q[1] = f /\ \A i \in 1..k : rest[i] = q[i + 1]
  BY <1>2, TailFact
<1>4. 1 \in 1..(k + 1) /\ \A i \in 1..k : i + 1 \in 1..(k + 1) /\ i + 1 # 1
  BY <1>3
<1>5. /\ s \in Stream /\ f.serial \in Serial /\ f.units \in Nat
      /\ f.kind \in {"opened", "data", "credit", "failed"} \cup Reason
      /\ v \in ViewState /\ vw2 \in [Stream -> ViewState] /\ vw2[s] = v2
      /\ \A t \in Stream : t # s => vw2[t] = vw[t]
  BY <1>1, <1>2 DEF Frame
<1>6. f.serial = 0 <=> f.kind = "failed"
  BY <1>1, <1>3, <1>4 DEF SerialsOK, q
<1>7. NoView.serial = 0 /\ (v.serial = 0 => v = NoView)
  BY <1>1, <1>5 DEF NoView, SerialsOK
<1>8. Shape(h, st2, vw2, last) /\ OpenIn(st2) = OpenIn(st)
  <2>1. h /\ f.kind \notin {"opened"} \cup Reason =>
            /\ v2.serial = vw[f.stream].serial
            /\ vw[f.stream] = NoView => v2 = NoView
    BY <1>5 DEF Sees
  <2>2. h /\ f.kind = "opened" => v2.serial = f.serial
    BY DEF Sees
  <2>3. /\ h /\ f.kind \in Reason => v2 = NoView
        /\ ~h => v2 = NoView
    BY DEF Sees
  <2>4. Shape(h, st, vw, last) /\ f = Head(st.queue) /\ f \in Frame
        /\ vw2 \in [Stream -> ViewState] /\ vw2[f.stream] = v2
        /\ \A t \in Stream : t # f.stream => vw2[t] = vw[t]
    BY <1>1, <1>2, <1>5
  <2> HIDE DEF q, rest, k, s
  <2>5. QED
    BY <2>1, <2>2, <2>3, <2>4, ShapeReceives
<1> HIDE DEF q, rest, k, s
<1>9. WritesOK(st2, wr, last)
  BY <1>1, <1>8 DEF Flow, WritesOK
<1>10. ASSUME h
       PROVE  /\ \A n \in Serial : n > last => em[n] = 0 /\ ar2[n] = 0
              /\ StreamsOK(st2, vw2, wr, em, ar2) /\ EofOK(rest, vw2, em, ar2)
  <2>0. /\ f.kind = "opened" => v2.serial = f.serial /\ v2.window = Window /\ v2.unread = 0
        /\ f.kind \in Reason => v2 = NoView
        /\ f.kind = "data" /\ v # NoView =>
              /\ v2.serial = v.serial /\ v2.window = v.window /\ v2.unread = v.unread + f.units
        /\ f.kind = "credit" /\ v # NoView =>
              /\ v2.serial = v.serial /\ v2.window = v.window + f.units /\ v2.unread = v.unread
        /\ f.kind \in {"data", "credit"} /\ v = NoView => v2 = v
        /\ f.kind = "failed" => v2 = v
    BY <1>10 DEF Sees
  <2>1. /\ Ordered(q) /\ Single(q, vw) /\ Finds(q, vw) /\ Told(st, vw) /\ Over(st)
    BY <1>1, <1>10 DEF Shape, q
  <2>2. /\ \A n \in Serial : n > last => em[n] = 0 /\ ar[n] = 0
        /\ StreamsOK(st, vw, wr, em, ar) /\ EofOK(q, vw, em, ar)
    BY <1>1, <1>10 DEF Flow, q
  <2>3. Named(st, vw, s, f.serial)
    BY <1>3, <1>4 DEF Named, q, s
  <2>4. f.serial # 0 => f.serial <= last /\ \A t \in Stream : Named(st, vw, t, f.serial) => t = s
    BY <1>1, <1>5, <2>3 DEF NamesOK
  <2>5. f.kind \in Body => v.serial \in {0, f.serial}
    <3>1. \A j \in 1..(k + 1) : ~(j < 1)
      BY <1>3
    <3>2. QED
      BY <1>3, <1>4, <2>1, <3>1 DEF Finds
  <2>6. f.kind \in {"data", "credit"} /\ v # NoView => v.serial = f.serial /\ f.serial # 0
    BY <1>6, <1>7, <2>5 DEF Body
  <2>7. f.kind \in {"data", "credit"} /\ v = NoView => ~Live(q, vw, s, f.serial)
    <3> SUFFICES ASSUME f.kind \in {"data", "credit"}, v = NoView, Live(q, vw, s, f.serial)
                 PROVE  FALSE
      OBVIOUS
    <3>1. f.serial # 0 /\ f.kind # "opened"
      BY <1>6
    <3>2. PICK j \in 1..(k + 1) : q[j].kind = "opened" /\ q[j].serial = f.serial
      BY <1>3, <1>7, <3>1 DEF Live, Announced, s
    <3>3. j # 1
      BY <1>3, <3>1, <3>2
    <3>4. j < 1
      BY <1>3, <1>4, <2>1, <3>1, <3>2, <3>3 DEF Ordered
    <3>5. QED
      BY <1>3, <3>4
  <2>8. /\ f.kind # "data" \/ v = NoView => ar2 = ar
        /\ \A n \in Serial : n # f.serial => ar2[n] = ar[n]
        /\ f.kind = "data" /\ v # NoView => ar2[f.serial] = ar[f.serial] + f.units
    BY <2>6
  <2>9. q # <<>> /\ rest = Tail(q) /\ f = Head(q)
    BY DEF q, rest
  <2>10. ASSUME NEW n
         PROVE  /\ f.serial # n => /\ UnitsOf(rest, "data", n) = UnitsOf(q, "data", n)
                                   /\ UnitsOf(rest, "credit", n) = UnitsOf(q, "credit", n)
                /\ f.kind # "data" => UnitsOf(rest, "data", n) = UnitsOf(q, "data", n)
                /\ f.kind # "credit" => UnitsOf(rest, "credit", n) = UnitsOf(q, "credit", n)
    BY <1>2, <2>9, UnitsRest
  <2>11. /\ f.kind = "data" =>
               UnitsOf(q, "data", f.serial) = UnitsOf(rest, "data", f.serial) + f.units
         /\ f.kind = "credit" =>
               UnitsOf(q, "credit", f.serial) = UnitsOf(rest, "credit", f.serial) + f.units
         /\ UnitsOf(q, "data", f.serial) \in Nat /\ UnitsOf(rest, "data", f.serial) \in Nat
         /\ UnitsOf(q, "credit", f.serial) \in Nat /\ UnitsOf(rest, "credit", f.serial) \in Nat
    <3>1. /\ f.kind = "data" =>
                UnitsOf(q, "data", f.serial) = UnitsOf(rest, "data", f.serial) + f.units
          /\ UnitsOf(q, "data", f.serial) \in Nat /\ UnitsOf(rest, "data", f.serial) \in Nat
      BY <1>2, <2>9, UnitsRest
    <3>2. /\ f.kind = "credit" =>
                UnitsOf(q, "credit", f.serial) = UnitsOf(rest, "credit", f.serial) + f.units
          /\ UnitsOf(q, "credit", f.serial) \in Nat /\ UnitsOf(rest, "credit", f.serial) \in Nat
      BY <1>2, <2>9, UnitsRest
    <3>3. QED
      BY <3>1, <3>2
  <2>12. \A n \in Serial : n > last => em[n] = 0 /\ ar2[n] = 0
    <3> SUFFICES ASSUME NEW n \in Serial, n > last PROVE ar2[n] = ar[n]
      BY <2>2
    <3>1. CASE f.serial = 0
      BY <1>6, <2>8, <3>1
    <3>2. CASE f.serial # 0
      <4>1. f.serial <= last /\ last \in Serial
        BY <1>1, <2>4, <3>2 DEF Shape
      <4>2. n # f.serial
        BY <1>5, <4>1, LimitAssumption DEF Serial
      <4>3. QED
        BY <2>8, <4>2
    <3>3. QED
      BY <3>1, <3>2
  <2>13. ASSUME NEW t \in OpenIn(st), t # s
         PROVE  StreamOK(rest, vw2[t], st.streams[t], wr[t][st.streams[t].serial],
                         em[st.streams[t].serial], ar2[st.streams[t].serial])
    <3>1. StreamOK(q, vw[t], st.streams[t], wr[t][st.streams[t].serial],
                   em[st.streams[t].serial], ar[st.streams[t].serial])
      BY <2>2 DEF StreamsOK, q
    <3>2. /\ t \in Stream /\ st.streams[t].serial \in Serial
          /\ \A u \in Stream : Named(st, vw, u, st.streams[t].serial) => u = t
      BY <1>1, SerialsApart
    <3>3. f.serial # st.streams[t].serial
      BY <1>5, <2>3, <2>13, <3>2
    <3>4. vw2[t] = vw[t] /\ ar2[st.streams[t].serial] = ar[st.streams[t].serial]
      BY <1>5, <2>8, <2>13, <3>2, <3>3
    <3>5. QED
      BY <2>10, <3>1, <3>3, <3>4 DEF StreamOK
  <2>14. ASSUME s \in OpenIn(st)
         PROVE  StreamOK(rest, v2, st.streams[s], wr[s][st.streams[s].serial],
                         em[st.streams[s].serial], ar2[st.streams[s].serial])
    <3> DEFINE r == st.streams[s]
               n == r.serial
    <3>1. StreamOK(q, v, r, wr[s][n], em[n], ar[n])
      BY <2>2, <2>14 DEF StreamsOK, q, s
    <3>2. r \in StreamState /\ n \in Serial \ {0}
      BY <1>1, <2>14, SerialsApart
    <3>3. Live(q, vw, s, n)
      BY <2>1, <2>14 DEF Told, q
    <3> DEFINE w == wr[s][n]
               e == em[n]
    <3> HIDE DEF r, n, w, e
    <3>4. CASE f.kind = "opened"
      <4>1. v = NoView /\ \A j \in 1..(k + 1) :
                q[j].kind = "opened" /\ q[j].stream = s => j = 1
        BY <1>3, <1>4, <2>1, <3>4 DEF Single, s
      <4>2. n = f.serial
        BY <1>3, <1>7, <3>2, <3>3, <4>1 DEF Live, Announced, s
      <4>3. v.serial # n /\ v2.serial = n /\ v2.window = Window /\ v2.unread = 0
        BY <1>7, <2>0, <3>2, <3>4, <4>1, <4>2
      <4>4. /\ UnitsOf(rest, "data", n) = UnitsOf(q, "data", n)
            /\ UnitsOf(rest, "credit", n) = UnitsOf(q, "credit", n) /\ ar2 = ar
        BY <2>8, <2>10, <3>4
      <4>5. /\ r.sendWindow + UnitsOf(q, "data", n) + 0 = Window
            /\ r.recvWindow = Window /\ UnitsOf(q, "credit", n) = 0
            /\ ~r.ended => r.recvWindow + w = Window
            /\ e = ar[n] + UnitsOf(q, "data", n) + r.pending
        BY <3>1, <4>3 DEF StreamOK, n, w, e
      <4>6. Window + 0 = Window
        BY WindowAssumption
      <4>7. StreamOK(rest, v2, r, w, e, ar2[n])
        BY <4>3, <4>4, <4>5, <4>6 DEF StreamOK, n
      <4>8. QED
        BY <4>7 DEF r, n, w, e
    <3>5. CASE f.kind \in Reason
      <4>1. v.serial # n
        <5>1. n # f.serial
          BY <1>3, <1>4, <1>5, <2>1, <3>5 DEF Over, q, n, r
        <5>2. QED
          BY <2>5, <3>2, <3>5, <5>1 DEF Body
      <4>2. v2.serial # n
        BY <1>7, <2>0, <3>2, <3>5
      <4>3. f.kind # "data" /\ f.kind # "credit"
        BY <3>5 DEF Reason
      <4>4. StreamOK(rest, v2, r, w, e, ar2[n])
        BY <2>8, <2>10, <3>1, <4>1, <4>2, <4>3 DEF StreamOK, n, w, e
      <4>5. QED
        BY <4>4 DEF r, n, w, e
    <3>6. CASE f.kind = "failed"
      <4>1. v2 = v /\ f.kind # "data" /\ f.kind # "credit"
        BY <2>0, <3>6
      <4>2. StreamOK(rest, v2, r, w, e, ar2[n])
        BY <2>8, <2>10, <3>1, <4>1 DEF StreamOK, n, w, e
      <4>3. QED
        BY <4>2 DEF r, n, w, e
    <3>7. CASE f.kind \in {"data", "credit"} /\ n # f.serial
      <4>1. v.serial # n /\ v2.serial # n
        BY <1>7, <2>0, <2>5, <2>6, <3>2, <3>7 DEF Body
      <4>2. ar2[n] = ar[n]
        BY <2>8, <3>2, <3>7
      <4>3. StreamOK(rest, v2, r, w, e, ar2[n])
        BY <2>10, <3>1, <3>7, <4>1, <4>2 DEF StreamOK, n, w, e
      <4>4. QED
        BY <4>3 DEF r, n, w, e
    <3>8. CASE f.kind \in {"data", "credit"} /\ n = f.serial
      <4>1. v # NoView
        BY <2>7, <3>3, <3>8
      <4>2. v.serial = n /\ v2.serial = n
        BY <2>0, <2>6, <3>8, <4>1
      <4>3. /\ r.sendWindow + UnitsOf(q, "data", n) + v.unread = Window
            /\ ~r.ended => r.recvWindow + w = Window
            /\ v.window + UnitsOf(q, "credit", n) = r.recvWindow
            /\ e = ar[n] + UnitsOf(q, "data", n) + r.pending
        BY <3>1, <4>2 DEF StreamOK, n, w, e
      <4>4. /\ v.window \in Nat /\ v.unread \in Nat /\ r.sendWindow \in Nat
            /\ r.pending \in Nat /\ ar[n] \in Nat
        <5>1. v.window \in Nat /\ v.unread \in Nat
          BY <1>5 DEF ViewState
        <5>2. r.sendWindow \in Nat /\ r.pending \in Nat
          BY <3>2, WindowAssumption DEF StreamState
        <5>3. ar[n] \in Nat
          BY <1>1, <3>2 DEF Flow
        <5>4. QED
          BY <5>1, <5>2, <5>3
      <4>5. StreamOK(rest, v2, r, w, e, ar2[n])
        <5>1. CASE f.kind = "data"
          <6>1. /\ v2.window = v.window /\ v2.unread = v.unread + f.units
                /\ ar2[n] = ar[n] + f.units
                /\ UnitsOf(rest, "credit", n) = UnitsOf(q, "credit", n)
            BY <2>0, <2>8, <2>10, <3>8, <4>1, <5>1
          <6>2. /\ r.sendWindow + UnitsOf(rest, "data", n) + v2.unread = Window
                /\ e = ar2[n] + UnitsOf(rest, "data", n) + r.pending
            <7> DEFINE d == UnitsOf(rest, "data", n)
                       a == r.sendWindow
                       b == v.unread
                       c == ar[n]
                       p == r.pending
                       x == f.units
            <7>1. /\ d \in Nat /\ a \in Nat /\ b \in Nat /\ c \in Nat /\ p \in Nat /\ x \in Nat
                  /\ a + (d + x) + b = Window /\ e = c + (d + x) + p
              BY <1>5, <2>11, <3>8, <4>3, <4>4, <5>1
            <7> HIDE DEF d, a, b, c, p, x
            <7>2. a + d + (b + x) = Window /\ e = (c + x) + d + p
              BY <7>1
            <7>3. v2.unread = b + x /\ ar2[n] = c + x
              BY <6>1 DEF b, c, x
            <7>4. QED
              BY <7>2, <7>3 DEF d, a, p
          <6>3. QED
            BY <4>2, <4>3, <6>1, <6>2 DEF StreamOK, n
        <5>2. CASE f.kind = "credit"
          <6>1. /\ v2.window = v.window + f.units /\ v2.unread = v.unread /\ ar2[n] = ar[n]
                /\ UnitsOf(rest, "data", n) = UnitsOf(q, "data", n)
            BY <2>0, <2>8, <2>10, <4>1, <5>2
          <6>2. v2.window + UnitsOf(rest, "credit", n) = r.recvWindow
            <7> DEFINE d == UnitsOf(rest, "credit", n)
                       a == r.recvWindow
                       b == v.window
                       x == f.units
            <7>1. d \in Nat /\ b \in Nat /\ x \in Nat /\ b + (d + x) = a
              BY <1>5, <2>11, <3>8, <4>3, <4>4, <5>2
            <7> HIDE DEF d, a, b, x
            <7>2. (b + x) + d = a
              BY <7>1
            <7>3. v2.window = b + x
              BY <6>1 DEF b, x
            <7>4. QED
              BY <7>2, <7>3 DEF d, a
          <6>3. QED
            BY <4>2, <4>3, <6>1, <6>2 DEF StreamOK, n
        <5>3. QED
          BY <3>8, <5>1, <5>2
      <4>6. QED
        BY <4>5 DEF r, n, w, e
    <3>9. QED
      BY <1>5, <3>4, <3>5, <3>6, <3>7, <3>8
  <2>15. StreamsOK(st2, vw2, wr, em, ar2)
    BY <1>5, <1>8, <2>13, <2>14 DEF StreamsOK, rest
  <2>16. ASSUME NEW i \in 1..k, rest[i].kind = "eof",
                Live(rest, vw2, rest[i].stream, rest[i].serial)
         PROVE  em[rest[i].serial] = ar2[rest[i].serial]
                    + UnitsOf(rest, "data", rest[i].serial)
    <3> DEFINE u == rest[i].stream
               m == rest[i].serial
    <3>1. /\ i + 1 \in 1..(k + 1) /\ q[i + 1] = rest[i] /\ u \in Stream /\ m \in Serial
          /\ m # 0
      <4>1. i + 1 \in 1..(k + 1) /\ q[i + 1] = rest[i]
        BY <1>3, <1>4
      <4>2. u \in Stream /\ m \in Serial
        BY <1>1, <1>3, <4>1, QueueFact DEF q
      <4>3. m # 0
        BY <1>1, <1>3, <2>16, <4>1 DEF SerialsOK, q
      <4>4. QED
        BY <4>1, <4>2, <4>3
    <3> HIDE DEF u, m
    <3>2. Live(q, vw, u, m)
      <4>1. CASE Announced(rest, u, m)
        BY <1>3, <1>4, <4>1 DEF Announced, Live, k
      <4>2. CASE vw2[u].serial = m
        <5>1. CASE u # s
          BY <1>5, <3>1, <4>2, <5>1 DEF Live
        <5>2. CASE u = s /\ f.kind = "opened"
          <6>1. f.serial = m
            BY <1>5, <2>0, <4>2, <5>2
          <6>2. QED
            BY <1>3, <1>4, <5>2, <6>1 DEF Live, Announced, s
        <5>3. CASE u = s /\ f.kind # "opened"
          <6>1. v2.serial = m
            BY <1>5, <4>2, <5>3
          <6>2. v.serial = m
            BY <1>5, <1>7, <2>0, <3>1, <5>3, <6>1
          <6>3. QED
            BY <5>3, <6>2 DEF Live, s
        <5>4. QED
          BY <5>1, <5>2, <5>3
      <4>3. QED
        BY <2>16, <4>1, <4>2 DEF Live, u, m
    <3>3. em[m] = ar[m] + UnitsOf(q, "data", m)
      BY <1>3, <2>2, <2>16, <3>1, <3>2 DEF EofOK, u, m
    <3>4. CASE f.serial # m
      BY <2>8, <2>10, <3>1, <3>3, <3>4 DEF m
    <3>5. CASE f.kind # "data"
      BY <2>8, <2>10, <3>1, <3>3, <3>5 DEF m
    <3>6. CASE f.kind = "data" /\ f.serial = m
      <4>1. u = s
        <5>1. Named(st, vw, u, m)
          BY <1>3, <3>1 DEF Named, q, u, m
        <5>2. QED
          BY <2>4, <3>1, <3>6, <5>1
      <4>2. v # NoView
        BY <2>7, <3>2, <3>6, <4>1
      <4>3. ar2[m] = ar[m] + f.units /\ ar[m] \in Nat
        BY <1>1, <2>8, <3>1, <3>6, <4>2 DEF Flow
      <4>4. em[m] = ar2[m] + UnitsOf(rest, "data", m)
        <5> DEFINE d == UnitsOf(rest, "data", m)
                   c == ar[m]
                   x == f.units
        <5>1. d \in Nat /\ c \in Nat /\ x \in Nat /\ em[m] = c + (d + x) /\ ar2[m] = c + x
          BY <1>5, <2>11, <3>3, <3>6, <4>3
        <5> HIDE DEF d, c, x
        <5>2. em[m] = (c + x) + d
          BY <5>1
        <5>3. QED
          BY <5>1, <5>2 DEF d
      <4>5. QED
        BY <4>4 DEF m
    <3>7. QED
      BY <3>4, <3>5, <3>6
  <2>17. EofOK(rest, vw2, em, ar2)
    BY <2>16 DEF EofOK, k
  <2>18. QED
    BY <2>12, <2>15, <2>17
<1>11. QED
  BY <1>1, <1>8, <1>9, <1>10 DEF Sound, Flow, rest

\* The connection is gone, and everything with it.
LEMMA SoundEmpty ==
    ASSUME NEW h, NEW st, NEW vw, NEW wr, NEW em, NEW ar, NEW last,
           Sound(h, st, vw, wr, em, ar, last),
           NEW st2 \in StateType, st2.streams = [s \in Stream |-> NoStream],
           st2.queue = <<>>, st2.sockets = 0,
           NEW vw2, vw2 = [s \in Stream |-> NoView]
    PROVE  Sound(h, st2, vw2, wr, em, ar, last) /\ OpenIn(st2) = {}
<1>1. /\ Shape(h, st, vw, last) /\ Flow(h, st, vw, wr, em, ar, last) /\ last \in Serial
  BY DEF Sound, Shape
<1>2. OpenIn(st2) = {}
  BY DEF OpenIn
<1>3. 0 = Cardinality(OpenIn(st2))
  BY <1>2, FS_EmptySet
<1>4. NoView \in ViewState /\ NoView.serial = 0 /\ NoStream.serial = 0
  BY LimitAssumption DEF NoView, NoStream, ViewState, Serial
<1>5. Len(st2.queue) = 0 /\ 1..Len(st2.queue) = {}
  OBVIOUS
<1>6. SerialsOK(st2, vw2)
  BY <1>5 DEF SerialsOK
<1>7. NamesOK(st2, vw2, last)
  BY <1>4, <1>5 DEF NamesOK, Named
<1>8. /\ Ordered(st2.queue) /\ Single(st2.queue, vw2) /\ Finds(st2.queue, vw2)
      /\ Told(st2, vw2) /\ Over(st2)
  BY <1>2, <1>5 DEF Ordered, Single, Finds, Told, Over
<1>9. Shape(h, st2, vw2, last)
  BY <1>1, <1>3, <1>4, <1>6, <1>7, <1>8 DEF Shape
<1>10. Flow(h, st2, vw2, wr, em, ar, last)
  BY <1>1, <1>2, <1>5 DEF Flow, WritesOK, StreamsOK, EofOK
<1>11. QED
  BY <1>2, <1>9, <1>10 DEF Sound

-----------------------------------------------------------------------------
(* The methods of the tunnel keep what is sound.                           *)

\* The least of a set that has one, and the greatest.
LEMMA MinFact ==
    ASSUME NEW S, \E x \in S : \A y \in S : x <= y
    PROVE  Min(S) \in S /\ \A y \in S : Min(S) <= y
  BY DEF Min

\* The greater of two numbers.
LEMMA MaxFact ==
    ASSUME NEW S, \E x \in S : \A y \in S : x >= y
    PROVE  Max(S) \in S /\ \A y \in S : Max(S) >= y
  BY DEF Max

\* What is sent is pending, and fits the window.
LEMMA SendableFact ==
    ASSUME NEW st \in StateType, NEW r \in StreamState
    PROVE  /\ Sendable(st, r) \in Nat
           /\ Sendable(st, r) <= r.pending /\ Sendable(st, r) <= r.sendWindow
<1> DEFINE free == HighWater - Buffered(st.queue)
           R == {0, free}
           room == Max(R)
           a == r.pending
           b == r.sendWindow
           S == {a, b, room}
<1>1. Buffered(st.queue) \in Nat
  BY QueueFact, UnitsNat DEF Buffered
<1>2. free \in Int /\ a \in Nat /\ b \in Nat
  BY <1>1, WindowAssumption DEF StreamState
<1>3. Sendable(st, r) = Min(S)
  BY DEF Sendable
<1> HIDE DEF free, a, b
<1>4. \E x \in R : \A y \in R : x >= y
  BY <1>2
<1>5. R = {0, free}
  OBVIOUS
<1> HIDE DEF R
<1>6. room \in R /\ \A y \in R : room >= y
  BY <1>4, MaxFact
<1> HIDE DEF room
<1>7. room \in Nat
  BY <1>2, <1>5, <1>6
<1>8. \E x \in S : \A y \in S : x <= y
  BY <1>2, <1>7
<1>9. S = {a, b, room}
  OBVIOUS
<1> HIDE DEF S
<1>10. Min(S) \in S /\ \A y \in S : Min(S) <= y
  BY <1>8, MinFact
<1> DEFINE m == Min(S)
<1> HIDE DEF m
<1>11. m \in Nat /\ m <= a /\ m <= b
  BY <1>2, <1>7, <1>9, <1>10 DEF m
<1>12. QED
  BY <1>3, <1>11 DEF m, a, b

\* A socket pauses or resumes.
Paused(st, s, p, x) == [st EXCEPT !.streams[s].paused = p, !.timer = x]

\* That, and nothing else.
LEMMA PausedFact ==
    ASSUME NEW st \in StateType, NEW s \in Stream, NEW p \in BOOLEAN, NEW x \in BOOLEAN,
           NEW st2, st2 = Paused(st, s, p, x)
    PROVE  /\ st2 \in StateType /\ st2.queue = st.queue /\ st2.sockets = st.sockets
           /\ st2.streams[s].serial = st.streams[s].serial
           /\ st2.streams[s].sendWindow = st.streams[s].sendWindow
           /\ st2.streams[s].recvWindow = st.streams[s].recvWindow
           /\ st2.streams[s].pending = st.streams[s].pending
           /\ st2.streams[s].ended = st.streams[s].ended
           /\ \A t \in Stream : t # s => st2.streams[t] = st.streams[t]
<1> DEFINE r2 == [st.streams[s] EXCEPT !.paused = p]
           with == [st.streams EXCEPT ![s] = r2]
<1>1. st.streams \in [Stream -> StreamState] /\ st.streams[s] \in StreamState
  BY DEF StateType
<1>2. r2 \in StreamState
  BY <1>1 DEF StreamState
<1>3. /\ r2.serial = st.streams[s].serial /\ r2.sendWindow = st.streams[s].sendWindow
      /\ r2.recvWindow = st.streams[s].recvWindow /\ r2.pending = st.streams[s].pending
      /\ r2.ended = st.streams[s].ended
  BY <1>1 DEF StreamState
<1>4. with \in [Stream -> StreamState]
  BY <1>1, <1>2
<1>5. st2 = [st EXCEPT !.streams = with, !.timer = x]
  BY DEF StateType, Paused
<1> HIDE DEF r2
<1>6. with[s] = r2 /\ \A t \in Stream : t # s => with[t] = st.streams[t]
  BY <1>1
<1> HIDE DEF with
<1>7. st2 \in StateType /\ st2.streams = with /\ st2.queue = st.queue /\ st2.sockets = st.sockets
  BY <1>4, <1>5 DEF StateType
<1>8. QED
  BY <1>3, <1>4, <1>6, <1>7

\* Data leaves what is pending, and the window.
Taken(st, s, n) ==
    [st EXCEPT !.streams[s].pending = @ - n, !.streams[s].sendWindow = @ - n]

\* That, and nothing else.
LEMMA TakenFact ==
    ASSUME NEW st \in StateType, NEW s \in Stream, NEW n \in Nat,
           n <= st.streams[s].pending, n <= st.streams[s].sendWindow,
           NEW st2, st2 = Taken(st, s, n)
    PROVE  /\ st2 \in StateType /\ st2.queue = st.queue /\ st2.sockets = st.sockets
           /\ st2.timer = st.timer
           /\ st2.streams[s].serial = st.streams[s].serial
           /\ st2.streams[s].sendWindow = st.streams[s].sendWindow - n
           /\ st2.streams[s].recvWindow = st.streams[s].recvWindow
           /\ st2.streams[s].pending = st.streams[s].pending - n
           /\ st2.streams[s].ended = st.streams[s].ended
           /\ \A t \in Stream : t # s => st2.streams[t] = st.streams[t]
<1> DEFINE r == st.streams[s]
           r2 == [r EXCEPT !.pending = r.pending - n, !.sendWindow = r.sendWindow - n]
           with == [st.streams EXCEPT ![s] = r2]
<1>1. st.streams \in [Stream -> StreamState] /\ r \in StreamState
  BY DEF StateType
<1>2. r.pending - n \in Nat /\ r.sendWindow - n \in 0..MaxSendWindow
  BY <1>1, WindowAssumption DEF StreamState
<1>3. st2 = [st EXCEPT !.streams = with]
  BY <1>1 DEF StateType, StreamState, Taken
<1> HIDE DEF r
<1>4. r2 \in StreamState
  BY <1>1, <1>2 DEF StreamState
<1>5. /\ r2.serial = r.serial /\ r2.sendWindow = r.sendWindow - n
      /\ r2.recvWindow = r.recvWindow /\ r2.pending = r.pending - n /\ r2.ended = r.ended
  BY <1>1 DEF StreamState
<1> HIDE DEF r2
<1>6. /\ with \in [Stream -> StreamState] /\ with[s] = r2
      /\ \A t \in Stream : t # s => with[t] = st.streams[t]
  BY <1>1, <1>4
<1> HIDE DEF with
<1>7. /\ st2 \in StateType /\ st2.streams = with /\ st2.queue = st.queue
      /\ st2.sockets = st.sockets /\ st2.timer = st.timer
  BY <1>3, <1>6 DEF StateType
<1>8. QED
  BY <1>5, <1>6, <1>7 DEF r

\* A frame is sent.
LEMMA SendFact ==
    ASSUME NEW st \in StateType, NEW f \in Frame
    PROVE  /\ Send(st, f) \in StateType /\ Send(st, f).queue = Append(st.queue, f)
           /\ Send(st, f).streams = st.streams /\ Send(st, f).sockets = st.sockets
           /\ Send(st, f).timer = st.timer
<1>1. st.queue \in Seq(Frame)
  BY QueueFact
<1>2. Append(st.queue, f) \in Seq(Frame)
  BY <1>1, AppendFact
<1>3. QED
  BY <1>2 DEF Send, StateType

\* flush() of an open stream.
LEMMA FlushSound ==
    ASSUME NEW h, NEW st, NEW vw, NEW wr, NEW em, NEW ar, NEW last,
           Sound(h, st, vw, wr, em, ar, last), NEW s \in OpenIn(st)
    PROVE  /\ Sound(h, Flush(st, s), vw, wr, em, ar, last)
           /\ \A t \in Stream : t # s => Flush(st, s).streams[t] = st.streams[t]
<1> DEFINE r == st.streams[s]
           n == Sendable(st, r)
           f == Data(s, r.serial, n)
           sent == IF n = 0 THEN st ELSE Send(st, f)
           left == Taken(sent, s, n)
<1>1. Shape(h, st, vw, last) /\ st \in StateType
  BY DEF Sound, Shape
<1>2. s \in Stream /\ r \in StreamState /\ r.serial \in Serial \ {0}
  BY <1>1, SerialsApart
<1>3. n \in Nat /\ n <= r.pending /\ n <= r.sendWindow
  BY <1>1, <1>2, SendableFact
<1>4. Flush(st, s) = IF r.pending > n THEN Stall(left, s) ELSE Drain(left, s)
  BY DEF Flush, Taken
<1> HIDE DEF n
<1>5. f \in Frame
  BY <1>2, <1>3 DEF Data, Frame
<1>6. /\ sent \in StateType /\ sent.streams = st.streams /\ sent.sockets = st.sockets
      /\ sent.queue = IF n = 0 THEN st.queue ELSE Append(st.queue, f)
  <2> HIDE DEF f
  <2>1. QED
    BY <1>1, <1>5, SendFact
<1> HIDE DEF sent
<1>7. /\ left \in StateType /\ left.queue = sent.queue /\ left.sockets = st.sockets
      /\ left.timer = sent.timer
      /\ left.streams[s].serial = r.serial
      /\ left.streams[s].sendWindow = r.sendWindow - n
      /\ left.streams[s].recvWindow = r.recvWindow
      /\ left.streams[s].pending = r.pending - n
      /\ left.streams[s].ended = r.ended
      /\ \A t \in Stream : t # s => left.streams[t] = st.streams[t]
  BY <1>2, <1>3, <1>6, TakenFact
<1> HIDE DEF left, f, r
<1>8. ASSUME NEW st2 \in StateType, st2.queue = left.queue, st2.sockets = left.sockets,
             st2.streams[s].serial = r.serial,
             st2.streams[s].sendWindow = r.sendWindow - n,
             st2.streams[s].recvWindow = r.recvWindow,
             st2.streams[s].pending = r.pending - n,
             st2.streams[s].ended = r.ended,
             \A t \in Stream : t # s => st2.streams[t] = st.streams[t]
      PROVE  Sound(h, st2, vw, wr, em, ar, last) /\ OpenIn(st2) = OpenIn(st)
  <2>1. st2.queue = IF n = 0 THEN st.queue ELSE Append(st.queue, Data(s, r.serial, n))
    BY <1>6, <1>7, <1>8 DEF f
  <2>2. st2.streams[s] # NoStream
    BY <1>2, <1>8 DEF NoStream
  <2>3. r = st.streams[s] /\ st2.sockets = st.sockets
    BY <1>7, <1>8 DEF r
  <2>4. QED
    BY <1>3, <1>8, <2>1, <2>2, <2>3, SoundMoves
<1>9. CASE r.pending > n
  <2>0. PICK p \in BOOLEAN : p = TRUE
    OBVIOUS
  <2> DEFINE x == left.timer \/ left.streams[s].sendWindow > 0
             st2 == Paused(left, s, p, x)
  <2>1. Flush(st, s) = st2
    BY <1>4, <1>9, <2>0 DEF Stall, Paused
  <2>2. x \in BOOLEAN
    BY <1>7 DEF StateType
  <2> HIDE DEF x
  <2>3. /\ st2 \in StateType /\ st2.queue = left.queue /\ st2.sockets = left.sockets
        /\ st2.streams[s].serial = left.streams[s].serial
        /\ st2.streams[s].sendWindow = left.streams[s].sendWindow
        /\ st2.streams[s].recvWindow = left.streams[s].recvWindow
        /\ st2.streams[s].pending = left.streams[s].pending
        /\ st2.streams[s].ended = left.streams[s].ended
        /\ \A t \in Stream : t # s => st2.streams[t] = left.streams[t]
    BY <1>2, <1>7, <2>2, PausedFact
  <2> HIDE DEF st2
  <2>4. Sound(h, st2, vw, wr, em, ar, last)
    BY <1>7, <1>8, <2>3
  <2>5. QED
    BY <1>7, <2>1, <2>3, <2>4
<1>10. CASE ~(r.pending > n) /\ ~r.ended
  <2>0. PICK p \in BOOLEAN : p = FALSE
    OBVIOUS
  <2> DEFINE st2 == Paused(left, s, p, left.timer)
  <2>1. Flush(st, s) = [left EXCEPT !.streams[s].paused = FALSE]
    BY <1>4, <1>7, <1>10 DEF Drain
  <2>2. [left EXCEPT !.streams[s].paused = FALSE] = st2
    BY <1>7, <2>0 DEF StateType, Paused
  <2>3. left.timer \in BOOLEAN
    BY <1>7 DEF StateType
  <2>4. /\ st2 \in StateType /\ st2.queue = left.queue /\ st2.sockets = left.sockets
        /\ st2.streams[s].serial = left.streams[s].serial
        /\ st2.streams[s].sendWindow = left.streams[s].sendWindow
        /\ st2.streams[s].recvWindow = left.streams[s].recvWindow
        /\ st2.streams[s].pending = left.streams[s].pending
        /\ st2.streams[s].ended = left.streams[s].ended
        /\ \A t \in Stream : t # s => st2.streams[t] = left.streams[t]
    BY <1>2, <1>7, <2>3, PausedFact
  <2>5. Flush(st, s) = st2
    BY <2>1, <2>2
  <2> HIDE DEF st2
  <2>6. Sound(h, st2, vw, wr, em, ar, last)
    BY <1>7, <1>8, <2>4
  <2>7. QED
    BY <1>7, <2>4, <2>5, <2>6
<1>11. CASE ~(r.pending > n) /\ r.ended
  <2>1. Flush(st, s) = CloseStream(left, s, "eof", TRUE)
    BY <1>4, <1>7, <1>11 DEF Drain
  <2>2. Sound(h, left, vw, wr, em, ar, last) /\ OpenIn(left) = OpenIn(st)
    BY <1>7, <1>8
  <2>3. left.streams[s].pending = 0
    <3>1. r.pending \in Nat
      BY <1>2 DEF StreamState
    <3>2. QED
      BY <1>3, <1>7, <1>11, <3>1
  <2>4. s \in OpenIn(left) /\ "eof" \in Reason /\ TRUE \in BOOLEAN
    BY <2>2 DEF Reason
  <2>5. /\ Sound(h, CloseStream(left, s, "eof", TRUE), vw, wr, em, ar, last)
        /\ CloseStream(left, s, "eof", TRUE).streams = [left.streams EXCEPT ![s] = NoStream]
    <3>1. PICK b \in BOOLEAN : b = TRUE
      OBVIOUS
    <3>2. PICK why \in Reason : why = "eof"
      BY <2>4
    <3>3. /\ Sound(h, CloseStream(left, s, why, b), vw, wr, em, ar, last)
          /\ CloseStream(left, s, why, b).streams = [left.streams EXCEPT ![s] = NoStream]
      BY <2>2, <2>3, <2>4, SoundCloses
    <3>4. QED
      BY <3>1, <3>2, <3>3
  <2>6. \A t \in Stream : t # s => CloseStream(left, s, "eof", TRUE).streams[t] = st.streams[t]
    BY <1>7, <2>5 DEF StateType
  <2>7. QED
    BY <2>1, <2>5, <2>6
<1>12. QED
  BY <1>9, <1>10, <1>11

-----------------------------------------------------------------------------
(* Answers to open requests: only open() sends them.                       *)

\* A sum is at least each of its terms.
LEMMA TotalTerm ==
    ASSUME NEW w \in Seq(Nat), NEW i \in 1..Len(w)
    PROVE  w[i] <= Total(w)
<1> DEFINE n == Len(w)
<1>1. n \in Nat /\ w \in [1..n -> Nat] /\ i \in 1..n
  BY LenProperties
<1>2. PICK f : Sums(f, w, n) /\ Total(w) = f[n]
  BY TotalIs
<1> HIDE DEF n
<1>3. f[0] = 0 /\ (\A j \in 1..n : f[j] = f[j - 1] + w[j]) /\ \A j \in 0..n : f[j] \in Nat
  BY <1>1, <1>2, SumsAre
<1> DEFINE S == {k \in Nat : i <= k /\ k <= n => w[i] <= f[k]}
<1>4. 0 \in S
  BY <1>1
<1>5. ASSUME NEW k \in Nat, k \in S PROVE k + 1 \in S
  <2> SUFFICES ASSUME i <= k + 1, k + 1 <= n PROVE w[i] <= f[k + 1]
    OBVIOUS
  <2>1. k + 1 \in 1..n /\ (k + 1) - 1 = k /\ k \in 0..n
    BY <1>1
  <2>2. f[k + 1] = f[k] + w[k + 1]
    BY <1>3, <2>1
  <2>3. f[k] \in Nat /\ w[k + 1] \in Nat /\ w[i] \in Nat
    BY <1>1, <1>3, <2>1
  <2>4. CASE i = k + 1
    BY <2>2, <2>3, <2>4
  <2>5. CASE i # k + 1
    <3>1. i <= k /\ k <= n
      BY <1>1, <2>5
    <3>2. w[i] <= f[k]
      BY <1>5, <3>1
    <3>3. QED
      BY <2>2, <2>3, <3>2
  <2>6. QED
    BY <2>4, <2>5
<1> HIDE DEF S
<1>6. Nat \subseteq S
  BY <1>4, <1>5, SetInduction
<1>7. i <= n /\ n \in Nat
  BY <1>1
<1>8. QED
  BY <1>2, <1>6, <1>7 DEF S

\* An answer that is under way counts.
LEMMA AnswersSome ==
    ASSUME NEW q \in Seq(Frame), NEW s, Answers(q, s) = 0, NEW i \in 1..Len(q)
    PROVE  q[i].kind \in {"opened", "failed"} => q[i].stream # s
<1> DEFINE w == Flags(q, s)
<1>1. /\ w \in Seq(Nat) /\ Len(w) = Len(q) /\ Answers(q, s) = Total(w)
      /\ \A j \in 1..Len(q) : w[j] = AnswerTo(q[j], s)
  BY FlagsFact
<1> HIDE DEF w
<1>2. w[i] <= 0
  BY <1>1, TotalTerm
<1>3. QED
  BY <1>1, <1>2 DEF AnswerTo

\* A frame that is no answer.
LEMMA AnswersQuiet ==
    ASSUME NEW q \in Seq(Frame), NEW f \in Frame, f.kind \notin {"opened", "failed"}, NEW s
    PROVE  Answers(Append(q, f), s) = Answers(q, s)
<1>1. Answers(Append(q, f), s) = Answers(q, s) + AnswerTo(f, s)
  BY AnswersAppend
<1>2. AnswerTo(f, s) = 0 /\ Answers(q, s) \in Nat
  BY AnswersNat DEF AnswerTo
<1>3. QED
  BY <1>1, <1>2

\* closeStream() answers no open request.
LEMMA CloseQuiet ==
    ASSUME NEW st \in StateType, NEW s \in Stream, NEW why \in Reason, NEW notify \in BOOLEAN,
           NEW t
    PROVE  Answers(CloseStream(st, s, why, notify).queue, t) = Answers(st.queue, t)
<1> DEFINE f == Closed(s, st.streams[s].serial, why)
<1>1. f \in Frame /\ f.kind \notin {"opened", "failed"}
  <2>1. st.streams[s].serial \in Serial
    BY DEF StateType, StreamState
  <2>2. QED
    BY <2>1 DEF Closed, Frame, Reason
<1>2. CloseStream(st, s, why, notify).queue = IF notify THEN Append(st.queue, f) ELSE st.queue
  BY DEF CloseStream, Send, StateType
<1> HIDE DEF f
<1>3. st.queue \in Seq(Frame)
  BY QueueFact
<1>4. Answers(Append(st.queue, f), t) = Answers(st.queue, t)
  BY <1>1, <1>3, AnswersQuiet
<1>5. QED
  BY <1>2, <1>4

\* Neither does flush().
LEMMA FlushQuiet ==
    ASSUME NEW st \in StateType, NEW s \in Stream, NEW t
    PROVE  Answers(Flush(st, s).queue, t) = Answers(st.queue, t)
<1> DEFINE r == st.streams[s]
           n == Sendable(st, r)
           f == Data(s, r.serial, n)
           sent == IF n = 0 THEN st ELSE Send(st, f)
           left == Taken(sent, s, n)
<1>1. r \in StreamState
  BY DEF StateType
<1>2. n \in Nat /\ n <= r.pending /\ n <= r.sendWindow
  BY <1>1, SendableFact
<1>3. Flush(st, s) = IF r.pending > n THEN Stall(left, s) ELSE Drain(left, s)
  BY DEF Flush, Taken
<1> HIDE DEF n
<1>4. f \in Frame /\ f.kind \notin {"opened", "failed"}
  BY <1>1, <1>2 DEF Data, Frame, StreamState
<1> HIDE DEF f
<1>5. st.queue \in Seq(Frame)
  BY QueueFact
<1>6. Answers(Append(st.queue, f), t) = Answers(st.queue, t)
  BY <1>4, <1>5, AnswersQuiet
<1>7. /\ sent \in StateType /\ sent.streams = st.streams
      /\ Answers(sent.queue, t) = Answers(st.queue, t)
  BY <1>4, <1>6, SendFact
<1> HIDE DEF sent
<1>8. left \in StateType /\ left.queue = sent.queue
  BY <1>2, <1>7, TakenFact
<1> HIDE DEF left, r
<1>9. Stall(left, s).queue = left.queue
  BY <1>8 DEF Stall, StateType
<1>10. Answers(Drain(left, s).queue, t) = Answers(left.queue, t)
  <2>1. PICK b \in BOOLEAN : b = TRUE
    OBVIOUS
  <2>2. PICK why \in Reason : why = "eof"
    BY DEF Reason
  <2>3. Answers(CloseStream(left, s, why, b).queue, t) = Answers(left.queue, t)
    BY <1>8, CloseQuiet
  <2>4. [left EXCEPT !.streams[s].paused = FALSE].queue = left.queue
    BY <1>8 DEF StateType
  <2>5. Drain(left, s) = IF left.streams[s].ended THEN CloseStream(left, s, "eof", TRUE)
                         ELSE [left EXCEPT !.streams[s].paused = FALSE]
    BY DEF Drain
  <2>6. CASE left.streams[s].ended
    BY <2>1, <2>2, <2>3, <2>5, <2>6
  <2>7. CASE ~left.streams[s].ended
    BY <2>4, <2>5, <2>7
  <2>8. QED
    BY <2>6, <2>7
<1>11. QED
  BY <1>3, <1>7, <1>8, <1>9, <1>10

\* What the retry does of stream n, and what it has done up to there.
FlushOf(x, n) ==
    IF \E s \in Stream : streams[s].serial = n
    THEN Flush(x, CHOOSE s \in Stream : streams[s].serial = n) ELSE x
Flushes(f, st, n) == f = [i \in 0..n |-> IF i = 0 THEN st ELSE FlushOf(f[i - 1], i)]

\* The retry goes on with one more stream.
LEMMA FlushesStep ==
    ASSUME NEW st, NEW n \in Nat, NEW f, Flushes(f, st, n)
    PROVE  \E g : Flushes(g, st, n + 1)
<1> DEFINE next == FlushOf(f[n], n + 1)
           g == [i \in 0..(n + 1) |-> IF i = n + 1 THEN next ELSE f[i]]
<1>1. \A i \in 0..n : g[i] = f[i]
  OBVIOUS
<1>2. \A i \in 0..n : f[i] = IF i = 0 THEN st ELSE FlushOf(f[i - 1], i)
  BY Zenon DEF Flushes
<1>3. ASSUME NEW i \in 0..(n + 1)
      PROVE  g[i] = IF i = 0 THEN st ELSE FlushOf(g[i - 1], i)
  <2>1. CASE i = n + 1
    <3>1. g[i] = next /\ g[i - 1] = f[n] /\ i # 0
      BY <2>1
    <3>2. QED
      BY <3>1, <2>1
  <2>2. CASE i # n + 1
    <3>1. i \in 0..n /\ (i # 0 => i - 1 \in 0..n)
      BY <2>2
    <3> HIDE DEF g
    <3>2. QED
      BY <1>1, <1>2, <3>1
  <2>3. QED
    BY <2>1, <2>2
<1>4. g = [i \in 0..(n + 1) |-> g[i]]
  OBVIOUS
<1> HIDE DEF g
<1>5. Flushes(g, st, n + 1)
  BY <1>3, <1>4, Zenon DEF Flushes
<1>6. QED
  BY <1>5

\* FlushAll is what the retry has done after the last stream.
LEMMA FlushAllIs ==
    ASSUME NEW st
    PROVE  \E f : Flushes(f, st, MaxOpens) /\ FlushAll(st) = f[MaxOpens]
<1> DEFINE S == {k \in Nat : \E f : Flushes(f, st, k)}
<1>1. 0 \in S
  <2>1. Flushes([i \in 0..0 |-> st], st, 0)
    BY DEF Flushes
  <2>2. QED
    BY <2>1
<1>2. \A k \in Nat : k \in S => k + 1 \in S
  BY FlushesStep
<1> HIDE DEF S
<1>3. Nat \subseteq S
  BY <1>1, <1>2, SetInduction
<1> DEFINE f == CHOOSE f : Flushes(f, st, MaxOpens)
<1>4. Flushes(f, st, MaxOpens)
  BY <1>3, LimitAssumption DEF S
<1>5. FlushAll(st) = f[MaxOpens]
  BY Zenon DEF FlushAll, Flushes, FlushOf, Serial
<1>6. QED
  BY <1>4, <1>5

\* The flushes of a retry, one after the other: the streams still to come are as
\* they were.
LEMMA FlushAllSound ==
    ASSUME NEW h, NEW st, NEW vw, NEW wr, NEW em, NEW ar, NEW last,
           Sound(h, st, vw, wr, em, ar, last), st.streams = streams
    PROVE  /\ Sound(h, FlushAll(st), vw, wr, em, ar, last)
           /\ \A t \in Stream : Answers(FlushAll(st).queue, t) = Answers(st.queue, t)
<1>1. PICK f : Flushes(f, st, MaxOpens) /\ FlushAll(st) = f[MaxOpens]
  BY FlushAllIs
<1>2. f[0] = st /\ \A i \in 1..MaxOpens : f[i] = FlushOf(f[i - 1], i)
  <2>1. \A i \in 0..MaxOpens : f[i] = IF i = 0 THEN st ELSE FlushOf(f[i - 1], i)
    BY <1>1, Zenon DEF Flushes
  <2>2. QED
    BY <2>1, LimitAssumption
<1> DEFINE Good(x, k) ==
               /\ Sound(h, x, vw, wr, em, ar, last)
               /\ \A s \in Stream : streams[s].serial > k => x.streams[s] = streams[s]
               /\ \A t \in Stream : Answers(x.queue, t) = Answers(st.queue, t)
           S == {k \in Nat : k <= MaxOpens => Good(f[k], k)}
<1>3. 0 \in S
  BY <1>2
<1>4. ASSUME NEW k \in Nat, k \in S PROVE k + 1 \in S
  <2> SUFFICES ASSUME k + 1 <= MaxOpens PROVE Good(f[k + 1], k + 1)
    OBVIOUS
  <2> DEFINE x == f[k]
  <2>1. Good(x, k)
    BY <1>4, LimitAssumption
  <2>2. f[k + 1] = FlushOf(x, k + 1)
    <3>1. k + 1 \in 1..MaxOpens /\ (k + 1) - 1 = k
      BY LimitAssumption
    <3>2. QED
      BY <1>2, <3>1
  <2> HIDE DEF x
  <2>3. \A s \in Stream : streams[s].serial \in Serial
    <3>1. st \in StateType
      BY DEF Sound, Shape
    <3>2. QED
      BY <3>1 DEF StateType, StreamState
  <2>4. CASE ~ \E s \in Stream : streams[s].serial = k + 1
    <3>1. f[k + 1] = x
      BY <2>2, <2>4 DEF FlushOf
    <3>2. QED
      BY <2>1, <2>3, <3>1 DEF Serial
  <2>5. CASE \E s \in Stream : streams[s].serial = k + 1
    <3> DEFINE s == CHOOSE s \in Stream : streams[s].serial = k + 1
    <3>1. s \in Stream /\ streams[s].serial = k + 1
      BY <2>5
    <3>2. f[k + 1] = Flush(x, s)
      BY <2>2, <2>5 DEF FlushOf
    <3> HIDE DEF s
    <3>3. x.streams[s] = streams[s]
      BY <2>1, <3>1
    <3>4. s \in OpenIn(x)
      BY <3>1, <3>3 DEF OpenIn, NoStream
    <3>5. /\ Sound(h, Flush(x, s), vw, wr, em, ar, last)
          /\ \A t \in Stream : t # s => Flush(x, s).streams[t] = x.streams[t]
      BY <2>1, <3>4, FlushSound
    <3>6. ASSUME NEW t \in Stream, streams[t].serial > k + 1
          PROVE  Flush(x, s).streams[t] = streams[t]
      <4>1. t # s /\ streams[t].serial > k
        BY <2>3, <3>1, <3>6 DEF Serial
      <4>2. QED
        BY <2>1, <3>5, <4>1
    <3>7. \A t \in Stream : Answers(Flush(x, s).queue, t) = Answers(x.queue, t)
      <4>1. x \in StateType
        BY <2>1 DEF Sound, Shape
      <4>2. QED
        BY <3>1, <4>1, FlushQuiet
    <3>8. QED
      BY <2>1, <3>2, <3>5, <3>6, <3>7
  <2>6. QED
    BY <2>4, <2>5
<1> HIDE DEF Good
<1>5. Nat \subseteq S
  <2> HIDE DEF S
  <2>1. QED
    BY <1>3, <1>4, SetInduction
<1>6. Good(f[MaxOpens], MaxOpens)
  BY <1>5, LimitAssumption
<1>7. QED
  BY <1>1, <1>6 DEF Good

-----------------------------------------------------------------------------
(* Connects under way: no more than were asked for.                        *)

\* The connects under way are finitely many.
LEMMA AttemptsFinite ==
    ASSUME NEW cn
    PROVE  IsFiniteSet(Attempts(cn))
<1>1. IsFiniteSet(Stream) /\ IsFiniteSet(1..MaxOpens)
  BY LimitAssumption, FS_Interval
<1>2. IsFiniteSet(Stream \X (1..MaxOpens))
  BY <1>1, FS_Product
<1>3. Attempts(cn) \subseteq Stream \X (1..MaxOpens)
  BY DEF Attempts
<1>4. QED
  BY <1>2, <1>3, FS_Subset

\* One connect more is one attempt more.
LEMMA AttemptsMore ==
    ASSUME NEW cn \in [Stream -> Nat], NEW s \in Stream, cn[s] + 1 <= MaxOpens,
           NEW cn2 \in [Stream -> Nat], cn2[s] = cn[s] + 1,
           \A t \in Stream : t # s => cn2[t] = cn[t]
    PROVE  Cardinality(Attempts(cn2)) = Cardinality(Attempts(cn)) + 1
<1> DEFINE x == <<s, cn2[s]>>
           A == Attempts(cn)
           B == Attempts(cn2)
<1>0. MaxOpens \in Nat /\ cn[s] \in Nat /\ cn2[s] \in 1..MaxOpens
  BY LimitAssumption
<1>1. x \in Stream \X (1..MaxOpens) /\ x[1] = s /\ x[2] = cn2[s]
  BY <1>0
<1>2. x \notin A
  BY <1>0, <1>1 DEF Attempts
<1>3. B = A \cup {x}
  <2>1. x \in B
    BY <1>0, <1>1 DEF Attempts
  <2>2. ASSUME NEW t \in Stream, NEW k \in 1..MaxOpens
        PROVE  <<t, k>> \in B <=> <<t, k>> \in A \/ (t = s /\ k = cn2[s])
    <3>1. k \in Int /\ (k <= cn[s] + 1 <=> k <= cn[s] \/ k = cn[s] + 1)
      BY <1>0
    <3>2. (<<t, k>> \in B <=> k <= cn2[t]) /\ (<<t, k>> \in A <=> k <= cn[t])
      BY DEF Attempts
    <3>3. CASE t = s
      BY <3>1, <3>2, <3>3, <1>0
    <3>4. CASE t # s
      BY <3>2, <3>4
    <3>5. QED
      BY <3>3, <3>4
  <2>3. A \subseteq Stream \X (1..MaxOpens) /\ B \subseteq Stream \X (1..MaxOpens)
    BY DEF Attempts
  <2> HIDE DEF A, B
  <2>4. QED
    BY <2>1, <2>2, <2>3
<1>4. IsFiniteSet(A)
  BY AttemptsFinite
<1> HIDE DEF A, B, x
<1>5. Cardinality(B) = Cardinality(A) + 1
  BY <1>2, <1>3, <1>4, FS_AddElement
<1>6. QED
  BY <1>5 DEF A, B

\* An open request that connects, and one that does not.
LEMMA CountedAsks ==
    ASSUME NEW cn, NEW last \in Nat, NEW n, Counted(cn, last, n), n < MaxOpens,
           NEW s \in Stream
    PROVE  Counted(cn, last, n + 1) /\ Counted([cn EXCEPT ![s] = @ + 1], last, n + 1)
<1> DEFINE cn2 == [cn EXCEPT ![s] = @ + 1]
           a == Cardinality(Attempts(cn))
           b == Cardinality(Attempts(cn2))
<1>1. /\ cn \in [Stream -> Nat] /\ n \in Nat /\ last + a <= n /\ n + 1 \in 0..MaxOpens
      /\ \A t \in Stream : cn[t] \in Nat /\ cn[t] <= n
  BY LimitAssumption DEF Counted
<1>2. cn2 \in [Stream -> Nat] /\ cn2[s] = cn[s] + 1 /\ \A t \in Stream : t # s => cn2[t] = cn[t]
  BY <1>1
<1>3. cn[s] + 1 <= MaxOpens
  BY <1>1, LimitAssumption
<1> HIDE DEF cn2
<1>4. b = a + 1
  BY <1>1, <1>2, <1>3, AttemptsMore
<1>5. a \in Nat
  BY AttemptsFinite, FS_CardinalityType
<1> HIDE DEF a, b
<1>6. last + a <= n + 1 /\ last + b <= n + 1
  BY <1>1, <1>4, <1>5
<1>7. \A t \in Stream : cn[t] <= n + 1 /\ cn2[t] <= n + 1
  BY <1>1, <1>2
<1>8. QED
  BY <1>1, <1>2, <1>6, <1>7 DEF Counted, cn2, a, b

\* A connect ends: there is room for its stream.
LEMMA CountedConnects ==
    ASSUME NEW cn, NEW last \in Nat, NEW n, Counted(cn, last, n), NEW s \in Stream,
           cn[s] > 0, NEW cn2, cn2 = [cn EXCEPT ![s] = @ - 1]
    PROVE  Counted(cn2, last, n) /\ Counted(cn2, last + 1, n) /\ last + 1 \in Serial
<1> DEFINE a == Cardinality(Attempts(cn))
           b == Cardinality(Attempts(cn2))
<1>1. /\ cn \in [Stream -> Nat] /\ n \in Nat /\ n <= MaxOpens /\ n \in 0..MaxOpens /\ last + a <= n
      /\ \A t \in Stream : cn[t] \in Nat /\ cn[t] <= n
  BY LimitAssumption DEF Counted
<1>2. cn[s] - 1 \in Nat
  BY <1>1
<1>3. cn2 \in [Stream -> Nat] /\ cn2[s] = cn[s] - 1 /\ \A t \in Stream : t # s => cn2[t] = cn[t]
  BY <1>1, <1>2
<1>4. /\ cn[s] = cn2[s] + 1 /\ cn2[s] + 1 <= MaxOpens
      /\ \A t \in Stream : t # s => cn[t] = cn2[t]
  BY <1>1, <1>2, <1>3, LimitAssumption
<1>5. a = b + 1
  BY <1>1, <1>3, <1>4, AttemptsMore
<1>6. b \in Nat
  BY AttemptsFinite, FS_CardinalityType
<1> HIDE DEF a, b
<1>7. last + b <= n /\ (last + 1) + b <= n /\ last + 1 <= MaxOpens
  BY <1>1, <1>5, <1>6, LimitAssumption
<1>8. \A t \in Stream : cn2[t] <= n
  BY <1>1, <1>2, <1>3
<1>9. QED
  BY <1>1, <1>3, <1>7, <1>8, LimitAssumption DEF Counted, b, Serial

-----------------------------------------------------------------------------
(* The steps of the tunnel keep the invariant.                             *)

\* Commit makes the state what it is given.
LEMMA CommitFact ==
    ASSUME NEW st \in StateType, Commit(st)
    PROVE  Now' = st
  BY DEF Commit, Now, StateType

\* What the invariant says of the tunnel's state.
LEMMA NowFact ==
    ASSUME IInv
    PROVE  /\ Now \in StateType /\ toPhone \in Seq(Frame)
           /\ Now.streams = streams /\ Now.queue = toPhone /\ Now.timer = timer
           /\ Now.sockets = sockets /\ OpenIn(Now) = OpenStreams
           /\ streams \in [Stream -> StreamState] /\ view \in [Stream -> ViewState]
           /\ writes \in [Stream -> [Serial -> Nat]]
           /\ emitted \in [Serial -> Nat] /\ arrived \in [Serial -> Nat]
           /\ connecting \in [Stream -> Nat] /\ asks \in [Stream -> Nat]
           /\ born \in Serial /\ born \in Nat
<1>1. Now \in StateType /\ view \in [Stream -> ViewState] /\ born \in Serial
  BY DEF IInv, Sound, Shape
<1>2. /\ Now.streams = streams /\ Now.queue = toPhone /\ Now.timer = timer
      /\ Now.sockets = sockets
  BY DEF Now
<1>3. toPhone \in Seq(Frame) /\ streams \in [Stream -> StreamState]
  BY <1>1, <1>2 DEF StateType
<1>4. /\ writes \in [Stream -> [Serial -> Nat]] /\ emitted \in [Serial -> Nat]
      /\ arrived \in [Serial -> Nat] /\ connecting \in [Stream -> Nat]
      /\ asks \in [Stream -> Nat]
  BY DEF IInv, Sound, Flow, WritesOK, Counted, Asked
<1>5. OpenIn(Now) = OpenStreams
  BY <1>2 DEF OpenIn, OpenStreams, IsOpen
<1>6. born \in Nat
  BY <1>1 DEF Serial
<1>7. QED
  BY <1>1, <1>2, <1>3, <1>4, <1>5, <1>6

\* An open stream is a live tunnel's.
LEMMA OpenFact ==
    ASSUME IInv, NEW s \in Stream, IsOpen(s)
    PROVE  ~disposed /\ s \in OpenIn(Now) /\ streams[s].serial \in Serial \ {0}
<1>1. s \in OpenIn(Now)
  BY NowFact DEF OpenStreams
<1>2. streams[s].serial \in Serial \ {0}
  BY <1>1, NowFact, SerialsApart DEF IInv, Sound
<1>3. QED
  BY <1>1, <1>2 DEF IInv, Ended, IsOpen

\* A step in which streams and frames go on, and no open request comes or ends.
LEMMA StreamStep ==
    ASSUME IInv, NEW st, Commit(st),
           Sound(honest, st, view', writes', emitted', arrived', born),
           \A t \in Stream : Answers(st.queue, t) = Answers(toPhone, t),
           disposed => st.queue = toPhone /\ st.streams = streams /\ ~st.timer /\ view' = view,
           honest => \A t \in Stream : view[t] = NoView => view'[t] = NoView,
           enabled' = enabled, disposed' = disposed, honest' = honest,
           authorizing' = authorizing, grants' = grants, cancelled' \subseteq Stream,
           connecting' = connecting, asks' = asks, opens' = opens, born' = born
    PROVE  IInv'
<1>1. st \in StateType
  BY DEF Sound, Shape
<1>2. Now' = st
  BY <1>1, CommitFact
<1>3. Sound(honest, Now, view, writes, emitted, arrived, born)'
  BY <1>2
<1>4. Counted(connecting, born, opens)'
  BY DEF IInv
<1>5. toPhone' = st.queue /\ streams' = st.streams /\ timer' = st.timer
  BY DEF Commit
<1>6. Asked'
  <2>1. \A t \in Stream : Answers(toPhone', t) = Answers(toPhone, t)
    BY <1>5
  <2>2. Asked
    BY DEF IInv
  <2>3. ~disposed => \A t \in Stream : asks'[t] = connecting'[t] + Answers(toPhone', t)
    BY <2>1, <2>2 DEF Asked
  <2>4. honest => \A t \in Stream : asks'[t] <= 1 /\ (asks'[t] = 1 => view'[t] = NoView)
    BY <2>2 DEF Asked
  <2>5. asks' \in [Stream -> Nat]
    BY <2>2 DEF Asked
  <2>6. QED
    BY <2>3, <2>4, <2>5 DEF Asked
<1>7. Ended'
  BY <1>5 DEF IInv, Ended
<1>8. Others'
  BY DEF IInv, Others
<1>9. QED
  BY <1>3, <1>4, <1>6, <1>7, <1>8 DEF IInv

\* authorize(), and the setting: nothing of a stream changes.
LEMMA QuietStep ==
    ASSUME IInv, streams' = streams, timer' = timer, sockets' = sockets, toPhone' = toPhone,
           view' = view, writes' = writes, emitted' = emitted, arrived' = arrived,
           born' = born, connecting' = connecting, opens' = opens, asks' = asks,
           disposed' = disposed, honest' = honest, cancelled' = cancelled,
           enabled' \in BOOLEAN, authorizing' \subseteq Port, grants' \subseteq Port
    PROVE  IInv'
<1>1. Now' = Now
  BY DEF Now
<1>2. Sound(honest, Now, view, writes, emitted, arrived, born)'
  BY <1>1 DEF IInv
<1>3. Counted(connecting, born, opens)' /\ Asked' /\ Ended' /\ Others'
  BY DEF IInv, Asked, Ended, Others
<1>4. QED
  BY <1>2, <1>3 DEF IInv

\* A port is asked for, and granted or not, beside the streams.
LEMMA AuthorizeStep ==
    ASSUME IInv, NEW p \in Port,
           Authorize(p) \/ \E mentioned \in BOOLEAN : AuthorizeAnswered(p, mentioned)
    PROVE  IInv'
<1>1. enabled \in BOOLEAN /\ authorizing \subseteq Port /\ grants \subseteq Port
  BY DEF IInv, Others
<1>2. CASE Authorize(p)
  BY <1>1, <1>2, QuietStep DEF Authorize, phone, history
<1>3. ASSUME NEW mentioned \in BOOLEAN, AuthorizeAnswered(p, mentioned)
      PROVE  IInv'
  <2>1. grants' \subseteq Port
    BY <1>1, <1>3 DEF AuthorizeAnswered, Granted
  <2>2. QED
    BY <1>1, <1>3, <2>1, QuietStep DEF AuthorizeAnswered, phone, history
<1>4. QED
  BY <1>2, <1>3

\* The setting goes on or off.
LEMMA SwitchStep ==
    ASSUME IInv, Switch \/ UNCHANGED vars
    PROVE  IInv'
<1>1. enabled' \in BOOLEAN /\ authorizing' \subseteq Port /\ grants' \subseteq Port
  BY DEF IInv, Others, Switch, vars, grantVars
<1>2. QED
  BY <1>1, QuietStep DEF Switch, vars, grantVars, phone, history

\* open(), up to its await.
LEMMA OpenStep ==
    ASSUME IInv, NEW s \in Stream, NEW p \in Port, Open(s, p)
    PROVE  IInv'
<1>1. /\ ~disposed /\ opens < MaxOpens /\ opens' = opens + 1 /\ asks' = [asks EXCEPT ![s] = @ + 1]
      /\ honest => view[s] = NoView /\ asks[s] = 0
      /\ streams' = streams /\ timer' = timer /\ sockets' = sockets /\ view' = view
      /\ writes' = writes /\ emitted' = emitted /\ arrived' = arrived /\ born' = born
      /\ disposed' = disposed /\ honest' = honest /\ cancelled' \subseteq cancelled
      /\ enabled' = enabled /\ authorizing' = authorizing /\ grants' = grants
  BY DEF Open, history, grantVars
<1>2. /\ Now \in StateType /\ toPhone \in Seq(Frame) /\ born \in Nat
      /\ connecting \in [Stream -> Nat] /\ asks \in [Stream -> Nat]
  BY NowFact
<1>3. /\ Counted(connecting, born, opens) /\ Asked /\ Others
      /\ Sound(honest, Now, view, writes, emitted, arrived, born)
  BY DEF IInv
<1>4. /\ Counted(connecting, born, opens + 1)
      /\ Counted([connecting EXCEPT ![s] = @ + 1], born, opens + 1)
  BY <1>1, <1>2, <1>3, CountedAsks
<1>5. Others' /\ Ended'
  BY <1>1, <1>3 DEF Others, Ended
<1>6. /\ asks' \in [Stream -> Nat] /\ asks'[s] = asks[s] + 1
      /\ \A t \in Stream : t # s => asks'[t] = asks[t]
  BY <1>1, <1>2
<1>7. honest => \A t \in Stream : asks'[t] <= 1 /\ (asks'[t] = 1 => view'[t] = NoView)
  BY <1>1, <1>2, <1>3, <1>6 DEF Asked
<1>8. CASE connecting' = [connecting EXCEPT ![s] = @ + 1] /\ toPhone' = toPhone
  <2>1. Now' = Now
    BY <1>1, <1>8 DEF Now
  <2>2. Sound(honest, Now, view, writes, emitted, arrived, born)'
    BY <1>1, <1>3, <2>1
  <2>3. \A t \in Stream : asks'[t] = connecting'[t] + Answers(toPhone', t)
    <3>1. \A t \in Stream : /\ asks[t] = connecting[t] + Answers(toPhone, t)
                            /\ connecting[t] \in Nat /\ Answers(toPhone, t) \in Nat
      BY <1>1, <1>2, <1>3, AnswersNat DEF Asked
    <3>2. /\ connecting'[s] = connecting[s] + 1
          /\ \A t \in Stream : t # s => connecting'[t] = connecting[t]
      BY <1>2, <1>8
    <3>3. QED
      BY <1>6, <1>8, <3>1, <3>2
  <2>4. Asked'
    BY <1>1, <1>6, <1>7, <2>3 DEF Asked
  <2>5. QED
    BY <1>1, <1>4, <1>5, <1>8, <2>2, <2>4 DEF IInv
<1>9. CASE connecting' = connecting /\ toPhone' = Append(toPhone, Failed(s))
  <2> DEFINE st == Send(Now, Failed(s))
  <2>0. Failed(s) \in Frame /\ Failed(s).kind = "failed" /\ Failed(s).stream = s
    BY LimitAssumption DEF Failed, Frame, Serial
  <2>1. Now' = st
    <3>1. /\ st \in StateType /\ st.queue = Append(Now.queue, Failed(s))
          /\ st.streams = Now.streams /\ st.sockets = Now.sockets /\ st.timer = Now.timer
      BY <1>2, <2>0, SendFact
    <3>2. Commit(st)
      BY <1>1, <1>9, <3>1, NowFact DEF Commit
    <3>3. QED
      BY <3>1, <3>2, CommitFact
  <2>2. Sound(honest, st, view, writes, emitted, arrived, born)
    BY <1>3, SoundFails
  <2>3. Sound(honest, Now, view, writes, emitted, arrived, born)'
    BY <1>1, <2>1, <2>2
  <2>4. \A t \in Stream : asks'[t] = connecting'[t] + Answers(toPhone', t)
    <3>1. \A t \in Stream : /\ asks[t] = connecting[t] + Answers(toPhone, t)
                            /\ connecting[t] \in Nat /\ Answers(toPhone, t) \in Nat
      BY <1>1, <1>2, <1>3, AnswersNat DEF Asked
    <3>2. \A t \in Stream : Answers(toPhone', t) = Answers(toPhone, t) + AnswerTo(Failed(s), t)
      BY <1>2, <1>9, <2>0, AnswersAppend
    <3>3. AnswerTo(Failed(s), s) = 1 /\ \A t \in Stream : t # s => AnswerTo(Failed(s), t) = 0
      BY <2>0 DEF AnswerTo
    <3>4. QED
      BY <1>6, <1>9, <3>1, <3>2, <3>3
  <2>5. Asked'
    BY <1>1, <1>6, <1>7, <2>4 DEF Asked
  <2>6. QED
    BY <1>1, <1>4, <1>5, <1>9, <2>3, <2>5 DEF IInv
<1>10. QED
  BY <1>8, <1>9 DEF Open

\* open(), from its await on: its stream is the phone's only one under this id.
LEMMA ConnectedStep ==
    ASSUME IInv, NEW s \in Stream, NEW ok \in BOOLEAN, Connected(s, ok)
    PROVE  IInv'
<1>1. /\ connecting[s] > 0 /\ connecting' = [connecting EXCEPT ![s] = @ - 1]
      /\ Commit(AfterConnect(s, ok))
      /\ born' = IF streams' = streams THEN born ELSE born + 1
      /\ asks' = asks /\ view' = view /\ opens' = opens
      /\ writes' = writes /\ emitted' = emitted /\ arrived' = arrived
      /\ disposed' = disposed /\ honest' = honest /\ cancelled' = cancelled
      /\ enabled' = enabled /\ authorizing' = authorizing /\ grants' = grants
  BY DEF Connected, history, grantVars, phone
<1>2. /\ Now \in StateType /\ toPhone \in Seq(Frame) /\ born \in Nat /\ born \in Serial
      /\ connecting \in [Stream -> Nat] /\ asks \in [Stream -> Nat]
      /\ Now.streams = streams /\ Now.queue = toPhone /\ Now.timer = timer
      /\ Now.sockets = sockets /\ streams \in [Stream -> StreamState]
  BY NowFact
<1>3. /\ Counted(connecting, born, opens) /\ Asked /\ Others /\ Ended
      /\ Sound(honest, Now, view, writes, emitted, arrived, born)
  BY DEF IInv
<1>4. /\ Counted(connecting', born, opens) /\ Counted(connecting', born + 1, opens)
      /\ born + 1 \in Serial
  BY <1>1, <1>2, <1>3, CountedConnects
<1>5. Others' /\ (honest' => \A t \in Stream : asks'[t] <= 1 /\ (asks'[t] = 1 => view'[t] = NoView))
  BY <1>1, <1>3 DEF Others, Asked
<1>6. /\ connecting'[s] = connecting[s] - 1
      /\ \A t \in Stream : t # s => connecting'[t] = connecting[t]
  BY <1>1, <1>2
<1>7. CASE disposed
  <2>1. Commit(Now)
    BY <1>1, <1>7 DEF AfterConnect
  <2>2. Now' = Now /\ streams' = streams /\ toPhone' = toPhone /\ timer' = timer
    BY <1>2, <2>1, CommitFact DEF Commit
  <2>3. born' = born
    BY <1>1, <2>2
  <2>4. Asked' /\ Ended'
    BY <1>1, <1>3, <1>7, <2>2 DEF Asked, Ended
  <2>5. QED
    BY <1>1, <1>3, <1>4, <1>5, <2>2, <2>3, <2>4 DEF IInv
<1>8. \A t \in Stream : /\ ~disposed => asks[t] = connecting[t] + Answers(toPhone, t)
                        /\ connecting[t] \in Nat /\ Answers(toPhone, t) \in Nat
                        /\ asks[t] \in Nat
  BY <1>1, <1>2, <1>3, AnswersNat DEF Asked
<1>9. ASSUME ~disposed, NEW f \in Frame, f.kind \in {"opened", "failed"}, f.stream = s,
             toPhone' = Append(toPhone, f)
      PROVE  Asked' /\ Ended'
  <2>1. \A t \in Stream : Answers(toPhone', t) = Answers(toPhone, t) + AnswerTo(f, t)
    BY <1>2, <1>9, AnswersAppend
  <2>2. AnswerTo(f, s) = 1 /\ \A t \in Stream : t # s => AnswerTo(f, t) = 0
    BY <1>9 DEF AnswerTo
  <2>3. \A t \in Stream : asks'[t] = connecting'[t] + Answers(toPhone', t)
    BY <1>1, <1>6, <1>8, <1>9, <2>1, <2>2
  <2>4. QED
    BY <1>1, <1>2, <1>5, <1>9, <2>3 DEF Asked, Ended
<1>10. CASE ~disposed /\ (~ok \/ IsOpen(s))
  <2> DEFINE st == Send(Now, Failed(s))
  <2>0. Failed(s) \in Frame /\ Failed(s).kind = "failed" /\ Failed(s).stream = s
    BY LimitAssumption DEF Failed, Frame, Serial
  <2>1. Commit(st)
    BY <1>1, <1>10 DEF AfterConnect
  <2>2. /\ st \in StateType /\ st.queue = Append(toPhone, Failed(s)) /\ st.streams = streams
    BY <1>2, <2>0, SendFact
  <2>3. Sound(honest, st, view, writes, emitted, arrived, born)
    BY <1>3, SoundFails
  <2> HIDE DEF st
  <2>4. Now' = st /\ toPhone' = Append(toPhone, Failed(s)) /\ streams' = streams
    BY <2>1, <2>2, CommitFact DEF Commit
  <2>5. born' = born
    BY <1>1, <2>4
  <2>6. Asked' /\ Ended'
    BY <1>9, <1>10, <2>0, <2>4
  <2>7. QED
    BY <1>1, <1>4, <1>5, <2>3, <2>4, <2>5, <2>6 DEF IInv
<1>11. CASE ~disposed /\ ok /\ ~IsOpen(s)
  <2> DEFINE r == NewStream(born + 1)
             f == Opened(s, born + 1)
             sent == [streams EXCEPT ![s] = r]
             st == [streams |-> sent, queue |-> Append(toPhone, f), timer |-> timer,
                    sockets |-> sockets + 1]
  <2>1. AfterConnect(s, ok) = Send([Now EXCEPT !.streams[s] = r, !.sockets = @ + 1], f)
    BY <1>11 DEF AfterConnect
  <2>2. AfterConnect(s, ok) = st
    BY <2>1 DEF Now, Send
  <2>3. r \in StreamState /\ r.serial = born + 1
    BY <1>4, NewStreamFact
  <2>4. f \in Frame /\ f.kind = "opened" /\ f.stream = s
    BY <1>4 DEF Opened, Frame
  <2> HIDE DEF f
  <2>5. Append(toPhone, f) \in Seq(Frame)
    BY <1>2, <2>4, AppendFact
  <2>6. sent \in [Stream -> StreamState]
    BY <1>2, <2>3
  <2>7. timer \in BOOLEAN /\ sockets \in Int
    BY <1>2 DEF StateType
  <2>8. st \in StateType
    <3> HIDE DEF sent
    <3>1. QED
      BY <2>5, <2>6, <2>7 DEF StateType
  <2>9. /\ st.streams = sent /\ st.queue = Append(toPhone, f) /\ st.timer = timer
        /\ st.sockets = sockets + 1
    OBVIOUS
  <2> HIDE DEF st
  <2>10. Now' = st /\ streams' = sent /\ toPhone' = Append(toPhone, f)
    BY <1>1, <2>2, <2>8, <2>9, CommitFact DEF Commit
  <2>11. streams[s] = NoStream
    BY <1>11 DEF IsOpen
  <2>12. honest => /\ view[s] = NoView
                   /\ \A i \in 1..Len(toPhone) :
                         ~(toPhone[i].kind = "opened" /\ toPhone[i].stream = s)
    <3> SUFFICES ASSUME honest
                 PROVE  /\ view[s] = NoView
                        /\ \A i \in 1..Len(toPhone) :
                              ~(toPhone[i].kind = "opened" /\ toPhone[i].stream = s)
      OBVIOUS
    <3>1. asks[s] <= 1 /\ (asks[s] = 1 => view[s] = NoView)
      BY <1>3 DEF Asked
    <3>2. asks[s] = 1 /\ Answers(toPhone, s) = 0
      BY <1>1, <1>8, <1>11, <3>1
    <3>3. QED
      BY <1>2, <3>1, <3>2, AnswersSome
  <2>13. Sound(honest, st, view, writes, emitted, arrived, born + 1)
    <3>1. st.streams = [Now.streams EXCEPT ![s] = NewStream(born + 1)]
      BY <1>2, <2>9
    <3>2. st.sockets = Now.sockets + 1 /\ st.queue = Append(Now.queue, Opened(s, born + 1))
      BY <1>2, <2>9 DEF f
    <3>3. Now.streams[s] = NoStream
      BY <1>2, <2>11
    <3>4. honest => /\ view[s] = NoView
                   /\ \A i \in 1..Len(Now.queue) :
                         ~(Now.queue[i].kind = "opened" /\ Now.queue[i].stream = s)
      BY <1>2, <2>12
    <3> HIDE DEF sent, r
    <3>5. QED
      BY <1>3, <1>4, <2>8, <3>1, <3>2, <3>3, <3>4, SoundOpens
  <2>14. born' = born + 1
    <3>1. streams'[s] = r
      BY <1>2, <2>10
    <3>2. r # NoStream
      BY <1>2, <2>3 DEF NoStream
    <3>3. QED
      BY <1>1, <2>11, <3>1, <3>2
  <2>15. Asked' /\ Ended'
    BY <1>9, <1>11, <2>4, <2>10
  <2>16. QED
    BY <1>1, <1>4, <1>5, <2>10, <2>13, <2>14, <2>15 DEF IInv
<1>12. QED
  BY <1>7, <1>10, <1>11

\* What the invariant says of an open stream and the phone's view of it.
LEMMA OpenStreamFact ==
    ASSUME IInv, NEW s \in Stream, IsOpen(s), NEW r, r = streams[s], NEW v, v = view[s]
    PROVE  /\ r \in StreamState /\ v \in ViewState /\ s \in OpenIn(Now) /\ r # NoStream
           /\ r.serial \in Serial \ {0} /\ r.serial \in 1..born
           /\ writes[s][r.serial] \in Nat /\ emitted[r.serial] \in Nat
           /\ arrived[r.serial] \in Nat
           /\ r.recvWindow + writes[s][r.serial] <= Window
           /\ honest => /\ v.serial = r.serial \/ v = NoView
                        /\ StreamOK(toPhone, v, r, writes[s][r.serial], emitted[r.serial],
                                    arrived[r.serial])
<1>1. /\ Now \in StateType /\ s \in OpenIn(Now) /\ Now.streams = streams
      /\ Now.queue = toPhone /\ streams \in [Stream -> StreamState]
      /\ view \in [Stream -> ViewState] /\ writes \in [Stream -> [Serial -> Nat]]
      /\ emitted \in [Serial -> Nat] /\ arrived \in [Serial -> Nat] /\ born \in Nat
  BY NowFact DEF OpenStreams
<1>2. Shape(honest, Now, view, born) /\ Flow(honest, Now, view, writes, emitted, arrived, born)
  BY DEF IInv, Sound
<1>3. r \in StreamState /\ v \in ViewState /\ r # NoStream
  BY <1>1 DEF IsOpen
<1>4. r.serial \in Serial \ {0} /\ r.serial <= born
  BY <1>1, <1>2, SerialsApart
<1>5. r.serial \in 1..born
  BY <1>1, <1>4 DEF Serial
<1>6. writes[s][r.serial] \in Nat /\ emitted[r.serial] \in Nat /\ arrived[r.serial] \in Nat
  BY <1>1, <1>4
<1>7. r.recvWindow + writes[s][r.serial] <= Window
  BY <1>1, <1>2 DEF Flow, WritesOK
<1>8. ASSUME honest
      PROVE  StreamOK(toPhone, v, r, writes[s][r.serial], emitted[r.serial], arrived[r.serial])
  BY <1>1, <1>2, <1>8 DEF Flow, StreamsOK
<1>9. ASSUME honest PROVE v.serial = r.serial \/ v = NoView
  <2>1. Live(toPhone, view, s, r.serial) /\ Single(toPhone, view)
    BY <1>1, <1>2, <1>9 DEF Shape, Told
  <2>2. QED
    BY <2>1 DEF Live, Announced, Single
<1>10. QED
  BY <1>1, <1>3, <1>4, <1>5, <1>6, <1>7, <1>8, <1>9

\* The record of one stream changes.
With(st, s, r) == [st EXCEPT !.streams[s] = r]

\* That record, and nothing else.
LEMMA WithFact ==
    ASSUME NEW st \in StateType, NEW s \in Stream, NEW r \in StreamState
    PROVE  /\ With(st, s, r) \in StateType /\ With(st, s, r).queue = st.queue
           /\ With(st, s, r).sockets = st.sockets /\ With(st, s, r).timer = st.timer
           /\ With(st, s, r).streams[s] = r
           /\ \A t \in Stream : t # s => With(st, s, r).streams[t] = st.streams[t]
<1> DEFINE with == [st.streams EXCEPT ![s] = r]
<1>1. st.streams \in [Stream -> StreamState]
  BY DEF StateType
<1>2. /\ with \in [Stream -> StreamState] /\ with[s] = r
      /\ \A t \in Stream : t # s => with[t] = st.streams[t]
  BY <1>1
<1>3. With(st, s, r) = [st EXCEPT !.streams = with]
  BY <1>1 DEF StateType, With
<1> HIDE DEF with
<1>4. QED
  BY <1>2, <1>3 DEF StateType

\* What is given back leaves what is unread, and a window does not pass its limit.
LEMMA LessFact ==
    ASSUME NEW u \in Nat, NEW n \in Nat
    PROVE  /\ Max({0, u - n}) \in Nat
           /\ n <= u => Max({0, u - n}) = u - n
           /\ u = 0 => Max({0, u - n}) = 0
<1> DEFINE S == {0, u - n}
<1>1. \E x \in S : \A y \in S : x >= y
  BY u - n \in Int, 0 \in S, u - n \in S
<1>2. Max(S) \in S /\ \A y \in S : Max(S) >= y
  <2> HIDE DEF S
  <2>1. QED
    BY <1>1, MaxFact
<1>3. QED
  BY <1>2

\* The window after a credit, which the tunnel limits.
LEMMA LimitFact ==
    ASSUME NEW w \in 0..MaxSendWindow, NEW n \in Nat
    PROVE  /\ Min({MaxSendWindow, w + n}) \in 0..MaxSendWindow
           /\ w + n <= MaxSendWindow => Min({MaxSendWindow, w + n}) = w + n
<1> DEFINE S == {MaxSendWindow, w + n}
<1>0. MaxSendWindow \in Nat /\ w \in Nat
  BY WindowAssumption
<1>1. \E x \in S : \A y \in S : x <= y
  BY <1>0, MaxSendWindow \in S, w + n \in S
<1>2. Min(S) \in S /\ \A y \in S : Min(S) <= y
  <2> HIDE DEF S
  <2>1. QED
    BY <1>1, MinFact
<1>3. QED
  BY <1>0, <1>2

\* credit(): the stream, and the phone's view of it.
LEMMA CreditStep ==
    ASSUME IInv, NEW s \in Stream, NEW n \in 1..MaxSendWindow, Credit(s, n)
    PROVE  IInv'
<1> DEFINE v == view[s]
           r == streams[s]
           u == Max({0, v.unread - n})
           v2 == [v EXCEPT !.unread = u]
           w == Min({MaxSendWindow, r.sendWindow + n})
           r2 == [r EXCEPT !.sendWindow = w]
           more == [Now EXCEPT !.streams[s].sendWindow = Min({MaxSendWindow, @ + n})]
           st == IF IsOpen(s) THEN Flush(more, s) ELSE Now
<1>1. /\ ~disposed /\ (honest => n <= v.unread)
      /\ view' = [view EXCEPT ![s].unread = Max({0, @ - n})]
      /\ Commit(st)
      /\ connecting' = connecting /\ asks' = asks /\ opens' = opens /\ born' = born
      /\ writes' = writes /\ emitted' = emitted /\ arrived' = arrived
      /\ disposed' = disposed /\ honest' = honest /\ cancelled' = cancelled
      /\ enabled' = enabled /\ authorizing' = authorizing /\ grants' = grants
  BY DEF Credit, AfterCredit, Widened, history, grantVars
<1>2. /\ Now \in StateType /\ Now.streams = streams /\ Now.queue = toPhone
      /\ streams \in [Stream -> StreamState] /\ view \in [Stream -> ViewState]
      /\ writes \in [Stream -> [Serial -> Nat]] /\ emitted \in [Serial -> Nat]
      /\ OpenIn(Now) = OpenStreams
  BY NowFact
<1>3. Sound(honest, Now, view, writes, emitted, arrived, born) /\ cancelled \subseteq Stream
  BY DEF IInv, Others
<1>4. /\ n \in Nat /\ n > 0 /\ v \in ViewState /\ v.unread \in Nat /\ r \in StreamState
      /\ r.sendWindow \in 0..MaxSendWindow
  BY <1>2, WindowAssumption DEF ViewState, StreamState
<1>5. u \in Nat /\ (n <= v.unread => u = v.unread - n) /\ (v.unread = 0 => u = 0)
  BY <1>4, LessFact
<1>6. w \in 0..MaxSendWindow /\ (r.sendWindow + n <= MaxSendWindow => w = r.sendWindow + n)
  BY <1>4, LimitFact
<1>7. view' = [view EXCEPT ![s] = v2]
  BY <1>1
<1>8. more = With(Now, s, r2)
  BY <1>2 DEF With, StateType, StreamState
<1> HIDE DEF u, w, st, more
<1>9. /\ v2 \in ViewState /\ v2.serial = v.serial /\ v2.window = v.window /\ v2.unread = u
      /\ v = NoView => v2 = NoView
  BY <1>4, <1>5 DEF ViewState, NoView
<1>10. /\ r2 \in StreamState /\ r2.serial = r.serial /\ r2.recvWindow = r.recvWindow
       /\ r2.sendWindow = w /\ r2.pending = r.pending /\ r2.ended = r.ended
  BY <1>4, <1>6 DEF StreamState
<1> HIDE DEF v2, r2, v, r
<1>11. /\ view' \in [Stream -> ViewState] /\ view'[s] = v2
       /\ \A t \in Stream : t # s => view'[t] = view[t]
  BY <1>2, <1>7, <1>9
<1>12. honest => \A t \in Stream : view[t] = NoView => view'[t] = NoView
  BY <1>9, <1>11 DEF v
<1>13. CASE ~IsOpen(s)
  <2>1. s \notin OpenIn(Now) /\ st = Now
    BY <1>2, <1>13 DEF OpenStreams, st
  <2>2. Sound(honest, Now, view', writes, emitted, arrived, born)
    <3>1. Changes(honest, Now, view, writes, emitted, arrived, s, Now, view', writes, emitted)
      BY <1>2, <1>9, <1>11, <2>1 DEF Changes, v
    <3>2. QED
      BY <1>3, <3>1, SoundChange
  <2>3. QED
    BY <1>1, <1>2, <1>3, <1>12, <2>1, <2>2, StreamStep
<1>14. CASE IsOpen(s)
  <2> DEFINE k == r.serial
  <2>1. /\ s \in OpenIn(Now) /\ r # NoStream /\ k \in Serial \ {0}
        /\ writes[s][k] \in Nat /\ emitted[k] \in Nat /\ arrived[k] \in Nat
        /\ r.recvWindow + writes[s][k] <= Window
        /\ honest => /\ v.serial = k \/ v = NoView
                     /\ StreamOK(toPhone, v, r, writes[s][k], emitted[k], arrived[k])
    BY <1>14, OpenStreamFact DEF r, v
  <2>2. honest => StreamOK(toPhone, v2, r2, writes[s][k], emitted[k], arrived[k])
    <3> SUFFICES ASSUME honest
                 PROVE  StreamOK(toPhone, v2, r2, writes[s][k], emitted[k], arrived[k])
      OBVIOUS
    <3> DEFINE d == UnitsOf(toPhone, "data", k)
    <3>1. n <= v.unread /\ v.serial = k
      BY <1>1, <1>4, <2>1 DEF NoView
    <3>2. toPhone \in Seq(Frame)
      BY <1>2 DEF StateType
    <3>3. d \in Nat
      BY <3>2, UnitsNat DEF UnitsOf
    <3>4. r.sendWindow + d + v.unread = Window
      BY <2>1, <3>1 DEF StreamOK
    <3> HIDE DEF d
    <3>5. r.sendWindow + n <= MaxSendWindow
      BY <1>4, <3>1, <3>3, <3>4, WindowAssumption
    <3>6. w + d + u = Window
      BY <1>4, <1>5, <1>6, <3>1, <3>3, <3>4, <3>5
    <3>7. QED
      BY <1>9, <1>10, <2>1, <3>1, <3>6 DEF StreamOK, d
  <2>3. /\ more \in StateType /\ more.queue = toPhone /\ more.sockets = Now.sockets
        /\ more.streams[s] = r2 /\ \A t \in Stream : t # s => more.streams[t] = Now.streams[t]
    BY <1>2, <1>8, <1>10, WithFact
  <2>4. Sound(honest, more, view', writes, emitted, arrived, born) /\ OpenIn(more) = OpenIn(Now)
    <3>1. k = Now.streams[s].serial /\ more.streams[s].serial = k /\ Now.streams[s] # NoStream
      BY <1>2, <1>10, <2>1, <2>3 DEF r
    <3>2. view'[s].serial = view[s].serial /\ (view[s] = NoView => view'[s] = NoView)
      BY <1>9, <1>11 DEF v
    <3>3. more.streams[s].recvWindow + writes[s][k] <= Window
      BY <1>10, <2>1, <2>3
    <3>4. honest => StreamOK(Now.queue, view'[s], more.streams[s], writes[s][k],
                             emitted[k], arrived[k])
      BY <1>2, <1>11, <2>2, <2>3
    <3> HIDE DEF k
    <3>5. Changes(honest, Now, view, writes, emitted, arrived, s, more, view', writes, emitted)
      BY <1>2, <1>11, <2>1, <2>3, <3>1, <3>2, <3>3, <3>4 DEF Changes
    <3>6. QED
      BY <1>3, <3>5, SoundChange
  <2>5. Sound(honest, Flush(more, s), view', writes, emitted, arrived, born)
    BY <2>1, <2>4, FlushSound
  <2>6. \A t \in Stream : Answers(Flush(more, s).queue, t) = Answers(toPhone, t)
    BY <2>3, FlushQuiet
  <2>7. st = Flush(more, s)
    BY <1>14 DEF st
  <2>8. QED
    BY <1>1, <1>3, <1>12, <2>5, <2>6, <2>7, StreamStep
<1>15. QED
  BY <1>13, <1>14

\* A step that only changes the part of the tunnel that Commit writes, and views:
\* the phone's connection lives, and no request is made or answered.
Keeps ==
    /\ ~disposed
    /\ connecting' = connecting /\ asks' = asks /\ opens' = opens /\ born' = born
    /\ disposed' = disposed /\ honest' = honest /\ cancelled' \subseteq Stream
    /\ enabled' = enabled /\ authorizing' = authorizing /\ grants' = grants
    /\ honest => \A t \in Stream : view[t] = NoView => view'[t] = NoView

\* Such a step keeps the invariant when it keeps the tunnel right.
LEMMA KeepsStep ==
    ASSUME IInv, Keeps, NEW st, Commit(st),
           Sound(honest, st, view', writes', emitted', arrived', born),
           \A t \in Stream : Answers(st.queue, t) = Answers(toPhone, t)
    PROVE  IInv'
  BY StreamStep DEF Keeps

\* A stream of the tunnel is closed.
LEMMA ClosesFact ==
    ASSUME NEW st, NEW s \in OpenIn(st), NEW why \in Reason, NEW notify \in BOOLEAN,
           NEW h, NEW vw, NEW wr, NEW em, NEW ar, NEW last,
           Sound(h, st, vw, wr, em, ar, last), why # "eof" \/ ~notify
    PROVE  /\ Sound(h, CloseStream(st, s, why, notify), vw, wr, em, ar, last)
           /\ OpenIn(CloseStream(st, s, why, notify)) = OpenIn(st) \ {s}
           /\ \A t \in Stream :
                 Answers(CloseStream(st, s, why, notify).queue, t) = Answers(st.queue, t)
<1>1. st \in StateType /\ s \in Stream
  BY DEF Sound, Shape, OpenIn
<1>2. Sound(h, CloseStream(st, s, why, notify), vw, wr, em, ar, last)
  <2>1. CASE why # "eof"
    BY <2>1, SoundCloses
  <2>2. CASE ~notify
    BY <2>2, SoundCloses
  <2>3. QED
    BY <2>1, <2>2
<1>3. OpenIn(CloseStream(st, s, why, notify)) = OpenIn(st) \ {s}
  <2>1. CloseStream(st, s, why, notify).streams = [st.streams EXCEPT ![s] = NoStream]
    BY <1>1 DEF CloseStream, Send, StateType
  <2>2. QED
    BY <1>1, <2>1 DEF OpenIn, StateType
<1>4. \A t : Answers(CloseStream(st, s, why, notify).queue, t) = Answers(st.queue, t)
  BY <1>1, CloseQuiet
<1>5. QED
  BY <1>2, <1>3, <1>4

\* close(): the stream goes, and the phone has none.
LEMMA CloseStep ==
    ASSUME IInv, NEW s \in Stream, Close(s)
    PROVE  IInv'
<1> DEFINE st == IF IsOpen(s) THEN CloseStream(Now, s, "eof", FALSE) ELSE Now
<1>1. /\ view' = [view EXCEPT ![s] = NoView] /\ Commit(st)
      /\ writes' = writes /\ emitted' = emitted /\ arrived' = arrived
  BY DEF Close, history
<1>2. /\ Now.queue = toPhone /\ OpenIn(Now) = OpenStreams /\ view \in [Stream -> ViewState]
      /\ Sound(honest, Now, view, writes, emitted, arrived, born) /\ cancelled \subseteq Stream
  BY NowFact DEF IInv, Others
<1>3. Keeps
  <2>1. honest => \A t \in Stream : view[t] = NoView => view'[t] = NoView
    BY <1>1, <1>2
  <2>2. QED
    BY <1>2, <2>1 DEF Keeps, Close, grantVars
<1>4. /\ Sound(honest, st, view, writes, emitted, arrived, born) /\ s \notin OpenIn(st)
      /\ \A t \in Stream : Answers(st.queue, t) = Answers(toPhone, t)
  <2>1. CASE ~IsOpen(s)
    BY <1>2, <2>1 DEF OpenStreams
  <2>2. CASE IsOpen(s)
    <3>1. PICK b \in BOOLEAN : b = FALSE
      OBVIOUS
    <3>2. PICK why \in Reason : why = "eof"
      BY DEF Reason
    <3>3. s \in OpenIn(Now)
      BY <1>2, <2>2 DEF OpenStreams
    <3>4. /\ Sound(honest, CloseStream(Now, s, why, b), view, writes, emitted, arrived, born)
          /\ OpenIn(CloseStream(Now, s, why, b)) = OpenIn(Now) \ {s}
          /\ \A t \in Stream : Answers(CloseStream(Now, s, why, b).queue, t) = Answers(Now.queue, t)
      BY <1>2, <3>1, <3>3, ClosesFact
    <3>5. QED
      BY <1>2, <2>2, <3>1, <3>2, <3>4
  <2>3. QED
    BY <2>1, <2>2
<1> HIDE DEF st
<1>5. Sound(honest, st, view', writes, emitted, arrived, born)
  BY <1>1, <1>4, SoundViewGone
<1>6. QED
  BY <1>1, <1>3, <1>4, <1>5, KeepsStep

\* The socket fails: the stream is closed.
LEMMA ServiceResetsStep ==
    ASSUME IInv, NEW s \in Stream, ServiceResets(s)
    PROVE  IInv'
<1> DEFINE st == CloseStream(Now, s, "error", TRUE)
<1>1. /\ Commit(st) /\ IsOpen(s)
      /\ view' = view /\ writes' = writes /\ emitted' = emitted /\ arrived' = arrived
  BY DEF ServiceResets, history, phone
<1>2. /\ Now.queue = toPhone /\ OpenIn(Now) = OpenStreams
      /\ Sound(honest, Now, view, writes, emitted, arrived, born) /\ cancelled \subseteq Stream
  BY NowFact DEF IInv, Others
<1>3. Keeps
  BY <1>1, <1>2, OpenFact DEF Keeps, ServiceResets, grantVars, phone
<1>4. /\ Sound(honest, st, view, writes, emitted, arrived, born)
      /\ \A t \in Stream : Answers(st.queue, t) = Answers(toPhone, t)
  <2>1. PICK b \in BOOLEAN : b = TRUE
    OBVIOUS
  <2>2. PICK why \in Reason : why = "error"
    BY DEF Reason
  <2>3. s \in OpenIn(Now)
    BY <1>1, <1>2 DEF OpenStreams
  <2>4. /\ Sound(honest, CloseStream(Now, s, why, b), view, writes, emitted, arrived, born)
        /\ \A t \in Stream : Answers(CloseStream(Now, s, why, b).queue, t) = Answers(Now.queue, t)
    BY <1>2, <2>2, <2>3, ClosesFact
  <2>5. QED
    BY <1>2, <2>1, <2>2, <2>4
<1> HIDE DEF st
<1>5. QED
  BY <1>1, <1>3, <1>4, KeepsStep

\* The service ends its side.
LEMMA ServiceEndsStep ==
    ASSUME IInv, NEW s \in Stream, ServiceEnds(s)
    PROVE  IInv'
<1> DEFINE r == streams[s]
           r2 == [r EXCEPT !.ended = TRUE]
           k == r.serial
           st == With(Now, s, r2)
<1>1. /\ Commit(Flush([Now EXCEPT !.streams[s].ended = TRUE], s)) /\ IsOpen(s) /\ ~r.ended
      /\ view' = view /\ writes' = writes /\ emitted' = emitted /\ arrived' = arrived
  BY DEF ServiceEnds, history, phone
<1>2. /\ Now \in StateType /\ Now.streams = streams /\ Now.queue = toPhone
      /\ OpenIn(Now) = OpenStreams /\ view \in [Stream -> ViewState]
      /\ writes \in [Stream -> [Serial -> Nat]] /\ emitted \in [Serial -> Nat]
      /\ Sound(honest, Now, view, writes, emitted, arrived, born) /\ cancelled \subseteq Stream
  BY NowFact DEF IInv, Others
<1>3. Keeps
  BY <1>1, <1>2, OpenFact DEF Keeps, ServiceEnds, grantVars, phone
<1>4. [Now EXCEPT !.streams[s].ended = TRUE] = st
  BY <1>2 DEF StateType, With
<1>5. /\ r \in StreamState /\ s \in OpenIn(Now) /\ r # NoStream
      /\ r.recvWindow + writes[s][k] <= Window
      /\ honest => StreamOK(toPhone, view[s], r, writes[s][k], emitted[k], arrived[k])
  BY <1>1, OpenStreamFact
<1>6. /\ r2 \in StreamState /\ r2.serial = k /\ r2.recvWindow = r.recvWindow
      /\ r2.sendWindow = r.sendWindow /\ r2.pending = r.pending /\ r2.ended = TRUE
  BY <1>5 DEF StreamState
<1> HIDE DEF r2
<1>7. /\ st \in StateType /\ st.queue = toPhone /\ st.sockets = Now.sockets
      /\ st.streams[s] = r2 /\ \A t \in Stream : t # s => st.streams[t] = Now.streams[t]
  BY <1>2, <1>6, WithFact
<1>8. k = Now.streams[s].serial /\ Now.streams[s] = r
  BY <1>2
<1> HIDE DEF st, r, k
<1>9. honest => StreamOK(toPhone, view[s], r2, writes[s][k], emitted[k], arrived[k])
  <2>1. r2.ended
    BY <1>6
  <2> SUFFICES ASSUME honest
               PROVE  StreamOK(toPhone, view[s], r2, writes[s][k], emitted[k], arrived[k])
    OBVIOUS
  <2>2. StreamOK(toPhone, view[s], r, writes[s][k], emitted[k], arrived[k]) /\ r.serial = k
    BY <1>5 DEF k
  <2>3. QED
    BY <1>6, <2>1, <2>2 DEF StreamOK
<1>10. Changes(honest, Now, view, writes, emitted, arrived, s, st, view, writes, emitted)
  BY <1>2, <1>5, <1>6, <1>7, <1>8, <1>9 DEF Changes
<1>11. Sound(honest, st, view, writes, emitted, arrived, born) /\ OpenIn(st) = OpenIn(Now)
  BY <1>2, <1>10, SoundChange
<1>12. /\ Sound(honest, Flush(st, s), view, writes, emitted, arrived, born)
       /\ \A t \in Stream : Answers(Flush(st, s).queue, t) = Answers(toPhone, t)
  BY <1>5, <1>7, <1>11, FlushSound, FlushQuiet
<1>13. QED
  BY <1>1, <1>3, <1>4, <1>12, KeepsStep

\* closeStream() does not care what else the stream has.
LEMMA CloseWith ==
    ASSUME NEW st \in StateType, NEW s \in Stream, NEW r \in StreamState,
           r.serial = st.streams[s].serial, NEW why, NEW notify
    PROVE  CloseStream(With(st, s, r), s, why, notify) = CloseStream(st, s, why, notify)
<1> DEFINE with == With(st, s, r)
           gone == [st EXCEPT !.streams[s] = NoStream, !.sockets = @ - 1]
           gone2 == [with EXCEPT !.streams[s] = NoStream, !.sockets = @ - 1]
<1>1. st.streams \in [Stream -> StreamState]
  BY DEF StateType
<1>2. with.streams[s].serial = st.streams[s].serial
  BY WithFact
<1>3. gone2 = gone
  BY <1>1 DEF With, StateType
<1>4. CloseStream(st, s, why, notify) =
         IF notify THEN Send(gone, Closed(s, st.streams[s].serial, why)) ELSE gone
  BY DEF CloseStream
<1>5. CloseStream(with, s, why, notify) =
         IF notify THEN Send(gone2, Closed(s, with.streams[s].serial, why)) ELSE gone2
  BY DEF CloseStream
<1> HIDE DEF gone, gone2, with
<1>6. QED
  BY <1>2, <1>3, <1>4, <1>5 DEF with

\* The service sends: one unit more is pending, and is flushed or lost with the stream.
LEMMA ServiceSendsStep ==
    ASSUME IInv, NEW s \in Stream, ServiceSends(s)
    PROVE  IInv'
<1> DEFINE r == streams[s]
           r2 == [r EXCEPT !.pending = r.pending + 1]
           k == r.serial
           st == With(Now, s, r2)
<1>1. /\ Commit(AfterSocketData(s)) /\ IsOpen(s)
      /\ emitted' = [emitted EXCEPT ![k] = @ + 1]
      /\ view' = view /\ writes' = writes /\ arrived' = arrived
  BY DEF ServiceSends, phone
<1>2. /\ Now \in StateType /\ Now.streams = streams /\ Now.queue = toPhone
      /\ OpenIn(Now) = OpenStreams /\ view \in [Stream -> ViewState]
      /\ writes \in [Stream -> [Serial -> Nat]] /\ emitted \in [Serial -> Nat]
      /\ Sound(honest, Now, view, writes, emitted, arrived, born) /\ cancelled \subseteq Stream
      /\ toPhone \in Seq(Frame)
  BY NowFact DEF IInv, Others
<1>3. Keeps
  BY <1>1, <1>2, OpenFact DEF Keeps, ServiceSends, grantVars, phone
<1>4. AfterSocketData(s) = IF enabled THEN Flush([Now EXCEPT !.streams[s].pending = @ + 1], s)
                           ELSE CloseStream(Now, s, "disabled", TRUE)
  BY DEF AfterSocketData
<1>5. [Now EXCEPT !.streams[s].pending = @ + 1] = st
  BY <1>2 DEF StateType, StreamState, With
<1>6. /\ r \in StreamState /\ s \in OpenIn(Now) /\ r # NoStream /\ k \in Serial
      /\ r.recvWindow + writes[s][k] <= Window /\ arrived[k] \in Nat /\ emitted[k] \in Nat
      /\ honest => StreamOK(toPhone, view[s], r, writes[s][k], emitted[k], arrived[k])
  BY <1>1, OpenStreamFact
<1>7. /\ r2 \in StreamState /\ r2.serial = k /\ r2.recvWindow = r.recvWindow
      /\ r2.sendWindow = r.sendWindow /\ r2.pending = r.pending + 1 /\ r2.ended = r.ended
      /\ r.pending \in Nat
  BY <1>6 DEF StreamState
<1> HIDE DEF r2
<1>8. /\ st \in StateType /\ st.queue = toPhone /\ st.sockets = Now.sockets
      /\ st.streams[s] = r2 /\ \A t \in Stream : t # s => st.streams[t] = Now.streams[t]
  BY <1>2, <1>7, WithFact
<1>9. k = Now.streams[s].serial /\ Now.streams[s] = r
  BY <1>2
<1>10. \A why, b : CloseStream(st, s, why, b) = CloseStream(Now, s, why, b)
  <2>1. r2.serial = Now.streams[s].serial
    BY <1>7, <1>9
  <2>2. QED
    BY <1>2, <1>7, <2>1, CloseWith
<1> HIDE DEF st, r, k
<1>11. /\ emitted' \in [Serial -> Nat] /\ emitted'[k] = emitted[k] + 1
       /\ \A m \in Serial : m # k => emitted'[m] = emitted[m]
  BY <1>1, <1>2, <1>6
<1>12. ASSUME honest
       PROVE  StreamOK(toPhone, view[s], r2, writes[s][k], emitted'[k], arrived[k])
  <2> DEFINE d == UnitsOf(toPhone, "data", k)
             e == emitted'[k]
  <2>1. StreamOK(toPhone, view[s], r, writes[s][k], emitted[k], arrived[k]) /\ r.serial = k
    BY <1>6, <1>12 DEF k
  <2>2. emitted[k] = arrived[k] + d + r.pending
    BY <2>1 DEF StreamOK
  <2>3. d \in Nat /\ e = emitted[k] + 1
    BY <1>2, <1>11, UnitsNat DEF UnitsOf
  <2> HIDE DEF d, e
  <2>4. e = arrived[k] + d + r2.pending
    BY <1>6, <1>7, <2>2, <2>3
  <2>5. StreamOK(toPhone, view[s], r2, writes[s][k], e, arrived[k])
    BY <1>7, <2>1, <2>4 DEF StreamOK, d
  <2>6. QED
    BY <2>5 DEF e
<1>13. Changes(honest, Now, view, writes, emitted, arrived, s, st, view, writes, emitted')
  BY <1>2, <1>6, <1>7, <1>8, <1>9, <1>11, <1>12 DEF Changes
<1>14. Sound(honest, st, view, writes, emitted', arrived, born) /\ OpenIn(st) = OpenIn(Now)
  BY <1>2, <1>13, SoundChange
<1>15. CASE enabled
  <2>1. /\ Sound(honest, Flush(st, s), view, writes, emitted', arrived, born)
        /\ \A t \in Stream : Answers(Flush(st, s).queue, t) = Answers(toPhone, t)
    BY <1>6, <1>8, <1>14, FlushSound, FlushQuiet
  <2>2. Commit(Flush(st, s))
    BY <1>1, <1>4, <1>5, <1>15
  <2>3. QED
    BY <1>1, <1>3, <2>1, <2>2, KeepsStep
<1>16. CASE ~enabled
  <2>1. PICK b \in BOOLEAN : b = TRUE
    OBVIOUS
  <2>2. PICK why \in Reason : why = "disabled"
    BY DEF Reason
  <2> DEFINE x == CloseStream(st, s, why, b)
  <2>3. /\ Sound(honest, x, view, writes, emitted', arrived, born)
        /\ \A t \in Stream : Answers(x.queue, t) = Answers(toPhone, t)
    BY <1>6, <1>8, <1>14, <2>2, ClosesFact
  <2>4. Commit(x)
    BY <1>1, <1>4, <1>10, <1>16, <2>1, <2>2
  <2> HIDE DEF x
  <2>5. QED
    BY <1>1, <1>3, <2>3, <2>4, KeepsStep
<1>17. QED
  BY <1>15, <1>16

\* The retry.
LEMMA FlushTimerStep ==
    ASSUME IInv, FlushTimer
    PROVE  IInv'
<1> DEFINE st == [Now EXCEPT !.timer = FALSE]
<1>1. /\ Commit(FlushAll(st)) /\ timer
      /\ view' = view /\ writes' = writes /\ emitted' = emitted /\ arrived' = arrived
  BY DEF FlushTimer, history, phone
<1>2. /\ Now \in StateType /\ Now.streams = streams /\ Now.queue = toPhone
      /\ Sound(honest, Now, view, writes, emitted, arrived, born) /\ cancelled \subseteq Stream
  BY NowFact DEF IInv, Others
<1>3. ~disposed
  BY <1>1 DEF IInv, Ended
<1>4. Keeps
  BY <1>1, <1>2, <1>3 DEF Keeps, FlushTimer, grantVars, phone
<1>5. /\ st \in StateType /\ st.streams = streams /\ st.queue = toPhone
      /\ st.sockets = Now.sockets
  BY <1>2 DEF StateType
<1> HIDE DEF st
<1>6. Sound(honest, st, view, writes, emitted, arrived, born)
  BY <1>2, <1>5, SoundSame
<1>7. /\ Sound(honest, FlushAll(st), view, writes, emitted, arrived, born)
      /\ \A t \in Stream : Answers(FlushAll(st).queue, t) = Answers(toPhone, t)
  BY <1>5, <1>6, FlushAllSound
<1>8. QED
  BY <1>1, <1>4, <1>7, KeepsStep

\* dispose(): everything is gone.
LEMMA DisposeStep ==
    ASSUME IInv, Dispose
    PROVE  IInv'
<1> DEFINE st == [streams |-> [s \in Stream |-> NoStream], queue |-> <<>>, timer |-> timer',
                  sockets |-> sockets']
<1>1. /\ disposed' = TRUE /\ timer' = FALSE /\ streams' = [s \in Stream |-> NoStream]
      /\ sockets' = sockets - Cardinality(OpenStreams) /\ toPhone' = <<>> /\ grants' = {}
      /\ asks' = [s \in Stream |-> 0] /\ view' = [s \in Stream |-> NoView]
      /\ enabled' = enabled /\ authorizing' = authorizing /\ honest' = honest
      /\ cancelled' = cancelled /\ connecting' = connecting /\ opens' = opens
      /\ born' = born /\ writes' = writes /\ emitted' = emitted /\ arrived' = arrived
  BY DEF Dispose, history
<1>2. /\ Now \in StateType /\ Now.sockets = sockets /\ OpenIn(Now) = OpenStreams
      /\ Sound(honest, Now, view, writes, emitted, arrived, born)
  BY NowFact DEF IInv
<1>3. sockets' = 0
  <2>1. sockets = Cardinality(OpenStreams) /\ sockets \in Int
    BY <1>2 DEF Sound, Shape, StateType
  <2>2. QED
    BY <1>1, <2>1
<1>4. Now' = st
  BY <1>1 DEF Now
<1>5. NoStream \in StreamState
  BY WindowAssumption, LimitAssumption DEF NoStream, StreamState, Serial
<1>6. st.streams \in [Stream -> StreamState]
  BY <1>5
<1>7. st.queue \in Seq(Frame) /\ st.timer \in BOOLEAN /\ st.sockets \in Int
  <2>1. timer' \in BOOLEAN
    BY <1>1, Zenon
  <2>2. sockets' \in Int
    BY <1>3
  <2>3. <<>> \in Seq(Frame)
    OBVIOUS
  <2>4. QED
    BY <2>1, <2>2, <2>3
<1>8. /\ st.streams = [s \in Stream |-> NoStream] /\ st.queue = <<>> /\ st.sockets = 0
      /\ st = [streams |-> st.streams, queue |-> st.queue, timer |-> st.timer,
               sockets |-> st.sockets]
  BY <1>3
<1> HIDE DEF st
<1>9. st \in StateType
  BY <1>6, <1>7, <1>8 DEF StateType
<1>10. Sound(honest, st, view', writes, emitted, arrived, born)
  BY <1>1, <1>2, <1>8, <1>9, SoundEmpty
<1>11. Asked' /\ Ended' /\ Others' /\ Counted(connecting', born', opens')
  BY <1>1 DEF IInv, Asked, Ended, Others
<1>12. QED
  BY <1>1, <1>4, <1>10, <1>11 DEF IInv

\* data(): one unit goes up a stream, or closes it; a unit for no stream is lost.
LEMMA DataUpStep ==
    ASSUME IInv, NEW s \in Stream, DataUp(s)
    PROVE  IInv'
<1> DEFINE v == view[s]
           r == streams[s]
           k == r.serial
           u == Max({0, v.window - 1})
           v2 == [v EXCEPT !.window = u]
           r2 == [r EXCEPT !.recvWindow = r.recvWindow - 1]
           taken == IsOpen(s) /\ enabled /\ FitsWindow(r)
           more == [Now EXCEPT !.streams[s].recvWindow = @ - 1]
           st == IF ~IsOpen(s) THEN Now
                 ELSE IF ~enabled THEN CloseStream(Now, s, "disabled", TRUE)
                 ELSE IF ~taken THEN CloseStream(Now, s, "flow-control", TRUE)
                 ELSE more
<1>1. /\ ~disposed /\ (honest => v.window > 0)
      /\ view' = [view EXCEPT ![s].window = Max({0, @ - 1})]
      /\ Commit(st)
      /\ writes' = IF taken THEN [writes EXCEPT ![s][k] = @ + 1] ELSE writes
      /\ connecting' = connecting /\ asks' = asks /\ opens' = opens /\ born' = born
      /\ emitted' = emitted /\ arrived' = arrived
      /\ disposed' = disposed /\ honest' = honest /\ cancelled' = cancelled
      /\ enabled' = enabled /\ authorizing' = authorizing /\ grants' = grants
  BY DEF DataUp, history, grantVars
<1>2. /\ Now \in StateType /\ Now.streams = streams /\ Now.queue = toPhone
      /\ streams \in [Stream -> StreamState] /\ view \in [Stream -> ViewState]
      /\ writes \in [Stream -> [Serial -> Nat]] /\ emitted \in [Serial -> Nat]
      /\ OpenIn(Now) = OpenStreams /\ toPhone \in Seq(Frame)
      /\ Sound(honest, Now, view, writes, emitted, arrived, born) /\ cancelled \subseteq Stream
  BY NowFact DEF IInv, Others
<1>3. /\ v \in ViewState /\ v.window \in Nat /\ r \in StreamState /\ r.recvWindow \in 0..Window
      /\ Window \in Nat
  BY <1>2, WindowAssumption DEF ViewState, StreamState
<1>4. u \in Nat /\ (1 <= v.window => u = v.window - 1) /\ (v.window = 0 => u = 0)
  BY <1>3, LessFact
<1>5. view' = [view EXCEPT ![s] = v2]
  BY <1>1
<1>6. more = With(Now, s, r2)
  BY <1>2 DEF With, StateType, StreamState
<1> HIDE DEF u, st, more
<1>7. /\ v2 \in ViewState /\ v2.serial = v.serial /\ v2.window = u /\ v2.unread = v.unread
      /\ v = NoView => v2 = NoView
  BY <1>3, <1>4 DEF ViewState, NoView
<1> HIDE DEF v2, v
<1>8. /\ view' \in [Stream -> ViewState] /\ view'[s] = v2
      /\ \A t \in Stream : t # s => view'[t] = view[t]
      /\ view'[s].serial = view[s].serial /\ (view[s] = NoView => view'[s] = NoView)
  BY <1>2, <1>5, <1>7 DEF v
<1>9. Keeps
  <2>1. honest => \A t \in Stream : view[t] = NoView => view'[t] = NoView
    BY <1>8
  <2>2. QED
    BY <1>1, <1>2, <2>1 DEF Keeps
<1>10. ASSUME NEW x, Sound(honest, x, view, writes, emitted, arrived, born), s \notin OpenIn(x)
       PROVE  Sound(honest, x, view', writes, emitted, arrived, born)
  <2>1. x \in StateType
    BY <1>10 DEF Sound, Shape
  <2>2. Changes(honest, x, view, writes, emitted, arrived, s, x, view', writes, emitted)
    BY <1>2, <1>8, <1>10, <2>1 DEF Changes
  <2>3. QED
    BY <1>10, <2>2, SoundChange
<1>11. CASE ~IsOpen(s)
  <2>1. s \notin OpenIn(Now) /\ st = Now /\ writes' = writes
    BY <1>1, <1>2, <1>11 DEF OpenStreams, st
  <2>2. Sound(honest, Now, view', writes, emitted, arrived, born)
    BY <1>2, <1>10, <2>1
  <2>3. QED
    BY <1>1, <1>2, <1>9, <2>1, <2>2, KeepsStep
<1>12. CASE IsOpen(s) /\ ~taken
  <2>1. PICK why \in Reason : why # "eof" /\ st = CloseStream(Now, s, why, TRUE)
    <3>1. "disabled" \in Reason /\ "flow-control" \in Reason
      BY DEF Reason
    <3>2. CASE enabled
      BY <1>12, <3>1, <3>2 DEF st
    <3>3. CASE ~enabled
      BY <1>12, <3>1, <3>3 DEF st
    <3>4. QED
      BY <3>2, <3>3
  <2>2. PICK b \in BOOLEAN : b = TRUE
    OBVIOUS
  <2>3. s \in OpenIn(Now)
    BY <1>2, <1>12 DEF OpenStreams
  <2> DEFINE x == CloseStream(Now, s, why, b)
  <2>4. /\ Sound(honest, x, view, writes, emitted, arrived, born)
        /\ OpenIn(x) = OpenIn(Now) \ {s}
        /\ \A t \in Stream : Answers(x.queue, t) = Answers(toPhone, t)
    BY <1>2, <2>1, <2>3, ClosesFact
  <2>5. st = x
    BY <2>1, <2>2
  <2> HIDE DEF x
  <2>6. Sound(honest, x, view', writes, emitted, arrived, born)
    BY <1>10, <2>4
  <2>7. writes' = writes
    BY <1>1, <1>12
  <2>8. QED
    BY <1>1, <1>9, <2>4, <2>5, <2>6, <2>7, KeepsStep
<1>13. CASE taken
  <2>1. st = more /\ writes' = [writes EXCEPT ![s][k] = @ + 1]
    BY <1>1, <1>13 DEF st
  <2>2. r.recvWindow > 0
    BY <1>13 DEF FitsWindow
  <2>3. /\ r2 \in StreamState /\ r2.serial = k /\ r2.recvWindow = r.recvWindow - 1
        /\ r2.sendWindow = r.sendWindow /\ r2.pending = r.pending /\ r2.ended = r.ended
    <3>1. r.recvWindow - 1 \in 0..Window
      BY <1>3, <2>2
    <3>2. QED
      BY <1>3, <3>1 DEF StreamState
  <2>4. /\ s \in OpenIn(Now) /\ r # NoStream /\ k \in Serial \ {0}
        /\ writes[s][k] \in Nat /\ r.recvWindow + writes[s][k] <= Window
        /\ honest => /\ v.serial = k \/ v = NoView
                     /\ StreamOK(toPhone, v, r, writes[s][k], emitted[k], arrived[k])
    BY <1>13, OpenStreamFact DEF v
  <2>5. /\ writes' \in [Stream -> [Serial -> Nat]] /\ writes'[s][k] = writes[s][k] + 1
        /\ \A t \in Stream, m \in Serial : t # s \/ m # k => writes'[t][m] = writes[t][m]
    BY <1>2, <2>1, <2>4
  <2> HIDE DEF r2
  <2>6. /\ more \in StateType /\ more.queue = toPhone /\ more.sockets = Now.sockets
        /\ more.streams[s] = r2 /\ \A t \in Stream : t # s => more.streams[t] = Now.streams[t]
    BY <1>2, <1>6, <2>3, WithFact
  <2>7. k = Now.streams[s].serial /\ Now.streams[s] = r
    BY <1>2
  <2> DEFINE w == writes'[s][k]
  <2>8. w = writes[s][k] + 1
    BY <2>5
  <2> HIDE DEF r, k, w
  <2>9. r2.recvWindow + w <= Window
    BY <1>3, <2>3, <2>4, <2>8
  <2>10. ASSUME honest
         PROVE  StreamOK(toPhone, v2, r2, w, emitted[k], arrived[k])
    <3> DEFINE c == UnitsOf(toPhone, "credit", k)
    <3>1. StreamOK(toPhone, v, r, writes[s][k], emitted[k], arrived[k]) /\ r.serial = k
      BY <2>4, <2>10 DEF k
    <3>2. 1 <= v.window /\ v.serial = k
      BY <1>1, <1>3, <2>4, <2>10 DEF NoView
    <3>3. c \in Nat
      BY <1>2, UnitsNat DEF UnitsOf
    <3>4. v.window + c = r.recvWindow
      BY <3>1, <3>2 DEF StreamOK
    <3>5. ~r.ended => r.recvWindow + writes[s][k] = Window
      BY <3>1 DEF StreamOK
    <3> HIDE DEF c
    <3>6. v2.window + c = r2.recvWindow
      BY <1>3, <1>4, <1>7, <2>3, <3>2, <3>3, <3>4
    <3>7. r2.recvWindow + w = r.recvWindow + writes[s][k]
      BY <1>3, <2>3, <2>4, <2>8
    <3>8. ~r2.ended => r2.recvWindow + w = Window
      BY <2>3, <3>5, <3>7
    <3>9. QED
      BY <1>7, <2>3, <3>1, <3>2, <3>6, <3>8 DEF StreamOK, c
  <2>11. Changes(honest, Now, view, writes, emitted, arrived, s, more, view', writes', emitted)
    BY <1>2, <1>8, <2>3, <2>4, <2>5, <2>6, <2>7, <2>9, <2>10 DEF Changes, w
  <2>12. Sound(honest, more, view', writes', emitted, arrived, born)
    BY <1>2, <2>11, SoundChange
  <2>13. QED
    BY <1>1, <1>9, <2>1, <2>6, <2>12, KeepsStep
<1>14. QED
  BY <1>11, <1>12, <1>13

\* The callback of a write: credit goes back for a stream that is still there.
LEMMA WriteDoneStep ==
    ASSUME IInv, NEW s \in Stream, NEW n \in Serial, WriteDone(s, n)
    PROVE  IInv'
<1> DEFINE r == streams[s]
           r2 == [r EXCEPT !.recvWindow = r.recvWindow + 1]
           more == [Now EXCEPT !.streams[s].recvWindow = @ + 1]
           f == CreditBack(s, n)
           st == Send(more, f)
<1>1. /\ writes[s][n] > 0 /\ writes' = [writes EXCEPT ![s][n] = @ - 1]
      /\ Commit(AfterWrite(s, n))
      /\ connecting' = connecting /\ asks' = asks /\ opens' = opens /\ born' = born
      /\ view' = view /\ emitted' = emitted /\ arrived' = arrived
      /\ disposed' = disposed /\ honest' = honest /\ cancelled' = cancelled
      /\ enabled' = enabled /\ authorizing' = authorizing /\ grants' = grants
  BY DEF WriteDone, history, grantVars, phone
<1>2. /\ Now \in StateType /\ Now.streams = streams /\ Now.queue = toPhone /\ Now.timer = timer
      /\ streams \in [Stream -> StreamState] /\ writes \in [Stream -> [Serial -> Nat]]
      /\ OpenIn(Now) = OpenStreams /\ toPhone \in Seq(Frame)
      /\ Sound(honest, Now, view, writes, emitted, arrived, born) /\ cancelled \subseteq Stream
      /\ (disposed => ~timer)
  BY NowFact DEF IInv, Others, Ended
<1>3. n \in 1..born /\ n # 0
  <2>1. n \in 1..born
    BY <1>1, <1>2 DEF Sound, Flow, WritesOK
  <2>2. QED
    BY <2>1
<1>4. /\ writes' \in [Stream -> [Serial -> Nat]] /\ writes'[s][n] = writes[s][n] - 1
      /\ \A t \in Stream, m \in Serial : t # s \/ m # n => writes'[t][m] = writes[t][m]
  <2>1. writes[s][n] - 1 \in Nat
    BY <1>1, <1>2
  <2>2. QED
    BY <1>1, <1>2, <2>1
<1>5. CASE r.serial # n
  <2>1. Commit(Now)
    BY <1>1, <1>5 DEF AfterWrite
  <2>2. Called(writes, s, n, writes')
    BY <1>1, <1>4 DEF Called
  <2>3. Sound(honest, Now, view, writes', emitted, arrived, born)
    BY <1>2, <1>5, <2>2, SoundForgets
  <2>4. QED
    BY <1>1, <1>2, <2>1, <2>3, StreamStep
<1>6. CASE r.serial = n
  <2>1. IsOpen(s)
    BY <1>3, <1>6 DEF IsOpen, NoStream
  <2>2. /\ s \in OpenIn(Now) /\ r \in StreamState /\ r.recvWindow + writes[s][n] <= Window
        /\ writes[s][n] \in Nat /\ r.recvWindow \in Nat /\ Window \in Nat
    BY <1>6, <2>1, OpenStreamFact, WindowAssumption DEF StreamState
  <2>3. Keeps
    BY <1>1, <1>2, <2>1, OpenFact DEF Keeps
  <2>4. AfterWrite(s, n) = st
    BY <1>6 DEF AfterWrite
  <2>5. more = With(Now, s, r2)
    BY <1>2 DEF With, StateType, StreamState
  <2>6. /\ r2 \in StreamState /\ r2.serial = n /\ r2.recvWindow = r.recvWindow + 1
        /\ r2.sendWindow = r.sendWindow /\ r2.pending = r.pending /\ r2.ended = r.ended
    <3>1. r.recvWindow + 1 \in 0..Window
      BY <1>1, <2>2
    <3>2. QED
      BY <1>6, <2>2, <3>1 DEF StreamState
  <2> HIDE DEF r2, more
  <2>7. /\ more \in StateType /\ more.queue = toPhone /\ more.sockets = Now.sockets
        /\ more.streams[s] = r2 /\ \A t \in Stream : t # s => more.streams[t] = streams[t]
    BY <1>2, <2>5, <2>6, WithFact
  <2>8. f \in Frame /\ f.kind = "credit"
    BY DEF CreditBack, Frame
  <2>9. f = CreditBack(s, n)
    OBVIOUS
  <2> HIDE DEF f
  <2>10. /\ st \in StateType /\ st.queue = Append(toPhone, f) /\ st.sockets = Now.sockets
         /\ st.streams = more.streams
    BY <2>7, <2>8, SendFact
  <2> HIDE DEF st
  <2>11. \A t \in Stream : Answers(st.queue, t) = Answers(toPhone, t)
    BY <1>2, <2>8, <2>10, AnswersQuiet
  <2>12. Sound(honest, st, view, writes', emitted, arrived, born)
    <3>1. /\ n = Now.streams[s].serial /\ r = Now.streams[s]
          /\ st.queue = Append(Now.queue, CreditBack(s, n))
          /\ st.streams[s].recvWindow = r.recvWindow + 1
          /\ st.streams[s].serial = n /\ st.streams[s].sendWindow = r.sendWindow
          /\ st.streams[s].pending = r.pending /\ st.streams[s].ended = r.ended
          /\ \A t \in Stream : t # s => st.streams[t] = Now.streams[t]
      BY <1>2, <1>6, <2>6, <2>7, <2>9, <2>10
    <3> HIDE DEF r
    <3>2. Credited(Now, s, st)
      BY <2>10, <3>1 DEF Credited
    <3>3. Called(writes, s, Now.streams[s].serial, writes')
      BY <1>1, <1>4, <3>1 DEF Called
    <3>4. QED
      BY <1>2, <2>2, <3>2, <3>3, SoundWritten
  <2>13. QED
    BY <1>1, <2>3, <2>4, <2>11, <2>12, KeepsStep
<1>7. QED
  BY <1>5, <1>6

\* A write that fails gives nothing back.
LEMMA WriteFailsStep ==
    ASSUME IInv, NEW s \in Stream, NEW n \in Serial, WriteFails(s, n)
    PROVE  IInv'
<1> DEFINE r == streams[s]
<1>1. /\ writes[s][n] > 0 /\ writes' = [writes EXCEPT ![s][n] = @ - 1]
      /\ r.serial = n /\ r.ended /\ Commit(Now)
      /\ connecting' = connecting /\ asks' = asks /\ opens' = opens /\ born' = born
      /\ view' = view /\ emitted' = emitted /\ arrived' = arrived
      /\ disposed' = disposed /\ honest' = honest /\ cancelled' = cancelled
      /\ enabled' = enabled /\ authorizing' = authorizing /\ grants' = grants
  BY DEF WriteFails, history, grantVars, phone
<1>2. /\ Now \in StateType /\ Now.streams = streams /\ Now.queue = toPhone
      /\ writes \in [Stream -> [Serial -> Nat]] /\ emitted \in [Serial -> Nat]
      /\ view \in [Stream -> ViewState]
      /\ Sound(honest, Now, view, writes, emitted, arrived, born) /\ cancelled \subseteq Stream
  BY NowFact DEF IInv, Others
<1>3. IsOpen(s)
  BY <1>1 DEF IsOpen, NoStream
<1>4. /\ s \in OpenIn(Now) /\ r \in StreamState /\ r.recvWindow + writes[s][n] <= Window
      /\ writes[s][n] \in Nat /\ r.recvWindow \in Nat /\ Window \in Nat
      /\ honest => StreamOK(toPhone, view[s], r, writes[s][n], emitted[n], arrived[n])
  BY <1>1, <1>3, OpenStreamFact, WindowAssumption DEF StreamState
<1>5. Keeps
  BY <1>1, <1>2, <1>3, OpenFact DEF Keeps
<1>6. /\ writes' \in [Stream -> [Serial -> Nat]] /\ writes'[s][n] = writes[s][n] - 1
      /\ \A t \in Stream, m \in Serial : t # s \/ m # n => writes'[t][m] = writes[t][m]
  <2>1. writes[s][n] - 1 \in Nat
    BY <1>1, <1>4
  <2>2. QED
    BY <1>1, <1>2, <2>1
<1>7. r = Now.streams[s]
  BY <1>2
<1> HIDE DEF r
<1>8. ASSUME honest
      PROVE  StreamOK(toPhone, view[s], r, writes'[s][n], emitted[n], arrived[n])
  <2>1. view[s].serial = r.serial
    BY <1>1, <1>4, <1>8 DEF StreamOK
  <2>2. QED
    BY <1>1, <1>4, <1>8, <2>1 DEF StreamOK
<1>9. r.recvWindow + writes'[s][n] <= Window
  BY <1>4, <1>6
<1>10. Changes(honest, Now, view, writes, emitted, arrived, s, Now, view, writes', emitted)
  BY <1>1, <1>2, <1>4, <1>6, <1>7, <1>8, <1>9 DEF Changes
<1>11. Sound(honest, Now, view, writes', emitted, arrived, born)
  BY <1>2, <1>10, SoundChange
<1>12. QED
  BY <1>1, <1>2, <1>5, <1>11, KeepsStep

\* The phone takes the next frame.
LEMMA PhoneReceivesStep ==
    ASSUME IInv, PhoneReceives
    PROVE  IInv'
<1> DEFINE f == Head(toPhone)
           v == view[f.stream]
           v2 == ViewAfter(f)
           st == [streams |-> streams, queue |-> Tail(toPhone), timer |-> timer,
                  sockets |-> sockets]
<1>1. /\ toPhone # <<>> /\ toPhone' = Tail(toPhone)
      /\ view' = [view EXCEPT ![f.stream] = v2]
      /\ asks' = IF f.kind \in {"opened", "failed"} THEN [asks EXCEPT ![f.stream] = @ - 1]
                 ELSE asks
      /\ arrived' = IF f.kind = "data" /\ v # NoView
                    THEN [arrived EXCEPT ![v.serial] = @ + f.units] ELSE arrived
      /\ streams' = streams /\ timer' = timer /\ sockets' = sockets
      /\ connecting' = connecting /\ opens' = opens /\ born' = born
      /\ writes' = writes /\ emitted' = emitted
      /\ disposed' = disposed /\ honest' = honest /\ cancelled' = cancelled
      /\ enabled' = enabled /\ authorizing' = authorizing /\ grants' = grants
  BY DEF PhoneReceives, grantVars
<1>2. /\ Now \in StateType /\ Now.streams = streams /\ Now.queue = toPhone /\ Now.timer = timer
      /\ Now.sockets = sockets /\ toPhone \in Seq(Frame)
      /\ view \in [Stream -> ViewState] /\ arrived \in [Serial -> Nat]
      /\ asks \in [Stream -> Nat] /\ connecting \in [Stream -> Nat]
  BY NowFact
<1>3. /\ Sound(honest, Now, view, writes, emitted, arrived, born)
      /\ Counted(connecting, born, opens) /\ Asked /\ Ended /\ Others
  BY DEF IInv
<1>4. ~disposed
  BY <1>1, <1>3 DEF Ended
<1>5. f \in Frame /\ Tail(toPhone) \in Seq(Frame)
  BY <1>1, <1>2, QueueFact, TailFact
<1>6. /\ f.stream \in Stream /\ f.serial \in Serial /\ f.units \in Nat
      /\ f.kind \in {"opened", "data", "credit", "failed"} \cup Reason
  BY <1>5 DEF Frame
<1> HIDE DEF f
<1>7. v \in ViewState /\ v.window \in Nat /\ v.unread \in Nat /\ v.serial \in Serial
  BY <1>2, <1>6 DEF ViewState
<1>8. v2 = IF ~honest THEN NoView ELSE
           CASE f.kind = "opened" -> [serial |-> f.serial, window |-> Window, unread |-> 0]
             [] f.kind \in Reason -> NoView
             [] f.kind = "data" /\ v # NoView -> [v EXCEPT !.unread = @ + f.units]
             [] f.kind = "credit" /\ v # NoView -> [v EXCEPT !.window = @ + f.units]
             [] OTHER -> v
  BY DEF ViewAfter
<1> HIDE DEF v, v2
<1>9. /\ ~honest => v2 = NoView
      /\ honest /\ f.kind = "opened" => v2 = [serial |-> f.serial, window |-> Window, unread |-> 0]
      /\ honest /\ f.kind \in Reason => v2 = NoView
      /\ honest /\ f.kind = "data" /\ v # NoView => v2 = [v EXCEPT !.unread = v.unread + f.units]
      /\ honest /\ f.kind = "credit" /\ v # NoView => v2 = [v EXCEPT !.window = v.window + f.units]
      /\ honest /\ f.kind \in {"data", "credit"} /\ v = NoView => v2 = v
      /\ honest /\ f.kind = "failed" => v2 = v
  BY <1>7, <1>8 DEF Reason, ViewState
<1>10. v2 \in ViewState
  <2>1. NoView \in ViewState
    BY LimitAssumption DEF NoView, ViewState, Serial
  <2>2. [serial |-> f.serial, window |-> Window, unread |-> 0] \in ViewState
    BY <1>6, WindowAssumption DEF ViewState
  <2>3. /\ [v EXCEPT !.unread = v.unread + f.units] \in ViewState
        /\ [v EXCEPT !.window = v.window + f.units] \in ViewState
    BY <1>6, <1>7 DEF ViewState
  <2>4. QED
    BY <1>6, <1>7, <1>9, <2>1, <2>2, <2>3
<1>11. Sees(honest, f, v, v2)
  BY <1>7, <1>9 DEF Sees, ViewState
<1>12. /\ view' \in [Stream -> ViewState] /\ view'[f.stream] = v2
       /\ \A t \in Stream : t # f.stream => view'[t] = view[t]
  BY <1>1, <1>2, <1>6, <1>10
<1>13. /\ arrived' \in [Serial -> Nat]
       /\ f.kind = "data" /\ v # NoView =>
             /\ arrived'[v.serial] = arrived[v.serial] + f.units
             /\ \A n \in Serial : n # v.serial => arrived'[n] = arrived[n]
       /\ f.kind # "data" \/ v = NoView => arrived' = arrived
  <2>1. arrived[v.serial] + f.units \in Nat
    BY <1>2, <1>6, <1>7
  <2>2. QED
    BY <1>1, <1>2, <1>6, <1>7, <2>1
<1>14. /\ st \in StateType /\ st.streams = Now.streams /\ st.queue = Tail(Now.queue)
       /\ st.sockets = Now.sockets /\ st = Now'
  <2>1. st \in StateType
    BY <1>2, <1>5 DEF StateType
  <2>2. QED
    BY <1>1, <1>2, <2>1 DEF Now
<1> HIDE DEF st
<1>15. Sound(honest, Now, view, writes, emitted, arrived, born)'
  <2>1. f = Head(Now.queue) /\ v = view[f.stream]
    BY <1>2 DEF f, v
  <2>2. Reads(honest, Now, view, arrived, st, view', arrived')
    BY <1>12, <1>11, <1>13, <1>14, <2>1 DEF Reads
  <2>3. Now.queue # <<>>
    BY <1>1, <1>2
  <2>4. Sound(honest, st, view', writes, emitted, arrived', born)
    BY <1>3, <2>2, <2>3, SoundReceives
  <2>5. QED
    BY <1>1, <1>14, <2>4
<1>16. Asked'
  <2>1. \A t \in Stream : /\ asks[t] = connecting[t] + Answers(toPhone, t)
                          /\ Answers(toPhone, t) = AnswerTo(f, t) + Answers(Tail(toPhone), t)
                          /\ asks[t] \in Nat /\ connecting[t] \in Nat
                          /\ Answers(Tail(toPhone), t) \in Nat
    <3>1. \A t : Answers(toPhone, t) = AnswerTo(f, t) + Answers(Tail(toPhone), t)
      BY <1>1, <1>2, AnswersTail DEF f
    <3>2. \A t : Answers(Tail(toPhone), t) \in Nat
      BY <1>5, AnswersNat
    <3>3. QED
      BY <1>2, <1>3, <1>4, <3>1, <3>2 DEF Asked
  <2>2. honest => \A t \in Stream : asks[t] <= 1 /\ (asks[t] = 1 => view[t] = NoView)
    BY <1>3 DEF Asked
  <2>3. CASE f.kind \in {"opened", "failed"}
    <3>1. AnswerTo(f, f.stream) = 1 /\ \A t \in Stream : t # f.stream => AnswerTo(f, t) = 0
      BY <2>3 DEF AnswerTo
    <3>2. /\ asks'[f.stream] = asks[f.stream] - 1
          /\ \A t \in Stream : t # f.stream => asks'[t] = asks[t]
      BY <1>1, <1>2, <1>6, <2>3
    <3>3. \A t \in Stream : asks'[t] = connecting[t] + Answers(Tail(toPhone), t)
      BY <1>6, <2>1, <3>1, <3>2
    <3>4. asks' \in [Stream -> Nat]
      <4>1. asks[f.stream] - 1 \in Nat
        BY <1>6, <2>1, <3>1
      <4>2. QED
        BY <1>1, <1>2, <1>6, <2>3, <4>1
    <3>5. ASSUME honest, NEW t \in Stream
          PROVE  asks'[t] <= 1 /\ (asks'[t] = 1 => view'[t] = NoView)
      <4>1. CASE t = f.stream
        BY <2>1, <2>2, <3>2, <3>5, <4>1
      <4>2. CASE t # f.stream
        BY <1>12, <2>2, <3>2, <3>5, <4>2
      <4>3. QED
        BY <4>1, <4>2
    <3>6. QED
      BY <1>1, <3>3, <3>4, <3>5 DEF Asked
  <2>4. CASE f.kind \notin {"opened", "failed"}
    <3>1. \A t \in Stream : AnswerTo(f, t) = 0
      BY <2>4 DEF AnswerTo
    <3>2. asks' = asks
      BY <1>1, <2>4
    <3>3. \A t \in Stream : asks'[t] = connecting[t] + Answers(Tail(toPhone), t)
      BY <2>1, <3>1, <3>2
    <3>4. ASSUME honest, NEW t \in Stream, asks'[t] = 1
          PROVE  view'[t] = NoView
      <4>1. view[t] = NoView
        BY <2>2, <3>2, <3>4
      <4>2. CASE t # f.stream
        BY <1>12, <4>1, <4>2
      <4>3. CASE t = f.stream
        <5>1. v = NoView
          BY <4>1, <4>3 DEF v
        <5>2. f.kind \in {"data", "credit"} \cup Reason
          BY <1>6, <2>4
        <5>3. v2 = NoView
          BY <1>9, <3>4, <5>1, <5>2
        <5>4. QED
          BY <1>12, <4>3, <5>3
      <4>4. QED
        BY <4>2, <4>3
    <3>5. QED
      BY <1>1, <1>2, <2>2, <3>2, <3>3, <3>4 DEF Asked
  <2>5. QED
    BY <2>3, <2>4
<1>17. Ended' /\ Others' /\ Counted(connecting, born, opens)'
  BY <1>1, <1>3, <1>4 DEF Ended, Others
<1>18. QED
  BY <1>15, <1>16, <1>17 DEF IInv

\* There is nothing at first.
LEMMA InitIInv ==
    ASSUME Init
    PROVE  IInv
<1>1. /\ enabled = TRUE /\ disposed = FALSE /\ authorizing = {} /\ grants = {}
      /\ connecting = [s \in Stream |-> 0] /\ streams = [s \in Stream |-> NoStream]
      /\ timer = FALSE /\ sockets = 0 /\ writes = [s \in Stream |-> [n \in Serial |-> 0]]
      /\ toPhone = <<>> /\ honest \in Honesty /\ asks = [s \in Stream |-> 0]
      /\ view = [s \in Stream |-> NoView] /\ opens = 0 /\ born = 0 /\ cancelled = {}
      /\ emitted = [n \in Serial |-> 0] /\ arrived = [n \in Serial |-> 0]
  BY DEF Init
<1>2. /\ NoStream \in StreamState /\ NoView \in ViewState /\ 0 \in Serial
      /\ NoStream.serial = 0 /\ NoView.serial = 0
  BY WindowAssumption, LimitAssumption DEF NoStream, NoView, StreamState, ViewState, Serial
<1>3. /\ Now.streams = streams /\ Now.queue = <<>> /\ Now.sockets = 0
      /\ OpenIn(Now) = {} /\ Len(Now.queue) = 0
  BY <1>1 DEF Now, OpenIn
<1>4. Now \in StateType
  <2>1. streams \in [Stream -> StreamState]
    BY <1>1, <1>2
  <2>2. <<>> \in Seq(Frame) /\ sockets \in Int
    BY <1>1
  <2>3. timer \in BOOLEAN
    BY <1>1, Zenon
  <2>4. Now = [streams |-> streams, queue |-> <<>>, timer |-> timer, sockets |-> sockets]
    BY <1>1 DEF Now
  <2>5. QED
    BY <2>1, <2>2, <2>3, <2>4 DEF StateType
<1>5. \A i \in 1..Len(Now.queue) : FALSE
  BY <1>3
<1>6. view \in [Stream -> ViewState]
  BY <1>1, <1>2
<1>7. Shape(honest, Now, view, born)
  <2>1. SerialsOK(Now, view) /\ NamesOK(Now, view, born)
    BY <1>1, <1>2, <1>3, <1>5 DEF SerialsOK, NamesOK, Named
  <2>2. Now.sockets = Cardinality(OpenIn(Now))
    BY <1>3, FS_EmptySet
  <2>3. /\ Ordered(Now.queue) /\ Single(Now.queue, view) /\ Finds(Now.queue, view)
        /\ Told(Now, view) /\ Over(Now)
    BY <1>3, <1>5 DEF Ordered, Single, Finds, Told, Over
  <2>4. \A s \in Stream : view[s] = NoView
    BY <1>1
  <2>5. born \in Serial
    BY <1>1, <1>2
  <2>6. QED
    BY <1>4, <1>6, <2>1, <2>2, <2>3, <2>4, <2>5 DEF Shape
<1>8. Flow(honest, Now, view, writes, emitted, arrived, born)
  <2>1. WritesOK(Now, writes, born)
    BY <1>1, <1>3 DEF WritesOK
  <2>2. StreamsOK(Now, view, writes, emitted, arrived) /\ EofOK(Now.queue, view, emitted, arrived)
    BY <1>3, <1>5 DEF StreamsOK, EofOK
  <2>3. QED
    BY <1>1, <2>1, <2>2 DEF Flow
<1>9. Counted(connecting, born, opens)
  <2>1. Attempts(connecting) = {}
    BY <1>1, LimitAssumption DEF Attempts
  <2>2. Cardinality(Attempts(connecting)) = 0
    BY <2>1, FS_EmptySet
  <2>3. opens \in 0..MaxOpens /\ connecting \in [Stream -> Nat]
    BY <1>1, LimitAssumption
  <2>4. (\A s \in Stream : connecting[s] <= opens) /\ born + 0 <= opens
    BY <1>1
  <2>5. QED
    BY <2>2, <2>3, <2>4 DEF Counted
<1>10. Asked
  <2>1. \A t \in Stream : Answers(toPhone, t) = 0
    <3>1. toPhone \in Seq(Frame) /\ \A i \in 1..Len(toPhone) : FALSE
      BY <1>1
    <3>2. QED
      BY <3>1, AnswersNat
  <2>2. QED
    BY <1>1, <2>1 DEF Asked
<1>11. Ended /\ Others
  <2>1. disposed \in BOOLEAN /\ enabled \in BOOLEAN
    BY <1>1, Zenon
  <2>2. honest \in BOOLEAN
    BY <1>1, LimitAssumption
  <2>3. QED
    BY <1>1, <2>1, <2>2 DEF Ended, Others
<1>12. QED
  BY <1>7, <1>8, <1>9, <1>10, <1>11 DEF IInv, Sound

-----------------------------------------------------------------------------
(* What the invariant says.                                                *)

\* Every step of the tunnel keeps the invariant.
LEMMA NextIInv ==
    ASSUME IInv, [Next]_vars
    PROVE  IInv'
<1>1. ASSUME NEW p \in Port,
             \/ Authorize(p) \/ \E mentioned \in BOOLEAN : AuthorizeAnswered(p, mentioned)
             \/ \E s \in Stream : Open(s, p)
      PROVE  IInv'
  BY <1>1, AuthorizeStep, OpenStep
<1>2. ASSUME NEW s \in Stream,
             \/ Settle(s) \/ GiveCredit(s) \/ Close(s) \/ DataUp(s)
             \/ ServiceSends(s) \/ ServiceEnds(s) \/ ServiceResets(s)
             \/ \E n \in Serial : WriteDone(s, n) \/ WriteFails(s, n)
      PROVE  IInv'
  BY <1>2, ConnectedStep, CreditStep, CloseStep, DataUpStep, ServiceSendsStep,
     ServiceEndsStep, ServiceResetsStep, WriteDoneStep, WriteFailsStep DEF Settle, GiveCredit
<1>3. CASE FlushTimer \/ Dispose \/ PhoneReceives
  BY <1>3, FlushTimerStep, DisposeStep, PhoneReceivesStep
<1>4. CASE Switch \/ UNCHANGED vars
  BY <1>4, SwitchStep
<1>5. QED
  BY <1>1, <1>2, <1>3, <1>4 DEF Next

\* The invariant implies the types.
LEMMA IInvTypes ==
    ASSUME IInv
    PROVE  TypeOK
<1>1. Now \in StateType /\ Now.streams = streams /\ Now.timer = timer /\ Now.sockets = sockets
  BY NowFact
<1>2. streams \in [Stream -> StreamState] /\ timer \in BOOLEAN /\ sockets \in Int
  BY <1>1 DEF StateType
<1>3. opens \in Nat
  BY LimitAssumption DEF IInv, Counted
<1>4. QED
  BY <1>2, <1>3, NowFact DEF IInv, Others, TypeOK

\* Both windows of an open stream, from what is known of it.
LEMMA IInvWindows ==
    ASSUME IInv
    PROVE  WindowsConserved
<1> SUFFICES ASSUME honest, NEW s \in OpenStreams
             PROVE  LET r == streams[s]
                        v == view[s]
                        known == v.serial = r.serial
                        data == Units(toPhone, "data", {r.serial})
                        credit == Units(toPhone, "credit", {r.serial})
                    IN  /\ r.sendWindow + data + (IF known THEN v.unread ELSE 0) = Window
                        /\ ~r.ended => r.recvWindow + writes[s][r.serial] = Window
                        /\ known => v.window + credit = r.recvWindow
  BY DEF WindowsConserved
<1> DEFINE r == streams[s]
           v == view[s]
<1>1. StreamOK(toPhone, v, r, writes[s][r.serial], emitted[r.serial], arrived[r.serial])
  BY OpenStreamFact DEF OpenStreams
<1> HIDE DEF r, v
<1>2. /\ r.sendWindow + Units(toPhone, "data", {r.serial})
            + (IF v.serial = r.serial THEN v.unread ELSE 0) = Window
      /\ ~r.ended => r.recvWindow + writes[s][r.serial] = Window
      /\ v.serial = r.serial => v.window + Units(toPhone, "credit", {r.serial}) = r.recvWindow
  BY <1>1 DEF StreamOK, UnitsOf
<1>3. QED
  BY <1>2 DEF r, v

\* The first frame of a queue has none before it.
LEMMA FirstFact ==
    ASSUME IInv, toPhone # <<>>, NEW f, f = Head(toPhone)
    PROVE  /\ Len(toPhone) \in Nat /\ 1 \in 1..Len(toPhone) /\ f = toPhone[1] /\ f \in Frame
           /\ Tail(toPhone) \in Seq(Frame) /\ Len(toPhone) = Len(Tail(toPhone)) + 1
           /\ \A i \in 1..Len(Tail(toPhone)) :
                 i + 1 \in 1..Len(toPhone) /\ i + 1 # 1 /\ Tail(toPhone)[i] = toPhone[i + 1]
<1>1. toPhone \in Seq(Frame)
  BY NowFact
<1>2. /\ Tail(toPhone) \in Seq(Frame) /\ Len(Tail(toPhone)) \in Nat
      /\ Len(toPhone) = Len(Tail(toPhone)) + 1 /\ Head(toPhone) = toPhone[1]
      /\ \A i \in 1..Len(Tail(toPhone)) : Tail(toPhone)[i] = toPhone[i + 1]
  BY <1>1, TailFact
<1> DEFINE n == Len(Tail(toPhone))
<1> HIDE DEF n
<1>3. /\ n \in Nat /\ Len(toPhone) = n + 1
      /\ \A i \in 1..n : Tail(toPhone)[i] = toPhone[i + 1]
  BY <1>2 DEF n
<1>4. Len(toPhone) \in Nat /\ 1 \in 1..Len(toPhone)
      /\ \A i \in 1..n : i + 1 \in 1..Len(toPhone) /\ i + 1 # 1
  BY <1>3
<1>5. toPhone[1] \in Frame
  BY <1>1, <1>4
<1>6. QED
  BY <1>2, <1>3, <1>4, <1>5 DEF n

\* The first frame finds the phone with its stream or with none.
LEMMA IInvStreams ==
    ASSUME IInv
    PROVE  StreamsDoNotMix
<1> DEFINE f == Head(toPhone)
<1> SUFFICES ASSUME honest, toPhone # <<>>, f.kind \in Body
             PROVE  view[f.stream].serial \in {0, f.serial}
  BY DEF StreamsDoNotMix, Body
<1>1. Len(toPhone) \in Nat /\ 1 \in 1..Len(toPhone) /\ f = toPhone[1]
  BY FirstFact
<1>2. Finds(toPhone, view)
  BY NowFact DEF IInv, Sound, Shape
<1>3. \A j \in 1..Len(toPhone) : ~(j < 1)
  BY <1>1
<1> HIDE DEF f
<1>4. QED
  BY <1>1, <1>2, <1>3 DEF Finds

\* No data can be behind the frame that ends its stream.
LEMMA IInvEof ==
    ASSUME IInv
    PROVE  EofMeansComplete
<1> DEFINE f == Head(toPhone)
<1> SUFFICES ASSUME toPhone # <<>>, f.kind = "eof", view[f.stream].serial = f.serial
             PROVE  arrived[f.serial] = emitted[f.serial]
  BY DEF EofMeansComplete
<1> DEFINE rest == Tail(toPhone)
           n == Len(rest)
<1>1. /\ Len(toPhone) \in Nat /\ 1 \in 1..Len(toPhone) /\ f = toPhone[1] /\ f \in Frame
      /\ rest \in Seq(Frame) /\ Len(toPhone) = n + 1
      /\ \A i \in 1..n : i + 1 \in 1..Len(toPhone) /\ i + 1 # 1 /\ rest[i] = toPhone[i + 1]
  BY FirstFact
<1>2. /\ toPhone \in Seq(Frame) /\ Now.queue = toPhone
      /\ emitted \in [Serial -> Nat] /\ arrived \in [Serial -> Nat]
      /\ Shape(honest, Now, view, born) /\ Flow(honest, Now, view, writes, emitted, arrived, born)
  BY NowFact DEF IInv, Sound
<1> HIDE DEF f, rest, n
<1>3. f.stream \in Stream /\ f.serial \in Serial
  BY <1>1 DEF Frame
<1>4. f.serial # 0
  BY <1>1, <1>2 DEF Shape, SerialsOK
<1>5. honest
  BY <1>3, <1>4, <1>2 DEF Shape, NoView
<1>6. EofOK(toPhone, view, emitted, arrived) /\ Ordered(toPhone)
  BY <1>2, <1>5 DEF Shape, Flow
<1>7. emitted[f.serial] = arrived[f.serial] + UnitsOf(toPhone, "data", f.serial)
  BY <1>1, <1>6 DEF EofOK, Live
<1>8. UnitsOf(toPhone, "data", f.serial) = 0
  <2>1. f.kind \in Reason
    BY DEF Reason
  <2>2. \A i \in 1..n : rest[i].serial # f.serial
    <3> SUFFICES ASSUME NEW i \in 1..n, rest[i].serial = f.serial PROVE FALSE
      OBVIOUS
    <3>1. i + 1 \in 1..Len(toPhone) /\ toPhone[i + 1].serial = toPhone[1].serial /\ i + 1 # 1
      BY <1>1
    <3>2. i + 1 < 1
      BY <1>1, <1>4, <1>6, <2>1, <3>1 DEF Ordered
    <3>3. QED
      BY <1>1, <3>2
  <2>3. UnitsOf(rest, "data", f.serial) = 0
    <3> DEFINE S == {f.serial}
    <3>1. \A i \in 1..Len(rest) : rest[i].serial \notin S
      BY <2>2 DEF n
    <3> HIDE DEF S
    <3>2. Units(rest, "data", S) = 0
      BY <1>1, <3>1, UnitsNat
    <3>3. QED
      BY <3>2 DEF UnitsOf, S
  <2>4. UnitsOf(rest, "data", f.serial) = UnitsOf(toPhone, "data", f.serial)
    BY <1>2, UnitsRest DEF f, rest
  <2>5. QED
    BY <2>3, <2>4
<1>9. QED
  BY <1>2, <1>3, <1>7, <1>8

\* The count of the sockets is that of the streams.
LEMMA IInvSockets ==
    ASSUME IInv
    PROVE  NoSocketLeaks
  BY NowFact DEF IInv, Sound, Shape, NoSocketLeaks

\* In every behaviour the invariant holds.
LEMMA Invariant == Spec => []IInv
<1>1. Init => IInv
  BY InitIInv
<1>2. IInv /\ [Next]_vars => IInv'
  BY NextIInv
<1>3. QED
  BY <1>1, <1>2, PTL DEF Spec

\* The state stays of its type: with any number of requests, connects and frames no count
\* or window of a stream becomes negative.
THEOREM TypeCorrect == Spec => []TypeOK
<1>1. IInv => TypeOK
  BY IInvTypes
<1>2. QED
  BY <1>1, Invariant, PTL

\* Neither window of a stream leaks or grows, down or up: what may be sent, what is on its
\* way and what is not given back are the window the stream began with, through every
\* flush, retry, write and close, and for any number of streams that use the id in turn.
THEOREM WindowsCorrect == Spec => []WindowsConserved
<1>1. IInv => WindowsConserved
  BY IInvWindows
<1>2. QED
  BY <1>1, Invariant, PTL

\* However often an id is closed and opened again by either side while frames of it are
\* under way, the phone never takes a frame of an earlier stream for one of a later.
THEOREM StreamsCorrect == Spec => []StreamsDoNotMix
<1>1. IInv => StreamsDoNotMix
  BY IInvStreams
<1>2. QED
  BY <1>1, Invariant, PTL

\* When the phone reads that a service has ended, it has all the service sent, although
\* the end waits while data is held back by the windows and the buffer of the connection.
THEOREM EofCorrect == Spec => []EofMeansComplete
<1>1. IInv => EofMeansComplete
  BY IInvEof
<1>2. QED
  BY <1>1, Invariant, PTL

\* No socket outlives its stream and no stream is without one, whatever order connects,
\* closes, resets and the disconnection come in.
THEOREM SocketsCorrect == Spec => []NoSocketLeaks
<1>1. IInv => NoSocketLeaks
  BY IInvSockets
<1>2. QED
  BY <1>1, Invariant, PTL
=============================================================================
