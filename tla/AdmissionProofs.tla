--------------------------- MODULE AdmissionProofs ---------------------------
(***************************************************************************)
(* Theorems about how a phone gets in and what it may then do, for every   *)
(* set of sources, requests, devices and sockets: the limiter and the      *)
(* gates (ConnectionGate), the authority of open sockets (DeviceAccess),   *)
(* and the listener of the LAN that lets the phones in (LocalTransport),   *)
(* for any number of changes of its settings and whatever fails.           *)
(***************************************************************************)
EXTENDS ConnectionGate, DeviceAccess, LocalTransport,
        FiniteSetTheorems, WellFoundedInduction, TLAPS

-----------------------------------------------------------------------------
(* Induction, as sets: what a least counterexample cannot be.              *)

\* Every set of numbers that is not empty has a least one.
LEMMA LeastNat ==
    ASSUME NEW S \in SUBSET Nat, S # {}
    PROVE  \E m \in S : \A k \in S : m <= k
<1> DEFINE T == {0..m : m \in S}
<1>1. \A m \in S : 0..m \in FiniteSubsetsOf(Nat)
  <2> SUFFICES ASSUME NEW m \in S PROVE 0..m \in FiniteSubsetsOf(Nat)
    OBVIOUS
  <2>1. IsFiniteSet(0..m)
    BY FS_Interval
  <2>2. 0..m \in SUBSET Nat
    OBVIOUS
  <2>3. QED
    BY <2>1, <2>2, Zenon DEF FiniteSubsetsOf
<1>2. T \subseteq FiniteSubsetsOf(Nat) /\ T # {}
  BY <1>1
<1>3. IsWellFoundedOn(StrictSubsetOrdering(Nat), FiniteSubsetsOf(Nat))
  BY FS_StrictSubsetOrderingWellFounded
<1> HIDE DEF T
<1>4. \E x \in T : \A y \in T : ~ (<<y, x>> \in StrictSubsetOrdering(Nat))
  BY <1>2, <1>3, WFMin
<1> USE DEF T
<1>5. PICK m \in S : \A k \in S : ~ (<<0..k, 0..m>> \in StrictSubsetOrdering(Nat))
  BY <1>4
<1>6. ASSUME NEW k \in S, k < m PROVE FALSE
  <2>1. 0..k \subseteq 0..m /\ m \notin 0..k /\ m \in 0..m
    BY <1>6
  <2>2. <<0..k, 0..m>> \in (SUBSET Nat) \X (SUBSET Nat) /\ 0..k # 0..m
    BY <2>1
  <2>3. <<0..k, 0..m>> \in StrictSubsetOrdering(Nat)
    BY <2>1, <2>2, Zenon DEF StrictSubsetOrdering
  <2>4. QED
    BY <2>3, <1>5, <1>6
<1>7. QED
  BY <1>6

\* A set that has 0, and n + 1 with every n, has them all.
LEMMA SetInduction ==
    ASSUME NEW S, 0 \in S, \A n \in Nat : n \in S => n + 1 \in S
    PROVE  Nat \subseteq S
<1> SUFFICES ASSUME Nat \ S # {} PROVE FALSE
  OBVIOUS
<1>1. PICK m \in Nat \ S : \A k \in Nat \ S : m <= k
  BY LeastNat
<1>2. m # 0 /\ m - 1 \in Nat
  OBVIOUS
<1>3. m - 1 \in S
  BY <1>1, <1>2
<1>4. QED
  BY <1>2, <1>3

-----------------------------------------------------------------------------
(* What a window keeps of times: Within is defined by recursion.           *)

\* f is the function kept of times, up to n.
Keeps(f, times, cut, n) ==
    f = [i \in 0..n |-> IF i = 0 THEN <<>>
                        ELSE IF times[i] > cut THEN Append(f[i - 1], times[i]) ELSE f[i - 1]]

\* The next value of a function that keeps times is the filter of one more time.
LEMMA KeepsStep ==
    ASSUME NEW times, NEW cut, NEW n \in Nat, NEW f, Keeps(f, times, cut, n)
    PROVE  \E g : Keeps(g, times, cut, n + 1)
<1> DEFINE next == IF times[n + 1] > cut THEN Append(f[n], times[n + 1]) ELSE f[n]
           g == [i \in 0..(n + 1) |-> IF i = n + 1 THEN next ELSE f[i]]
<1>1. \A i \in 0..n : g[i] = f[i]
  OBVIOUS
<1>2. \A i \in 0..n : f[i] = IF i = 0 THEN <<>>
          ELSE IF times[i] > cut THEN Append(f[i - 1], times[i]) ELSE f[i - 1]
  BY Zenon DEF Keeps
<1>3. ASSUME NEW i \in 0..(n + 1)
      PROVE  g[i] = IF i = 0 THEN <<>>
                    ELSE IF times[i] > cut THEN Append(g[i - 1], times[i]) ELSE g[i - 1]
  <2>1. CASE i = n + 1
    <3>1. g[i] = next /\ g[i - 1] = f[n] /\ i # 0
      BY <2>1
    <3>2. QED
      BY <3>1, <2>1
  <2>2. CASE i # n + 1
    <3>1. i \in 0..n /\ (i # 0 => i - 1 \in 0..n)
      BY <2>2
    <3> HIDE DEF g
    <3>2. QED
      BY <1>1, <1>2, <3>1
  <2>3. QED
    BY <2>1, <2>2
<1>4. g = [i \in 0..(n + 1) |-> g[i]]
  OBVIOUS
<1> HIDE DEF g
<1>5. Keeps(g, times, cut, n + 1)
  BY <1>3, <1>4, Zenon DEF Keeps
<1>6. QED
  BY <1>5

\* There is such a function for every number of times.
LEMMA KeepsExists ==
    ASSUME NEW times, NEW cut, NEW n \in Nat
    PROVE  \E f : Keeps(f, times, cut, n)
<1> DEFINE S == {k \in Nat : \E f : Keeps(f, times, cut, k)}
<1>1. 0 \in S
  <2>1. Keeps([i \in 0..0 |-> <<>>], times, cut, 0)
    BY DEF Keeps
  <2>2. QED
    BY <2>1
<1>2. \A k \in Nat : k \in S => k + 1 \in S
  BY KeepsStep
<1> HIDE DEF S
<1>3. Nat \subseteq S
  BY <1>1, <1>2, SetInduction
<1>4. QED
  BY <1>3 DEF S

\* It is the only one, also where the times go on.
LEMMA KeepsUnique ==
    ASSUME NEW times, NEW more, NEW cut, NEW n \in Nat, NEW m \in Nat, n <= m,
           \A i \in 1..n : times[i] = more[i],
           NEW f, Keeps(f, times, cut, n), NEW g, Keeps(g, more, cut, m)
    PROVE  \A i \in 0..n : f[i] = g[i]
<1> DEFINE S == {k \in Nat : k <= n => f[k] = g[k]}
<1>1. /\ \A i \in 0..n : f[i] = IF i = 0 THEN <<>>
            ELSE IF times[i] > cut THEN Append(f[i - 1], times[i]) ELSE f[i - 1]
      /\ \A i \in 0..m : g[i] = IF i = 0 THEN <<>>
            ELSE IF more[i] > cut THEN Append(g[i - 1], more[i]) ELSE g[i - 1]
  BY Zenon DEF Keeps
<1>2. 0 \in S
  BY <1>1
<1>3. ASSUME NEW k \in Nat, k \in S PROVE k + 1 \in S
  <2> SUFFICES ASSUME k + 1 <= n PROVE f[k + 1] = g[k + 1]
    OBVIOUS
  <2>1. f[k] = g[k] /\ times[k + 1] = more[k + 1]
    BY <1>3
  <2>2. (k + 1) - 1 = k /\ k + 1 # 0 /\ k + 1 \in 0..n /\ k + 1 \in 0..m
    OBVIOUS
  <2>3. QED
    BY <1>1, <2>1, <2>2
<1> HIDE DEF S
<1>4. Nat \subseteq S
  BY <1>2, <1>3, SetInduction
<1>5. QED
  BY <1>4 DEF S

\* Within is its last value.
LEMMA WithinIs ==
    ASSUME NEW times \in Seq(Nat), NEW span, NEW now
    PROVE  \E f : /\ Keeps(f, times, now - span, Len(times))
                  /\ Within(times, span, now) = f[Len(times)]
<1> DEFINE f == CHOOSE f : Keeps(f, times, now - span, Len(times))
<1>1. Keeps(f, times, now - span, Len(times))
  BY KeepsExists
<1>2. Within(times, span, now) = f[Len(times)]
  BY Zenon DEF Within, Keeps
<1>3. QED
  BY <1>1, <1>2

\* No times, nothing kept.
LEMMA WithinEmpty == ASSUME NEW span, NEW now PROVE Within(<<>>, span, now) = <<>>
<1>1. <<>> \in Seq(Nat) /\ Len(<<>>) = 0
  OBVIOUS
<1>2. PICK f : Keeps(f, <<>>, now - span, 0) /\ Within(<<>>, span, now) = f[0]
  BY <1>1, WithinIs, Zenon
<1>3. QED
  BY <1>2 DEF Keeps

\* A time at the end is kept if it is recent; what precedes it is kept as before.
LEMMA WithinAppend ==
    ASSUME NEW times \in Seq(Nat), NEW t \in Nat, NEW span, NEW now
    PROVE  Within(Append(times, t), span, now) =
               IF t > now - span THEN Append(Within(times, span, now), t)
               ELSE Within(times, span, now)
<1> DEFINE n == Len(times)
           more == Append(times, t)
           cut == now - span
<1>1. more \in Seq(Nat) /\ Len(more) = n + 1 /\ more[n + 1] = t /\ n \in Nat
      /\ \A i \in 1..n : times[i] = more[i]
  OBVIOUS
<1>2. PICK f : Keeps(f, times, cut, n) /\ Within(times, span, now) = f[n]
  BY WithinIs
<1>3. PICK g : Keeps(g, more, cut, n + 1) /\ Within(more, span, now) = g[n + 1]
  BY <1>1, WithinIs
<1>4. f[n] = g[n]
  <2> HIDE DEF more, cut, n
  <2>1. n \in Nat /\ n + 1 \in Nat /\ n <= n + 1 /\ n \in 0..n
    BY <1>1
  <2>2. \A i \in 1..n : times[i] = more[i]
    BY <1>1
  <2>3. \A i \in 0..n : f[i] = g[i]
    BY <1>2, <1>3, <2>1, <2>2, KeepsUnique
  <2>4. QED
    BY <2>1, <2>3
<1>5. g[n + 1] = IF more[n + 1] > cut THEN Append(g[n], more[n + 1]) ELSE g[n]
  <2>1. n + 1 \in 0..(n + 1) /\ n + 1 # 0 /\ (n + 1) - 1 = n
    BY <1>1
  <2> HIDE DEF more, cut, n
  <2>2. g[n + 1] = IF n + 1 = 0 THEN <<>> ELSE IF more[n + 1] > cut
                   THEN Append(g[(n + 1) - 1], more[n + 1]) ELSE g[(n + 1) - 1]
    BY <1>3, <2>1, Zenon DEF Keeps
  <2>3. QED
    BY <2>1, <2>2
<1>6. QED
  BY <1>1, <1>2, <1>3, <1>4, <1>5

\* Induction over times.
LEMMA TimesInduction ==
    ASSUME NEW S, <<>> \in S,
           \A times \in Seq(Nat), t \in Nat : times \in S => Append(times, t) \in S
    PROVE  Seq(Nat) \subseteq S
<1> DEFINE T == {n \in Nat : \A times \in Seq(Nat) : Len(times) = n => times \in S}
<1>1. 0 \in T
  BY DEF T
<1>2. ASSUME NEW n \in Nat, n \in T PROVE n + 1 \in T
  <2> SUFFICES ASSUME NEW times \in Seq(Nat), Len(times) = n + 1 PROVE times \in S
    BY DEF T
  <2> DEFINE front == SubSeq(times, 1, n)
  <2>1. front \in Seq(Nat) /\ Len(front) = n /\ times[n + 1] \in Nat
    OBVIOUS
  <2>2. times = Append(front, times[n + 1])
    OBVIOUS
  <2>3. front \in S
    BY <1>2, <2>1
  <2>4. QED
    BY <2>1, <2>2, <2>3
<1> HIDE DEF T
<1>3. Nat \subseteq T
  BY <1>1, <1>2, SetInduction
<1>4. QED
  BY <1>3 DEF T

\* A filter keeps some of the times and invents none.
LEMMA WithinBounds ==
    ASSUME NEW span \in Int, NEW now \in Int, NEW times \in Seq(Nat)
    PROVE  /\ Within(times, span, now) \in Seq(Nat)
           /\ Len(Within(times, span, now)) <= Len(times)
<1> DEFINE S == {x \in Seq(Nat) : Within(x, span, now) \in Seq(Nat)
                                  /\ Len(Within(x, span, now)) <= Len(x)}
<1>1. <<>> \in S
  <2>1. <<>> \in Seq(Nat) /\ Len(<<>>) <= Len(<<>>)
    OBVIOUS
  <2>2. QED
    BY <2>1, WithinEmpty, Zenon
<1>2. ASSUME NEW x \in Seq(Nat), NEW t \in Nat, x \in S PROVE Append(x, t) \in S
  <2>1. Append(x, t) \in Seq(Nat) /\ Len(Append(x, t)) = Len(x) + 1 /\ Len(x) \in Nat
    OBVIOUS
  <2>2. Within(x, span, now) \in Seq(Nat) /\ Len(Within(x, span, now)) <= Len(x)
    BY <1>2
  <2>3. Within(Append(x, t), span, now) \in {Append(Within(x, span, now), t), Within(x, span, now)}
    BY WithinAppend
  <2> DEFINE kept == Within(x, span, now)
             more == Within(Append(x, t), span, now)
  <2>4. kept \in Seq(Nat) /\ Len(kept) <= Len(x) /\ more \in {Append(kept, t), kept}
    BY <2>2, <2>3
  <2> HIDE DEF kept, more
  <2>5. more \in Seq(Nat) /\ Len(more) <= Len(x) + 1
    <3>1. /\ Append(kept, t) \in Seq(Nat) /\ Len(Append(kept, t)) = Len(kept) + 1
          /\ Len(kept) \in Nat
      BY <2>4
    <3>2. CASE more = Append(kept, t)
      BY <2>1, <2>4, <3>1, <3>2
    <3>3. CASE more = kept
      BY <2>1, <2>4, <3>1, <3>3
    <3>4. QED
      BY <2>4, <3>2, <3>3
  <2>6. QED
    BY <2>1, <2>5 DEF more
<1> HIDE DEF S
<1>3. Seq(Nat) \subseteq S
  BY <1>1, <1>2, TimesInduction
<1>4. QED
  BY <1>3 DEF S

AllAtMost(times, m) == \A i \in DOMAIN times : times[i] <= m

\* A bound on times with one more time.
LEMMA AllAtMostAppend ==
    ASSUME NEW times \in Seq(Nat), NEW t \in Nat, NEW m \in Int
    PROVE  AllAtMost(Append(times, t), m) <=> AllAtMost(times, m) /\ t <= m
<1> DEFINE n == Len(times)
           more == Append(times, t)
<1>1. /\ n \in Nat /\ DOMAIN times = 1..n /\ DOMAIN more = 1..(n + 1)
      /\ more[n + 1] = t /\ \A i \in 1..n : more[i] = times[i]
  OBVIOUS
<1> HIDE DEF n, more
<1>2. \A i \in 1..(n + 1) : i \in 1..n \/ i = n + 1
  BY <1>1
<1>3. 1..n \subseteq 1..(n + 1) /\ n + 1 \in 1..(n + 1)
  BY <1>1
<1>4. QED
  BY <1>1, <1>2, <1>3 DEF AllAtMost, more

\* A filter keeps bounds.
LEMMA WithinAtMost ==
    ASSUME NEW span \in Int, NEW now \in Int, NEW m \in Int, NEW times \in Seq(Nat),
           AllAtMost(times, m)
    PROVE  AllAtMost(Within(times, span, now), m)
<1> DEFINE S == {x \in Seq(Nat) : AllAtMost(x, m) => AllAtMost(Within(x, span, now), m)}
<1>1. <<>> \in S
  BY WithinEmpty DEF AllAtMost
<1>2. ASSUME NEW x \in Seq(Nat), NEW t \in Nat, x \in S PROVE Append(x, t) \in S
  <2> SUFFICES ASSUME AllAtMost(Append(x, t), m)
               PROVE  AllAtMost(Within(Append(x, t), span, now), m)
    OBVIOUS
  <2>1. AllAtMost(x, m) /\ t <= m
    BY AllAtMostAppend
  <2>2. Within(x, span, now) \in Seq(Nat) /\ AllAtMost(Within(x, span, now), m)
    BY <1>2, <2>1, WithinBounds
  <2>3. Within(Append(x, t), span, now) \in {Append(Within(x, span, now), t), Within(x, span, now)}
    BY WithinAppend
  <2>4. AllAtMost(Append(Within(x, span, now), t), m)
    BY <2>1, <2>2, AllAtMostAppend
  <2>5. QED
    BY <2>2, <2>3, <2>4
<1> HIDE DEF S
<1>3. Seq(Nat) \subseteq S
  BY <1>1, <1>2, TimesInduction
<1>4. QED
  BY <1>3 DEF S

\* Nothing is left of times that are all too old.
LEMMA WithinNone ==
    ASSUME NEW span \in Int, NEW now \in Int, NEW times \in Seq(Nat),
           AllAtMost(times, now - span)
    PROVE  Within(times, span, now) = <<>>
<1> DEFINE S == {x \in Seq(Nat) : AllAtMost(x, now - span) => Within(x, span, now) = <<>>}
<1>1. <<>> \in S
  BY WithinEmpty
<1>2. ASSUME NEW x \in Seq(Nat), NEW t \in Nat, x \in S PROVE Append(x, t) \in S
  <2> SUFFICES ASSUME AllAtMost(Append(x, t), now - span)
               PROVE  Within(Append(x, t), span, now) = <<>>
    OBVIOUS
  <2>1. AllAtMost(x, now - span) /\ ~(t > now - span)
    BY AllAtMostAppend
  <2>2. Within(x, span, now) = <<>>
    BY <1>2, <2>1
  <2>3. QED
    BY <2>1, <2>2, WithinAppend
<1> HIDE DEF S
<1>3. Seq(Nat) \subseteq S
  BY <1>1, <1>2, TimesInduction
<1>4. QED
  BY <1>3 DEF S

\* What was filtered earlier can be filtered again.
LEMMA WithinWithin ==
    ASSUME NEW span \in Int, NEW past \in Int, NEW now \in Int, past <= now,
           NEW times \in Seq(Nat)
    PROVE  Within(Within(times, span, past), span, now) = Within(times, span, now)
<1> DEFINE S == {x \in Seq(Nat) :
                    Within(Within(x, span, past), span, now) = Within(x, span, now)}
<1>1. <<>> \in S
  BY WithinEmpty
<1>2. ASSUME NEW x \in Seq(Nat), NEW t \in Nat, x \in S PROVE Append(x, t) \in S
  <2>1. Within(x, span, past) \in Seq(Nat)
    BY WithinBounds
  <2>2. t > now - span => t > past - span
    OBVIOUS
  <2>3. Within(Within(x, span, past), span, now) = Within(x, span, now)
    BY <1>2
  <2>4. Within(Append(Within(x, span, past), t), span, now) =
            IF t > now - span THEN Append(Within(Within(x, span, past), span, now), t)
            ELSE Within(Within(x, span, past), span, now)
    BY <2>1, WithinAppend
  <2>5. /\ Within(Append(x, t), span, past) =
               IF t > past - span THEN Append(Within(x, span, past), t) ELSE Within(x, span, past)
        /\ Within(Append(x, t), span, now) =
               IF t > now - span THEN Append(Within(x, span, now), t) ELSE Within(x, span, now)
    BY WithinAppend
  <2>6. ASSUME t > past - span
        PROVE  Within(Within(Append(x, t), span, past), span, now) = Within(Append(x, t), span, now)
    BY <2>3, <2>4, <2>5, <2>6, Zenon
  <2>7. ASSUME ~(t > past - span)
        PROVE  Within(Within(Append(x, t), span, past), span, now) = Within(Append(x, t), span, now)
    BY <2>2, <2>3, <2>5, <2>7, Zenon
  <2>8. Append(x, t) \in Seq(Nat)
    OBVIOUS
  <2>9. QED
    BY <2>6, <2>7, <2>8
<1> HIDE DEF S
<1>3. Seq(Nat) \subseteq S
  BY <1>1, <1>2, TimesInduction
<1>4. QED
  BY <1>3 DEF S

-----------------------------------------------------------------------------
(* The methods of the limiter.                                             *)

SourceState == [known : BOOLEAN, attempts : Seq(Nat), failures : Seq(Nat), blockedUntil : Nat,
                active : Nat, lastSeen : Nat]
LimiterState == [sources : [Source -> SourceState], global : Seq(Nat)]

\* A source the table does not hold has nothing there.
LimiterOK(L) ==
    /\ L \in LimiterState
    /\ \A s \in Source : ~L.sources[s].known => L.sources[s] = Unknown

\* What source() makes of a source it meets for the first time.
LEMMA UnknownFact ==
    /\ Unknown \in SourceState /\ ~Unknown.known /\ Unknown.active = 0
    /\ Unknown.attempts = <<>> /\ Unknown.failures = <<>>
    /\ \A now \in Nat : /\ Fresh(now) \in SourceState /\ Fresh(now).known
                        /\ Fresh(now).active = 0 /\ Fresh(now).lastSeen = now
                        /\ Fresh(now).blockedUntil = 0
                        /\ Fresh(now).attempts = <<>> /\ Fresh(now).failures = <<>>
<1>1. <<>> \in Seq(Nat)
  OBVIOUS
<1>2. /\ Unknown \in SourceState /\ ~Unknown.known /\ Unknown.active = 0
      /\ Unknown.attempts = <<>> /\ Unknown.failures = <<>> /\ Unknown.blockedUntil = 0
  BY <1>1 DEF Unknown, SourceState
<1>3. ASSUME NEW now \in Nat
      PROVE  /\ Fresh(now) \in SourceState /\ Fresh(now).known
             /\ Fresh(now).active = 0 /\ Fresh(now).lastSeen = now
             /\ Fresh(now).blockedUntil = 0
             /\ Fresh(now).attempts = <<>> /\ Fresh(now).failures = <<>>
  <2> DEFINE E == <<>>
  <2>1. /\ Unknown \in SourceState /\ Unknown.active = 0 /\ Unknown.attempts = E
        /\ Unknown.failures = E /\ Unknown.blockedUntil = 0
    BY <1>2
  <2> HIDE DEF E
  <2>2. /\ Fresh(now) \in SourceState /\ Fresh(now).known
        /\ Fresh(now).active = 0 /\ Fresh(now).lastSeen = now
        /\ Fresh(now).blockedUntil = 0
        /\ Fresh(now).attempts = E /\ Fresh(now).failures = E
    BY <2>1 DEF Fresh, SourceState
  <2>3. QED
    BY <2>2 DEF E
<1>4. QED
  BY <1>2, <1>3

\* The fields of a pruned source.
LEMMA PruneFact ==
    ASSUME NEW state \in SourceState, NEW now \in Nat
    PROVE  LET p == Prune(state, now)
           IN  /\ p \in SourceState
               /\ p.known = state.known /\ p.active = state.active
               /\ p.lastSeen = state.lastSeen
               /\ p.attempts = Within(state.attempts, Window, now)
               /\ p.failures = Within(state.failures, FailureWindow, now)
               /\ p.blockedUntil = (IF state.blockedUntil > now THEN state.blockedUntil ELSE 0)
<1>1. Window \in Int /\ FailureWindow \in Int /\ now \in Int
  BY PolicyAssumption
<1>2. /\ Within(state.attempts, Window, now) \in Seq(Nat)
      /\ Within(state.failures, FailureWindow, now) \in Seq(Nat)
  BY <1>1, WithinBounds DEF SourceState
<1>3. QED
  BY <1>2 DEF Prune, SourceState

\* What looking up another source, or the same, makes of a source.
LookedUp(old, new, now) ==
    \/ new = old
    \/ old.known /\ new = Prune(old, now)
    \/ Stale(old, now) /\ new = Unknown
    \/ ~old.known /\ new = Fresh(now)

PutInto(state, now) == [Prune(state, now) EXCEPT !.lastSeen = now]

\* What visiting a source makes of it: it is looked up, pruned and seen.
Visited(old, new, now) ==
    \/ old.known /\ new = PutInto(old, now)
    \/ ~old.known /\ new = PutInto(Fresh(now), now)
    \/ ~old.known /\ new = Unknown

\* The fields of a source that was pruned and seen.
LEMMA PutIntoFact ==
    ASSUME NEW state \in SourceState, NEW now \in Nat
    PROVE  LET p == PutInto(state, now)
           IN  /\ p \in SourceState
               /\ p.known = state.known /\ p.active = state.active /\ p.lastSeen = now
               /\ p.attempts = Within(state.attempts, Window, now)
               /\ p.failures = Within(state.failures, FailureWindow, now)
               /\ p.blockedUntil = (IF state.blockedUntil > now THEN state.blockedUntil ELSE 0)
<1> DEFINE q == Prune(state, now)
<1>1. /\ q \in SourceState
      /\ q.known = state.known /\ q.active = state.active
      /\ q.attempts = Within(state.attempts, Window, now)
      /\ q.failures = Within(state.failures, FailureWindow, now)
      /\ q.blockedUntil = (IF state.blockedUntil > now THEN state.blockedUntil ELSE 0)
  BY PruneFact
<1>2. PutInto(state, now) = [q EXCEPT !.lastSeen = now]
  BY DEF PutInto
<1> HIDE DEF q
<1>3. QED
  BY <1>1, <1>2 DEF SourceState

\* pruneSources() looks every source up.
LEMMA PruneSourcesFact ==
    ASSUME NEW L, LimiterOK(L), NEW now \in Nat
    PROVE  /\ LimiterOK(PruneSources(L, now))
           /\ PruneSources(L, now).global = L.global
           /\ \A s \in Source : LookedUp(L.sources[s], PruneSources(L, now).sources[s], now)
<1> DEFINE P == PruneSources(L, now)
           put == [s \in Source |-> IF Stale(L.sources[s], now) THEN Unknown
                                    ELSE IF L.sources[s].known THEN Prune(L.sources[s], now)
                                    ELSE Unknown]
<1>1. P = [L EXCEPT !.sources = put]
  BY DEF PruneSources
<1>2. \A s \in Source : L.sources[s] \in SourceState
  BY DEF LimiterOK, LimiterState
<1>3. \A s \in Source : put[s] \in SourceState
  BY <1>2, UnknownFact, PruneFact
<1>4. put \in [Source -> SourceState]
  BY <1>3
<1>5. \A s \in Source : LookedUp(L.sources[s], put[s], now)
  BY DEF LookedUp, LimiterOK
<1>6. \A s \in Source : ~put[s].known => put[s] = Unknown
  BY <1>2, PruneFact
<1> HIDE DEF put, P
<1>7. P.sources = put /\ P.global = L.global /\ P \in LimiterState
  BY <1>1, <1>4 DEF LimiterOK, LimiterState
<1>8. QED
  BY <1>5, <1>6, <1>7 DEF LimiterOK, P

\* source() looks up s, and the others where it needs room.
LEMMA LocateFact ==
    ASSUME NEW L, LimiterOK(L), NEW s \in Source, NEW now \in Nat
    PROVE  LET F == Locate(L, s, now)
           IN  /\ LimiterOK(F) /\ F.global = L.global
               /\ \A q \in Source : LookedUp(L.sources[q], F.sources[q], now)
               /\ IF L.sources[s].known THEN F.sources[s] = L.sources[s]
                  ELSE F.sources[s] \in {Fresh(now), Unknown}
<1> DEFINE F == Locate(L, s, now)
           roomy == IF Cardinality(Tracked(L)) < MaxSources THEN L ELSE PruneSources(L, now)
<1>1. CASE L.sources[s].known
  BY <1>1 DEF Locate, LookedUp
<1>2. CASE ~L.sources[s].known
  <2>1. /\ LimiterOK(roomy) /\ roomy.global = L.global
        /\ \A q \in Source : LookedUp(L.sources[q], roomy.sources[q], now)
    BY PruneSourcesFact DEF LookedUp
  <2>2. L.sources[s] = Unknown
    BY <1>2 DEF LimiterOK
  <2>3. roomy.sources[s] = Unknown
    <3>1. ~Stale(Unknown, now)
      BY UnknownFact DEF Stale
    <3>2. LookedUp(Unknown, roomy.sources[s], now) /\ roomy.sources[s] # Fresh(now)
      <4>1. CASE Cardinality(Tracked(L)) < MaxSources
        BY <2>1, <2>2, <4>1, UnknownFact
      <4>2. CASE ~(Cardinality(Tracked(L)) < MaxSources)
        <5>1. PruneSources(L, now).sources[s] = Unknown
          BY <2>2, <3>1, UnknownFact DEF PruneSources, LimiterOK, LimiterState
        <5>2. QED
          BY <2>1, <2>2, <4>2, <5>1, UnknownFact
      <4>3. QED
        BY <4>1, <4>2
    <3>3. QED
      BY <3>1, <3>2, UnknownFact DEF LookedUp
  <2>4. F = [roomy EXCEPT !.sources[s] = Fresh(now)] \/ F = roomy
    BY <1>2 DEF Locate
  <2> HIDE DEF roomy, F
  <2>5. CASE F = roomy
    BY <1>2, <2>1, <2>3, <2>5 DEF F
  <2>6. CASE F = [roomy EXCEPT !.sources[s] = Fresh(now)]
    <3>1. /\ F.global = roomy.global
          /\ F.sources = [roomy.sources EXCEPT ![s] = Fresh(now)]
          /\ roomy.sources \in [Source -> SourceState]
          /\ F \in LimiterState
      BY <2>1, <2>6, UnknownFact DEF LimiterOK, LimiterState
    <3>2. /\ F.sources[s] = Fresh(now)
          /\ \A q \in Source \ {s} : F.sources[q] = roomy.sources[q]
      BY <3>1
    <3>3. LookedUp(L.sources[s], F.sources[s], now)
      BY <1>2, <3>2 DEF LookedUp
    <3>4. LimiterOK(F)
      BY <2>1, <3>1, <3>2, UnknownFact DEF LimiterOK
    <3>5. QED
      BY <1>2, <2>1, <3>1, <3>2, <3>3, <3>4 DEF F
  <2>7. QED
    BY <2>4, <2>5, <2>6
<1>3. QED
  BY <1>1, <1>2

\* What looking at a source does to the table.
LEMMA VisitFact ==
    ASSUME NEW L, LimiterOK(L), NEW s \in Source, NEW now \in Nat
    PROVE  LET V == Visit(L, s, now)
           IN  /\ LimiterOK(V) /\ V.global = L.global
               /\ \A q \in Source \ {s} : LookedUp(L.sources[q], V.sources[q], now)
               /\ Visited(L.sources[s], V.sources[s], now)
<1> DEFINE V == Visit(L, s, now)
           F == Locate(L, s, now)
<1>1. /\ LimiterOK(F) /\ F.global = L.global
      /\ \A q \in Source : LookedUp(L.sources[q], F.sources[q], now)
      /\ IF L.sources[s].known THEN F.sources[s] = L.sources[s]
         ELSE F.sources[s] \in {Fresh(now), Unknown}
  BY LocateFact
<1>2. V = IF F.sources[s].known
          THEN [F EXCEPT !.sources[s] = PutInto(F.sources[s], now)] ELSE F
  BY DEF Visit, PutInto
<1> HIDE DEF V, F
<1>3. CASE F.sources[s].known
  <2>1. F.sources[s] \in SourceState /\ F.sources \in [Source -> SourceState]
    BY <1>1 DEF LimiterOK, LimiterState
  <2>2. PutInto(F.sources[s], now) \in SourceState /\ PutInto(F.sources[s], now).known
    BY <1>3, <2>1, PutIntoFact
  <2>3. /\ V.sources = [F.sources EXCEPT ![s] = PutInto(F.sources[s], now)]
        /\ V.global = F.global /\ V \in LimiterState
    BY <1>1, <1>2, <1>3, <2>1, <2>2 DEF LimiterOK, LimiterState
  <2>4. /\ V.sources[s] = PutInto(F.sources[s], now)
        /\ \A q \in Source \ {s} : V.sources[q] = F.sources[q]
    BY <2>1, <2>3
  <2>5. LimiterOK(V)
    BY <1>1, <2>2, <2>3, <2>4 DEF LimiterOK
  <2>6. Visited(L.sources[s], V.sources[s], now)
    BY <1>1, <1>3, <2>4, UnknownFact DEF Visited
  <2>7. QED
    BY <1>1, <2>3, <2>4, <2>5, <2>6 DEF V
<1>4. CASE ~F.sources[s].known
  <2>1. V = F
    BY <1>2, <1>4
  <2>2. ~L.sources[s].known /\ F.sources[s] = Unknown
    BY <1>1, <1>4, UnknownFact
  <2>3. Visited(L.sources[s], V.sources[s], now)
    BY <2>1, <2>2 DEF Visited
  <2>4. QED
    BY <1>1, <2>1, <2>3 DEF V
<1>5. QED
  BY <1>3, <1>4

\* Looking at a source keeps the places taken, its own and those of others.
LEMMA VisitSlots ==
    ASSUME NEW L, LimiterOK(L), NEW s \in Source, NEW now \in Nat
    PROVE  LET V == Visit(L, s, now)
           IN  /\ LimiterOK(V) /\ V.global = L.global
               /\ \A q \in Source : V.sources[q].active = L.sources[q].active
               /\ L.sources[s].known => V.sources[s].known
<1> DEFINE V == Visit(L, s, now)
<1>1. /\ LimiterOK(V) /\ V.global = L.global
      /\ \A q \in Source \ {s} : LookedUp(L.sources[q], V.sources[q], now)
      /\ Visited(L.sources[s], V.sources[s], now)
  BY VisitFact
<1> HIDE DEF V
<1>2. \A q \in Source : L.sources[q] \in SourceState
                        /\ (~L.sources[q].known => L.sources[q].active = 0)
  BY UnknownFact DEF LimiterOK, LimiterState
<1>3. ASSUME NEW q \in Source, q # s PROVE V.sources[q].active = L.sources[q].active
  <2>1. LookedUp(L.sources[q], V.sources[q], now)
    BY <1>1, <1>3
  <2>2. Prune(L.sources[q], now).active = L.sources[q].active
    BY <1>2, PruneFact
  <2>3. QED
    BY <1>2, <2>1, <2>2, UnknownFact DEF LookedUp, Stale
<1>4. /\ V.sources[s].active = L.sources[s].active
      /\ L.sources[s].known => V.sources[s].known
  <2>1. Fresh(now) \in SourceState /\ Fresh(now).active = 0
    BY UnknownFact
  <2>2. /\ PutInto(L.sources[s], now).active = L.sources[s].active
        /\ PutInto(L.sources[s], now).known = L.sources[s].known
        /\ PutInto(Fresh(now), now).active = 0
    BY <1>2, <2>1, PutIntoFact
  <2>3. QED
    BY <1>1, <1>2, <2>2, UnknownFact DEF Visited
<1>5. QED
  BY <1>1, <1>3, <1>4 DEF V

\* A source that changes in a table, the others staying as they are.
LEMMA PutFact ==
    ASSUME NEW L, LimiterOK(L), NEW s \in Source, NEW state \in SourceState, state.known,
           NEW M, M.sources = [L.sources EXCEPT ![s] = state], M.global \in Seq(Nat),
           M = [sources |-> M.sources, global |-> M.global]
    PROVE  /\ LimiterOK(M) /\ M.sources[s] = state
           /\ \A q \in Source \ {s} : M.sources[q] = L.sources[q]
<1>1. L.sources \in [Source -> SourceState]
  BY DEF LimiterOK, LimiterState
<1>2. /\ M.sources[s] = state /\ \A q \in Source \ {s} : M.sources[q] = L.sources[q]
      /\ M.sources \in [Source -> SourceState]
  BY <1>1
<1>3. M \in LimiterState
  BY <1>2 DEF LimiterState
<1>4. QED
  BY <1>2, <1>3 DEF LimiterOK

\* What an admission, its release, a failure and a success make of a source.
AdmittedOne(state, now) == [state EXCEPT !.attempts = Append(@, now), !.active = @ + 1]
ReleasedOne(state) == [state EXCEPT !.active = IF @ > 0 THEN @ - 1 ELSE 0]
FailedOne(state, now) ==
    LET until == IF Len(state.failures) + 1 < FailuresBeforeBlock THEN 0 ELSE now + BlockTime
    IN  [state EXCEPT !.failures = Append(@, now),
                      !.blockedUntil = IF until > @ THEN until ELSE @]
SucceededOne(state, now) == [state EXCEPT !.failures = <<>>, !.blockedUntil = 0, !.lastSeen = now]

\* The fields of a source after admit(), ...
LEMMA AdmittedOneFact ==
    ASSUME NEW state \in SourceState, NEW now \in Nat
    PROVE  LET p == AdmittedOne(state, now)
           IN  /\ p \in SourceState /\ p.known = state.known
               /\ p.attempts = Append(state.attempts, now) /\ p.active = state.active + 1
               /\ p.failures = state.failures /\ p.blockedUntil = state.blockedUntil
               /\ p.lastSeen = state.lastSeen
<1>1. Append(state.attempts, now) \in Seq(Nat) /\ state.active + 1 \in Nat
  BY DEF SourceState
<1>2. QED
  BY <1>1 DEF AdmittedOne, SourceState

\* ... its release(), ...
LEMMA ReleasedOneFact ==
    ASSUME NEW state \in SourceState
    PROVE  LET p == ReleasedOne(state)
           IN  /\ p \in SourceState /\ p.known = state.known
               /\ p.active = (IF state.active > 0 THEN state.active - 1 ELSE 0)
               /\ p.attempts = state.attempts /\ p.failures = state.failures
               /\ p.blockedUntil = state.blockedUntil /\ p.lastSeen = state.lastSeen
<1>1. state.active \in Nat
  BY DEF SourceState
<1> DEFINE active == IF state.active > 0 THEN state.active - 1 ELSE 0
<1>2. active \in Nat /\ ReleasedOne(state) = [state EXCEPT !.active = active]
  BY <1>1 DEF ReleasedOne
<1> HIDE DEF active
<1>3. LET p == ReleasedOne(state)
      IN  /\ p \in SourceState /\ p.known = state.known
          /\ p.active = active
          /\ p.attempts = state.attempts /\ p.failures = state.failures
          /\ p.blockedUntil = state.blockedUntil /\ p.lastSeen = state.lastSeen
  BY <1>2 DEF SourceState
<1>4. QED
  BY <1>3 DEF active

\* ... recordFailure(), ...
LEMMA FailedOneFact ==
    ASSUME NEW state \in SourceState, NEW now \in Nat
    PROVE  LET p == FailedOne(state, now)
               until == IF Len(state.failures) + 1 < FailuresBeforeBlock THEN 0
                        ELSE now + BlockTime
           IN  /\ p \in SourceState /\ p.known = state.known /\ p.active = state.active
               /\ p.failures = Append(state.failures, now) /\ p.attempts = state.attempts
               /\ p.blockedUntil = (IF until > state.blockedUntil THEN until
                                    ELSE state.blockedUntil)
               /\ p.lastSeen = state.lastSeen
<1> DEFINE failures == Append(state.failures, now)
           until == IF Len(state.failures) + 1 < FailuresBeforeBlock THEN 0 ELSE now + BlockTime
<1>1. failures \in Seq(Nat) /\ until \in Nat
  BY PolicyAssumption DEF SourceState
<1>2. FailedOne(state, now) =
          [state EXCEPT !.failures = failures,
                        !.blockedUntil = IF until > @ THEN until ELSE @]
  BY DEF FailedOne
<1> HIDE DEF failures, until
<1>3. /\ FailedOne(state, now) \in SourceState
      /\ FailedOne(state, now).known = state.known
      /\ FailedOne(state, now).active = state.active
      /\ FailedOne(state, now).failures = failures
      /\ FailedOne(state, now).attempts = state.attempts
      /\ FailedOne(state, now).blockedUntil = (IF until > state.blockedUntil THEN until
                                               ELSE state.blockedUntil)
      /\ FailedOne(state, now).lastSeen = state.lastSeen
  BY <1>1, <1>2 DEF SourceState
<1>4. QED
  BY <1>3 DEF failures, until

\* ... and recordSuccess().
LEMMA SucceededOneFact ==
    ASSUME NEW state \in SourceState, NEW now \in Nat
    PROVE  LET p == SucceededOne(state, now)
           IN  /\ p \in SourceState /\ p.known = state.known /\ p.active = state.active
               /\ p.failures = <<>> /\ p.attempts = state.attempts
               /\ p.blockedUntil = 0 /\ p.lastSeen = now
<1> DEFINE E == <<>>
<1>1. E \in Seq(Nat)
  OBVIOUS
<1>2. SucceededOne(state, now) = [state EXCEPT !.failures = E, !.blockedUntil = 0,
                                                !.lastSeen = now]
  BY DEF SucceededOne
<1> HIDE DEF E
<1> DEFINE p == SucceededOne(state, now)
<1> HIDE DEF p
<1>3. p = [state EXCEPT !.failures = E, !.blockedUntil = 0, !.lastSeen = now]
  BY <1>2 DEF p
<1>4. p \in SourceState
  BY <1>1, <1>3 DEF SourceState
<1>5. /\ p.known = state.known /\ p.active = state.active
      /\ p.failures = E /\ p.attempts = state.attempts
      /\ p.blockedUntil = 0 /\ p.lastSeen = now
  BY <1>3 DEF SourceState
<1>6. QED
  BY <1>4, <1>5 DEF E, p

\* Only the source itself changes, and so do the attempts of all of them.
LEMMA AdmittedFact ==
    ASSUME NEW L, LimiterOK(L), NEW s \in Source, L.sources[s].known, NEW now \in Nat
    PROVE  LET M == Admitted(L, s, now)
           IN  /\ LimiterOK(M)
               /\ M.sources[s] = AdmittedOne(L.sources[s], now)
               /\ \A q \in Source \ {s} : M.sources[q] = L.sources[q]
               /\ M.global = Append(Within(L.global, Window, now), now)
<1> DEFINE M == Admitted(L, s, now)
           p == AdmittedOne(L.sources[s], now)
           global == Append(Within(L.global, Window, now), now)
<1>1. /\ L.sources \in [Source -> SourceState] /\ L.global \in Seq(Nat)
      /\ L = [sources |-> L.sources, global |-> L.global]
  BY DEF LimiterOK, LimiterState
<1>2. p \in SourceState /\ p.known
  BY <1>1, AdmittedOneFact
<1>3. global \in Seq(Nat)
  <2>1. Within(L.global, Window, now) \in Seq(Nat)
    BY <1>1, WithinBounds, PolicyAssumption
  <2>2. QED
    BY <2>1
<1>4. M = [L EXCEPT !.global = global,
                    !.sources[s].attempts = Append(L.sources[s].attempts, now),
                    !.sources[s].active = L.sources[s].active + 1]
  BY DEF Admitted
<1> HIDE DEF M, global
<1>5. M.global = global /\ M = [sources |-> M.sources, global |-> M.global]
  BY <1>1, <1>4
<1>6. M.sources = [L.sources EXCEPT ![s] = p]
  BY <1>1, <1>4 DEF AdmittedOne, SourceState
<1>7. M.global \in Seq(Nat)
  BY <1>3, <1>5
<1> HIDE DEF p
<1>8. /\ M.sources[s] = p /\ \A q \in Source \ {s} : M.sources[q] = L.sources[q]
      /\ M.sources \in [Source -> SourceState]
  BY <1>1, <1>2, <1>6
<1>9. LimiterOK(M)
  BY <1>2, <1>5, <1>7, <1>8 DEF LimiterOK, LimiterState
<1>10. QED
  BY <1>5, <1>8, <1>9 DEF M, p, global

\* release() changes the one source.
LEMMA ReleaseFact ==
    ASSUME NEW L, LimiterOK(L), NEW s \in Source, L.sources[s].known
    PROVE  LET M == Release(L, s)
           IN  /\ LimiterOK(M)
               /\ M.sources[s] = ReleasedOne(L.sources[s])
               /\ \A q \in Source \ {s} : M.sources[q] = L.sources[q]
               /\ M.global = L.global
<1> DEFINE M == Release(L, s)
           p == ReleasedOne(L.sources[s])
<1>1. /\ L.sources \in [Source -> SourceState] /\ L.global \in Seq(Nat)
      /\ L = [sources |-> L.sources, global |-> L.global]
  BY DEF LimiterOK, LimiterState
<1>2. p \in SourceState /\ p.known
  BY <1>1, ReleasedOneFact
<1> DEFINE active == IF L.sources[s].active > 0 THEN L.sources[s].active - 1 ELSE 0
<1>3. /\ M = [L EXCEPT !.sources[s].active = active]
      /\ p = [L.sources[s] EXCEPT !.active = active]
  BY DEF Release, ReleasedOne
<1> HIDE DEF M, p, active
<1>4. /\ M.global = L.global /\ M = [sources |-> M.sources, global |-> M.global]
      /\ M.sources = [L.sources EXCEPT ![s] = p]
  BY <1>1, <1>3 DEF SourceState
<1>5. QED
  BY <1>1, <1>2, <1>4, PutFact DEF M, p

\* recordFailure() visits the table and changes the one source.
LEMMA FailureFact ==
    ASSUME NEW L, LimiterOK(L), NEW s \in Source, L.sources[s].known, NEW now \in Nat
    PROVE  LET V == Visit(L, s, now)
               M == RecordFailure(L, s, now)
           IN  /\ LimiterOK(M)
               /\ M.sources[s] = FailedOne(V.sources[s], now)
               /\ \A q \in Source \ {s} : M.sources[q] = V.sources[q]
               /\ M.global = V.global
<1> DEFINE V == Visit(L, s, now)
           M == RecordFailure(L, s, now)
           p == FailedOne(V.sources[s], now)
           failures == Append(V.sources[s].failures, now)
           until == IF Len(V.sources[s].failures) + 1 < FailuresBeforeBlock THEN 0
                    ELSE now + BlockTime
<1>1. LimiterOK(V) /\ V.sources[s].known
  BY VisitSlots
<1>2. /\ V.sources \in [Source -> SourceState] /\ V.global \in Seq(Nat)
      /\ V = [sources |-> V.sources, global |-> V.global]
  BY <1>1 DEF LimiterOK, LimiterState
<1>3. p \in SourceState /\ p.known
  BY <1>1, <1>2, FailedOneFact
<1>4. Len(failures) = Len(V.sources[s].failures) + 1
  BY <1>2 DEF SourceState
<1>5. M = [V EXCEPT !.sources[s].failures = failures,
                    !.sources[s].blockedUntil = IF until > @ THEN until ELSE @]
  <2>1. M = IF ~V.sources[s].known THEN V
            ELSE [V EXCEPT !.sources[s].failures = failures,
                           !.sources[s].blockedUntil =
                               IF (IF Len(failures) < FailuresBeforeBlock THEN 0
                                   ELSE now + BlockTime) > @
                               THEN (IF Len(failures) < FailuresBeforeBlock THEN 0
                                     ELSE now + BlockTime)
                               ELSE @]
    BY DEF RecordFailure
  <2> HIDE DEF V, M, failures
  <2>2. QED
    BY <1>1, <1>4, <2>1
<1>6. p = [V.sources[s] EXCEPT !.failures = failures,
                               !.blockedUntil = IF until > @ THEN until ELSE @]
  BY DEF FailedOne
<1> HIDE DEF V, M, failures, until, p
<1>7. /\ M.global = V.global /\ M = [sources |-> M.sources, global |-> M.global]
      /\ M.sources = [V.sources EXCEPT ![s] = p]
  BY <1>2, <1>5, <1>6 DEF SourceState
<1>8. QED
  BY <1>1, <1>2, <1>3, <1>7, PutFact DEF V, M, p

\* recordSuccess() changes the one source.
LEMMA SuccessFact ==
    ASSUME NEW L, LimiterOK(L), NEW s \in Source, L.sources[s].known, NEW now \in Nat
    PROVE  LET M == RecordSuccess(L, s, now)
           IN  /\ LimiterOK(M)
               /\ M.sources[s] = SucceededOne(L.sources[s], now)
               /\ \A q \in Source \ {s} : M.sources[q] = L.sources[q]
               /\ M.global = L.global
<1> DEFINE M == RecordSuccess(L, s, now)
           p == SucceededOne(L.sources[s], now)
           E == <<>>
<1>1. /\ L.sources \in [Source -> SourceState] /\ L.global \in Seq(Nat)
      /\ L = [sources |-> L.sources, global |-> L.global]
  BY DEF LimiterOK, LimiterState
<1>2. p \in SourceState /\ p.known
  BY <1>1, SucceededOneFact
<1>3. /\ M = [L EXCEPT !.sources[s].failures = E, !.sources[s].blockedUntil = 0,
                       !.sources[s].lastSeen = now]
      /\ p = [L.sources[s] EXCEPT !.failures = E, !.blockedUntil = 0, !.lastSeen = now]
  BY DEF RecordSuccess, SucceededOne
<1> HIDE DEF M, p, E
<1>4. /\ M.global = L.global /\ M = [sources |-> M.sources, global |-> M.global]
      /\ M.sources = [L.sources EXCEPT ![s] = p]
  BY <1>1, <1>3 DEF SourceState
<1>5. QED
  BY <1>1, <1>2, <1>4, PutFact DEF M, p

-----------------------------------------------------------------------------
(* Places.                                                                 *)

Gate == [stage : Stage, source : Source \cup {"none"}, since : Nat, slot : BOOLEAN,
         settled : BOOLEAN, authenticated : BOOLEAN, closing : BOOLEAN, listed : BOOLEAN]

\* A gate holds an admission from the moment its socket is up until it settles, and a
\* pairing from its arrival to its end.
GateOK(g) ==
    /\ g.stage = "none" => g = Idle
    /\ g.stage # "none" => g.source \in Source
    /\ g.slot => g.stage \in {"socket", "pairing"}
    /\ g.stage = "pairing" => g.slot
    /\ g.stage = "socket" => (g.slot <=> ~g.settled)
    /\ g.settled => g.stage = "socket"

SlotInv ==
    /\ clock \in Nat /\ LimiterOK(limiter) /\ gates \in [Request -> Gate]
    /\ \A r \in Request : GateOK(gates[r])
    /\ SlotsConserved

HeldBy(g, s) == IF g.slot /\ g.source = s THEN 1 ELSE 0

\* A request that is not under way is in order and holds nothing.
LEMMA IdleFact == Idle \in Gate /\ GateOK(Idle) /\ ~Idle.slot /\ Idle.stage = "none"
BY DEF Idle, Gate, GateOK, Stage

\* Whoever holds a place is counted: the table knows the source.
LEMMA ActiveFact ==
    ASSUME SlotInv, NEW s \in Source
    PROVE  /\ limiter.sources[s] \in SourceState
           /\ IsFiniteSet(Holding(s))
           /\ limiter.sources[s].active = Cardinality(Holding(s))
           /\ Holding(s) # {} => limiter.sources[s].active > 0 /\ limiter.sources[s].known
<1>1. IsFiniteSet(Holding(s))
  <2>1. Holding(s) \in SUBSET Request
    BY DEF Holding
  <2>2. QED
    BY <2>1, FS_Subset, GateAssumption
<1>2. Cardinality(Holding(s)) \in Nat /\ (Cardinality(Holding(s)) = 0 <=> Holding(s) = {})
  BY <1>1, FS_CardinalityType, FS_EmptySet
<1>3. limiter.sources[s].active = Cardinality(Holding(s))
  BY DEF SlotInv, SlotsConserved
<1>4. /\ limiter.sources[s] \in SourceState
      /\ ~limiter.sources[s].known => limiter.sources[s] = Unknown
  BY DEF SlotInv, LimiterOK, LimiterState
<1>5. QED
  BY <1>1, <1>2, <1>3, <1>4, UnknownFact

\* A step of one request: the table counts what the request takes and gives back.
LEMMA ChangeFact ==
    ASSUME SlotInv, NEW r \in Request, NEW g \in Gate, GateOK(g), clock' \in Nat,
           gates' = [gates EXCEPT ![r] = g], LimiterOK(limiter'),
           \A s \in Source : limiter'.sources[s].active =
               limiter.sources[s].active + HeldBy(g, s) - HeldBy(gates[r], s)
    PROVE  SlotInv'
<1>1. /\ gates \in [Request -> Gate] /\ gates' \in [Request -> Gate] /\ gates'[r] = g
      /\ \A q \in Request \ {r} : gates'[q] = gates[q]
  BY DEF SlotInv
<1>2. \A q \in Request : GateOK(gates'[q])
  BY <1>1 DEF SlotInv
<1>3. ASSUME NEW s \in Source
      PROVE  limiter'.sources[s].active = Cardinality(Holding(s)')
  <2> DEFINE held == Holding(s)
             now == Holding(s)'
  <2>1. IsFiniteSet(held) /\ limiter.sources[s].active = Cardinality(held)
        /\ Cardinality(held) \in Nat
    BY ActiveFact, FS_CardinalityType
  <2>2. r \in held <=> gates[r].slot /\ gates[r].source = s
    BY DEF Holding
  <2>3. now = IF g.slot /\ g.source = s THEN held \cup {r} ELSE held \ {r}
    <3>1. \A q \in Request \ {r} : q \in now <=> q \in held
      BY <1>1 DEF Holding
    <3>2. r \in now <=> g.slot /\ g.source = s
      BY <1>1 DEF Holding
    <3>3. now \subseteq Request /\ held \subseteq Request
      BY DEF Holding
    <3> HIDE DEF now, held
    <3>4. QED
      BY <3>1, <3>2, <3>3
  <2> HIDE DEF now, held
  <2>4. Cardinality(now) = Cardinality(held) + HeldBy(g, s) - HeldBy(gates[r], s)
    <3>1. CASE g.slot /\ g.source = s
      <4>1. Cardinality(now) = IF r \in held THEN Cardinality(held) ELSE Cardinality(held) + 1
        BY <2>1, <2>3, <3>1, FS_AddElement
      <4>2. QED
        BY <2>1, <2>2, <3>1, <4>1 DEF HeldBy
    <3>2. CASE ~(g.slot /\ g.source = s)
      <4>1. Cardinality(now) = IF r \in held THEN Cardinality(held) - 1 ELSE Cardinality(held)
        BY <2>1, <2>3, <3>2, FS_RemoveElement
      <4>2. QED
        BY <2>1, <2>2, <3>2, <4>1 DEF HeldBy
    <3>3. QED
      BY <3>1, <3>2
  <2>5. QED
    BY <2>1, <2>4 DEF now
<1>4. SlotsConserved'
  BY <1>3 DEF SlotsConserved
<1>5. QED
  BY <1>1, <1>2, <1>4 DEF SlotInv

\* The first result of a gate gives its admission back; a later one changes nothing.
LEMMA SettleFact ==
    ASSUME SlotInv, NEW r \in Request, gates[r].stage = "socket", NEW ok \in BOOLEAN,
           Settle(r, ok)
    PROVE  /\ LimiterOK(limiter')
           /\ \A s \in Source : limiter'.sources[s].active =
                  limiter.sources[s].active - HeldBy(gates[r], s)
<1> DEFINE s == gates[r].source
           released == Release(limiter, s)
<1>1. s \in Source /\ (gates[r].slot <=> ~gates[r].settled)
  BY DEF SlotInv, GateOK
<1>2. \A q \in Source : limiter.sources[q] \in SourceState /\ limiter.sources[q].active \in Nat
  BY ActiveFact DEF SourceState
<1>3. CASE gates[r].settled
  <2>1. limiter' = limiter /\ \A q \in Source : HeldBy(gates[r], q) = 0
    BY <1>1, <1>3 DEF Settle, HeldBy
  <2>2. QED
    BY <1>2, <2>1 DEF SlotInv
<1>4. CASE ~gates[r].settled
  <2>1. limiter.sources[s].active > 0 /\ limiter.sources[s].known
    <3>1. r \in Holding(s)
      BY <1>1, <1>4 DEF Holding
    <3>2. QED
      BY <1>1, <3>1, ActiveFact
  <2>2. /\ LimiterOK(limiter)
        /\ limiter' = IF ok THEN RecordSuccess(released, s, clock)
                      ELSE RecordFailure(released, s, clock)
    BY <1>4 DEF Settle, SlotInv
  <2> HIDE DEF s
  <2>3. /\ LimiterOK(released) /\ released.sources[s].known
        /\ released.sources[s].active = limiter.sources[s].active - 1
        /\ \A q \in Source \ {s} : released.sources[q] = limiter.sources[q]
    BY <1>1, <1>2, <2>1, <2>2, ReleaseFact, ReleasedOneFact
  <2> HIDE DEF released
  <2>4. /\ LimiterOK(limiter')
        /\ \A q \in Source : limiter'.sources[q].active = released.sources[q].active
    <3>1. \A q \in Source : released.sources[q] \in SourceState
      BY <2>3 DEF LimiterOK, LimiterState
    <3>2. CASE ok
      BY <1>1, <2>2, <2>3, <3>1, <3>2, SuccessFact, SucceededOneFact DEF SlotInv
    <3>3. CASE ~ok
      <4> DEFINE V == Visit(released, s, clock)
      <4>1. /\ LimiterOK(V) /\ \A q \in Source : V.sources[q].active = released.sources[q].active
        BY <1>1, <2>3, VisitSlots DEF SlotInv
      <4>2. \A q \in Source : V.sources[q] \in SourceState
        BY <4>1 DEF LimiterOK, LimiterState
      <4>3. /\ LimiterOK(limiter') /\ limiter'.sources[s] = FailedOne(V.sources[s], clock)
            /\ \A q \in Source \ {s} : limiter'.sources[q] = V.sources[q]
        BY <1>1, <2>2, <2>3, <3>3, FailureFact DEF SlotInv
      <4> HIDE DEF V
      <4>4. FailedOne(V.sources[s], clock).active = V.sources[s].active
        BY <1>1, <4>2, FailedOneFact DEF SlotInv
      <4>5. QED
        BY <4>1, <4>3, <4>4
    <3>4. QED
      BY <3>2, <3>3
  <2>5. HeldBy(gates[r], s) = 1 /\ \A q \in Source \ {s} : HeldBy(gates[r], q) = 0
    BY <1>1, <1>4 DEF HeldBy, s
  <2>6. QED
    BY <1>2, <2>3, <2>4, <2>5
<1>5. QED
  BY <1>3, <1>4

\* At the start nobody holds a place, and none is counted.
LEMMA SlotInit == Init => SlotInv
<1> SUFFICES ASSUME Init PROVE SlotInv
  OBVIOUS
<1>1. \A r \in Request : gates[r] = Idle
  BY DEF Init
<1>2. LimiterOK(limiter) /\ \A s \in Source : limiter.sources[s] = Unknown
  <2>1. <<>> \in Seq(Nat)
    OBVIOUS
  <2>2. [s \in Source |-> Unknown] \in [Source -> SourceState]
    BY UnknownFact
  <2>3. NewLimiter \in LimiterState /\ NewLimiter.sources = [s \in Source |-> Unknown]
    BY <2>1, <2>2, Zenon DEF NewLimiter, LimiterState
  <2>4. QED
    BY <2>3 DEF Init, LimiterOK
<1>3. ASSUME NEW s \in Source PROVE limiter.sources[s].active = Cardinality(Holding(s))
  <2>1. Holding(s) = {}
    BY <1>1, IdleFact DEF Holding
  <2>2. QED
    BY <1>2, <2>1, FS_EmptySet, UnknownFact
<1>4. gates \in [Request -> Gate]
  BY IdleFact DEF Init
<1>5. QED
  BY <1>1, <1>2, <1>3, <1>4, IdleFact DEF SlotInv, SlotsConserved, Init

\* What a step of request r makes of its gate is a gate that is in order.
LEMMA NextGateFact ==
    ASSUME SlotInv, NEW r \in Request
    PROVE  /\ gates[r] \in Gate /\ GateOK(gates[r])
           /\ \A s \in Source : HeldBy(Idle, s) = 0
           /\ \A s \in Source : limiter.sources[s] \in SourceState
           /\ \A s \in Source : limiter.sources[s].active \in Nat
           /\ clock \in Nat /\ LimiterOK(limiter)
BY IdleFact DEF SlotInv, HeldBy, LimiterOK, LimiterState, SourceState

\* Whoever waits to be upgraded holds nothing yet.
LEMMA UpgradeSlots ==
    ASSUME SlotInv, NEW r \in Request, NEW s \in Source,
           UpgradeArrives(r, s)
    PROVE  SlotInv'
<1> DEFINE g == [Idle EXCEPT !.stage = "upgrading", !.source = s]
<1>1. /\ clock' = clock /\ limiter' = limiter /\ gates[r] = Idle
      /\ gates' = [gates EXCEPT ![r] = g]
  BY DEF UpgradeArrives
<1>2. g \in Gate /\ GateOK(g) /\ ~g.slot
  BY DEF Idle, Gate, GateOK, Stage
<1> HIDE DEF g
<1>3. \A q \in Source : HeldBy(g, q) = 0 /\ HeldBy(gates[r], q) = 0
  BY <1>1, <1>2, NextGateFact DEF HeldBy
<1>4. \A q \in Source : limiter'.sources[q].active =
          limiter.sources[q].active + HeldBy(g, q) - HeldBy(gates[r], q)
  BY <1>1, <1>3, NextGateFact
<1>5. QED
  BY <1>1, <1>2, <1>4, NextGateFact, ChangeFact

\* After the await the place is taken with the socket, or taken and given back.
LEMMA OpenSlots ==
    ASSUME SlotInv, NEW r \in Request,
           UpgradeOpens(r) \/ UpgradeVanishes(r) \/ UpgradeRefused(r)
    PROVE  SlotInv'
<1> DEFINE s == gates[r].source
           visited == Visit(limiter, s, clock)
           admitted == Admitted(visited, s, clock)
           g == [gates[r] EXCEPT !.stage = "socket", !.since = clock, !.slot = TRUE,
                                 !.listed = TRUE]
<1>1. gates[r].stage = "upgrading" /\ clock' = clock
  BY DEF UpgradeOpens, UpgradeVanishes, UpgradeRefused
<1>2. s \in Source /\ gates[r] \in Gate /\ GateOK(gates[r]) /\ ~gates[r].slot
  BY <1>1, NextGateFact DEF GateOK
<1>3. /\ LimiterOK(visited)
      /\ \A q \in Source : visited.sources[q].active = limiter.sources[q].active
  BY <1>2, NextGateFact, VisitSlots
<1>4. \A q \in Source : HeldBy(gates[r], q) = 0 /\ HeldBy(Idle, q) = 0
  BY <1>2, NextGateFact DEF HeldBy
<1>5. ASSUME visited.sources[s].known
      PROVE  /\ LimiterOK(admitted)
             /\ admitted.sources[s] \in SourceState /\ admitted.sources[s].known
             /\ admitted.sources[s].active = limiter.sources[s].active + 1
             /\ \A q \in Source \ {s} : admitted.sources[q].active = limiter.sources[q].active
  <2> HIDE DEF visited, s
  <2>1. visited.sources[s] \in SourceState
    BY <1>2, <1>3 DEF LimiterOK, LimiterState
  <2>2. /\ LimiterOK(admitted) /\ admitted.sources[s] = AdmittedOne(visited.sources[s], clock)
        /\ \A q \in Source \ {s} : admitted.sources[q] = visited.sources[q]
    BY <1>2, <1>3, <1>5, NextGateFact, AdmittedFact
  <2> HIDE DEF admitted
  <2>3. /\ AdmittedOne(visited.sources[s], clock) \in SourceState
        /\ AdmittedOne(visited.sources[s], clock).known
        /\ AdmittedOne(visited.sources[s], clock).active = visited.sources[s].active + 1
    BY <1>5, <2>1, NextGateFact, AdmittedOneFact
  <2>4. QED
    BY <1>2, <1>3, <2>2, <2>3
<1>6. CASE UpgradeOpens(r)
  <2>1. /\ visited.sources[s].known /\ limiter' = admitted
        /\ gates' = [gates EXCEPT ![r] = g]
    BY <1>6 DEF UpgradeOpens, Admits
  <2>2. g \in Gate /\ GateOK(g) /\ g.slot /\ g.source = s
    BY <1>1, <1>2, NextGateFact DEF Gate, GateOK, Stage
  <2> HIDE DEF g, s, admitted, visited
  <2>3. HeldBy(g, s) = 1 /\ \A q \in Source \ {s} : HeldBy(g, q) = 0
    BY <2>2 DEF HeldBy
  <2>4. \A q \in Source : limiter'.sources[q].active =
            limiter.sources[q].active + HeldBy(g, q) - HeldBy(gates[r], q)
    BY <1>2, <1>4, <1>5, <2>1, <2>3, NextGateFact
  <2>5. QED
    BY <1>1, <1>5, <2>1, <2>2, <2>4, NextGateFact, ChangeFact
<1>7. CASE UpgradeVanishes(r)
  <2>1. /\ visited.sources[s].known /\ limiter' = Release(admitted, s)
        /\ gates' = [gates EXCEPT ![r] = Idle]
    BY <1>7 DEF UpgradeVanishes, Admits
  <2> HIDE DEF s, admitted, visited
  <2>2. /\ LimiterOK(limiter') /\ limiter'.sources[s] = ReleasedOne(admitted.sources[s])
        /\ \A q \in Source \ {s} : limiter'.sources[q] = admitted.sources[q]
    BY <1>2, <1>5, <2>1, ReleaseFact
  <2>3. limiter'.sources[s].active = limiter.sources[s].active
    BY <1>2, <1>5, <2>1, <2>2, NextGateFact, ReleasedOneFact
  <2>4. \A q \in Source : limiter'.sources[q].active =
            limiter.sources[q].active + HeldBy(Idle, q) - HeldBy(gates[r], q)
    BY <1>2, <1>4, <1>5, <2>1, <2>2, <2>3, NextGateFact
  <2>5. QED
    BY <1>1, <2>1, <2>2, <2>4, NextGateFact, IdleFact, ChangeFact
<1>8. CASE UpgradeRefused(r)
  <2>1. limiter' = visited /\ gates' = [gates EXCEPT ![r] = Idle]
    BY <1>8 DEF UpgradeRefused
  <2> HIDE DEF s, visited
  <2>2. \A q \in Source : limiter'.sources[q].active =
            limiter.sources[q].active + HeldBy(Idle, q) - HeldBy(gates[r], q)
    BY <1>3, <1>4, <2>1, NextGateFact
  <2>3. QED
    BY <1>1, <1>3, <2>1, <2>2, NextGateFact, IdleFact, ChangeFact
<1>9. QED
  BY <1>6, <1>7, <1>8

\* A proof, a timeout and a close give the place of a socket back once.
LEMMA SocketSlots ==
    ASSUME SlotInv, NEW r \in Request,
           ProveValid(r) \/ ProveInvalid(r) \/ HelloExpires(r) \/ SocketCloses(r)
    PROVE  SlotInv'
<1> DEFINE valid == [Settled(r) EXCEPT !.authenticated = TRUE]
           invalid == [Settled(r) EXCEPT !.closing = TRUE]
<1>1. PICK ok \in BOOLEAN, g \in {valid, invalid, Idle} :
          /\ gates[r].stage = "socket" /\ clock' = clock
          /\ Settle(r, ok) /\ gates' = [gates EXCEPT ![r] = g]
  BY DEF ProveValid, ProveInvalid, HelloExpires, SocketCloses
<1>2. gates[r] \in Gate /\ GateOK(gates[r])
  BY NextGateFact
<1>3. g \in Gate /\ GateOK(g) /\ ~g.slot
  <2>1. \A h \in {valid, invalid} : h \in Gate /\ GateOK(h) /\ ~h.slot
    BY <1>1, <1>2 DEF Settled, Gate, GateOK
  <2>2. QED
    BY <2>1, IdleFact
<1> HIDE DEF valid, invalid
<1>4. /\ LimiterOK(limiter')
      /\ \A s \in Source : limiter'.sources[s].active =
             limiter.sources[s].active - HeldBy(gates[r], s)
  BY <1>1, SettleFact
<1>5. \A s \in Source : HeldBy(g, s) = 0 /\ HeldBy(gates[r], s) \in {0, 1}
  BY <1>3 DEF HeldBy
<1>6. \A s \in Source : limiter'.sources[s].active =
          limiter.sources[s].active + HeldBy(g, s) - HeldBy(gates[r], s)
  BY <1>4, <1>5, NextGateFact
<1>7. QED
  BY <1>1, <1>3, <1>4, <1>6, NextGateFact, ChangeFact

\* A socket that is only closed keeps its place until it settles.
LEMMA ClosingSlots ==
    ASSUME SlotInv, NEW r \in Request, BadFrame(r) \/ SweepStale(r)
    PROVE  SlotInv'
<1> DEFINE bad == [gates[r] EXCEPT !.closing = TRUE]
           stale == [gates[r] EXCEPT !.closing = TRUE, !.listed = FALSE]
<1>1. gates \in [Request -> Gate] /\ gates[r] \in Gate /\ GateOK(gates[r])
  BY DEF SlotInv
<1>2. PICK g \in {bad, stale} : /\ gates' = [gates EXCEPT ![r] = g]
                                /\ gates[r].stage = "socket"
                                /\ limiter' = limiter /\ clock' = clock
  BY <1>1 DEF BadFrame, SweepStale
<1>3. /\ g \in Gate /\ g.stage = gates[r].stage /\ g.slot = gates[r].slot
      /\ g.settled = gates[r].settled /\ g.source = gates[r].source
  BY <1>1 DEF Gate
<1> HIDE DEF bad, stale
<1>4. GateOK(g)
  BY <1>1, <1>2, <1>3 DEF GateOK
<1>5. \A s \in Source : HeldBy(g, s) = HeldBy(gates[r], s) /\ HeldBy(g, s) \in {0, 1}
  BY <1>3 DEF HeldBy
<1>6. \A s \in Source : limiter'.sources[s].active =
          limiter.sources[s].active + HeldBy(g, s) - HeldBy(gates[r], s)
  BY <1>2, <1>5, NextGateFact
<1>7. QED
  BY <1>2, <1>3, <1>4, <1>6, NextGateFact, ChangeFact

\* A pairing takes its place when it arrives, if it is admitted.
LEMMA PairArrivesSlots ==
    ASSUME SlotInv, NEW r \in Request, NEW s \in Source, PairArrives(r, s)
    PROVE  SlotInv'
<1> DEFINE visited == Visit(limiter, s, clock)
           admitted == Admitted(visited, s, clock)
           g == [Idle EXCEPT !.stage = "pairing", !.source = s, !.slot = TRUE]
<1>1. clock' = clock /\ gates[r] = Idle /\ gates \in [Request -> Gate]
  BY DEF PairArrives, SlotInv
<1>2. /\ LimiterOK(visited)
      /\ \A q \in Source : visited.sources[q].active = limiter.sources[q].active
  BY NextGateFact, VisitSlots
<1>3. \A q \in Source : HeldBy(gates[r], q) = 0 /\ HeldBy(Idle, q) = 0
  BY <1>1, NextGateFact DEF HeldBy
<1>4. CASE Admits(visited, s, clock)
  <2>1. /\ visited.sources[s].known /\ limiter' = admitted
        /\ gates' = [gates EXCEPT ![r] = g]
    BY <1>4 DEF PairArrives, Admits
  <2>2. g \in Gate /\ GateOK(g) /\ g.slot /\ g.source = s
    BY DEF Idle, Gate, GateOK, Stage
  <2> HIDE DEF g, visited
  <2>3. visited.sources[s] \in SourceState
    BY <1>2 DEF LimiterOK, LimiterState
  <2>4. /\ LimiterOK(admitted) /\ admitted.sources[s] = AdmittedOne(visited.sources[s], clock)
        /\ \A q \in Source \ {s} : admitted.sources[q] = visited.sources[q]
    BY <1>2, <2>1, NextGateFact, AdmittedFact
  <2> HIDE DEF admitted
  <2>5. /\ admitted.sources[s].active = limiter.sources[s].active + 1
        /\ \A q \in Source \ {s} : admitted.sources[q].active = limiter.sources[q].active
    <3>1. AdmittedOne(visited.sources[s], clock).active = visited.sources[s].active + 1
      BY <2>3, NextGateFact, AdmittedOneFact
    <3>2. QED
      BY <1>2, <2>4, <3>1
  <2>6. HeldBy(g, s) = 1 /\ \A q \in Source \ {s} : HeldBy(g, q) = 0
    BY <2>2 DEF HeldBy
  <2>7. \A q \in Source : limiter'.sources[q].active =
            limiter.sources[q].active + HeldBy(g, q) - HeldBy(gates[r], q)
    BY <1>3, <2>1, <2>5, <2>6, NextGateFact
  <2>8. QED
    BY <1>1, <2>1, <2>2, <2>4, <2>7, NextGateFact, ChangeFact
<1>5. CASE ~Admits(visited, s, clock)
  <2>1. limiter' = visited /\ gates' = gates
    BY <1>5 DEF PairArrives
  <2>2. gates' = [gates EXCEPT ![r] = Idle]
    BY <1>1, <2>1
  <2> HIDE DEF visited
  <2>3. \A q \in Source : limiter'.sources[q].active =
            limiter.sources[q].active + HeldBy(Idle, q) - HeldBy(gates[r], q)
    BY <1>2, <1>3, <2>1, NextGateFact
  <2>4. QED
    BY <1>1, <1>2, <2>1, <2>2, <2>3, NextGateFact, IdleFact, ChangeFact
<1>6. QED
  BY <1>4, <1>5

\* What handlePair() records of a code, without giving its place back.
Recorded(L, s, result, now) ==
    CASE result = "paired" -> RecordSuccess(L, s, now)
      [] result = "wrong code" -> RecordFailure(L, s, now)
      [] OTHER -> L
Results == {"paired", "wrong code", "other"}

\* Recording the result of a code takes and gives no place.
LEMMA RecordedSlots ==
    ASSUME NEW L, LimiterOK(L), NEW s \in Source, L.sources[s].known, NEW now \in Nat,
           NEW result \in Results
    PROVE  LET M == Recorded(L, s, result, now)
           IN  /\ LimiterOK(M) /\ M.sources[s].known
               /\ \A q \in Source : M.sources[q].active = L.sources[q].active
<1>1. \A q \in Source : L.sources[q] \in SourceState
  BY DEF LimiterOK, LimiterState
<1>2. CASE result = "paired"
  BY <1>1, <1>2, SuccessFact, SucceededOneFact DEF Recorded
<1>3. CASE result = "wrong code"
  <2> DEFINE V == Visit(L, s, now)
             M == RecordFailure(L, s, now)
  <2>1. /\ LimiterOK(V) /\ V.sources[s].known
        /\ \A q \in Source : V.sources[q].active = L.sources[q].active
    BY VisitSlots
  <2>2. \A q \in Source : V.sources[q] \in SourceState
    BY <2>1 DEF LimiterOK, LimiterState
  <2>3. /\ LimiterOK(M) /\ M.sources[s] = FailedOne(V.sources[s], now)
        /\ \A q \in Source \ {s} : M.sources[q] = V.sources[q]
    BY FailureFact
  <2> HIDE DEF V, M
  <2>4. /\ FailedOne(V.sources[s], now).active = V.sources[s].active
        /\ FailedOne(V.sources[s], now).known
    BY <2>1, <2>2, FailedOneFact
  <2>5. LimiterOK(M) /\ M.sources[s].known
        /\ \A q \in Source : M.sources[q].active = L.sources[q].active
    BY <2>1, <2>3, <2>4
  <2>6. Recorded(L, s, result, now) = M
    BY <1>3 DEF Recorded, M
  <2>7. QED
    BY <2>5, <2>6
<1>4. CASE result = "other"
  BY <1>4 DEF Recorded
<1>5. QED
  BY <1>2, <1>3, <1>4 DEF Results

\* A pairing gives its place back, whatever it ended with.
LEMMA PairEndsSlots ==
    ASSUME SlotInv, NEW r \in Request, NEW result \in Results, PairEnds(r, result)
    PROVE  SlotInv'
<1> DEFINE s == gates[r].source
           recorded == Recorded(limiter, s, result, clock)
<1>1. /\ clock' = clock /\ gates[r].stage = "pairing"
      /\ limiter' = Release(recorded, s) /\ gates' = [gates EXCEPT ![r] = Idle]
  BY DEF PairEnds, Recorded
<1>2. s \in Source /\ gates[r].slot
  BY <1>1, NextGateFact DEF GateOK
<1> HIDE DEF s
<1>3. limiter.sources[s].active > 0 /\ limiter.sources[s].known
  <2>1. r \in Holding(s)
    BY <1>2 DEF Holding, s
  <2>2. QED
    BY <1>2, <2>1, ActiveFact
<1>4. /\ LimiterOK(recorded) /\ recorded.sources[s].known
      /\ \A q \in Source : recorded.sources[q].active = limiter.sources[q].active
  BY <1>2, <1>3, RecordedSlots, NextGateFact
<1> HIDE DEF recorded
<1>5. /\ LimiterOK(limiter') /\ limiter'.sources[s] = ReleasedOne(recorded.sources[s])
      /\ \A q \in Source \ {s} : limiter'.sources[q] = recorded.sources[q]
  BY <1>1, <1>2, <1>4, ReleaseFact
<1>6. limiter'.sources[s].active = limiter.sources[s].active - 1
  <2>1. recorded.sources[s] \in SourceState
    BY <1>2, <1>4 DEF LimiterOK, LimiterState
  <2>2. QED
    BY <1>2, <1>3, <1>4, <1>5, <2>1, ReleasedOneFact
<1>7. HeldBy(gates[r], s) = 1 /\ \A q \in Source \ {s} : HeldBy(gates[r], q) = 0
  BY <1>2 DEF HeldBy, s
<1>8. \A q \in Source : HeldBy(Idle, q) = 0
  BY NextGateFact
<1>9. \A q \in Source : limiter'.sources[q].active =
          limiter.sources[q].active + HeldBy(Idle, q) - HeldBy(gates[r], q)
  BY <1>2, <1>4, <1>5, <1>6, <1>7, <1>8, NextGateFact
<1>10. QED
  BY <1>1, <1>5, <1>9, NextGateFact, IdleFact, ChangeFact

\* Every step counts the places it takes and gives back.
LEMMA SlotStep == SlotInv /\ [Next]_vars => SlotInv'
<1> SUFFICES ASSUME SlotInv, [Next]_vars PROVE SlotInv'
  OBVIOUS
<1>1. CASE Tick
  <2>1. clock' = clock + 1 /\ limiter' = limiter /\ gates' = gates
    BY <1>1, Zenon DEF Tick
  <2>2. clock' \in Nat
    BY <2>1 DEF SlotInv
  <2>3. QED
    BY <2>1, <2>2 DEF SlotInv, SlotsConserved, Holding
<1>2. ASSUME NEW r \in Request, NEW s \in Source, UpgradeArrives(r, s) \/ PairArrives(r, s)
      PROVE  SlotInv'
  BY <1>2, UpgradeSlots, PairArrivesSlots
<1>3. ASSUME NEW r \in Request,
             UpgradeOpens(r) \/ UpgradeVanishes(r) \/ UpgradeRefused(r)
      PROVE  SlotInv'
  BY <1>3, OpenSlots
<1>4. ASSUME NEW r \in Request,
             ProveValid(r) \/ ProveInvalid(r) \/ HelloExpires(r) \/ SocketCloses(r)
      PROVE  SlotInv'
  BY <1>4, SocketSlots
<1>5. ASSUME NEW r \in Request, BadFrame(r) \/ SweepStale(r)
      PROVE  SlotInv'
  BY <1>5, ClosingSlots
<1>6. ASSUME NEW r \in Request, NEW result \in Results, PairEnds(r, result)
      PROVE  SlotInv'
  BY <1>6, PairEndsSlots
<1>7. CASE UNCHANGED vars
  BY <1>7 DEF vars, SlotInv, SlotsConserved, Holding
<1>8. QED
  BY <1>1, <1>2, <1>3, <1>4, <1>5, <1>6, <1>7 DEF Next, Results

\* Every admission is given back exactly once, whichever way a request ends: the table
\* counts for each source just the requests that hold a place, for any number of both.
THEOREM PlacesAreConserved == Spec => []SlotsConserved
<1>1. SlotInv => SlotsConserved
  BY DEF SlotInv
<1>2. QED
  BY <1>1, SlotInit, SlotStep, PTL DEF Spec

-----------------------------------------------------------------------------
(* Rates and blocks: the bounded table against what sources really did.    *)

Entry == [admitted : Seq(Nat), failed : Seq(Nat), banned : Nat]

\* What the table has of a source, once it is pruned, is what the source did; and a
\* source the table does not hold did nothing that still counts.
Agrees(state, entry, now) ==
    IF state.known
    THEN /\ Within(state.attempts, Window, now) = entry.admitted
         /\ Within(state.failures, FailureWindow, now) = entry.failed
         /\ state.blockedUntil > now \/ entry.banned > now => state.blockedUntil = entry.banned
         /\ state.blockedUntil <= now + BlockTime
         /\ state.lastSeen <= now
         /\ AllAtMost(state.attempts, state.lastSeen)
         /\ AllAtMost(state.failures, state.lastSeen)
    ELSE entry.admitted = <<>> /\ entry.failed = <<>> /\ entry.banned <= now

\* The policy as numbers.
LEMMA PolicyFact ==
    /\ Window \in Nat \ {0} /\ FailureWindow \in Nat \ {0} /\ BlockTime \in Nat \ {0}
    /\ FailuresBeforeBlock \in Nat \ {0}
    /\ Window \in Int /\ FailureWindow \in Int /\ BlockTime \in Int
BY PolicyAssumption

\* A weaker bound.
LEMMA AtMostFact ==
    ASSUME NEW times \in Seq(Nat), NEW m \in Int, NEW n \in Int, m <= n, AllAtMost(times, m)
    PROVE  AllAtMost(times, n)
<1>1. \A i \in DOMAIN times : times[i] \in Nat
  OBVIOUS
<1>2. QED
  BY <1>1 DEF AllAtMost

\* Pruning a source, and seeing it besides.
LEMMA PrunedAgrees ==
    ASSUME NEW state \in SourceState, state.known, NEW entry \in Entry, NEW now \in Nat,
           Agrees(state, entry, now), NEW seen \in Nat, state.lastSeen <= seen, seen <= now,
           NEW p \in SourceState, p.known, p.lastSeen = seen,
           p.attempts = Within(state.attempts, Window, now),
           p.failures = Within(state.failures, FailureWindow, now),
           p.blockedUntil = (IF state.blockedUntil > now THEN state.blockedUntil ELSE 0)
    PROVE  /\ Agrees(p, entry, now)
           /\ p.attempts = entry.admitted /\ p.failures = entry.failed
<1>1. /\ state.attempts \in Seq(Nat) /\ state.failures \in Seq(Nat)
      /\ state.blockedUntil \in Nat /\ state.lastSeen \in Nat /\ now \in Int
      /\ entry.banned \in Nat
  BY DEF SourceState, Entry
<1>2. /\ p.attempts = entry.admitted /\ p.failures = entry.failed
  BY DEF Agrees
<1>3. /\ Within(p.attempts, Window, now) = entry.admitted
      /\ Within(p.failures, FailureWindow, now) = entry.failed
  <2>1. now <= now
    BY <1>1
  <2>2. /\ Within(p.attempts, Window, now) = Within(state.attempts, Window, now)
        /\ Within(p.failures, FailureWindow, now) = Within(state.failures, FailureWindow, now)
    BY <1>1, <2>1, WithinWithin, PolicyFact
  <2>3. QED
    BY <1>2, <2>2
<1>4. AllAtMost(p.attempts, p.lastSeen) /\ AllAtMost(p.failures, p.lastSeen)
  <2>1. AllAtMost(state.attempts, state.lastSeen) /\ AllAtMost(state.failures, state.lastSeen)
    BY DEF Agrees
  <2>2. state.lastSeen \in Int /\ seen \in Int
    BY <1>1
  <2>3. AllAtMost(state.attempts, seen) /\ AllAtMost(state.failures, seen)
    BY <1>1, <2>1, <2>2, AtMostFact
  <2>4. AllAtMost(Within(state.attempts, Window, now), seen)
    BY <1>1, <2>2, <2>3, WithinAtMost, PolicyFact
  <2>5. AllAtMost(Within(state.failures, FailureWindow, now), seen)
    BY <1>1, <2>2, <2>3, WithinAtMost, PolicyFact
  <2>6. QED
    BY <2>4, <2>5
<1>5. /\ p.blockedUntil > now \/ entry.banned > now => p.blockedUntil = entry.banned
      /\ p.blockedUntil <= now + BlockTime
  BY <1>1, PolicyFact DEF Agrees
<1>6. QED
  BY <1>2, <1>3, <1>4, <1>5 DEF Agrees

\* A source the table has just got did nothing that counts.
LEMMA FreshAgrees ==
    ASSUME NEW entry \in Entry, NEW now \in Nat,
           entry.admitted = <<>>, entry.failed = <<>>, entry.banned <= now
    PROVE  Agrees(Fresh(now), entry, now)
<1>1. /\ Fresh(now).known /\ Fresh(now).lastSeen = now /\ Fresh(now).blockedUntil = 0
      /\ Fresh(now).attempts = <<>> /\ Fresh(now).failures = <<>>
  BY UnknownFact
<1>2. AllAtMost(<<>>, now)
  BY DEF AllAtMost
<1>3. entry.banned \in Nat /\ 0 <= now + BlockTime
  BY PolicyFact DEF Entry
<1>4. QED
  BY <1>1, <1>2, <1>3, WithinEmpty DEF Agrees

\* Whoever is forgotten did nothing that still counts.
LEMMA StaleAgrees ==
    ASSUME NEW state \in SourceState, NEW entry \in Entry, NEW now \in Nat,
           Agrees(state, entry, now), Stale(state, now)
    PROVE  entry.admitted = <<>> /\ entry.failed = <<>> /\ entry.banned <= now
<1>1. /\ state.attempts \in Seq(Nat) /\ state.failures \in Seq(Nat)
      /\ state.blockedUntil \in Nat /\ state.lastSeen \in Nat /\ now \in Int
      /\ entry.banned \in Nat /\ state.lastSeen \in Int
  BY DEF SourceState, Entry
<1>2. /\ state.known /\ Prune(state, now).blockedUntil = 0
      /\ state.lastSeen < now - (IF FailureWindow > BlockTime THEN FailureWindow ELSE BlockTime)
  BY DEF Stale
<1>3. state.lastSeen <= now - Window /\ state.lastSeen <= now - FailureWindow
  BY <1>1, <1>2, PolicyFact, WindowAssumption
<1>4. now - Window \in Int /\ now - FailureWindow \in Int
  BY PolicyFact
<1>5. /\ AllAtMost(state.attempts, now - Window)
      /\ AllAtMost(state.failures, now - FailureWindow)
  BY <1>1, <1>2, <1>3, <1>4, AtMostFact DEF Agrees
<1>6. /\ Within(state.attempts, Window, now) = <<>>
      /\ Within(state.failures, FailureWindow, now) = <<>>
  <2>1. Window \in Int /\ FailureWindow \in Int
    BY PolicyFact
  <2>2. Within(state.attempts, Window, now) = <<>>
    BY <1>1, <1>5, <2>1, WithinNone
  <2>3. Within(state.failures, FailureWindow, now) = <<>>
    BY <1>1, <1>5, <2>1, WithinNone
  <2>4. QED
    BY <2>2, <2>3
<1>7. ~(state.blockedUntil > now)
  <2>1. Prune(state, now).blockedUntil =
            (IF state.blockedUntil > now THEN state.blockedUntil ELSE 0)
    BY PruneFact
  <2>2. QED
    BY <1>1, <1>2, <2>1
<1>8. QED
  BY <1>1, <1>2, <1>6, <1>7 DEF Agrees

\* Looking a source up keeps what the table has of it right.
LEMMA LookedUpAgrees ==
    ASSUME NEW old \in SourceState, NEW new, NEW entry \in Entry, NEW now \in Nat,
           Agrees(old, entry, now), LookedUp(old, new, now)
    PROVE  Agrees(new, entry, now)
<1>1. CASE new = old
  BY <1>1
<1>2. CASE old.known /\ new = Prune(old, now)
  <2>1. /\ old.lastSeen \in Nat /\ old.lastSeen <= old.lastSeen /\ old.lastSeen <= now
    BY <1>2 DEF SourceState, Agrees
  <2>2. /\ new \in SourceState /\ new.known /\ new.lastSeen = old.lastSeen
        /\ new.attempts = Within(old.attempts, Window, now)
        /\ new.failures = Within(old.failures, FailureWindow, now)
        /\ new.blockedUntil = (IF old.blockedUntil > now THEN old.blockedUntil ELSE 0)
    BY <1>2, PruneFact
  <2>3. QED
    BY <1>2, <2>1, <2>2, PrunedAgrees
<1>3. CASE Stale(old, now) /\ new = Unknown
  BY <1>3, StaleAgrees, UnknownFact DEF Agrees
<1>4. CASE ~old.known /\ new = Fresh(now)
  BY <1>4, FreshAgrees DEF Agrees
<1>5. QED
  BY <1>1, <1>2, <1>3, <1>4 DEF LookedUp

\* So does visiting it; what counts of it is then all the table has.
LEMMA VisitedAgrees ==
    ASSUME NEW old \in SourceState, NEW new, NEW entry \in Entry, NEW now \in Nat,
           Agrees(old, entry, now), Visited(old, new, now)
    PROVE  /\ Agrees(new, entry, now)
           /\ new.known => /\ new.attempts = entry.admitted /\ new.failures = entry.failed
                           /\ new.lastSeen = now
<1>1. ASSUME NEW m \in SourceState, m.known, m.lastSeen <= now, Agrees(m, entry, now),
             new = PutInto(m, now)
      PROVE  /\ Agrees(new, entry, now)
             /\ new.attempts = entry.admitted /\ new.failures = entry.failed
             /\ new.lastSeen = now
  <2>1. /\ new \in SourceState /\ new.known /\ new.lastSeen = now
        /\ new.attempts = Within(m.attempts, Window, now)
        /\ new.failures = Within(m.failures, FailureWindow, now)
        /\ new.blockedUntil = (IF m.blockedUntil > now THEN m.blockedUntil ELSE 0)
    BY <1>1, PutIntoFact
  <2>2. now <= now
    OBVIOUS
  <2>3. QED
    BY <1>1, <2>1, <2>2, PrunedAgrees
<1>2. CASE old.known /\ new = PutInto(old, now)
  BY <1>1, <1>2 DEF Agrees
<1>3. CASE ~old.known /\ new = PutInto(Fresh(now), now)
  <2>1. Agrees(Fresh(now), entry, now)
    BY <1>3, FreshAgrees DEF Agrees
  <2>2. Fresh(now) \in SourceState /\ Fresh(now).known /\ Fresh(now).lastSeen <= now
    BY UnknownFact
  <2>3. QED
    BY <1>1, <1>3, <2>1, <2>2
<1>4. CASE ~old.known /\ new = Unknown
  BY <1>4, UnknownFact DEF Agrees
<1>5. QED
  BY <1>2, <1>3, <1>4 DEF Visited

\* An admission, a failure and a success of a source that was just seen.
LEMMA AdmittedAgrees ==
    ASSUME NEW state \in SourceState, state.known, NEW entry \in Entry, NEW now \in Nat,
           Agrees(state, entry, now), state.lastSeen = now
    PROVE  Agrees(AdmittedOne(state, now), [entry EXCEPT !.admitted = Append(@, now)], now)
<1> DEFINE p == AdmittedOne(state, now)
           e == [entry EXCEPT !.admitted = Append(@, now)]
<1>1. /\ p \in SourceState /\ p.known = state.known
      /\ p.attempts = Append(state.attempts, now)
      /\ p.failures = state.failures /\ p.blockedUntil = state.blockedUntil
      /\ p.lastSeen = state.lastSeen
  BY AdmittedOneFact
<1>2. e.admitted = Append(entry.admitted, now) /\ e.failed = entry.failed
      /\ e.banned = entry.banned
  BY DEF Entry
<1>3. state.attempts \in Seq(Nat) /\ now > now - Window /\ now \in Int
  BY PolicyFact DEF SourceState
<1> HIDE DEF p, e
<1>4. Within(p.attempts, Window, now) = e.admitted
  <2>1. Within(p.attempts, Window, now) = Append(Within(state.attempts, Window, now), now)
    BY <1>1, <1>3, WithinAppend
  <2>2. QED
    BY <1>2, <2>1 DEF Agrees
<1>5. AllAtMost(p.attempts, p.lastSeen)
  <2>1. now <= now /\ AllAtMost(state.attempts, now)
    BY DEF Agrees
  <2>2. AllAtMost(Append(state.attempts, now), now)
    BY <1>3, <2>1, AllAtMostAppend
  <2>3. QED
    BY <1>1, <2>2
<1>6. QED
  BY <1>1, <1>2, <1>4, <1>5 DEF Agrees, p, e

\* Giving a place back changes neither rates nor blocks.
LEMMA ReleasedAgrees ==
    ASSUME NEW state \in SourceState, NEW entry, NEW now, Agrees(state, entry, now)
    PROVE  Agrees(ReleasedOne(state), entry, now)
BY ReleasedOneFact DEF Agrees

FailedEntry(entry, now) ==
    [entry EXCEPT !.failed = Append(Within(@, FailureWindow, now), now),
                  !.banned = IF Len(Within(entry.failed, FailureWindow, now)) + 1
                                    < FailuresBeforeBlock
                             THEN @ ELSE now + BlockTime]
SucceededEntry(entry) == [entry EXCEPT !.failed = <<>>, !.banned = 0]

\* The fields of the history after a failure and a success.
LEMMA EntryFact ==
    ASSUME NEW entry \in Entry, NEW now \in Nat
    PROVE  /\ FailedEntry(entry, now) \in Entry
           /\ FailedEntry(entry, now).admitted = entry.admitted
           /\ FailedEntry(entry, now).failed = Append(Within(entry.failed, FailureWindow, now), now)
           /\ FailedEntry(entry, now).banned =
                  (IF Len(Within(entry.failed, FailureWindow, now)) + 1 < FailuresBeforeBlock
                   THEN entry.banned ELSE now + BlockTime)
           /\ SucceededEntry(entry) \in Entry
           /\ SucceededEntry(entry).admitted = entry.admitted
           /\ SucceededEntry(entry).failed = <<>> /\ SucceededEntry(entry).banned = 0
<1> DEFINE failed == Append(Within(entry.failed, FailureWindow, now), now)
           banned == IF Len(Within(entry.failed, FailureWindow, now)) + 1 < FailuresBeforeBlock
                     THEN entry.banned ELSE now + BlockTime
           E == <<>>
<1>1. Within(entry.failed, FailureWindow, now) \in Seq(Nat)
  BY WithinBounds, PolicyFact DEF Entry
<1>2. failed \in Seq(Nat) /\ banned \in Nat /\ E \in Seq(Nat)
  BY <1>1, PolicyFact DEF Entry
<1>3. /\ FailedEntry(entry, now) = [entry EXCEPT !.failed = failed, !.banned = banned]
      /\ SucceededEntry(entry) = [entry EXCEPT !.failed = E, !.banned = 0]
  BY DEF FailedEntry, SucceededEntry
<1> HIDE DEF failed, banned, E
<1>4. /\ FailedEntry(entry, now) \in Entry
      /\ FailedEntry(entry, now).admitted = entry.admitted
      /\ FailedEntry(entry, now).failed = failed
      /\ FailedEntry(entry, now).banned = banned
  BY <1>2, <1>3 DEF Entry
<1>5. /\ SucceededEntry(entry) \in Entry
      /\ SucceededEntry(entry).admitted = entry.admitted
      /\ SucceededEntry(entry).failed = E /\ SucceededEntry(entry).banned = 0
  <2> DEFINE e == SucceededEntry(entry)
  <2>1. e = [entry EXCEPT !.failed = E, !.banned = 0] /\ E \in Seq(Nat)
    BY <1>2, <1>3
  <2> HIDE DEF e
  <2>2. e \in Entry
    BY <2>1 DEF Entry
  <2>3. e.admitted = entry.admitted /\ e.failed = E /\ e.banned = 0
    BY <2>1 DEF Entry
  <2>4. QED
    BY <2>2, <2>3 DEF e
<1>6. QED
  BY <1>4, <1>5 DEF failed, banned, E

\* A failure blocks in the table when it does in the history, and as long.
LEMMA FailedAgrees ==
    ASSUME NEW state \in SourceState, state.known, NEW entry \in Entry, NEW now \in Nat,
           Agrees(state, entry, now), state.lastSeen = now, state.failures = entry.failed
    PROVE  Agrees(FailedOne(state, now), FailedEntry(entry, now), now)
<1> DEFINE p == FailedOne(state, now)
           e == FailedEntry(entry, now)
           until == IF Len(state.failures) + 1 < FailuresBeforeBlock THEN 0 ELSE now + BlockTime
<1>1. /\ p \in SourceState /\ p.known = state.known
      /\ p.failures = Append(state.failures, now) /\ p.attempts = state.attempts
      /\ p.blockedUntil = (IF until > state.blockedUntil THEN until ELSE state.blockedUntil)
      /\ p.lastSeen = state.lastSeen
  BY FailedOneFact
<1>2. Within(state.failures, FailureWindow, now) = entry.failed
  BY DEF Agrees
<1>3. /\ e.admitted = entry.admitted
      /\ e.failed = Append(state.failures, now)
      /\ e.banned = (IF Len(state.failures) + 1 < FailuresBeforeBlock
                     THEN entry.banned ELSE now + BlockTime)
  <2>1. Within(entry.failed, FailureWindow, now) = state.failures
    BY <1>2
  <2>2. /\ e.admitted = entry.admitted
        /\ e.failed = Append(Within(entry.failed, FailureWindow, now), now)
        /\ e.banned = (IF Len(Within(entry.failed, FailureWindow, now)) + 1
                              < FailuresBeforeBlock
                       THEN entry.banned ELSE now + BlockTime)
    BY EntryFact
  <2> HIDE DEF e
  <2>3. QED
    BY <2>1, <2>2
<1>4. /\ state.failures \in Seq(Nat) /\ now > now - FailureWindow /\ now \in Int
      /\ state.blockedUntil \in Nat /\ entry.banned \in Nat /\ Len(state.failures) \in Nat
  BY PolicyFact DEF SourceState, Entry
<1>5. /\ p.blockedUntil > now \/ e.banned > now => p.blockedUntil = e.banned
      /\ p.blockedUntil <= now + BlockTime
  <2>1. /\ state.blockedUntil > now \/ entry.banned > now => state.blockedUntil = entry.banned
        /\ state.blockedUntil <= now + BlockTime
    BY DEF Agrees
  <2> HIDE DEF p, e
  <2>2. CASE Len(state.failures) + 1 < FailuresBeforeBlock
    <3>1. until = 0 /\ e.banned = entry.banned
      BY <1>3, <2>2
    <3> HIDE DEF until
    <3>2. p.blockedUntil = state.blockedUntil
      BY <1>1, <1>4, <3>1
    <3>3. QED
      BY <2>1, <3>1, <3>2
  <2>3. CASE ~(Len(state.failures) + 1 < FailuresBeforeBlock)
    <3>1. until = now + BlockTime /\ e.banned = now + BlockTime
      BY <1>3, <2>3
    <3> HIDE DEF until
    <3>2. p.blockedUntil = now + BlockTime
      BY <1>1, <1>4, <2>1, <3>1, PolicyFact
    <3>3. now + BlockTime <= now + BlockTime
      BY <1>4, PolicyFact
    <3>4. QED
      BY <3>1, <3>2, <3>3
  <2>4. QED
    BY <2>2, <2>3
<1> HIDE DEF p, e, until
<1>6. Within(p.failures, FailureWindow, now) = e.failed
  <2>1. Within(p.failures, FailureWindow, now) =
            Append(Within(state.failures, FailureWindow, now), now)
    BY <1>1, <1>4, WithinAppend
  <2>2. QED
    BY <1>2, <1>3, <2>1
<1>7. AllAtMost(p.failures, p.lastSeen)
  <2>1. now <= now /\ AllAtMost(state.failures, now)
    BY DEF Agrees
  <2>2. AllAtMost(Append(state.failures, now), now)
    BY <1>4, <2>1, AllAtMostAppend
  <2>3. QED
    BY <1>1, <2>2
<1>8. QED
  BY <1>1, <1>3, <1>5, <1>6, <1>7 DEF Agrees, p, e

\* A success forgives failures and block in both.
LEMMA SucceededAgrees ==
    ASSUME NEW state \in SourceState, state.known, NEW entry \in Entry, NEW now \in Nat,
           Agrees(state, entry, now)
    PROVE  Agrees(SucceededOne(state, now), SucceededEntry(entry), now)
<1> DEFINE p == SucceededOne(state, now)
           e == SucceededEntry(entry)
<1>1. /\ p.known = state.known /\ p.failures = <<>> /\ p.attempts = state.attempts
      /\ p.blockedUntil = 0 /\ p.lastSeen = now
  BY SucceededOneFact
<1>2. e.admitted = entry.admitted /\ e.failed = <<>> /\ e.banned = 0
  BY EntryFact
<1>3. state.attempts \in Seq(Nat) /\ state.lastSeen \in Int /\ now \in Int /\ now <= now
      /\ 0 <= now + BlockTime /\ ~(0 > now)
  BY PolicyFact DEF SourceState
<1>4. AllAtMost(p.attempts, now) /\ AllAtMost(<<>>, now)
  <2>1. AllAtMost(state.attempts, state.lastSeen) /\ state.lastSeen <= now
    BY DEF Agrees
  <2>2. AllAtMost(state.attempts, now)
    BY <1>3, <2>1, AtMostFact
  <2>3. QED
    BY <1>1, <2>2 DEF AllAtMost
<1>5. Within(p.attempts, Window, now) = entry.admitted
  BY <1>1 DEF Agrees
<1> HIDE DEF p, e
<1>6. QED
  BY <1>1, <1>2, <1>3, <1>4, <1>5, WithinEmpty DEF Agrees, p, e

\* Time passes: what both forget is the same.
TickedEntry(entry, now) == [entry EXCEPT !.admitted = Within(@, Window, now),
                                         !.failed = Within(@, FailureWindow, now)]

\* Time that passes makes both forget the same.
LEMMA TickAgrees ==
    ASSUME NEW state \in SourceState, NEW entry \in Entry, NEW now \in Nat,
           Agrees(state, entry, now)
    PROVE  /\ TickedEntry(entry, now + 1) \in Entry
           /\ TickedEntry(entry, now + 1).admitted = Within(entry.admitted, Window, now + 1)
           /\ Agrees(state, TickedEntry(entry, now + 1), now + 1)
<1> DEFINE e == TickedEntry(entry, now + 1)
<1>1. /\ Within(entry.admitted, Window, now + 1) \in Seq(Nat)
      /\ Within(entry.failed, FailureWindow, now + 1) \in Seq(Nat)
  BY WithinBounds, PolicyFact DEF Entry
<1>2. /\ e \in Entry /\ e.admitted = Within(entry.admitted, Window, now + 1)
      /\ e.failed = Within(entry.failed, FailureWindow, now + 1) /\ e.banned = entry.banned
  BY <1>1 DEF Entry, TickedEntry
<1>3. /\ state.attempts \in Seq(Nat) /\ state.failures \in Seq(Nat) /\ state.lastSeen \in Nat
      /\ state.blockedUntil \in Nat /\ entry.banned \in Nat /\ now \in Int /\ now + 1 \in Int
      /\ now <= now + 1
  BY DEF SourceState, Entry
<1> HIDE DEF e
<1>4. CASE state.known
  <2>1. /\ Within(state.attempts, Window, now) = entry.admitted
        /\ Within(state.failures, FailureWindow, now) = entry.failed
    BY <1>4 DEF Agrees
  <2>2. /\ Within(state.attempts, Window, now + 1) = e.admitted
        /\ Within(state.failures, FailureWindow, now + 1) = e.failed
    <3>1. /\ Within(Within(state.attempts, Window, now), Window, now + 1)
                 = Within(state.attempts, Window, now + 1)
          /\ Within(Within(state.failures, FailureWindow, now), FailureWindow, now + 1)
                 = Within(state.failures, FailureWindow, now + 1)
      BY <1>3, WithinWithin, PolicyFact
    <3>2. QED
      BY <1>2, <2>1, <3>1
  <2>3. /\ state.blockedUntil > now + 1 \/ e.banned > now + 1 => state.blockedUntil = e.banned
        /\ state.blockedUntil <= now + 1 + BlockTime
        /\ state.lastSeen <= now + 1
        /\ AllAtMost(state.attempts, state.lastSeen) /\ AllAtMost(state.failures, state.lastSeen)
    BY <1>2, <1>3, <1>4, PolicyFact DEF Agrees
  <2>4. QED
    BY <1>2, <1>4, <2>2, <2>3 DEF Agrees, e
<1>5. CASE ~state.known
  <2>1. /\ e.admitted = <<>> /\ e.failed = <<>> /\ e.banned <= now + 1
    BY <1>2, <1>3, <1>5, WithinEmpty DEF Agrees
  <2>2. QED
    BY <1>2, <1>5, <2>1 DEF Agrees, e
<1>6. QED
  BY <1>4, <1>5

\* The whole table against the whole history.
AllAgree(L, l, now) == \A s \in Source : Agrees(L.sources[s], l[s], now)
AgreeInv == ledger \in [Source -> Entry] /\ AllAgree(limiter, ledger, clock)

\* Visiting one source keeps the whole table right.
LEMMA VisitAgrees ==
    ASSUME NEW L, LimiterOK(L), NEW l \in [Source -> Entry], NEW now \in Nat,
           AllAgree(L, l, now), NEW s \in Source
    PROVE  LET V == Visit(L, s, now)
           IN  /\ AllAgree(V, l, now)
               /\ V.sources[s].known => /\ V.sources[s].attempts = l[s].admitted
                                        /\ V.sources[s].failures = l[s].failed
                                        /\ V.sources[s].lastSeen = now
<1> DEFINE V == Visit(L, s, now)
<1>1. /\ \A q \in Source \ {s} : LookedUp(L.sources[q], V.sources[q], now)
      /\ Visited(L.sources[s], V.sources[s], now)
  BY VisitFact
<1>2. \A q \in Source : L.sources[q] \in SourceState /\ l[q] \in Entry
                        /\ Agrees(L.sources[q], l[q], now)
  BY DEF LimiterOK, LimiterState, AllAgree
<1> HIDE DEF V
<1>3. \A q \in Source \ {s} : Agrees(V.sources[q], l[q], now)
  BY <1>1, <1>2, LookedUpAgrees
<1>4. /\ Agrees(V.sources[s], l[s], now)
      /\ V.sources[s].known => /\ V.sources[s].attempts = l[s].admitted
                               /\ V.sources[s].failures = l[s].failed
                               /\ V.sources[s].lastSeen = now
  <2> DEFINE old == L.sources[s]
             new == V.sources[s]
             entry == l[s]
  <2>1. old \in SourceState /\ entry \in Entry /\ Agrees(old, entry, now) /\ Visited(old, new, now)
    BY <1>1, <1>2
  <2> HIDE DEF old, new, entry
  <2>2. /\ Agrees(new, entry, now)
        /\ new.known => /\ new.attempts = entry.admitted /\ new.failures = entry.failed
                        /\ new.lastSeen = now
    BY <2>1, VisitedAgrees
  <2>3. QED
    BY <2>2 DEF new, entry
<1>5. QED
  BY <1>3, <1>4 DEF AllAgree, V

\* One source changes, in the table and in the history.
LEMMA PutAgrees ==
    ASSUME NEW L, NEW M, NEW l \in [Source -> Entry], NEW now, AllAgree(L, l, now),
           NEW s \in Source, NEW entry \in Entry, Agrees(M.sources[s], entry, now),
           \A q \in Source \ {s} : M.sources[q] = L.sources[q]
    PROVE  /\ [l EXCEPT ![s] = entry] \in [Source -> Entry]
           /\ AllAgree(M, [l EXCEPT ![s] = entry], now)
<1> DEFINE m == [l EXCEPT ![s] = entry]
<1>1. m \in [Source -> Entry] /\ m[s] = entry /\ \A q \in Source \ {s} : m[q] = l[q]
  OBVIOUS
<1> HIDE DEF m
<1>2. \A q \in Source : Agrees(M.sources[q], m[q], now)
  BY <1>1 DEF AllAgree
<1>3. QED
  BY <1>1, <1>2 DEF AllAgree, m

\* The entry of a source that was admitted.
AdmittedEntry(entry, now) == [entry EXCEPT !.admitted = Append(@, now)]

\* The fields of the history after an admission.
LEMMA AdmittedEntryFact ==
    ASSUME NEW entry \in Entry, NEW now \in Nat
    PROVE  /\ AdmittedEntry(entry, now) \in Entry
           /\ AdmittedEntry(entry, now).admitted = Append(entry.admitted, now)
<1> DEFINE more == Append(entry.admitted, now)
<1>1. more \in Seq(Nat) /\ AdmittedEntry(entry, now) = [entry EXCEPT !.admitted = more]
  BY DEF Entry, AdmittedEntry
<1> HIDE DEF more
<1>2. AdmittedEntry(entry, now) \in Entry /\ AdmittedEntry(entry, now).admitted = more
  BY <1>1 DEF Entry
<1>3. QED
  BY <1>2 DEF more

\* The methods keep the whole table right: release(), ...
LEMMA ReleaseAgrees ==
    ASSUME NEW L, LimiterOK(L), NEW s \in Source, L.sources[s].known,
           NEW l \in [Source -> Entry], NEW now \in Nat, AllAgree(L, l, now)
    PROVE  AllAgree(Release(L, s), l, now)
<1> DEFINE M == Release(L, s)
<1>1. /\ M.sources[s] = ReleasedOne(L.sources[s])
      /\ \A q \in Source \ {s} : M.sources[q] = L.sources[q]
  BY ReleaseFact
<1>2. L.sources[s] \in SourceState /\ Agrees(L.sources[s], l[s], now)
  BY DEF LimiterOK, LimiterState, AllAgree
<1>3. Agrees(ReleasedOne(L.sources[s]), l[s], now)
  BY <1>2, ReleasedAgrees
<1> HIDE DEF M
<1>4. QED
  BY <1>1, <1>3 DEF AllAgree, M

\* ... recordSuccess(), ...
LEMMA SuccessAgrees ==
    ASSUME NEW L, LimiterOK(L), NEW s \in Source, L.sources[s].known,
           NEW l \in [Source -> Entry], NEW now \in Nat, AllAgree(L, l, now)
    PROVE  /\ [l EXCEPT ![s] = SucceededEntry(l[s])] \in [Source -> Entry]
           /\ AllAgree(RecordSuccess(L, s, now), [l EXCEPT ![s] = SucceededEntry(l[s])], now)
<1> DEFINE M == RecordSuccess(L, s, now)
           e == SucceededEntry(l[s])
<1>1. /\ M.sources[s] = SucceededOne(L.sources[s], now)
      /\ \A q \in Source \ {s} : M.sources[q] = L.sources[q]
  BY SuccessFact
<1>2. L.sources[s] \in SourceState /\ l[s] \in Entry /\ Agrees(L.sources[s], l[s], now)
  BY DEF LimiterOK, LimiterState, AllAgree
<1>3. Agrees(SucceededOne(L.sources[s], now), e, now) /\ e \in Entry
  BY <1>2, SucceededAgrees, EntryFact
<1> HIDE DEF M, e
<1>4. Agrees(M.sources[s], e, now)
  BY <1>1, <1>3
<1>5. QED
  BY <1>1, <1>3, <1>4, PutAgrees DEF M, e

\* ... and recordFailure().
LEMMA FailureAgrees ==
    ASSUME NEW L, LimiterOK(L), NEW s \in Source, L.sources[s].known,
           NEW l \in [Source -> Entry], NEW now \in Nat, AllAgree(L, l, now)
    PROVE  /\ [l EXCEPT ![s] = FailedEntry(l[s], now)] \in [Source -> Entry]
           /\ AllAgree(RecordFailure(L, s, now), [l EXCEPT ![s] = FailedEntry(l[s], now)], now)
<1> DEFINE V == Visit(L, s, now)
           M == RecordFailure(L, s, now)
           e == FailedEntry(l[s], now)
<1>1. /\ M.sources[s] = FailedOne(V.sources[s], now)
      /\ \A q \in Source \ {s} : M.sources[q] = V.sources[q]
  BY FailureFact
<1>2. LimiterOK(V) /\ V.sources[s].known
  BY VisitSlots
<1>3. AllAgree(V, l, now) /\ V.sources[s].failures = l[s].failed /\ V.sources[s].lastSeen = now
  BY <1>2, VisitAgrees
<1> HIDE DEF V, M
<1>4. V.sources[s] \in SourceState /\ l[s] \in Entry /\ Agrees(V.sources[s], l[s], now)
  BY <1>2, <1>3 DEF LimiterOK, LimiterState, AllAgree
<1>5. Agrees(FailedOne(V.sources[s], now), e, now) /\ e \in Entry
  BY <1>2, <1>3, <1>4, FailedAgrees, EntryFact
<1> HIDE DEF e
<1>6. Agrees(M.sources[s], e, now)
  BY <1>1, <1>5
<1>7. /\ [l EXCEPT ![s] = e] \in [Source -> Entry]
      /\ AllAgree(M, [l EXCEPT ![s] = e], now)
  <2>1. AllAgree(V, l, now) /\ e \in Entry
    BY <1>3, <1>5
  <2>2. \A q \in Source \ {s} : M.sources[q] = V.sources[q]
    BY <1>1
  <2>3. QED
    BY <1>6, <2>1, <2>2, PutAgrees
<1>8. QED
  BY <1>7 DEF M, e

\* What NoteResult writes is one entry.
LEMMA NoteResultFact ==
    ASSUME ledger \in [Source -> Entry], clock \in Nat, NEW s \in Source, NEW ok \in BOOLEAN,
           NoteResult(s, ok)
    PROVE  ledger' = [ledger EXCEPT ![s] = IF ok THEN SucceededEntry(ledger[s])
                                           ELSE FailedEntry(ledger[s], clock)]
<1> DEFINE failed == Append(Within(ledger[s].failed, FailureWindow, clock), clock)
           many == Len(Within(ledger[s].failed, FailureWindow, clock)) + 1 < FailuresBeforeBlock
           banned == IF Len(failed) < FailuresBeforeBlock THEN ledger[s].banned
                     ELSE clock + BlockTime
           E == <<>>
<1>1. ledger' = [ledger EXCEPT ![s].failed = IF ok THEN E ELSE failed,
                               ![s].banned = IF ok THEN 0 ELSE banned]
  BY DEF NoteResult
<1>2. ledger[s] \in Entry
  OBVIOUS
<1>3. CASE ok
  <2>1. SucceededEntry(ledger[s]) = [ledger[s] EXCEPT !.failed = E, !.banned = 0]
    BY DEF SucceededEntry
  <2> HIDE DEF failed, banned, E
  <2>2. QED
    BY <1>1, <1>2, <1>3, <2>1 DEF Entry
<1>4. CASE ~ok
  <2>1. FailedEntry(ledger[s], clock) = [ledger[s] EXCEPT !.failed = failed, !.banned = banned]
    <3>1. FailedEntry(ledger[s], clock) =
              [ledger[s] EXCEPT !.failed = failed,
                                !.banned = IF many THEN ledger[s].banned ELSE clock + BlockTime]
      BY DEF FailedEntry
    <3>2. Len(failed) < FailuresBeforeBlock <=> many
      <4>1. Within(ledger[s].failed, FailureWindow, clock) \in Seq(Nat)
        BY <1>2, WithinBounds, PolicyFact DEF Entry
      <4>2. QED
        BY <4>1
    <3> HIDE DEF failed, many
    <3>3. QED
      BY <3>1, <3>2
  <2> HIDE DEF failed, banned, E
  <2>2. QED
    BY <1>1, <1>2, <1>4, <2>1 DEF Entry
<1>5. QED
  BY <1>3, <1>4

\* What a step may admit: the action of AdmittedByTheRules.
LawfulStep ==
    \A s \in Source :
        Len(ledger'[s].admitted) > Len(ledger[s].admitted) =>
            /\ Len(Within(ledger'[s].admitted, Window, clock)) <= AttemptsPerSource
            /\ Len(Within(limiter'.global, Window, clock)) <= GlobalAttempts
            /\ clock >= ledger[s].banned

\* A step that admits nobody breaks no rule.
LEMMA QuietFact ==
    ASSUME ledger \in [Source -> Entry],
           \A s \in Source : ledger'[s].admitted = ledger[s].admitted
    PROVE  LawfulStep
<1>1. \A s \in Source : Len(ledger[s].admitted) \in Nat
  BY DEF Entry
<1>2. \A s \in Source : ~(Len(ledger'[s].admitted) > Len(ledger[s].admitted))
  BY <1>1
<1>3. QED
  BY <1>2 DEF LawfulStep

\* Where a source gets in, the rules let it, and the history grows as the table does.
LEMMA AdmissionStep ==
    ASSUME SlotInv, AgreeInv, NEW s \in Source,
           Admits(Visit(limiter, s, clock), s, clock), NoteAdmission(s), clock' = clock,
           \/ limiter' = Admitted(Visit(limiter, s, clock), s, clock)
           \/ limiter' = Release(Admitted(Visit(limiter, s, clock), s, clock), s)
    PROVE  AgreeInv' /\ LawfulStep
<1> DEFINE V == Visit(limiter, s, clock)
           A == Admitted(V, s, clock)
           e == AdmittedEntry(ledger[s], clock)
<1>1. clock \in Nat /\ LimiterOK(limiter) /\ ledger \in [Source -> Entry] /\ ledger[s] \in Entry
      /\ AllAgree(limiter, ledger, clock) /\ clock \in Int
  BY DEF SlotInv, AgreeInv
<1>2. /\ V.sources[s].known /\ V.sources[s].blockedUntil <= clock
      /\ Len(V.sources[s].attempts) < AttemptsPerSource
      /\ Len(Within(V.global, Window, clock)) < GlobalAttempts
  BY DEF Admits
<1>3. LimiterOK(V) /\ V.global = limiter.global
  BY <1>1, VisitSlots
<1>4. /\ AllAgree(V, ledger, clock) /\ V.sources[s].attempts = ledger[s].admitted
      /\ V.sources[s].lastSeen = clock
  BY <1>1, <1>2, VisitAgrees
<1>5. /\ limiter' = A \/ limiter' = Release(A, s)
      /\ ledger' = [ledger EXCEPT ![s] = e]
  BY <1>1 DEF NoteAdmission, AdmittedEntry
<1> HIDE DEF V
<1>6. V.sources[s] \in SourceState /\ Agrees(V.sources[s], ledger[s], clock)
      /\ V.global \in Seq(Nat)
  BY <1>3, <1>4 DEF LimiterOK, LimiterState, AllAgree
<1>7. /\ LimiterOK(A) /\ A.sources[s] = AdmittedOne(V.sources[s], clock)
      /\ \A q \in Source \ {s} : A.sources[q] = V.sources[q]
      /\ A.global = Append(Within(V.global, Window, clock), clock)
  BY <1>1, <1>2, <1>3, AdmittedFact
<1>8. /\ AdmittedOne(V.sources[s], clock).known
      /\ Agrees(AdmittedOne(V.sources[s], clock), e, clock)
      /\ e \in Entry /\ e.admitted = Append(ledger[s].admitted, clock)
  BY <1>1, <1>2, <1>4, <1>6, AdmittedOneFact, AdmittedAgrees, AdmittedEntryFact DEF AdmittedEntry
<1> HIDE DEF A, e
<1>9. ledger' \in [Source -> Entry] /\ AllAgree(A, ledger', clock)
  <2>1. Agrees(A.sources[s], e, clock) /\ e \in Entry
    BY <1>7, <1>8
  <2>2. \A q \in Source \ {s} : A.sources[q] = V.sources[q]
    BY <1>7
  <2>3. ledger \in [Source -> Entry] /\ AllAgree(V, ledger, clock)
    BY <1>1, <1>4
  <2>4. /\ [ledger EXCEPT ![s] = e] \in [Source -> Entry]
        /\ AllAgree(A, [ledger EXCEPT ![s] = e], clock)
    BY <2>1, <2>2, <2>3, PutAgrees
  <2>5. QED
    BY <1>5, <2>4
<1>10. AgreeInv' /\ limiter'.global = A.global
  <2>1. CASE limiter' = A
    BY <1>9, <2>1 DEF AgreeInv
  <2>2. CASE limiter' = Release(A, s)
    <3>1. A.sources[s].known
      BY <1>7, <1>8
    <3>2. AllAgree(Release(A, s), ledger', clock)
      BY <1>1, <1>7, <1>9, <3>1, ReleaseAgrees
    <3>3. Release(A, s).global = A.global
      BY <1>7, <3>1, ReleaseFact
    <3>4. QED
      BY <1>9, <2>2, <3>2, <3>3 DEF AgreeInv
  <2>3. QED
    BY <1>5, <2>1, <2>2
<1>11. LawfulStep
  <2>1. \A q \in Source \ {s} : ledger'[q] = ledger[q]
    BY <1>1, <1>5
  <2>2. \A q \in Source : Len(ledger[q].admitted) \in Nat
    BY <1>1 DEF Entry
  <2>3. ledger'[s].admitted = Append(ledger[s].admitted, clock)
    BY <1>1, <1>5, <1>8
  <2>4. Len(Within(ledger'[s].admitted, Window, clock)) <= AttemptsPerSource
    <3> DEFINE kept == Within(Append(ledger[s].admitted, clock), Window, clock)
    <3>1. Append(ledger[s].admitted, clock) \in Seq(Nat)
          /\ Len(Append(ledger[s].admitted, clock)) = Len(ledger[s].admitted) + 1
      BY <1>1 DEF Entry
    <3>2. kept \in Seq(Nat) /\ Len(kept) <= Len(Append(ledger[s].admitted, clock))
      BY <1>1, <3>1, WithinBounds, PolicyFact
    <3>3. AttemptsPerSource \in Nat /\ Len(kept) \in Nat
      BY <3>2, PolicyAssumption
    <3> HIDE DEF kept
    <3>4. Len(kept) <= AttemptsPerSource
      BY <1>2, <1>4, <2>2, <3>1, <3>2, <3>3
    <3>5. QED
      BY <2>3, <3>4 DEF kept
  <2>5. Len(Within(limiter'.global, Window, clock)) <= GlobalAttempts
    <3> DEFINE before == Within(V.global, Window, clock)
               after == Append(before, clock)
               kept == Within(after, Window, clock)
    <3>1. before \in Seq(Nat)
      BY <1>1, <1>6, WithinBounds, PolicyFact
    <3>2. after \in Seq(Nat) /\ Len(after) = Len(before) + 1 /\ Len(before) \in Nat
      BY <1>1, <3>1
    <3> HIDE DEF after
    <3>3. kept \in Seq(Nat) /\ Len(kept) <= Len(after)
      BY <1>1, <3>2, WithinBounds, PolicyFact
    <3>4. GlobalAttempts \in Nat /\ Len(kept) \in Nat
      BY <3>3, PolicyAssumption
    <3>5. Len(before) < GlobalAttempts
      BY <1>2
    <3>6. limiter'.global = after
      BY <1>7, <1>10 DEF after
    <3> HIDE DEF before
    <3>7. QED
      BY <3>2, <3>3, <3>4, <3>5, <3>6
  <2>6. clock >= ledger[s].banned
    <3>1. /\ V.sources[s].blockedUntil \in Nat /\ ledger[s].banned \in Nat
          /\ V.sources[s].blockedUntil > clock \/ ledger[s].banned > clock
             => V.sources[s].blockedUntil = ledger[s].banned
      BY <1>1, <1>2, <1>6 DEF Agrees, SourceState, Entry
    <3>2. QED
      BY <1>1, <1>2, <3>1
  <2>7. QED
    BY <2>1, <2>2, <2>4, <2>5, <2>6 DEF LawfulStep
<1>12. QED
  BY <1>10, <1>11

\* The first result of a gate is noted in both, a later one in neither.
LEMMA SettleStep ==
    ASSUME SlotInv, AgreeInv, NEW r \in Request, NEW ok \in BOOLEAN,
           gates[r].stage = "socket", Settle(r, ok), clock' = clock
    PROVE  AgreeInv' /\ LawfulStep
<1> DEFINE s == gates[r].source
           released == Release(limiter, s)
<1>1. clock \in Nat /\ LimiterOK(limiter) /\ ledger \in [Source -> Entry]
      /\ AllAgree(limiter, ledger, clock)
  BY DEF SlotInv, AgreeInv
<1>2. s \in Source /\ (gates[r].slot <=> ~gates[r].settled)
  BY DEF SlotInv, GateOK
<1>3. CASE gates[r].settled
  <2>1. limiter' = limiter /\ ledger' = ledger
    BY <1>3 DEF Settle
  <2>2. QED
    BY <1>1, <2>1, QuietFact DEF AgreeInv
<1>4. CASE ~gates[r].settled
  <2>1. limiter.sources[s].known
    <3>1. r \in Holding(s)
      BY <1>2, <1>4 DEF Holding
    <3>2. QED
      BY <1>2, <3>1, ActiveFact
  <2>2. /\ limiter' = IF ok THEN RecordSuccess(released, s, clock)
                      ELSE RecordFailure(released, s, clock)
        /\ NoteResult(s, ok)
    BY <1>4 DEF Settle
  <2> HIDE DEF s
  <2>3. /\ LimiterOK(released) /\ released.sources[s].known
        /\ AllAgree(released, ledger, clock)
    <3>1. /\ LimiterOK(released) /\ released.sources[s] = ReleasedOne(limiter.sources[s])
          /\ AllAgree(released, ledger, clock)
      BY <1>1, <1>2, <2>1, ReleaseFact, ReleaseAgrees
    <3>2. limiter.sources[s] \in SourceState
      BY <1>1, <1>2 DEF LimiterOK, LimiterState
    <3>3. ReleasedOne(limiter.sources[s]).known
      BY <2>1, <3>2, ReleasedOneFact
    <3>4. QED
      BY <3>1, <3>3
  <2>4. ledger' = [ledger EXCEPT ![s] = IF ok THEN SucceededEntry(ledger[s])
                                        ELSE FailedEntry(ledger[s], clock)]
    BY <1>1, <1>2, <2>2, NoteResultFact
  <2> HIDE DEF released
  <2>5. ledger' \in [Source -> Entry] /\ AllAgree(limiter', ledger', clock)
    <3>1. CASE ok
      BY <1>1, <1>2, <2>2, <2>3, <2>4, <3>1, SuccessAgrees
    <3>2. CASE ~ok
      BY <1>1, <1>2, <2>2, <2>3, <2>4, <3>2, FailureAgrees
    <3>3. QED
      BY <3>1, <3>2
  <2>6. LawfulStep
    <3> DEFINE entry == IF ok THEN SucceededEntry(ledger[s]) ELSE FailedEntry(ledger[s], clock)
    <3>1. ledger[s] \in Entry /\ clock \in Nat
      BY <1>1, <1>2
    <3>2. entry.admitted = ledger[s].admitted
      BY <3>1, EntryFact
    <3>3. ledger' = [ledger EXCEPT ![s] = entry]
      BY <2>4
    <3> HIDE DEF entry
    <3>4. \A q \in Source : ledger'[q].admitted = ledger[q].admitted
      BY <1>1, <3>2, <3>3
    <3>5. QED
      BY <1>1, <3>4, QuietFact
  <2>7. QED
    BY <2>5, <2>6 DEF AgreeInv
<1>5. QED
  BY <1>3, <1>4

\* The result of a code is noted in both, an error in neither.
LEMMA PairEndsStep ==
    ASSUME SlotInv, AgreeInv, NEW r \in Request, NEW result \in Results,
           PairEnds(r, result)
    PROVE  AgreeInv' /\ LawfulStep
<1> DEFINE s == gates[r].source
           recorded == Recorded(limiter, s, result, clock)
<1>1. clock \in Nat /\ LimiterOK(limiter) /\ ledger \in [Source -> Entry]
      /\ AllAgree(limiter, ledger, clock)
  BY DEF SlotInv, AgreeInv
<1>2. /\ clock' = clock /\ gates[r].stage = "pairing" /\ limiter' = Release(recorded, s)
      /\ IF result = "other" THEN UNCHANGED ledger ELSE NoteResult(s, result = "paired")
  BY DEF PairEnds, Recorded
<1>3. s \in Source /\ gates[r].slot
  BY <1>2, NextGateFact DEF GateOK
<1>4. limiter.sources[s].known
  <2>1. r \in Holding(s)
    BY <1>3 DEF Holding
  <2>2. QED
    BY <1>3, <2>1, ActiveFact
<1> HIDE DEF s
<1>5. LimiterOK(recorded) /\ recorded.sources[s].known
  BY <1>1, <1>3, <1>4, RecordedSlots
<1>6. ASSUME result # "other"
      PROVE  ledger' = [ledger EXCEPT ![s] = IF result = "paired" THEN SucceededEntry(ledger[s])
                                             ELSE FailedEntry(ledger[s], clock)]
  <2> DEFINE ok == result = "paired"
  <2>1. NoteResult(s, ok)
    BY <1>2, <1>6
  <2>2. ok \in BOOLEAN
    OBVIOUS
  <2> HIDE DEF ok
  <2>3. ledger' = [ledger EXCEPT ![s] = IF ok THEN SucceededEntry(ledger[s])
                                        ELSE FailedEntry(ledger[s], clock)]
    BY <1>1, <1>3, <2>1, <2>2, NoteResultFact
  <2>4. QED
    BY <2>3 DEF ok
<1>7. /\ ledger' \in [Source -> Entry] /\ AllAgree(recorded, ledger', clock)
      /\ \A q \in Source : ledger'[q].admitted = ledger[q].admitted
  <2>1. CASE result = "other"
    BY <1>1, <1>2, <2>1 DEF Recorded
  <2>2. CASE result = "paired"
    <3>1. ledger' = [ledger EXCEPT ![s] = SucceededEntry(ledger[s])]
      BY <1>6, <2>2
    <3>2. recorded = RecordSuccess(limiter, s, clock)
      BY <2>2 DEF Recorded
    <3> HIDE DEF recorded
    <3>3. ledger' \in [Source -> Entry] /\ AllAgree(recorded, ledger', clock)
      <4>1. /\ [ledger EXCEPT ![s] = SucceededEntry(ledger[s])] \in [Source -> Entry]
            /\ AllAgree(RecordSuccess(limiter, s, clock),
                        [ledger EXCEPT ![s] = SucceededEntry(ledger[s])], clock)
        BY <1>1, <1>3, <1>4, SuccessAgrees
      <4>2. QED
        BY <3>1, <3>2, <4>1
    <3>4. \A q \in Source : ledger'[q].admitted = ledger[q].admitted
      <4> DEFINE e == SucceededEntry(ledger[s])
      <4>1. e.admitted = ledger[s].admitted
        <5>1. ledger[s] \in Entry
          BY <1>1, <1>3
        <5>2. QED
          BY <1>1, <5>1, EntryFact
      <4> HIDE DEF e
      <4>2. QED
        BY <1>1, <1>3, <3>1, <4>1 DEF e
    <3>5. QED
      BY <3>3, <3>4
  <2>3. CASE result = "wrong code"
    <3>1. ledger' = [ledger EXCEPT ![s] = FailedEntry(ledger[s], clock)]
      BY <1>6, <2>3
    <3>2. recorded = RecordFailure(limiter, s, clock)
      BY <2>3 DEF Recorded
    <3> HIDE DEF recorded
    <3>3. ledger' \in [Source -> Entry] /\ AllAgree(recorded, ledger', clock)
      <4>1. /\ [ledger EXCEPT ![s] = FailedEntry(ledger[s], clock)] \in [Source -> Entry]
            /\ AllAgree(RecordFailure(limiter, s, clock),
                        [ledger EXCEPT ![s] = FailedEntry(ledger[s], clock)], clock)
        <5> DEFINE L == limiter
                   l == ledger
        <5>1. /\ LimiterOK(L) /\ L.sources[s].known /\ l \in [Source -> Entry]
              /\ AllAgree(L, l, clock) /\ clock \in Nat /\ s \in Source
          BY <1>1, <1>3, <1>4
        <5> HIDE DEF L, l
        <5>2. /\ [l EXCEPT ![s] = FailedEntry(l[s], clock)] \in [Source -> Entry]
              /\ AllAgree(RecordFailure(L, s, clock),
                          [l EXCEPT ![s] = FailedEntry(l[s], clock)], clock)
          BY <5>1, FailureAgrees
        <5>3. QED
          BY <5>2 DEF L, l
      <4>2. QED
        BY <3>1, <3>2, <4>1
    <3>4. \A q \in Source : ledger'[q].admitted = ledger[q].admitted
      <4> DEFINE e == FailedEntry(ledger[s], clock)
      <4>1. e.admitted = ledger[s].admitted
        <5>1. ledger[s] \in Entry
          BY <1>1, <1>3
        <5>2. QED
          BY <1>1, <5>1, EntryFact
      <4> HIDE DEF e
      <4>2. QED
        BY <1>1, <1>3, <3>1, <4>1 DEF e
    <3>5. QED
      BY <3>3, <3>4
  <2>4. QED
    BY <2>1, <2>2, <2>3 DEF Results
<1> HIDE DEF recorded
<1>8. AllAgree(limiter', ledger', clock)
  BY <1>1, <1>2, <1>3, <1>5, <1>7, ReleaseAgrees
<1>9. QED
  BY <1>1, <1>2, <1>7, <1>8, QuietFact DEF AgreeInv

\* The clock.
LEMMA TickStep == ASSUME SlotInv, AgreeInv, Tick PROVE AgreeInv' /\ LawfulStep
<1>1. clock \in Nat /\ LimiterOK(limiter) /\ ledger \in [Source -> Entry]
      /\ AllAgree(limiter, ledger, clock)
  BY DEF SlotInv, AgreeInv
<1>2. /\ clock' = clock + 1 /\ limiter' = limiter
      /\ ledger' = [s \in Source |-> TickedEntry(ledger[s], clock + 1)]
  BY Zenon DEF Tick, TickedEntry
<1>3. ASSUME NEW s \in Source
      PROVE  /\ ledger'[s] \in Entry
             /\ ledger'[s].admitted = Within(ledger[s].admitted, Window, clock + 1)
             /\ Agrees(limiter'.sources[s], ledger'[s], clock + 1)
  <2>1. /\ limiter.sources[s] \in SourceState /\ ledger[s] \in Entry
        /\ Agrees(limiter.sources[s], ledger[s], clock)
    BY <1>1 DEF LimiterOK, LimiterState, AllAgree
  <2>2. ledger'[s] = TickedEntry(ledger[s], clock + 1)
    BY <1>2
  <2>3. QED
    BY <1>1, <1>2, <2>1, <2>2, TickAgrees
<1>4. AgreeInv'
  <2>1. ledger' \in [Source -> Entry]
    BY <1>2, <1>3
  <2>2. QED
    BY <1>2, <1>3, <2>1 DEF AgreeInv, AllAgree
<1>5. ASSUME NEW s \in Source PROVE ~(Len(ledger'[s].admitted) > Len(ledger[s].admitted))
  <2> DEFINE kept == Within(ledger[s].admitted, Window, clock + 1)
  <2>1. ledger[s].admitted \in Seq(Nat)
    BY <1>1 DEF Entry
  <2>2. kept \in Seq(Nat) /\ Len(kept) <= Len(ledger[s].admitted)
    BY <1>1, <2>1, WithinBounds, PolicyFact
  <2> HIDE DEF kept
  <2>3. Len(kept) \in Nat /\ Len(ledger[s].admitted) \in Nat
    BY <2>1, <2>2
  <2>4. QED
    BY <1>3, <2>2, <2>3 DEF kept
<1>6. QED
  BY <1>4, <1>5 DEF LawfulStep

\* An empty table agrees with an empty history.
LEMMA AgreeInit == Init => AgreeInv
<1> SUFFICES ASSUME Init PROVE AgreeInv
  OBVIOUS
<1> DEFINE E == <<>>
<1>1. E \in Seq(Nat) /\ NewEntry = [admitted |-> E, failed |-> E, banned |-> 0]
  BY DEF NewEntry
<1> HIDE DEF E
<1>2. NewEntry \in Entry /\ NewEntry.admitted = E /\ NewEntry.failed = E /\ NewEntry.banned = 0
  BY <1>1 DEF Entry
<1>3. clock = 0 /\ \A s \in Source : ledger[s] = NewEntry /\ limiter.sources[s] = Unknown
  BY DEF Init, NewLimiter
<1>4. Agrees(Unknown, NewEntry, 0)
  BY <1>2, UnknownFact DEF Agrees, E
<1>5. ledger \in [Source -> Entry]
  BY <1>2 DEF Init
<1>6. QED
  BY <1>3, <1>4, <1>5 DEF AgreeInv, AllAgree

\* Every step keeps the table right and admits by the rules.
LEMMA AgreeStep ==
    ASSUME SlotInv, AgreeInv, [Next]_vars
    PROVE  AgreeInv' /\ LawfulStep
<1>1. clock \in Nat /\ LimiterOK(limiter) /\ ledger \in [Source -> Entry]
      /\ AllAgree(limiter, ledger, clock)
  BY DEF SlotInv, AgreeInv
<1>2. ASSUME clock' = clock, ledger' = ledger, AllAgree(limiter', ledger, clock)
      PROVE  AgreeInv' /\ LawfulStep
  BY <1>1, <1>2, QuietFact DEF AgreeInv
<1>3. CASE Tick
  BY <1>3, TickStep
<1>4. ASSUME NEW r \in Request, NEW s \in Source, UpgradeArrives(r, s)
      PROVE  AgreeInv' /\ LawfulStep
  <2>1. clock' = clock /\ ledger' = ledger /\ limiter' = limiter
    BY <1>4 DEF UpgradeArrives
  <2>2. QED
    BY <1>1, <1>2, <2>1
<1>5. ASSUME NEW r \in Request, NEW s \in Source, PairArrives(r, s)
      PROVE  AgreeInv' /\ LawfulStep
  <2>1. CASE Admits(Visit(limiter, s, clock), s, clock)
    <3>1. /\ NoteAdmission(s) /\ clock' = clock
          /\ limiter' = Admitted(Visit(limiter, s, clock), s, clock)
      BY <1>5, <2>1 DEF PairArrives
    <3>2. QED
      BY <2>1, <3>1, AdmissionStep
  <2>2. CASE ~Admits(Visit(limiter, s, clock), s, clock)
    <3>1. clock' = clock /\ ledger' = ledger /\ limiter' = Visit(limiter, s, clock)
      BY <1>5, <2>2 DEF PairArrives
    <3>2. AllAgree(Visit(limiter, s, clock), ledger, clock)
      BY <1>1, VisitAgrees
    <3>3. QED
      BY <1>2, <3>1, <3>2
  <2>3. QED
    BY <2>1, <2>2
<1>6. ASSUME NEW r \in Request, UpgradeOpens(r) \/ UpgradeVanishes(r) \/ UpgradeRefused(r)
      PROVE  AgreeInv' /\ LawfulStep
  <2> DEFINE s == gates[r].source
  <2>1. gates[r].stage = "upgrading" /\ clock' = clock
    BY <1>6 DEF UpgradeOpens, UpgradeVanishes, UpgradeRefused
  <2>2. s \in Source
    BY <2>1, NextGateFact DEF GateOK
  <2>3. CASE UpgradeOpens(r) \/ UpgradeVanishes(r)
    <3>1. /\ Admits(Visit(limiter, s, clock), s, clock) /\ NoteAdmission(s)
          /\ \/ limiter' = Admitted(Visit(limiter, s, clock), s, clock)
             \/ limiter' = Release(Admitted(Visit(limiter, s, clock), s, clock), s)
      BY <2>3 DEF UpgradeOpens, UpgradeVanishes
    <3> HIDE DEF s
    <3>2. QED
      BY <2>1, <2>2, <3>1, AdmissionStep
  <2>4. CASE UpgradeRefused(r)
    <3>1. limiter' = Visit(limiter, s, clock) /\ ledger' = ledger
      BY <2>4 DEF UpgradeRefused
    <3> HIDE DEF s
    <3>2. AllAgree(Visit(limiter, s, clock), ledger, clock)
      BY <1>1, <2>2, VisitAgrees
    <3>3. QED
      BY <1>2, <2>1, <3>1, <3>2
  <2>5. QED
    BY <1>6, <2>3, <2>4
<1>7. ASSUME NEW r \in Request,
             ProveValid(r) \/ ProveInvalid(r) \/ HelloExpires(r) \/ SocketCloses(r)
      PROVE  AgreeInv' /\ LawfulStep
  <2>1. PICK ok \in BOOLEAN : gates[r].stage = "socket" /\ Settle(r, ok) /\ clock' = clock
    BY <1>7 DEF ProveValid, ProveInvalid, HelloExpires, SocketCloses
  <2>2. QED
    BY <2>1, SettleStep
<1>8. ASSUME NEW r \in Request, BadFrame(r) \/ SweepStale(r)
      PROVE  AgreeInv' /\ LawfulStep
  <2>1. clock' = clock /\ ledger' = ledger /\ limiter' = limiter
    BY <1>8 DEF BadFrame, SweepStale
  <2>2. QED
    BY <1>1, <1>2, <2>1
<1>9. ASSUME NEW r \in Request, NEW result \in Results, PairEnds(r, result)
      PROVE  AgreeInv' /\ LawfulStep
  BY <1>9, PairEndsStep
<1>10. CASE UNCHANGED vars
  BY <1>1, <1>2, <1>10 DEF vars
<1>11. QED
  BY <1>3, <1>4, <1>5, <1>6, <1>7, <1>8, <1>9, <1>10 DEF Next, Results

\* A source gets in only by the rules, also when the bounded table forgot it in between:
\* no more often within a window than the policy allows, and not before the block of one
\* that failed too often is over.
THEOREM SourcesAreAdmittedByTheRules == Spec => AdmittedByTheRules
<1>1. SlotInv /\ AgreeInv /\ [Next]_vars => AgreeInv' /\ [LawfulStep]_vars
  BY AgreeStep
<1>2. QED
  BY <1>1, SlotInit, SlotStep, AgreeInit, PTL DEF Spec, AdmittedByTheRules, LawfulStep

\* The limiter refuses for a reason only: it locks nobody out who has a free place, a rate
\* to spare and no block, however its bounded table came and went.
THEOREM SourcesAreRefusedForAReason == Spec => []RefusedForAReason
<1>1. SlotInv /\ AgreeInv => RefusedForAReason
  <2> SUFFICES ASSUME SlotInv, AgreeInv, NEW s \in Source,
                      Visit(limiter, s, clock).sources[s].known,
                      clock >= ledger[s].banned,
                      Cardinality(Holding(s)) < MaxUnauthenticated,
                      Len(Within(ledger[s].admitted, Window, clock)) < AttemptsPerSource,
                      Len(Within(limiter.global, Window, clock)) < GlobalAttempts
               PROVE  Admits(Visit(limiter, s, clock), s, clock)
    BY DEF RefusedForAReason
  <2> DEFINE V == Visit(limiter, s, clock)
  <2>1. clock \in Nat /\ LimiterOK(limiter) /\ ledger \in [Source -> Entry]
        /\ AllAgree(limiter, ledger, clock) /\ ledger[s].banned \in Nat
    BY DEF SlotInv, AgreeInv, Entry
  <2>2. LimiterOK(V) /\ V.global = limiter.global
        /\ V.sources[s].active = limiter.sources[s].active
    BY <2>1, VisitSlots
  <2>3. AllAgree(V, ledger, clock) /\ V.sources[s].attempts = ledger[s].admitted
    BY <2>1, VisitAgrees
  <2>4. limiter.sources[s].active = Cardinality(Holding(s))
    BY DEF SlotInv, SlotsConserved
  <2>5. V.sources[s].known
    OBVIOUS
  <2> HIDE DEF V
  <2>6. V.sources[s] \in SourceState /\ Agrees(V.sources[s], ledger[s], clock)
    BY <2>2, <2>3 DEF LimiterOK, LimiterState, AllAgree
  <2>7. V.sources[s].blockedUntil <= clock
    <3>1. /\ V.sources[s].blockedUntil \in Nat
          /\ V.sources[s].blockedUntil > clock \/ ledger[s].banned > clock
             => V.sources[s].blockedUntil = ledger[s].banned
      BY <2>5, <2>6 DEF Agrees, SourceState
    <3>2. QED
      BY <2>1, <3>1
  <2>8. Within(ledger[s].admitted, Window, clock) = V.sources[s].attempts
    BY <2>3, <2>5, <2>6 DEF Agrees
  <2>9. QED
    BY <2>2, <2>4, <2>5, <2>7, <2>8 DEF Admits, V
<1>2. SlotInv /\ AgreeInv /\ [Next]_vars => AgreeInv'
  BY AgreeStep
<1>3. QED
  BY <1>1, <1>2, SlotInit, SlotStep, AgreeInit, PTL DEF Spec

-----------------------------------------------------------------------------
(* No source holds more places than the policy gives it.                   *)

Bounded == \A s \in Source : Cardinality(Holding(s)) <= MaxUnauthenticated

\* A step that gives no source a place.
LEMMA NoPlaceFact ==
    ASSUME SlotInv, SlotInv', Bounded, NEW r \in Request, NEW g \in Gate, ~g.slot \/ g = gates[r],
           gates' = [gates EXCEPT ![r] = g]
    PROVE  Bounded'
<1> SUFFICES ASSUME NEW s \in Source
             PROVE  Cardinality(Holding(s)') <= MaxUnauthenticated
  BY DEF Bounded
<1>1. Holding(s)' \subseteq Holding(s)
  BY DEF Holding, SlotInv
<1>2. IsFiniteSet(Holding(s))
  BY ActiveFact
<1>3. /\ Cardinality(Holding(s)') <= Cardinality(Holding(s))
      /\ Cardinality(Holding(s)') \in Nat /\ Cardinality(Holding(s)) \in Nat
  <2> DEFINE held == Holding(s)
             now == Holding(s)'
  <2> HIDE DEF held, now
  <2>1. now \subseteq held /\ IsFiniteSet(held)
    BY <1>1, <1>2 DEF held, now
  <2>2. IsFiniteSet(now) /\ Cardinality(now) <= Cardinality(held)
    BY <2>1, FS_Subset
  <2>3. Cardinality(now) \in Nat /\ Cardinality(held) \in Nat
    BY <2>1, <2>2, FS_CardinalityType
  <2>4. QED
    BY <2>2, <2>3 DEF held, now
<1>4. Cardinality(Holding(s)) <= MaxUnauthenticated /\ MaxUnauthenticated \in Nat
  BY PolicyAssumption DEF Bounded
<1>5. QED
  BY <1>3, <1>4

\* A step that gives s a place, where the limiter admits it.
LEMMA PlaceFact ==
    ASSUME SlotInv, SlotInv', Bounded, NEW r \in Request, NEW s \in Source,
           NEW g \in Gate, g.source = s, gates' = [gates EXCEPT ![r] = g],
           Admits(Visit(limiter, s, clock), s, clock)
    PROVE  Bounded'
<1> SUFFICES ASSUME NEW q \in Source
             PROVE  Cardinality(Holding(q)') <= MaxUnauthenticated
  BY DEF Bounded
<1> DEFINE held == Holding(q)
           now == Holding(q)'
<1>1. now \subseteq held \/ (q = s /\ now \subseteq held \cup {r})
  BY DEF Holding, SlotInv
<1>2. IsFiniteSet(held) /\ limiter.sources[q].active = Cardinality(held)
  BY ActiveFact
<1>3. q = s => Cardinality(held) < MaxUnauthenticated
  <2>1. Visit(limiter, s, clock).sources[s].active = limiter.sources[s].active
    BY VisitSlots DEF SlotInv
  <2>2. Visit(limiter, s, clock).sources[s].active < MaxUnauthenticated
    BY DEF Admits
  <2>3. QED
    BY <1>2, <2>1, <2>2
<1>4. Cardinality(held) <= MaxUnauthenticated /\ MaxUnauthenticated \in Nat
  BY PolicyAssumption DEF Bounded
<1> HIDE DEF held, now
<1>5. Cardinality(held) \in Nat
  BY <1>2, FS_CardinalityType
<1>6. CASE now \subseteq held
  <2>1. IsFiniteSet(now) /\ Cardinality(now) <= Cardinality(held)
    BY <1>2, <1>6, FS_Subset
  <2>2. Cardinality(now) \in Nat
    BY <2>1, FS_CardinalityType
  <2>3. Cardinality(now) <= MaxUnauthenticated
    BY <1>4, <1>5, <2>1, <2>2
  <2>4. QED
    BY <2>3 DEF now
<1>7. CASE q = s /\ now \subseteq held \cup {r}
  <2>1. /\ IsFiniteSet(held \cup {r})
        /\ Cardinality(held \cup {r}) <= Cardinality(held) + 1
    <3>1. /\ IsFiniteSet(held \cup {r})
          /\ Cardinality(held \cup {r}) = IF r \in held THEN Cardinality(held)
                                         ELSE Cardinality(held) + 1
      BY <1>2, FS_AddElement
    <3>2. QED
      BY <1>5, <3>1
  <2>2. IsFiniteSet(now) /\ Cardinality(now) <= Cardinality(held \cup {r})
    BY <1>7, <2>1, FS_Subset
  <2>3. Cardinality(now) \in Nat /\ Cardinality(held \cup {r}) \in Nat
    BY <2>1, <2>2, FS_CardinalityType
  <2>4. QED
    BY <1>3, <1>4, <1>5, <1>7, <2>1, <2>2, <2>3 DEF now
<1>8. QED
  BY <1>1, <1>6, <1>7

\* Only what the limiter admits takes a place.
LEMMA BoundedStep == ASSUME SlotInv, Bounded, [Next]_vars PROVE Bounded'
<1>1. SlotInv'
  BY SlotStep
<1>2. ASSUME gates' = gates PROVE Bounded'
  BY <1>2 DEF Bounded, Holding
<1>3. CASE Tick \/ UNCHANGED vars
  BY <1>2, <1>3, Zenon DEF Tick, vars
<1>4. ASSUME NEW r \in Request, NEW g \in Gate, ~g.slot \/ g = gates[r],
             gates' = [gates EXCEPT ![r] = g]
      PROVE  Bounded'
  BY <1>1, <1>4, NoPlaceFact
<1>5. ASSUME NEW r \in Request, NEW s \in Source, UpgradeArrives(r, s)
      PROVE  Bounded'
  <2> DEFINE g == [Idle EXCEPT !.stage = "upgrading", !.source = s]
  <2>1. gates' = [gates EXCEPT ![r] = g]
    BY <1>5 DEF UpgradeArrives
  <2>2. g \in Gate /\ ~g.slot
    BY DEF Idle, Gate, Stage
  <2> HIDE DEF g
  <2>3. QED
    BY <1>4, <2>1, <2>2
<1>6. ASSUME NEW r \in Request, NEW s \in Source, PairArrives(r, s)
      PROVE  Bounded'
  <2> DEFINE g == [Idle EXCEPT !.stage = "pairing", !.source = s, !.slot = TRUE]
  <2>1. CASE Admits(Visit(limiter, s, clock), s, clock)
    <3>1. gates' = [gates EXCEPT ![r] = g]
      BY <1>6, <2>1 DEF PairArrives
    <3>2. g \in Gate /\ g.source = s
      BY DEF Idle, Gate, Stage
    <3> HIDE DEF g
    <3>3. QED
      BY <1>1, <2>1, <3>1, <3>2, PlaceFact
  <2>2. CASE ~Admits(Visit(limiter, s, clock), s, clock)
    BY <1>2, <1>6, <2>2 DEF PairArrives
  <2>3. QED
    BY <2>1, <2>2
<1>7. ASSUME NEW r \in Request, UpgradeOpens(r)
      PROVE  Bounded'
  <2> DEFINE s == gates[r].source
             g == [gates[r] EXCEPT !.stage = "socket", !.since = clock, !.slot = TRUE,
                                   !.listed = TRUE]
  <2>1. /\ gates[r].stage = "upgrading" /\ gates' = [gates EXCEPT ![r] = g]
        /\ Admits(Visit(limiter, s, clock), s, clock)
    BY <1>7 DEF UpgradeOpens
  <2>2. gates[r] \in Gate /\ s \in Source /\ clock \in Nat
    BY <2>1, NextGateFact DEF GateOK
  <2>3. g \in Gate /\ g.source = s
    BY <2>2 DEF Gate, Stage
  <2> HIDE DEF g, s
  <2>4. QED
    BY <1>1, <2>1, <2>2, <2>3, PlaceFact
<1>8. ASSUME NEW r \in Request,
             \/ UpgradeVanishes(r) \/ UpgradeRefused(r) \/ SocketCloses(r)
             \/ \E result \in Results : PairEnds(r, result)
      PROVE  Bounded'
  <2>1. gates' = [gates EXCEPT ![r] = Idle]
    BY <1>8 DEF UpgradeVanishes, UpgradeRefused, SocketCloses, PairEnds
  <2>2. QED
    BY <1>4, <2>1, IdleFact
<1>9. ASSUME NEW r \in Request, ProveValid(r) \/ ProveInvalid(r) \/ HelloExpires(r)
      PROVE  Bounded'
  <2> DEFINE valid == [Settled(r) EXCEPT !.authenticated = TRUE]
             invalid == [Settled(r) EXCEPT !.closing = TRUE]
  <2>1. gates' = [gates EXCEPT ![r] = valid] \/ gates' = [gates EXCEPT ![r] = invalid]
    BY <1>9 DEF ProveValid, ProveInvalid, HelloExpires
  <2>2. gates[r] \in Gate
    BY NextGateFact
  <2>3. /\ valid \in Gate /\ ~valid.slot
        /\ invalid \in Gate /\ ~invalid.slot
    BY <2>2 DEF Settled, Gate
  <2> HIDE DEF valid, invalid
  <2>4. QED
    BY <1>4, <2>1, <2>3
<1>10. ASSUME NEW r \in Request, BadFrame(r) \/ SweepStale(r)
      PROVE  Bounded'
  <2>1. /\ gates \in [Request -> Gate] /\ gates' \in [Request -> Gate]
        /\ \A q \in Request : gates'[q].slot = gates[q].slot /\ gates'[q].source = gates[q].source
    BY <1>1, <1>10 DEF BadFrame, SweepStale, SlotInv, Gate
  <2>2. \A s \in Source : Holding(s)' = Holding(s)
    BY <2>1 DEF Holding
  <2>3. QED
    BY <2>2 DEF Bounded
<1>11. QED
  BY <1>3, <1>5, <1>6, <1>7, <1>8, <1>9, <1>10 DEF Next, Results

\* The limiter and the gates keep their types, and no source ever holds more places than
\* maxUnauthenticatedPerSource.
THEOREM GateTypeCorrect == Spec => []TypeOK
<1>1. Init => Bounded
  <2> SUFFICES ASSUME Init, NEW s \in Source PROVE Cardinality(Holding(s)) <= MaxUnauthenticated
    BY DEF Bounded
  <2>1. Holding(s) = {}
    BY IdleFact DEF Holding, Init
  <2>2. QED
    BY <2>1, FS_EmptySet, PolicyAssumption
<1>2. SlotInv /\ Bounded => TypeOK
  <2> SUFFICES ASSUME SlotInv, Bounded PROVE TypeOK
    OBVIOUS
  <2>1. clock \in Nat /\ limiter.global \in Seq(Nat)
    BY DEF SlotInv, LimiterOK, LimiterState
  <2>2. ASSUME NEW s \in Source
        PROVE  /\ limiter.sources[s] \in SourceState
               /\ limiter.sources[s].active \in 0..MaxUnauthenticated
    <3>1. limiter.sources[s] \in SourceState /\ limiter.sources[s].active = Cardinality(Holding(s))
      BY ActiveFact
    <3>2. limiter.sources[s].active \in Nat /\ limiter.sources[s].active <= MaxUnauthenticated
      BY <3>1 DEF SourceState, Bounded
    <3>3. QED
      BY <3>1, <3>2, PolicyAssumption
  <2>3. ASSUME NEW r \in Request
        PROVE  /\ gates[r].stage \in Stage
               /\ gates[r] # Idle => gates[r].source \in Source
               /\ {gates[r].slot, gates[r].settled, gates[r].closing, gates[r].listed,
                   gates[r].authenticated} \subseteq BOOLEAN
    BY DEF SlotInv, GateOK, Gate
  <2>4. QED
    BY <2>1, <2>2, <2>3 DEF TypeOK, SourceState
<1>3. SlotInv /\ Bounded /\ [Next]_vars => Bounded'
  BY BoundedStep
<1>4. QED
  BY <1>1, <1>2, <1>3, SlotInit, SlotStep, PTL DEF Spec

-----------------------------------------------------------------------------
(* What an open socket may do: DeviceAccess.                               *)

\* index.ts lists every socket that was not closed: those a change can drop.
OpenIsListed == \A s \in Socket : sockets[s].state = "open" => sockets[s].listed

\* A socket copied its device from the registry, which never forgets one: a device
\* that pairs for the first time has no socket yet.
DeviceIsKnown ==
    \A s \in Socket :
        sockets[s].device # NoDevice => registry[sockets[s].device].status # "absent"

\* "device" and "scopes" were copied together, and nobody but Prove copies them: the
\* copies of a device that was neither unbound nor paired again are the registry's.
AccessInv == AccessTypeOK /\ OpenIsListed /\ DeviceIsKnown /\ AuthorityIsCurrent

-----------------------------------------------------------------------------
LEMMA NoSocketFact ==
    /\ NoSocket.state = "none" /\ NoSocket.device = NoDevice
    /\ NoSocket.scopes = {} /\ NoSocket.silent = FALSE /\ NoSocket.listed = FALSE
BY DEF NoSocket

\* The sockets a change of d leaves: none that was listed has d.
LEMMA TerminatedFact ==
    ASSUME AccessTypeOK, NEW d \in Device, NEW s \in Socket
    PROVE  /\ \/ Terminated(d)[s] = NoSocket
              \/ Terminated(d)[s] = sockets[s] /\ ~(sockets[s].listed /\ sockets[s].device = d)
           /\ DOMAIN Terminated(d) = Socket
BY DEF Terminated

Record == [status : {"absent", "active", "revoked"}, scopes : SUBSET Scope]
View == [state : {"none", "open", "closing"}, device : Device \cup {NoDevice},
         scopes : SUBSET Scope, silent : BOOLEAN, listed : BOOLEAN]

LEMMA AccessTypeFact ==
    AccessTypeOK <=> /\ registry \in [Device -> Record]
               /\ sockets \in [Socket -> View]
               /\ unbound \subseteq Device /\ repaired \subseteq Device
               /\ \A s \in Socket : sockets[s].state = "none" => sockets[s] = NoSocket
BY DEF AccessTypeOK, Record, View

LEMMA NoSocketType == NoSocket \in View
BY DEF NoSocket, View

\* A change of the registry with the sockets of the device dropped keeps the types.
LEMMA TerminatedType ==
    ASSUME AccessTypeOK, NEW d \in Device
    PROVE  /\ Terminated(d) \in [Socket -> View]
           /\ \A s \in Socket : Terminated(d)[s].state = "none" => Terminated(d)[s] = NoSocket
BY AccessTypeFact, NoSocketType, NoSocketFact DEF Terminated

LEMMA AccessTypeInit == AccessInit => AccessTypeOK
<1> SUFFICES ASSUME AccessInit PROVE AccessTypeOK
  OBVIOUS
<1>1. Absent \in Record
  BY DEF Absent, Record
<1>2. QED
  BY <1>1, NoSocketType, AccessTypeFact DEF AccessInit

LEMMA AccessTypeStep == AccessTypeOK /\ [AccessNext]_accessVars => AccessTypeOK'
<1> SUFFICES ASSUME AccessTypeOK, [AccessNext]_accessVars PROVE AccessTypeOK'
  OBVIOUS
<1> USE AccessTypeFact
<1>1. ASSUME NEW d \in Device, NEW scopes \in SUBSET Scope, Pair(d, scopes)
      PROVE  AccessTypeOK'
  <2>1. [status |-> "active", scopes |-> scopes] \in Record
    BY DEF Record
  <2>2. registry' \in [Device -> Record]
    BY <1>1, <2>1 DEF Pair
  <2>3. QED
    BY <1>1, <2>2 DEF Pair, AccessTypeOK, Record
<1>2. ASSUME NEW d \in Device, NEW scopes \in SUBSET Scope, SetScopes(d, scopes)
      PROVE  AccessTypeOK'
  <2>1. registry' \in [Device -> Record]
    BY <1>2 DEF SetScopes, Record
  <2>2. QED
    BY <1>2, <2>1, TerminatedType DEF SetScopes, AccessTypeOK, Record, View
<1>3. ASSUME NEW d \in Device, RevokeDevice(d)
      PROVE  AccessTypeOK'
  <2>1. registry' \in [Device -> Record]
    BY <1>3 DEF RevokeDevice, Record
  <2>2. QED
    BY <1>3, <2>1, TerminatedType DEF RevokeDevice, AccessTypeOK, Record, View
<1>4. ASSUME NEW d \in Device, NEW s \in Socket, Prove(s, d)
      PROVE  AccessTypeOK'
  <2>1. registry[d].scopes \in SUBSET Scope
    BY DEF Record
  <2>2. sockets' \in [Socket -> View]
    <3>1. [sockets[s] EXCEPT !.device = d, !.scopes = registry[d].scopes] \in View
      BY <2>1 DEF View
    <3>2. sockets' = [sockets EXCEPT ![s] =
                        [sockets[s] EXCEPT !.device = d, !.scopes = registry[d].scopes]]
      BY <1>4 DEF Prove
    <3>3. QED
      BY <3>1, <3>2
  <2>3. QED
    BY <1>4, <2>2 DEF Prove, MayProve, AccessTypeOK, Record, View, history
<1>5. ASSUME NEW s \in Socket, Unbind(s)
      PROVE  AccessTypeOK'
  <2>1. sockets[s].device \in Device /\ sockets[s].state # "none"
    BY <1>5, NoSocketFact DEF Unbind, View
  <2>2. registry' \in [Device -> Record]
    BY <1>5, <2>1 DEF Unbind, Record
  <2>3. sockets' \in [Socket -> View]
    BY <1>5, <2>1 DEF Unbind, View
  <2>4. \A t \in Socket : sockets'[t].state = "none" => sockets'[t] = NoSocket
    BY <1>5, <2>1 DEF Unbind, View
  <2>5. unbound' \subseteq Device /\ repaired' \subseteq Device
    BY <1>5, <2>1 DEF Unbind
  <2>6. QED
    BY <2>2, <2>3, <2>4, <2>5 DEF AccessTypeOK, Record, View
<1>6. ASSUME NEW s \in Socket, Opens(s)
      PROVE  AccessTypeOK'
  BY <1>6, NoSocketFact DEF Opens, AccessTypeOK, history
<1>7. ASSUME NEW s \in Socket, Forgets(s) \/ Closes(s)
      PROVE  AccessTypeOK'
  BY <1>7, NoSocketFact DEF Forgets, Closes, AccessTypeOK, history
<1>8. ASSUME NEW s \in Socket, Closed(s)
      PROVE  AccessTypeOK'
  BY <1>8, NoSocketType DEF Closed, AccessTypeOK, history, View
<1>9. CASE UNCHANGED accessVars
  BY <1>9 DEF accessVars, history, AccessTypeOK
<1>10. QED
  BY <1>1, <1>2, <1>3, <1>4, <1>5, <1>6, <1>7, <1>8, <1>9 DEF AccessNext

\* Every reachable state of registry and sockets has its types, and a socket that is
\* gone keeps nothing of the device it had.
THEOREM AccessTypeCorrect == AccessSpec => []AccessTypeOK
<1>1. AccessInit => AccessTypeOK
  BY AccessTypeInit
<1>2. AccessTypeOK /\ [AccessNext]_accessVars => AccessTypeOK'
  BY AccessTypeStep
<1>3. QED
  BY <1>1, <1>2, PTL DEF AccessSpec

-----------------------------------------------------------------------------
(* The authority of open sockets.                                          *)

\* The part of the invariant that one socket needs.
Authorized(s) ==
    HasAuthority(s) /\ sockets[s].state = "open"
        /\ sockets[s].device \notin unbound \cup repaired => IsCurrent(s)

LEMMA AccessSafeInit == AccessInit => AccessInv
<1> SUFFICES ASSUME AccessInit PROVE AccessInv
  OBVIOUS
<1>1. AccessTypeOK
  BY AccessTypeInit
<1>2. \A s \in Socket : sockets[s] = NoSocket
  BY DEF AccessInit
<1>3. QED
  BY <1>1, <1>2, NoSocketFact DEF AccessInv, OpenIsListed, DeviceIsKnown, AuthorityIsCurrent,
     HasAuthority

\* A step that leaves a socket as it is, and the record of its device too, or makes the
\* device an exception, keeps what the socket needs.
LEMMA SameSocket ==
    ASSUME AccessInv, AccessTypeOK', NEW s \in Socket, sockets'[s] = sockets[s],
           \/ /\ registry'[sockets[s].device] = registry[sockets[s].device]
              /\ sockets[s].device \in unbound \cup repaired
                    => sockets[s].device \in (unbound \cup repaired)'
           \/ sockets[s].device \in (unbound \cup repaired)'
    PROVE  Authorized(s)'
BY DEF AccessInv, AuthorityIsCurrent, Authorized, HasAuthority, IsCurrent

\* A socket that is gone, is closing or has no device needs nothing.
LEMMA NoAuthority ==
    ASSUME NEW s \in Socket,
           sockets'[s].state # "open" \/ sockets'[s].device = NoDevice
    PROVE  Authorized(s)'
BY DEF Authorized, HasAuthority

LEMMA AuthorityStep == AccessInv /\ [AccessNext]_accessVars => AuthorityIsCurrent'
<1> SUFFICES ASSUME AccessInv, [AccessNext]_accessVars, NEW s \in Socket PROVE Authorized(s)'
  BY DEF AuthorityIsCurrent, Authorized
<1>1. AccessTypeOK /\ AccessTypeOK'
  BY AccessTypeStep DEF AccessInv
<1>2. ASSUME NEW d \in Device, NEW scopes \in SUBSET Scope, Pair(d, scopes)
      PROVE  Authorized(s)'
  <2>1. sockets'[s] = sockets[s]
    BY <1>2 DEF Pair
  <2>2. CASE sockets[s].device = NoDevice
    BY <2>1, <2>2, NoAuthority
  <2>3. CASE sockets[s].device # NoDevice /\ sockets[s].device # d
    <3>1. registry'[sockets[s].device] = registry[sockets[s].device]
      BY <1>1, <1>2, <2>3 DEF Pair, AccessTypeOK
    <3>2. sockets[s].device \in unbound \cup repaired
            => sockets[s].device \in (unbound \cup repaired)'
      BY <1>2, <2>3 DEF Pair
    <3>3. QED
      BY <1>1, <2>1, <3>1, <3>2, SameSocket
  <2>4. CASE sockets[s].device = d /\ d # NoDevice
    <3>1. registry[d].status # "absent"
      BY <2>4 DEF AccessInv, DeviceIsKnown
    <3>2. d \in repaired'
      BY <1>2, <3>1 DEF Pair, Absent
    <3>3. QED
      BY <1>1, <2>1, <2>4, <3>2, SameSocket
  <2>5. QED
    BY <2>2, <2>3, <2>4
<1>3. ASSUME NEW d \in Device, sockets' = Terminated(d),
             \A e \in Device \ {d} : registry'[e] = registry[e],
             unbound' = unbound, repaired' = repaired \ {d}
      PROVE  Authorized(s)'
  <2>1. CASE Terminated(d)[s] = NoSocket
    BY <1>3, <2>1, NoSocketFact, NoAuthority
  <2>2. CASE /\ Terminated(d)[s] = sockets[s]
             /\ ~(sockets[s].listed /\ sockets[s].device = d)
    <3>1. CASE sockets[s].state # "open" \/ sockets[s].device = NoDevice
      BY <1>3, <2>2, <3>1, NoAuthority
    <3>2. CASE sockets[s].state = "open" /\ sockets[s].device # NoDevice
      <4>1. sockets[s].device \in Device \ {d}
        BY <1>1, <2>2, <3>2 DEF AccessInv, OpenIsListed, AccessTypeOK
      <4>2. registry'[sockets[s].device] = registry[sockets[s].device]
        BY <1>3, <4>1
      <4>3. sockets[s].device \in unbound \cup repaired
              => sockets[s].device \in (unbound \cup repaired)'
        BY <1>3, <4>1
      <4>4. QED
        BY <1>1, <1>3, <2>2, <4>2, <4>3, SameSocket
    <3>3. QED
      BY <3>1, <3>2
  <2>3. QED
    BY <1>1, <2>1, <2>2, TerminatedFact
<1>4. ASSUME NEW d \in Device, NEW scopes \in SUBSET Scope, SetScopes(d, scopes)
      PROVE  Authorized(s)'
  BY <1>1, <1>3, <1>4 DEF SetScopes, AccessTypeOK
<1>5. ASSUME NEW d \in Device, RevokeDevice(d)
      PROVE  Authorized(s)'
  BY <1>1, <1>3, <1>5 DEF RevokeDevice, AccessTypeOK
<1>6. ASSUME NEW t \in Socket, Unbind(t)
      PROVE  Authorized(s)'
  <2>1. CASE s = t
    BY <1>1, <1>6, <2>1, NoAuthority DEF Unbind, AccessTypeOK
  <2>2. CASE s # t
    <3>1. sockets'[s] = sockets[s]
      BY <1>1, <1>6, <2>2 DEF Unbind, AccessTypeOK
    <3>2. CASE sockets[s].device = NoDevice
      BY <3>1, <3>2, NoAuthority
    <3>3. CASE sockets[s].device # NoDevice /\ sockets[s].device = sockets[t].device
      BY <1>1, <1>6, <3>1, <3>3, SameSocket DEF Unbind
    <3>4. CASE sockets[s].device # NoDevice /\ sockets[s].device # sockets[t].device
      BY <1>1, <1>6, <3>1, <3>4, SameSocket DEF Unbind, AccessTypeOK
    <3>5. QED
      BY <3>2, <3>3, <3>4
  <2>3. QED
    BY <2>1, <2>2
<1>7. ASSUME NEW t \in Socket, NEW d \in Device, Prove(t, d)
      PROVE  Authorized(s)'
  <2>1. CASE s = t
    <3>1. sockets'[s].device = d /\ sockets'[s].scopes = registry[d].scopes
      BY <1>1, <1>7, <2>1 DEF Prove, AccessTypeOK
    <3>2. registry' = registry /\ registry[d].status = "active"
      BY <1>7 DEF Prove, MayProve, Active
    <3>3. QED
      BY <3>1, <3>2 DEF Authorized, IsCurrent
  <2>2. CASE s # t
    BY <1>1, <1>7, <2>2, SameSocket DEF Prove, AccessTypeOK, history
  <2>3. QED
    BY <2>1, <2>2
<1>8. ASSUME NEW t \in Socket, Opens(t) \/ Forgets(t) \/ Closes(t) \/ Closed(t)
      PROVE  Authorized(s)'
  <2>1. CASE s = t
    BY <1>1, <1>8, <2>1, NoSocketFact, NoAuthority
       DEF Opens, Forgets, Closes, Closed, AccessTypeOK
  <2>2. CASE s # t
    BY <1>1, <1>8, <2>2, SameSocket DEF Opens, Forgets, Closes, Closed, AccessTypeOK, history
  <2>3. QED
    BY <2>1, <2>2
<1>9. CASE UNCHANGED accessVars
  BY <1>1, <1>9, SameSocket DEF accessVars, history
<1>10. QED
  BY <1>2, <1>4, <1>5, <1>6, <1>7, <1>8, <1>9 DEF AccessNext

LEMMA ListedStep == AccessInv /\ [AccessNext]_accessVars => OpenIsListed'
<1> SUFFICES ASSUME AccessInv, [AccessNext]_accessVars PROVE OpenIsListed'
  OBVIOUS
<1> USE NoSocketFact DEF AccessInv, OpenIsListed
<1>1. ASSUME NEW d \in Device, sockets' = Terminated(d) PROVE OpenIsListed'
  BY <1>1, TerminatedFact
<1>2. ASSUME NEW s \in Socket, NEW d \in Device, Prove(s, d) PROVE OpenIsListed'
  BY <1>2 DEF Prove, AccessTypeOK
<1>3. ASSUME NEW s \in Socket, Unbind(s) PROVE OpenIsListed'
  BY <1>3 DEF Unbind, AccessTypeOK
<1>4. ASSUME NEW s \in Socket, Opens(s) \/ Forgets(s) \/ Closes(s) \/ Closed(s)
      PROVE  OpenIsListed'
  BY <1>4 DEF Opens, Forgets, Closes, Closed, AccessTypeOK
<1>5. ASSUME NEW d \in Device, NEW scopes \in SUBSET Scope, Pair(d, scopes)
      PROVE  OpenIsListed'
  BY <1>5 DEF Pair
<1>6. CASE UNCHANGED accessVars
  BY <1>6 DEF accessVars
<1>7. QED
  BY <1>1, <1>2, <1>3, <1>4, <1>5, <1>6 DEF AccessNext, SetScopes, RevokeDevice

LEMMA KnownStep == AccessInv /\ [AccessNext]_accessVars => DeviceIsKnown'
<1> SUFFICES ASSUME AccessInv, [AccessNext]_accessVars, NEW s \in Socket,
                    sockets'[s].device # NoDevice
             PROVE  registry'[sockets'[s].device].status # "absent"
  BY DEF DeviceIsKnown
<1>1. AccessTypeOK
  BY DEF AccessInv
<1>2. \A d \in Device : registry[d].status # "absent" => registry'[d].status # "absent"
  <2> SUFFICES ASSUME NEW d \in Device, registry[d].status # "absent"
               PROVE  registry'[d].status # "absent"
    OBVIOUS
  <2>1. ASSUME NEW e \in Device, NEW scopes \in SUBSET Scope,
               Pair(e, scopes) \/ SetScopes(e, scopes) \/ RevokeDevice(e)
        PROVE  registry'[d].status # "absent"
    BY <1>1, <2>1 DEF Pair, SetScopes, RevokeDevice, AccessTypeOK
  <2>2. ASSUME NEW t \in Socket, Unbind(t)
        PROVE  registry'[d].status # "absent"
    BY <1>1, <2>2 DEF Unbind, AccessTypeOK
  <2>3. CASE registry' = registry
    BY <2>3
  <2>4. QED
    BY <2>1, <2>2, <2>3
       DEF AccessNext, accessVars, Prove, Opens, Forgets, Closes, Closed
<1>3. \/ sockets'[s].device = sockets[s].device
      \/ sockets'[s].device \in Device /\ Active(sockets'[s].device)
  <2>1. ASSUME NEW d \in Device, sockets' = Terminated(d)
        PROVE  sockets'[s].device = sockets[s].device
    BY <1>1, <2>1, TerminatedFact, NoSocketFact
  <2>2. ASSUME NEW t \in Socket, NEW d \in Device, Prove(t, d)
        PROVE  \/ sockets'[s].device = sockets[s].device
               \/ sockets'[s].device = d /\ Active(d)
    BY <1>1, <2>2 DEF Prove, MayProve, AccessTypeOK
  <2>3. ASSUME NEW t \in Socket, Unbind(t) \/ Opens(t) \/ Forgets(t) \/ Closes(t) \/ Closed(t)
        PROVE  sockets'[s].device = sockets[s].device
    BY <1>1, <2>3, NoSocketFact DEF Unbind, Opens, Forgets, Closes, Closed, AccessTypeOK
  <2>4. ASSUME NEW d \in Device, NEW scopes \in SUBSET Scope, Pair(d, scopes)
        PROVE  sockets'[s].device = sockets[s].device
    BY <2>4 DEF Pair
  <2>5. CASE UNCHANGED accessVars
    BY <2>5 DEF accessVars
  <2>6. QED
    BY <2>1, <2>2, <2>3, <2>4, <2>5 DEF AccessNext, SetScopes, RevokeDevice
<1>4. CASE sockets'[s].device = sockets[s].device
  <2>1. sockets[s].device \in Device /\ registry[sockets[s].device].status # "absent"
    BY <1>1, <1>4 DEF AccessInv, DeviceIsKnown, AccessTypeOK
  <2>2. QED
    BY <1>2, <1>4, <2>1
<1>5. CASE sockets'[s].device \in Device /\ Active(sockets'[s].device)
  BY <1>2, <1>5 DEF Active
<1>6. QED
  BY <1>3, <1>4, <1>5

\* An open socket acts with the rights its device has now, unless the phone unbound
\* itself or paired again: for any number of devices and sockets, every change on the
\* settings page reaches every copy of the rights.
THEOREM AuthorityFollowsRegistry == AccessSpec => []AuthorityIsCurrent
<1>1. AccessInit => AccessInv
  BY AccessSafeInit
<1>2. AccessInv /\ [AccessNext]_accessVars => AccessInv'
  BY AccessTypeStep, AuthorityStep, ListedStep, KnownStep DEF AccessInv
<1>3. AccessInv => AuthorityIsCurrent
  BY DEF AccessInv
<1>4. QED
  BY <1>1, <1>2, <1>3, PTL DEF AccessSpec

-----------------------------------------------------------------------------
(* The listener of the LAN.                                                *)

Place == [state : {"none", "placeholder", "binding", "listening", "closing"},
          port : Port \cup {0}, phones : BOOLEAN]
Run == [at : {"idle", "stopping", "loading", "listening", "dropping"},
        target : Config \cup {NoTarget}, own : Listener \cup {NoListener}]

\* The state without its bounds.
StateOK ==
    /\ config \in Config
    /\ queued \in Nat
    /\ run \in Run
    /\ applied \in Config \cup {NoTarget}
    /\ instance \in Listener \cup {NoListener}
    /\ listener \in [Listener -> Place]
    /\ current \in [phase : {"starting", "online", "error", "disabled"}, port : Port]
    /\ disposer \in [at : {"no", "stopping", "waiting", "done"},
                     waits : Listener \cup {NoListener}]

\* What the reconcile under way has in its hands at each of its awaits.
RunInv ==
    /\ run.at = "idle" => run.own = NoListener
    /\ run.at \in {"loading", "listening"} =>
          instance \in {run.own, NoListener}
    /\ run.at # "idle" => run.own # NoListener
    /\ run.at \in {"stopping", "dropping"} => instance = NoListener
    /\ run.at \in {"stopping", "loading", "listening"} =>
          run.target \in Config /\ applied = run.target
    /\ run.at = "loading" => listener[run.own].state = "placeholder"
    /\ run.at = "listening" => listener[run.own].state = "binding"
    /\ Disposed => instance = NoListener

\* Who has each listener: the reconciler once it listens, until then the reconcile that
\* makes it, and whoever stops it until it has closed.
OwnerInv ==
    \A l \in Listener :
        /\ listener[l].state = "listening" => instance = l
        /\ instance = l /\ run.at \notin {"loading", "listening"} => listener[l].state = "listening"
        /\ listener[l].state = "binding" => run.at = "listening" /\ run.own = l
        /\ listener[l].state = "placeholder" => run.at = "loading" /\ run.own = l
        /\ listener[l].state = "closing" =>
              \/ run.at \in {"stopping", "dropping"} /\ run.own = l
              \/ disposer.at = "stopping" /\ disposer.waits = l
        /\ listener[l].state = "none" => listener[l] = Gone

DoneInv == disposer.at = "done" => queued = 0 /\ run.at = "idle"

IInv == StateOK /\ RunInv /\ OwnerInv /\ DoneInv

\* What the status rests on while nobody disposes of the transport.  A change that is not
\* applied has a reconcile on the chain; the reconcile that makes a listener makes it for
\* the port of its target and never has to drop it; and between two reconciles the status
\* written last is that of the target applied last: online with its listener, or an error
\* or disabled without one.
StatusInv ==
    ~Disposed =>
        /\ applied # config => queued > 0
        /\ run.at # "dropping"
        /\ run.at \in {"loading", "listening"} =>
              /\ instance = run.own /\ run.target.enabled
              /\ listener[run.own].port = run.target.port
        /\ run.at = "idle" /\ applied # NoTarget /\ instance # NoListener =>
              /\ applied.enabled /\ listener[instance].port = applied.port
              /\ current.phase = "online"
        /\ run.at = "idle" /\ applied # NoTarget /\ instance = NoListener =>
              current = [phase |-> IF applied.enabled THEN "error" ELSE "disabled",
                         port |-> applied.port]

-----------------------------------------------------------------------------
LEMMA OneListenerFact == IInv => OneListener
BY LocalAssumption DEF IInv, StateOK, RunInv, OwnerInv, OneListener, Open, Place, Run

LEMMA NothingStaysOpenFact == IInv => NothingStaysOpen
BY LocalAssumption DEF IInv, StateOK, RunInv, OwnerInv, DoneInv, NothingStaysOpen, Disposed,
   Place, Run

LEMMA GoneFact == Gone \in Place /\ Gone.state = "none" /\ IdleRun \in Run
BY DEF Gone, Place, IdleRun, Run

LEMMA SafeInit == LocalInit => IInv
<1> SUFFICES ASSUME LocalInit PROVE IInv
  OBVIOUS
<1>1. StateOK
  BY GoneFact DEF LocalInit, StateOK, Config
<1>2. RunInv /\ DoneInv
  BY DEF LocalInit, RunInv, DoneInv, IdleRun, Disposed
<1>3. OwnerInv
  BY GoneFact, LocalAssumption DEF LocalInit, OwnerInv
<1>4. QED
  BY <1>1, <1>2, <1>3 DEF IInv

LEMMA ConfigureStep == ASSUME IInv, NEW c \in Config, Configure(c) PROVE IInv'
BY DEF Configure, IInv, StateOK, RunInv, OwnerInv, DoneInv, Disposed

LEMMA SkipStep == ASSUME IInv, ReconcileSkips PROVE IInv'
BY DEF ReconcileSkips, Begins, Skips, IInv, StateOK, RunInv, OwnerInv, DoneInv, Disposed

LEMMA PhoneStep ==
    ASSUME IInv, NEW l \in Listener, PhoneConnects(l) \/ PhoneLeaves(l) \/ ServerClosed(l)
    PROVE  IInv'
<1> USE DEF IInv
<1>1. /\ UNCHANGED <<config, queued, run, applied, instance, current, disposer>>
      /\ \A k \in Listener \ {l} : listener'[k] = listener[k]
      /\ listener' \in [Listener -> Place]
      /\ \/ listener'[l].state = listener[l].state /\ listener[l] # Gone
         \/ listener[l].state = "closing" /\ listener'[l] = Gone
  <2>1. CASE PhoneConnects(l)
    <3>1. listener[l].state = "listening" /\ listener[l] # Gone /\ listener[l] \in Place
      BY <2>1 DEF PhoneConnects, StateOK, Gone
    <3>2. [listener[l] EXCEPT !.phones = TRUE] \in Place
      BY <3>1 DEF Place
    <3>3. [listener[l] EXCEPT !.phones = TRUE].state = listener[l].state
      BY <3>1 DEF Place
    <3>4. QED
      BY <2>1, <3>1, <3>2, <3>3 DEF PhoneConnects, StateOK
  <2>2. CASE PhoneLeaves(l)
    <3>1. listener[l] # Gone /\ listener[l] \in Place
      BY <2>2 DEF PhoneLeaves, StateOK, Gone
    <3>2. [listener[l] EXCEPT !.phones = FALSE] \in Place
      BY <3>1 DEF Place
    <3>3. [listener[l] EXCEPT !.phones = FALSE].state = listener[l].state
      BY <3>1 DEF Place
    <3>4. QED
      BY <2>2, <3>1, <3>2, <3>3 DEF PhoneLeaves, StateOK
  <2>3. CASE ServerClosed(l)
    BY <2>3, GoneFact DEF ServerClosed, StateOK
  <2>4. QED
    BY <2>1, <2>2, <2>3
<1>2. StateOK' /\ DoneInv'
  BY <1>1 DEF StateOK, DoneInv
<1>3. run.at \in {"loading", "listening"} => run.own \in Listener
  BY DEF StateOK, RunInv, Run
<1>4. RunInv'
  BY <1>1, <1>3 DEF RunInv, Disposed
<1>5. OwnerInv'
  BY <1>1, GoneFact DEF OwnerInv
<1>6. QED
  BY <1>2, <1>4, <1>5

\* A listener that is set and known to be gone.
LEMMA IsGoneFact ==
    ASSUME StateOK, NEW l \in Listener, IsGone(l)
    PROVE  listener[l] = Gone
BY DEF IsGone

\* The second half of a reconcile, from any state without instance and without anything
\* else under way on the chain.
LEMMA ContinueStep ==
    ASSUME IInv, NEW target \in Config, Continue(target), instance = NoListener,
           run.at \in {"idle", "stopping"},
           run.at = "stopping" => run.own # NoListener /\ listener[run.own] = Gone,
           applied' = target, queued' \in Nat, disposer.at # "done",
           UNCHANGED <<config, disposer>>
    PROVE  IInv'
<1> USE DEF IInv
<1>1. \A l \in Listener : listener[l].state \notin {"listening", "binding", "placeholder"}
  BY LocalAssumption DEF OwnerInv, RunInv
<1>2. \A l \in Listener : listener[l].state = "closing" =>
          disposer.at = "stopping" /\ disposer.waits = l
  BY GoneFact DEF OwnerInv
<1>3. CASE Disposed \/ ~target.enabled
  <2>1. run' = IdleRun /\ UNCHANGED <<instance, listener>>
    BY <1>3 DEF Continue
  <2>2. current' \in [phase : {"starting", "online", "error", "disabled"}, port : Port]
    BY <1>3 DEF Continue, StateOK, Config
  <2>3. StateOK'
    BY <2>1, <2>2, GoneFact DEF StateOK
  <2>4. RunInv' /\ DoneInv'
    BY <2>1 DEF RunInv, DoneInv, IdleRun, Disposed
  <2>5. OwnerInv'
    BY <1>1, <1>2, <2>1, LocalAssumption DEF OwnerInv
  <2>6. QED
    BY <2>3, <2>4, <2>5
<1>4. CASE ~Disposed /\ target.enabled
  <2>1. PICK k \in Listener :
          /\ listener[k] = Gone
          /\ listener' = [listener EXCEPT ![k] = [Gone EXCEPT !.state = "placeholder",
                                                              !.port = target.port]]
          /\ instance' = k
          /\ run' = [at |-> "loading", target |-> target, own |-> k]
          /\ current' = [phase |-> "starting", port |-> target.port]
    BY <1>4 DEF Continue
  <2>2. [Gone EXCEPT !.state = "placeholder", !.port = target.port] \in Place
    BY DEF Gone, Place, Config
  <2>3. [Gone EXCEPT !.state = "placeholder", !.port = target.port].state = "placeholder"
    BY DEF Gone
  <2>4. StateOK'
    BY <2>1, <2>2 DEF StateOK, Run, Config
  <2>5. RunInv' /\ DoneInv'
    BY <1>4, <2>1, <2>3, LocalAssumption DEF RunInv, DoneInv, Disposed, StateOK
  <2>6. OwnerInv'
    BY <1>1, <1>2, <2>1, <2>3 DEF OwnerInv, StateOK
  <2>7. QED
    BY <2>4, <2>5, <2>6
<1>5. QED
  BY <1>3, <1>4

LEMMA StoppingFact ==
    ASSUME StateOK, NEW l \in Listener, listener[l].state = "listening"
    PROVE  /\ Stopping(l) \in [Listener -> Place]
           /\ Stopping(l)[l].state = "closing"
           /\ \A k \in Listener \ {l} : Stopping(l)[k] = listener[k]
BY DEF Stopping, StateOK, Place

LEMMA ReconcileStep == ASSUME IInv, Reconcile PROVE IInv'
<1> USE DEF IInv
<1>1. config \in Config /\ queued' \in Nat /\ ~Disposed /\ run.at = "idle"
  BY DEF Reconcile, Begins, Skips, StateOK
<1>2. CASE instance = NoListener
  BY <1>1, <1>2, ContinueStep DEF Reconcile, Disposed
<1>3. CASE instance # NoListener
  <2>1. instance \in Listener /\ listener[instance].state = "listening"
    BY <1>1, <1>3 DEF StateOK, OwnerInv
  <2>2. /\ listener' = Stopping(instance)
        /\ run' = [at |-> "stopping", target |-> config, own |-> instance]
        /\ instance' = NoListener /\ applied' = config
        /\ UNCHANGED <<current, config, disposer>>
    BY <1>3 DEF Reconcile
  <2>3. StateOK'
    BY <1>1, <2>1, <2>2, StoppingFact DEF StateOK, Run
  <2>4. RunInv' /\ DoneInv'
    BY <1>1, <2>1, <2>2, LocalAssumption DEF RunInv, DoneInv, Disposed
  <2>5. OwnerInv'
    BY <1>1, <2>1, <2>2, StoppingFact, LocalAssumption DEF OwnerInv
  <2>6. QED
    BY <2>3, <2>4, <2>5
<1>4. QED
  BY <1>2, <1>3

LEMMA PreviousStep == ASSUME IInv, PreviousStopped PROVE IInv'
<1> USE DEF IInv
<1>1. run.at = "stopping" /\ run.target \in Config /\ applied = run.target
  BY DEF PreviousStopped, RunInv
<1>2. run.own # NoListener /\ run.own \in Listener
  BY <1>1 DEF StateOK, RunInv, Run
<1>3. listener[run.own] = Gone
  BY <1>2, IsGoneFact DEF PreviousStopped
<1>4. disposer.at # "done" /\ instance = NoListener
  BY <1>1 DEF DoneInv, RunInv
<1>5. QED
  BY <1>1, <1>2, <1>3, <1>4, ContinueStep DEF PreviousStopped, StateOK

\* The reconcile under way gives up the listener it makes, or lets it close.
LEMMA LoadedStep == ASSUME IInv, TlsLoaded PROVE IInv'
<1> USE DEF IInv
<1>1. run.at = "loading" /\ run.own \in Listener /\ listener[run.own].state = "placeholder"
  BY DEF TlsLoaded, StateOK, RunInv, Run
<1>2. disposer.at # "done" /\ instance \in {run.own, NoListener}
  BY <1>1 DEF DoneInv, RunInv
<1>3. UNCHANGED <<config, queued, applied, instance, current, disposer>>
  BY DEF TlsLoaded
<1>4. CASE applied # run.target \/ Disposed
  <2>1. run' = IdleRun /\ listener' = [listener EXCEPT ![run.own] = Gone]
    BY <1>4 DEF TlsLoaded
  <2>2. Disposed /\ instance = NoListener
    BY <1>1, <1>4 DEF RunInv
  <2>3. StateOK'
    BY <1>1, <1>3, <2>1, GoneFact DEF StateOK
  <2>4. RunInv' /\ DoneInv'
    BY <1>2, <1>3, <2>1, <2>2 DEF RunInv, DoneInv, IdleRun
  <2>5. OwnerInv'
    BY <1>1, <1>3, <2>1, <2>2, GoneFact, LocalAssumption DEF OwnerInv, StateOK
  <2>6. QED
    BY <2>3, <2>4, <2>5
<1>5. CASE applied = run.target /\ ~Disposed
  <2>1. /\ run' = [run EXCEPT !.at = "listening"]
        /\ listener' = [listener EXCEPT ![run.own].state = "binding"]
    BY <1>5 DEF TlsLoaded
  <2>2. /\ run'.at = "listening" /\ run'.own = run.own /\ run'.target = run.target
        /\ run' \in Run
    BY <2>1 DEF StateOK, Run
  <2>3. /\ listener' \in [Listener -> Place]
        /\ listener'[run.own].state = "binding"
        /\ \A k \in Listener \ {run.own} : listener'[k] = listener[k]
    BY <1>1, <2>1 DEF StateOK, Place
  <2>4. StateOK'
    BY <1>3, <2>2, <2>3 DEF StateOK
  <2>5. RunInv' /\ DoneInv'
    BY <1>1, <1>2, <1>3, <2>2, <2>3 DEF RunInv, DoneInv, Disposed
  <2>6. OwnerInv'
    BY <1>1, <1>3, <2>2, <2>3 DEF OwnerInv
  <2>7. QED
    BY <2>4, <2>5, <2>6
<1>6. QED
  BY <1>4, <1>5

LEMMA FailsStep ==
    ASSUME IInv, Fails, run.at \in {"loading", "listening"}
    PROVE  IInv'
<1> USE DEF IInv
<1>1. run.own \in Listener /\ listener[run.own].state \in {"placeholder", "binding"}
  BY DEF StateOK, RunInv, Run
<1>2. disposer.at # "done" /\ instance \in {run.own, NoListener}
  BY DEF DoneInv, RunInv
<1>3. /\ run' = IdleRun /\ instance' = NoListener
      /\ listener' = [listener EXCEPT ![run.own] = Gone]
      /\ current' = [phase |-> "error", port |-> run.target.port]
      /\ UNCHANGED <<config, queued, applied, disposer>>
  BY DEF Fails
<1>4. run.target.port \in Port
  BY DEF RunInv, Config
<1>5. StateOK'
  BY <1>1, <1>3, <1>4, GoneFact DEF StateOK
<1>6. RunInv' /\ DoneInv'
  BY <1>2, <1>3 DEF RunInv, DoneInv, IdleRun, Disposed
<1>7. OwnerInv'
  BY <1>1, <1>2, <1>3, GoneFact, LocalAssumption DEF OwnerInv, StateOK
<1>8. QED
  BY <1>5, <1>6, <1>7

LEMMA ListensStep == ASSUME IInv, Listens PROVE IInv'
<1> USE DEF IInv
<1>1. run.at = "listening" /\ run.own \in Listener /\ listener[run.own].state = "binding"
  BY DEF Listens, StateOK, RunInv, Run
<1>2. disposer.at # "done" /\ instance \in {run.own, NoListener}
  BY <1>1 DEF DoneInv, RunInv
<1>3. UNCHANGED <<config, queued, applied, instance, disposer>>
  BY DEF Listens
<1>4. CASE Overtaken
  <2>1. /\ listener' = [listener EXCEPT ![run.own].state = "closing"]
        /\ run' = [run EXCEPT !.at = "dropping"]
        /\ UNCHANGED current
    BY <1>4 DEF Listens
  <2>2. instance = NoListener
    BY <1>2, <1>4 DEF Overtaken, RunInv
  <2>3. /\ run'.at = "dropping" /\ run'.own = run.own /\ run' \in Run
    BY <2>1 DEF StateOK, Run
  <2>4. /\ listener' \in [Listener -> Place]
        /\ listener'[run.own].state = "closing"
        /\ \A k \in Listener \ {run.own} : listener'[k] = listener[k]
    BY <1>1, <2>1 DEF StateOK, Place
  <2>5. StateOK'
    BY <1>3, <2>1, <2>3, <2>4 DEF StateOK
  <2>6. RunInv' /\ DoneInv'
    BY <1>1, <1>2, <1>3, <2>2, <2>3, LocalAssumption DEF RunInv, DoneInv, Disposed
  <2>7. OwnerInv'
    BY <1>1, <1>3, <2>2, <2>3, <2>4, LocalAssumption DEF OwnerInv
  <2>8. QED
    BY <2>5, <2>6, <2>7
<1>5. CASE ~Overtaken
  <2>1. /\ listener' = [listener EXCEPT ![run.own].state = "listening"]
        /\ run' = IdleRun
        /\ current' = [phase |-> "online", port |-> run.target.port]
    BY <1>5 DEF Listens
  <2>2. instance = run.own /\ ~Disposed
    BY <1>5 DEF Overtaken
  <2>3. /\ listener' \in [Listener -> Place]
        /\ listener'[run.own].state = "listening"
        /\ \A k \in Listener \ {run.own} : listener'[k] = listener[k]
    BY <1>1, <2>1 DEF StateOK, Place
  <2>4. StateOK'
    BY <1>1, <1>3, <2>1, <2>3, GoneFact DEF StateOK, RunInv, Config
  <2>5. RunInv' /\ DoneInv'
    BY <1>2, <1>3, <2>1, <2>2 DEF RunInv, DoneInv, IdleRun, Disposed
  <2>6. OwnerInv'
    BY <1>1, <1>3, <2>1, <2>2, <2>3 DEF OwnerInv, IdleRun
  <2>7. QED
    BY <2>4, <2>5, <2>6
<1>6. QED
  BY <1>4, <1>5

LEMMA DroppedStep == ASSUME IInv, Dropped PROVE IInv'
<1> USE DEF IInv
<1>1. run.at = "dropping" /\ run.own \in Listener /\ listener[run.own] = Gone
  BY IsGoneFact DEF Dropped, StateOK, RunInv, Run
<1>2. run' = IdleRun
      /\ UNCHANGED <<config, queued, applied, instance, listener, current, disposer>>
  BY DEF Dropped
<1>3. StateOK'
  BY <1>2, GoneFact DEF StateOK
<1>4. RunInv' /\ DoneInv'
  BY <1>1, <1>2, LocalAssumption DEF RunInv, DoneInv, IdleRun, Disposed
<1>5. OwnerInv'
  BY <1>1, <1>2, GoneFact DEF OwnerInv, IdleRun
<1>6. QED
  BY <1>3, <1>4, <1>5

-----------------------------------------------------------------------------
LEMMA DisposeStarts == ASSUME IInv, Dispose PROVE IInv'
<1> USE DEF IInv
<1>1. disposer.at = "no" /\ UNCHANGED <<config, queued, run, applied, current>>
  BY DEF Dispose, Disposed
<1>2. instance' = NoListener /\ listener' = Stopping(instance) /\ disposer'.at = "stopping"
  BY DEF Dispose
<1>3. CASE instance # NoListener /\ listener[instance].state = "listening"
  <2>1. instance \in Listener /\ disposer' = [at |-> "stopping", waits |-> instance]
    BY <1>3 DEF Dispose, StateOK
  <2>2. StateOK'
    BY <1>1, <1>2, <1>3, <2>1, StoppingFact DEF StateOK
  <2>3. run.at \in {"loading", "listening"} =>
            run.own \in Listener /\ run.own # instance
    BY <1>3 DEF RunInv, StateOK, Run
  <2>4. RunInv' /\ DoneInv'
    BY <1>1, <1>2, <1>3, <2>1, <2>3, StoppingFact DEF RunInv, DoneInv
  <2>5. OwnerInv'
    BY <1>1, <1>2, <1>3, <2>1, StoppingFact, LocalAssumption DEF OwnerInv
  <2>6. QED
    BY <2>2, <2>4, <2>5
<1>4. CASE ~(instance # NoListener /\ listener[instance].state = "listening")
  <2>1. listener' = listener /\ disposer' = [at |-> "stopping", waits |-> NoListener]
    BY <1>2, <1>4, LocalAssumption DEF Dispose, Stopping, StateOK
  <2>2. StateOK'
    BY <1>1, <1>2, <2>1 DEF StateOK
  <2>3. RunInv' /\ DoneInv'
    BY <1>1, <1>2, <2>1 DEF RunInv, DoneInv
  <2>4. OwnerInv'
    BY <1>1, <1>2, <1>4, <2>1, LocalAssumption DEF OwnerInv
  <2>5. QED
    BY <2>2, <2>3, <2>4
<1>5. QED
  BY <1>3, <1>4

LEMMA DisposeGoesOn == ASSUME IInv, DisposeStep PROVE IInv'
<1> USE DEF IInv
<1>1. UNCHANGED <<config, queued, run, applied, instance, listener, current>>
  BY DEF DisposeStep, DisposeStopped, DisposeReturns
<1>2. Disposed /\ Disposed'
  BY DEF DisposeStep, DisposeStopped, DisposeReturns, Disposed, StateOK
<1>3. RunInv'
  BY <1>1, <1>2 DEF RunInv
<1>4. StateOK' /\ DoneInv'
  BY <1>1 DEF DisposeStep, DisposeStopped, DisposeReturns, ChainIsDone, StateOK, DoneInv
<1>5. OwnerInv'
  BY <1>1, GoneFact
  DEF DisposeStep, DisposeStopped, DisposeReturns, IsGone, OwnerInv
<1>6. QED
  BY <1>3, <1>4, <1>5

-----------------------------------------------------------------------------
LEMMA SafeStep == IInv /\ [LocalNext]_localVars => IInv'
<1> SUFFICES ASSUME IInv, [LocalNext]_localVars PROVE IInv'
  OBVIOUS
<1>1. CASE UNCHANGED localVars
  BY <1>1 DEF localVars, IInv, StateOK, RunInv, OwnerInv, DoneInv, Disposed
<1>2. ASSUME NEW c \in Config, Configure(c) PROVE IInv'
  BY <1>2, ConfigureStep
<1>3. CASE ReconcileSkips
  BY <1>3, SkipStep
<1>4. CASE Reconcile
  BY <1>4, ReconcileStep
<1>5. CASE PreviousStopped
  BY <1>5, PreviousStep
<1>6. CASE TlsLoaded
  BY <1>6, LoadedStep
<1>7. CASE TlsFails \/ PortTaken
  BY <1>7, FailsStep DEF TlsFails, PortTaken
<1>8. CASE Listens
  BY <1>8, ListensStep
<1>9. CASE Dropped
  BY <1>9, DroppedStep
<1>10. CASE Dispose
  BY <1>10, DisposeStarts
<1>11. CASE DisposeStep
  BY <1>11, DisposeGoesOn
<1>12. ASSUME NEW l \in Listener, PhoneConnects(l) \/ PhoneLeaves(l) \/ ServerClosed(l)
       PROVE  IInv'
  BY <1>12, PhoneStep
<1>13. QED
  BY <1>1, <1>2, <1>3, <1>4, <1>5, <1>6, <1>7, <1>8, <1>9, <1>10, <1>11, <1>12
  DEF LocalNext, ChainStep

LEMMA SafeSpec == LocalSpec => []IInv
BY SafeInit, SafeStep, PTL DEF LocalSpec

\* However many settings changes arrive while a listener is stopped, loaded or started,
\* there are never two listeners that hold the plugin's port.
THEOREM OneListenerOnly == LocalSpec => []OneListener
BY SafeSpec, OneListenerFact, PTL

\* Once dispose() has returned no listener is left, and the reconcile that was under way
\* when it was called cannot leave one behind.
THEOREM NothingListensAfterDispose == LocalSpec => []NothingStaysOpen
BY SafeSpec, NothingStaysOpenFact, PTL
-----------------------------------------------------------------------------
(***************************************************************************)
(* The status.                                                             *)
(***************************************************************************)
LEMMA StatusFact == IInv /\ StatusInv => StatusIsRight
<1> SUFFICES ASSUME IInv, StatusInv, ~Disposed, queued = 0, run.at = "idle"
             PROVE  /\ Status.port = config.port
                    /\ (Status.phase = "disabled") <=> ~config.enabled
                    /\ (Status.phase = "online") <=> \E l \in Open :
                           listener[l].state = "listening" /\ listener[l].port = config.port
                    /\ Open # {} => config.enabled
                    /\ Status.phase # "starting"
  BY DEF StatusIsRight
<1> USE DEF IInv
<1>1. applied = config /\ config \in Config /\ applied # NoTarget
  BY LocalAssumption DEF StatusInv, StateOK, Config
<1>2. config.enabled \in BOOLEAN
  BY <1>1 DEF Config
<1>3. \A l \in Open : listener[l].state = "listening" /\ instance = l
  BY DEF Open, OwnerInv
<1>4. CASE instance # NoListener
  <2>1. instance \in Open /\ listener[instance].state = "listening"
    BY <1>4 DEF StateOK, OwnerInv, Open
  <2>2. config.enabled /\ listener[instance].port = config.port
    BY <1>1, <1>4 DEF StatusInv
  <2>3. Status = [phase |-> "online", port |-> config.port]
    BY <1>4, <2>1, <2>2 DEF Status
  <2>4. QED
    BY <2>1, <2>2, <2>3
<1>5. CASE instance = NoListener
  <2>1. Open = {}
    BY <1>3, <1>5, LocalAssumption DEF Open
  <2>2. Status = [phase |-> IF config.enabled THEN "error" ELSE "disabled",
                  port |-> config.port]
    BY <1>1, <1>5 DEF Status, StatusInv
  <2>3. QED
    BY <1>2, <2>1, <2>2
<1>6. QED
  BY <1>4, <1>5

LEMMA StatusInit == LocalInit => StatusInv
BY DEF LocalInit, StatusInv, IdleRun

\* A change, and a reconcile that has nothing to do.
LEMMA StatusConfigure ==
    ASSUME IInv, StatusInv, (\E c \in Config : Configure(c)) \/ ReconcileSkips
    PROVE  StatusInv'
<1>1. UNCHANGED <<run, applied, instance, listener, current, disposer>>
  BY DEF Configure, ReconcileSkips
<1>2. ~Disposed /\ applied' # config' => queued' > 0
  BY DEF Configure, ReconcileSkips, Begins, Skips, StatusInv, IInv, StateOK
<1>3. QED
  BY <1>1, <1>2 DEF StatusInv, Disposed

\* The second half of a reconcile: it ends with the listener switched off, or begins to
\* make one for its target.
LEMMA StatusContinue ==
    ASSUME IInv, NEW target \in Config, Continue(target), ~Disposed, instance = NoListener,
           applied' = target, queued' \in Nat, applied' # config' => queued' > 0,
           UNCHANGED disposer
    PROVE  StatusInv'
<1>1. CASE ~target.enabled
  <2>1. /\ run' = IdleRun /\ instance' = NoListener
        /\ current' = [phase |-> "disabled", port |-> target.port]
    BY <1>1 DEF Continue
  <2>2. QED
    BY <1>1, <2>1 DEF StatusInv, IdleRun, Disposed
<1>2. CASE target.enabled
  <2>1. PICK k \in Listener :
          /\ listener' = [listener EXCEPT ![k] = [Gone EXCEPT !.state = "placeholder",
                                                              !.port = target.port]]
          /\ instance' = k
          /\ run' = [at |-> "loading", target |-> target, own |-> k]
    BY <1>2 DEF Continue
  <2>2. [Gone EXCEPT !.state = "placeholder", !.port = target.port].port = target.port
    BY DEF Gone
  <2>3. listener'[k].port = target.port
    BY <2>1, <2>2 DEF IInv, StateOK
  <2>4. QED
    BY <1>2, <2>1, <2>3 DEF StatusInv
<1>3. QED
  BY <1>1, <1>2

LEMMA StatusReconcile == ASSUME IInv, StatusInv, Reconcile PROVE StatusInv'
<1>1. /\ config \in Config /\ queued' \in Nat /\ ~Disposed
      /\ applied' = config /\ UNCHANGED <<config, disposer>>
  BY DEF Reconcile, Begins, Skips, IInv, StateOK
<1>2. CASE instance = NoListener
  BY <1>1, <1>2, StatusContinue DEF Reconcile
<1>3. CASE instance # NoListener
  <2>1. run'.at = "stopping"
    BY <1>3 DEF Reconcile
  <2>2. QED
    BY <1>1, <2>1 DEF StatusInv
<1>4. QED
  BY <1>2, <1>3

LEMMA StatusPrevious == ASSUME IInv, StatusInv, PreviousStopped PROVE StatusInv'
<1>1. /\ run.at = "stopping" /\ run.target \in Config /\ applied = run.target
      /\ instance = NoListener /\ UNCHANGED <<config, queued, applied, disposer>>
      /\ Continue(run.target)
  BY DEF PreviousStopped, IInv, RunInv
<1>2. CASE Disposed
  BY <1>1, <1>2 DEF StatusInv, Disposed
<1>3. CASE ~Disposed
  BY <1>1, <1>3, StatusContinue DEF StatusInv, IInv, StateOK
<1>4. QED
  BY <1>2, <1>3

LEMMA StatusLoaded == ASSUME IInv, StatusInv, TlsLoaded PROVE StatusInv'
<1>1. /\ run.at = "loading" /\ run.own \in Listener /\ applied = run.target
      /\ UNCHANGED <<config, queued, applied, instance, current, disposer>>
  BY DEF TlsLoaded, IInv, StateOK, RunInv, Run
<1>2. SUFFICES ASSUME ~Disposed PROVE StatusInv'
  BY <1>1 DEF StatusInv, Disposed
<1>3. /\ run' = [run EXCEPT !.at = "listening"]
      /\ listener' = [listener EXCEPT ![run.own].state = "binding"]
  BY <1>1, <1>2 DEF TlsLoaded
<1>4. run'.at = "listening" /\ run'.own = run.own /\ run'.target = run.target
  BY <1>3 DEF IInv, StateOK, Run
<1>5. listener'[run.own].port = listener[run.own].port
  BY <1>1, <1>3 DEF IInv, StateOK, Place
<1>6. QED
  BY <1>1, <1>2, <1>4, <1>5 DEF StatusInv

LEMMA StatusFails ==
    ASSUME IInv, StatusInv, Fails, run.at \in {"loading", "listening"}
    PROVE  StatusInv'
<1>1. /\ run' = IdleRun /\ instance' = NoListener
      /\ current' = [phase |-> "error", port |-> run.target.port]
      /\ UNCHANGED <<config, queued, applied, disposer>>
  BY DEF Fails
<1>2. applied = run.target
  BY DEF IInv, RunInv
<1>3. QED
  BY <1>1, <1>2 DEF StatusInv, Disposed, IdleRun

LEMMA StatusListens == ASSUME IInv, StatusInv, Listens PROVE StatusInv'
<1>1. /\ run.at = "listening" /\ run.own \in Listener /\ applied = run.target
      /\ UNCHANGED <<config, queued, applied, instance, disposer>>
  BY DEF Listens, IInv, StateOK, RunInv, Run
<1>2. SUFFICES ASSUME ~Disposed PROVE StatusInv'
  BY <1>1 DEF StatusInv, Disposed
<1>3. instance = run.own /\ run.target.enabled /\ listener[run.own].port = run.target.port
  BY <1>1, <1>2 DEF StatusInv
<1>4. /\ listener' = [listener EXCEPT ![run.own].state = "listening"]
      /\ run' = IdleRun
      /\ current' = [phase |-> "online", port |-> run.target.port]
  BY <1>2, <1>3 DEF Listens, Overtaken
<1>5. listener'[run.own].port = listener[run.own].port
  BY <1>1, <1>4 DEF IInv, StateOK, Place
<1>6. QED
  BY <1>1, <1>2, <1>3, <1>4, <1>5, LocalAssumption DEF StatusInv, IdleRun

\* A phone comes or goes, and a server whose last phone has left is the instance no more.
LEMMA StatusPhone ==
    ASSUME IInv, StatusInv, NEW l \in Listener,
           PhoneConnects(l) \/ PhoneLeaves(l) \/ ServerClosed(l)
    PROVE  StatusInv'
<1>1. UNCHANGED <<config, queued, run, applied, instance, current, disposer>>
  BY DEF PhoneConnects, PhoneLeaves, ServerClosed
<1>2. SUFFICES ASSUME ~Disposed PROVE StatusInv'
  BY <1>1 DEF StatusInv, Disposed
<1>3. ASSUME NEW k \in Listener, listener[k].state # "closing"
      PROVE  listener'[k].port = listener[k].port
  BY <1>3 DEF PhoneConnects, PhoneLeaves, ServerClosed, IInv, StateOK, Place
<1>4. run.at \in {"loading", "listening"} =>
          run.own \in Listener /\ listener[run.own].state # "closing"
  BY DEF IInv, StateOK, RunInv, Run
<1>5. run.at = "idle" /\ instance # NoListener =>
          instance \in Listener /\ listener[instance].state # "closing"
  BY DEF IInv, StateOK, OwnerInv
<1>6. QED
  BY <1>1, <1>2, <1>3, <1>4, <1>5 DEF StatusInv

LEMMA StatusStep == IInv /\ StatusInv /\ [LocalNext]_localVars => StatusInv'
<1> SUFFICES ASSUME IInv, StatusInv, [LocalNext]_localVars PROVE StatusInv'
  OBVIOUS
<1>1. CASE UNCHANGED localVars
  BY <1>1 DEF localVars, StatusInv, Disposed
<1>2. CASE (\E c \in Config : Configure(c)) \/ ReconcileSkips
  BY <1>2, StatusConfigure
<1>3. CASE Reconcile
  BY <1>3, StatusReconcile
<1>4. CASE PreviousStopped
  BY <1>4, StatusPrevious
<1>5. CASE TlsLoaded
  BY <1>5, StatusLoaded
<1>6. CASE TlsFails \/ PortTaken
  BY <1>6, StatusFails DEF TlsFails, PortTaken
<1>7. CASE Listens
  BY <1>7, StatusListens
<1>8. CASE Dropped
  <2>1. Disposed /\ UNCHANGED disposer
    BY <1>8 DEF Dropped, StatusInv
  <2>2. QED
    BY <2>1 DEF StatusInv, Disposed
<1>9. CASE Dispose \/ DisposeStep
  BY <1>9 DEF Dispose, DisposeStep, DisposeStopped, DisposeReturns, StatusInv, Disposed,
     IInv, StateOK
<1>10. ASSUME NEW l \in Listener, PhoneConnects(l) \/ PhoneLeaves(l) \/ ServerClosed(l)
       PROVE  StatusInv'
  BY <1>10, StatusPhone
<1>11. QED
  BY <1>1, <1>2, <1>3, <1>4, <1>5, <1>6, <1>7, <1>8, <1>9, <1>10 DEF LocalNext, ChainStep

\* When the chain of reconciles has run dry, the status shown is that of the settings and
\* of the listener there is, in whatever order changes, failures and answers came.
THEOREM StatusIsThatOfTheSettings == LocalSpec => []StatusIsRight
<1>1. LocalInit => IInv /\ StatusInv
  BY SafeInit, StatusInit
<1>2. IInv /\ StatusInv /\ [LocalNext]_localVars => (IInv /\ StatusInv)'
  BY SafeStep, StatusStep
<1>3. IInv /\ StatusInv => StatusIsRight
  BY StatusFact
<1>4. QED
  BY <1>1, <1>2, <1>3, PTL DEF LocalSpec
==============================================================================
