-------------------------- MODULE EventStoreProofs --------------------------
(***************************************************************************)
(* The event store is bounded, eviction opens no gap behind a surviving    *)
(* event, and the replay loop returns what its reference says, for every   *)
(* number of publishers, store size and clock.                             *)
(***************************************************************************)
EXTENDS EventStore, FiniteSetTheorems, SequenceTheorems, TLAPS

-----------------------------------------------------------------------------
(* What iteration over event_contexts_ and the loop of GetEventsSince       *)
(* compute, for every log.  The library's induction theorems take an        *)
(* operator, which no prover here instantiates; the arguments below use the *)
(* least counterexample instead, whose existence (LeastNatural) is a        *)
(* statement about sets.                                                    *)

\* A non-empty set of naturals has a least element.
LEMMA LeastNatural ==
  ASSUME NEW T, T \subseteq Nat, T # {}
  PROVE  \E x \in T : \A y \in T : x <= y
<1> DEFINE R == OpToRel(<, Nat)
<1>1. \A x, y \in Nat : x < y => <<x, y>> \in R
  BY DEF OpToRel
<1>2. IsWellFoundedOn(R, Nat)
  BY NatLessThanWellFounded
<1> HIDE DEF R
<1>3. PICK x \in T : \A y \in T : ~ (<<y, x>> \in R)
  BY <1>2, WFMin
<1>4. \A y \in T : ~ (y < x)
  BY <1>1, <1>3
<1>5. \A y \in T : x <= y
  BY <1>4
<1>6. QED BY <1>5

\* Contexts are told apart by their insertion number.
DistinctSeq(log) == \A e, f \in log : e.seq = f.seq => e = f

\* A set of contexts that Precedes orders totally.
Ordered(log) ==
  /\ \A e \in log : e.ts \in Nat /\ e.seq \in Nat
  /\ DistinctSeq(log)

\* event_contexts_.begin() of a non-empty store is the first context in the
\* order of iteration.
LEMMA OldestIsFirst ==
  ASSUME NEW log, Ordered(log), log # {}
  PROVE  /\ Oldest(log) \in log
         /\ \A f \in log \ {Oldest(log)} : Precedes(Oldest(log), f)
<1>0. \A e \in log : e.ts \in Nat /\ e.seq \in Nat
  BY DEF Ordered
<1> DEFINE Stamps == {e.ts : e \in log}
<1>1. PICK t \in Stamps : \A u \in Stamps : t <= u
  <2>1. Stamps \subseteq Nat /\ Stamps # {}
    BY <1>0
  <2>2. QED BY <2>1, LeastNatural
<1> DEFINE Seqs == {e.seq : e \in {f \in log : f.ts = t}}
<1>2. PICK n \in Seqs : \A m \in Seqs : n <= m
  <2>1. Seqs \subseteq Nat /\ Seqs # {}
    BY <1>0, <1>1
  <2>2. QED BY <2>1, LeastNatural
<1>3. PICK e \in log : e.ts = t /\ e.seq = n
  BY <1>2
<1>4. \A f \in log \ {e} : Precedes(e, f)
  <2> TAKE f \in log \ {e}
  <2>1. t <= f.ts
    BY <1>1
  <2>2. f.ts = t => n <= f.seq
    BY <1>2
  <2>3. f.seq # e.seq
    BY DEF Ordered, DistinctSeq
  <2>4. QED BY <2>1, <2>2, <2>3, <1>0, <1>3 DEF Precedes
<1>5. QED BY <1>4 DEF Oldest

LEMMA PrecedesIsStrict ==
  ASSUME NEW log, Ordered(log), NEW e \in log, NEW f \in log, Precedes(e, f)
  PROVE  e # f /\ ~ Precedes(f, e)
BY DEF Ordered, Precedes

LEMMA PrecedesIsTotal ==
  ASSUME NEW log, Ordered(log), NEW e \in log, NEW f \in log, e # f
  PROVE  Precedes(e, f) \/ Precedes(f, e)
<1>1. e.ts \in Nat /\ e.seq \in Nat /\ f.ts \in Nat /\ f.seq \in Nat /\ e.seq # f.seq
  BY DEF Ordered, DistinctSeq
<1>2. QED BY <1>1 DEF Precedes

-----------------------------------------------------------------------------
(* Visit enumerates the log in the order of iteration, and is the only       *)
(* sequence that does.                                                       *)

InOrder(s) == \A i, j \in DOMAIN s : i < j => Precedes(s[i], s[j])

\* s lists the contexts of log, each one once, in the order of iteration.
Lists(s, log) ==
  /\ s \in [1 .. Cardinality(log) -> log]
  /\ InOrder(s)
  /\ \A e \in log : \E i \in 1 .. Cardinality(log) : s[i] = e

LEMMA OrderedSubset ==
  ASSUME NEW log, Ordered(log), NEW sub \in SUBSET log
  PROVE  Ordered(sub)
BY DEF Ordered, DistinctSeq

\* A finite log can be put in order: the least cardinality of a subset that
\* cannot would contradict itself once its oldest context is taken away.
LEMMA OrderExists ==
  ASSUME NEW log, Ordered(log), IsFiniteSet(log)
  PROVE  \E s \in [1 .. Cardinality(log) -> log] : InOrder(s)
<1> DEFINE Bad(n) == \E T \in SUBSET log :
             Cardinality(T) = n /\ ~ \E s \in [1 .. n -> T] : InOrder(s)
           BadSizes == {n \in Nat : Bad(n)}
<1>1. \A T \in SUBSET log : IsFiniteSet(T) /\ Cardinality(T) \in Nat
  BY FS_Subset, FS_CardinalityType
<1>2. SUFFICES ASSUME BadSizes # {} PROVE FALSE
  <2>1. Cardinality(log) \in Nat /\ log \in SUBSET log
    BY <1>1
  <2>2. QED BY <2>1, <1>2
<1>3. PICK n \in BadSizes : \A m \in BadSizes : n <= m
  <2>1. BadSizes \subseteq Nat
    OBVIOUS
  <2> HIDE DEF BadSizes
  <2>2. QED BY <1>2, <2>1, LeastNatural
<1>4. PICK T \in SUBSET log : Cardinality(T) = n /\ ~ \E s \in [1 .. n -> T] : InOrder(s)
  BY <1>3
<1>5. CASE T = {}
  <2>1. n = 0
    BY <1>4, <1>5, FS_EmptySet
  <2> DEFINE none == [i \in 1 .. n |-> n]
  <2>2. none \in [1 .. n -> T] /\ InOrder(none)
    BY <2>1 DEF InOrder
  <2>3. QED BY <1>4, <2>2
<1>6. CASE T # {}
  <2> DEFINE first == Oldest(T)
             rest == T \ {first}
  <2>1. first \in T /\ \A f \in rest : Precedes(first, f)
    BY <1>6, OrderedSubset, OldestIsFirst
  <2> HIDE DEF first
  <2>2. Cardinality(rest) = n - 1
    BY <1>1, <1>4, <2>1, FS_RemoveElement
  <2>3. rest \in SUBSET log /\ n \in Nat /\ n - 1 \in Nat
    BY <1>1, <2>2
  <2> HIDE DEF rest
  <2>4. PICK s \in [1 .. n - 1 -> rest] : InOrder(s)
    <3>1. ~ Bad(n - 1)
      <4>1. n - 1 \notin BadSizes
        BY <1>3, <2>3
      <4>2. QED BY <2>3, <4>1
    <3>2. QED BY <2>2, <2>3, <3>1
  <2> DEFINE t == [i \in 1 .. n |-> IF i = 1 THEN first ELSE s[i - 1]]
  <2>5. \A i \in 1 .. n : i # 1 => i - 1 \in 1 .. n - 1 /\ s[i - 1] \in rest
    BY <2>3, <2>4
  <2>6. t \in [1 .. n -> T]
    BY <2>1, <2>5 DEF rest
  <2>7. ASSUME NEW i \in 1 .. n, NEW j \in 1 .. n, i < j PROVE Precedes(t[i], t[j])
    <3>1. j # 1 /\ s[j - 1] \in rest /\ t[j] = s[j - 1]
      BY <2>5, <2>7
    <3>2. CASE i = 1
      BY <2>1, <3>1, <3>2
    <3>3. CASE i # 1
      <4>1. i - 1 \in 1 .. n - 1 /\ j - 1 \in 1 .. n - 1 /\ i - 1 < j - 1 /\ t[i] = s[i - 1]
        BY <2>3, <2>5, <2>7, <3>1, <3>3
      <4>2. DOMAIN s = 1 .. n - 1
        BY <2>4
      <4>3. QED BY <2>4, <3>1, <4>1, <4>2 DEF InOrder
    <3>4. QED BY <3>2, <3>3
  <2>8. InOrder(t)
    <3>1. DOMAIN t = 1 .. n
      OBVIOUS
    <3> HIDE DEF t
    <3>2. QED BY <2>7, <3>1 DEF InOrder
  <2>9. QED BY <1>4, <2>6, <2>8
<1>7. QED BY <1>5, <1>6

LEMMA InOrderIsInjective ==
  ASSUME NEW log, Ordered(log), NEW n \in Nat, NEW s \in [1 .. n -> log], InOrder(s),
         NEW i \in 1 .. n, NEW j \in 1 .. n, s[i] = s[j]
  PROVE  i = j
<1>1. DOMAIN s = 1 .. n /\ s[i] \in log /\ s[j] \in log
  OBVIOUS
<1>2. ~ (i < j) /\ ~ (j < i)
  BY <1>1, PrecedesIsStrict DEF InOrder
<1>3. QED BY <1>2

\* A sequence in order that takes all its elements from log and has as many.
LEMMA InOrderLists ==
  ASSUME NEW log, Ordered(log), IsFiniteSet(log),
         NEW s \in [1 .. Cardinality(log) -> log], InOrder(s)
  PROVE  Lists(s, log)
<1> DEFINE n == Cardinality(log)
<1>1. n \in Nat
  BY FS_CardinalityType
<1>2. IsFiniteSet(1 .. n) /\ Cardinality(1 .. n) = n
  BY <1>1, FS_Interval
<1>3. s \in Injection(1 .. n, log)
  BY <1>1, InOrderIsInjective DEF Injection, IsInjective
<1>4. s \in Surjection(1 .. n, log)
  BY <1>2, <1>3, FS_Injection
<1>5. QED BY <1>4 DEF Lists, Surjection

\* Iterating over a finite log visits every context once, in order.
LEMMA VisitLists ==
  ASSUME NEW log, Ordered(log), IsFiniteSet(log)
  PROVE  Lists(Visit(log), log)
<1>1. Visit(log) \in [1 .. Cardinality(log) -> log] /\ InOrder(Visit(log))
  BY OrderExists DEF Visit, InOrder
<1>2. QED BY <1>1, InOrderLists

\* and no other sequence does: two of them would have a first difference.
LEMMA ListsIsUnique ==
  ASSUME NEW log, Ordered(log), IsFiniteSet(log), NEW s, NEW t, Lists(s, log), Lists(t, log)
  PROVE  s = t
<1> DEFINE n == Cardinality(log)
           Differ == {i \in 1 .. n : s[i] # t[i]}
<1>1. /\ n \in Nat /\ s \in [1 .. n -> log] /\ t \in [1 .. n -> log]
      /\ InOrder(s) /\ InOrder(t)
  BY FS_CardinalityType DEF Lists
<1>2. \A e \in log : (\E i \in 1 .. n : s[i] = e) /\ (\E i \in 1 .. n : t[i] = e)
  BY DEF Lists
<1> HIDE DEF n
<1>3. \A i, j \in 1 .. n : (s[i] = s[j] => i = j) /\ (t[i] = t[j] => i = j)
  <2>1. \A i, j \in 1 .. n : s[i] = s[j] => i = j
    BY <1>1, InOrderIsInjective
  <2>2. \A i, j \in 1 .. n : t[i] = t[j] => i = j
    BY <1>1, InOrderIsInjective
  <2>3. QED BY <2>1, <2>2
<1>4. SUFFICES ASSUME Differ # {} PROVE FALSE
  <2>1. CASE Differ = {}
    <3>1. \A i \in 1 .. n : s[i] = t[i]
      BY <2>1
    <3>2. QED BY <1>1, <3>1
  <2>2. QED BY <1>4, <2>1
<1>5. PICK k \in Differ : \A i \in Differ : k <= i
  <2>1. Differ \subseteq Nat
    BY <1>1
  <2> HIDE DEF Differ
  <2>2. QED BY <1>4, <2>1, LeastNatural
<1>6. k \in 1 .. n /\ s[k] # t[k] /\ \A i \in 1 .. n : i < k => s[i] = t[i]
  BY <1>1, <1>5
<1>7. s[k] \in log /\ t[k] \in log /\ DOMAIN s = 1 .. n /\ DOMAIN t = 1 .. n
  BY <1>1, <1>6
\* what t has at k comes later in s, and the other way round.
<1>8. Precedes(s[k], t[k])
  <2>1. PICK i \in 1 .. n : s[i] = t[k]
    BY <1>7, <1>2
  <2>2. ~ (i < k)
    <3> SUFFICES ASSUME i < k PROVE FALSE
      OBVIOUS
    <3>1. t[i] = t[k]
      BY <1>6, <2>1
    <3>2. i = k
      BY <1>6, <1>3, <3>1
    <3>3. QED BY <1>1, <1>6, <3>2
  <2>3. k < i
    BY <1>1, <1>6, <2>1, <2>2
  <2>4. QED BY <1>1, <1>6, <1>7, <2>1, <2>3 DEF InOrder
<1>9. Precedes(t[k], s[k])
  <2>1. PICK i \in 1 .. n : t[i] = s[k]
    BY <1>7, <1>2
  <2>2. ~ (i < k)
    <3> SUFFICES ASSUME i < k PROVE FALSE
      OBVIOUS
    <3>1. s[i] = s[k]
      BY <1>6, <2>1
    <3>2. i = k
      BY <1>6, <1>3, <3>1
    <3>3. QED BY <1>1, <1>6, <3>2
  <2>3. k < i
    BY <1>1, <1>6, <2>1, <2>2
  <2>4. QED BY <1>1, <1>6, <1>7, <2>1, <2>3 DEF InOrder
<1>10. QED BY <1>7, <1>8, <1>9, PrecedesIsStrict

\* A sequence in order is the iteration over the set of its elements.
LEMMA InOrderIsVisit ==
  ASSUME NEW log, Ordered(log), NEW s \in Seq(log), InOrder(s),
         NEW sub, sub = {s[i] : i \in 1 .. Len(s)}
  PROVE  s = Visit(sub)
<1> DEFINE n == Len(s)
<1>1. n \in Nat /\ s \in [1 .. n -> log] /\ sub \in SUBSET log
  BY ElementOfSeq, LenProperties
<1>2. s \in [1 .. n -> sub] /\ Ordered(sub)
  BY <1>1, OrderedSubset
<1>3. s \in Bijection(1 .. n, sub)
  <2>1. \A i, j \in 1 .. n : s[i] = s[j] => i = j
    BY <1>1, InOrderIsInjective
  <2>2. \A e \in sub : \E i \in 1 .. n : s[i] = e
    OBVIOUS
  <2>3. QED BY <1>2, <2>1, <2>2 DEF Bijection, Injection, Surjection, IsInjective
<1>4. Cardinality(sub) = n /\ IsFiniteSet(sub)
  <2>1. ExistsBijection(1 .. n, sub)
    BY <1>3 DEF ExistsBijection
  <2>2. IsFiniteSet(sub)
    BY <1>1, <2>1, FS_NatBijection
  <2>3. QED BY <1>1, <2>1, <2>2, FS_CountingElements
<1>5. Lists(s, sub)
  BY <1>2, <1>4 DEF Lists
<1>6. QED BY <1>2, <1>4, <1>5, VisitLists, ListsIsUnique

-----------------------------------------------------------------------------
(* The loop of GetEventsSince.                                               *)

Begin == [out |-> <<>>, owner |-> {}]

\* loop is the history of the loop's variables over the first n contexts.
IsLoop(loop, n, visit, rid) ==
  loop = [k \in 0 .. n |-> IF k = 0 THEN Begin ELSE Turn(loop[k - 1], visit[k], rid)]

\* The recursive definition of the loop defines a function.
LEMMA LoopExists ==
  ASSUME NEW n \in Nat, NEW visit, NEW rid
  PROVE  \E loop : IsLoop(loop, n, visit, rid)
<1> DEFINE Bad == {m \in Nat : ~ \E loop : IsLoop(loop, m, visit, rid)}
<1>1. SUFFICES ASSUME Bad # {} PROVE FALSE
  BY <1>1
<1>2. PICK m \in Bad : \A k \in Bad : m <= k
  <2>1. Bad \subseteq Nat
    OBVIOUS
  <2> HIDE DEF Bad
  <2>2. QED BY <1>1, <2>1, LeastNatural
<1>3. CASE m = 0
  <2> DEFINE l == [k \in 0 .. 0 |-> Begin]
  <2>1. IsLoop(l, 0, visit, rid)
    BY DEF IsLoop
  <2>2. QED BY <1>2, <1>3, <2>1
<1>4. CASE m # 0
  <2>1. m \in Nat /\ m - 1 \in Nat /\ m - 1 \notin Bad
    BY <1>2, <1>4
  <2>2. PICK l : IsLoop(l, m - 1, visit, rid)
    BY <2>1
  <2> DEFINE f == [k \in 0 .. m |-> IF k = m THEN Turn(l[m - 1], visit[m], rid) ELSE l[k]]
  <2>3. ASSUME NEW k \in 0 .. m
        PROVE  f[k] = IF k = 0 THEN Begin ELSE Turn(f[k - 1], visit[k], rid)
    <3>1. CASE k = m
      <4>1. f[k - 1] = l[m - 1]
        BY <2>1, <3>1
      <4>2. QED BY <1>4, <3>1, <4>1
    <3>2. CASE k # m
      <4>1. k \in 0 .. m - 1 /\ f[k] = l[k]
        BY <2>1, <3>2
      <4>2. CASE k = 0
        BY <2>2, <4>1, <4>2 DEF IsLoop
      <4>3. CASE k # 0
        <5>1. f[k - 1] = l[k - 1]
          BY <2>1, <4>1, <4>3
        <5>2. l[k] = Turn(l[k - 1], visit[k], rid)
          BY <2>2, <4>1, <4>3 DEF IsLoop
        <5>3. QED BY <4>1, <4>3, <5>1, <5>2
      <4>4. QED BY <4>2, <4>3
    <3>3. QED BY <3>1, <3>2
  <2>4. IsLoop(f, m, visit, rid)
    <3>1. DOMAIN f = 0 .. m /\ f = [k \in 0 .. m |-> f[k]]
      OBVIOUS
    <3> HIDE DEF f
    <3>2. QED BY <2>3, <3>1 DEF IsLoop
  <2>5. QED BY <1>2, <2>4
<1>5. QED BY <1>3, <1>4

LEMMA SinceIsLoop ==
  ASSUME NEW log, Cardinality(log) \in Nat, NEW rid
  PROVE  \E loop : /\ IsLoop(loop, Cardinality(log), Visit(log), rid)
                   /\ GetEventsSince(log, rid) = loop[Cardinality(log)].out
<1> DEFINE l == CHOOSE loop : IsLoop(loop, Cardinality(log), Visit(log), rid)
<1>1. IsLoop(l, Cardinality(log), Visit(log), rid)
  BY LoopExists
<1>2. GetEventsSince(log, rid) = l[Cardinality(log)].out
  BY DEF GetEventsSince, IsLoop, Begin
<1>3. QED BY <1>1, <1>2

\* The context visited at i comes after one with the given id, and belongs to
\* the same subscription.
Returned(visit, i, rid) ==
  visit[i].sub = rid[1] /\ \E j \in 1 .. i - 1 : RedfishEventId(visit[j]) = rid

\* What the loop's variables hold after the first k contexts.
Collected(acc, log, visit, k, rid) ==
  /\ \A x : x \in acc.owner <=> x = rid[1] /\ \E j \in 1 .. k : RedfishEventId(visit[j]) = rid
  /\ acc.out \in Seq(log)
  /\ InOrder(acc.out)
  /\ \A i \in 1 .. Len(acc.out) : \E m \in 1 .. k : acc.out[i] = visit[m] /\ Returned(visit, m, rid)
  /\ \A m \in 1 .. k : Returned(visit, m, rid) => \E i \in 1 .. Len(acc.out) : acc.out[i] = visit[m]

LEMMA TurnCollects ==
  ASSUME NEW log, NEW n \in Nat, NEW visit \in [1 .. n -> log], InOrder(visit),
         NEW rid, NEW k \in 1 .. n, NEW acc, Collected(acc, log, visit, k - 1, rid)
  PROVE  Collected(Turn(acc, visit[k], rid), log, visit, k, rid)
<1> DEFINE e == visit[k]
           new == Turn(acc, e, rid)
           Met(i) == \E j \in 1 .. i : RedfishEventId(visit[j]) = rid
<1>1. e \in log /\ k \in Nat /\ k - 1 \in Nat /\ 1 .. k = (1 .. k - 1) \union {k}
  OBVIOUS
<1>2. /\ new.out = IF e.sub \in acc.owner THEN Append(acc.out, e) ELSE acc.out
      /\ new.owner = IF RedfishEventId(e) = rid THEN {e.sub} ELSE acc.owner
  BY DEF Turn
<1>3. e.sub \in acc.owner <=> Returned(visit, k, rid)
  BY DEF Collected, Returned
<1>4. \A x : x \in new.owner <=> x = rid[1] /\ Met(k)
  <2>1. Met(k) <=> Met(k - 1) \/ RedfishEventId(e) = rid
    BY <1>1
  <2>2. RedfishEventId(e) = rid => e.sub = rid[1]
    BY DEF RedfishEventId
  <2>3. \A x : x \in acc.owner <=> x = rid[1] /\ Met(k - 1)
    BY DEF Collected
  <2> HIDE DEF Met, new, e
  <2>4. CASE RedfishEventId(e) = rid
    BY <1>2, <2>1, <2>2, <2>4
  <2>5. CASE RedfishEventId(e) # rid
    BY <1>2, <2>1, <2>3, <2>5
  <2>6. QED BY <2>4, <2>5
<1> DEFINE out == acc.out
<1>5. /\ out \in Seq(log) /\ Len(out) \in Nat /\ DOMAIN out = 1 .. Len(out)
      /\ InOrder(out)
      /\ \A i \in 1 .. Len(out) : \E m \in 1 .. k - 1 : out[i] = visit[m] /\ Returned(visit, m, rid)
      /\ \A m \in 1 .. k - 1 : Returned(visit, m, rid) => \E i \in 1 .. Len(out) : out[i] = visit[m]
  <2>1. out \in Seq(log)
    BY DEF Collected
  <2>2. QED BY <2>1, LenProperties DEF Collected
<1>6. CASE ~ Returned(visit, k, rid)
  <2>1. new.out = out
    BY <1>2, <1>3, <1>6
  <2> HIDE DEF new, e, out
  <2>2. \A i \in 1 .. Len(out) : \E m \in 1 .. k : out[i] = visit[m] /\ Returned(visit, m, rid)
    BY <1>1, <1>5
  <2>3. \A m \in 1 .. k : Returned(visit, m, rid) => \E i \in 1 .. Len(out) : out[i] = visit[m]
    BY <1>1, <1>5, <1>6
  <2>4. Collected(new, log, visit, k, rid)
    BY <1>4, <1>5, <2>1, <2>2, <2>3 DEF Collected
  <2>5. QED BY <2>4 DEF new, e
<1>7. CASE Returned(visit, k, rid)
  <2> DEFINE longer == Append(out, e)
             l == Len(out)
  <2>1. new.out = longer
    BY <1>2, <1>3, <1>7
  <2>2. /\ longer \in Seq(log) /\ Len(longer) = l + 1 /\ DOMAIN longer = 1 .. l + 1
        /\ \A i \in 1 .. l : longer[i] = out[i]
        /\ longer[l + 1] = visit[k]
    BY <1>1, <1>5, AppendProperties, LenProperties
  <2>3. l \in Nat /\ 1 .. l + 1 = (1 .. l) \union {l + 1} /\ l + 1 \notin 1 .. l
    BY <1>5
  <2> HIDE DEF new, e, longer, out, l
  <2>4. \A i \in 1 .. l + 1 : \E m \in 1 .. k : longer[i] = visit[m] /\ Returned(visit, m, rid)
    <3> TAKE i \in 1 .. l + 1
    <3>1. CASE i = l + 1
      BY <1>1, <1>7, <2>2, <3>1
    <3>2. CASE i # l + 1
      BY <1>1, <1>5, <2>2, <2>3, <3>2 DEF l
    <3>3. QED BY <3>1, <3>2
  <2>5. \A m \in 1 .. k : Returned(visit, m, rid) => \E i \in 1 .. l + 1 : longer[i] = visit[m]
    <3> SUFFICES ASSUME NEW m \in 1 .. k, Returned(visit, m, rid)
                 PROVE  \E i \in 1 .. l + 1 : longer[i] = visit[m]
      OBVIOUS
    <3>1. CASE m = k
      BY <2>2, <2>3, <3>1
    <3>2. CASE m # k
      <4>1. PICK i \in 1 .. l : out[i] = visit[m]
        BY <1>1, <1>5, <3>2 DEF l
      <4>2. QED BY <2>2, <2>3, <4>1
    <3>3. QED BY <3>1, <3>2
  <2>6. InOrder(longer)
    <3> SUFFICES ASSUME NEW i \in 1 .. l + 1, NEW j \in 1 .. l + 1, i < j
                 PROVE  Precedes(longer[i], longer[j])
      BY <2>2 DEF InOrder
    <3>1. i \in 1 .. l /\ longer[i] = out[i]
      BY <2>2, <2>3
    <3>2. CASE j = l + 1
      <4>1. PICK m \in 1 .. k - 1 : out[i] = visit[m]
        BY <1>5, <3>1 DEF l
      <4>2. m \in DOMAIN visit /\ k \in DOMAIN visit /\ m < k
        BY <1>1
      <4>3. Precedes(visit[m], visit[k])
        BY <4>2 DEF InOrder
      <4>4. QED BY <2>2, <3>1, <3>2, <4>1, <4>3
    <3>3. CASE j # l + 1
      <4>1. j \in 1 .. l /\ longer[j] = out[j]
        BY <2>2, <2>3, <3>3
      <4>2. QED BY <1>5, <3>1, <4>1 DEF InOrder, l
    <3>4. QED BY <3>2, <3>3
  <2>7. Collected(new, log, visit, k, rid)
    BY <1>4, <2>1, <2>2, <2>4, <2>5, <2>6 DEF Collected
  <2>8. QED BY <2>7 DEF new, e
<1>8. QED BY <1>6, <1>7

LEMMA LoopCollects ==
  ASSUME NEW log, NEW n \in Nat, NEW visit \in [1 .. n -> log], InOrder(visit),
         NEW rid, NEW loop, IsLoop(loop, n, visit, rid)
  PROVE  Collected(loop[n], log, visit, n, rid)
<1> DEFINE Bad == {k \in 0 .. n : ~ Collected(loop[k], log, visit, k, rid)}
<1>1. SUFFICES ASSUME Bad # {} PROVE FALSE
  BY <1>1
<1>2. PICK k \in Bad : \A i \in Bad : k <= i
  <2>1. Bad \subseteq Nat
    OBVIOUS
  <2> HIDE DEF Bad
  <2>2. QED BY <1>1, <2>1, LeastNatural
<1>3. k \in 0 .. n /\ ~ Collected(loop[k], log, visit, k, rid)
  OBVIOUS
<1>4. CASE k = 0
  <2>1. loop[0] = Begin
    BY DEF IsLoop
  <2>2. Collected(Begin, log, visit, 0, rid)
    <3>1. /\ Begin.out = <<>> /\ Begin.owner = {} /\ <<>> \in Seq(log) /\ Len(<<>>) = 0
          /\ DOMAIN <<>> = {} /\ 1 .. 0 = {}
      BY DEF Begin
    <3>2. QED BY <3>1 DEF Collected, InOrder
  <2>3. QED BY <1>3, <1>4, <2>1, <2>2
<1>5. CASE k # 0
  <2>1. k \in 1 .. n /\ k - 1 \in 0 .. n /\ k - 1 \notin Bad
    BY <1>2, <1>3, <1>5
  <2>2. Collected(loop[k - 1], log, visit, k - 1, rid)
    BY <2>1
  <2>3. loop[k] = Turn(loop[k - 1], visit[k], rid)
    BY <1>3, <1>5 DEF IsLoop
  <2>4. QED BY <1>3, <2>1, <2>2, <2>3, TurnCollects
<1>6. QED BY <1>4, <1>5

\* The events that GetEventsSince(rid) owes to a subscriber: the stored ones of
\* the subscription that owns rid that come after an event with that id.
Since(log, rid) ==
  {e \in log : e.sub = rid[1] /\ \E b \in log : RedfishEventId(b) = rid /\ Precedes(b, e)}

\* GetEventsSince returns exactly those events, each one once, in the order of
\* iteration.
LEMMA SinceReturns ==
  ASSUME NEW log, Ordered(log), IsFiniteSet(log), NEW rid
  PROVE  /\ GetEventsSince(log, rid) \in Seq(log)
         /\ InOrder(GetEventsSince(log, rid))
         /\ Since(log, rid) = {GetEventsSince(log, rid)[i] : i \in 1 .. Len(GetEventsSince(log, rid))}
<1> DEFINE n == Cardinality(log)
           visit == Visit(log)
           out == GetEventsSince(log, rid)
<1>1. n \in Nat /\ Lists(visit, log)
  BY VisitLists, FS_CardinalityType
<1>2. visit \in [1 .. n -> log] /\ InOrder(visit) /\ DOMAIN visit = 1 .. n
  BY <1>1 DEF Lists
<1>3. \A e \in log : \E i \in 1 .. n : visit[i] = e
  BY <1>1 DEF Lists
<1>4. PICK loop : IsLoop(loop, n, visit, rid) /\ out = loop[n].out
  BY <1>1, SinceIsLoop
<1> HIDE DEF n, visit, out
<1>5. Collected(loop[n], log, visit, n, rid)
  BY <1>1, <1>2, <1>4, LoopCollects
<1>6. out \in Seq(log) /\ InOrder(out)
  BY <1>4, <1>5 DEF Collected
\* The position in the iteration is the order of the contexts.
<1>7. \A i, j \in 1 .. n : Precedes(visit[j], visit[i]) => j \in 1 .. i - 1
  <2> SUFFICES ASSUME NEW i \in 1 .. n, NEW j \in 1 .. n, Precedes(visit[j], visit[i])
               PROVE  j < i
    BY <1>1
  <2>1. visit[i] \in log /\ visit[j] \in log
    BY <1>2
  <2>2. visit[i] # visit[j] /\ ~ Precedes(visit[i], visit[j])
    BY <2>1, PrecedesIsStrict
  <2>3. ~ (i < j) /\ i # j
    BY <1>2, <2>2 DEF InOrder
  <2>4. QED BY <1>1, <2>3
<1>8. \A i \in 1 .. n : Returned(visit, i, rid) <=> visit[i] \in Since(log, rid)
  <2> TAKE i \in 1 .. n
  <2>0. visit[i] \in log
    BY <1>2
  <2>1. ASSUME Returned(visit, i, rid) PROVE visit[i] \in Since(log, rid)
    <3>1. PICK j \in 1 .. i - 1 : RedfishEventId(visit[j]) = rid
      BY <2>1 DEF Returned
    <3>2. j \in 1 .. n /\ j < i
      BY <1>1
    <3>3. visit[j] \in log /\ Precedes(visit[j], visit[i])
      BY <1>2, <3>2 DEF InOrder
    <3>4. QED BY <2>0, <2>1, <3>1, <3>3 DEF Since, Returned
  <2>2. ASSUME visit[i] \in Since(log, rid) PROVE Returned(visit, i, rid)
    <3>1. PICK b \in log : RedfishEventId(b) = rid /\ Precedes(b, visit[i])
      BY <2>2 DEF Since
    <3>2. PICK j \in 1 .. n : visit[j] = b
      BY <1>3
    <3>3. j \in 1 .. i - 1
      BY <1>7, <3>1, <3>2
    <3>4. QED BY <2>2, <3>1, <3>2, <3>3 DEF Since, Returned
  <2>3. QED BY <2>1, <2>2
<1>9. \A i \in 1 .. Len(out) : out[i] \in Since(log, rid)
  BY <1>4, <1>5, <1>8 DEF Collected
<1>10. \A e \in Since(log, rid) : \E i \in 1 .. Len(out) : out[i] = e
  <2> TAKE e \in Since(log, rid)
  <2>1. PICK m \in 1 .. n : visit[m] = e
    BY <1>3 DEF Since
  <2>2. QED BY <1>4, <1>5, <1>8, <2>1 DEF Collected
<1>11. Since(log, rid) = {out[i] : i \in 1 .. Len(out)}
  BY <1>9, <1>10
<1>12. QED BY <1>6, <1>11 DEF out

-----------------------------------------------------------------------------
(* The store under concurrent publishers. *)

\* What the history variables say of the store.
HistoryInv ==
  /\ event_contexts \subseteq added
  /\ \A e \in added : e.seq < inserts
  /\ DistinctSeq(added)

\* The inductive invariant: neither StoreBounded nor LaterEventsSurvive is
\* inductive without the history, which makes insertion numbers fresh.
IInv == TypeOK /\ HistoryInv /\ StoreBounded /\ LaterEventsSurvive

LEMMA InitIInv == Init => IInv
<1> SUFFICES ASSUME Init PROVE IInv
  OBVIOUS
<1>1. TypeOK
  BY BoundsAssumption DEF Init, TypeOK
<1>2. StoreBounded
  BY FS_EmptySet, StoreSizeAssumption DEF Init, StoreBounded
<1>3. HistoryInv /\ LaterEventsSurvive
  BY DEF Init, HistoryInv, DistinctSeq, LaterEventsSurvive
<1>4. QED BY <1>1, <1>2, <1>3 DEF IInv

\* The contexts in the store are totally ordered by timestamp and insertion.
LEMMA IInvOrdered ==
  ASSUME IInv
  PROVE  Ordered(event_contexts)
BY BoundsAssumption DEF IInv, TypeOK, HistoryInv, Contexts, Ordered, DistinctSeq

\* The whole effect of AddNewEvent on the invariant.
LEMMA AddNewEventIInv ==
  ASSUME IInv, NEW p \in Publishers, AddNewEvent(p)
  PROVE  IInv'
<1> USE DEF IInv
<1>1. PICK id \in pending[p] :
        /\ event_contexts' = Insert(event_contexts, StoreSize, Context(id))
        /\ added' = added \union {Context(id)}
  BY DEF AddNewEvent
<1> DEFINE new == Context(id)
<1>2. id \in EventIds /\ inserts \in Nat /\ inserts' = inserts + 1
  BY DEF TypeOK, AddNewEvent
<1>3. /\ new \in Contexts
      /\ new.seq = inserts
      /\ new.ts = id.ts
      /\ new \notin added
  BY <1>2 DEF EventIds, Contexts, Context, HistoryInv
<1>4. \A e \in added : e.ts \in Nat /\ e.seq \in Nat /\ e.seq < new.seq
  BY <1>3, BoundsAssumption DEF TypeOK, Contexts, HistoryInv
<1>5. Ordered(event_contexts)
  BY IInvOrdered
<1>6. Cardinality(event_contexts) \in Nat /\ IsFiniteSet(event_contexts)
  BY FS_CardinalityType DEF StoreBounded
\* Either nothing is evicted, or the first context in iteration order is.
<1>7. \/ /\ Cardinality(event_contexts) < StoreSize
         /\ event_contexts' = event_contexts \union {new}
      \/ /\ Cardinality(event_contexts) = StoreSize
         /\ Oldest(event_contexts) \in event_contexts
         /\ \A f \in event_contexts \ {Oldest(event_contexts)} :
              Precedes(Oldest(event_contexts), f)
         /\ event_contexts' = (event_contexts \ {Oldest(event_contexts)}) \union {new}
  <2>1. CASE Cardinality(event_contexts) = StoreSize
    <3>1. event_contexts # {}
      BY <2>1, FS_EmptySet, StoreSizeAssumption
    <3>2. QED BY <2>1, <3>1, <1>1, <1>5, OldestIsFirst DEF Insert
  <2>2. CASE Cardinality(event_contexts) # StoreSize
    BY <2>2, <1>1, <1>6, StoreSizeAssumption DEF Insert, StoreBounded
  <2>3. QED BY <2>1, <2>2
<1>8. event_contexts' \subseteq event_contexts \union {new} /\ new \in event_contexts'
  BY <1>7
<1>9. TypeOK'
  <2>1. pending' \in [Publishers -> SUBSET EventIds] /\ clock' = clock
    BY DEF AddNewEvent, TypeOK
  <2>2. QED BY <2>1, <1>1, <1>2, <1>3, <1>8 DEF TypeOK
<1>10. HistoryInv'
  <2>1. event_contexts' \subseteq added'
    BY <1>1, <1>8 DEF HistoryInv
  <2>2. \A e \in added' : e.seq < inserts'
    BY <1>1, <1>2, <1>3, <1>4
  <2>3. DistinctSeq(added)'
    BY <1>1, <1>3, <1>4 DEF HistoryInv, DistinctSeq
  <2>4. QED BY <2>1, <2>2, <2>3 DEF HistoryInv
<1>11. StoreBounded'
  <2>1. new \notin event_contexts
    BY <1>3 DEF HistoryInv
  <2>2. CASE /\ Cardinality(event_contexts) < StoreSize
             /\ event_contexts' = event_contexts \union {new}
    <3>1. /\ IsFiniteSet(event_contexts \union {new})
          /\ Cardinality(event_contexts \union {new}) = Cardinality(event_contexts) + 1
      <4> HIDE DEF new
      <4> QED BY <2>1, <1>6, FS_AddElement
    <3>2. QED BY <2>2, <3>1, <1>6, StoreSizeAssumption DEF StoreBounded
  <2>3. CASE /\ Cardinality(event_contexts) = StoreSize
             /\ Oldest(event_contexts) \in event_contexts
             /\ event_contexts' = (event_contexts \ {Oldest(event_contexts)}) \union {new}
    <3> DEFINE rest == event_contexts \ {Oldest(event_contexts)}
    <3>1. IsFiniteSet(rest) /\ Cardinality(rest) = StoreSize - 1
      BY <2>3, <1>6, FS_RemoveElement
    <3>2. new \notin rest
      BY <2>1
    <3>3. IsFiniteSet(rest \union {new}) /\ Cardinality(rest \union {new}) = StoreSize
      <4> HIDE DEF rest, new
      <4> QED BY <3>1, <3>2, FS_AddElement, StoreSizeAssumption
    <3>4. QED BY <2>3, <3>3, StoreSizeAssumption DEF StoreBounded
  <2>4. QED BY <2>2, <2>3, <1>7
<1>12. LaterEventsSurvive'
  <2> SUFFICES ASSUME NEW b \in event_contexts', NEW e \in added',
                      e.seq > b.seq, e.ts >= b.ts
               PROVE  e \in event_contexts'
    BY DEF LaterEventsSurvive
  <2>1. CASE e = new
    BY <2>1, <1>8
  <2>2. CASE e # new
    <3>1. e \in added /\ b # new
      <4>1. e \in added
        BY <2>2, <1>1
      <4>2. e.seq \in Nat /\ new.seq \in Nat /\ e.seq < new.seq
        BY <4>1, <1>2, <1>3, <1>4
      <4> HIDE DEF new
      <4>3. QED BY <4>1, <4>2
    <3>2. b \in event_contexts /\ b \in added
      BY <3>1, <1>8 DEF HistoryInv
    <3>3. e \in event_contexts
      BY <3>1, <3>2 DEF LaterEventsSurvive
    <3>4. ~ Precedes(e, b)
      BY <3>1, <3>2, <1>4 DEF Precedes
    <3>5. b # e
      BY <3>1, <3>2, <1>4
    <3>6. QED BY <3>3, <3>4, <3>5, <3>2, <3>1, <1>7
  <2>3. QED BY <2>1, <2>2
<1>13. QED BY <1>9, <1>10, <1>11, <1>12

LEMMA NextIInv == IInv /\ [Next]_vars => IInv'
<1> SUFFICES ASSUME IInv, [Next]_vars PROVE IInv'
  OBVIOUS
<1>1. CASE UNCHANGED vars
  BY <1>1 DEF vars, IInv, TypeOK, HistoryInv, DistinctSeq, StoreBounded,
              LaterEventsSurvive
<1>2. CASE Tick
  BY <1>2 DEF Tick, IInv, TypeOK, HistoryInv, DistinctSeq, StoreBounded,
              LaterEventsSurvive
<1>3. ASSUME NEW p \in Publishers, NEW s \in Subs, NEW src \in Sources,
             StampEvent(p, s, src)
      PROVE  IInv'
  <2>1. TypeOK'
    BY <1>3 DEF StampEvent, IInv, TypeOK, EventIds
  <2>2. (HistoryInv /\ StoreBounded /\ LaterEventsSurvive)'
    BY <1>3 DEF StampEvent, IInv, HistoryInv, DistinctSeq, StoreBounded,
                LaterEventsSurvive
  <2>3. QED BY <2>1, <2>2 DEF IInv
<1>4. ASSUME NEW p \in Publishers, AddNewEvent(p) PROVE IInv'
  BY <1>4, AddNewEventIInv
<1>5. CASE Clear
  <2>1. StoreBounded'
    BY <1>5, FS_EmptySet, StoreSizeAssumption DEF Clear, StoreBounded
  <2>2. (TypeOK /\ HistoryInv /\ LaterEventsSurvive)'
    BY <1>5 DEF Clear, IInv, TypeOK, HistoryInv, DistinctSeq, LaterEventsSurvive
  <2>3. QED BY <2>1, <2>2 DEF IInv
<1>6. QED BY <1>1, <1>2, <1>3, <1>4, <1>5 DEF Next

LEMMA SpecIInv == Spec => []IInv
  BY InitIInv, NextIInv, PTL DEF Spec

\* The store keeps well-typed contexts under every interleaving of stamping,
\* insertion, clearing and clock movement.
THEOREM TypeCorrect == Spec => []TypeOK
  BY SpecIInv, PTL DEF IInv

\* AddNewEvent never lets event_contexts_ outgrow store_size_.
THEOREM Bounded == Spec => []StoreBounded
  BY SpecIInv, PTL DEF IInv

\* Eviction in AddNewEvent opens no gap behind a surviving event.
THEOREM NoGapBehindSurvivor == Spec => []LaterEventsSurvive
  BY SpecIInv, PTL DEF IInv

LEMMA IInvReplays ==
  ASSUME IInv
  PROVE  ReplayMatchesReference
<1>1. Ordered(event_contexts) /\ IsFiniteSet(event_contexts)
  BY IInvOrdered DEF IInv, StoreBounded
<1> SUFFICES ASSUME NEW id \in EventIds
             PROVE  GetEventsSince(event_contexts, RedfishEventId(id))
                      = Visit({e \in event_contexts : e.sub = id.sub /\
                                 \E b \in event_contexts :
                                   RedfishEventId(b) = RedfishEventId(id) /\ Precedes(b, e)})
  BY DEF ReplayMatchesReference
<1> DEFINE rid == RedfishEventId(id)
<1>2. rid[1] = id.sub
  BY DEF RedfishEventId
<1> HIDE DEF rid
<1>3. GetEventsSince(event_contexts, rid) = Visit(Since(event_contexts, rid))
  BY <1>1, SinceReturns, InOrderIsVisit
<1>4. Since(event_contexts, rid) =
        {e \in event_contexts : e.sub = id.sub /\
           \E b \in event_contexts : RedfishEventId(b) = rid /\ Precedes(b, e)}
  BY <1>2 DEF Since
<1>5. QED BY <1>3, <1>4 DEF rid

\* The loop of GetEventsSince returns, in chronological order, exactly the
\* stored events of the subscription that owns the id and follow it, whatever
\* was stamped, inserted, evicted and cleared before.
THEOREM ReplayIsComplete == Spec => []ReplayMatchesReference
  BY SpecIInv, IInvReplays, PTL
=============================================================================
