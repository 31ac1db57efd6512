------------------------- MODULE QueryRouterProofs -------------------------
(***************************************************************************)
(* The reference counts are exact, a cancellation leaves no trace, and     *)
(* every query is reported to the callback once, for every number of       *)
(* calls, cancellations, engines, queries and pool threads and for every   *)
(* routing table and query pattern.                                        *)
(***************************************************************************)
EXTENDS QueryRouter, FiniteSetTheorems, SequenceTheorems, TLAPS

-----------------------------------------------------------------------------
(* Where the queries of a call are: a query of an engine is a pair.          *)

Pairs == Engines \X QueryIds

\* The queries of a batch or of a work item, and of a list of them.
Of(b) == {x \in Pairs : b # Shutdown /\ x[1] = b.eng /\ x[2] \in ToSet(b.queries)}
All(bs) == {x \in Pairs : \E i \in 1 .. Len(bs) : x \in Of(bs[i])}

\* No query is in two batches of the list, or twice in one.
Apart(bs) ==
  /\ \A i, j \in 1 .. Len(bs) : i # j => Of(bs[i]) \cap Of(bs[j]) = {}
  /\ \A i \in 1 .. Len(bs) : bs[i] # Shutdown => Distinct(bs[i].queries)

\* The queries a thread has still to run, and the ones it has run.
Busy(w) == frame[w].at \notin {"none", "idle", "exited"}
Left(w) == {x \in Pairs : Busy(w) /\ x[1] = frame[w].eng /\ x[2] \in ToSet(frame[w].todo)}
Got(w) == {x \in Pairs : Busy(w) /\ x[1] = frame[w].eng
                         /\ \E s \in Statuses : <<x[2], s>> \in frame[w].results}

\* The queries the callback has been told of, and the ones it must be told of.
Told(c) == {x \in Pairs : delivered[<<c, x[1], x[2]>>] # "none"}
Asked(c) == {x \in Pairs : c \in DOMAIN input.calls /\ x[1] \in ToSet(RoutingTable)
                           /\ x[2] \in ToSet(QueriesFor(c, x[1]))}
Planned == {x \in Pairs : x[2] \in PlansOf[x[1]]}

\* The threads of a call, by number.
Threads == 1 .. MaxThreads
Held(c, i) == Left(<<c, i>>) \union Got(<<c, i>>)

Holds(c) == [i \in Threads |-> Held(c, i)]

\* No query is in two places: among those to be scheduled, in the queue, told
\* of, or held by one thread; and all were asked for.
Placed(T, Q, D, H, A) ==
  /\ T \subseteq A /\ Q \subseteq A /\ D \subseteq A
  /\ T \cap Q = {} /\ T \cap D = {} /\ Q \cap D = {}
  /\ \A i \in Threads : /\ H[i] \subseteq A
                        /\ H[i] \cap T = {} /\ H[i] \cap Q = {} /\ H[i] \cap D = {}
  /\ \A i, j \in Threads : i # j => H[i] \cap H[j] = {}

\* Every query asked for that has a plan is in some place.
Found(T, Q, D, H, A) ==
  \A x \in A \cap Planned : x \in T \/ x \in Q \/ x \in D \/ \E i \in Threads : x \in H[i]

PlaceInv(c) ==
  /\ Placed(All(call[c].todo), All(queue[c]), Told(c), Holds(c), Asked(c))
  /\ call[c].at # "new" => Found(All(call[c].todo), All(queue[c]), Told(c), Holds(c), Asked(c))
  /\ Apart(call[c].todo) /\ Apart(queue[c])

\* What a thread is doing.
FrameInv(w) ==
  LET f == frame[w]
  IN  /\ Left(w) \cap Got(w) = {} /\ Distinct(f.todo)
      /\ f.at \in {"start", "root", "fetch"} =>
           f.todo # <<>> /\ Head(f.todo) \in PlansOf[f.eng]
      /\ f.at \in {"leave"} \union Leaving => f.todo = <<>>
      /\ \A q \in QueryIds : <<q, "done">> \in f.results =>
           q \in PlansOf[f.eng] /\ <<q, "cancelled">> \notin f.results
      /\ \A q \in QueryIds : <<q, "cancelled">> \in f.results => w[1] \in exposed
      /\ Busy(w) => f.eng \in Engines /\ w[1] \in ActiveCalls
      /\ f.at = "none" => f.results = {}

ToldInv(c) ==
  \A x \in Pairs :
    LET d == delivered[<<c, x[1], x[2]>>]
    IN  /\ d # "twice"
        /\ d = "done" => x \in Planned
        /\ d = "cancelled" => c \in exposed

\* The control of a call and of its threads.
CallInv(c) ==
  /\ call[c].at = "new" =>
       /\ call[c].todo = <<>> /\ queue[c] = <<>> /\ Told(c) = {} /\ ~ call[c].cancelled
       /\ \A i \in Threads : frame[<<c, i>>].at = "none"
  /\ call[c].at # "new" => c \in DOMAIN input.calls
  /\ call[c].at \in {"join", "done"} => call[c].todo = <<>>
  /\ call[c].at = "done" => All(queue[c]) = {} /\ \A i \in Threads : ~ Busy(<<c, i>>)
  /\ pattern = "serial_all" =>
       /\ queue[c] = <<>> /\ call[c].at # "join"
       /\ \A i \in Threads : i # 1 => frame[<<c, i>>].at = "none"
       /\ call[c].at # "serial" => frame[<<c, 1>>].at \in {"none", "idle"}
  /\ pattern # "serial_all" =>
       /\ call[c].at # "serial"
       /\ \A i \in Threads : frame[<<c, i>>].at # "none" => i <= PoolSize(c)
       /\ call[c].at = "done" => \A i \in Threads : frame[<<c, i>>].at \in {"none", "exited"}
  /\ call[c].cancelled => c \in exposed

\* The queue of a pool: work, and then shutdown signals.
QueueInv(c) ==
  /\ \A i, j \in 1 .. Len(queue[c]) : i < j /\ queue[c][i] = Shutdown => queue[c][j] = Shutdown
  /\ \A i \in Threads : frame[<<c, i>>].at = "exited" =>
       \A j \in 1 .. Len(queue[c]) : queue[c][j] = Shutdown
  /\ (\E i \in 1 .. Len(queue[c]) : queue[c][i] = Shutdown)
       \/ (\E i \in Threads : frame[<<c, i>>].at = "exited") => call[c].at \in {"join", "done"}
  /\ \A i \in 1 .. Len(queue[c]) :
       queue[c][i] # Shutdown /\ queue[c][i].cancelled => c \in exposed

\* Cancellations: a flag has an owner, and an engine is being cancelled only
\* by a cancellation of the router that has not returned.
Live == {"towait", "wait", "woken"}
CancelInv ==
  /\ cancelling => \E k \in Cancels : cancel[k] \in Live
  /\ \A k \in Cancels, e \in Engines :
       task[<<k, e>>] \notin {"none", "done"} => cancel[k] \notin {"new", "lock", "done"}
  /\ \A k \in Cancels, e \in Engines :
       cancel[k] \in {"new", "lock"} \/ e \notin ToSet(RoutingTable) => task[<<k, e>>] = "none"
  /\ \A e \in Engines :
       cancellation_state[e] \/ (\E q \in QueryIds : planner_state[<<e, q>>]) =>
         \E k \in Cancels : task[<<k, e>>] \in Live
  /\ ActiveCancels # {} => ActiveCalls \subseteq exposed

\* The calls that a reference count stands for.
Inside(e) == {w \in Workers : frame[w].eng = e /\ frame[w].at \in InCall}
CountInv ==
  /\ IsFiniteSet(ActiveCalls) /\ ref_count = Cardinality(ActiveCalls)
  /\ \A e \in Engines : IsFiniteSet(Inside(e)) /\ execute_ref_count[e] = Cardinality(Inside(e))

\* What belongs to one call.
Local(c) ==
  /\ CallInv(c) /\ QueueInv(c) /\ PlaceInv(c) /\ ToldInv(c)
  /\ \A i \in Threads : FrameInv(<<c, i>>)

IInv ==
  /\ TypeOK
  /\ \A c \in Calls : Local(c)
  /\ CancelInv
  /\ CountInv

-----------------------------------------------------------------------------
(* FlattenSeq.                                                               *)

\* A non-empty set of naturals has a least element.
LEMMA LeastNatural ==
  ASSUME NEW T, T \subseteq Nat, T # {}
  PROVE  \E x \in T : \A y \in T : x <= y
<1> DEFINE R == OpToRel(<, Nat)
<1>1. \A x, y \in Nat : x < y => <<x, y>> \in R
  BY DEF OpToRel
<1>2. IsWellFoundedOn(R, Nat)
  BY NatLessThanWellFounded
<1> HIDE DEF R
<1>3. PICK x \in T : \A y \in T : ~ (<<y, x>> \in R)
  BY <1>2, WFMin
<1>4. \A y \in T : ~ (y < x)
  BY <1>1, <1>3
<1>5. \A y \in T : x <= y
  BY <1>4
<1>6. QED BY <1>5

\* The recursive function inside FlattenSeq.
IsFlatten(f, seqs, n) ==
  f = [i \in 1 .. n |-> IF i = 1 THEN seqs[i] ELSE f[i - 1] \o seqs[i]]

LEMMA FlattenExists ==
  ASSUME NEW seqs, NEW n \in Nat
  PROVE  \E f : IsFlatten(f, seqs, n)
<1> DEFINE Bad == {m \in Nat : ~ \E f : IsFlatten(f, seqs, m)}
<1>1. SUFFICES ASSUME Bad # {} PROVE FALSE
  BY <1>1
<1>2. PICK m \in Bad : \A k \in Bad : m <= k
  <2>1. Bad \subseteq Nat
    OBVIOUS
  <2> HIDE DEF Bad
  <2>2. QED BY <1>1, <2>1, LeastNatural
<1>3. CASE m = 0
  <2> DEFINE g == [i \in 1 .. 0 |-> <<>>]
  <2>1. IsFlatten(g, seqs, 0)
    BY DEF IsFlatten
  <2>2. QED BY <1>2, <1>3, <2>1
<1>4. CASE m # 0
  <2>1. m \in Nat /\ m - 1 \in Nat /\ m - 1 \notin Bad
    BY <1>2, <1>4
  <2>2. PICK g : IsFlatten(g, seqs, m - 1)
    BY <2>1
  <2> DEFINE f == [i \in 1 .. m |-> IF i # m THEN g[i]
                                   ELSE IF i = 1 THEN seqs[i] ELSE g[i - 1] \o seqs[i]]
  <2>3. ASSUME NEW i \in 1 .. m
        PROVE  f[i] = IF i = 1 THEN seqs[i] ELSE f[i - 1] \o seqs[i]
    <3>1. CASE i = 1 /\ m = 1
      BY <3>1
    <3>2. CASE i = 1 /\ m # 1
      <4>1. i \in 1 .. m - 1 /\ f[i] = g[i]
        BY <2>1, <3>2
      <4>2. QED BY <2>2, <3>2, <4>1 DEF IsFlatten
    <3>3. CASE i # 1
      <4>1. i - 1 \in 1 .. m /\ i - 1 # m /\ f[i - 1] = g[i - 1]
        BY <2>1, <3>3
      <4>2. CASE i = m
        BY <3>3, <4>1, <4>2
      <4>3. CASE i # m
        <5>1. i \in 1 .. m - 1 /\ f[i] = g[i]
          BY <2>1, <4>3
        <5>2. g[i] = g[i - 1] \o seqs[i]
          BY <2>2, <3>3, <5>1 DEF IsFlatten
        <5>3. QED BY <3>3, <4>1, <5>1, <5>2
      <4>4. QED BY <4>2, <4>3
    <3>4. QED BY <3>1, <3>2, <3>3
  <2>4. IsFlatten(f, seqs, m)
    <3>1. DOMAIN f = 1 .. m /\ f = [i \in 1 .. m |-> f[i]]
      OBVIOUS
    <3> HIDE DEF f
    <3>2. QED BY <2>3, <3>1 DEF IsFlatten
  <2>5. QED BY <1>2, <2>4
<1>5. QED BY <1>3, <1>4

\* s lists the elements of the first n sequences, no two of them in R if no
\* two of those are.
Flattened(s, S, R, seqs, n) ==
  /\ s \in Seq(S)
  /\ \A k \in 1 .. Len(s) : \E i \in 1 .. n : \E a \in 1 .. Len(seqs[i]) : s[k] = seqs[i][a]
  /\ \A i \in 1 .. n : \A a \in 1 .. Len(seqs[i]) : \E k \in 1 .. Len(s) : s[k] = seqs[i][a]
  /\ \A k, l \in 1 .. Len(s) : k < l => <<s[k], s[l]>> \notin R

\* The hypothesis on R.
Unrelated(R, seqs) ==
  /\ \A i \in 1 .. Len(seqs) : \A a, b \in 1 .. Len(seqs[i]) :
       a < b => <<seqs[i][a], seqs[i][b]>> \notin R
  /\ \A i, j \in 1 .. Len(seqs) : i < j =>
       \A a \in 1 .. Len(seqs[i]), b \in 1 .. Len(seqs[j]) : <<seqs[i][a], seqs[j][b]>> \notin R

LEMMA FlattenTurn ==
  ASSUME NEW S, NEW R, NEW seqs \in Seq(Seq(S)), Unrelated(R, seqs),
         NEW n \in 1 .. Len(seqs), NEW s, Flattened(s, S, R, seqs, n - 1)
  PROVE  Flattened(s \o seqs[n], S, R, seqs, n)
<1> DEFINE t == seqs[n]
           u == s \o t
           l == Len(s)
<1>1. s \in Seq(S) /\ t \in Seq(S) /\ l \in Nat /\ Len(t) \in Nat /\ n \in Nat
  BY DEF Flattened
<1>2. /\ u \in Seq(S) /\ Len(u) = l + Len(t)
      /\ \A k \in 1 .. l : u[k] = s[k]
      /\ \A a \in 1 .. Len(t) : u[l + a] = t[a]
  BY <1>1, ConcatProperties
<1>3. \A k \in 1 .. Len(u) : k \in 1 .. l \/ (k - l \in 1 .. Len(t) /\ u[k] = t[k - l])
  <2> TAKE k \in 1 .. Len(u)
  <2>1. CASE k <= l
    BY <1>1, <1>2, <2>1
  <2>2. CASE k > l
    <3>1. k - l \in 1 .. Len(t) /\ l + (k - l) = k
      BY <1>1, <1>2, <2>2
    <3>2. QED BY <1>2, <3>1
  <2>3. QED BY <1>1, <1>2, <2>1, <2>2
<1> HIDE DEF u, l
<1>4. \A k \in 1 .. Len(u) : \E i \in 1 .. n : \E a \in 1 .. Len(seqs[i]) : u[k] = seqs[i][a]
  <2> TAKE k \in 1 .. Len(u)
  <2>1. CASE k \in 1 .. l
    <3>1. PICK i \in 1 .. n - 1 : \E a \in 1 .. Len(seqs[i]) : s[k] = seqs[i][a]
      BY <2>1 DEF Flattened, l
    <3>2. PICK a \in 1 .. Len(seqs[i]) : s[k] = seqs[i][a]
      BY <3>1
    <3>3. i \in 1 .. n /\ u[k] = seqs[i][a]
      BY <1>1, <1>2, <2>1, <3>2
    <3>4. QED BY <3>3
  <2>2. CASE k - l \in 1 .. Len(t) /\ u[k] = t[k - l]
    <3>1. n \in 1 .. n /\ k - l \in 1 .. Len(seqs[n]) /\ u[k] = seqs[n][k - l]
      BY <1>1, <2>2
    <3>2. QED BY <3>1
  <2>3. QED BY <1>3, <2>1, <2>2
<1>5. \A i \in 1 .. n : \A a \in 1 .. Len(seqs[i]) : \E k \in 1 .. Len(u) : u[k] = seqs[i][a]
  <2> TAKE i \in 1 .. n
  <2> TAKE a \in 1 .. Len(seqs[i])
  <2>1. CASE i = n
    <3>1. l + a \in 1 .. Len(u) /\ u[l + a] = t[a]
      BY <1>1, <1>2, <2>1
    <3>2. QED BY <2>1, <3>1
  <2>2. CASE i # n
    <3>1. i \in 1 .. n - 1
      BY <1>1, <2>2
    <3>2. PICK k \in 1 .. l : s[k] = seqs[i][a]
      BY <3>1 DEF Flattened, l
    <3>3. k \in 1 .. Len(u) /\ u[k] = s[k]
      BY <1>1, <1>2
    <3>4. QED BY <3>2, <3>3
  <2>3. QED BY <2>1, <2>2
<1>6. \A k, m \in 1 .. Len(u) : k < m => <<u[k], u[m]>> \notin R
  <2> SUFFICES ASSUME NEW k \in 1 .. Len(u), NEW m \in 1 .. Len(u), k < m
               PROVE  <<u[k], u[m]>> \notin R
    OBVIOUS
  <2>1. CASE k \in 1 .. l /\ m \in 1 .. l
    BY <1>2, <2>1 DEF Flattened, l
  <2>2. CASE k \in 1 .. l /\ m - l \in 1 .. Len(t) /\ u[m] = t[m - l]
    <3>1. PICK i \in 1 .. n - 1 : \E a \in 1 .. Len(seqs[i]) : s[k] = seqs[i][a]
      BY <2>2 DEF Flattened, l
    <3>2. PICK a \in 1 .. Len(seqs[i]) : s[k] = seqs[i][a]
      BY <3>1
    <3>3. i \in 1 .. Len(seqs) /\ i < n
      BY <1>1
    <3>4. <<seqs[i][a], seqs[n][m - l]>> \notin R
      BY <2>2, <3>2, <3>3 DEF Unrelated
    <3>5. QED BY <1>2, <2>2, <3>2, <3>4
  <2>3. CASE k - l \in 1 .. Len(t) /\ u[k] = t[k - l] /\ m - l \in 1 .. Len(t) /\ u[m] = t[m - l]
    <3>1. k - l < m - l
      BY <1>1
    <3>2. QED BY <2>3, <3>1 DEF Unrelated
  <2>4. ~ (k > l /\ m <= l)
    BY <1>1
  <2>5. QED BY <1>1, <1>3, <2>1, <2>2, <2>3, <2>4
<1>7. QED BY <1>2, <1>4, <1>5, <1>6 DEF Flattened, u

\* FlattenSeq lists the elements of all the sequences.
LEMMA FlattenLists ==
  ASSUME NEW S, NEW R, NEW seqs \in Seq(Seq(S)), Unrelated(R, seqs)
  PROVE  Flattened(FlattenSeq(seqs), S, R, seqs, Len(seqs))
<1> DEFINE N == Len(seqs)
<1>1. N \in Nat
  OBVIOUS
<1>2. CASE N = 0
  <2>1. seqs = <<>> /\ FlattenSeq(seqs) = <<>> /\ <<>> \in Seq(S) /\ Len(<<>>) = 0
    BY <1>2 DEF FlattenSeq
  <2>2. Flattened(<<>>, S, R, seqs, 0)
    <3>1. 1 .. 0 = {}
      OBVIOUS
    <3>2. QED BY <2>1, <3>1 DEF Flattened
  <2>3. QED BY <1>2, <2>1, <2>2
<1>3. CASE N # 0
  <2> DEFINE f == CHOOSE g : IsFlatten(g, seqs, N)
  <2>1. IsFlatten(f, seqs, N)
    BY <1>1, FlattenExists
  <2>2. FlattenSeq(seqs) = f[N]
    BY <1>3 DEF FlattenSeq, IsFlatten
  <2> HIDE DEF f
  <2> DEFINE Bad == {k \in 1 .. N : ~ Flattened(f[k], S, R, seqs, k)}
  <2>3. CASE Bad = {}
    BY <1>1, <1>3, <2>2, <2>3
  <2>4. CASE Bad # {}
    <3>1. PICK k \in Bad : \A i \in Bad : k <= i
      <4>1. Bad \subseteq Nat
        OBVIOUS
      <4> HIDE DEF Bad
      <4>2. QED BY <2>4, <4>1, LeastNatural
    <3>2. k \in 1 .. N /\ ~ Flattened(f[k], S, R, seqs, k)
      OBVIOUS
    <3>3. CASE k = 1
      <4>1. f[1] = seqs[1] /\ seqs[1] \in Seq(S)
        BY <1>1, <2>1, <3>2, <3>3 DEF IsFlatten
      <4>2. Flattened(seqs[1], S, R, seqs, 1)
        <5>1. 1 \in 1 .. Len(seqs) /\ 1 .. 1 = {1}
          BY <3>2, <3>3
        <5> DEFINE s == seqs[1]
        <5>2. \A k1 \in 1 .. Len(s) : \E i \in 1 .. 1 : \E a \in 1 .. Len(seqs[i]) : s[k1] = seqs[i][a]
          BY <5>1
        <5>3. \A i \in 1 .. 1 : \A a \in 1 .. Len(seqs[i]) : \E k1 \in 1 .. Len(s) : s[k1] = seqs[i][a]
          BY <5>1
        <5>4. \A k1, l \in 1 .. Len(s) : k1 < l => <<s[k1], s[l]>> \notin R
          BY <5>1 DEF Unrelated
        <5>5. QED BY <4>1, <5>2, <5>3, <5>4 DEF Flattened
      <4>3. QED BY <3>2, <3>3, <4>1, <4>2
    <3>4. CASE k # 1
      <4>1. k - 1 \in 1 .. N /\ k - 1 \notin Bad
        BY <3>1, <3>2, <3>4
      <4>2. Flattened(f[k - 1], S, R, seqs, k - 1)
        BY <4>1
      <4>3. f[k] = f[k - 1] \o seqs[k]
        BY <2>1, <3>2, <3>4 DEF IsFlatten
      <4>4. QED BY <3>2, <4>2, <4>3, FlattenTurn
    <3>5. QED BY <3>3, <3>4
  <2>5. QED BY <2>3, <2>4
<1>4. QED BY <1>2, <1>3

-----------------------------------------------------------------------------
(* The batches of a call.                                                    *)

LEMMA InSet ==
  ASSUME NEW S, NEW s \in Seq(S), NEW x
  PROVE  x \in ToSet(s) <=> \E i \in 1 .. Len(s) : x = s[i]
<1>1. DOMAIN s = 1 .. Len(s)
  BY LenProperties
<1>2. QED BY <1>1 DEF ToSet

\* A record is not the shutdown signal.
LEMMA ItemIsWork == \A b \in Items \union Batches : b # Shutdown
<1> SUFFICES ASSUME NEW b \in Items \union Batches, b = <<>> PROVE FALSE
  BY DEF Shutdown
<1>1. "eng" \in DOMAIN b
  BY DEF Items, Batches
<1>2. DOMAIN b = {}
  OBVIOUS
<1>3. QED BY <1>1, <1>2

LEMMA QueriesForTyped ==
  ASSUME input \in Inputs, NEW c \in DOMAIN input.calls, NEW e
  PROVE  QueriesFor(c, e) \in Seq(QueryIds) /\ Distinct(QueriesFor(c, e))
<1> DEFINE ids == input.calls[c]
           Keep(i) == ids[i] \in Routed[e] /\ <<e, ids[i]>> \notin Incompatible
           seqs == [i \in DOMAIN ids |-> IF Keep(i) THEN <<ids[i]>> ELSE <<>>]
           R == {<<q, q>> : q \in QueryIds}
           s == FlattenSeq(seqs)
<1>1. ids \in Seq(QueryIds) /\ Distinct(ids) /\ Len(ids) \in Nat /\ DOMAIN ids = 1 .. Len(ids)
  BY RouterAssumption, LenProperties
<1>2. \A i \in 1 .. Len(ids) : ids[i] \in QueryIds /\ seqs[i] \in Seq(QueryIds)
  BY <1>1
<1>3. seqs \in Seq(Seq(QueryIds)) /\ Len(seqs) = Len(ids)
  BY <1>1, <1>2
<1>4. \A i \in 1 .. Len(ids) : \A a \in 1 .. Len(seqs[i]) : a = 1 /\ seqs[i][a] = ids[i]
  BY <1>1
<1>5. QueriesFor(c, e) = s
  BY DEF QueriesFor
<1> HIDE DEF seqs
<1>6. Unrelated(R, seqs)
  <2>1. \A i \in 1 .. Len(seqs) : \A a, b \in 1 .. Len(seqs[i]) :
          a < b => <<seqs[i][a], seqs[i][b]>> \notin R
    BY <1>3, <1>4
  <2>2. \A i, j \in 1 .. Len(seqs) : i < j =>
          \A a \in 1 .. Len(seqs[i]), b \in 1 .. Len(seqs[j]) : <<seqs[i][a], seqs[j][b]>> \notin R
    BY <1>1, <1>3, <1>4 DEF Distinct
  <2>3. QED BY <2>1, <2>2 DEF Unrelated
<1>7. Flattened(s, QueryIds, R, seqs, Len(seqs))
  BY <1>3, <1>6, FlattenLists
<1> HIDE DEF s
<1>8. s \in Seq(QueryIds) /\ Len(s) \in Nat
  BY <1>7 DEF Flattened
<1>9. Distinct(s)
  <2> SUFFICES ASSUME NEW i \in 1 .. Len(s), NEW j \in 1 .. Len(s), i < j PROVE s[i] # s[j]
    BY <1>8 DEF Distinct
  <2>1. s[i] \in QueryIds /\ <<s[i], s[j]>> \notin R
    BY <1>7, <1>8 DEF Flattened
  <2>2. QED BY <2>1
<1>10. QED BY <1>5, <1>8, <1>9

\* A list of batches that covers exactly the queries asked for.
Covers(bs, c) == bs \in Seq(Batches) /\ Apart(bs) /\ All(bs) = Asked(c)

\* The batches that conflict.
Sharing == {p \in Batches \X Batches : Of(p[1]) \cap Of(p[2]) # {}}

LEMMA AgentBatchesCover ==
  ASSUME input \in Inputs, NEW c \in DOMAIN input.calls
  PROVE  Covers(AgentBatches(c), c) /\ Len(AgentBatches(c)) = Len(RoutingTable)
<1> DEFINE A == AgentBatches(c)
           n == Len(RoutingTable)
<1>1. /\ RoutingTable \in Seq(Engines) /\ Distinct(RoutingTable)
      /\ n \in Nat /\ DOMAIN RoutingTable = 1 .. n
      /\ \A i \in 1 .. n : RoutingTable[i] \in Engines
  BY RouterAssumption, LenProperties
<1>2. \A e : QueriesFor(c, e) \in Seq(QueryIds) /\ Distinct(QueriesFor(c, e))
  BY QueriesForTyped
<1>3. /\ A = [i \in 1 .. n |-> [eng |-> RoutingTable[i], queries |-> QueriesFor(c, RoutingTable[i])]]
      /\ A \in [1 .. n -> Batches]
  BY <1>1, <1>2 DEF AgentBatches, Batches
<1>4. A \in Seq(Batches) /\ Len(A) = n
  BY <1>1, <1>3
<1>5. \A i \in 1 .. n : /\ A[i] \in Batches /\ A[i] # Shutdown /\ A[i].eng = RoutingTable[i]
                        /\ A[i].queries = QueriesFor(c, RoutingTable[i])
  BY <1>3, ItemIsWork
<1> HIDE DEF A
<1>6. Apart(A)
  <2>1. \A i, j \in 1 .. n : i # j => Of(A[i]) \cap Of(A[j]) = {}
    BY <1>1, <1>5 DEF Of, Distinct
  <2>2. QED BY <1>2, <1>4, <1>5, <2>1 DEF Apart
<1>7. \A x \in Pairs : x \in All(A) <=> x \in Asked(c)
  <2> TAKE x \in Pairs
  <2>1. x \in All(A) <=> \E i \in 1 .. n : x[1] = RoutingTable[i] /\ x[2] \in ToSet(QueriesFor(c, RoutingTable[i]))
    BY <1>4, <1>5 DEF All, Of
  <2>2. x[1] \in ToSet(RoutingTable) <=> \E i \in 1 .. n : x[1] = RoutingTable[i]
    BY <1>1, InSet
  <2>3. QED BY <2>1, <2>2 DEF Asked
<1>8. All(A) = Asked(c)
  BY <1>7 DEF All, Asked
<1>9. QED BY <1>4, <1>6, <1>8 DEF Covers, A

\* Batches listed by FlattenSeq cover what is asked for if the parts do.
LEMMA FlattenCovers ==
  ASSUME NEW c, NEW seqs \in Seq(Seq(Batches)), NEW A, Covers(A, c), Len(seqs) = Len(A),
         \A i \in 1 .. Len(A) : Apart(seqs[i]) /\ All(seqs[i]) = Of(A[i])
  PROVE  Covers(FlattenSeq(seqs), c)
<1> DEFINE n == Len(A)
           s == FlattenSeq(seqs)
<1>1. n \in Nat /\ \A i \in 1 .. n : seqs[i] \in Seq(Batches) /\ Len(seqs[i]) \in Nat
  BY DEF Covers
<1>2. \A i \in 1 .. n : \A a \in 1 .. Len(seqs[i]) :
        seqs[i][a] \in Batches /\ Of(seqs[i][a]) \subseteq Of(A[i])
  <2> TAKE i \in 1 .. n
  <2> TAKE a \in 1 .. Len(seqs[i])
  <2>1. seqs[i][a] \in Batches
    BY <1>1
  <2>2. Of(seqs[i][a]) \subseteq All(seqs[i])
    BY DEF All, Of
  <2>3. QED BY <2>1, <2>2
<1>3. Unrelated(Sharing, seqs)
  <2>1. \A i \in 1 .. n : \A a, b \in 1 .. Len(seqs[i]) :
          a < b => <<seqs[i][a], seqs[i][b]>> \notin Sharing
    <3> SUFFICES ASSUME NEW i \in 1 .. n, NEW a \in 1 .. Len(seqs[i]), NEW b \in 1 .. Len(seqs[i]), a < b
                 PROVE  Of(seqs[i][a]) \cap Of(seqs[i][b]) = {}
      BY DEF Sharing
    <3>1. a # b /\ Apart(seqs[i])
      BY <1>1
    <3>2. QED BY <3>1 DEF Apart
  <2>2. \A i, j \in 1 .. n : i < j =>
          \A a \in 1 .. Len(seqs[i]), b \in 1 .. Len(seqs[j]) : <<seqs[i][a], seqs[j][b]>> \notin Sharing
    <3> SUFFICES ASSUME NEW i \in 1 .. n, NEW j \in 1 .. n, i < j,
                        NEW a \in 1 .. Len(seqs[i]), NEW b \in 1 .. Len(seqs[j])
                 PROVE  Of(seqs[i][a]) \cap Of(seqs[j][b]) = {}
      BY DEF Sharing
    <3>1. Of(A[i]) \cap Of(A[j]) = {}
      <4>1. i # j /\ Apart(A)
        BY <1>1 DEF Covers
      <4>2. QED BY <4>1 DEF Apart
    <3>2. QED BY <1>2, <3>1
  <2>3. QED BY <2>1, <2>2 DEF Unrelated
<1>4. Flattened(s, Batches, Sharing, seqs, n)
  BY <1>3, FlattenLists
<1> HIDE DEF s
<1>5. s \in Seq(Batches) /\ Len(s) \in Nat /\ \A k \in 1 .. Len(s) : s[k] \in Batches
  BY <1>4 DEF Flattened
<1>6. Apart(s)
  <2>1. \A i, j \in 1 .. Len(s) : i < j => Of(s[i]) \cap Of(s[j]) = {}
    <3> SUFFICES ASSUME NEW i \in 1 .. Len(s), NEW j \in 1 .. Len(s), i < j
                 PROVE  Of(s[i]) \cap Of(s[j]) = {}
      OBVIOUS
    <3>1. <<s[i], s[j]>> \notin Sharing /\ <<s[i], s[j]>> \in Batches \X Batches
      BY <1>4, <1>5 DEF Flattened
    <3>2. QED BY <3>1 DEF Sharing
  <2>2. \A i, j \in 1 .. Len(s) : i # j => Of(s[i]) \cap Of(s[j]) = {}
    <3> TAKE i, j \in 1 .. Len(s)
    <3>1. i # j => i < j \/ j < i
      BY <1>5
    <3>2. QED BY <2>1, <3>1
  <2>3. \A k \in 1 .. Len(s) : s[k] # Shutdown => Distinct(s[k].queries)
    <3> TAKE k \in 1 .. Len(s)
    <3>1. PICK i \in 1 .. n : \E a \in 1 .. Len(seqs[i]) : s[k] = seqs[i][a]
      BY <1>4 DEF Flattened
    <3>2. QED BY <3>1 DEF Apart
  <2>4. QED BY <2>2, <2>3 DEF Apart
<1>7. \A x \in Pairs : x \in All(s) <=> x \in All(A)
  <2> TAKE x \in Pairs
  <2>1. ASSUME x \in All(s) PROVE x \in All(A)
    <3>1. PICK k \in 1 .. Len(s) : x \in Of(s[k])
      BY <2>1 DEF All
    <3>2. PICK i \in 1 .. n : \E a \in 1 .. Len(seqs[i]) : s[k] = seqs[i][a]
      BY <1>4 DEF Flattened
    <3>3. x \in Of(A[i])
      BY <1>2, <3>1, <3>2
    <3>4. QED BY <3>3 DEF All
  <2>2. ASSUME x \in All(A) PROVE x \in All(s)
    <3>1. PICK i \in 1 .. n : x \in Of(A[i])
      BY <2>2 DEF All
    <3>2. PICK a \in 1 .. Len(seqs[i]) : x \in Of(seqs[i][a])
      BY <3>1 DEF All
    <3>3. PICK k \in 1 .. Len(s) : s[k] = seqs[i][a]
      BY <1>4 DEF Flattened
    <3>4. QED BY <3>2, <3>3 DEF All
  <2>3. QED BY <2>1, <2>2
<1>8. All(s) = Asked(c)
  BY <1>7 DEF All, Covers
<1>9. QED BY <1>5, <1>6, <1>8 DEF Covers, s

\* Whatever the pattern, the batches of a call partition what it asks for.
LEMMA BatchesCover ==
  ASSUME input \in Inputs, pattern \in input.patterns, NEW c \in DOMAIN input.calls
  PROVE  Covers(BatchesOf(c), c)
<1> DEFINE A == AgentBatches(c)
           n == Len(RoutingTable)
<1>1. /\ Covers(A, c) /\ Len(A) = n /\ n \in Nat /\ DOMAIN RoutingTable = 1 .. n
      /\ \A i \in 1 .. n : /\ A[i] \in Batches /\ A[i] # Shutdown
                           /\ Distinct(A[i].queries)
  <2>1. Covers(A, c) /\ Len(A) = n /\ n \in Nat /\ DOMAIN RoutingTable = 1 .. n
    BY AgentBatchesCover, RouterAssumption, LenProperties
  <2>2. \A i \in 1 .. n : A[i] \in Batches /\ A[i] # Shutdown
    BY <2>1, ItemIsWork DEF Covers
  <2>3. QED BY <2>1, <2>2 DEF Covers, Apart
<1>2. pattern \in {"serial_all", "serial_agent", "parallel_all"}
  BY RouterAssumption
<1>3. CASE pattern = "serial_all"
  BY <1>1, <1>3 DEF BatchesOf
<1> HIDE DEF A
<1>4. CASE pattern = "serial_agent"
  <2> DEFINE seqs == [i \in 1 .. n |-> AgentBatch(A[i])]
  <2>1. BatchesOf(c) = FlattenSeq(seqs)
    BY <1>1, <1>4 DEF BatchesOf, A
  <2>2. \A i \in 1 .. n : seqs[i] \in Seq(Batches) /\ Apart(seqs[i]) /\ All(seqs[i]) = Of(A[i])
    <3> TAKE i \in 1 .. n
    <3>1. CASE A[i].queries # <<>>
      <4> DEFINE s == <<A[i]>>
      <4>1. seqs[i] = s /\ Len(s) = 1 /\ s[1] = A[i] /\ s \in Seq(Batches) /\ 1 .. 1 = {1}
        BY <1>1, <3>1 DEF AgentBatch, NonEmpty
      <4> HIDE DEF s
      <4>2. Apart(s)
        BY <1>1, <4>1 DEF Apart
      <4>3. All(s) = Of(A[i])
        BY <4>1 DEF All, Of
      <4>4. QED BY <4>1, <4>2, <4>3
    <3>2. CASE A[i].queries = <<>>
      <4>1. seqs[i] = <<>> /\ <<>> \in Seq(Batches) /\ Len(<<>>) = 0 /\ 1 .. 0 = {}
        BY <1>1, <3>2 DEF AgentBatch, NonEmpty
      <4>2. ToSet(A[i].queries) = {}
        BY <3>2 DEF ToSet
      <4>3. Of(A[i]) = {}
        BY <4>2 DEF Of
      <4>4. Apart(<<>>) /\ All(<<>>) = {}
        BY <4>1 DEF Apart, All
      <4>5. QED BY <4>1, <4>3, <4>4
    <3>3. QED BY <3>1, <3>2
  <2>3. seqs \in Seq(Seq(Batches)) /\ Len(seqs) = n
    BY <1>1, <2>2
  <2> HIDE DEF seqs
  <2>4. QED BY <1>1, <2>1, <2>2, <2>3, FlattenCovers
<1>5. CASE pattern = "parallel_all"
  <2> DEFINE seqs == [i \in 1 .. n |-> SplitBatch(A[i])]
  <2>1. BatchesOf(c) = FlattenSeq(seqs)
    BY <1>1, <1>5 DEF BatchesOf, A
  <2>2. \A i \in 1 .. n : seqs[i] \in Seq(Batches) /\ Apart(seqs[i]) /\ All(seqs[i]) = Of(A[i])
    <3> TAKE i \in 1 .. n
    <3> DEFINE b == A[i]
               m == Len(b.queries)
               s == seqs[i]
    <3>1. /\ b \in Batches /\ b # Shutdown /\ b.eng \in Engines /\ b.queries \in Seq(QueryIds)
          /\ Distinct(b.queries) /\ m \in Nat /\ DOMAIN b.queries = 1 .. m
          /\ \A j \in 1 .. m : b.queries[j] \in QueryIds
      <4>1. b \in Batches /\ b # Shutdown /\ Distinct(b.queries)
        BY <1>1
      <4>2. b.eng \in Engines /\ b.queries \in Seq(QueryIds)
        BY <4>1 DEF Batches
      <4>3. QED BY <4>1, <4>2, LenProperties
    <3>2. s = [j \in 1 .. m |-> [eng |-> b.eng, queries |-> <<b.queries[j]>>]]
      BY <3>1 DEF SplitBatch
    <3> HIDE DEF b, s
    <3>3. \A j \in 1 .. m : s[j] \in Batches
      BY <3>1, <3>2 DEF Batches
    <3>4. s \in Seq(Batches) /\ Len(s) = m
      <4>1. s \in [1 .. m -> Batches]
        BY <3>2, <3>3
      <4>2. QED BY <3>1, <4>1
    <3>5. \A j \in 1 .. m : /\ s[j] # Shutdown /\ s[j].eng = b.eng
                            /\ s[j].queries = <<b.queries[j]>>
      BY <3>2, <3>3, ItemIsWork
    <3>6. \A j \in 1 .. m : ToSet(s[j].queries) = {b.queries[j]} /\ Distinct(s[j].queries)
      BY <3>5 DEF ToSet, Distinct
    <3>7. \A j \in 1 .. m : Of(s[j]) = {x \in Pairs : x[1] = b.eng /\ x[2] = b.queries[j]}
      BY <3>5, <3>6 DEF Of
    <3>8. Apart(s)
      <4>1. \A j, k \in 1 .. m : j # k => Of(s[j]) \cap Of(s[k]) = {}
        <5> SUFFICES ASSUME NEW j \in 1 .. m, NEW k \in 1 .. m, j # k
                     PROVE  Of(s[j]) \cap Of(s[k]) = {}
          OBVIOUS
        <5>1. b.queries[j] # b.queries[k]
          BY <3>1 DEF Distinct
        <5>2. QED BY <3>7, <5>1
      <4>2. QED BY <3>4, <3>6, <4>1 DEF Apart
    <3>9. All(s) = Of(b)
      <4>1. \A x \in Pairs : x \in All(s) <=> x \in Of(b)
        <5> TAKE x \in Pairs
        <5>1. x \in All(s) <=> \E j \in 1 .. m : x[1] = b.eng /\ x[2] = b.queries[j]
          BY <3>4, <3>7 DEF All
        <5>2. x[2] \in ToSet(b.queries) <=> \E j \in 1 .. m : x[2] = b.queries[j]
          BY <3>1, InSet
        <5>3. QED BY <3>1, <5>1, <5>2 DEF Of
      <4>2. QED BY <4>1 DEF All, Of
    <3>10. QED BY <3>4, <3>8, <3>9 DEF b, s
  <2>3. seqs \in Seq(Seq(Batches)) /\ Len(seqs) = n
    BY <1>1, <2>2
  <2> HIDE DEF seqs
  <2>4. QED BY <1>1, <2>1, <2>2, <2>3, FlattenCovers
<1>6. QED BY <1>2, <1>3, <1>4, <1>5

-----------------------------------------------------------------------------
(* Lists of batches and of queries.                                          *)

LEMMA TailAll ==
  ASSUME NEW S, NEW bs \in Seq(S), bs # <<>>, Apart(bs)
  PROVE  /\ Head(bs) \in S /\ Tail(bs) \in Seq(S) /\ Apart(Tail(bs))
         /\ All(bs) = Of(Head(bs)) \union All(Tail(bs))
         /\ Of(Head(bs)) \cap All(Tail(bs)) = {}
         /\ Head(bs) # Shutdown => Distinct(Head(bs).queries)
<1> DEFINE h == Head(bs)
           t == Tail(bs)
           n == Len(bs)
<1>1. /\ n \in Nat /\ n > 0 /\ h = bs[1] /\ h \in S /\ t \in Seq(S) /\ Len(t) = n - 1
      /\ \A i \in 1 .. n - 1 : t[i] = bs[i + 1] /\ i + 1 \in 1 .. n /\ i + 1 # 1
      /\ 1 \in 1 .. n
  BY HeadTailProperties
<1> HIDE DEF h, t
<1>2. Apart(t)
  <2>1. \A i, j \in 1 .. n - 1 : i # j => Of(t[i]) \cap Of(t[j]) = {}
    <3> SUFFICES ASSUME NEW i \in 1 .. n - 1, NEW j \in 1 .. n - 1, i # j
                 PROVE  Of(t[i]) \cap Of(t[j]) = {}
      OBVIOUS
    <3>1. i + 1 \in 1 .. n /\ j + 1 \in 1 .. n /\ i + 1 # j + 1
      BY <1>1
    <3>2. QED BY <1>1, <3>1 DEF Apart
  <2>2. \A i \in 1 .. n - 1 : t[i] # Shutdown => Distinct(t[i].queries)
    BY <1>1 DEF Apart
  <2>3. QED BY <1>1, <2>1, <2>2 DEF Apart
<1>3. \A x \in Pairs : x \in All(bs) <=> x \in Of(h) \/ x \in All(t)
  <2> TAKE x \in Pairs
  <2>1. ASSUME x \in All(bs) PROVE x \in Of(h) \/ x \in All(t)
    <3>1. PICK i \in 1 .. n : x \in Of(bs[i])
      BY <2>1 DEF All
    <3>2. CASE i = 1
      BY <1>1, <3>1, <3>2
    <3>3. CASE i # 1
      <4>1. i - 1 \in 1 .. Len(t) /\ t[i - 1] = bs[i]
        BY <1>1, <3>3
      <4>2. QED BY <3>1, <4>1 DEF All
    <3>4. QED BY <3>2, <3>3
  <2>2. ASSUME x \in Of(h) PROVE x \in All(bs)
    BY <1>1, <2>2 DEF All
  <2>3. ASSUME x \in All(t) PROVE x \in All(bs)
    <3>1. PICK i \in 1 .. n - 1 : x \in Of(t[i])
      BY <1>1, <2>3 DEF All
    <3>2. QED BY <1>1, <3>1 DEF All
  <2>4. QED BY <2>1, <2>2, <2>3
<1>4. Of(h) \cap All(t) = {}
  <2> SUFFICES ASSUME NEW x \in Of(h), x \in All(t) PROVE FALSE
    OBVIOUS
  <2>1. PICK i \in 1 .. n - 1 : x \in Of(t[i])
    BY <1>1 DEF All
  <2>2. Of(bs[1]) \cap Of(bs[i + 1]) = {}
    BY <1>1, <2>1 DEF Apart
  <2>3. QED BY <1>1, <2>1, <2>2
<1>5. h # Shutdown => Distinct(h.queries)
  BY <1>1 DEF Apart
<1>6. All(bs) = Of(h) \union All(t)
  BY <1>3 DEF All, Of
<1>7. QED BY <1>1, <1>2, <1>4, <1>5, <1>6 DEF h, t

LEMMA AppendAll ==
  ASSUME NEW S, NEW bs \in Seq(S), NEW b \in S, Apart(bs), Of(b) \cap All(bs) = {},
         b # Shutdown => Distinct(b.queries)
  PROVE  /\ Append(bs, b) \in Seq(S) /\ Apart(Append(bs, b))
         /\ All(Append(bs, b)) = All(bs) \union Of(b)
<1> DEFINE t == Append(bs, b)
           n == Len(bs)
<1>1. /\ n \in Nat /\ t \in Seq(S) /\ Len(t) = n + 1 /\ t[n + 1] = b
      /\ \A i \in 1 .. n : t[i] = bs[i] /\ i \in 1 .. n + 1
      /\ n + 1 \in 1 .. n + 1
  BY AppendProperties
<1>2. \A i \in 1 .. n + 1 : i = n + 1 \/ i \in 1 .. n
  BY <1>1
<1> HIDE DEF t
<1>3. \A i \in 1 .. n : Of(bs[i]) \subseteq All(bs)
  BY DEF All, Of
<1>4. \A x \in Pairs : x \in All(t) <=> x \in All(bs) \/ x \in Of(b)
  <2> TAKE x \in Pairs
  <2>1. ASSUME x \in All(t) PROVE x \in All(bs) \/ x \in Of(b)
    <3>1. PICK i \in 1 .. n + 1 : x \in Of(t[i])
      BY <1>1, <2>1 DEF All
    <3>2. QED BY <1>1, <1>2, <1>3, <3>1
  <2>2. ASSUME x \in Of(b) PROVE x \in All(t)
    BY <1>1, <2>2 DEF All
  <2>3. ASSUME x \in All(bs) PROVE x \in All(t)
    <3>1. PICK i \in 1 .. n : x \in Of(bs[i])
      BY <2>3 DEF All
    <3>2. QED BY <1>1, <3>1 DEF All
  <2>4. QED BY <2>1, <2>2, <2>3
<1>5. All(t) = All(bs) \union Of(b)
  BY <1>4 DEF All, Of
<1>6. Apart(t)
  <2>1. \A i, j \in 1 .. n + 1 : i # j => Of(t[i]) \cap Of(t[j]) = {}
    <3> SUFFICES ASSUME NEW i \in 1 .. n + 1, NEW j \in 1 .. n + 1, i # j
                 PROVE  Of(t[i]) \cap Of(t[j]) = {}
      OBVIOUS
    <3>1. CASE i = n + 1
      BY <1>1, <1>2, <1>3, <3>1
    <3>2. CASE j = n + 1
      BY <1>1, <1>2, <1>3, <3>2
    <3>3. CASE i \in 1 .. n /\ j \in 1 .. n
      BY <1>1, <3>3 DEF Apart
    <3>4. QED BY <1>2, <3>1, <3>2, <3>3
  <2>2. \A i \in 1 .. n + 1 : t[i] # Shutdown => Distinct(t[i].queries)
    <3> TAKE i \in 1 .. n + 1
    <3>1. CASE i = n + 1
      BY <1>1, <3>1
    <3>2. CASE i \in 1 .. n
      BY <1>1, <3>2 DEF Apart
    <3>3. QED BY <1>2, <3>1, <3>2
  <2>3. QED BY <1>1, <2>1, <2>2 DEF Apart
<1>7. QED BY <1>1, <1>5, <1>6 DEF t

\* Shutdown signals carry no queries.
Ended(bs, m) == bs \o [i \in 1 .. m |-> Shutdown]

LEMMA ShutdownAll ==
  ASSUME NEW S, NEW bs \in Seq(S), Shutdown \in S, NEW m \in Nat, Apart(bs),
         NEW t, t = Ended(bs, m)
  PROVE  /\ t \in Seq(S) /\ Apart(t) /\ All(t) = All(bs) /\ Len(t) = Len(bs) + m
         /\ \A i \in 1 .. Len(bs) : t[i] = bs[i]
         /\ \A i \in 1 .. Len(t) : i \in 1 .. Len(bs) \/ t[i] = Shutdown
<1> DEFINE z == [i \in 1 .. m |-> Shutdown]
           n == Len(bs)
<1>1. z \in Seq(S) /\ Len(z) = m /\ \A i \in 1 .. m : z[i] = Shutdown
  OBVIOUS
<1> HIDE DEF z
<1>2. /\ n \in Nat /\ t \in Seq(S) /\ Len(t) = n + m
      /\ \A i \in 1 .. n : t[i] = bs[i]
      /\ \A i \in 1 .. m : t[n + i] = z[i]
  <2>1. t = bs \o z
    BY DEF z, Ended
  <2>2. n \in Nat
    OBVIOUS
  <2>3. /\ t \in Seq(S) /\ Len(t) = n + m
        /\ \A i \in 1 .. n + m : t[i] = IF i <= n THEN bs[i] ELSE z[i - n]
    BY <1>1, <2>1, ConcatProperties
  <2>4. \A i \in 1 .. m : t[n + i] = z[i]
    <3> TAKE i \in 1 .. m
    <3>1. n + i \in 1 .. n + m /\ ~ (n + i <= n) /\ (n + i) - n = i
      BY <2>2
    <3>2. QED BY <2>3, <3>1
  <2>5. \A i \in 1 .. n : t[i] = bs[i]
    BY <2>2, <2>3
  <2>6. QED BY <2>2, <2>3, <2>4, <2>5
<1>3. \A i \in 1 .. n + m : i \in 1 .. n \/ t[i] = Shutdown
  <2> TAKE i \in 1 .. n + m
  <2>1. CASE i <= n
    BY <1>2, <2>1
  <2>2. CASE i > n
    <3>1. i - n \in 1 .. m /\ n + (i - n) = i
      BY <1>2, <2>2
    <3>2. QED BY <1>1, <1>2, <3>1
  <2>3. QED BY <1>2, <2>1, <2>2
<1>4. Of(Shutdown) = {}
  BY DEF Of
<1>5. \A x \in Pairs : x \in All(t) <=> x \in All(bs)
  <2> TAKE x \in Pairs
  <2>1. ASSUME x \in All(t) PROVE x \in All(bs)
    <3>1. PICK i \in 1 .. n + m : x \in Of(t[i])
      BY <1>2, <2>1 DEF All
    <3>2. i \in 1 .. n
      BY <1>3, <1>4, <3>1
    <3>3. QED BY <1>2, <3>1, <3>2 DEF All
  <2>2. ASSUME x \in All(bs) PROVE x \in All(t)
    <3>1. PICK i \in 1 .. n : x \in Of(bs[i])
      BY <2>2 DEF All
    <3>2. i \in 1 .. Len(t) /\ t[i] = bs[i]
      BY <1>2
    <3>3. QED BY <3>1, <3>2 DEF All
  <2>3. QED BY <2>1, <2>2
<1>6. All(t) = All(bs)
  BY <1>5 DEF All
<1>7. Apart(t)
  <2>1. \A i, j \in 1 .. n + m : i # j => Of(t[i]) \cap Of(t[j]) = {}
    <3> SUFFICES ASSUME NEW i \in 1 .. n + m, NEW j \in 1 .. n + m, i # j
                 PROVE  Of(t[i]) \cap Of(t[j]) = {}
      OBVIOUS
    <3>1. CASE i \in 1 .. n /\ j \in 1 .. n
      BY <1>2, <3>1 DEF Apart
    <3>2. CASE t[i] = Shutdown \/ t[j] = Shutdown
      BY <1>4, <3>2
    <3>3. QED BY <1>3, <3>1, <3>2
  <2>2. \A i \in 1 .. n + m : t[i] # Shutdown => Distinct(t[i].queries)
    BY <1>2, <1>3 DEF Apart
  <2>3. QED BY <1>2, <2>1, <2>2 DEF Apart
<1>8. QED BY <1>2, <1>3, <1>6, <1>7

LEMMA NothingAll == All(<<>>) = {} /\ Apart(<<>>) /\ Distinct(<<>>) /\ ToSet(<<>>) = {}
<1>1. Len(<<>>) = 0 /\ 1 .. 0 = {} /\ DOMAIN <<>> = {}
  OBVIOUS
<1>2. QED BY <1>1 DEF All, Apart, Distinct, ToSet

\* A thread goes on with the queries behind the one it has run.
LEMMA TailDistinct ==
  ASSUME NEW s \in Seq(QueryIds), s # <<>>, Distinct(s)
  PROVE  /\ Head(s) \in QueryIds /\ Tail(s) \in Seq(QueryIds) /\ Distinct(Tail(s))
         /\ \A q : q \in ToSet(s) <=> q = Head(s) \/ q \in ToSet(Tail(s))
         /\ Head(s) \notin ToSet(Tail(s))
<1> DEFINE h == Head(s)
           t == Tail(s)
           n == Len(s)
<1>1. /\ n \in Nat /\ n > 0 /\ h = s[1] /\ h \in QueryIds /\ t \in Seq(QueryIds) /\ Len(t) = n - 1
      /\ \A i \in 1 .. n - 1 : t[i] = s[i + 1] /\ i + 1 \in 1 .. n /\ i + 1 # 1
      /\ 1 \in 1 .. n
  BY HeadTailProperties
<1> HIDE DEF h, t
<1>2. Distinct(t)
  <2> SUFFICES ASSUME NEW i \in 1 .. n - 1, NEW j \in 1 .. n - 1, t[i] = t[j] PROVE i = j
    BY <1>1 DEF Distinct
  <2>1. s[i + 1] = s[j + 1] /\ i + 1 \in 1 .. n /\ j + 1 \in 1 .. n
    BY <1>1
  <2>2. i + 1 = j + 1
    BY <2>1 DEF Distinct
  <2>3. QED BY <1>1, <2>2
<1>3. \A q : q \in ToSet(s) <=> q = h \/ q \in ToSet(t)
  <2> TAKE q
  <2>1. q \in ToSet(s) <=> \E i \in 1 .. n : q = s[i]
    BY InSet
  <2>2. q \in ToSet(t) <=> \E i \in 1 .. n - 1 : q = t[i]
    BY <1>1, InSet
  <2>3. ASSUME NEW i \in 1 .. n, q = s[i], i # 1 PROVE q \in ToSet(t)
    <3>1. i - 1 \in 1 .. n - 1 /\ t[i - 1] = s[i]
      BY <1>1, <2>3
    <3>2. QED BY <2>2, <2>3, <3>1
  <2>4. ASSUME NEW i \in 1 .. n - 1, q = t[i] PROVE q \in ToSet(s)
    BY <1>1, <2>1, <2>4
  <2>5. QED BY <1>1, <2>1, <2>2, <2>3, <2>4
<1>4. h \notin ToSet(t)
  <2> SUFFICES ASSUME h \in ToSet(t) PROVE FALSE
    OBVIOUS
  <2>1. PICK i \in 1 .. n - 1 : h = t[i]
    BY <1>1, InSet
  <2>2. s[1] = s[i + 1] /\ i + 1 \in 1 .. n /\ i + 1 # 1
    BY <1>1, <2>1
  <2>3. QED BY <1>1, <2>2 DEF Distinct
<1>5. QED BY <1>1, <1>2, <1>3, <1>4 DEF h, t

\* Only queries without a plan are skipped.
LEMMA FromKnownSkips ==
  ASSUME NEW e \in Engines, NEW qs \in Seq(QueryIds), Distinct(qs)
  PROVE  LET t == FromKnown(e, qs)
         IN  /\ t \in Seq(QueryIds) /\ Distinct(t)
             /\ t # <<>> => Head(t) \in PlansOf[e]
             /\ \A q \in ToSet(t) : q \in ToSet(qs)
             /\ \A q \in ToSet(qs) : q \in ToSet(t) \/ q \notin PlansOf[e]
<1> DEFINE t == FromKnown(e, qs)
           n == Len(qs)
           known == {i \in 1 .. n : qs[i] \in PlansOf[e]}
<1>1. n \in Nat /\ DOMAIN qs = 1 .. n
  BY LenProperties
<1>2. t = IF known = {} THEN <<>> ELSE SubSeq(qs, Min(known), n)
  BY <1>1 DEF FromKnown
<1> HIDE DEF t
<1>3. CASE known = {}
  <2>1. t = <<>> /\ <<>> \in Seq(QueryIds)
    BY <1>2, <1>3
  <2>2. \A q \in ToSet(qs) : q \notin PlansOf[e]
    BY <1>3, InSet
  <2>3. QED BY <2>1, <2>2, NothingAll DEF t
<1>4. CASE known # {}
  <2> DEFINE m == Min(known)
  <2>1. m \in known /\ \A i \in known : m <= i
    <3>1. known \subseteq Nat
      BY <1>1
    <3> HIDE DEF known
    <3>2. \E x \in known : \A y \in known : x <= y
      BY <1>4, <3>1, LeastNatural
    <3>3. QED BY <3>2 DEF Min
  <2> HIDE DEF m
  <2>2. m \in 1 .. n /\ qs[m] \in PlansOf[e] /\ m \in Nat
    BY <1>1, <2>1
  <2>3. /\ t \in Seq(QueryIds) /\ Len(t) = n - m + 1
        /\ \A i \in 1 .. n - m + 1 : t[i] = qs[m + i - 1] /\ m + i - 1 \in 1 .. n
    <3>1. t = SubSeq(qs, m, n)
      BY <1>2, <1>4 DEF m
    <3>2. QED BY <1>1, <2>2, <3>1, SubSeqProperties
  <2>4. Distinct(t)
    <3> SUFFICES ASSUME NEW i \in 1 .. n - m + 1, NEW j \in 1 .. n - m + 1, t[i] = t[j] PROVE i = j
      BY <2>3 DEF Distinct
    <3>1. m + i - 1 = m + j - 1
      BY <2>3 DEF Distinct
    <3>2. QED BY <1>1, <2>2, <3>1
  <2>5. Head(t) = qs[m]
    <3>1. t # <<>> /\ 1 \in 1 .. n - m + 1
      BY <1>1, <2>2, <2>3
    <3>2. Head(t) = t[1] /\ t[1] = qs[m + 1 - 1]
      BY <2>3, <3>1
    <3>3. QED BY <2>2, <3>2
  <2>6. \A q \in ToSet(t) : q \in ToSet(qs)
    BY <2>3, InSet
  <2>7. \A q \in ToSet(qs) : q \in ToSet(t) \/ q \notin PlansOf[e]
    <3> SUFFICES ASSUME NEW q \in ToSet(qs), q \in PlansOf[e] PROVE q \in ToSet(t)
      OBVIOUS
    <3>1. PICK i \in 1 .. n : q = qs[i]
      BY InSet
    <3>2. m <= i
      BY <2>1, <3>1
    <3>3. i - m + 1 \in 1 .. n - m + 1 /\ m + (i - m + 1) - 1 = i
      BY <1>1, <2>2, <3>2
    <3>4. t[i - m + 1] = q
      BY <2>3, <3>1, <3>3
    <3>5. QED BY <2>3, <3>3, <3>4, InSet
  <2>8. QED BY <2>2, <2>3, <2>4, <2>5, <2>6, <2>7 DEF t
<1>5. QED BY <1>3, <1>4

-----------------------------------------------------------------------------
(* What a step leaves alone.                                                 *)

LEMMA WorkersAreThreads ==
  /\ \A c \in Calls, i \in Threads : <<c, i>> \in Workers
  /\ \A w \in Workers : w[1] \in Calls /\ w[2] \in Threads /\ w = <<w[1], w[2]>>
  /\ 1 \in Threads
BY RouterAssumption DEF Threads

\* The steps that touch nothing of call c.
SameCall(c) ==
  /\ call'[c] = call[c] /\ queue'[c] = queue[c]
  /\ \A i \in Threads : frame'[<<c, i>>] = frame[<<c, i>>]
  /\ \A x \in Pairs : delivered'[<<c, x[1], x[2]>>] = delivered[<<c, x[1], x[2]>>]

LEMMA SamePlaces ==
  ASSUME NEW c \in Calls, SameCall(c), UNCHANGED inputs
  PROVE  /\ Told(c)' = Told(c) /\ Asked(c)' = Asked(c) /\ PoolSize(c)' = PoolSize(c)
         /\ All(call[c].todo)' = All(call[c].todo) /\ All(queue[c])' = All(queue[c])
         /\ \A i \in Threads : /\ Busy(<<c, i>>)' <=> Busy(<<c, i>>)
                               /\ Left(<<c, i>>)' = Left(<<c, i>>)
                               /\ Got(<<c, i>>)' = Got(<<c, i>>)
<1>1. input' = input /\ pattern' = pattern
  BY DEF inputs
<1>2. Told(c)' = Told(c)
  BY DEF SameCall, Told
<1>3. Asked(c)' = Asked(c)
  BY <1>1 DEF Asked, QueriesFor
<1>4. PoolSize(c)' = PoolSize(c)
  BY <1>1 DEF PoolSize, BatchesOf, AgentBatches, QueriesFor
<1>5. \A i \in Threads : /\ Busy(<<c, i>>)' <=> Busy(<<c, i>>)
                         /\ Left(<<c, i>>)' = Left(<<c, i>>)
                         /\ Got(<<c, i>>)' = Got(<<c, i>>)
  BY DEF SameCall, Busy, Left, Got
<1>6. All(call[c].todo)' = All(call[c].todo) /\ All(queue[c])' = All(queue[c])
  BY DEF SameCall, All
<1>7. QED BY <1>2, <1>3, <1>4, <1>5, <1>6

LEMMA SameLocal ==
  ASSUME NEW c \in Calls, Local(c), SameCall(c), UNCHANGED inputs, exposed \subseteq exposed'
  PROVE  Local(c)'
<1>1. input' = input /\ pattern' = pattern
  BY DEF inputs
<1>2. /\ Told(c)' = Told(c) /\ Asked(c)' = Asked(c) /\ PoolSize(c)' = PoolSize(c)
      /\ \A i \in Threads : /\ Busy(<<c, i>>)' <=> Busy(<<c, i>>)
                            /\ Left(<<c, i>>)' = Left(<<c, i>>)
                            /\ Got(<<c, i>>)' = Got(<<c, i>>)
                            /\ Held(c, i)' = Held(c, i)
  BY SamePlaces DEF Held
<1>3. CallInv(c)'
  <2>1. CallInv(c) /\ All(queue[c])' = All(queue[c])
    BY SamePlaces DEF Local
  <2>2. call'[c] = call[c] /\ queue'[c] = queue[c] /\ \A i \in Threads : frame'[<<c, i>>] = frame[<<c, i>>]
    BY DEF SameCall
  <2>3. QED BY <1>1, <1>2, <2>1, <2>2, WorkersAreThreads DEF CallInv
<1>4. QueueInv(c)'
  BY DEF Local, QueueInv, SameCall
<1>5. PlaceInv(c)'
  <2>1. /\ PlaceInv(c) /\ All(queue[c])' = All(queue[c]) /\ All(call[c].todo)' = All(call[c].todo)
        /\ call'[c] = call[c] /\ queue'[c] = queue[c] /\ Holds(c)' = Holds(c)
    BY SamePlaces DEF Local, SameCall, Holds, Held
  <2>2. QED BY <1>2, <2>1 DEF PlaceInv
<1>6. ToldInv(c)'
  BY DEF Local, ToldInv, SameCall
<1>7. \A i \in Threads : FrameInv(<<c, i>>)'
  <2> TAKE i \in Threads
  <2>1. FrameInv(<<c, i>>) /\ frame'[<<c, i>>] = frame[<<c, i>>]
    BY DEF Local, SameCall
  <2>2. c \in ActiveCalls' <=> c \in ActiveCalls
    BY DEF ActiveCalls, SameCall
  <2>3. <<c, i>>[1] = c
    OBVIOUS
  <2>4. QED BY <1>2, <2>1, <2>2, <2>3 DEF FrameInv
<1>8. QED BY <1>3, <1>4, <1>5, <1>6, <1>7 DEF Local

\* A step of a cancellation.
LEMMA CancelStepIInv ==
  ASSUME IInv, TypeOK', CancelInv', exposed \subseteq exposed',
         UNCHANGED <<pattern, input, ref_count, call, queue, delivered, execute_ref_count, frame>>
  PROVE  IInv'
<1>1. \A c \in Calls : Local(c)'
  <2> TAKE c \in Calls
  <2>1. Local(c) /\ SameCall(c) /\ UNCHANGED inputs
    BY DEF IInv, SameCall, inputs
  <2>2. QED BY <2>1, SameLocal
<1>2. CountInv'
  <2>1. CountInv
    BY DEF IInv
  <2>2. ActiveCalls' = ActiveCalls /\ \A e \in Engines : Inside(e)' = Inside(e)
    BY DEF ActiveCalls, Inside
  <2>3. QED BY <2>1, <2>2 DEF CountInv
<1>3. QED BY <1>1, <1>2 DEF IInv

\* A step of call c or of one of its threads.
LEMMA CallStepIInv ==
  ASSUME IInv, TypeOK', NEW c \in Calls, Local(c)', CancelInv', CountInv',
         exposed \subseteq exposed', UNCHANGED inputs,
         \A d \in Calls : d # c => SameCall(d)
  PROVE  IInv'
<1>1. \A d \in Calls : Local(d)'
  <2> TAKE d \in Calls
  <2>1. Local(d)
    BY DEF IInv
  <2>2. CASE d # c
    BY <2>1, <2>2, SameLocal
  <2>3. QED BY <2>2
<1>2. QED BY <1>1 DEF IInv

-----------------------------------------------------------------------------
(* Cancellation.                                                             *)

LEMMA InitIInv == Init => IInv
<1> SUFFICES ASSUME Init PROVE IInv
  OBVIOUS
<1> USE DEF Init, EngineInit
<1>1. TypeOK
  <2>1. NoFrame \in [at : FrameAt, eng : Engines \union {NoFrame.eng}, todo : Seq(QueryIds),
                     results : SUBSET (QueryIds \X Statuses)]
    BY DEF NoFrame, FrameAt
  <2>2. frame \in [Workers -> [at : FrameAt, eng : Engines \union {NoFrame.eng}, todo : Seq(QueryIds),
                               results : SUBSET (QueryIds \X Statuses)]]
    BY <2>1
  <2>3. EngineTypeOK
    BY <2>2 DEF EngineTypeOK, TaskAt
  <2>4. queue \in [Calls -> Seq(Items \union {Shutdown})]
        /\ call \in [Calls -> [at : CallAt, todo : Seq(Batches), cancelled : BOOLEAN]]
    BY DEF CallAt
  <2>5. delivered \in [Calls \X Engines \X QueryIds -> Statuses \union {"none", "twice"}]
        /\ cancel \in [Cancels -> CancelAt]
    BY DEF CancelAt
  <2>6. QED BY <2>3, <2>4, <2>5 DEF TypeOK
<1>2. ASSUME NEW c \in Calls PROVE Local(c)
  <2>1. /\ call[c].at = "new" /\ call[c].todo = <<>> /\ call[c].cancelled = FALSE /\ queue[c] = <<>>
        /\ Len(<<>>) = 0 /\ 1 .. 0 = {}
    OBVIOUS
  <2>2. \A i \in Threads : /\ frame[<<c, i>>] = NoFrame /\ ~ Busy(<<c, i>>)
                           /\ Left(<<c, i>>) = {} /\ Got(<<c, i>>) = {}
    BY WorkersAreThreads DEF NoFrame, Busy, Left, Got
  <2>3. Told(c) = {} /\ \A x \in Pairs : delivered[<<c, x[1], x[2]>>] = "none"
    BY DEF Told, Pairs
  <2>10. \A i \in Threads : frame[<<c, i>>].at = "none" /\ frame[<<c, i>>].todo = <<>>
                            /\ frame[<<c, i>>].results = {}
    <3>1. NoFrame.at = "none" /\ NoFrame.todo = <<>> /\ NoFrame.results = {}
      BY DEF NoFrame
    <3>2. QED BY <2>2, <3>1
  <2>4. CallInv(c)
    BY <2>1, <2>10, <2>3, WorkersAreThreads DEF CallInv
  <2>5. QueueInv(c)
    BY <2>1, <2>10 DEF QueueInv
  <2>6. PlaceInv(c)
    <3>1. \A i \in Threads : Holds(c)[i] = {}
      BY <2>2 DEF Holds, Held
    <3>2. Placed({}, {}, {}, Holds(c), Asked(c))
      BY <3>1 DEF Placed
    <3>3. QED BY <2>1, <2>3, <3>2, NothingAll DEF PlaceInv
  <2>7. ToldInv(c)
    BY <2>3 DEF ToldInv
  <2>8. \A i \in Threads : FrameInv(<<c, i>>)
    BY <2>2, <2>10, NothingAll DEF FrameInv
  <2>9. QED BY <2>4, <2>5, <2>6, <2>7, <2>8 DEF Local
<1>3. CancelInv
  BY DEF CancelInv, ActiveCancels
<1>4. CountInv
  <2>1. ActiveCalls = {} /\ \A e \in Engines : Inside(e) = {}
    BY DEF ActiveCalls, Inside, NoFrame, InCall
  <2>2. QED BY <2>1, FS_EmptySet DEF CountInv
<1>5. QED BY <1>1, <1>2, <1>3, <1>4 DEF IInv

LEMMA CancelTyped ==
  ASSUME IInv
  PROVE  /\ TypeOK /\ CancelInv
         /\ cancel \in [Cancels -> CancelAt] /\ task \in [Cancels \X Engines -> TaskAt]
         /\ NoThread \notin Cancels
BY NoThreadAssumption DEF IInv, TypeOK, EngineTypeOK

LEMMA CancelCheckIInv ==
  ASSUME IInv, NEW k \in Cancels, CancelCheck(k)
  PROVE  IInv'
<1> DEFINE a == IF ref_count = 0 THEN "done" ELSE "lock"
<1>1. /\ TypeOK /\ CancelInv /\ cancel \in [Cancels -> CancelAt] /\ cancel[k] = "new"
      /\ cancel' = [cancel EXCEPT ![k] = a] /\ a \in {"done", "lock"}
      /\ exposed' = exposed \union ActiveCalls
      /\ UNCHANGED <<pattern, input, ref_count, cancelling, mutex, call, queue, delivered,
                     execute_ref_count, cancellation_state, state_mutex, planner_state,
                     in_progress, frame, task>>
  BY CancelTyped DEF CancelCheck, inputs, engineVars
<1> HIDE DEF a
<1>2. cancel'[k] = a /\ \A l \in Cancels : l # k => cancel'[l] = cancel[l]
  BY <1>1
<1>3. TypeOK'
  <2>1. cancel' \in [Cancels -> CancelAt] /\ exposed' \subseteq Calls
    BY <1>1 DEF CancelAt, TypeOK, ActiveCalls
  <2>2. QED BY <1>1, <2>1 DEF TypeOK, EngineTypeOK
<1>4. CancelInv'
  <2>1. cancelling' => \E l \in Cancels : cancel'[l] \in Live
    BY <1>1, <1>2 DEF CancelInv, Live
  <2>2. \A l \in Cancels, e \in Engines :
       task'[<<l, e>>] \notin {"none", "done"} => cancel'[l] \notin {"new", "lock", "done"}
    BY <1>1, <1>2 DEF CancelInv
  <2>3. \A l \in Cancels, e \in Engines :
       cancel'[l] \in {"new", "lock"} \/ e \notin ToSet(RoutingTable) => task'[<<l, e>>] = "none"
    BY <1>1, <1>2 DEF CancelInv
  <2>4. ActiveCalls' \subseteq exposed'
    BY <1>1 DEF ActiveCalls
  <2>5. QED BY <1>1, <2>1, <2>2, <2>3, <2>4 DEF CancelInv
<1>5. QED BY <1>1, <1>3, <1>4, CancelStepIInv

\* The other steps of CancelQueryExecution leave the calls alone.
LEMMA CancelMoves ==
  ASSUME IInv, NEW k \in Cancels, NEW a \in CancelAt \ {"new"},
         cancel[k] \notin {"new", "done"}, cancel' = [cancel EXCEPT ![k] = a],
         cancelling' \in BOOLEAN, mutex' \in Cancels \union {NoThread},
         task' \in [Cancels \X Engines -> TaskAt],
         cancelling' => \E l \in Cancels : cancel'[l] \in Live,
         \A l \in Cancels, e \in Engines :
           task'[<<l, e>>] \notin {"none", "done"} => cancel'[l] \notin {"new", "lock", "done"},
         \A l \in Cancels, e \in Engines :
           cancel'[l] \in {"new", "lock"} \/ e \notin ToSet(RoutingTable) => task'[<<l, e>>] = "none",
         \A l \in Cancels, e \in Engines : task[<<l, e>>] \in Live => task'[<<l, e>>] \in Live,
         UNCHANGED <<pattern, input, ref_count, call, queue, delivered, exposed,
                     execute_ref_count, cancellation_state, state_mutex, planner_state,
                     in_progress, frame>>
  PROVE  IInv'
<1>1. TypeOK /\ CancelInv /\ cancel \in [Cancels -> CancelAt]
  BY CancelTyped
<1>2. cancel' \in [Cancels -> CancelAt] /\ cancel'[k] = a
      /\ \A l \in Cancels : l # k => cancel'[l] = cancel[l]
  BY <1>1
<1>3. TypeOK'
  BY <1>1, <1>2 DEF TypeOK, EngineTypeOK
<1>4. ActiveCancels' # {} => ActiveCalls' \subseteq exposed'
  <2>1. ActiveCancels # {} /\ ActiveCalls' = ActiveCalls
    BY DEF ActiveCancels, ActiveCalls
  <2>2. QED BY <1>1, <2>1 DEF CancelInv
<1>5. \A e \in Engines :
        cancellation_state'[e] \/ (\E q \in QueryIds : planner_state'[<<e, q>>]) =>
          \E l \in Cancels : task'[<<l, e>>] \in Live
  <2> SUFFICES ASSUME NEW e \in Engines, cancellation_state[e] \/ (\E q \in QueryIds : planner_state[<<e, q>>])
               PROVE  \E l \in Cancels : task'[<<l, e>>] \in Live
    OBVIOUS
  <2>1. PICK l \in Cancels : task[<<l, e>>] \in Live
    BY <1>1 DEF CancelInv
  <2>2. QED BY <2>1
<1>6. CancelInv'
  BY <1>4, <1>5 DEF CancelInv
<1>7. QED BY <1>3, <1>6, CancelStepIInv

LEMMA CancelStepsIInv ==
  ASSUME IInv, NEW k \in Cancels, CancelStep(k)
  PROVE  IInv'
<1>1. TypeOK /\ CancelInv /\ cancel \in [Cancels -> CancelAt] /\ task \in [Cancels \X Engines -> TaskAt]
      /\ cancelling \in BOOLEAN /\ mutex \in Cancels \union {NoThread}
  BY CancelTyped DEF TypeOK
<1> USE DEF inputs, engineVars
<1>2. CASE CancelRefused(k)
  <2>1. /\ cancel[k] = "lock" /\ cancel' = [cancel EXCEPT ![k] = "done"]
        /\ cancel'[k] = "done" /\ \A l \in Cancels : l # k => cancel'[l] = cancel[l]
        /\ UNCHANGED <<pattern, input, ref_count, cancelling, mutex, call, queue, delivered, exposed,
                       execute_ref_count, cancellation_state, state_mutex, planner_state,
                       in_progress, frame, task>>
    BY <1>1, <1>2 DEF CancelRefused
  <2>2. cancelling' => \E l \in Cancels : cancel'[l] \in Live
    BY <1>1, <2>1 DEF CancelInv, Live
  <2>3. \A l \in Cancels, e \in Engines :
           task'[<<l, e>>] \notin {"none", "done"} => cancel'[l] \notin {"new", "lock", "done"}
    BY <1>1, <2>1 DEF CancelInv
  <2>4. \A l \in Cancels, e \in Engines :
           cancel'[l] \in {"new", "lock"} \/ e \notin ToSet(RoutingTable) => task'[<<l, e>>] = "none"
    BY <1>1, <2>1 DEF CancelInv
  <2>5. /\ "done" \in CancelAt \ {"new"} /\ task' \in [Cancels \X Engines -> TaskAt]
        /\ cancelling' \in BOOLEAN /\ mutex' \in Cancels \union {NoThread}
        /\ \A l \in Cancels, e \in Engines : task[<<l, e>>] \in Live => task'[<<l, e>>] \in Live
    BY <1>1, <2>1 DEF CancelAt
  <2>6. QED BY <1>1, <2>1, <2>2, <2>3, <2>4, <2>5, CancelMoves
<1>3. CASE CancelLock(k)
  <2>1. /\ cancel[k] = "lock" /\ cancel' = [cancel EXCEPT ![k] = "towait"]
        /\ cancel'[k] = "towait" /\ \A l \in Cancels : l # k => cancel'[l] = cancel[l]
        /\ cancelling' = TRUE /\ mutex' = k
        /\ UNCHANGED <<pattern, input, ref_count, call, queue, delivered, exposed,
                       execute_ref_count, cancellation_state, state_mutex, planner_state,
                       in_progress, frame>>
    BY <1>1, <1>3 DEF CancelLock
  <2>2. task' = [x \in Cancels \X Engines |->
                   IF x[1] = k /\ x[2] \in ToSet(RoutingTable) THEN "check" ELSE task[x]]
    BY <1>1, <1>3 DEF CancelLock
  <2>3. \A l \in Cancels, e \in Engines :
          task'[<<l, e>>] = IF l = k /\ e \in ToSet(RoutingTable) THEN "check" ELSE task[<<l, e>>]
    BY <2>2
  <2>4. task' \in [Cancels \X Engines -> TaskAt]
    BY <1>1, <2>2 DEF TaskAt
  <2>5. cancelling' => \E l \in Cancels : cancel'[l] \in Live
    BY <2>1 DEF Live
  <2>6. \A l \in Cancels, e \in Engines :
           task'[<<l, e>>] \notin {"none", "done"} => cancel'[l] \notin {"new", "lock", "done"}
    BY <1>1, <2>1, <2>3 DEF CancelInv
  <2>7. \A l \in Cancels, e \in Engines :
           cancel'[l] \in {"new", "lock"} \/ e \notin ToSet(RoutingTable) => task'[<<l, e>>] = "none"
    BY <1>1, <2>1, <2>3 DEF CancelInv
  <2>8. \A l \in Cancels, e \in Engines : task[<<l, e>>] \in Live => task'[<<l, e>>] \in Live
    BY <1>1, <2>1, <2>3 DEF CancelInv, Live
  <2>9. "towait" \in CancelAt \ {"new"} /\ mutex' \in Cancels \union {NoThread} /\ cancelling' \in BOOLEAN
    BY <2>1 DEF CancelAt
  <2>10. QED BY <1>1, <2>1, <2>4, <2>5, <2>6, <2>7, <2>8, <2>9, CancelMoves
<1>4. CASE CancelWait(k)
  <2>1. /\ cancel[k] = "towait" /\ cancel' = [cancel EXCEPT ![k] = "wait"]
        /\ cancel'[k] = "wait" /\ \A l \in Cancels : l # k => cancel'[l] = cancel[l]
        /\ mutex' = NoThread
        /\ UNCHANGED <<pattern, input, ref_count, cancelling, call, queue, delivered, exposed,
                       execute_ref_count, cancellation_state, state_mutex, planner_state,
                       in_progress, frame, task>>
    BY <1>1, <1>4 DEF CancelWait
  <2>2. cancelling' => \E l \in Cancels : cancel'[l] \in Live
    BY <2>1 DEF Live
  <2>3. \A l \in Cancels, e \in Engines :
           task'[<<l, e>>] \notin {"none", "done"} => cancel'[l] \notin {"new", "lock", "done"}
    BY <1>1, <2>1 DEF CancelInv
  <2>4. \A l \in Cancels, e \in Engines :
           cancel'[l] \in {"new", "lock"} \/ e \notin ToSet(RoutingTable) => task'[<<l, e>>] = "none"
    BY <1>1, <2>1 DEF CancelInv
  <2>5. "wait" \in CancelAt \ {"new"} /\ task' = task /\ mutex' \in Cancels \union {NoThread}
    BY <2>1 DEF CancelAt
  <2>6. QED BY <1>1, <2>1, <2>2, <2>3, <2>4, <2>5, CancelMoves
<1>5. CASE CancelResume(k)
  <2>1. /\ cancel[k] = "woken" /\ cancel' = [cancel EXCEPT ![k] = "join"]
        /\ cancel'[k] = "join" /\ \A l \in Cancels : l # k => cancel'[l] = cancel[l]
        /\ mutex' = k /\ cancelling' = FALSE
        /\ UNCHANGED <<pattern, input, ref_count, call, queue, delivered, exposed,
                       execute_ref_count, cancellation_state, state_mutex, planner_state,
                       in_progress, frame, task>>
    BY <1>1, <1>5 DEF CancelResume
  <2>3. \A l \in Cancels, e \in Engines :
           task'[<<l, e>>] \notin {"none", "done"} => cancel'[l] \notin {"new", "lock", "done"}
    BY <1>1, <2>1 DEF CancelInv
  <2>4. \A l \in Cancels, e \in Engines :
           cancel'[l] \in {"new", "lock"} \/ e \notin ToSet(RoutingTable) => task'[<<l, e>>] = "none"
    BY <1>1, <2>1 DEF CancelInv
  <2>5. "join" \in CancelAt \ {"new"} /\ task' = task /\ mutex' \in Cancels \union {NoThread}
        /\ cancelling' \in BOOLEAN
    BY <2>1 DEF CancelAt
  <2>6. QED BY <1>1, <2>1, <2>3, <2>4, <2>5, CancelMoves
<1>6. CASE CancelReturn(k)
  <2>1. /\ cancel[k] = "join" /\ cancel' = [cancel EXCEPT ![k] = "done"]
        /\ cancel'[k] = "done" /\ \A l \in Cancels : l # k => cancel'[l] = cancel[l]
        /\ mutex' = NoThread /\ \A e \in ToSet(RoutingTable) : task[<<k, e>>] = "done"
        /\ UNCHANGED <<pattern, input, ref_count, cancelling, call, queue, delivered, exposed,
                       execute_ref_count, cancellation_state, state_mutex, planner_state,
                       in_progress, frame, task>>
    BY <1>1, <1>6 DEF CancelReturn
  <2>2. cancelling' => \E l \in Cancels : cancel'[l] \in Live
    BY <1>1, <2>1 DEF CancelInv, Live
  <2>3. \A l \in Cancels, e \in Engines :
           task'[<<l, e>>] \notin {"none", "done"} => cancel'[l] \notin {"new", "lock", "done"}
    BY <1>1, <2>1 DEF CancelInv
  <2>4. \A l \in Cancels, e \in Engines :
           cancel'[l] \in {"new", "lock"} \/ e \notin ToSet(RoutingTable) => task'[<<l, e>>] = "none"
    BY <1>1, <2>1 DEF CancelInv
  <2>5. /\ "done" \in CancelAt \ {"new"} /\ task' \in [Cancels \X Engines -> TaskAt]
        /\ cancelling' \in BOOLEAN /\ mutex' \in Cancels \union {NoThread}
        /\ \A l \in Cancels, e \in Engines : task[<<l, e>>] \in Live => task'[<<l, e>>] \in Live
    BY <1>1, <2>1 DEF CancelAt
  <2>6. QED BY <1>1, <2>1, <2>2, <2>3, <2>4, <2>5, CancelMoves
<1>7. QED BY <1>2, <1>3, <1>4, <1>5, <1>6 DEF CancelStep

\* A flag of engine e is set.
Flagged(e) == cancellation_state[e] \/ \E q \in QueryIds : planner_state[<<e, q>>]

LEMMA TaskMoves ==
  ASSUME IInv, NEW k \in Cancels, NEW e \in Engines, NEW a \in TaskAt \ {"none"},
         task[<<k, e>>] \notin {"none", "done"}, task' = [task EXCEPT ![<<k, e>>] = a],
         cancellation_state' \in [Engines -> BOOLEAN],
         planner_state' \in [Engines \X QueryIds -> BOOLEAN],
         state_mutex' \in [Engines -> Cancels \union {NoThread}],
         \A f \in Engines : f # e => (Flagged(f)' => Flagged(f)),
         Flagged(e)' => \E l \in Cancels : task'[<<l, e>>] \in Live,
         UNCHANGED <<execute_ref_count, in_progress, frame, routerVars>>
  PROVE  IInv'
<1>1. TypeOK /\ CancelInv /\ task \in [Cancels \X Engines -> TaskAt]
  BY CancelTyped
<1>2. UNCHANGED <<pattern, input, ref_count, cancelling, mutex, call, queue, delivered,
                  cancel, exposed, execute_ref_count, in_progress, frame>>
  BY DEF routerVars
<1>3. task' \in [Cancels \X Engines -> TaskAt] /\ task'[<<k, e>>] = a
      /\ \A l \in Cancels, f \in Engines : <<l, f>> # <<k, e>> => task'[<<l, f>>] = task[<<l, f>>]
  BY <1>1
<1>4. TypeOK'
  BY <1>1, <1>2, <1>3 DEF TypeOK, EngineTypeOK
<1>5. \A f \in Engines : Flagged(f)' => \E l \in Cancels : task'[<<l, f>>] \in Live
  <2> SUFFICES ASSUME NEW f \in Engines, Flagged(f)', f # e
               PROVE  \E l \in Cancels : task'[<<l, f>>] \in Live
    OBVIOUS
  <2>1. Flagged(f)
    OBVIOUS
  <2>2. PICK l \in Cancels : task[<<l, f>>] \in Live
    BY <1>1, <2>1 DEF CancelInv, Flagged
  <2>3. QED BY <1>3, <2>2
<1>6. \A l \in Cancels, f \in Engines :
       task'[<<l, f>>] \notin {"none", "done"} => cancel[l] \notin {"new", "lock", "done"}
  <2> TAKE l \in Cancels, f \in Engines
  <2>1. CASE <<l, f>> = <<k, e>>
    BY <1>1, <2>1 DEF CancelInv
  <2>2. CASE <<l, f>> # <<k, e>>
    BY <1>1, <1>3, <2>2 DEF CancelInv
  <2>3. QED BY <2>1, <2>2
<1>7. \A l \in Cancels, f \in Engines :
       cancel[l] \in {"new", "lock"} \/ f \notin ToSet(RoutingTable) => task'[<<l, f>>] = "none"
  <2> TAKE l \in Cancels, f \in Engines
  <2>1. CASE <<l, f>> = <<k, e>>
    BY <1>1, <2>1 DEF CancelInv
  <2>2. CASE <<l, f>> # <<k, e>>
    BY <1>1, <1>3, <2>2 DEF CancelInv
  <2>3. QED BY <2>1, <2>2
<1>8. CancelInv'
  <2>1. ActiveCancels' = ActiveCancels /\ ActiveCalls' = ActiveCalls
    BY <1>2 DEF ActiveCancels, ActiveCalls
  <2>2. QED BY <1>1, <1>2, <1>5, <1>6, <1>7, <2>1 DEF CancelInv, Flagged
<1>9. QED BY <1>2, <1>4, <1>8, CancelStepIInv

LEMMA TaskStepIInv ==
  ASSUME IInv, NEW k \in Cancels, NEW e \in Engines, CancelTaskStep(k, e)
  PROVE  IInv'
<1>1. /\ TypeOK /\ CancelInv /\ task \in [Cancels \X Engines -> TaskAt]
      /\ cancellation_state \in [Engines -> BOOLEAN]
      /\ planner_state \in [Engines \X QueryIds -> BOOLEAN]
      /\ state_mutex \in [Engines -> Cancels \union {NoThread}]
      /\ UNCHANGED routerVars /\ TaskStep(k, e)
  BY CancelTyped DEF TypeOK, EngineTypeOK, CancelTaskStep
\* The step of one task cannot take the owner of a flag away.
<1>2. ASSUME NEW a \in TaskAt, task' = [task EXCEPT ![<<k, e>>] = a],
             a \in Live \/ task[<<k, e>>] \notin Live, Flagged(e)
      PROVE  \E l \in Cancels : task'[<<l, e>>] \in Live
  <2>1. PICK l \in Cancels : task[<<l, e>>] \in Live
    BY <1>1, <1>2 DEF CancelInv, Flagged
  <2>2. CASE l = k
    <3>1. task'[<<k, e>>] = a
      BY <1>1, <1>2
    <3>2. QED BY <1>2, <2>1, <2>2, <3>1
  <2>3. CASE l # k
    <3>1. task'[<<l, e>>] = task[<<l, e>>]
      BY <1>1, <1>2, <2>3
    <3>2. QED BY <2>1, <3>1
  <2>4. QED BY <2>2, <2>3
<1>3. CASE TaskCheck(k, e)
  <2> DEFINE a == IF execute_ref_count[e] = 0 THEN "done" ELSE "lock"
  <2>1. /\ task[<<k, e>>] = "check" /\ task' = [task EXCEPT ![<<k, e>>] = a]
        /\ a \in TaskAt \ {"none"} /\ a \in TaskAt
        /\ UNCHANGED <<execute_ref_count, cancellation_state, state_mutex, planner_state, in_progress, frame>>
    BY <1>3 DEF TaskCheck, Goto, TaskAt
  <2> HIDE DEF a
  <2>2. \A f \in Engines : Flagged(f)' <=> Flagged(f)
    BY <2>1 DEF Flagged
  <2>3. Flagged(e)' => \E l \in Cancels : task'[<<l, e>>] \in Live
    BY <1>2, <2>1, <2>2 DEF Live
  <2>4. QED BY <1>1, <2>1, <2>2, <2>3, TaskMoves
<1>4. CASE TaskLock(k, e) /\ cancellation_state[e]
  <2>1. /\ task[<<k, e>>] = "lock" /\ task' = [task EXCEPT ![<<k, e>>] = "done"]
        /\ "done" \in TaskAt \ {"none"} /\ "done" \in TaskAt
        /\ UNCHANGED <<execute_ref_count, cancellation_state, state_mutex, planner_state, in_progress, frame>>
    BY <1>4 DEF TaskLock, Goto, TaskAt
  <2>2. \A f \in Engines : Flagged(f)' <=> Flagged(f)
    BY <2>1 DEF Flagged
  <2>3. Flagged(e)' => \E l \in Cancels : task'[<<l, e>>] \in Live
    BY <1>2, <2>1, <2>2 DEF Live
  <2>4. QED BY <1>1, <2>1, <2>2, <2>3, TaskMoves
<1>5. CASE TaskLock(k, e) /\ ~ cancellation_state[e]
  <2>1. /\ task[<<k, e>>] = "lock" /\ task' = [task EXCEPT ![<<k, e>>] = "towait"]
        /\ "towait" \in TaskAt \ {"none"}
        /\ state_mutex' = [state_mutex EXCEPT ![e] = k]
        /\ cancellation_state' = [cancellation_state EXCEPT ![e] = TRUE]
        /\ SetPlanners(e, TRUE)
        /\ UNCHANGED <<execute_ref_count, in_progress, frame>>
    BY <1>5 DEF TaskLock, Goto, TaskAt
  <2>2. /\ state_mutex' \in [Engines -> Cancels \union {NoThread}]
        /\ cancellation_state' \in [Engines -> BOOLEAN]
        /\ \A f \in Engines : f # e => cancellation_state'[f] = cancellation_state[f]
    BY <1>1, <2>1
  <2>3. planner_state' = [x \in Engines \X QueryIds |->
                            IF x[1] = e THEN TRUE /\ x[2] \in PlansOf[e] ELSE planner_state[x]]
    BY <1>1, <2>1 DEF SetPlanners
  <2>4. /\ planner_state' \in [Engines \X QueryIds -> BOOLEAN]
        /\ \A f \in Engines, q \in QueryIds : f # e => planner_state'[<<f, q>>] = planner_state[<<f, q>>]
    BY <1>1, <2>3
  <2>5. \A f \in Engines : f # e => (Flagged(f)' => Flagged(f))
    BY <2>2, <2>4 DEF Flagged
  <2>6. task'[<<k, e>>] \in Live
    BY <1>1, <2>1 DEF Live
  <2>7. QED BY <1>1, <2>1, <2>2, <2>4, <2>5, <2>6, TaskMoves
<1>6. CASE TaskWait(k, e)
  <2>1. /\ task[<<k, e>>] = "towait" /\ task' = [task EXCEPT ![<<k, e>>] = "wait"]
        /\ "wait" \in TaskAt \ {"none"} /\ "wait" \in TaskAt
        /\ state_mutex' = [state_mutex EXCEPT ![e] = NoThread]
        /\ UNCHANGED <<execute_ref_count, cancellation_state, planner_state, in_progress, frame>>
    BY <1>6 DEF TaskWait, Goto, TaskAt
  <2>2. state_mutex' \in [Engines -> Cancels \union {NoThread}]
    BY <1>1, <2>1
  <2>3. \A f \in Engines : Flagged(f)' <=> Flagged(f)
    BY <2>1 DEF Flagged
  <2>4. Flagged(e)' => \E l \in Cancels : task'[<<l, e>>] \in Live
    BY <1>2, <2>1, <2>3 DEF Live
  <2>5. QED BY <1>1, <2>1, <2>2, <2>3, <2>4, TaskMoves
<1>7. CASE TaskResume(k, e)
  <2>1. /\ task[<<k, e>>] = "woken" /\ task' = [task EXCEPT ![<<k, e>>] = "done"]
        /\ "done" \in TaskAt \ {"none"}
        /\ cancellation_state' = [cancellation_state EXCEPT ![e] = FALSE]
        /\ SetPlanners(e, FALSE)
        /\ UNCHANGED <<execute_ref_count, state_mutex, in_progress, frame>>
    BY <1>7 DEF TaskResume, Goto, TaskAt
  <2>2. /\ cancellation_state' \in [Engines -> BOOLEAN] /\ cancellation_state'[e] = FALSE
        /\ \A f \in Engines : f # e => cancellation_state'[f] = cancellation_state[f]
    BY <1>1, <2>1
  <2>3. planner_state' = [x \in Engines \X QueryIds |->
                            IF x[1] = e THEN FALSE /\ x[2] \in PlansOf[e] ELSE planner_state[x]]
    BY <1>1, <2>1 DEF SetPlanners
  <2>4. /\ planner_state' \in [Engines \X QueryIds -> BOOLEAN]
        /\ \A q \in QueryIds : planner_state'[<<e, q>>] = FALSE
        /\ \A f \in Engines, q \in QueryIds : f # e => planner_state'[<<f, q>>] = planner_state[<<f, q>>]
    BY <1>1, <2>3
  <2>5. \A f \in Engines : f # e => (Flagged(f)' => Flagged(f))
    BY <2>2, <2>4 DEF Flagged
  <2>6. ~ Flagged(e)'
    BY <2>2, <2>4 DEF Flagged
  <2>7. QED BY <1>1, <2>1, <2>2, <2>4, <2>5, <2>6, TaskMoves
<1>8. QED BY <1>1, <1>3, <1>4, <1>5, <1>6, <1>7 DEF TaskStep

-----------------------------------------------------------------------------
(* ExecuteRedpathQuery.                                                      *)

FrameRec == [at : FrameAt, eng : Engines \union {NoFrame.eng}, todo : Seq(QueryIds),
             results : SUBSET (QueryIds \X Statuses)]

LEMMA FrameTyped ==
  ASSUME IInv, NEW w \in Workers
  PROVE  /\ frame \in [Workers -> FrameRec] /\ frame[w] \in FrameRec
         /\ FrameInv(w) /\ w[1] \in Calls /\ w[2] \in Threads /\ w = <<w[1], w[2]>>
         /\ Local(w[1])
<1>1. frame \in [Workers -> FrameRec]
  BY DEF IInv, TypeOK, EngineTypeOK, FrameRec
<1>2. w[1] \in Calls /\ w[2] \in Threads /\ w = <<w[1], w[2]>>
  BY WorkersAreThreads
<1>3. Local(w[1])
  BY <1>2 DEF IInv
<1>4. FrameInv(<<w[1], w[2]>>)
  BY <1>2, <1>3 DEF Local
<1>5. FrameInv(w)
  BY <1>2, <1>4
<1>6. QED BY <1>1, <1>2, <1>3, <1>5

\* A thread drops queries without a plan only.
LEMMA HoldsShrink ==
  ASSUME NEW T, NEW Q, NEW D, NEW A, NEW H, NEW K, NEW i \in Threads,
         Placed(T, Q, D, H, A), \A j \in Threads : j # i => K[j] = H[j], K[i] \subseteq H[i]
  PROVE  /\ Placed(T, Q, D, K, A)
         /\ H[i] \cap Planned \subseteq K[i] /\ Found(T, Q, D, H, A) => Found(T, Q, D, K, A)
<1>1. Placed(T, Q, D, K, A)
  <2>1. \A j \in Threads : K[j] \subseteq H[j]
    OBVIOUS
  <2>2. \A j \in Threads : /\ K[j] \subseteq A
                           /\ K[j] \cap T = {} /\ K[j] \cap Q = {} /\ K[j] \cap D = {}
    BY <2>1 DEF Placed
  <2>3. \A j, l \in Threads : j # l => K[j] \cap K[l] = {}
    BY <2>1 DEF Placed
  <2>4. QED BY <2>2, <2>3 DEF Placed
<1>2. ASSUME H[i] \cap Planned \subseteq K[i], Found(T, Q, D, H, A)
      PROVE  Found(T, Q, D, K, A)
  <2> SUFFICES ASSUME NEW x \in A \cap Planned, x \notin T, x \notin Q, x \notin D
               PROVE  \E j \in Threads : x \in K[j]
    BY DEF Found
  <2>1. PICK j \in Threads : x \in H[j]
    BY <1>2 DEF Found
  <2>2. x \in K[j]
    BY <1>2, <2>1
  <2>3. QED BY <2>2
<1>3. QED BY <1>1, <1>2

LEMMA RunMoves ==
  ASSUME IInv, NEW w \in Workers, NEW f \in FrameRec, Busy(w),
         f.at \notin {"none", "idle", "exited"}, frame' = [frame EXCEPT ![w] = f],
         UNCHANGED <<routerVars, cancellation_state, state_mutex, planner_state, task>>,
         in_progress' \in [Engines \X QueryIds -> BOOLEAN],
         execute_ref_count' \in [Engines -> Nat],
         CountInv', FrameInv(w)',
         Left(w)' \union Got(w)' \subseteq Left(w) \union Got(w),
         (Left(w) \union Got(w)) \cap Planned \subseteq Left(w)' \union Got(w)'
  PROVE  IInv'
<1> DEFINE c == w[1]
           i == w[2]
<1>1. /\ frame \in [Workers -> FrameRec] /\ FrameInv(w) /\ c \in Calls /\ i \in Threads
      /\ w = <<c, i>> /\ Local(c)
  BY FrameTyped
<1>2. /\ UNCHANGED <<pattern, input, ref_count, cancelling, mutex, call, queue, delivered, cancel, exposed>>
      /\ UNCHANGED inputs
  BY DEF routerVars, inputs
<1>3. /\ frame' \in [Workers -> FrameRec] /\ frame'[w] = f
      /\ \A v \in Workers : v # w => frame'[v] = frame[v]
  BY <1>1
<1>4. TypeOK'
  BY <1>2, <1>3 DEF IInv, TypeOK, EngineTypeOK, FrameRec
<1>5. CancelInv'
  <2>1. ActiveCalls' = ActiveCalls /\ ActiveCancels' = ActiveCancels /\ CancelInv
    BY <1>2 DEF ActiveCalls, ActiveCancels, IInv
  <2>2. QED BY <1>2, <2>1 DEF CancelInv
<1>6. \A d \in Calls : d # c => SameCall(d)
  <2> SUFFICES ASSUME NEW d \in Calls, d # c PROVE SameCall(d)
    OBVIOUS
  <2>1. \A j \in Threads : <<d, j>> \in Workers /\ <<d, j>> # w
    BY <1>1, WorkersAreThreads
  <2>2. QED BY <1>2, <1>3, <2>1 DEF SameCall
<1>7. /\ Told(c)' = Told(c) /\ Asked(c)' = Asked(c) /\ PoolSize(c)' = PoolSize(c)
      /\ All(call[c].todo)' = All(call[c].todo) /\ All(queue[c])' = All(queue[c])
  BY <1>2 DEF Told, Asked, QueriesFor, PoolSize, BatchesOf, AgentBatches, All
<1>8. \A j \in Threads : j # i => <<c, j>> \in Workers /\ <<c, j>> # w /\ frame'[<<c, j>>] = frame[<<c, j>>]
  BY <1>1, <1>3, WorkersAreThreads
<1>9. Busy(w)' /\ c \in ActiveCalls /\ c \in ActiveCalls'
  BY <1>1, <1>2, <1>3 DEF Busy, FrameInv, ActiveCalls
<1> HIDE DEF c, i
<1>10. CallInv(c)'
  <2>1. CallInv(c) /\ call[c].at \notin {"new", "done"}
    BY <1>1, <1>9 DEF Local, ActiveCalls
  <2>2. frame[w].at \notin {"none", "idle", "exited"} /\ frame'[w].at \notin {"none", "idle", "exited"}
    BY <1>3 DEF Busy
  <2>3. pattern = "serial_all" => i = 1 /\ call[c].at = "serial"
    BY <1>1, <2>1, <2>2 DEF CallInv
  <2>4. pattern # "serial_all" => \A j \in Threads : frame'[<<c, j>>].at # "none" => j <= PoolSize(c)
    <3> SUFFICES ASSUME pattern # "serial_all", NEW j \in Threads, frame'[<<c, j>>].at # "none"
                 PROVE  j <= PoolSize(c)
      OBVIOUS
    <3>1. frame[<<c, j>>].at # "none"
      BY <1>1, <1>8, <2>2
    <3>2. QED BY <2>1, <3>1 DEF CallInv
  <2>5. pattern = "serial_all" => \A j \in Threads : j # 1 => frame'[<<c, j>>].at = "none"
    BY <1>8, <2>1, <2>3 DEF CallInv
  <2>6. QED BY <1>2, <1>7, <2>1, <2>3, <2>4, <2>5 DEF CallInv
<1>11. QueueInv(c)'
  <2>1. QueueInv(c)
    BY <1>1 DEF Local
  <2>2. \A j \in Threads : frame'[<<c, j>>].at = "exited" => frame[<<c, j>>].at = "exited"
    BY <1>1, <1>3, <1>8
  <2>3. QED BY <1>2, <2>1, <2>2 DEF QueueInv
<1>12. PlaceInv(c)'
  <2>1. PlaceInv(c)
    BY <1>1 DEF Local
  <2>2. /\ \A j \in Threads : j # i => Holds(c)'[j] = Holds(c)[j]
        /\ Holds(c)'[i] = Left(w)' \union Got(w)' /\ Holds(c)[i] = Left(w) \union Got(w)
    BY <1>1, <1>8 DEF Holds, Held, Left, Got, Busy
  <2>3. Placed(All(call[c].todo), All(queue[c]), Told(c), Holds(c)', Asked(c))
    BY <1>1, <2>1, <2>2, HoldsShrink DEF PlaceInv
  <2>4. Found(All(call[c].todo), All(queue[c]), Told(c), Holds(c), Asked(c)) =>
          Found(All(call[c].todo), All(queue[c]), Told(c), Holds(c)', Asked(c))
    BY <1>1, <2>1, <2>2, HoldsShrink DEF PlaceInv
  <2>5. QED BY <1>2, <1>7, <2>1, <2>3, <2>4 DEF PlaceInv
<1>13. ToldInv(c)'
  BY <1>1, <1>2 DEF Local, ToldInv
<1>14. \A j \in Threads : FrameInv(<<c, j>>)'
  <2> TAKE j \in Threads
  <2>1. CASE j = i
    BY <1>1, <2>1
  <2>2. CASE j # i
    <3>1. FrameInv(<<c, j>>) /\ frame'[<<c, j>>] = frame[<<c, j>>] /\ <<c, j>>[1] = c
      BY <1>1, <1>8, <2>2 DEF Local
    <3>2. /\ Left(<<c, j>>)' = Left(<<c, j>>) /\ Got(<<c, j>>)' = Got(<<c, j>>)
          /\ (Busy(<<c, j>>)' <=> Busy(<<c, j>>))
      BY <3>1 DEF Left, Got, Busy
    <3>3. QED BY <1>2, <1>9, <3>1, <3>2 DEF FrameInv
  <2>3. QED BY <2>1, <2>2
<1>15. Local(c)'
  BY <1>10, <1>11, <1>12, <1>13, <1>14 DEF Local
<1>16. QED BY <1>1, <1>2, <1>4, <1>5, <1>6, <1>15, CallStepIInv

\* The count of an engine does not change unless a thread enters or leaves it.
LEMMA CountStays ==
  ASSUME IInv, NEW w \in Workers, NEW f \in FrameRec, frame[w].at \in InCall, f.at \in InCall,
         f.eng = frame[w].eng, frame' = [frame EXCEPT ![w] = f],
         UNCHANGED <<execute_ref_count, ref_count, call>>
  PROVE  CountInv'
<1>1. CountInv /\ frame \in [Workers -> FrameRec]
  BY FrameTyped DEF IInv
<1>2. frame'[w] = f /\ \A v \in Workers : v # w => frame'[v] = frame[v]
  BY <1>1
<1>3. ActiveCalls' = ActiveCalls /\ \A e \in Engines : Inside(e)' = Inside(e)
  BY <1>2 DEF ActiveCalls, Inside
<1>4. QED BY <1>1, <1>3 DEF CountInv

\* A step that only moves the thread on.
LEMMA FrameMoves ==
  ASSUME IInv, NEW w \in Workers, Busy(w), NEW a \in FrameAt \ {"none", "idle", "exited"},
         frame' = [frame EXCEPT ![w].at = a], UNCHANGED routerVars,
         a \in {"start", "root", "fetch"} => frame[w].at \in {"start", "root", "fetch"},
         a \in {"leave"} \union Leaving => frame[w].at \in {"leave"} \union Leaving
  PROVE  \E f \in FrameRec :
           /\ f.at = a /\ f.eng = frame[w].eng /\ frame' = [frame EXCEPT ![w] = f]
           /\ f.at \notin {"none", "idle", "exited"}
           /\ FrameInv(w)' /\ Left(w)' = Left(w) /\ Got(w)' = Got(w)
<1> DEFINE f == [frame[w] EXCEPT !.at = a]
<1>1. frame \in [Workers -> FrameRec] /\ frame[w] \in FrameRec /\ FrameInv(w)
  BY FrameTyped
<1>2. /\ f \in FrameRec /\ f.at = a /\ f.eng = frame[w].eng /\ f.todo = frame[w].todo
      /\ f.results = frame[w].results
  BY <1>1 DEF FrameRec
<1>3. frame' = [frame EXCEPT ![w] = f] /\ frame'[w] = f
  BY <1>1
<1> HIDE DEF f
<1>4. call' = call /\ exposed' = exposed
  BY DEF routerVars
<1>5. (Busy(w)' <=> Busy(w)) /\ Left(w)' = Left(w) /\ Got(w)' = Got(w) /\ ActiveCalls' = ActiveCalls
  BY <1>2, <1>3, <1>4 DEF Busy, Left, Got, ActiveCalls
<1>6. FrameInv(w)'
  BY <1>1, <1>2, <1>3, <1>4, <1>5 DEF FrameInv
<1>7. QED BY <1>2, <1>3, <1>5, <1>6

LEMMA RunTyped ==
  ASSUME IInv
  PROVE  /\ in_progress \in [Engines \X QueryIds -> BOOLEAN]
         /\ execute_ref_count \in [Engines -> Nat]
BY DEF IInv, TypeOK, EngineTypeOK

LEMMA ExecEnterIInv ==
  ASSUME IInv, NEW w \in Workers, ExecEnter(w), UNCHANGED routerVars
  PROVE  IInv'
<1>1. /\ frame[w].at = "enter" /\ frame' = [frame EXCEPT ![w].at = "snap"]
      /\ execute_ref_count' = [execute_ref_count EXCEPT ![Eng(w)] = @ + 1]
      /\ UNCHANGED <<cancellation_state, state_mutex, planner_state, in_progress, task>>
  BY DEF ExecEnter
<1>2. Busy(w) /\ "snap" \in FrameAt \ {"none", "idle", "exited"}
  BY <1>1 DEF Busy, FrameAt, InCall
<1>3. PICK f \in FrameRec :
           /\ f.at = "snap" /\ f.eng = frame[w].eng /\ frame' = [frame EXCEPT ![w] = f]
           /\ f.at \notin {"none", "idle", "exited"}
           /\ FrameInv(w)' /\ Left(w)' = Left(w) /\ Got(w)' = Got(w)
  BY <1>1, <1>2, FrameMoves DEF Leaving
<1>4. /\ frame[w].eng \in Engines /\ frame \in [Workers -> FrameRec] /\ CountInv
      /\ execute_ref_count \in [Engines -> Nat] /\ ref_count' = ref_count /\ call' = call
      /\ in_progress \in [Engines \X QueryIds -> BOOLEAN]
  BY <1>2, FrameTyped, RunTyped DEF FrameInv, IInv, routerVars
<1>e. PICK e \in Engines : e = frame[w].eng
  BY <1>4
<1>5. /\ execute_ref_count'[e] = execute_ref_count[e] + 1
      /\ \A d \in Engines : d # e => execute_ref_count'[d] = execute_ref_count[d]
      /\ execute_ref_count' \in [Engines -> Nat]
  BY <1>1, <1>4, <1>e DEF Eng
<1>6. frame'[w] = f /\ \A v \in Workers : v # w => frame'[v] = frame[v]
  BY <1>3, <1>4
<1>7. w \notin Inside(e) /\ Inside(e)' = Inside(e) \union {w}
  BY <1>1, <1>3, <1>6, <1>e DEF Inside, InCall
<1>8. \A d \in Engines : d # e => Inside(d)' = Inside(d)
  BY <1>3, <1>6, <1>e DEF Inside
<1>9. IsFiniteSet(Inside(e)') /\ execute_ref_count'[e] = Cardinality(Inside(e)')
  <2>1. IsFiniteSet(Inside(e)) /\ execute_ref_count[e] = Cardinality(Inside(e))
    BY <1>4 DEF CountInv
  <2>2. QED BY <1>5, <1>7, <2>1, FS_AddElement
<1>10. CountInv'
  <2>1. ActiveCalls' = ActiveCalls
    BY <1>4 DEF ActiveCalls
  <2>2. \A d \in Engines : IsFiniteSet(Inside(d)') /\ execute_ref_count'[d] = Cardinality(Inside(d)')
    <3> TAKE d \in Engines
    <3>1. CASE d = e
      BY <1>9, <3>1
    <3>2. CASE d # e
      <4>1. IsFiniteSet(Inside(d)) /\ execute_ref_count[d] = Cardinality(Inside(d))
        BY <1>4 DEF CountInv
      <4>2. Inside(d)' = Inside(d) /\ execute_ref_count'[d] = execute_ref_count[d]
        BY <1>5, <1>8, <3>2
      <4>3. QED BY <4>1, <4>2
    <3>3. QED BY <3>1, <3>2
  <2>3. QED BY <1>4, <2>1, <2>2 DEF CountInv
<1>11. QED BY <1>1, <1>2, <1>3, <1>4, <1>5, <1>10, RunMoves

LEMMA ExecLeaveIInv ==
  ASSUME IInv, NEW w \in Workers, ExecLeave(w), UNCHANGED routerVars
  PROVE  IInv'
<1>1. /\ frame[w].at = "leave" /\ frame' = [frame EXCEPT ![w].at = "signal"]
      /\ execute_ref_count' = [execute_ref_count EXCEPT ![Eng(w)] = @ - 1]
      /\ UNCHANGED <<cancellation_state, state_mutex, planner_state, in_progress, task>>
  BY DEF ExecLeave
<1>2. Busy(w) /\ "signal" \in FrameAt \ {"none", "idle", "exited"}
  BY <1>1 DEF Busy, FrameAt, InCall, Leaving
<1>3. PICK f \in FrameRec :
           /\ f.at = "signal" /\ f.eng = frame[w].eng /\ frame' = [frame EXCEPT ![w] = f]
           /\ f.at \notin {"none", "idle", "exited"}
           /\ FrameInv(w)' /\ Left(w)' = Left(w) /\ Got(w)' = Got(w)
  BY <1>1, <1>2, FrameMoves DEF Leaving
<1>4. /\ frame[w].eng \in Engines /\ frame \in [Workers -> FrameRec] /\ CountInv
      /\ execute_ref_count \in [Engines -> Nat] /\ ref_count' = ref_count /\ call' = call
      /\ in_progress \in [Engines \X QueryIds -> BOOLEAN]
  BY <1>2, FrameTyped, RunTyped DEF FrameInv, IInv, routerVars
<1>e. PICK e \in Engines : e = frame[w].eng
  BY <1>4
<1>5. /\ execute_ref_count'[e] = execute_ref_count[e] - 1
      /\ \A d \in Engines : d # e => execute_ref_count'[d] = execute_ref_count[d]
  BY <1>1, <1>4, <1>e DEF Eng
<1>6. frame'[w] = f /\ \A v \in Workers : v # w => frame'[v] = frame[v]
  BY <1>3, <1>4
<1>7. w \in Inside(e) /\ Inside(e)' = Inside(e) \ {w}
  BY <1>1, <1>3, <1>6, <1>e DEF Inside, InCall
<1>8. \A d \in Engines : d # e => Inside(d)' = Inside(d)
  BY <1>3, <1>6, <1>e DEF Inside
<1>9. IsFiniteSet(Inside(e)') /\ execute_ref_count'[e] = Cardinality(Inside(e)')
  <2>1. IsFiniteSet(Inside(e)) /\ execute_ref_count[e] = Cardinality(Inside(e))
    BY <1>4 DEF CountInv
  <2>2. QED BY <1>5, <1>7, <2>1, FS_RemoveElement
<1>10. execute_ref_count' \in [Engines -> Nat]
  <2>1. execute_ref_count'[e] \in Nat
    BY <1>9, FS_CardinalityType
  <2>2. \A d \in Engines : execute_ref_count'[d] \in Nat
    BY <1>4, <1>5, <2>1
  <2>3. QED BY <1>1, <1>4, <2>2
<1>11. CountInv'
  <2>1. ActiveCalls' = ActiveCalls
    BY <1>4 DEF ActiveCalls
  <2>2. \A d \in Engines : IsFiniteSet(Inside(d)') /\ execute_ref_count'[d] = Cardinality(Inside(d)')
    <3> TAKE d \in Engines
    <3>1. CASE d = e
      BY <1>9, <3>1
    <3>2. CASE d # e
      <4>1. IsFiniteSet(Inside(d)) /\ execute_ref_count[d] = Cardinality(Inside(d))
        BY <1>4 DEF CountInv
      <4>2. Inside(d)' = Inside(d) /\ execute_ref_count'[d] = execute_ref_count[d]
        BY <1>5, <1>8, <3>2
      <4>3. QED BY <4>1, <4>2
    <3>3. QED BY <3>1, <3>2
  <2>3. QED BY <1>4, <2>1, <2>2 DEF CountInv
<1>12. QED BY <1>1, <1>2, <1>3, <1>4, <1>10, <1>11, RunMoves

LEMMA ReadRefCountIInv ==
  ASSUME IInv, NEW w \in Workers, ReadRefCount(w), UNCHANGED routerVars
  PROVE  IInv'
<1>1. PICK a \in {"wake", "return"} : frame' = [frame EXCEPT ![w].at = a]
  BY DEF ReadRefCount
<1>2. /\ frame[w].at = "signal"
      /\ UNCHANGED <<execute_ref_count, cancellation_state, state_mutex, planner_state,
                     in_progress, task>>
  BY DEF ReadRefCount
<1>3. Busy(w) /\ a \in FrameAt \ {"none", "idle", "exited"}
  BY <1>2 DEF Busy, FrameAt, Leaving
<1>4. PICK f \in FrameRec :
           /\ f.at = a /\ f.eng = frame[w].eng /\ frame' = [frame EXCEPT ![w] = f]
           /\ f.at \notin {"none", "idle", "exited"}
           /\ FrameInv(w)' /\ Left(w)' = Left(w) /\ Got(w)' = Got(w)
  BY <1>1, <1>2, <1>3, FrameMoves DEF Leaving
<1>5. /\ frame \in [Workers -> FrameRec] /\ CountInv
      /\ execute_ref_count \in [Engines -> Nat] /\ ref_count' = ref_count /\ call' = call
      /\ in_progress \in [Engines \X QueryIds -> BOOLEAN]
  BY FrameTyped, RunTyped DEF IInv, routerVars
<1>6. frame'[w] = f /\ \A v \in Workers : v # w => frame'[v] = frame[v]
  BY <1>4, <1>5
<1>7. ActiveCalls' = ActiveCalls /\ \A e \in Engines : Inside(e)' = Inside(e)
  BY <1>2, <1>4, <1>5, <1>6 DEF ActiveCalls, Inside, InCall
<1>8. CountInv'
  BY <1>2, <1>5, <1>7 DEF CountInv
<1>9. QED BY <1>2, <1>3, <1>4, <1>5, <1>8, RunMoves

LEMMA StartTimingIInv ==
  ASSUME IInv, NEW w \in Workers, StartTiming(w), UNCHANGED routerVars
  PROVE  IInv'
<1>1. /\ frame[w].at = "start" /\ frame' = [frame EXCEPT ![w].at = "root"]
      /\ in_progress' = [in_progress EXCEPT ![Plan(w)] = Query(w) \in Timed]
      /\ UNCHANGED <<execute_ref_count, cancellation_state, state_mutex, planner_state, task>>
      /\ ref_count' = ref_count /\ call' = call
  BY DEF StartTiming, routerVars
<1>2. /\ Busy(w) /\ "root" \in FrameAt \ {"none", "idle", "exited"}
      /\ frame[w].at \in InCall /\ "root" \in InCall
  BY <1>1 DEF Busy, FrameAt, InCall
<1>3. PICK f \in FrameRec :
           /\ f.at = "root" /\ f.eng = frame[w].eng /\ frame' = [frame EXCEPT ![w] = f]
           /\ f.at \notin {"none", "idle", "exited"}
           /\ FrameInv(w)' /\ Left(w)' = Left(w) /\ Got(w)' = Got(w)
  BY <1>1, <1>2, FrameMoves DEF Leaving
<1>4. /\ in_progress' \in [Engines \X QueryIds -> BOOLEAN]
      /\ execute_ref_count' \in [Engines -> Nat]
  <2> DEFINE b == Query(w) \in Timed
  <2>1. b \in BOOLEAN
    OBVIOUS
  <2>2. in_progress' = [in_progress EXCEPT ![Plan(w)] = b]
    BY <1>1
  <2> HIDE DEF b
  <2>3. QED BY <1>1, <2>1, <2>2, RunTyped
<1>5. CountInv'
  BY <1>1, <1>2, <1>3, CountStays
<1>6. QED BY <1>1, <1>2, <1>3, <1>4, <1>5, RunMoves

LEMMA RunRootFetchedIInv ==
  ASSUME IInv, NEW w \in Workers, RunRootFetched(w), UNCHANGED routerVars
  PROVE  IInv'
<1>1. /\ frame[w].at = "root" /\ frame' = [frame EXCEPT ![w].at = "fetch"]
      /\ UNCHANGED <<execute_ref_count, cancellation_state, state_mutex, planner_state, task,
                     in_progress>>
      /\ ref_count' = ref_count /\ call' = call
  BY DEF RunRootFetched, routerVars
<1>2. /\ Busy(w) /\ "fetch" \in FrameAt \ {"none", "idle", "exited"}
      /\ frame[w].at \in InCall /\ "fetch" \in InCall
  BY <1>1 DEF Busy, FrameAt, InCall
<1>3. PICK f \in FrameRec :
           /\ f.at = "fetch" /\ f.eng = frame[w].eng /\ frame' = [frame EXCEPT ![w] = f]
           /\ f.at \notin {"none", "idle", "exited"}
           /\ FrameInv(w)' /\ Left(w)' = Left(w) /\ Got(w)' = Got(w)
  BY <1>1, <1>2, FrameMoves DEF Leaving
<1>4. CountInv'
  BY <1>1, <1>2, <1>3, CountStays
<1>5. QED BY <1>1, <1>2, <1>3, <1>4, RunTyped, RunMoves

\* A flag that an engine or a planner reads is set by a cancellation that the
\* call overlaps.
LEMMA ReaderIsExposed ==
  ASSUME IInv, NEW w \in Workers, Busy(w), Flagged(frame[w].eng)
  PROVE  w[1] \in exposed
<1>1. frame[w].eng \in Engines /\ w[1] \in ActiveCalls
  BY FrameTyped DEF FrameInv
<1>2. CancelInv
  BY DEF IInv
<1>3. PICK k \in Cancels : task[<<k, frame[w].eng>>] \in Live
  BY <1>1, <1>2 DEF CancelInv, Flagged
<1>4. cancel[k] \notin {"new", "lock", "done"}
  BY <1>1, <1>2, <1>3 DEF CancelInv, Live
<1>5. ActiveCancels # {}
  BY <1>4 DEF ActiveCancels
<1>6. QED BY <1>1, <1>2, <1>5 DEF CancelInv

\* The run of a query is over: it has one result, a real one or one for a
\* cancellation that the call overlaps.
LEMMA FinishIInv ==
  ASSUME IInv, NEW w \in Workers, frame[w].at \in {"start", "root", "fetch"},
         NEW status \in Statuses, Finish(w, status), status = "cancelled" => w[1] \in exposed,
         UNCHANGED <<routerVars, execute_ref_count, cancellation_state, state_mutex,
                     planner_state, task>>,
         in_progress' \in [Engines \X QueryIds -> BOOLEAN]
  PROVE  IInv'
<1> DEFINE o == frame[w]
           q == Head(o.todo)
           f == [at |-> "snap", eng |-> o.eng, todo |-> Tail(o.todo),
                 results |-> o.results \union {<<q, status>>}]
<1>1. /\ frame \in [Workers -> FrameRec] /\ o \in FrameRec /\ FrameInv(w) /\ Busy(w)
      /\ call' = call /\ exposed' = exposed /\ ref_count' = ref_count
  BY FrameTyped DEF Busy, routerVars
<1>2. /\ o.todo \in Seq(QueryIds) /\ o.todo # <<>> /\ Distinct(o.todo) /\ q \in PlansOf[o.eng]
      /\ o.eng \in Engines /\ w[1] \in ActiveCalls /\ o.results \subseteq QueryIds \X Statuses
  BY <1>1 DEF FrameInv, FrameRec
<1>3. /\ q \in QueryIds /\ Tail(o.todo) \in Seq(QueryIds) /\ Distinct(Tail(o.todo))
      /\ \A r : r \in ToSet(o.todo) <=> r = q \/ r \in ToSet(Tail(o.todo))
      /\ q \notin ToSet(Tail(o.todo))
  BY <1>2, TailDistinct
<1>4. frame' = [frame EXCEPT ![w] = f]
  BY DEF Finish, Query, Eng
<1>5. /\ f \in FrameRec /\ f.at = "snap" /\ f.eng = o.eng /\ f.todo = Tail(o.todo)
      /\ f.results = o.results \union {<<q, status>>}
  BY <1>1, <1>2, <1>3 DEF FrameRec, FrameAt, InCall
<1>6. frame'[w] = f
  BY <1>1, <1>4
<1> HIDE DEF f
<1>7. Busy(w)' /\ ActiveCalls' = ActiveCalls /\ f.at \notin {"none", "idle", "exited"}
  BY <1>1, <1>5, <1>6 DEF Busy, ActiveCalls
<1> DEFINE x == <<o.eng, q>>
<1>8. x \in Pairs /\ x[1] = o.eng /\ x[2] = q /\ x \in Left(w)
  BY <1>1, <1>2, <1>3 DEF Pairs, Left
<1>9. x \notin Got(w)
  BY <1>1, <1>8 DEF FrameInv
<1>10. \A s \in Statuses : <<q, s>> \notin o.results
  BY <1>1, <1>8, <1>9 DEF Got
<1>11. Left(w)' = Left(w) \ {x}
  <2>1. \A y \in Pairs : y \in Left(w)' <=> y \in Left(w) /\ y # x
    <3> TAKE y \in Pairs
    <3>1. y = <<y[1], y[2]>>
      BY DEF Pairs
    <3>2. y \in Left(w)' <=> y[1] = o.eng /\ y[2] \in ToSet(Tail(o.todo))
      BY <1>5, <1>6, <1>7 DEF Left
    <3>3. y \in Left(w) <=> y[1] = o.eng /\ y[2] \in ToSet(o.todo)
      BY <1>1 DEF Left
    <3>4. QED BY <1>3, <3>1, <3>2, <3>3
  <2>2. QED BY <2>1 DEF Left
<1>12. Got(w)' = Got(w) \union {x}
  <2>1. \A y \in Pairs : y \in Got(w)' <=> y \in Got(w) \/ y = x
    <3> TAKE y \in Pairs
    <3>1. y = <<y[1], y[2]>>
      BY DEF Pairs
    <3>2. y \in Got(w)' <=> y[1] = o.eng /\ \E s \in Statuses : <<y[2], s>> \in f.results
      BY <1>5, <1>6, <1>7 DEF Got
    <3>3. y \in Got(w) <=> y[1] = o.eng /\ \E s \in Statuses : <<y[2], s>> \in o.results
      BY <1>1 DEF Got
    <3>4. \A s \in Statuses : <<y[2], s>> \in f.results <=>
            <<y[2], s>> \in o.results \/ (y[2] = q /\ s = status)
      BY <1>5
    <3>5. QED BY <3>1, <3>2, <3>3, <3>4
  <2>2. QED BY <1>8, <2>1 DEF Got
<1>13. FrameInv(w)'
  <2>1. Left(w)' \cap Got(w)' = {}
    BY <1>1, <1>11, <1>12 DEF FrameInv
  <2>2. \A r \in QueryIds : <<r, "done">> \in f.results =>
           r \in PlansOf[f.eng] /\ <<r, "cancelled">> \notin f.results
    <3> SUFFICES ASSUME NEW r \in QueryIds, <<r, "done">> \in f.results
                 PROVE  r \in PlansOf[f.eng] /\ <<r, "cancelled">> \notin f.results
      OBVIOUS
    <3>1. CASE r = q
      BY <1>2, <1>5, <1>10, <3>1 DEF Statuses
    <3>2. CASE r # q
      BY <1>1, <1>5, <3>2 DEF FrameInv
    <3>3. QED BY <3>1, <3>2
  <2>3. \A r \in QueryIds : <<r, "cancelled">> \in f.results => w[1] \in exposed
    BY <1>1, <1>5 DEF FrameInv
  <2>4. QED BY <1>1, <1>2, <1>3, <1>5, <1>6, <1>7, <2>1, <2>2, <2>3 DEF FrameInv, Leaving
<1>14. CountInv'
  <2>1. frame[w].at \in InCall /\ f.at \in InCall
    BY <1>5 DEF InCall
  <2>2. QED BY <1>1, <1>4, <1>5, <2>1, CountStays
<1>15. QED BY <1>1, <1>4, <1>5, <1>7, <1>8, <1>11, <1>12, <1>13, <1>14, RunTyped, RunMoves

LEMMA RunFinishesIInv ==
  ASSUME IInv, NEW w \in Workers, UNCHANGED routerVars,
         StartTimingExpires(w) \/ RunCancelled(w) \/ RunRootFails(w) \/ RunEnds(w)
  PROVE  IInv'
<1>1. "done" \in Statuses /\ "cancelled" \in Statuses
  BY DEF Statuses
<1>2. in_progress \in [Engines \X QueryIds -> BOOLEAN]
  BY RunTyped
<1>3. CASE StartTimingExpires(w)
  BY <1>1, <1>2, <1>3, FinishIInv DEF StartTimingExpires
<1>4. CASE RunRootFails(w)
  BY <1>1, <1>2, <1>4, FinishIInv DEF RunRootFails
<1>5. CASE RunEnds(w)
  <2>1. in_progress' \in [Engines \X QueryIds -> BOOLEAN]
    BY <1>2, <1>5 DEF RunEnds
  <2>2. QED BY <1>1, <1>5, <2>1, FinishIInv DEF RunEnds
<1>6. CASE RunCancelled(w)
  <2>1. frame[w].at \in {"root", "fetch"} /\ planner_state[Plan(w)] /\ Busy(w)
    BY <1>6 DEF RunCancelled, Busy
  <2>2. Query(w) \in QueryIds
    <3>1. frame[w] \in FrameRec /\ FrameInv(w)
      BY FrameTyped
    <3>2. frame[w].todo \in Seq(QueryIds) /\ frame[w].todo # <<>>
      BY <2>1, <3>1 DEF FrameRec, FrameInv
    <3>3. QED BY <3>2 DEF Query
  <2>3. w[1] \in exposed
    BY <2>1, <2>2, ReaderIsExposed DEF Flagged, Plan, Eng
  <2>4. QED BY <1>1, <1>2, <1>6, <2>1, <2>3, FinishIInv DEF RunCancelled
<1>7. QED BY <1>3, <1>4, <1>5, <1>6

\* Before a query the engine's flag is read: every query left is reported, for
\* a cancellation that the call overlaps, or those without a plan are skipped.
LEMMA ReadCancelledIInv ==
  ASSUME IInv, NEW w \in Workers, ReadCancelled(w), UNCHANGED routerVars
  PROVE  IInv'
<1> DEFINE o == frame[w]
           t == IF cancellation_state[o.eng] THEN <<>> ELSE FromKnown(o.eng, o.todo)
           k == IF cancellation_state[o.eng] THEN ToSet(o.todo) ELSE {}
           f == [at |-> IF t = <<>> THEN "leave" ELSE "start", eng |-> o.eng, todo |-> t,
                 results |-> o.results \union (k \X {"cancelled"})]
<1>1. /\ frame \in [Workers -> FrameRec] /\ o \in FrameRec /\ FrameInv(w) /\ Busy(w)
      /\ call' = call /\ exposed' = exposed /\ ref_count' = ref_count /\ o.at = "snap"
      /\ UNCHANGED <<execute_ref_count, cancellation_state, state_mutex, planner_state,
                     in_progress, task>>
  BY FrameTyped DEF Busy, routerVars, ReadCancelled
<1>2. /\ o.todo \in Seq(QueryIds) /\ Distinct(o.todo) /\ o.eng \in Engines
      /\ w[1] \in ActiveCalls /\ o.results \subseteq QueryIds \X Statuses
  BY <1>1 DEF FrameInv, FrameRec
<1>3. /\ t \in Seq(QueryIds) /\ Distinct(t)
      /\ t # <<>> => Head(t) \in PlansOf[o.eng]
      /\ \A q \in ToSet(t) : q \in ToSet(o.todo) /\ q \notin k
      /\ \A q \in ToSet(o.todo) : q \in ToSet(t) \/ q \in k \/ q \notin PlansOf[o.eng]
      /\ \A q \in k : q \in ToSet(o.todo)
      /\ k # {} => w[1] \in exposed
  <2>1. CASE cancellation_state[o.eng]
    <3>1. t = <<>> /\ k = ToSet(o.todo) /\ <<>> \in Seq(QueryIds)
      BY <2>1
    <3>2. w[1] \in exposed
      BY <1>1, <2>1, ReaderIsExposed DEF Flagged
    <3>3. QED BY <3>1, <3>2, NothingAll
  <2>2. CASE ~ cancellation_state[o.eng]
    <3>1. t = FromKnown(o.eng, o.todo) /\ k = {}
      BY <2>2
    <3>2. QED BY <1>2, <3>1, FromKnownSkips
  <2>3. QED BY <2>1, <2>2
<1>4. frame' = [frame EXCEPT ![w] = f]
  BY DEF ReadCancelled, Eng
<1> HIDE DEF t, k
<1>5. k \subseteq QueryIds
  BY <1>2, <1>3, InSet
<1>6. /\ f \in FrameRec /\ f.at \in {"leave", "start"} /\ f.eng = o.eng /\ f.todo = t
      /\ f.results = o.results \union (k \X {"cancelled"})
      /\ f.at = "leave" <=> t = <<>>
  <2>1. f.results \subseteq QueryIds \X Statuses
    BY <1>2, <1>5 DEF Statuses
  <2>2. f.at \in {"leave", "start"} /\ (f.at = "leave" <=> t = <<>>)
    OBVIOUS
  <2>3. f \in FrameRec
    BY <1>1, <1>2, <1>3, <2>1, <2>2 DEF FrameRec, FrameAt, InCall
  <2>4. QED BY <2>2, <2>3
<1>7. frame'[w] = f
  BY <1>1, <1>4
<1> HIDE DEF f
<1>8. Busy(w)' /\ ActiveCalls' = ActiveCalls /\ f.at \notin {"none", "idle", "exited"}
  BY <1>1, <1>6, <1>7 DEF Busy, ActiveCalls
<1>9. \A y \in Pairs :
        /\ y \in Left(w)' <=> y[1] = o.eng /\ y[2] \in ToSet(t)
        /\ y \in Left(w) <=> y[1] = o.eng /\ y[2] \in ToSet(o.todo)
  BY <1>1, <1>6, <1>7, <1>8 DEF Left
<1>10. \A y \in Pairs :
         y \in Got(w)' <=> y \in Got(w) \/ (y[1] = o.eng /\ y[2] \in k)
  <2> TAKE y \in Pairs
  <2>1. y \in Got(w)' <=> y[1] = o.eng /\ \E s \in Statuses : <<y[2], s>> \in f.results
    BY <1>6, <1>7, <1>8 DEF Got
  <2>2. y \in Got(w) <=> y[1] = o.eng /\ \E s \in Statuses : <<y[2], s>> \in o.results
    BY <1>1 DEF Got
  <2>3. \A s \in Statuses : <<y[2], s>> \in f.results <=>
          <<y[2], s>> \in o.results \/ (y[2] \in k /\ s = "cancelled")
    BY <1>6
  <2>4. "cancelled" \in Statuses
    BY DEF Statuses
  <2>5. QED BY <2>1, <2>2, <2>3, <2>4
<1>11. \A y \in Got(w), z \in Left(w) : y \in Pairs /\ z \in Pairs /\ y # z
  BY <1>1 DEF FrameInv, Got, Left
<1>12. Left(w)' \cap Got(w)' = {}
  <2> SUFFICES ASSUME NEW y \in Left(w)', y \in Got(w)' PROVE FALSE
    OBVIOUS
  <2>1. y \in Pairs
    BY DEF Left
  <2>2. QED BY <1>3, <1>9, <1>10, <1>11, <2>1
<1>13. Left(w)' \union Got(w)' \subseteq Left(w) \union Got(w)
  <2> SUFFICES ASSUME NEW y \in Left(w)' \union Got(w)' PROVE y \in Left(w) \union Got(w)
    OBVIOUS
  <2>1. y \in Pairs
    BY DEF Left, Got
  <2>2. QED BY <1>3, <1>9, <1>10, <2>1
<1>14. (Left(w) \union Got(w)) \cap Planned \subseteq Left(w)' \union Got(w)'
  <2> SUFFICES ASSUME NEW y \in Left(w) \union Got(w), y \in Planned
               PROVE  y \in Left(w)' \union Got(w)'
    OBVIOUS
  <2>1. y \in Pairs /\ y[2] \in PlansOf[y[1]]
    BY DEF Planned
  <2>2. QED BY <1>3, <1>9, <1>10, <2>1
<1>15. FrameInv(w)'
  <2>1. \A q \in QueryIds : <<q, "done">> \in f.results =>
           q \in PlansOf[f.eng] /\ <<q, "cancelled">> \notin f.results
    <3> SUFFICES ASSUME NEW q \in QueryIds, <<q, "done">> \in f.results
                 PROVE  q \in PlansOf[f.eng] /\ <<q, "cancelled">> \notin f.results
      OBVIOUS
    <3>1. <<q, "done">> \in o.results
      BY <1>6
    <3>2. q \in PlansOf[o.eng] /\ <<q, "cancelled">> \notin o.results
      BY <1>1, <3>1 DEF FrameInv
    <3>3. <<o.eng, q>> \in Got(w)
      BY <1>1, <1>2, <3>1 DEF Got, Pairs, Statuses
    <3>4. q \notin k
      <4> SUFFICES ASSUME q \in k PROVE FALSE
        OBVIOUS
      <4>1. <<o.eng, q>> \in Pairs
        BY <1>2 DEF Pairs
      <4>2. <<o.eng, q>> \in Left(w)
        BY <1>3, <1>9, <4>1
      <4>3. QED BY <1>11, <3>3, <4>2
    <3>5. QED BY <1>6, <3>2, <3>4
  <2>2. \A q \in QueryIds : <<q, "cancelled">> \in f.results => w[1] \in exposed
    BY <1>1, <1>3, <1>6 DEF FrameInv
  <2>3. /\ f.at \in {"start", "root", "fetch"} => f.todo # <<>> /\ Head(f.todo) \in PlansOf[f.eng]
        /\ f.at \in {"leave"} \union Leaving => f.todo = <<>>
        /\ f.at # "none" /\ Distinct(f.todo) /\ f.eng \in Engines
    BY <1>2, <1>3, <1>6 DEF Leaving
  <2>4. w[1] \in ActiveCalls' /\ exposed' = exposed
    BY <1>1, <1>2, <1>8
  <2>5. QED BY <1>7, <1>12, <2>1, <2>2, <2>3, <2>4 DEF FrameInv
<1>16. CountInv'
  <2>1. frame[w].at \in InCall /\ f.at \in InCall
    BY <1>1, <1>6 DEF InCall
  <2>2. QED BY <1>1, <1>4, <1>6, <2>1, CountStays
<1>17. QED BY <1>1, <1>4, <1>6, <1>8, <1>13, <1>14, <1>15, <1>16, RunTyped, RunMoves

LEMMA RunStepIInv ==
  ASSUME IInv, NEW w \in Workers, RunStep(w), UNCHANGED routerVars
  PROVE  IInv'
BY ExecEnterIInv, ExecLeaveIInv, ReadRefCountIInv, ReadCancelledIInv, StartTimingIInv, RunRootFetchedIInv,
   RunFinishesIInv DEF RunStep

-----------------------------------------------------------------------------
(* Queries change place.                                                     *)

\* What is still to be scheduled may as well be in the queue.
LEMMA PlacesSwap ==
  ASSUME NEW T, NEW Q, NEW D, NEW H, NEW A
  PROVE  /\ Placed(T, Q, D, H, A) => Placed(Q, T, D, H, A)
         /\ Found(T, Q, D, H, A) => Found(Q, T, D, H, A)
<1>1. Placed(T, Q, D, H, A) => Placed(Q, T, D, H, A)
  BY DEF Placed
<1>2. Found(T, Q, D, H, A) => Found(Q, T, D, H, A)
  BY DEF Found
<1>3. QED BY <1>1, <1>2

\* A batch is scheduled,
LEMMA MoveToQueue ==
  ASSUME NEW T, NEW Q, NEW D, NEW H, NEW A, NEW X, NEW U, NEW R,
         Placed(T, Q, D, H, A), T = X \union U, X \cap U = {}, R = Q \union X
  PROVE  Placed(U, R, D, H, A) /\ (Found(T, Q, D, H, A) => Found(U, R, D, H, A))
<1>1. Placed(U, R, D, H, A)
  <2>1. \A i \in Threads : /\ H[i] \subseteq A
                           /\ H[i] \cap U = {} /\ H[i] \cap R = {} /\ H[i] \cap D = {}
    BY DEF Placed
  <2>2. /\ U \subseteq A /\ R \subseteq A /\ D \subseteq A
        /\ U \cap R = {} /\ U \cap D = {} /\ R \cap D = {}
    BY DEF Placed
  <2>3. QED BY <2>1, <2>2 DEF Placed
<1>2. ASSUME Found(T, Q, D, H, A) PROVE Found(U, R, D, H, A)
  BY <1>2 DEF Found
<1>3. QED BY <1>1, <1>2

\* reported as cancelled,
LEMMA MoveToTold ==
  ASSUME NEW T, NEW Q, NEW D, NEW H, NEW A, NEW X, NEW U, NEW R,
         Placed(T, Q, D, H, A), T = X \union U, X \cap U = {}, R = D \union X
  PROVE  Placed(U, Q, R, H, A) /\ (Found(T, Q, D, H, A) => Found(U, Q, R, H, A))
<1>1. Placed(U, Q, R, H, A)
  <2>1. \A i \in Threads : /\ H[i] \subseteq A
                           /\ H[i] \cap U = {} /\ H[i] \cap Q = {} /\ H[i] \cap R = {}
    BY DEF Placed
  <2>2. /\ U \subseteq A /\ Q \subseteq A /\ R \subseteq A
        /\ U \cap Q = {} /\ U \cap R = {} /\ Q \cap R = {}
    BY DEF Placed
  <2>3. QED BY <2>1, <2>2 DEF Placed
<1>2. ASSUME Found(T, Q, D, H, A) PROVE Found(U, Q, R, H, A)
  BY <1>2 DEF Found
<1>3. QED BY <1>1, <1>2

\* or taken by a thread that has none;
LEMMA MoveToThread ==
  ASSUME NEW T, NEW Q, NEW D, NEW H, NEW A, NEW X, NEW U, NEW K, NEW i \in Threads,
         Placed(T, Q, D, H, A), T = X \union U, X \cap U = {}, H[i] = {}, K[i] = X,
         \A j \in Threads : j # i => K[j] = H[j]
  PROVE  Placed(U, Q, D, K, A) /\ (Found(T, Q, D, H, A) => Found(U, Q, D, K, A))
<1>1. Placed(U, Q, D, K, A)
  <2>1. \A j \in Threads : /\ K[j] \subseteq A
                           /\ K[j] \cap U = {} /\ K[j] \cap Q = {} /\ K[j] \cap D = {}
    <3> TAKE j \in Threads
    <3>1. CASE j = i
      BY <3>1 DEF Placed
    <3>2. CASE j # i
      BY <3>2 DEF Placed
    <3>3. QED BY <3>1, <3>2
  <2>2. \A j, l \in Threads : j # l => K[j] \cap K[l] = {}
    <3> SUFFICES ASSUME NEW j \in Threads, NEW l \in Threads, j # l PROVE K[j] \cap K[l] = {}
      OBVIOUS
    <3>1. \A n \in Threads : H[n] \cap X = {}
      BY DEF Placed
    <3>2. CASE j = i
      BY <3>1, <3>2
    <3>3. CASE l = i
      BY <3>1, <3>3
    <3>4. CASE j # i /\ l # i
      BY <3>4 DEF Placed
    <3>5. QED BY <3>2, <3>3, <3>4
  <2>3. /\ U \subseteq A /\ Q \subseteq A /\ D \subseteq A
        /\ U \cap Q = {} /\ U \cap D = {} /\ Q \cap D = {}
    BY DEF Placed
  <2>4. QED BY <2>1, <2>2, <2>3 DEF Placed
<1>2. ASSUME Found(T, Q, D, H, A) PROVE Found(U, Q, D, K, A)
  <2> SUFFICES ASSUME NEW x \in A \cap Planned, x \notin U, x \notin Q, x \notin D
               PROVE  \E j \in Threads : x \in K[j]
    BY DEF Found
  <2>1. CASE x \in X
    BY <2>1
  <2>2. CASE x \notin X
    <3>1. PICK j \in Threads : x \in H[j]
      BY <1>2, <2>2 DEF Found
    <3>2. j # i
      BY <3>1
    <3>3. QED BY <3>1, <3>2
  <2>3. QED BY <2>1, <2>2
<1>3. QED BY <1>1, <1>2

LeavesFor(X, T, U, D, R, H, K, i) ==
  /\ T = X \union U /\ X \cap U = {} /\ H[i] = {}
  /\ \A j \in Threads : j # i => K[j] = H[j]
  /\ (R = D \union X /\ K[i] = {}) \/ (R = D /\ K[i] = X)

LEMMA MoveOn ==
  ASSUME NEW T, NEW Q, NEW D, NEW H, NEW A, NEW X, NEW U, NEW R, NEW K, NEW i \in Threads,
         Placed(T, Q, D, H, A), LeavesFor(X, T, U, D, R, H, K, i)
  PROVE  Placed(U, Q, R, K, A) /\ (Found(T, Q, D, H, A) => Found(U, Q, R, K, A))
<1> USE DEF LeavesFor
<1>1. CASE R = D \union X /\ K[i] = {}
  <2>1. Placed(U, Q, R, H, A) /\ (Found(T, Q, D, H, A) => Found(U, Q, R, H, A))
    BY <1>1, MoveToTold
  <2>2. \A j \in Threads : K[j] = H[j]
    BY <1>1
  <2>3. (Placed(U, Q, R, H, A) <=> Placed(U, Q, R, K, A)) /\ (Found(U, Q, R, H, A) <=> Found(U, Q, R, K, A))
    BY <2>2 DEF Placed, Found
  <2>4. QED BY <2>1, <2>3
<1>2. CASE R = D /\ K[i] = X
  BY <1>2, MoveToThread
<1>3. QED BY <1>1, <1>2

\* and the thread reports its results.
GivesBack(D, R, H, K, i) ==
  R = D \union H[i] /\ K[i] = {} /\ \A j \in Threads : j # i => K[j] = H[j]

LEMMA MoveFromThread ==
  ASSUME NEW T, NEW Q, NEW D, NEW H, NEW A, NEW R, NEW K, NEW i \in Threads,
         Placed(T, Q, D, H, A), GivesBack(D, R, H, K, i)
  PROVE  Placed(T, Q, R, K, A) /\ (Found(T, Q, D, H, A) => Found(T, Q, R, K, A))
<1> USE DEF GivesBack
<1>1. Placed(T, Q, R, K, A)
  <2>1. \A j \in Threads : /\ K[j] \subseteq A
                           /\ K[j] \cap T = {} /\ K[j] \cap Q = {} /\ K[j] \cap R = {}
    <3> TAKE j \in Threads
    <3>1. CASE j = i
      BY <3>1 DEF Placed
    <3>2. CASE j # i
      BY <3>2 DEF Placed
    <3>3. QED BY <3>1, <3>2
  <2>2. \A j, l \in Threads : j # l => K[j] \cap K[l] = {}
    BY DEF Placed
  <2>3. /\ T \subseteq A /\ Q \subseteq A /\ R \subseteq A
        /\ T \cap Q = {} /\ T \cap R = {} /\ Q \cap R = {}
    BY DEF Placed
  <2>4. QED BY <2>1, <2>2, <2>3 DEF Placed
<1>2. ASSUME Found(T, Q, D, H, A) PROVE Found(T, Q, R, K, A)
  <2> SUFFICES ASSUME NEW x \in A \cap Planned, x \notin T, x \notin Q, x \notin R
               PROVE  \E j \in Threads : x \in K[j]
    BY DEF Found
  <2>1. PICK j \in Threads : x \in H[j]
    BY <1>2 DEF Found
  <2>2. j # i
    BY <2>1
  <2>3. QED BY <2>1, <2>2
<1>3. QED BY <1>1, <1>2

-----------------------------------------------------------------------------
(* The callback.                                                             *)

DeliveredType == [Calls \X Engines \X QueryIds -> Statuses \union {"none", "twice"}]

\* The queries of engine e that have a result in R.
Results(e, R) == {x \in Pairs : x[1] = e /\ \E s \in Statuses : <<x[2], s>> \in R}

\* Results that the callback has not been told of, one for each query, are
\* told as they are, and nothing else is.
LEMMA DeliverTells ==
  ASSUME delivered \in DeliveredType, NEW c \in Calls, NEW e \in Engines, NEW R,
         Deliver(c, e, R), Results(e, R) \cap Told(c) = {},
         \A q \in QueryIds : ~ (<<q, "done">> \in R /\ <<q, "cancelled">> \in R)
  PROVE  /\ delivered' \in DeliveredType
         /\ \A d \in Calls, x \in Pairs : d # c => delivered'[<<d, x[1], x[2]>>] = delivered[<<d, x[1], x[2]>>]
         /\ \A x \in Pairs : x \notin Results(e, R) => delivered'[<<c, x[1], x[2]>>] = delivered[<<c, x[1], x[2]>>]
         /\ \A x \in Results(e, R) : /\ delivered'[<<c, x[1], x[2]>>] \in Statuses
                                  /\ <<x[2], delivered'[<<c, x[1], x[2]>>]>> \in R
         /\ Told(c)' = Told(c) \union Results(e, R)
<1> DEFINE got(q) == {s \in Statuses : <<q, s>> \in R}
           val(d, f, q) == IF d # c \/ f # e \/ got(q) = {} THEN delivered[<<d, f, q>>]
                           ELSE IF delivered[<<d, f, q>>] # "none" \/ Cardinality(got(q)) > 1 THEN "twice"
                           ELSE CHOOSE s \in got(q) : TRUE
<1>1. /\ DOMAIN delivered = Calls \X Engines \X QueryIds
      /\ delivered' = [x \in Calls \X Engines \X QueryIds |-> val(x[1], x[2], x[3])]
  BY DEF Deliver, DeliveredType
<1>2. \A d \in Calls, f \in Engines, q \in QueryIds : delivered'[<<d, f, q>>] = val(d, f, q)
  <2> TAKE d \in Calls, f \in Engines, q \in QueryIds
  <2> DEFINE x == <<d, f, q>>
  <2>1. x \in Calls \X Engines \X QueryIds /\ x[1] = d /\ x[2] = f /\ x[3] = q
    OBVIOUS
  <2> HIDE DEF x, val
  <2>2. delivered'[x] = val(d, f, q)
    BY <1>1, <2>1
  <2>3. QED BY <2>2 DEF x
<1>3. \A q \in QueryIds : got(q) # {} =>
        (CHOOSE s \in got(q) : TRUE) \in got(q) /\ ~ (Cardinality(got(q)) > 1)
  <2> SUFFICES ASSUME NEW q \in QueryIds, got(q) # {}
               PROVE  (CHOOSE s \in got(q) : TRUE) \in got(q) /\ ~ (Cardinality(got(q)) > 1)
    OBVIOUS
  <2>1. got(q) = {"done"} \/ got(q) = {"cancelled"}
    BY DEF Statuses
  <2>2. Cardinality({"done"}) = 1 /\ Cardinality({"cancelled"}) = 1
    BY FS_Singleton
  <2>3. (CHOOSE s \in got(q) : TRUE) \in got(q)
    BY Zenon
  <2> HIDE DEF got
  <2>4. Cardinality(got(q)) = 1
    BY <2>1, <2>2
  <2>5. QED BY <2>3, <2>4
<1>4. \A d \in Calls, f \in Engines, q \in QueryIds : val(d, f, q) \in Statuses \union {"none", "twice"}
  <2> TAKE d \in Calls, f \in Engines, q \in QueryIds
  <2>1. delivered[<<d, f, q>>] \in Statuses \union {"none", "twice"}
    BY DEF DeliveredType
  <2>2. QED BY <1>3, <2>1
<1>5. \A x \in Pairs : x[1] \in Engines /\ x[2] \in QueryIds
  BY DEF Pairs
<1>6. delivered' \in DeliveredType
  <2>1. \A x \in Calls \X Engines \X QueryIds : val(x[1], x[2], x[3]) \in Statuses \union {"none", "twice"}
    BY <1>4
  <2> HIDE DEF val
  <2>2. QED BY <1>1, <2>1 DEF DeliveredType
<1>7. \A d \in Calls, x \in Pairs : d # c => delivered'[<<d, x[1], x[2]>>] = delivered[<<d, x[1], x[2]>>]
  BY <1>2, <1>5
<1>8. \A x \in Pairs : x \in Results(e, R) <=> x[1] = e /\ got(x[2]) # {}
  BY DEF Results
<1>9. \A x \in Pairs : x \notin Results(e, R) => delivered'[<<c, x[1], x[2]>>] = delivered[<<c, x[1], x[2]>>]
  <2> SUFFICES ASSUME NEW x \in Pairs, x \notin Results(e, R)
               PROVE  delivered'[<<c, x[1], x[2]>>] = delivered[<<c, x[1], x[2]>>]
    OBVIOUS
  <2>1. x[1] # e \/ got(x[2]) = {}
    BY <1>8
  <2>2. val(c, x[1], x[2]) = delivered[<<c, x[1], x[2]>>]
    BY <2>1
  <2> HIDE DEF val
  <2>3. QED BY <1>2, <1>5, <2>2
<1>10. \A x \in Results(e, R) : delivered'[<<c, x[1], x[2]>>] \in got(x[2])
  <2> TAKE x \in Results(e, R)
  <2>1. x \in Pairs /\ x[1] = e /\ x[2] \in QueryIds /\ got(x[2]) # {}
    BY <1>5, <1>8 DEF Results
  <2>2. delivered[<<c, x[1], x[2]>>] = "none"
    BY <2>1 DEF Told
  <2>3. delivered'[<<c, x[1], x[2]>>] = CHOOSE s \in got(x[2]) : TRUE
    BY <1>2, <1>3, <2>1, <2>2
  <2>4. QED BY <1>3, <2>1, <2>3
<1>11. Told(c)' = Told(c) \union Results(e, R)
  <2>1. \A x \in Pairs : x \in Told(c)' <=> x \in Told(c) \/ x \in Results(e, R)
    <3> TAKE x \in Pairs
    <3>1. CASE x \in Results(e, R)
      BY <1>10, <3>1 DEF Told, Statuses
    <3>2. CASE x \notin Results(e, R)
      BY <1>9, <3>2 DEF Told
    <3>3. QED BY <3>1, <3>2
  <2>2. QED BY <2>1 DEF Told, Results
<1>12. QED BY <1>6, <1>7, <1>9, <1>10, <1>11

-----------------------------------------------------------------------------
(* ExecuteQuery.                                                             *)

CallRec == [at : CallAt, todo : Seq(Batches), cancelled : BOOLEAN]
Queues == Seq(Items \union {Shutdown})

LEMMA CallTyped ==
  ASSUME IInv, NEW c \in Calls
  PROVE  /\ call \in [Calls -> CallRec] /\ call[c] \in CallRec
         /\ queue \in [Calls -> Queues] /\ queue[c] \in Queues
         /\ delivered \in DeliveredType /\ frame \in [Workers -> FrameRec]
         /\ Local(c) /\ CancelInv /\ CountInv /\ exposed \subseteq Calls
         /\ input \in Inputs /\ pattern \in input.patterns
         /\ pattern \in {"serial_all", "serial_agent", "parallel_all"}
<1>1. /\ call \in [Calls -> CallRec] /\ queue \in [Calls -> Queues] /\ delivered \in DeliveredType
      /\ frame \in [Workers -> FrameRec] /\ exposed \subseteq Calls
      /\ input \in Inputs /\ pattern \in input.patterns
  BY DEF IInv, TypeOK, EngineTypeOK, CallRec, Queues, DeliveredType, FrameRec
<1>2. call[c] \in CallRec /\ queue[c] \in Queues
  BY <1>1
<1>3. Local(c) /\ CancelInv /\ CountInv
  BY DEF IInv
<1>4. pattern \in {"serial_all", "serial_agent", "parallel_all"}
  BY <1>1, RouterAssumption
<1>5. QED BY <1>1, <1>2, <1>3, <1>4

LEMMA CallRecTyped ==
  ASSUME NEW r \in CallRec
  PROVE  r.at \in CallAt /\ r.todo \in Seq(Batches) /\ r.cancelled \in BOOLEAN
BY DEF CallRec

\* A call that has read a cancellation flag overlaps a cancellation.
LEMMA FlagIsExposed ==
  ASSUME IInv, NEW c \in ActiveCalls
  PROVE  Cancelled(c) \in BOOLEAN /\ (Cancelled(c) => c \in exposed)
<1>1. c \in Calls /\ cancelling \in BOOLEAN
  BY DEF ActiveCalls, IInv, TypeOK
<1>2. call[c] \in CallRec /\ Local(c) /\ CancelInv
  BY <1>1, CallTyped
<1>3. call[c].cancelled \in BOOLEAN
  BY <1>2, CallRecTyped
<1>4. call[c].cancelled => c \in exposed
  BY <1>2 DEF Local, CallInv
<1>5. cancelling => c \in exposed
  <2> SUFFICES ASSUME cancelling PROVE c \in exposed
    OBVIOUS
  <2>1. PICK k \in Cancels : cancel[k] \in Live
    BY <1>2 DEF CancelInv
  <2>2. k \in ActiveCancels
    BY <2>1 DEF ActiveCancels, Live
  <2>3. QED BY <1>2, <2>2 DEF CancelInv
<1>6. QED BY <1>1, <1>3, <1>4, <1>5 DEF Cancelled

\* A thread that a step leaves alone.
LEMMA FrameStays ==
  ASSUME NEW w, FrameInv(w), frame'[w] = frame[w], exposed \subseteq exposed',
         Busy(w) => w[1] \in ActiveCalls'
  PROVE  /\ FrameInv(w)' /\ (Busy(w)' <=> Busy(w))
         /\ Left(w)' = Left(w) /\ Got(w)' = Got(w)
<1>1. (Busy(w)' <=> Busy(w)) /\ Left(w)' = Left(w) /\ Got(w)' = Got(w)
  BY DEF Busy, Left, Got
<1>2. FrameInv(w)'
  BY <1>1 DEF FrameInv
<1>3. QED BY <1>1, <1>2

\* A thread with nothing to do.
LEMMA IdleThread ==
  ASSUME NEW w, frame'[w].at \in {"none", "idle", "exited"}, frame'[w].todo = <<>>,
         frame'[w].results = {}
  PROVE  FrameInv(w)' /\ ~ Busy(w)' /\ Left(w)' = {} /\ Got(w)' = {}
<1>1. ~ Busy(w)' /\ Left(w)' = {} /\ Got(w)' = {}
  BY DEF Busy, Left, Got
<1>2. FrameInv(w)'
  BY <1>1, NothingAll DEF FrameInv
<1>3. QED BY <1>1, <1>2

LEMMA IdleTyped ==
  /\ Idle \in FrameRec /\ Idle.at = "idle" /\ Idle.todo = <<>> /\ Idle.results = {}
<1>1. Idle.at = "idle" /\ Idle.todo = <<>> /\ Idle.results = {} /\ Idle.eng = NoFrame.eng
  BY DEF Idle
<1>2. Idle \in FrameRec
  BY DEF Idle, FrameRec, FrameAt
<1>3. QED BY <1>1, <1>2

\* A step of call c or of one of its threads that neither begins nor ends it.
LEMMA StepInCall ==
  ASSUME IInv, NEW c \in ActiveCalls, c \in ActiveCalls',
         call' \in [Calls -> CallRec], queue' \in [Calls -> Queues],
         delivered' \in DeliveredType, frame' \in [Workers -> FrameRec],
         task' \in [Cancels \X Engines -> TaskAt],
         \A d \in Calls : d # c => call'[d] = call[d] /\ queue'[d] = queue[d],
         \A v \in Workers : v[1] # c => frame'[v] = frame[v],
         \A d \in Calls, x \in Pairs :
           d # c => delivered'[<<d, x[1], x[2]>>] = delivered[<<d, x[1], x[2]>>],
         \A e \in Engines : Inside(e)' = Inside(e),
         \A k \in Cancels, e \in Engines :
           \/ task'[<<k, e>>] = task[<<k, e>>]
           \/ task[<<k, e>>] = "wait" /\ task'[<<k, e>>] = "woken",
         UNCHANGED <<inputs, ref_count, cancelling, mutex, cancel, exposed, execute_ref_count,
                     cancellation_state, state_mutex, planner_state, in_progress>>,
         Local(c)'
  PROVE  IInv'
<1>1. c \in Calls /\ CancelInv /\ CountInv /\ pattern' = pattern /\ input' = input
  BY DEF ActiveCalls, IInv, inputs
<1>2. TypeOK'
  BY <1>1 DEF IInv, TypeOK, EngineTypeOK, CallRec, Queues, DeliveredType, FrameRec
<1>3. ActiveCalls' = ActiveCalls
  <2>1. \A d \in Calls : d \in ActiveCalls' <=> d \in ActiveCalls
    BY DEF ActiveCalls
  <2>2. QED BY <2>1 DEF ActiveCalls
<1>4. CountInv'
  BY <1>1, <1>3 DEF CountInv
<1>5. CancelInv'
  <2>1. ActiveCancels' = ActiveCancels
    BY DEF ActiveCancels
  <2>2. \A k \in Cancels, e \in Engines : task[<<k, e>>] \in Live => task'[<<k, e>>] \in Live
    BY DEF Live
  <2>3. \A e \in Engines :
          cancellation_state'[e] \/ (\E q \in QueryIds : planner_state'[<<e, q>>]) =>
            \E l \in Cancels : task'[<<l, e>>] \in Live
    <3> SUFFICES ASSUME NEW e \in Engines, cancellation_state[e] \/ (\E q \in QueryIds : planner_state[<<e, q>>])
                 PROVE  \E l \in Cancels : task'[<<l, e>>] \in Live
      OBVIOUS
    <3>1. PICK l \in Cancels : task[<<l, e>>] \in Live
      BY <1>1 DEF CancelInv
    <3>2. QED BY <2>2, <3>1
  <2>4. \A k \in Cancels, e \in Engines :
           task'[<<k, e>>] \notin {"none", "done"} => cancel'[k] \notin {"new", "lock", "done"}
    BY <1>1 DEF CancelInv
  <2>5. \A k \in Cancels, e \in Engines :
           cancel'[k] \in {"new", "lock"} \/ e \notin ToSet(RoutingTable) => task'[<<k, e>>] = "none"
    BY <1>1 DEF CancelInv
  <2>6. ActiveCancels' # {} => ActiveCalls' \subseteq exposed'
    BY <1>1, <1>3, <2>1 DEF CancelInv
  <2>7. cancelling' => \E k \in Cancels : cancel'[k] \in Live
    BY <1>1 DEF CancelInv
  <2>8. QED BY <2>3, <2>4, <2>5, <2>6, <2>7 DEF CancelInv
<1>6. \A d \in Calls : d # c => SameCall(d)
  <2> SUFFICES ASSUME NEW d \in Calls, d # c PROVE SameCall(d)
    OBVIOUS
  <2>1. \A i \in Threads : <<d, i>> \in Workers /\ <<d, i>>[1] = d
    BY WorkersAreThreads
  <2>2. QED BY <2>1 DEF SameCall
<1>7. QED BY <1>1, <1>2, <1>4, <1>5, <1>6, CallStepIInv

\* A thread without work gets a batch: it is reported as cancelled, or the
\* thread holds it.
LEMMA StartThread ==
  ASSUME IInv, NEW c \in ActiveCalls, c \in ActiveCalls', NEW i \in Threads, NEW b, NEW z \in BOOLEAN,
         b # Shutdown, b.eng \in Engines, b.queries \in Seq(QueryIds), Distinct(b.queries),
         z => c \in exposed, exposed' = exposed, Of(b) \cap Told(c) = {},
         frame[<<c, i>>].at \in {"none", "idle"}, Start(<<c, i>>, b, z)
  PROVE  LET w == <<c, i>>
         IN  /\ frame' \in [Workers -> FrameRec] /\ frame'[w].at \in {"idle", "enter"}
             /\ \A v \in Workers : v # w => frame'[v] = frame[v]
             /\ delivered' \in DeliveredType
             /\ \A d \in Calls, x \in Pairs :
                  d # c => delivered'[<<d, x[1], x[2]>>] = delivered[<<d, x[1], x[2]>>]
             /\ \A e \in Engines : Inside(e)' = Inside(e)
             /\ ToldInv(c)' /\ FrameInv(w)'
             /\ \/ Told(c)' = Told(c) \union Of(b) /\ Left(w)' \union Got(w)' = {}
                \/ Told(c)' = Told(c) /\ Left(w)' \union Got(w)' = Of(b)
<1> DEFINE w == <<c, i>>
<1>1. /\ c \in Calls /\ w \in Workers /\ w[1] = c /\ frame \in [Workers -> FrameRec]
      /\ delivered \in DeliveredType /\ ToldInv(c)
  <2>1. c \in Calls
    BY DEF ActiveCalls
  <2>2. QED BY <2>1, CallTyped, WorkersAreThreads DEF Local
<1>2. \A f \in FrameRec : frame' = [frame EXCEPT ![w] = f] /\ f.at \in {"idle", "enter"} =>
        /\ frame' \in [Workers -> FrameRec] /\ frame'[w] = f
        /\ \A v \in Workers : v # w => frame'[v] = frame[v]
        /\ \A e \in Engines : Inside(e)' = Inside(e)
  <2> SUFFICES ASSUME NEW f \in FrameRec, frame' = [frame EXCEPT ![w] = f], f.at \in {"idle", "enter"}
               PROVE  /\ frame' \in [Workers -> FrameRec] /\ frame'[w] = f
                      /\ \A v \in Workers : v # w => frame'[v] = frame[v]
                      /\ \A e \in Engines : Inside(e)' = Inside(e)
    OBVIOUS
  <2> HIDE DEF w
  <2>1. /\ frame' \in [Workers -> FrameRec] /\ frame'[w] = f
        /\ \A v \in Workers : v # w => frame'[v] = frame[v]
    BY <1>1
  <2>2. frame[w].at \notin InCall /\ frame'[w].at \notin InCall
    BY <2>1 DEF InCall, w
  <2>3. \A e \in Engines : Inside(e)' = Inside(e)
    BY <2>1, <2>2 DEF Inside
  <2>4. QED BY <2>1, <2>3
<1>3. CASE z
  <2> DEFINE R == ToSet(b.queries) \X {"cancelled"}
  <2>1. Deliver(c, b.eng, R) /\ frame' = [frame EXCEPT ![w] = Idle]
    BY <1>1, <1>3 DEF Start
  <2>2. Results(b.eng, R) = Of(b)
    <3>1. \A x \in Pairs : x \in Results(b.eng, R) <=> x \in Of(b)
      BY DEF Results, Of, Statuses
    <3>2. QED BY <3>1 DEF Results, Of
  <2>3. \A q \in QueryIds : ~ (<<q, "done">> \in R /\ <<q, "cancelled">> \in R)
    OBVIOUS
  <2>4. \A q, s : <<q, s>> \in R => s = "cancelled"
    OBVIOUS
  <2> HIDE DEF R
  <2>5. /\ delivered' \in DeliveredType
        /\ \A d \in Calls, x \in Pairs :
             d # c => delivered'[<<d, x[1], x[2]>>] = delivered[<<d, x[1], x[2]>>]
        /\ \A x \in Pairs : x \notin Of(b) => delivered'[<<c, x[1], x[2]>>] = delivered[<<c, x[1], x[2]>>]
        /\ \A x \in Of(b) : delivered'[<<c, x[1], x[2]>>] = "cancelled"
        /\ Told(c)' = Told(c) \union Of(b)
    <3>1. Results(b.eng, R) \cap Told(c) = {}
      BY <2>2
    <3>2. /\ delivered' \in DeliveredType
          /\ \A d \in Calls, x \in Pairs :
               d # c => delivered'[<<d, x[1], x[2]>>] = delivered[<<d, x[1], x[2]>>]
          /\ \A x \in Pairs : x \notin Results(b.eng, R) =>
               delivered'[<<c, x[1], x[2]>>] = delivered[<<c, x[1], x[2]>>]
          /\ \A x \in Results(b.eng, R) : <<x[2], delivered'[<<c, x[1], x[2]>>]>> \in R
          /\ Told(c)' = Told(c) \union Results(b.eng, R)
      BY <1>1, <2>1, <2>3, <3>1, DeliverTells
    <3>3. \A x \in Results(b.eng, R) : delivered'[<<c, x[1], x[2]>>] = "cancelled"
      BY <2>4, <3>2
    <3>4. QED BY <2>2, <3>2, <3>3
  <2>6. ToldInv(c)'
    <3> SUFFICES ASSUME NEW x \in Pairs
                 PROVE  LET d == delivered'[<<c, x[1], x[2]>>]
                        IN  d # "twice" /\ (d = "done" => x \in Planned) /\ (d = "cancelled" => c \in exposed)
      BY DEF ToldInv
    <3>1. CASE x \in Of(b)
      BY <1>3, <2>5, <3>1
    <3>2. CASE x \notin Of(b)
      BY <1>1, <2>5, <3>2 DEF ToldInv
    <3>3. QED BY <3>1, <3>2
  <2>7. /\ frame' \in [Workers -> FrameRec] /\ frame'[w] = Idle
        /\ \A v \in Workers : v # w => frame'[v] = frame[v]
        /\ \A e \in Engines : Inside(e)' = Inside(e)
    BY <1>2, <2>1, IdleTyped
  <2>8. FrameInv(w)' /\ Left(w)' = {} /\ Got(w)' = {}
    BY <2>7, IdleTyped, IdleThread
  <2>9. QED BY <2>5, <2>6, <2>7, <2>8, IdleTyped
<1>4. CASE ~ z
  <2> DEFINE f == [at |-> "enter", eng |-> b.eng, todo |-> b.queries, results |-> {}]
  <2>1. delivered' = delivered /\ frame' = [frame EXCEPT ![w] = f]
    BY <1>4 DEF Start
  <2>2. f \in FrameRec /\ f.at = "enter" /\ f.eng = b.eng /\ f.todo = b.queries /\ f.results = {}
    BY DEF FrameRec, FrameAt
  <2> HIDE DEF f
  <2>3. /\ frame' \in [Workers -> FrameRec] /\ frame'[w] = f
        /\ \A v \in Workers : v # w => frame'[v] = frame[v]
        /\ \A e \in Engines : Inside(e)' = Inside(e)
    BY <1>2, <2>1, <2>2
  <2>4. Busy(w)' /\ Left(w)' = Of(b) /\ Got(w)' = {}
    BY <2>2, <2>3 DEF Busy, Left, Got, Of
  <2>5. FrameInv(w)'
    BY <1>1, <2>2, <2>3, <2>4 DEF FrameInv, Leaving
  <2>6. ToldInv(c)' /\ Told(c)' = Told(c)
    BY <1>1, <2>1 DEF ToldInv, Told
  <2>7. QED BY <1>1, <2>1, <2>2, <2>3, <2>4, <2>5, <2>6
<1>5. QED BY <1>3, <1>4

\* The next batch of a call.
LEMMA NextBatchMoves ==
  ASSUME IInv, NEW c \in Calls, AtBatch(c), NEW a \in {"schedule", "serial"}, NextBatch(c, a)
  PROVE  LET b == Head(call[c].todo)
         IN  /\ c \in ActiveCalls /\ c \in ActiveCalls'
             /\ b \in Batches /\ b # Shutdown /\ b.eng \in Engines /\ b.queries \in Seq(QueryIds)
             /\ Distinct(b.queries)
             /\ call' \in [Calls -> CallRec] /\ \A d \in Calls : d # c => call'[d] = call[d]
             /\ call'[c].at = a /\ call'[c].cancelled = Cancelled(c)
             /\ call'[c].todo = Tail(call[c].todo) /\ Apart(Tail(call[c].todo))
             /\ All(call[c].todo) = Of(b) \union All(Tail(call[c].todo))
             /\ Of(b) \cap All(Tail(call[c].todo)) = {}
<1> DEFINE b == Head(call[c].todo)
           t == Tail(call[c].todo)
           r == [at |-> a, todo |-> t, cancelled |-> Cancelled(c)]
<1>1. /\ call \in [Calls -> CallRec] /\ call[c] \in CallRec /\ PlaceInv(c)
      /\ call[c].at = "schedule" /\ call[c].todo # <<>>
  BY CallTyped DEF Local, AtBatch
<1>2. c \in ActiveCalls
  BY <1>1 DEF ActiveCalls
<1>3. call[c].todo \in Seq(Batches) /\ Cancelled(c) \in BOOLEAN
  BY <1>1, <1>2, CallRecTyped, FlagIsExposed
<1>4. /\ b \in Batches /\ t \in Seq(Batches) /\ Apart(t)
      /\ All(call[c].todo) = Of(b) \union All(t)
      /\ Of(b) \cap All(t) = {}
      /\ b # Shutdown => Distinct(b.queries)
  BY <1>1, <1>3, TailAll DEF PlaceInv
<1>5. b # Shutdown /\ b.eng \in Engines /\ b.queries \in Seq(QueryIds)
  <2>1. b # Shutdown
    BY <1>4, ItemIsWork
  <2>2. QED BY <1>4, <2>1 DEF Batches
<1>6. r \in CallRec /\ r.at = a /\ r.todo = t /\ r.cancelled = Cancelled(c)
  BY <1>3, <1>4 DEF CallRec, CallAt
<1>7. call' = [call EXCEPT ![c] = r]
  BY DEF NextBatch
<1> HIDE DEF r
<1>8. call' \in [Calls -> CallRec] /\ call'[c] = r /\ \A d \in Calls : d # c => call'[d] = call[d]
  BY <1>1, <1>6, <1>7
<1>9. c \in ActiveCalls'
  BY <1>6, <1>8 DEF ActiveCalls
<1>10. QED BY <1>2, <1>4, <1>5, <1>6, <1>8, <1>9

\* What a call is asked and how large its pool is stay as they are.
LEMMA SameInputs ==
  ASSUME UNCHANGED inputs, NEW c
  PROVE  Asked(c)' = Asked(c) /\ PoolSize(c)' = PoolSize(c) /\ pattern' = pattern /\ input' = input
<1>1. input' = input /\ pattern' = pattern
  BY DEF inputs
<1>2. Asked(c)' = Asked(c)
  BY <1>1 DEF Asked, QueriesFor
<1>3. PoolSize(c)' = PoolSize(c)
  BY <1>1 DEF PoolSize, BatchesOf, AgentBatches, QueriesFor
<1>4. QED BY <1>1, <1>2, <1>3

\* The threads of a call of which one moves.
LEMMA OtherThreads ==
  ASSUME NEW c \in Calls, NEW i \in Threads, Local(c), c \in ActiveCalls', exposed' = exposed,
         \A v \in Workers : v # <<c, i>> => frame'[v] = frame[v], FrameInv(<<c, i>>)'
  PROVE  /\ \A j \in Threads : FrameInv(<<c, j>>)'
         /\ \A j \in Threads : j # i => /\ frame'[<<c, j>>] = frame[<<c, j>>]
                                        /\ Holds(c)'[j] = Holds(c)[j]
         /\ Holds(c)'[i] = Left(<<c, i>>)' \union Got(<<c, i>>)'
         /\ Holds(c)[i] = Left(<<c, i>>) \union Got(<<c, i>>)
<1>1. \A j \in Threads : j # i => <<c, j>> \in Workers /\ <<c, j>> # <<c, i>> /\ <<c, j>>[1] = c
  BY WorkersAreThreads
<1>2. \A j \in Threads : j # i => frame'[<<c, j>>] = frame[<<c, j>>] /\ FrameInv(<<c, j>>)
  BY <1>1 DEF Local
<1>3. \A j \in Threads : j # i => /\ FrameInv(<<c, j>>)' /\ Left(<<c, j>>)' = Left(<<c, j>>)
                                  /\ Got(<<c, j>>)' = Got(<<c, j>>)
  BY <1>1, <1>2, FrameStays
<1>4. \A j \in Threads : /\ Holds(c)'[j] = Left(<<c, j>>)' \union Got(<<c, j>>)'
                         /\ Holds(c)[j] = Left(<<c, j>>) \union Got(<<c, j>>)
  BY DEF Holds, Held
<1>5. \A j \in Threads : j # i => Holds(c)'[j] = Holds(c)[j]
  BY <1>3, <1>4
<1>6. \A j \in Threads : FrameInv(<<c, j>>)'
  BY <1>3
<1>7. QED BY <1>2, <1>4, <1>5, <1>6

LEMMA CallRunIInv ==
  ASSUME IInv, NEW c \in Calls, CallRun(c)
  PROVE  IInv'
<1> DEFINE b == Head(call[c].todo)
           t == Tail(call[c].todo)
           w == <<c, 1>>
<1>1. /\ pattern = "serial_all" /\ AtBatch(c) /\ NextBatch(c, "serial") /\ Start(w, b, Cancelled(c))
      /\ UNCHANGED <<inputs, ref_count, cancelling, mutex, queue, cancel, exposed,
                     execute_ref_count, cancellation_state, state_mutex, planner_state,
                     in_progress, task>>
  BY DEF CallRun, Serial, Batch
<1>2. /\ Local(c) /\ CallInv(c) /\ QueueInv(c) /\ PlaceInv(c) /\ call[c].at = "schedule"
      /\ queue \in [Calls -> Queues] /\ task \in [Cancels \X Engines -> TaskAt]
      /\ 1 \in Threads
  BY <1>1, CallTyped, CancelTyped, WorkersAreThreads DEF Local, AtBatch
<1>3. /\ c \in ActiveCalls /\ c \in ActiveCalls'
      /\ b # Shutdown /\ b.eng \in Engines /\ b.queries \in Seq(QueryIds) /\ Distinct(b.queries)
      /\ call' \in [Calls -> CallRec] /\ \A d \in Calls : d # c => call'[d] = call[d]
      /\ call'[c].at = "serial" /\ call'[c].cancelled = Cancelled(c) /\ call'[c].todo = t
      /\ Apart(t) /\ All(call[c].todo) = Of(b) \union All(t) /\ Of(b) \cap All(t) = {}
  BY <1>1, NextBatchMoves
<1>4. Cancelled(c) \in BOOLEAN /\ (Cancelled(c) => c \in exposed)
  BY <1>3, FlagIsExposed
<1>5. Of(b) \cap Told(c) = {} /\ frame[w].at \in {"none", "idle"}
  BY <1>1, <1>2, <1>3 DEF PlaceInv, Placed, CallInv
<1> HIDE DEF b, t
<1>6. /\ frame' \in [Workers -> FrameRec] /\ frame'[w].at \in {"idle", "enter"}
      /\ \A v \in Workers : v # w => frame'[v] = frame[v]
      /\ delivered' \in DeliveredType
      /\ \A d \in Calls, x \in Pairs :
           d # c => delivered'[<<d, x[1], x[2]>>] = delivered[<<d, x[1], x[2]>>]
      /\ \A e \in Engines : Inside(e)' = Inside(e)
      /\ ToldInv(c)' /\ FrameInv(w)'
      /\ \/ Told(c)' = Told(c) \union Of(b) /\ Left(w)' \union Got(w)' = {}
         \/ Told(c)' = Told(c) /\ Left(w)' \union Got(w)' = Of(b)
  BY <1>1, <1>2, <1>3, <1>4, <1>5, StartThread
<1>7. Asked(c)' = Asked(c) /\ PoolSize(c)' = PoolSize(c) /\ pattern' = pattern /\ input' = input
  BY <1>1, SameInputs
<1>8. /\ \A j \in Threads : FrameInv(<<c, j>>)'
      /\ \A j \in Threads : j # 1 => /\ frame'[<<c, j>>] = frame[<<c, j>>]
                                     /\ Holds(c)'[j] = Holds(c)[j]
      /\ Holds(c)'[1] = Left(w)' \union Got(w)'
      /\ Holds(c)[1] = Left(w) \union Got(w)
  BY <1>1, <1>2, <1>3, <1>6, OtherThreads
<1>9. Holds(c)[1] = {}
  BY <1>5, <1>8 DEF Left, Got, Busy
<1>10. CallInv(c)'
  BY <1>1, <1>2, <1>3, <1>4, <1>7, <1>8 DEF CallInv
<1>11. QueueInv(c)'
  <2>1. queue'[c] = <<>> /\ Len(<<>>) = 0 /\ 1 .. 0 = {}
    BY <1>1, <1>2 DEF CallInv
  <2>2. \A j \in Threads : frame'[<<c, j>>].at # "exited"
    BY <1>1, <1>2, <1>6, <1>8 DEF CallInv
  <2>3. QED BY <2>1, <2>2 DEF QueueInv
<1>12. PlaceInv(c)'
  <2> DEFINE T == All(call[c].todo)
             Q == All(queue[c])
             A == Asked(c)
  <2>1. Placed(T, Q, Told(c), Holds(c), A) /\ Found(T, Q, Told(c), Holds(c), A)
    BY <1>2 DEF PlaceInv
  <2>2. /\ All(call[c].todo)' = All(t) /\ All(queue[c])' = Q /\ Apart(call'[c].todo) /\ Apart(queue'[c])
    <3>1. call'[c].todo = t /\ queue'[c] = queue[c] /\ Apart(queue[c])
      BY <1>1, <1>2, <1>3 DEF PlaceInv
    <3>2. All(call[c].todo)' = All(call'[c].todo) /\ All(queue[c])' = All(queue'[c])
      BY DEF All, Of
    <3>3. QED BY <1>3, <3>1, <3>2
  <2> HIDE DEF T, Q, A
  <2>3. Placed(All(t), Q, Told(c)', Holds(c)', A) /\ Found(All(t), Q, Told(c)', Holds(c)', A)
    <3>1. T = Of(b) \union All(t) /\ Of(b) \cap All(t) = {}
      BY <1>3 DEF T
    <3> DEFINE R == Told(c)'
               K == Holds(c)'
               H == Holds(c)
    <3>2. /\ H[1] = {} /\ \A j \in Threads : j # 1 => K[j] = H[j]
          /\ (R = Told(c) \union Of(b) /\ K[1] = {}) \/ (R = Told(c) /\ K[1] = Of(b))
      BY <1>6, <1>8, <1>9
    <3> HIDE DEF R, K, H
    <3>3. Placed(T, Q, Told(c), H, A) /\ Found(T, Q, Told(c), H, A)
      BY <2>1 DEF H
    <3>4. Placed(All(t), Q, R, K, A) /\ Found(All(t), Q, R, K, A)
      <4>1. LeavesFor(Of(b), T, All(t), Told(c), R, H, K, 1)
        BY <3>1, <3>2 DEF LeavesFor
      <4>2. QED BY <1>2, <3>3, <4>1, MoveOn
    <3>5. QED BY <3>4 DEF R, K
  <2>4. Apart(call[c].todo)' /\ Apart(queue[c])'
    BY <2>2 DEF Apart, Of
  <2>5. QED BY <1>7, <2>2, <2>3, <2>4 DEF PlaceInv, A
<1>13. Local(c)'
  BY <1>6, <1>8, <1>10, <1>11, <1>12 DEF Local
<1>14. \A v \in Workers : v[1] # c => frame'[v] = frame[v]
  BY <1>6
<1>15. QED BY <1>1, <1>2, <1>3, <1>6, <1>13, <1>14, StepInCall

\* A step of the calling thread alone.
LEMMA CallMoves ==
  ASSUME IInv, NEW c \in ActiveCalls, c \in ActiveCalls',
         call' \in [Calls -> CallRec], queue' \in [Calls -> Queues],
         \A d \in Calls : d # c => call'[d] = call[d] /\ queue'[d] = queue[d],
         UNCHANGED <<inputs, ref_count, cancelling, mutex, delivered, cancel, exposed, engineVars>>,
         CallInv(c)', QueueInv(c)', Apart(call'[c].todo), Apart(queue'[c]),
         Placed(All(call'[c].todo), All(queue'[c]), Told(c), Holds(c), Asked(c)),
         Found(All(call'[c].todo), All(queue'[c]), Told(c), Holds(c), Asked(c))
  PROVE  IInv'
<1>1. /\ c \in Calls /\ Local(c) /\ delivered \in DeliveredType /\ frame \in [Workers -> FrameRec]
      /\ task \in [Cancels \X Engines -> TaskAt]
  <2>1. c \in Calls
    BY DEF ActiveCalls
  <2>2. QED BY <2>1, CallTyped, CancelTyped
<1>2. UNCHANGED <<execute_ref_count, cancellation_state, state_mutex, planner_state,
                  in_progress, frame, task>>
  BY DEF engineVars
<1>3. Told(c)' = Told(c) /\ ToldInv(c)'
  BY <1>1 DEF Told, ToldInv, Local
<1>4. \A j \in Threads : /\ FrameInv(<<c, j>>)' /\ Left(<<c, j>>)' = Left(<<c, j>>)
                         /\ Got(<<c, j>>)' = Got(<<c, j>>)
  <2> TAKE j \in Threads
  <2>1. FrameInv(<<c, j>>) /\ <<c, j>>[1] = c /\ frame'[<<c, j>>] = frame[<<c, j>>]
    BY <1>1, <1>2 DEF Local
  <2>2. QED BY <2>1, FrameStays
<1>5. Holds(c)' = Holds(c)
  BY <1>4 DEF Holds, Held
<1>6. Asked(c)' = Asked(c)
  BY SameInputs
<1>7. PlaceInv(c)'
  <2>1. All(call[c].todo)' = All(call'[c].todo) /\ All(queue[c])' = All(queue'[c])
    BY DEF All, Of
  <2>2. Apart(call[c].todo)' /\ Apart(queue[c])'
    BY DEF Apart, Of
  <2>3. QED BY <1>3, <1>5, <1>6, <2>1, <2>2 DEF PlaceInv
<1>8. Local(c)'
  BY <1>3, <1>4, <1>7 DEF Local
<1>9. \A e \in Engines : Inside(e)' = Inside(e)
  BY <1>2 DEF Inside
<1>10. QED BY <1>1, <1>2, <1>8, <1>9, StepInCall

LEMMA CallSkipIInv ==
  ASSUME IInv, NEW c \in Calls, CallSkip(c)
  PROVE  IInv'
<1> DEFINE b == Head(call[c].todo)
           t == Tail(call[c].todo)
<1>1. /\ pattern = "serial_all" /\ AtBatch(c) /\ NextBatch(c, "schedule") /\ b.queries = <<>>
      /\ UNCHANGED <<inputs, ref_count, cancelling, mutex, queue, delivered, cancel,
                     exposed, engineVars>>
  BY DEF CallSkip, Batch, NonEmpty
<1>2. /\ Local(c) /\ CallInv(c) /\ QueueInv(c) /\ PlaceInv(c) /\ call[c].at = "schedule"
      /\ queue \in [Calls -> Queues]
  BY <1>1, CallTyped DEF Local, AtBatch
<1>3. /\ c \in ActiveCalls /\ c \in ActiveCalls'
      /\ call' \in [Calls -> CallRec] /\ \A d \in Calls : d # c => call'[d] = call[d]
      /\ call'[c].at = "schedule" /\ call'[c].cancelled = Cancelled(c) /\ call'[c].todo = t
      /\ Apart(t) /\ All(call[c].todo) = Of(b) \union All(t)
  BY <1>1, NextBatchMoves
<1>4. Cancelled(c) => c \in exposed
  BY <1>3, FlagIsExposed
<1>5. All(call[c].todo) = All(t)
  <2>1. Of(b) = {}
    BY <1>1, NothingAll DEF Of
  <2>2. QED BY <1>3, <2>1
<1> HIDE DEF b, t
<1>6. pattern' = pattern /\ input' = input /\ queue' = queue /\ frame' = frame /\ exposed' = exposed
  BY <1>1 DEF inputs, engineVars
<1>7. CallInv(c)'
  BY <1>1, <1>2, <1>3, <1>4, <1>6 DEF CallInv
<1>8. QueueInv(c)'
  BY <1>2, <1>3, <1>6 DEF QueueInv
<1>9. Apart(queue[c]) /\ Placed(All(t), All(queue[c]), Told(c), Holds(c), Asked(c))
      /\ Found(All(t), All(queue[c]), Told(c), Holds(c), Asked(c))
  BY <1>2, <1>5 DEF PlaceInv
<1>10. QED BY <1>1, <1>2, <1>3, <1>6, <1>7, <1>8, <1>9, CallMoves

LEMMA CallContinueIInv ==
  ASSUME IInv, NEW c \in Calls, CallContinue(c)
  PROVE  IInv'
<1> DEFINE r == [call[c] EXCEPT !.at = "schedule"]
<1>1. /\ call[c].at = "serial" /\ frame[<<c, 1>>].at = "idle"
      /\ call' = [call EXCEPT ![c].at = "schedule"]
      /\ UNCHANGED <<inputs, ref_count, cancelling, mutex, queue, delivered, cancel,
                     exposed, engineVars>>
  BY DEF CallContinue, Serial
<1>2. /\ Local(c) /\ CallInv(c) /\ QueueInv(c) /\ PlaceInv(c)
      /\ queue \in [Calls -> Queues] /\ call \in [Calls -> CallRec] /\ call[c] \in CallRec
  BY CallTyped DEF Local
<1>3. /\ r \in CallRec /\ r.at = "schedule" /\ r.todo = call[c].todo /\ r.cancelled = call[c].cancelled
  BY <1>2 DEF CallRec, CallAt
<1>4. call' = [call EXCEPT ![c] = r]
  BY <1>1, <1>2
<1> HIDE DEF r
<1>5. call' \in [Calls -> CallRec] /\ call'[c] = r /\ \A d \in Calls : d # c => call'[d] = call[d]
  BY <1>2, <1>3, <1>4
<1>6. c \in ActiveCalls /\ c \in ActiveCalls'
  BY <1>1, <1>3, <1>5 DEF ActiveCalls
<1>7. pattern' = pattern /\ input' = input /\ queue' = queue /\ frame' = frame /\ exposed' = exposed
  BY <1>1 DEF inputs, engineVars
<1>8. pattern = "serial_all"
  BY <1>1, <1>2 DEF CallInv
<1>9. CallInv(c)'
  BY <1>1, <1>2, <1>3, <1>5, <1>7, <1>8 DEF CallInv
<1>10. QueueInv(c)'
  BY <1>1, <1>2, <1>3, <1>5, <1>7 DEF QueueInv
<1>11. /\ Apart(call[c].todo) /\ Apart(queue[c])
       /\ Placed(All(call[c].todo), All(queue[c]), Told(c), Holds(c), Asked(c))
       /\ Found(All(call[c].todo), All(queue[c]), Told(c), Holds(c), Asked(c))
  BY <1>1, <1>2 DEF PlaceInv
<1>12. call'[c].todo = call[c].todo /\ queue'[c] = queue[c]
  BY <1>3, <1>5, <1>7
<1>13. QED BY <1>1, <1>2, <1>5, <1>6, <1>7, <1>9, <1>10, <1>11, <1>12, CallMoves

LEMMA CallScheduleIInv ==
  ASSUME IInv, NEW c \in Calls, CallSchedule(c)
  PROVE  IInv'
<1> DEFINE b == Head(call[c].todo)
           t == Tail(call[c].todo)
           n == [eng |-> b.eng, queries |-> b.queries, cancelled |-> Cancelled(c)]
           u == Append(queue[c], n)
           S == Items \union {Shutdown}
<1>1. /\ pattern # "serial_all" /\ AtBatch(c) /\ NextBatch(c, "schedule")
      /\ queue' = [queue EXCEPT ![c] = u]
      /\ UNCHANGED <<inputs, ref_count, cancelling, mutex, delivered, cancel, exposed, engineVars>>
  BY CallTyped DEF CallSchedule, Batch
<1>2. /\ Local(c) /\ CallInv(c) /\ QueueInv(c) /\ PlaceInv(c) /\ call[c].at = "schedule"
      /\ queue \in [Calls -> Queues] /\ queue[c] \in Seq(S)
  BY <1>1, CallTyped DEF Local, AtBatch, Queues
<1>3. /\ c \in ActiveCalls /\ c \in ActiveCalls'
      /\ b # Shutdown /\ b.eng \in Engines /\ b.queries \in Seq(QueryIds) /\ Distinct(b.queries)
      /\ call' \in [Calls -> CallRec] /\ \A d \in Calls : d # c => call'[d] = call[d]
      /\ call'[c].at = "schedule" /\ call'[c].cancelled = Cancelled(c) /\ call'[c].todo = t
      /\ Apart(t) /\ All(call[c].todo) = Of(b) \union All(t) /\ Of(b) \cap All(t) = {}
  BY <1>1, NextBatchMoves
<1>4. Cancelled(c) \in BOOLEAN /\ (Cancelled(c) => c \in exposed)
  BY <1>3, FlagIsExposed
<1> HIDE DEF b, t
<1>5. /\ n \in Items /\ n.cancelled = Cancelled(c) /\ n.eng = b.eng /\ n.queries = b.queries
  BY <1>3, <1>4 DEF Items
<1> HIDE DEF n
<1>6. n # Shutdown /\ n \in S /\ Of(n) = Of(b)
  <2>1. n # Shutdown
    BY <1>5, ItemIsWork
  <2>2. QED BY <1>3, <1>5, <2>1 DEF Of
<1>7. Placed(All(call[c].todo), All(queue[c]), Told(c), Holds(c), Asked(c))
      /\ Found(All(call[c].todo), All(queue[c]), Told(c), Holds(c), Asked(c)) /\ Apart(queue[c])
  BY <1>2 DEF PlaceInv
<1>8. Of(n) \cap All(queue[c]) = {}
  BY <1>3, <1>6, <1>7 DEF Placed
<1>9. u \in Seq(S) /\ Apart(u) /\ All(u) = All(queue[c]) \union Of(b)
  <2>1. Distinct(n.queries)
    BY <1>3, <1>5
  <2> HIDE DEF S
  <2>2. QED BY <1>2, <1>6, <1>7, <1>8, <2>1, AppendAll
<1>10. /\ Len(queue[c]) \in Nat /\ Len(u) = Len(queue[c]) + 1 /\ u[Len(queue[c]) + 1] = n
       /\ \A i \in 1 .. Len(queue[c]) : u[i] = queue[c][i]
  BY <1>2, <1>6, AppendProperties
<1> HIDE DEF u
<1>11. queue' \in [Calls -> Queues] /\ queue'[c] = u /\ \A d \in Calls : d # c => queue'[d] = queue[d]
  BY <1>1, <1>2, <1>9 DEF Queues
<1>12. pattern' = pattern /\ input' = input /\ frame' = frame /\ exposed' = exposed /\ PoolSize(c)' = PoolSize(c)
  BY <1>1, SameInputs DEF inputs, engineVars
<1>13. CallInv(c)'
  BY <1>1, <1>2, <1>3, <1>4, <1>12 DEF CallInv
<1>14. QueueInv(c)'
  <2>1. /\ \A i \in 1 .. Len(queue[c]) : queue[c][i] # Shutdown
        /\ \A i \in Threads : frame[<<c, i>>].at # "exited"
    BY <1>2 DEF QueueInv
  <2>2. \A i \in 1 .. Len(u) : u[i] = n \/ (i \in 1 .. Len(queue[c]) /\ u[i] = queue[c][i])
    BY <1>10
  <2>3. \A i \in 1 .. Len(u) : u[i] # Shutdown /\ (u[i].cancelled => c \in exposed)
    <3> TAKE i \in 1 .. Len(u)
    <3>1. CASE u[i] = n
      BY <1>4, <1>5, <1>6, <3>1
    <3>2. CASE i \in 1 .. Len(queue[c]) /\ u[i] = queue[c][i]
      BY <1>2, <2>1, <3>2 DEF QueueInv
    <3>3. QED BY <2>2, <3>1, <3>2
  <2>4. QED BY <1>11, <1>12, <2>1, <2>3 DEF QueueInv
<1>15. Placed(All(t), All(u), Told(c), Holds(c), Asked(c)) /\ Found(All(t), All(u), Told(c), Holds(c), Asked(c))
  BY <1>3, <1>7, <1>9, MoveToQueue
<1>16. QED BY <1>1, <1>3, <1>9, <1>11, <1>13, <1>14, <1>15, CallMoves

\* A pool has a thread if there is anything to do.
LEMMA PoolIsLargeEnough ==
  ASSUME input \in Inputs, pattern \in input.patterns, NEW c \in DOMAIN input.calls
  PROVE  /\ PoolSize(c) \in Nat /\ PoolSize(c) <= MaxThreads
         /\ pattern = "serial_all" => PoolSize(c) = 0
         /\ pattern # "serial_all" /\ PoolSize(c) = 0 => Asked(c) = {}
<1>1. Covers(BatchesOf(c), c)
  BY BatchesCover
<1>2. BatchesOf(c) \in Seq(Batches) /\ All(BatchesOf(c)) = Asked(c) /\ Len(BatchesOf(c)) \in Nat
  BY <1>1 DEF Covers
<1>3. MaxThreads \in Nat /\ MaxThreads # 0
  BY RouterAssumption
<1>4. Len(BatchesOf(c)) = 0 => Asked(c) = {}
  <2>1. Len(BatchesOf(c)) = 0 => BatchesOf(c) = <<>>
    BY <1>2
  <2>2. QED BY <1>2, <2>1, NothingAll
<1>5. QED BY <1>2, <1>3, <1>4 DEF PoolSize

LEMMA CallShutdownIInv ==
  ASSUME IInv, NEW c \in Calls, CallShutdown(c)
  PROVE  IInv'
<1> DEFINE r == [call[c] EXCEPT !.at = "join"]
           u == queue[c] \o [i \in 1 .. PoolSize(c) |-> Shutdown]
           S == Items \union {Shutdown}
<1>1. /\ pattern # "serial_all" /\ call[c].at = "schedule" /\ call[c].todo = <<>>
      /\ call' = [call EXCEPT ![c].at = "join"] /\ queue' = [queue EXCEPT ![c] = u]
      /\ UNCHANGED <<inputs, ref_count, cancelling, mutex, delivered, cancel, exposed, engineVars>>
  BY CallTyped DEF CallShutdown, AtEnd
<1>2. /\ Local(c) /\ CallInv(c) /\ QueueInv(c) /\ PlaceInv(c)
      /\ queue \in [Calls -> Queues] /\ queue[c] \in Seq(S)
      /\ call \in [Calls -> CallRec] /\ call[c] \in CallRec
      /\ input \in Inputs /\ pattern \in input.patterns
  BY CallTyped DEF Local, Queues
<1>3. r \in CallRec /\ r.at = "join" /\ r.todo = call[c].todo /\ r.cancelled = call[c].cancelled
  BY <1>2 DEF CallRec, CallAt
<1>4. call' = [call EXCEPT ![c] = r]
  BY <1>1, <1>2
<1> HIDE DEF r
<1>5. call' \in [Calls -> CallRec] /\ call'[c] = r /\ \A d \in Calls : d # c => call'[d] = call[d]
  BY <1>2, <1>3, <1>4
<1>6. c \in ActiveCalls /\ c \in ActiveCalls'
  BY <1>1, <1>3, <1>5 DEF ActiveCalls
<1>7. c \in DOMAIN input.calls /\ PoolSize(c) \in Nat
  BY <1>1, <1>2, PoolIsLargeEnough DEF CallInv
<1>8. Placed(All(call[c].todo), All(queue[c]), Told(c), Holds(c), Asked(c))
      /\ Found(All(call[c].todo), All(queue[c]), Told(c), Holds(c), Asked(c))
      /\ Apart(queue[c]) /\ Apart(call[c].todo)
  BY <1>1, <1>2 DEF PlaceInv
<1>9. /\ u \in Seq(S) /\ Apart(u) /\ All(u) = All(queue[c]) /\ Len(u) = Len(queue[c]) + PoolSize(c)
      /\ \A i \in 1 .. Len(queue[c]) : u[i] = queue[c][i]
      /\ \A i \in 1 .. Len(u) : i \in 1 .. Len(queue[c]) \/ u[i] = Shutdown
  <2>1. Shutdown \in S /\ u = Ended(queue[c], PoolSize(c))
    BY DEF Ended
  <2> HIDE DEF S, u
  <2>2. QED BY <1>2, <1>7, <1>8, <2>1, ShutdownAll
<1> HIDE DEF u
<1>10. queue' \in [Calls -> Queues] /\ queue'[c] = u /\ \A d \in Calls : d # c => queue'[d] = queue[d]
  BY <1>1, <1>2, <1>9 DEF Queues
<1>11. pattern' = pattern /\ input' = input /\ frame' = frame /\ exposed' = exposed /\ PoolSize(c)' = PoolSize(c)
  BY <1>1, SameInputs DEF inputs, engineVars
<1>12. CallInv(c)'
  BY <1>1, <1>2, <1>3, <1>5, <1>11 DEF CallInv
<1>13. QueueInv(c)'
  <2>1. /\ \A i \in 1 .. Len(queue[c]) : queue[c][i] # Shutdown
        /\ \A i \in Threads : frame[<<c, i>>].at # "exited"
    BY <1>1, <1>2 DEF QueueInv
  <2>2. Len(queue[c]) \in Nat
    BY <1>2
  <2>3. \A i, j \in 1 .. Len(u) : i < j /\ u[i] = Shutdown => u[j] = Shutdown
    <3> SUFFICES ASSUME NEW i \in 1 .. Len(u), NEW j \in 1 .. Len(u), i < j, u[i] = Shutdown,
                        u[j] # Shutdown
                 PROVE  FALSE
      OBVIOUS
    <3>1. j \in 1 .. Len(queue[c])
      BY <1>9
    <3>2. i \in 1 .. Len(queue[c])
      BY <2>2, <3>1
    <3>3. QED BY <1>9, <2>1, <3>2
  <2>4. \A i \in 1 .. Len(u) : u[i] # Shutdown /\ u[i].cancelled => c \in exposed
    BY <1>2, <1>9 DEF QueueInv
  <2>5. QED BY <1>3, <1>5, <1>10, <1>11, <2>1, <2>3, <2>4 DEF QueueInv
<1>14. call'[c].todo = call[c].todo
  BY <1>3, <1>5
<1>15. QED BY <1>1, <1>5, <1>6, <1>8, <1>9, <1>10, <1>12, <1>13, <1>14, CallMoves

LEMMA CallLeaveIInv ==
  ASSUME IInv, NEW c \in Calls, CallLeave(c)
  PROVE  IInv'
<1> DEFINE r == [call[c] EXCEPT !.at = "done", !.cancelled = FALSE]
<1>1. /\ \/ pattern = "serial_all" /\ call[c].at = "schedule" /\ call[c].todo = <<>>
         \/ call[c].at = "join" /\ \A w \in Pool(c) : frame[w].at = "exited"
      /\ ref_count' = ref_count - 1
      /\ call' = [call EXCEPT ![c].at = "done", ![c].cancelled = FALSE]
      /\ cancel' = IF ref_count # 1 THEN cancel
                   ELSE [k \in Cancels |-> IF cancel[k] = "wait" THEN "woken" ELSE cancel[k]]
      /\ UNCHANGED <<inputs, cancelling, mutex, queue, delivered, exposed, engineVars>>
  BY DEF CallLeave, Leave, AtEnd
<1>2. /\ Local(c) /\ CallInv(c) /\ QueueInv(c) /\ PlaceInv(c) /\ CancelInv /\ CountInv
      /\ queue \in [Calls -> Queues] /\ call \in [Calls -> CallRec] /\ call[c] \in CallRec
      /\ input \in Inputs /\ pattern \in input.patterns
  BY CallTyped DEF Local
<1>3. call[c].todo \in Seq(Batches) /\ r \in CallRec /\ r.at = "done" /\ r.todo = call[c].todo
      /\ r.cancelled = FALSE
  BY <1>2, CallRecTyped DEF CallRec, CallAt
<1>4. call' = [call EXCEPT ![c] = r]
  BY <1>1, <1>2
<1> HIDE DEF r
<1>5. call' \in [Calls -> CallRec] /\ call'[c] = r /\ \A d \in Calls : d # c => call'[d] = call[d]
  BY <1>2, <1>3, <1>4
<1>6. c \in ActiveCalls /\ ActiveCalls' = ActiveCalls \ {c}
  BY <1>1, <1>3, <1>5 DEF ActiveCalls
<1>7. UNCHANGED <<execute_ref_count, cancellation_state, state_mutex, planner_state,
                  in_progress, frame, task>>
  BY <1>1 DEF engineVars
<1>8. /\ pattern' = pattern /\ input' = input /\ PoolSize(c)' = PoolSize(c) /\ Asked(c)' = Asked(c)
  BY <1>1, SameInputs
<1>9. c \in DOMAIN input.calls /\ call[c].todo = <<>> /\ call[c].at # "new"
  BY <1>1, <1>2 DEF CallInv
<1>10. /\ PoolSize(c) \in Nat /\ PoolSize(c) <= MaxThreads
       /\ pattern # "serial_all" /\ PoolSize(c) = 0 => Asked(c) = {}
  BY <1>2, <1>9, PoolIsLargeEnough
<1>11. /\ pattern = "serial_all" => \A i \in Threads : frame[<<c, i>>].at \in {"none", "idle"}
       /\ pattern # "serial_all" => \A i \in Threads : frame[<<c, i>>].at \in {"none", "exited"}
  <2>1. CASE pattern = "serial_all"
    BY <1>1, <1>2, <2>1 DEF CallInv
  <2>2. CASE pattern # "serial_all"
    <3> SUFFICES ASSUME NEW i \in Threads, frame[<<c, i>>].at # "none"
                 PROVE  frame[<<c, i>>].at = "exited"
      BY <2>2
    <3>1. i \in 1 .. PoolSize(c)
      BY <1>2, <1>10, <2>2 DEF CallInv, Threads
    <3>2. QED BY <1>1, <2>2, <3>1 DEF Pool
  <2>3. QED BY <2>1, <2>2
<1>12. All(queue[c]) = {}
  <2>1. CASE pattern = "serial_all"
    BY <1>2, <2>1, NothingAll DEF CallInv
  <2>2. CASE pattern # "serial_all" /\ PoolSize(c) = 0
    BY <1>2, <1>10, <2>2 DEF PlaceInv, Placed
  <2>3. CASE pattern # "serial_all" /\ PoolSize(c) # 0
    <3>1. 1 \in Threads /\ <<c, 1>> \in Pool(c)
      BY <1>10, <2>3, WorkersAreThreads DEF Pool
    <3>2. frame[<<c, 1>>].at = "exited"
      BY <1>1, <2>3, <3>1
    <3>3. \A j \in 1 .. Len(queue[c]) : queue[c][j] = Shutdown
      BY <1>2, <3>1, <3>2 DEF QueueInv
    <3>4. QED BY <3>3 DEF All, Of
  <2>4. QED BY <2>1, <2>2, <2>3
<1>13. \A i \in Threads : ~ Busy(<<c, i>>)
  BY <1>11 DEF Busy
<1>14. CallInv(c)'
  <2>1. All(queue[c])' = {} /\ \A i \in Threads : ~ Busy(<<c, i>>)'
    BY <1>1, <1>7, <1>12, <1>13 DEF All, Of, Busy
  <2>2. QED BY <1>1, <1>2, <1>3, <1>5, <1>7, <1>8, <1>9, <1>11, <2>1 DEF CallInv
<1>15. QueueInv(c)'
  BY <1>1, <1>2, <1>3, <1>5, <1>7 DEF QueueInv
<1>16. Told(c)' = Told(c) /\ ToldInv(c)'
  BY <1>1, <1>2 DEF Told, ToldInv, Local
<1>17. \A j \in Threads : /\ FrameInv(<<c, j>>)' /\ Left(<<c, j>>)' = Left(<<c, j>>)
                          /\ Got(<<c, j>>)' = Got(<<c, j>>)
  <2> TAKE j \in Threads
  <2>1. FrameInv(<<c, j>>) /\ frame'[<<c, j>>] = frame[<<c, j>>] /\ exposed' = exposed
    BY <1>1, <1>2, <1>7 DEF Local
  <2>2. QED BY <1>13, <2>1, FrameStays
<1>18. Holds(c)' = Holds(c)
  BY <1>17 DEF Holds, Held
<1>19. PlaceInv(c)'
  <2>1. All(call[c].todo)' = All(call[c].todo) /\ All(queue[c])' = All(queue[c])
    <3>1. call'[c].todo = call[c].todo /\ queue' = queue
      BY <1>1, <1>3, <1>5
    <3>2. QED BY <3>1 DEF All, Of
  <2>2. Apart(call[c].todo)' /\ Apart(queue[c])'
    <3>1. call'[c].todo = call[c].todo /\ queue' = queue
      BY <1>1, <1>3, <1>5
    <3>2. QED BY <1>2, <3>1 DEF Apart, Of, PlaceInv
  <2>3. QED BY <1>2, <1>8, <1>9, <1>16, <1>18, <2>1, <2>2 DEF PlaceInv
<1>20. Local(c)'
  BY <1>14, <1>15, <1>16, <1>17, <1>19 DEF Local
<1>21. CountInv'
  <2>1. IsFiniteSet(ActiveCalls) /\ ref_count = Cardinality(ActiveCalls)
    BY <1>2 DEF CountInv
  <2>2. IsFiniteSet(ActiveCalls') /\ ref_count' = Cardinality(ActiveCalls')
    BY <1>1, <1>6, <2>1, FS_RemoveElement
  <2>3. \A e \in Engines : Inside(e)' = Inside(e)
    BY <1>7 DEF Inside
  <2>4. QED BY <1>2, <1>7, <2>2, <2>3 DEF CountInv
<1>22. cancel \in [Cancels -> CancelAt] /\ cancel' \in [Cancels -> CancelAt]
       /\ \A k \in Cancels : cancel'[k] = cancel[k] \/ (cancel[k] = "wait" /\ cancel'[k] = "woken")
  <2>1. cancel \in [Cancels -> CancelAt]
    BY CancelTyped
  <2>2. QED BY <1>1, <2>1 DEF CancelAt
<1>23. TypeOK'
  <2>1. ref_count' \in Nat
    BY <1>21, FS_CardinalityType DEF CountInv
  <2>2. QED BY <1>1, <1>5, <1>7, <1>8, <1>22, <2>1 DEF IInv, TypeOK, EngineTypeOK, CallRec
<1>24. CancelInv'
  <2>1. \A k \in Cancels : cancel[k] \in Live => cancel'[k] \in Live
    BY <1>22 DEF Live
  <2>2. cancelling' => \E k \in Cancels : cancel'[k] \in Live
    BY <1>1, <1>2, <2>1 DEF CancelInv
  <2>3. \A k \in Cancels, e \in Engines :
           task'[<<k, e>>] \notin {"none", "done"} => cancel'[k] \notin {"new", "lock", "done"}
    BY <1>2, <1>7, <1>22 DEF CancelInv
  <2>4. \A k \in Cancels, e \in Engines :
           cancel'[k] \in {"new", "lock"} \/ e \notin ToSet(RoutingTable) => task'[<<k, e>>] = "none"
    BY <1>2, <1>7, <1>22 DEF CancelInv
  <2>5. ActiveCancels' # {} => ActiveCancels # {}
    BY <1>22 DEF ActiveCancels
  <2>6. ActiveCancels' # {} => ActiveCalls' \subseteq exposed'
    BY <1>1, <1>2, <1>6, <2>5 DEF CancelInv
  <2>7. QED BY <1>2, <1>7, <2>2, <2>3, <2>4, <2>6 DEF CancelInv
<1>25. \A d \in Calls : d # c => SameCall(d)
  BY <1>1, <1>5, <1>7 DEF SameCall
<1>26. QED BY <1>1, <1>20, <1>21, <1>23, <1>24, <1>25, CallStepIInv

\* A thread of the pool takes an item off the queue.
LEMMA PopQueue ==
  ASSUME IInv, NEW w \in Workers, WorkerPop(w)
  PROVE  LET c == w[1]
             b == Head(queue[c])
             t == Tail(queue[c])
         IN  /\ c \in Calls /\ c \in ActiveCalls /\ c \in ActiveCalls' /\ Local(c)
             /\ w[2] \in Threads /\ w = <<c, w[2]>>
             /\ pattern # "serial_all" /\ frame[w].at = "idle"
             /\ queue' \in [Calls -> Queues] /\ queue'[c] = t
             /\ \A d \in Calls : d # c => queue'[d] = queue[d]
             /\ b \in Items \union {Shutdown} /\ Apart(t) /\ Apart(queue[c])
             /\ All(queue[c]) = Of(b) \union All(t) /\ Of(b) \cap All(t) = {}
             /\ b # Shutdown => Distinct(b.queries)
             /\ \A i \in 1 .. Len(t) : t[i] = queue[c][i + 1] /\ i + 1 \in 1 .. Len(queue[c]) /\ 1 < i + 1
             /\ 1 \in 1 .. Len(queue[c]) /\ b = queue[c][1] /\ Len(t) \in Nat
             /\ call' = call /\ exposed' = exposed
             /\ Asked(c)' = Asked(c) /\ PoolSize(c)' = PoolSize(c) /\ pattern' = pattern /\ input' = input
<1> DEFINE c == w[1]
           b == Head(queue[c])
           t == Tail(queue[c])
           S == Items \union {Shutdown}
<1>1. /\ pattern # "serial_all" /\ frame[w].at = "idle" /\ queue[c] # <<>>
      /\ queue' = [queue EXCEPT ![c] = Tail(queue[c])]
      /\ UNCHANGED inputs /\ call' = call /\ exposed' = exposed
  <2>1. queue \in [Calls -> Queues] /\ c \in Calls
    BY FrameTyped, CallTyped
  <2>2. QED BY <2>1 DEF WorkerPop
<1>2. /\ c \in Calls /\ w[2] \in Threads /\ w = <<c, w[2]>> /\ Local(c)
  BY FrameTyped
<1>3. /\ CallInv(c) /\ PlaceInv(c) /\ queue \in [Calls -> Queues] /\ queue[c] \in Seq(S)
      /\ call[c] \in CallRec
  BY <1>2, CallTyped DEF Local, Queues
<1> HIDE DEF c
<1>4. call[c].at \notin {"new", "done"}
  <2>1. call[c].at # "new"
    BY <1>1, <1>2, <1>3 DEF CallInv
  <2>2. call[c].at # "done"
    BY <1>1, <1>2, <1>3 DEF CallInv
  <2>3. QED BY <2>1, <2>2
<1>5. c \in ActiveCalls /\ c \in ActiveCalls'
  BY <1>1, <1>2, <1>4 DEF ActiveCalls
<1>6. /\ b \in S /\ t \in Seq(S) /\ Apart(t) /\ Apart(queue[c])
      /\ All(queue[c]) = Of(b) \union All(t) /\ Of(b) \cap All(t) = {}
      /\ b # Shutdown => Distinct(b.queries)
  <2>1. Apart(queue[c])
    BY <1>3 DEF PlaceInv
  <2> HIDE DEF S
  <2>2. QED BY <1>1, <1>3, <2>1, TailAll
<1>7. /\ \A i \in 1 .. Len(t) : t[i] = queue[c][i + 1] /\ i + 1 \in 1 .. Len(queue[c]) /\ 1 < i + 1
      /\ 1 \in 1 .. Len(queue[c]) /\ b = queue[c][1] /\ Len(t) \in Nat
  <2> HIDE DEF S
  <2>1. /\ Len(queue[c]) \in Nat /\ Len(queue[c]) > 0 /\ b = queue[c][1]
        /\ Len(t) = Len(queue[c]) - 1 /\ \A i \in 1 .. Len(queue[c]) - 1 : t[i] = queue[c][i + 1]
    BY <1>1, <1>3, HeadTailProperties
  <2> HIDE DEF t, b
  <2>2. QED BY <2>1
<1> HIDE DEF t, b
<1>8. /\ queue' \in [Calls -> Queues] /\ queue'[c] = t /\ \A d \in Calls : d # c => queue'[d] = queue[d]
  BY <1>1, <1>2, <1>3, <1>6 DEF Queues, t
<1>9. Asked(c)' = Asked(c) /\ PoolSize(c)' = PoolSize(c) /\ pattern' = pattern /\ input' = input
  BY <1>1, SameInputs
<1>10. QED BY <1>1, <1>2, <1>5, <1>6, <1>7, <1>8, <1>9 DEF c, t, b

LEMMA WorkerPopIInv ==
  ASSUME IInv, NEW w \in Workers, WorkerPop(w)
  PROVE  IInv'
<1> DEFINE c == w[1]
           i == w[2]
           b == Head(queue[c])
           t == Tail(queue[c])
<1>1. /\ c \in Calls /\ c \in ActiveCalls /\ c \in ActiveCalls' /\ Local(c)
      /\ i \in Threads /\ w = <<c, i>> /\ pattern # "serial_all" /\ frame[w].at = "idle"
      /\ queue' \in [Calls -> Queues] /\ queue'[c] = t
      /\ \A d \in Calls : d # c => queue'[d] = queue[d]
      /\ b \in Items \union {Shutdown} /\ Apart(t) /\ Apart(queue[c])
      /\ All(queue[c]) = Of(b) \union All(t) /\ Of(b) \cap All(t) = {}
      /\ b # Shutdown => Distinct(b.queries)
      /\ \A j \in 1 .. Len(t) : t[j] = queue[c][j + 1] /\ j + 1 \in 1 .. Len(queue[c]) /\ 1 < j + 1
      /\ 1 \in 1 .. Len(queue[c]) /\ b = queue[c][1] /\ Len(t) \in Nat
      /\ call' = call /\ exposed' = exposed
      /\ Asked(c)' = Asked(c) /\ PoolSize(c)' = PoolSize(c) /\ pattern' = pattern /\ input' = input
  BY PopQueue
<1>2. /\ IF b = Shutdown THEN frame' = [frame EXCEPT ![w].at = "exited"] /\ delivered' = delivered
                         ELSE Start(w, b, b.cancelled)
      /\ UNCHANGED <<inputs, ref_count, cancelling, mutex, call, cancel, exposed,
                     execute_ref_count, cancellation_state, state_mutex, planner_state,
                     in_progress, task>>
  BY DEF WorkerPop
<1>3. /\ CallInv(c) /\ QueueInv(c) /\ PlaceInv(c) /\ ToldInv(c) /\ FrameInv(w)
      /\ call \in [Calls -> CallRec] /\ delivered \in DeliveredType /\ frame \in [Workers -> FrameRec]
      /\ frame[w] \in FrameRec /\ task \in [Cancels \X Engines -> TaskAt]
  BY <1>1, CallTyped, CancelTyped, FrameTyped DEF Local
<1>4. call[c].at \notin {"new", "done"}
  BY <1>1 DEF ActiveCalls
<1> HIDE DEF b, t, c, i
<1> DEFINE T == All(call[c].todo)
           Q == All(queue[c])
           A == Asked(c)
<1>5. Placed(T, Q, Told(c), Holds(c), A) /\ Found(T, Q, Told(c), Holds(c), A)
  BY <1>3, <1>4 DEF PlaceInv
<1> HIDE DEF T, Q, A
\* The thread moves on, and the rest follows.
<1>6. SUFFICES ASSUME frame' \in [Workers -> FrameRec], frame'[w].at \in {"idle", "enter", "exited"},
                      \A v \in Workers : v # w => frame'[v] = frame[v],
                      delivered' \in DeliveredType,
                      \A d \in Calls, x \in Pairs :
                        d # c => delivered'[<<d, x[1], x[2]>>] = delivered[<<d, x[1], x[2]>>],
                      \A e \in Engines : Inside(e)' = Inside(e),
                      ToldInv(c)', FrameInv(w)', QueueInv(c)',
                      \/ Told(c)' = Told(c) \union Of(b) /\ Left(w)' \union Got(w)' = {}
                      \/ Told(c)' = Told(c) /\ Left(w)' \union Got(w)' = Of(b)
               PROVE  IInv'
  <2>1. CASE b = Shutdown
    <3> DEFINE f == [frame[w] EXCEPT !.at = "exited"]
    <3>1. /\ f \in FrameRec /\ f.at = "exited" /\ f.eng = frame[w].eng /\ f.todo = frame[w].todo
          /\ f.results = frame[w].results
      BY <1>3 DEF FrameRec, FrameAt
    <3>2. frame' = [frame EXCEPT ![w] = f] /\ delivered' = delivered
      BY <1>2, <1>3, <2>1
    <3> HIDE DEF f
    <3>3. /\ frame' \in [Workers -> FrameRec] /\ frame'[w] = f
          /\ \A v \in Workers : v # w => frame'[v] = frame[v]
      BY <1>3, <3>1, <3>2
    <3>4. \A e \in Engines : Inside(e)' = Inside(e)
      BY <1>1, <3>1, <3>3 DEF Inside, InCall
    <3>5. Told(c)' = Told(c) /\ ToldInv(c)' /\ Of(b) = {}
      BY <1>1, <1>3, <2>1, <3>2 DEF Told, ToldInv, Of
    <3>6. ~ Busy(w)' /\ Left(w)' = {} /\ Got(w)' = {}
      BY <3>1, <3>3 DEF Busy, Left, Got
    <3>7. FrameInv(w)'
      BY <1>1, <1>3, <3>1, <3>3, <3>6 DEF FrameInv, Leaving
    <3>8. QueueInv(c)'
      <4>1. \A j \in 1 .. Len(t) : t[j] = Shutdown
        BY <1>1, <1>3, <2>1 DEF QueueInv
      <4>2. call[c].at \in {"join", "done"}
        BY <1>1, <1>3, <2>1 DEF QueueInv
      <4>3. QED BY <1>1, <4>1, <4>2 DEF QueueInv
    <3>9. QED BY <1>6, <3>1, <3>2, <3>3, <3>4, <3>5, <3>6, <3>7, <3>8, <1>3
  <2>2. CASE b # Shutdown
    <3>1. /\ b \in Items /\ b.eng \in Engines /\ b.queries \in Seq(QueryIds) /\ b.cancelled \in BOOLEAN
          /\ Distinct(b.queries) /\ (b.cancelled => c \in exposed) /\ Start(<<c, i>>, b, b.cancelled)
      BY <1>1, <1>2, <1>3, <2>2 DEF Items, QueueInv
    <3>2. Of(b) \cap Told(c) = {}
      BY <1>1, <1>5 DEF Placed, Q
    <3>3. frame[<<c, i>>].at \in {"none", "idle"}
      BY <1>1
    <3>4. /\ frame' \in [Workers -> FrameRec] /\ frame'[<<c, i>>].at \in {"idle", "enter"}
          /\ \A v \in Workers : v # <<c, i>> => frame'[v] = frame[v]
          /\ delivered' \in DeliveredType
          /\ \A d \in Calls, x \in Pairs :
               d # c => delivered'[<<d, x[1], x[2]>>] = delivered[<<d, x[1], x[2]>>]
          /\ \A e \in Engines : Inside(e)' = Inside(e)
          /\ ToldInv(c)' /\ FrameInv(<<c, i>>)'
          /\ \/ Told(c)' = Told(c) \union Of(b) /\ Left(<<c, i>>)' \union Got(<<c, i>>)' = {}
             \/ Told(c)' = Told(c) /\ Left(<<c, i>>)' \union Got(<<c, i>>)' = Of(b)
      BY <1>1, <2>2, <3>1, <3>2, <3>3, StartThread
    <3>5. QueueInv(c)'
      <4>1. \A j \in Threads : frame[<<c, j>>].at # "exited"
        BY <1>1, <1>3, <2>2 DEF QueueInv
      <4>2. \A j \in Threads : frame'[<<c, j>>].at # "exited"
        BY <1>1, <3>4, <4>1, WorkersAreThreads
      <4>3. \A j, k \in 1 .. Len(t) : j < k /\ t[j] = Shutdown => t[k] = Shutdown
        <5> SUFFICES ASSUME NEW j \in 1 .. Len(t), NEW k \in 1 .. Len(t), j < k, t[j] = Shutdown
                     PROVE  t[k] = Shutdown
          OBVIOUS
        <5>1. /\ j + 1 \in 1 .. Len(queue[c]) /\ k + 1 \in 1 .. Len(queue[c]) /\ j + 1 < k + 1
              /\ queue[c][j + 1] = Shutdown
          BY <1>1
        <5>2. queue[c][k + 1] = Shutdown
          BY <1>3, <5>1 DEF QueueInv
        <5>3. QED BY <1>1, <5>2
      <4>4. (\E j \in 1 .. Len(t) : t[j] = Shutdown) => call[c].at \in {"join", "done"}
        BY <1>1, <1>3 DEF QueueInv
      <4>5. \A j \in 1 .. Len(t) : t[j] # Shutdown /\ t[j].cancelled => c \in exposed
        BY <1>1, <1>3 DEF QueueInv
      <4>6. QED BY <1>1, <4>2, <4>3, <4>4, <4>5 DEF QueueInv
    <3>6. QED BY <1>1, <1>6, <3>4, <3>5
  <2>3. QED BY <2>1, <2>2
<1>7. /\ \A j \in Threads : FrameInv(<<c, j>>)'
      /\ \A j \in Threads : j # i => /\ frame'[<<c, j>>] = frame[<<c, j>>]
                                     /\ Holds(c)'[j] = Holds(c)[j]
      /\ Holds(c)'[i] = Left(<<c, i>>)' \union Got(<<c, i>>)'
      /\ Holds(c)[i] = Left(<<c, i>>) \union Got(<<c, i>>)
  BY <1>1, <1>6, OtherThreads
<1>8. Holds(c)[i] = {}
  BY <1>1, <1>7 DEF Left, Got, Busy
<1>9. CallInv(c)'
  <2>1. \A j \in Threads : frame'[<<c, j>>].at # "none" => frame[<<c, j>>].at # "none"
    BY <1>1, <1>7
  <2>2. QED BY <1>1, <1>3, <1>4, <2>1 DEF CallInv
<1>10. PlaceInv(c)'
  <2> DEFINE R == Told(c)'
             K == Holds(c)'
             H == Holds(c)
  <2>1. /\ H[i] = {} /\ \A j \in Threads : j # i => K[j] = H[j]
        /\ (R = Told(c) \union Of(b) /\ K[i] = {}) \/ (R = Told(c) /\ K[i] = Of(b))
    BY <1>1, <1>6, <1>7, <1>8
  <2> HIDE DEF R, K, H
  <2>2. Placed(Q, T, Told(c), H, A) /\ Found(Q, T, Told(c), H, A)
    BY <1>5, PlacesSwap DEF H
  <2>3. Placed(All(t), T, R, K, A) /\ Found(All(t), T, R, K, A)
    <3>1. LeavesFor(Of(b), Q, All(t), Told(c), R, H, K, i)
      BY <1>1, <2>1 DEF LeavesFor, Q
    <3>2. QED BY <1>1, <2>2, <3>1, MoveOn
  <2>4. Placed(T, All(t), R, K, A) /\ Found(T, All(t), R, K, A)
    BY <2>3, PlacesSwap
  <2>5. /\ All(call[c].todo)' = T /\ All(queue[c])' = All(t)
        /\ Apart(call[c].todo)' /\ Apart(queue[c])'
    BY <1>1, <1>3 DEF All, Of, Apart, PlaceInv, T
  <2>6. QED BY <1>1, <2>4, <2>5 DEF PlaceInv, R, K, A
<1>11. Local(c)'
  BY <1>6, <1>7, <1>9, <1>10 DEF Local
<1>12. /\ call' \in [Calls -> CallRec] /\ \A v \in Workers : v[1] # c => frame'[v] = frame[v]
       /\ \A d \in Calls : d # c => call'[d] = call[d]
  BY <1>1, <1>3, <1>6 DEF c
<1>13. QED BY <1>1, <1>2, <1>3, <1>6, <1>11, <1>12, StepInCall

LEMMA WorkerReturnIInv ==
  ASSUME IInv, NEW w \in Workers, WorkerReturn(w)
  PROVE  IInv'
<1> DEFINE c == w[1]
           i == w[2]
           e == frame[w].eng
           R == frame[w].results
<1>1. /\ frame[w].at \in {"wake", "return"} /\ frame' = [frame EXCEPT ![w] = Idle]
      /\ Deliver(c, e, R)
      /\ task' = IF frame[w].at = "return" THEN task
                 ELSE [x \in DOMAIN task |->
                        IF x[2] = e /\ task[x] = "wait" THEN "woken" ELSE task[x]]
      /\ UNCHANGED <<inputs, ref_count, cancelling, mutex, call, queue, cancel, exposed,
                     execute_ref_count, cancellation_state, state_mutex, planner_state, in_progress>>
  BY DEF WorkerReturn, SignalCompletion, Eng
<1>2. /\ c \in Calls /\ i \in Threads /\ w = <<c, i>> /\ Local(c) /\ FrameInv(w)
      /\ frame \in [Workers -> FrameRec] /\ frame[w] \in FrameRec
  BY FrameTyped
<1>3. /\ CallInv(c) /\ QueueInv(c) /\ PlaceInv(c) /\ ToldInv(c)
      /\ call \in [Calls -> CallRec] /\ queue \in [Calls -> Queues] /\ delivered \in DeliveredType
      /\ task \in [Cancels \X Engines -> TaskAt]
  BY <1>2, CallTyped, CancelTyped DEF Local
<1>4. Busy(w) /\ frame[w].todo = <<>> /\ e \in Engines /\ c \in ActiveCalls /\ c \in ActiveCalls'
  BY <1>1, <1>2 DEF Busy, FrameInv, ActiveCalls, Leaving
<1>5. Left(w) = {} /\ Got(w) = Results(e, R)
  BY <1>4, NothingAll DEF Left, Got, Results
<1>6. /\ \A q \in QueryIds : <<q, "done">> \in R => q \in PlansOf[e] /\ <<q, "cancelled">> \notin R
      /\ \A q \in QueryIds : <<q, "cancelled">> \in R => c \in exposed
  BY <1>2 DEF FrameInv
<1>7. Asked(c)' = Asked(c) /\ PoolSize(c)' = PoolSize(c) /\ pattern' = pattern /\ input' = input
  BY <1>1, SameInputs
<1>8. /\ frame' \in [Workers -> FrameRec] /\ frame'[w] = Idle
      /\ \A v \in Workers : v # w => frame'[v] = frame[v]
  BY <1>1, <1>2, IdleTyped
<1>9. FrameInv(w)' /\ Left(w)' = {} /\ Got(w)' = {}
  BY <1>8, IdleTyped, IdleThread
<1>10. \A d \in Engines : Inside(d)' = Inside(d)
  BY <1>1, <1>8, IdleTyped DEF Inside, InCall
<1>11. /\ task' \in [Cancels \X Engines -> TaskAt]
       /\ \A k \in Cancels, d \in Engines :
            \/ task'[<<k, d>>] = task[<<k, d>>]
            \/ task[<<k, d>>] = "wait" /\ task'[<<k, d>>] = "woken"
  <2>1. CASE frame[w].at = "return"
    BY <1>1, <1>3, <2>1
  <2>2. CASE frame[w].at # "return"
    <3>1. task' = [x \in Cancels \X Engines |-> IF x[2] = e /\ task[x] = "wait" THEN "woken" ELSE task[x]]
      BY <1>1, <1>3, <2>2
    <3>2. QED BY <1>3, <3>1 DEF TaskAt
  <2>3. QED BY <2>1, <2>2
<1> HIDE DEF c, i, e, R
<1>12. /\ \A j \in Threads : FrameInv(<<c, j>>)'
       /\ \A j \in Threads : j # i => /\ frame'[<<c, j>>] = frame[<<c, j>>]
                                      /\ Holds(c)'[j] = Holds(c)[j]
       /\ Holds(c)'[i] = Left(<<c, i>>)' \union Got(<<c, i>>)'
       /\ Holds(c)[i] = Left(<<c, i>>) \union Got(<<c, i>>)
  <2>1. exposed' = exposed
    BY <1>1
  <2>2. QED BY <1>2, <1>4, <1>8, <1>9, <2>1, OtherThreads
<1>13. Holds(c)'[i] = {} /\ Holds(c)[i] = Results(e, R)
  BY <1>2, <1>5, <1>9, <1>12
<1> DEFINE T == All(call[c].todo)
           Q == All(queue[c])
           A == Asked(c)
<1>14. Placed(T, Q, Told(c), Holds(c), A) /\ Found(T, Q, Told(c), Holds(c), A)
  BY <1>3, <1>4 DEF PlaceInv, ActiveCalls
<1> HIDE DEF T, Q, A
<1>15. Results(e, R) \cap Told(c) = {}
  BY <1>2, <1>13, <1>14 DEF Placed
<1>16. /\ delivered' \in DeliveredType
       /\ \A d \in Calls, x \in Pairs : d # c => delivered'[<<d, x[1], x[2]>>] = delivered[<<d, x[1], x[2]>>]
       /\ \A x \in Pairs : x \notin Results(e, R) => delivered'[<<c, x[1], x[2]>>] = delivered[<<c, x[1], x[2]>>]
       /\ \A x \in Results(e, R) : /\ delivered'[<<c, x[1], x[2]>>] \in Statuses
                                   /\ <<x[2], delivered'[<<c, x[1], x[2]>>]>> \in R
       /\ Told(c)' = Told(c) \union Results(e, R)
  <2>1. \A q \in QueryIds : ~ (<<q, "done">> \in R /\ <<q, "cancelled">> \in R)
    BY <1>6
  <2>2. QED BY <1>1, <1>2, <1>3, <1>4, <1>15, <2>1, DeliverTells
<1>17. ToldInv(c)'
  <2> SUFFICES ASSUME NEW x \in Pairs
               PROVE  LET d == delivered'[<<c, x[1], x[2]>>]
                      IN  d # "twice" /\ (d = "done" => x \in Planned) /\ (d = "cancelled" => c \in exposed)
    BY <1>1 DEF ToldInv
  <2>1. CASE x \in Results(e, R)
    <3>1. x[1] = e /\ x[2] \in QueryIds
      BY <2>1 DEF Results, Pairs
    <3>2. /\ delivered'[<<c, x[1], x[2]>>] \in Statuses
          /\ <<x[2], delivered'[<<c, x[1], x[2]>>]>> \in R
      BY <1>16, <2>1
    <3>3. QED BY <1>6, <3>1, <3>2 DEF Statuses, Planned
  <2>2. CASE x \notin Results(e, R)
    BY <1>3, <1>16, <2>2 DEF ToldInv
  <2>3. QED BY <2>1, <2>2
<1>18. PlaceInv(c)'
  <2> DEFINE D == Told(c)'
             K == Holds(c)'
             H == Holds(c)
  <2>1. GivesBack(Told(c), D, H, K, i)
    BY <1>12, <1>13, <1>16 DEF GivesBack
  <2> HIDE DEF D, K, H
  <2>2. Placed(T, Q, Told(c), H, A) /\ Found(T, Q, Told(c), H, A)
    BY <1>14 DEF H
  <2>3. Placed(T, Q, D, K, A) /\ Found(T, Q, D, K, A)
    BY <1>2, <2>1, <2>2, MoveFromThread
  <2>4. /\ All(call[c].todo)' = T /\ All(queue[c])' = Q
        /\ Apart(call[c].todo)' /\ Apart(queue[c])'
    BY <1>1, <1>3 DEF All, Of, Apart, PlaceInv, T, Q
  <2>5. QED BY <1>7, <2>3, <2>4 DEF PlaceInv, D, K, A
<1>19. CallInv(c)'
  <2>1. call[c].at \notin {"new", "done"} /\ call' = call /\ queue' = queue /\ exposed' = exposed
    BY <1>1, <1>4 DEF ActiveCalls
  <2>2. \A j \in Threads : frame'[<<c, j>>].at # "none" => frame[<<c, j>>].at # "none"
    BY <1>1, <1>2, <1>12
  <2>3. pattern = "serial_all" => i = 1 /\ call[c].at = "serial"
    BY <1>1, <1>2, <1>3 DEF CallInv
  <2>4. pattern = "serial_all" => \A j \in Threads : j # 1 => frame'[<<c, j>>].at = "none"
    BY <1>3, <1>12, <2>3 DEF CallInv
  <2>5. QED BY <1>3, <1>7, <2>1, <2>2, <2>3, <2>4 DEF CallInv
<1>20. QueueInv(c)'
  <2>1. \A j \in Threads : frame'[<<c, j>>].at = "exited" => frame[<<c, j>>].at = "exited"
    BY <1>2, <1>8, <1>12, IdleTyped
  <2>2. QED BY <1>1, <1>3, <2>1 DEF QueueInv
<1>21. Local(c)'
  BY <1>12, <1>17, <1>18, <1>19, <1>20 DEF Local
<1>22. \A v \in Workers : v[1] # c => frame'[v] = frame[v]
  BY <1>8 DEF c
<1>23. QED BY <1>1, <1>3, <1>4, <1>8, <1>10, <1>11, <1>16, <1>21, <1>22, StepInCall

LEMMA CallBeginIInv ==
  ASSUME IInv, NEW c \in Calls, CallBegin(c)
  PROVE  IInv'
<1> DEFINE r == [call[c] EXCEPT !.at = "schedule", !.todo = BatchesOf(c)]
<1>1. /\ call[c].at = "new" /\ c \in DOMAIN input.calls /\ ref_count' = ref_count + 1
      /\ call' = [call EXCEPT ![c].at = "schedule", ![c].todo = BatchesOf(c)]
      /\ frame' = [w \in Workers |-> IF w \in Pool(c) THEN Idle ELSE frame[w]]
      /\ exposed' = IF ActiveCancels = {} THEN exposed ELSE exposed \union {c}
      /\ UNCHANGED <<inputs, cancelling, mutex, queue, delivered, cancel,
                     execute_ref_count, cancellation_state, state_mutex, planner_state,
                     in_progress, task>>
  BY DEF CallBegin
<1>2. /\ call \in [Calls -> CallRec] /\ call[c] \in CallRec /\ queue \in [Calls -> Queues]
      /\ delivered \in DeliveredType /\ frame \in [Workers -> FrameRec] /\ exposed \subseteq Calls
      /\ Local(c) /\ CallInv(c) /\ ToldInv(c) /\ CancelInv /\ CountInv
      /\ input \in Inputs /\ pattern \in input.patterns
  BY CallTyped DEF Local
<1>3. /\ call[c].todo = <<>> /\ queue[c] = <<>> /\ Told(c) = {} /\ call[c].cancelled = FALSE
      /\ \A i \in Threads : frame[<<c, i>>].at = "none"
  BY <1>1, <1>2, CallRecTyped DEF CallInv
<1>4. BatchesOf(c) \in Seq(Batches) /\ Apart(BatchesOf(c)) /\ All(BatchesOf(c)) = Asked(c)
  BY <1>1, <1>2, BatchesCover DEF Covers
<1>5. /\ PoolSize(c) \in Nat /\ PoolSize(c) <= MaxThreads
      /\ pattern = "serial_all" => PoolSize(c) = 0
  BY <1>1, <1>2, PoolIsLargeEnough
<1>6. r \in CallRec /\ r.at = "schedule" /\ r.todo = BatchesOf(c) /\ r.cancelled = FALSE
  BY <1>2, <1>3, <1>4 DEF CallRec, CallAt
<1>7. call' = [call EXCEPT ![c] = r]
  BY <1>1, <1>2
<1> HIDE DEF r
<1>8. call' \in [Calls -> CallRec] /\ call'[c] = r /\ \A d \in Calls : d # c => call'[d] = call[d]
  BY <1>2, <1>6, <1>7
<1>9. c \notin ActiveCalls /\ c \in ActiveCalls' /\ ActiveCalls' = ActiveCalls \union {c}
  BY <1>1, <1>6, <1>8 DEF ActiveCalls
<1>10. Asked(c)' = Asked(c) /\ PoolSize(c)' = PoolSize(c) /\ pattern' = pattern /\ input' = input
  BY <1>1, SameInputs
<1>11. exposed \subseteq exposed' /\ exposed' \subseteq Calls
  BY <1>1, <1>2
<1>12. /\ frame' \in [Workers -> FrameRec]
       /\ \A w \in Workers : w[1] # c => frame'[w] = frame[w]
       /\ \A j \in Threads : frame'[<<c, j>>] = IF j \in 1 .. PoolSize(c) THEN Idle ELSE frame[<<c, j>>]
  <2>1. frame' \in [Workers -> FrameRec]
    BY <1>1, <1>2, IdleTyped
  <2>2. \A w \in Workers : w \in Pool(c) => w[1] = c
    BY DEF Pool
  <2>3. \A j \in Threads : <<c, j>> \in Pool(c) <=> j \in 1 .. PoolSize(c)
    BY DEF Pool
  <2>4. QED BY <1>1, <2>1, <2>2, <2>3, WorkersAreThreads
<1>13. \A j \in Threads : /\ FrameInv(<<c, j>>)' /\ ~ Busy(<<c, j>>)' /\ Left(<<c, j>>)' = {}
                          /\ Got(<<c, j>>)' = {} /\ frame'[<<c, j>>].at \in {"none", "idle"}
  <2> TAKE j \in Threads
  <2>1. CASE j \in 1 .. PoolSize(c)
    <3>1. frame'[<<c, j>>] = Idle
      BY <1>12, <2>1
    <3>2. QED BY <3>1, IdleTyped, IdleThread
  <2>2. CASE j \notin 1 .. PoolSize(c)
    <3>1. frame'[<<c, j>>] = frame[<<c, j>>] /\ FrameInv(<<c, j>>) /\ ~ Busy(<<c, j>>)
      BY <1>2, <1>3, <1>12, <2>2 DEF Local, Busy
    <3>2. Left(<<c, j>>) = {} /\ Got(<<c, j>>) = {}
      BY <3>1 DEF Left, Got
    <3>3. QED BY <1>3, <1>11, <3>1, <3>2, FrameStays
  <2>3. QED BY <2>1, <2>2
<1>14. CallInv(c)'
  <2>1. pattern = "serial_all" => \A j \in Threads : frame'[<<c, j>>].at = "none"
    BY <1>3, <1>5, <1>12
  <2>2. \A j \in Threads : frame'[<<c, j>>].at # "none" => j <= PoolSize(c)
    BY <1>3, <1>12
  <2>3. QED BY <1>1, <1>3, <1>6, <1>8, <1>10, <2>1, <2>2, WorkersAreThreads DEF CallInv
<1>15. QueueInv(c)'
  <2>1. queue'[c] = <<>> /\ Len(<<>>) = 0 /\ 1 .. 0 = {}
    BY <1>1, <1>3
  <2>2. \A j \in Threads : frame'[<<c, j>>].at # "exited"
    BY <1>13
  <2>3. QED BY <2>1, <2>2 DEF QueueInv
<1>16. Told(c)' = {} /\ ToldInv(c)'
  BY <1>1, <1>2, <1>3, <1>11 DEF Told, ToldInv
<1>17. PlaceInv(c)'
  <2>1. \A j \in Threads : Holds(c)'[j] = {}
    BY <1>13 DEF Holds, Held
  <2>2. Placed(Asked(c), {}, {}, Holds(c)', Asked(c)) /\ Found(Asked(c), {}, {}, Holds(c)', Asked(c))
    BY <2>1 DEF Placed, Found
  <2>3. call'[c].todo = BatchesOf(c) /\ queue'[c] = <<>>
    BY <1>1, <1>3, <1>6, <1>8
  <2>4. All(call[c].todo)' = Asked(c) /\ All(queue[c])' = {} /\ Apart(call[c].todo)' /\ Apart(queue[c])'
    <3>1. All(call[c].todo)' = All(call'[c].todo) /\ All(queue[c])' = All(queue'[c])
      BY DEF All, Of
    <3>2. (Apart(call[c].todo)' <=> Apart(call'[c].todo)) /\ (Apart(queue[c])' <=> Apart(queue'[c]))
      BY DEF Apart, Of
    <3>3. QED BY <1>4, <2>3, <3>1, <3>2, NothingAll
  <2>5. QED BY <1>10, <1>16, <2>2, <2>4 DEF PlaceInv
<1>18. Local(c)'
  BY <1>13, <1>14, <1>15, <1>16, <1>17 DEF Local
<1>19. CountInv'
  <2>1. IsFiniteSet(ActiveCalls) /\ ref_count = Cardinality(ActiveCalls)
    BY <1>2 DEF CountInv
  <2>2. IsFiniteSet(ActiveCalls') /\ ref_count' = Cardinality(ActiveCalls')
    BY <1>1, <1>9, <2>1, FS_AddElement
  <2>3. \A w \in Workers : frame'[w] = frame[w] \/ (frame[w].at \notin InCall /\ frame'[w].at \notin InCall)
    <3> TAKE w \in Workers
    <3>1. w[2] \in Threads /\ w = <<w[1], w[2]>>
      BY WorkersAreThreads
    <3>2. CASE w[1] = c
      <4>1. frame[w].at = "none" /\ frame'[w].at \in {"none", "idle"}
        BY <1>3, <1>13, <3>1, <3>2
      <4>2. QED BY <4>1 DEF InCall
    <3>3. CASE w[1] # c
      BY <1>12, <3>3
    <3>4. QED BY <3>2, <3>3
  <2>4. \A e \in Engines : Inside(e)' = Inside(e)
    BY <2>3 DEF Inside
  <2>5. QED BY <1>1, <1>2, <2>2, <2>4 DEF CountInv
<1>20. CancelInv'
  <2>1. ActiveCancels' = ActiveCancels
    BY <1>1 DEF ActiveCancels
  <2>2. ActiveCancels' # {} => ActiveCalls' \subseteq exposed'
    BY <1>1, <1>2, <1>9, <2>1 DEF CancelInv
  <2>3. QED BY <1>1, <1>2, <2>2 DEF CancelInv
<1>21. TypeOK'
  <2>1. ref_count' \in Nat
    BY <1>19, FS_CardinalityType DEF CountInv
  <2>2. QED BY <1>1, <1>8, <1>10, <1>11, <1>12, <2>1 DEF IInv, TypeOK, EngineTypeOK, CallRec, FrameRec
<1>22. \A d \in Calls : d # c => SameCall(d)
  <2> SUFFICES ASSUME NEW d \in Calls, d # c PROVE SameCall(d)
    OBVIOUS
  <2>1. \A j \in Threads : <<d, j>> \in Workers /\ <<d, j>>[1] = d
    BY WorkersAreThreads
  <2>2. QED BY <1>1, <1>8, <1>12, <2>1 DEF SameCall
<1>23. QED BY <1>1, <1>11, <1>18, <1>19, <1>20, <1>21, <1>22, CallStepIInv

-----------------------------------------------------------------------------
(* The theorems.                                                             *)

LEMMA NextIInv == IInv /\ [Next]_vars => IInv'
<1> SUFFICES ASSUME IInv, [Next]_vars PROVE IInv'
  OBVIOUS
<1>1. CASE UNCHANGED vars
  <2>1. UNCHANGED <<pattern, input, ref_count, cancelling, mutex, call, queue, delivered, cancel,
                    exposed, execute_ref_count, cancellation_state, state_mutex, planner_state,
                    in_progress, frame, task>>
    BY <1>1 DEF vars, engineVars, routerVars
  <2>2. TypeOK' /\ CancelInv'
    BY <2>1 DEF IInv, TypeOK, EngineTypeOK, CancelInv, ActiveCalls, ActiveCancels
  <2>3. QED BY <2>1, <2>2, CancelStepIInv
<1>2. CASE \E c \in Calls : CallBegin(c)
  BY <1>2, CallBeginIInv
<1>3. CASE \E k \in Cancels : CancelCheck(k)
  BY <1>3, CancelCheckIInv
<1>4. CASE \E c \in Calls : CallStep(c)
  BY <1>4, CallRunIInv, CallSkipIInv, CallContinueIInv, CallScheduleIInv, CallShutdownIInv,
     CallLeaveIInv DEF CallStep
<1>5. CASE \E w \in Workers : WorkerStep(w)
  BY <1>5, WorkerPopIInv, WorkerReturnIInv, RunStepIInv DEF WorkerStep
<1>6. CASE \E k \in Cancels : CancelStep(k)
  BY <1>6, CancelStepsIInv
<1>7. CASE \E k \in Cancels, e \in Engines : CancelTaskStep(k, e)
  BY <1>7, TaskStepIInv DEF CancelTaskStep
<1>8. QED BY <1>1, <1>2, <1>3, <1>4, <1>5, <1>6, <1>7 DEF Next, Progress

LEMMA SpecIInv == Spec => []IInv
<1>1. QED BY InitIInv, NextIInv, PTL DEF Spec

\* Every variable of the router and of its engines stays within its type.
THEOREM TypeCorrect == Spec => []TypeOK
<1>1. IInv => TypeOK
  BY DEF IInv
<1>2. QED BY <1>1, SpecIInv, PTL

\* execute_ref_count_ of the router and of every engine counts exactly the
\* calls in progress, for any number of calls, engines and pool threads.
THEOREM CountsAreExact == Spec => []RefCountsAreExact
<1>1. IInv => RefCountsAreExact
  BY DEF IInv, CountInv, RefCountsAreExact, Inside
<1>2. QED BY <1>1, SpecIInv, PTL

\* When ExecuteQuery returns, its callback has got exactly one result for every
\* query it was asked that has a plan, and nothing it was not asked, in each of
\* the three patterns and wherever a cancellation falls.
THEOREM QueriesAreReported == Spec => []EveryQueryIsReported
<1>1. ASSUME IInv PROVE EveryQueryIsReported
  <2> SUFFICES ASSUME NEW c \in Calls, call[c].at = "done", NEW e \in Engines, NEW q \in QueryIds
               PROVE  LET asked == e \in ToSet(RoutingTable) /\ q \in ToSet(QueriesFor(c, e))
                      IN  delivered[<<c, e, q>>] \in IF ~ asked THEN {"none"}
                                                ELSE IF q \in PlansOf[e] THEN Statuses
                                                ELSE {"none", "cancelled"}
    BY DEF EveryQueryIsReported
  <2> DEFINE x == <<e, q>>
             d == delivered[<<c, e, q>>]
  <2>1. CallInv(c) /\ PlaceInv(c) /\ ToldInv(c) /\ delivered \in DeliveredType
    BY <1>1, CallTyped DEF Local
  <2>2. x \in Pairs /\ x[1] = e /\ x[2] = q /\ d \in Statuses \union {"none", "twice"}
    BY <2>1 DEF Pairs, DeliveredType
  <2>3. /\ d # "twice" /\ (d = "done" => x \in Planned)
        /\ (x \in Told(c) <=> d # "none")
    BY <2>1, <2>2 DEF ToldInv, Told
  <2>4. c \in DOMAIN input.calls /\ call[c].todo = <<>> /\ All(queue[c]) = {}
        /\ \A i \in Threads : ~ Busy(<<c, i>>)
    BY <2>1 DEF CallInv
  <2>5. \A i \in Threads : Holds(c)[i] = {}
    BY <2>4 DEF Holds, Held, Left, Got
  <2>6. x \in Asked(c) <=> e \in ToSet(RoutingTable) /\ q \in ToSet(QueriesFor(c, e))
    BY <2>2, <2>4 DEF Asked
  <2>7. x \in Planned <=> q \in PlansOf[e]
    BY <2>2 DEF Planned
  <2>8. x \in Told(c) => x \in Asked(c)
    BY <2>1 DEF PlaceInv, Placed
  <2>9. x \in Asked(c) /\ x \in Planned => x \in Told(c)
    BY <2>1, <2>4, <2>5, NothingAll DEF PlaceInv, Found
  <2> HIDE DEF x, d
  <2>10. d \in IF x \notin Asked(c) THEN {"none"}
              ELSE IF q \in PlansOf[e] THEN Statuses ELSE {"none", "cancelled"}
    BY <2>2, <2>3, <2>7, <2>8, <2>9 DEF Statuses
  <2>11. QED BY <2>6, <2>10 DEF d
<1>2. QED BY <1>1, SpecIInv, PTL

\* A cancellation leaves no trace: its flags are set only while a thread is
\* there to reset them, and only a call that overlaps it is told "cancelled".
THEOREM NoTraceLeft == Spec => []CancellationLeavesNoTrace
<1>1. ASSUME IInv PROVE CancellationLeavesNoTrace
  <2>1. CancelInv
    BY <1>1 DEF IInv
  <2>2. \A c \in Calls, e \in Engines, q \in QueryIds :
          delivered[<<c, e, q>>] = "cancelled" => c \in exposed
    <3> TAKE c \in Calls, e \in Engines, q \in QueryIds
    <3>1. ToldInv(c) /\ <<e, q>> \in Pairs /\ <<e, q>>[1] = e /\ <<e, q>>[2] = q
      BY <1>1 DEF IInv, Local, Pairs
    <3>2. QED BY <3>1 DEF ToldInv
  <2>3. QED BY <2>1, <2>2 DEF CancellationLeavesNoTrace, CancelInv, Live
<1>2. QED BY <1>1, SpecIInv, PTL
==============================================================================
