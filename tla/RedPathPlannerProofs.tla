------------------------ MODULE RedPathPlannerProofs ------------------------
(***************************************************************************)
(* Proofs about RedPathPlanner, for every query with a plan, every Redfish *)
(* tree, every pattern of failures and every content of the cache: the     *)
(* type invariant; that an execution implements QueryAnswer, that is,      *)
(* gives no answer the query does not have and, if it returns without an   *)
(* error, omits none it owes; that what a subquery with freshness REQUIRED *)
(* returns did not come from the cache; and that no answer is given twice  *)
(* unless it is come to by two ways.                                       *)
(*                                                                         *)
(* The plan (the trie) and the reference (the visits of a walk) are        *)
(* defined by recursion; what is needed of them is proved by way of a      *)
(* least counterexample.                                                   *)
(***************************************************************************)
EXTENDS RedPathPlanner, FiniteSetTheorems, SequenceTheorems, WellFoundedInduction,
        NaturalsInduction, TLAPS

-----------------------------------------------------------------------------
(* The inductive invariant. *)

\* A context stands for a visit of the reference.
Real(g, c) ==
  /\ VisitOf(c) \in AllVisits(g)
  /\ c.resource \in Resources
  /\ c.object <=> IsObject(c.resource)
  /\ c.iterable => c.object

\* The context a cancelled loop over members leaves behind.
Hollow(c) == c.resource = Absent /\ ~c.object /\ ~c.iterable

\* x was made by expression e in context c.
Born(g, c, e, x) ==
  /\ ~SubscribesTo(g, c.node, e)
  /\ x.resource \in Reached(g, VisitOf(c), e)
  /\ VisitOf([x EXCEPT !.node = Append(c.node, e)]) = Met(g, VisitOf(c), e, x.resource)
  /\ x.object <=> IsObject(x.resource)
  /\ x.raw <=> Kind[x.resource] = "raw"

\* Before the walk.
StartInv ==
  /\ at \in {"start", "root"} =>
       /\ node_queue = <<>> /\ result = <<>> /\ subscriptions = {} /\ uris = {} /\ contexts = <<>>
  /\ at = "root" => input.op # "resume"
  /\ at = "start" /\ input.op = "resume" =>
       context = [Response(NoContext, input.start[2], TRUE) EXCEPT !.raw = FALSE, !.node = input.start[1]]

\* A context that is none of the reference's is met only after an error.
InWalk(c) == Real(input, c) \/ (Hollow(c) /\ code # "none")

QueueInv == \A i \in DOMAIN node_queue : InWalk(node_queue[i])
ContextInv == at \in {"expression", "member", "deliver"} => InWalk(context)

\* The contexts an expression has made.
ContextsInv ==
  /\ at = "member" => context.iterable /\ expression.type = "predicate" /\ index # 0
  /\ at = "deliver" => contexts # <<>>
  /\ at \in {"member", "deliver"} =>
       \A i \in DOMAIN contexts :
         \/ Real(input, context) /\ Born(input, context, expression, contexts[i])
         \/ Hollow(contexts[i]) /\ ~contexts[i].raw /\ code # "none"

\* The URIs waiting to be subscribed to.
UrisInv ==
  at \in {"expression", "member", "deliver"} =>
    uris = {} \/ (Real(input, context) /\ uris \subseteq Pending(input, VisitOf(context)))

HistoryInv == possible = Possible(input) /\ owed = Owed(input)
AnswerInv == Answer \subseteq Possible(input)

\* Everything expression e owes in visit v has been given and queued.
Handled(g, answer, queued, v, e) == Gives(g, v, e) \subseteq answer /\ LeadsTo(g, v, e) \subseteq queued
AllHandled(g, answer, queued, v) ==
  \A e \in ChildExpressions(trie, v.node) : Handled(g, answer, queued, v, e)

\* The same for a resource that e reaches, and for the member at i.
Delivered(g, answer, queued, v, e, r) ==
  /\ Own(g, Met(g, v, e, r)) \subseteq answer
  /\ Further(g, Met(g, v, e, r)) \subseteq queued

MemberMet(i) ==
  LET r == Members[context.resource][i]
      v == VisitOf(context)
  IN  /\ SubscribesTo(input, context.node, expression) =>
           (r \in Collected(input, v, expression) => r \in uris)
      /\ ~SubscribesTo(input, context.node, expression) =>
           (r \in Reached(input, v, expression) => \E j \in DOMAIN contexts : contexts[j].resource = r)

Clean(g, c) == c = "none" /\ ~(g.mode = "fail" /\ MissingMember(g))

StartsInv ==
  at \notin {"start", "root"} =>
    \A u \in Starts(input) : Own(input, u) \subseteq Answer /\ Entered(input, u) \subseteq visited
VisitedInv ==
  at \in {"pop", "expression", "member", "deliver", "final"} =>
    \A v \in visited :
      \/ \E i \in DOMAIN node_queue : VisitOf(node_queue[i]) = v
      \/ at \in {"expression", "member", "deliver"} /\ v = VisitOf(context)
      \/ AllHandled(input, Answer, visited, v)
ExpressionsInv ==
  at \in {"expression", "member", "deliver"} =>
    \A e \in ChildExpressions(trie, context.node) \ todo :
      \/ at # "expression" /\ e = expression
      \/ Handled(input, Answer, visited, VisitOf(context), e)
MemberInv == at = "member" => \A i \in 1 .. index - 1 : i <= Len(Members[context.resource]) => MemberMet(i)
DeliverInv ==
  at = "deliver" =>
    \A r \in Reached(input, VisitOf(context), expression) :
      \/ Delivered(input, Answer, visited, VisitOf(context), expression, r)
      \/ \E j \in DOMAIN contexts : contexts[j].resource = r
FinalInv ==
  /\ at = "final" => node_queue = <<>>
  /\ at = "done" => Owed(input) \subseteq Answer

CompleteInv ==
  Clean(input, code) =>
    StartsInv /\ VisitedInv /\ ExpressionsInv /\ MemberInv /\ DeliverInv /\ FinalInv

SoundInv ==
  StartInv /\ QueueInv /\ ContextInv /\ ContextsInv /\ UrisInv /\ HistoryInv /\ AnswerInv

Inv == TypeOK /\ SoundInv /\ CompleteInv

-----------------------------------------------------------------------------
(* Numbers, and sequences put together. *)

\* A set of natural numbers has a least element.
LEMMA LeastNatural ==
  ASSUME NEW T, T \subseteq Nat, T # {}
  PROVE  \E x \in T : \A y \in T : x <= y
<1> DEFINE R == OpToRel(<, Nat)
<1>1. \A x, y \in Nat : x < y => <<x, y>> \in R
  BY DEF OpToRel
<1>2. IsWellFoundedOn(R, Nat)
  BY NatLessThanWellFounded
<1> HIDE DEF R
<1>3. PICK x \in T : \A y \in T : ~ (<<y, x>> \in R)
  BY <1>2, WFMin
<1>4. \A y \in T : ~ (y < x)
  BY <1>1, <1>3
<1>5. \A y \in T : x <= y
  BY <1>4
<1>6. QED BY <1>5

\* What the recursion in Concatenation defines.
IsWhole(f, parts, n) == f = [k \in 0 .. n |-> IF k = 0 THEN <<>> ELSE f[k - 1] \o parts[k]]

LEMMA WholeExists ==
  ASSUME NEW n \in Nat, NEW parts
  PROVE  \E f : IsWhole(f, parts, n)
<1> DEFINE Bad == {m \in Nat : ~ \E f : IsWhole(f, parts, m)}
<1>1. SUFFICES ASSUME Bad # {} PROVE FALSE
  BY <1>1
<1>2. PICK m \in Bad : \A k \in Bad : m <= k
  <2>1. Bad \subseteq Nat
    OBVIOUS
  <2> HIDE DEF Bad
  <2>2. QED BY <1>1, <2>1, LeastNatural
<1>3. CASE m = 0
  <2>1. IsWhole([k \in 0 .. 0 |-> <<>>], parts, 0)
    BY DEF IsWhole
  <2>2. QED BY <1>2, <1>3, <2>1
<1>4. CASE m # 0
  <2>1. m \in Nat /\ m - 1 \in Nat /\ m - 1 \notin Bad
    BY <1>2, <1>4
  <2>2. PICK l : IsWhole(l, parts, m - 1)
    BY <2>1
  <2> DEFINE f == [k \in 0 .. m |-> IF k = m THEN l[m - 1] \o parts[m] ELSE l[k]]
  <2>3. ASSUME NEW k \in 0 .. m
        PROVE  f[k] = IF k = 0 THEN <<>> ELSE f[k - 1] \o parts[k]
    <3>1. CASE k = m
      <4>1. f[k - 1] = l[m - 1]
        BY <2>1, <3>1
      <4>2. QED BY <1>4, <3>1, <4>1
    <3>2. CASE k # m
      <4>1. k \in 0 .. m - 1 /\ f[k] = l[k]
        BY <2>1, <3>2
      <4>2. CASE k = 0
        BY <2>2, <4>1, <4>2 DEF IsWhole
      <4>3. CASE k # 0
        <5>1. f[k - 1] = l[k - 1]
          BY <2>1, <4>1, <4>3
        <5>2. l[k] = l[k - 1] \o parts[k]
          BY <2>2, <4>1, <4>3 DEF IsWhole
        <5>3. QED BY <4>1, <4>3, <5>1, <5>2
      <4>4. QED BY <4>2, <4>3
    <3>3. QED BY <3>1, <3>2
  <2>4. IsWhole(f, parts, m)
    <3>1. DOMAIN f = 0 .. m /\ f = [k \in 0 .. m |-> f[k]]
      OBVIOUS
    <3> HIDE DEF f
    <3>2. QED BY <2>3, <3>1 DEF IsWhole
  <2>5. QED BY <1>2, <2>4
<1>5. QED BY <1>3, <1>4

\* What has been put together after each of the parts.
LEMMA ConcatenationSteps ==
  ASSUME NEW parts, Len(parts) \in Nat
  PROVE  \E f : /\ f[0] = <<>>
                /\ \A k \in 1 .. Len(parts) : f[k] = f[k - 1] \o parts[k]
                /\ Concatenation(parts) = f[Len(parts)]
<1> DEFINE n == Len(parts)
           f == CHOOSE l : IsWhole(l, parts, n)
<1>1. IsWhole(f, parts, n)
  BY WholeExists
<1>2. Concatenation(parts) = f[n]
  BY DEF Concatenation, IsWhole
<1> HIDE DEF f
<1>3. f[0] = <<>> /\ \A k \in 1 .. n : f[k] = f[k - 1] \o parts[k]
  BY <1>1 DEF IsWhole
<1>4. QED BY <1>2, <1>3

LEMMA ConcatenationTyped ==
  ASSUME NEW S, NEW n \in Nat, NEW parts \in [1 .. n -> Seq(S)]
  PROVE  \E f : /\ \A k \in 0 .. n : f[k] \in Seq(S)
                /\ \A k \in 1 .. n : f[k] = f[k - 1] \o parts[k]
                /\ Concatenation(parts) = f[n]
<1>1. Len(parts) = n
  OBVIOUS
<1>2. PICK f : /\ f[0] = <<>>
               /\ \A k \in 1 .. n : f[k] = f[k - 1] \o parts[k]
               /\ Concatenation(parts) = f[n]
  BY <1>1, ConcatenationSteps
<1> DEFINE Bad == {m \in 0 .. n : f[m] \notin Seq(S)}
<1>3. Bad = {}
  <2>1. SUFFICES ASSUME Bad # {} PROVE FALSE
    BY <2>1
  <2>2. PICK m \in Bad : \A k \in Bad : m <= k
    <3>1. Bad \subseteq Nat
      OBVIOUS
    <3> HIDE DEF Bad
    <3>2. QED BY <2>1, <3>1, LeastNatural
  <2>3. m # 0
    <3>1. <<>> \in Seq(S) /\ f[m] \notin Seq(S)
      BY <2>2
    <3>2. QED BY <1>2, <3>1
  <2>4. m - 1 \in 0 .. n /\ m - 1 \notin Bad /\ m \in 1 .. n
    BY <2>2, <2>3
  <2>5. f[m - 1] \in Seq(S) /\ parts[m] \in Seq(S)
    BY <2>4
  <2>6. f[m] \in Seq(S)
    <3>1. f[m - 1] \o parts[m] \in Seq(S)
      BY <2>5, ConcatProperties
    <3>2. QED BY <1>2, <2>4, <3>1
  <2>7. QED BY <2>2, <2>6
<1>4. QED BY <1>2, <1>3

LEMMA ConcatenationType ==
  ASSUME NEW S, NEW n \in Nat, NEW parts \in [1 .. n -> Seq(S)]
  PROVE  Concatenation(parts) \in Seq(S)
<1>1. n \in 0 .. n
  OBVIOUS
<1>2. QED BY <1>1, ConcatenationTyped

LEMMA ConcatenationNonempty ==
  ASSUME NEW S, NEW n \in Nat \ {0}, NEW parts \in [1 .. n -> Seq(S)], parts[n] # <<>>
  PROVE  Concatenation(parts) # <<>>
<1>1. PICK f : /\ \A k \in 0 .. n : f[k] \in Seq(S)
               /\ \A k \in 1 .. n : f[k] = f[k - 1] \o parts[k]
               /\ Concatenation(parts) = f[n]
  BY ConcatenationTyped
<1>2. n - 1 \in 0 .. n /\ n \in 1 .. n
  OBVIOUS
<1>3. f[n - 1] \in Seq(S) /\ parts[n] \in Seq(S) /\ Concatenation(parts) = f[n - 1] \o parts[n]
  BY <1>1, <1>2
<1>4. PICK x \in Seq(S), y \in Seq(S) : x = f[n - 1] /\ y = parts[n]
  BY <1>3
<1>5. Len(y) # 0 /\ Len(y) \in Nat /\ Len(x) \in Nat
  BY <1>4, EmptySeq, LenProperties
<1>6. Len(x \o y) = Len(x) + Len(y)
  BY ConcatProperties
<1>7. x \o y # <<>>
  BY <1>5, <1>6, EmptySeq
<1>8. QED BY <1>3, <1>4, <1>7

-----------------------------------------------------------------------------
(* The trie. *)

\* The expressions a subquery may add.
StepExpressions(step) ==
  {Expression("node", SubSeq(step, 1, Opening(step) - 1)),
   Expression("predicate", SubSeq(step, Opening(step) + 1, Len(step) - 1))}
RedPathExpressions(redpath) ==
  UNION {StepExpressions(Step(redpath, i)) : i \in 1 .. Len(redpath) + 1}
QueryExpressions ==
  UNION {RedPathExpressions(Query[q].redpath)
           \union {Expression("pointer", Query[q].target), Expression("uri", Query[q].target)} :
         q \in Subqueries}

LEMMA ExpressionsType ==
  ASSUME NEW step
  PROVE  Expressions(step) \in Seq(StepExpressions(step))
<1> DEFINE node == Expression("node", SubSeq(step, 1, Opening(step) - 1))
           predicate == Expression("predicate", SubSeq(step, Opening(step) + 1, Len(step) - 1))
<1>1. Expressions(step) = <<node>> \o <<>> \/ Expressions(step) = <<node>> \o <<predicate>>
  BY DEF Expressions
<1>2. StepExpressions(step) = {node, predicate}
  BY DEF StepExpressions
<1> HIDE DEF node, predicate
<1> DEFINE S == {node, predicate}
<1>3. <<node>> \in Seq(S) /\ <<predicate>> \in Seq(S) /\ <<>> \in Seq(S)
  OBVIOUS
<1> HIDE DEF S
<1>4. <<node>> \o <<>> \in Seq(S) /\ <<node>> \o <<predicate>> \in Seq(S)
  BY <1>3, ConcatProperties
<1>5. QED BY <1>1, <1>2, <1>4 DEF S

LEMMA SplitRedPathType ==
  ASSUME NEW redpath, Len(redpath) \in Nat
  PROVE  SplitRedPath(redpath).expressions \in Seq(RedPathExpressions(redpath))
<1> DEFINE S == RedPathExpressions(redpath)
           Used(i) == i \in Cuts(redpath) /\ Step(redpath, i) # <<>>
           parts == [i \in 1 .. Len(redpath) + 1 |-> IF Used(i) THEN Expressions(Step(redpath, i)) ELSE <<>>]
<1>1. parts \in [1 .. Len(redpath) + 1 -> Seq(S)]
  <2>1. ASSUME NEW i \in 1 .. Len(redpath) + 1
        PROVE  Expressions(Step(redpath, i)) \in Seq(S)
    <3>1. StepExpressions(Step(redpath, i)) \subseteq S
      BY DEF RedPathExpressions
    <3>2. Expressions(Step(redpath, i)) \in Seq(StepExpressions(Step(redpath, i)))
      BY ExpressionsType
    <3> HIDE DEF S
    <3>3. QED BY <3>1, <3>2
  <2>2. <<>> \in Seq(S)
    OBVIOUS
  <2> HIDE DEF S, Used
  <2>3. QED BY <2>1, <2>2
<1>2. Concatenation(parts) \in Seq(S)
  <2>1. Len(redpath) + 1 \in Nat
    OBVIOUS
  <2> HIDE DEF parts, S
  <2>2. QED BY <1>1, <2>1, ConcatenationType
<1>3. SplitRedPath(redpath).expressions \in {<<>>, Concatenation(parts)}
  BY DEF SplitRedPath
<1> HIDE DEF parts, S
<1>4. <<>> \in Seq(S)
  OBVIOUS
<1>5. SplitRedPath(redpath).expressions \in Seq(S)
  BY <1>2, <1>3, <1>4
<1>6. QED BY <1>5 DEF S

LEMMA SubqueryExpressionsType ==
  ASSUME NEW q \in Subqueries
  PROVE  SubqueryExpressions(Query[q]).expressions \in Seq(QueryExpressions)
<1> DEFINE s == Query[q]
           E == RedPathExpressions(s.redpath)
           pointer == Expression("pointer", s.target)
           uri == Expression("uri", s.target)
<1>1. E \union {pointer, uri} \subseteq QueryExpressions
  BY DEF QueryExpressions
<1>2. s.kind \in {"redpath", "pointer", "uri"} /\ Len(s.redpath) \in Nat
  <2>1. s.kind \in {"redpath", "pointer", "uri"} /\ s.redpath \in Seq(STRING)
    BY QueryAssumption
  <2>2. QED BY <2>1, LenProperties
<1>3. SplitRedPath(s.redpath).expressions \in Seq(E)
  BY <1>2, SplitRedPathType
<1>4. SubqueryExpressions(s).expressions \in {SplitRedPath(s.redpath).expressions, <<pointer>>, <<uri>>}
  BY <1>2 DEF SubqueryExpressions
<1> HIDE DEF E, pointer, uri
<1>5. SplitRedPath(s.redpath).expressions \in Seq(QueryExpressions)
  BY <1>1, <1>3
<1>6. <<pointer>> \in Seq(QueryExpressions) /\ <<uri>> \in Seq(QueryExpressions)
  BY <1>1
<1>7. QED BY <1>4, <1>5, <1>6

\* Joined sequences are sequences of subqueries.
LEMMA JoinedType ==
  \A s \in trie.joined : Len(s) \in Nat /\ s \in [1 .. Len(s) -> Subqueries] /\ s \in Seq(Subqueries)
<1>1. trie.joined \subseteq JoinSubqueriesFromGivenRoot(Query)
  <2>1. CreateRedPathTrie(Query).status = "ok"
    BY PlanAssumption DEF trie
  <2>2. trie.joined = JoinSubqueries(Query).joined
    BY <2>1 DEF trie, CreateRedPathTrie
  <2>3. JoinSubqueries(Query).joined \subseteq JoinSubqueriesFromGivenRoot(Query)
    BY DEF JoinSubqueries
  <2>4. QED BY <2>2, <2>3
<1>2. ASSUME NEW s \in JoinSubqueriesFromGivenRoot(Query)
      PROVE  Len(s) \in Nat /\ s \in [1 .. Len(s) -> Subqueries] /\ s \in Seq(Subqueries)
  <2>1. PICK n \in 1 .. Cardinality(Subqueries) : s \in [1 .. n -> Subqueries]
    BY DEF JoinSubqueriesFromGivenRoot, Subqueries
  <2>2. n \in Nat
    OBVIOUS
  <2>3. s \in Seq(Subqueries) /\ Len(s) = n
    BY <2>1, <2>2
  <2>4. QED BY <2>1, <2>2, <2>3
<1>3. QED BY <1>1, <1>2

LEMMA EndNodeType ==
  ASSUME NEW s \in Seq(Subqueries), NEW k \in 0 .. Len(s)
  PROVE  EndNode(Query, s, k) \in Seq(QueryExpressions)
<1> DEFINE parts == [i \in 1 .. k |-> SubqueryExpressions(Query[s[i]]).expressions]
<1>1. k \in Nat /\ \A i \in 1 .. k : s[i] \in Subqueries
  OBVIOUS
<1>2. parts \in [1 .. k -> Seq(QueryExpressions)]
  BY <1>1, SubqueryExpressionsType
<1>3. EndNode(Query, s, k) = Concatenation(parts)
  BY DEF EndNode
<1> HIDE DEF parts
<1>4. QED BY <1>1, <1>2, <1>3, ConcatenationType

\* Where the joined sequences end.
Ends == UNION {SequenceEnds(Query, s) : s \in JoinSubqueries(Query).joined}

LEMMA TrieIs ==
  /\ trie.joined = JoinSubqueries(Query).joined
  /\ trie.nodes = {<<>>} \union UNION {{SubSeq(x.node, 1, k) : k \in 0 .. Len(x.node)} : x \in Ends}
  /\ trie.subquery_id = [n \in trie.nodes |->
        LET here == {x \in Ends : x.node = n} IN IF here = {} THEN NoSubquery ELSE (CHOOSE x \in here : TRUE).id]
<1> DEFINE nodes == {<<>>} \union UNION {{SubSeq(x.node, 1, k) : k \in 0 .. Len(x.node)} : x \in Ends}
           id == [n \in nodes |->
                    LET here == {x \in Ends : x.node = n}
                    IN  IF here = {} THEN NoSubquery ELSE (CHOOSE x \in here : TRUE).id]
           plan == [status |-> "ok", nodes |-> nodes, joined |-> JoinSubqueries(Query).joined,
                    subquery_id |-> id]
<1>1. CreateRedPathTrie(Query).status = "ok"
  BY PlanAssumption DEF trie
<1>2. \/ CreateRedPathTrie(Query) = [status |-> "invalid"]
      \/ CreateRedPathTrie(Query) = [status |-> JoinSubqueries(Query).status]
         /\ JoinSubqueries(Query).status # "ok"
      \/ CreateRedPathTrie(Query) = plan
  BY Zenon DEF CreateRedPathTrie, Ends
<1> HIDE DEF nodes, id
<1>3. CreateRedPathTrie(Query) = plan
  BY <1>1, <1>2
<1>4. trie.nodes = nodes /\ trie.subquery_id = id /\ trie.joined = JoinSubqueries(Query).joined
  BY <1>3 DEF trie
<1>5. id = [n \in nodes |->
              LET here == {x \in Ends : x.node = n}
              IN  IF here = {} THEN NoSubquery ELSE (CHOOSE x \in here : TRUE).id]
  BY DEF id
<1>6. trie.nodes = {<<>>} \union UNION {{SubSeq(x.node, 1, k) : k \in 0 .. Len(x.node)} : x \in Ends}
  BY <1>4 DEF nodes
<1>7. QED BY <1>4, <1>5, <1>6, Zenon

LEMMA EndsType ==
  \A x \in Ends : x.node \in Seq(QueryExpressions) /\ x.id \in Subqueries
<1>1. trie.joined = JoinSubqueries(Query).joined
  BY TrieIs
<1>2. ASSUME NEW s \in trie.joined, NEW k \in DOMAIN s
      PROVE  EndNode(Query, s, k) \in Seq(QueryExpressions) /\ s[k] \in Subqueries
  <2>1. s \in Seq(Subqueries) /\ k \in 0 .. Len(s)
    BY JoinedType
  <2>2. QED BY <2>1, EndNodeType, JoinedType
<1>3. QED BY <1>1, <1>2 DEF Ends, SequenceEnds

LEMMA TrieType ==
  /\ <<>> \in trie.nodes
  /\ trie.nodes \subseteq Seq(QueryExpressions)
  /\ trie.subquery_id \in [trie.nodes -> Subqueries \union {NoSubquery}]
<1>1. <<>> \in trie.nodes
  BY TrieIs
<1>2. ASSUME NEW x \in Ends, NEW k \in 0 .. Len(x.node)
      PROVE  SubSeq(x.node, 1, k) \in Seq(QueryExpressions)
  BY EndsType
<1>3. trie.nodes \subseteq Seq(QueryExpressions)
  <2>1. <<>> \in Seq(QueryExpressions)
    OBVIOUS
  <2>2. ASSUME NEW n \in trie.nodes
        PROVE  n \in Seq(QueryExpressions)
    <3>1. n = <<>> \/ \E x \in Ends : \E k \in 0 .. Len(x.node) : n = SubSeq(x.node, 1, k)
      <4>1. n \in {<<>>} \union UNION {{SubSeq(x.node, 1, k) : k \in 0 .. Len(x.node)} : x \in Ends}
        BY TrieIs
      <4>2. QED BY <4>1, Zenon
    <3>2. QED BY <1>2, <2>1, <3>1
  <2>3. QED BY <2>2
<1>4. ASSUME NEW n \in trie.nodes
      PROVE  trie.subquery_id[n] \in Subqueries \union {NoSubquery}
  <2> DEFINE here == {x \in Ends : x.node = n}
  <2>1. trie.subquery_id[n] = IF here = {} THEN NoSubquery ELSE (CHOOSE x \in here : TRUE).id
    BY TrieIs
  <2>2. here # {} => (CHOOSE x \in here : TRUE) \in Ends
    <3>1. here # {} => (CHOOSE x \in here : TRUE) \in here
      <4> HIDE DEF here
      <4>1. QED OBVIOUS
    <3>2. QED BY <3>1
  <2> HIDE DEF here
  <2>3. QED BY <2>1, <2>2, EndsType
<1>5. DOMAIN trie.subquery_id = trie.nodes /\ trie.subquery_id = [n \in trie.nodes |-> trie.subquery_id[n]]
  BY TrieIs
<1>6. QED BY <1>1, <1>3, <1>4, <1>5

\* A node and one of its child expressions lead to a node one level down.
LEMMA ChildNode ==
  ASSUME NEW n \in trie.nodes, NEW e \in ChildExpressions(trie, n)
  PROVE  /\ Append(n, e) \in trie.nodes
         /\ Len(n) \in Nat /\ Len(Append(n, e)) = Len(n) + 1
<1>1. Append(n, e) \in trie.nodes
  BY DEF ChildExpressions
<1>2. n \in Seq(QueryExpressions)
  BY TrieType
<1>3. QED BY <1>1, <1>2, LenProperties, AppendProperties

-----------------------------------------------------------------------------
(* The visits of a walk. *)

First(g) == UNION {Entered(g, u) : u \in Starts(g)}

\* What the recursion in Walk defines, up to n.
IsWalk(f, g, n) == f = [k \in 0 .. n |-> IF k = 0 THEN First(g) ELSE Onward(g, f[k - 1])]

LEMMA WalkExists ==
  ASSUME NEW n \in Nat, NEW g
  PROVE  \E f : IsWalk(f, g, n)
<1> DEFINE Bad == {m \in Nat : ~ \E f : IsWalk(f, g, m)}
<1>1. SUFFICES ASSUME Bad # {} PROVE FALSE
  BY <1>1
<1>2. PICK m \in Bad : \A k \in Bad : m <= k
  <2>1. Bad \subseteq Nat
    OBVIOUS
  <2> HIDE DEF Bad
  <2>2. QED BY <1>1, <2>1, LeastNatural
<1>3. CASE m = 0
  <2>1. IsWalk([k \in 0 .. 0 |-> First(g)], g, 0)
    BY DEF IsWalk
  <2>2. QED BY <1>2, <1>3, <2>1
<1>4. CASE m # 0
  <2>1. m \in Nat /\ m - 1 \in Nat /\ m - 1 \notin Bad
    BY <1>2, <1>4
  <2>2. PICK l : IsWalk(l, g, m - 1)
    BY <2>1
  <2> DEFINE f == [k \in 0 .. m |-> IF k = m THEN Onward(g, l[m - 1]) ELSE l[k]]
  <2>3. ASSUME NEW k \in 0 .. m
        PROVE  f[k] = IF k = 0 THEN First(g) ELSE Onward(g, f[k - 1])
    <3>1. CASE k = m
      <4>1. f[k - 1] = l[m - 1]
        BY <2>1, <3>1
      <4>2. QED BY <1>4, <3>1, <4>1
    <3>2. CASE k # m
      <4>1. k \in 0 .. m - 1 /\ f[k] = l[k]
        BY <2>1, <3>2
      <4>2. CASE k = 0
        BY <2>2, <4>1, <4>2 DEF IsWalk
      <4>3. CASE k # 0
        <5>1. f[k - 1] = l[k - 1]
          BY <2>1, <4>1, <4>3
        <5>2. l[k] = Onward(g, l[k - 1])
          BY <2>2, <4>1, <4>3 DEF IsWalk
        <5>3. QED BY <4>1, <4>3, <5>1, <5>2
      <4>4. QED BY <4>2, <4>3
    <3>3. QED BY <3>1, <3>2
  <2>4. IsWalk(f, g, m)
    <3>1. DOMAIN f = 0 .. m /\ f = [k \in 0 .. m |-> f[k]]
      OBVIOUS
    <3> HIDE DEF f
    <3>2. QED BY <2>3, <3>1 DEF IsWalk
  <2>5. QED BY <1>2, <2>4
<1>5. QED BY <1>3, <1>4

LEMMA WalkUnique ==
  ASSUME NEW n \in Nat, NEW m \in Nat, NEW g, NEW f, IsWalk(f, g, n), NEW h, IsWalk(h, g, m)
  PROVE  \A k \in Nat : k <= n /\ k <= m => f[k] = h[k]
<1> DEFINE Bad == {k \in Nat : k <= n /\ k <= m /\ f[k] # h[k]}
<1>1. SUFFICES ASSUME Bad # {} PROVE FALSE
  BY <1>1
<1>2. PICK k \in Bad : \A j \in Bad : k <= j
  <2>1. Bad \subseteq Nat
    OBVIOUS
  <2> HIDE DEF Bad
  <2>2. QED BY <1>1, <2>1, LeastNatural
<1>3. k # 0
  BY <1>2 DEF IsWalk
<1>4. k - 1 \in Nat /\ k - 1 \notin Bad /\ k - 1 <= n /\ k - 1 <= m
  BY <1>2, <1>3
<1>5. f[k - 1] = h[k - 1]
  BY <1>4
<1>6. f[k] = Onward(g, f[k - 1]) /\ h[k] = Onward(g, h[k - 1])
  BY <1>2, <1>3 DEF IsWalk
<1>7. QED BY <1>2, <1>5, <1>6

\* The recursive definition defines a function.
LEMMA WalkSteps ==
  ASSUME NEW g
  PROVE  /\ Walk(g)[0] = First(g)
         /\ \A k \in Nat : Walk(g)[k + 1] = Onward(g, Walk(g)[k])
<1> DEFINE Part(k) == CHOOSE f : IsWalk(f, g, k)
           w == [k \in Nat |-> Part(k)[k]]
           All(f) == f = [k \in Nat |-> IF k = 0 THEN First(g) ELSE Onward(g, f[k - 1])]
<1>1. ASSUME NEW k \in Nat PROVE IsWalk(Part(k), g, k)
  BY WalkExists
<1>2. ASSUME NEW k \in Nat
      PROVE  w[k] = IF k = 0 THEN First(g) ELSE Onward(g, w[k - 1])
  <2>1. w[k] = Part(k)[k] /\ IsWalk(Part(k), g, k)
    BY <1>1
  <2>2. CASE k = 0
    <3> HIDE DEF w, Part
    <3>1. QED BY <2>1, <2>2 DEF IsWalk
  <2>3. CASE k # 0
    <3>1. k - 1 \in Nat /\ w[k - 1] = Part(k - 1)[k - 1] /\ IsWalk(Part(k - 1), g, k - 1)
      BY <1>1, <2>3
    <3> HIDE DEF w, Part
    <3>2. Part(k)[k] = Onward(g, Part(k)[k - 1])
      BY <2>1, <2>3 DEF IsWalk
    <3>3. Part(k)[k - 1] = Part(k - 1)[k - 1]
      BY <2>1, <3>1, WalkUnique
    <3>4. QED BY <2>1, <2>3, <3>1, <3>2, <3>3
  <2>4. QED BY <2>2, <2>3
<1>3. All(w)
  <2>1. w = [k \in Nat |-> w[k]]
    OBVIOUS
  <2> HIDE DEF w
  <2>2. QED BY <1>2, <2>1
<1>4. Walk(g) = CHOOSE f : All(f)
  BY DEF Walk, First
<1>5. All(Walk(g))
  <2> HIDE DEF All, w
  <2>1. QED BY <1>3, <1>4
<1>6. Walk(g)[0] = First(g)
  BY <1>5
<1>7. ASSUME NEW k \in Nat PROVE Walk(g)[k + 1] = Onward(g, Walk(g)[k])
  <2>1. k + 1 \in Nat /\ k + 1 # 0 /\ (k + 1) - 1 = k
    OBVIOUS
  <2>2. Walk(g)[k + 1] = Onward(g, Walk(g)[(k + 1) - 1])
    BY <1>5, <2>1
  <2>3. QED BY <2>1, <2>2
<1>8. QED BY <1>6, <1>7

\* The input of an execution.
LEMMA InputType ==
  ASSUME NEW g \in Inputs
  PROVE  /\ g.start[1] \in trie.nodes /\ g.start[2] \in Resources
         /\ g.op \in {"run", "subscribe", "resume"} /\ g.mode \in {"fail", "continue"}
         /\ \A r \in Resources : g.health[r] \in Healths
         /\ g.op # "resume" => g.start = <<<<>>, Root>>
         /\ Len(g.start[1]) \in Nat
<1>1. /\ g.op \in {"run", "subscribe", "resume"} /\ g.mode \in {"fail", "continue"}
      /\ g.health \in Faults /\ g.start \in ResumeAt \union {<<<<>>, Root>>}
      /\ g.op # "resume" => g.start = <<<<>>, Root>>
  BY DEF Inputs
<1>2. g.start[1] \in trie.nodes /\ g.start[2] \in Resources
  <2>1. ResumeAt \subseteq trie.nodes \X Resources /\ <<>> \in trie.nodes /\ Root \in Resources
    BY TrieType, ServiceAssumption, TreeAssumption
  <2>2. <<<<>>, Root>> \in trie.nodes \X Resources
    BY <2>1
  <2>3. g.start \in trie.nodes \X Resources
    BY <1>1, <2>1, <2>2
  <2>4. QED BY <2>3
<1>3. Len(g.start[1]) \in Nat
  BY <1>2, TrieType, LenProperties
<1>4. QED BY <1>1, <1>2, <1>3, ServiceAssumption

\* A record with the fields of a visit.
IsVisit(u) == u = Visit(u.node, u.resource, u.iterable, u.fresh, u.above)

\* Answering a subquery does not leave the place.
LEMMA EnteredPlace ==
  ASSUME NEW g, NEW u, IsVisit(u), NEW w \in Entered(g, u)
  PROVE  /\ w.node = u.node /\ w.resource = u.resource
         /\ w.iterable = u.iterable /\ w.fresh = u.fresh
<1> DEFINE v == Visit(u.node, u.resource, u.iterable, u.fresh, u.above)
           q == Asked(g, u)
           path == PathTo(q, u.resource, u.above)
<1>1. w = u \/ w = [u EXCEPT !.above = [@ EXCEPT ![q] = path]]
  BY DEF Entered
<1> HIDE DEF q, path
<1>2. [v EXCEPT !.above = [@ EXCEPT ![q] = path]] = Visit(u.node, u.resource, u.iterable, u.fresh, [u.above EXCEPT ![q] = path])
  BY DEF Visit
<1>3. QED BY <1>1, <1>2 DEF Visit, IsVisit

LEMMA MetPlace ==
  ASSUME NEW g, NEW v, NEW e, NEW r
  PROVE  /\ IsVisit(Met(g, v, e, r))
         /\ Met(g, v, e, r).node = Append(v.node, e)
         /\ Met(g, v, e, r).resource = r /\ Met(g, v, e, r).above = v.above
  BY DEF Met, Visit, IsVisit

\* The visits k expressions below the start are at nodes k levels below it.
LEMMA WalkPlace ==
  ASSUME NEW g \in Inputs, NEW k \in Nat, NEW w \in Walk(g)[k]
  PROVE  w.node \in trie.nodes /\ Len(w.node) = Len(g.start[1]) + k
<1> DEFINE Good(v, m) == v.node \in trie.nodes /\ Len(v.node) = Len(g.start[1]) + m
           Bad == {m \in Nat : \E v \in Walk(g)[m] : ~Good(v, m)}
<1>1. SUFFICES ASSUME Bad # {} PROVE FALSE
  BY <1>1
<1>2. PICK m \in Bad : \A j \in Bad : m <= j
  <2>1. Bad \subseteq Nat
    OBVIOUS
  <2> HIDE DEF Bad
  <2>2. QED BY <1>1, <2>1, LeastNatural
<1>3. PICK v \in Walk(g)[m] : ~Good(v, m)
  BY <1>2
<1>4. CASE m = 0
  <2>1. PICK u \in Starts(g) : v \in Entered(g, u)
    <3>1. v \in First(g)
      BY <1>3, <1>4, WalkSteps
    <3>2. QED BY <3>1 DEF First
  <2>2. u.node = g.start[1] /\ IsVisit(u)
    <3>1. g.op = "resume" \/ g.start[1] = <<>>
      BY InputType
    <3>2. QED BY <3>1 DEF Starts, Visit, IsVisit
  <2>3. v.node = g.start[1]
    BY <2>1, <2>2, EnteredPlace
  <2>4. QED BY <1>3, <1>4, <2>3, InputType
<1>5. CASE m # 0
  <2>1. m \in Nat /\ m - 1 \in Nat /\ m - 1 \notin Bad
    BY <1>2, <1>5
  <2>2. Walk(g)[m] = Onward(g, Walk(g)[m - 1])
    <3>1. (m - 1) + 1 = m
      BY <2>1
    <3>2. QED BY <2>1, <3>1, WalkSteps
  <2>9. PICK x \in Walk(g)[m - 1] : \E e \in ChildExpressions(trie, x.node) : v \in LeadsTo(g, x, e)
    BY <1>3, <2>2 DEF Onward
  <2>3. PICK e \in ChildExpressions(trie, x.node) : v \in LeadsTo(g, x, e)
    BY <2>9
  <2>4. Good(x, m - 1)
    BY <2>1, <2>3
  <2>5. PICK r : v \in Entered(g, Met(g, x, e, r))
    BY <2>3 DEF LeadsTo, Further
  <2>6. v.node = Append(x.node, e)
    BY <2>5, MetPlace, EnteredPlace
  <2>7. Good(v, m)
    <3>1. v.node \in trie.nodes /\ Len(v.node) = Len(x.node) + 1
      BY <2>3, <2>4, <2>6, ChildNode
    <3>2. Len(g.start[1]) \in Nat
      BY InputType
    <3>3. QED BY <2>1, <2>4, <3>1, <3>2
  <2>8. QED BY <1>3, <2>7
<1>6. QED BY <1>4, <1>5

LEMMA InAllVisits ==
  ASSUME NEW g \in Inputs, NEW k \in Nat, NEW w \in Walk(g)[k]
  PROVE  w \in AllVisits(g)
<1>1. w.node \in trie.nodes /\ Len(w.node) = Len(g.start[1]) + k /\ Len(g.start[1]) \in Nat
  BY WalkPlace, InputType
<1>2. Len(w.node) >= Len(g.start[1]) /\ Len(w.node) - Len(g.start[1]) = k
  BY <1>1
<1>3. QED BY <1>1, <1>2 DEF AllVisits

LEMMA OfAllVisits ==
  ASSUME NEW g \in Inputs, NEW w \in AllVisits(g)
  PROVE  \E k \in Nat : w \in Walk(g)[k]
<1>1. PICK n \in trie.nodes : Len(n) >= Len(g.start[1]) /\ w \in Walk(g)[Len(n) - Len(g.start[1])]
  BY DEF AllVisits
<1>2. Len(n) \in Nat /\ Len(g.start[1]) \in Nat
  BY TrieType, LenProperties, InputType
<1>3. Len(n) - Len(g.start[1]) \in Nat
  BY <1>1, <1>2
<1>4. QED BY <1>1, <1>3

\* The start is visited, and what a visit leads to.
LEMMA VisitsClosed ==
  ASSUME NEW g \in Inputs
  PROVE  /\ First(g) \subseteq AllVisits(g)
         /\ \A v \in AllVisits(g) : \A e \in ChildExpressions(trie, v.node) : LeadsTo(g, v, e) \subseteq AllVisits(g)
         /\ \A v \in AllVisits(g) : v.node \in trie.nodes
<1>1. First(g) \subseteq AllVisits(g)
  BY WalkSteps, InAllVisits
<1>2. ASSUME NEW v \in AllVisits(g), NEW e \in ChildExpressions(trie, v.node), NEW w \in LeadsTo(g, v, e)
      PROVE  w \in AllVisits(g)
  <2>1. PICK k \in Nat : v \in Walk(g)[k]
    BY OfAllVisits
  <2>2. w \in Onward(g, Walk(g)[k])
    BY <2>1 DEF Onward
  <2>3. k + 1 \in Nat /\ w \in Walk(g)[k + 1]
    BY <2>2, WalkSteps
  <2>4. QED BY <2>3, InAllVisits
<1>3. ASSUME NEW v \in AllVisits(g) PROVE v.node \in trie.nodes
  BY OfAllVisits, WalkPlace
<1>4. QED BY <1>1, <1>2, <1>3

\* And nothing else is.
LEMMA VisitsLeast ==
  ASSUME NEW g \in Inputs, NEW S, First(g) \subseteq S,
         \A v \in S : \A e \in ChildExpressions(trie, v.node) : LeadsTo(g, v, e) \subseteq S
  PROVE  AllVisits(g) \subseteq S
<1> DEFINE Bad == {k \in Nat : ~ (Walk(g)[k] \subseteq S)}
<1>1. Bad = {}
  <2>1. SUFFICES ASSUME Bad # {} PROVE FALSE
    BY <2>1
  <2>2. PICK m \in Bad : \A j \in Bad : m <= j
    <3>1. Bad \subseteq Nat
      OBVIOUS
    <3> HIDE DEF Bad
    <3>2. QED BY <2>1, <3>1, LeastNatural
  <2>3. m # 0
    BY <2>2, WalkSteps
  <2>4. m \in Nat /\ m - 1 \in Nat /\ m - 1 \notin Bad /\ (m - 1) + 1 = m
    BY <2>2, <2>3
  <2>5. Walk(g)[m] = Onward(g, Walk(g)[m - 1])
    BY <2>4, WalkSteps
  <2>6. Walk(g)[m - 1] \subseteq S
    BY <2>4
  <2>7. Walk(g)[m] \subseteq S
    BY <2>5, <2>6 DEF Onward
  <2>8. QED BY <2>2, <2>7
<1>2. QED BY <1>1, OfAllVisits

-----------------------------------------------------------------------------
(* Contexts and what TryNormalize makes of them. *)

ResultType == [subquery : Subqueries, path : Paths, fresh : BOOLEAN]
AnswersIn(results) == {DataAnswer(results[i].path) : i \in DOMAIN results}
UrisIn(subscribed) == {UriAnswer(s[1], s[2]) : s \in subscribed}

LEMMA AnswerIs == Answer = AnswersIn(result) \union UrisIn(subscriptions)
  BY DEF Answer, AnswersIn, UrisIn

\* The answer that another is nested in is the path of one, or none.
LEMMA AboveType ==
  ASSUME NEW q \in Subqueries, NEW above \in [Subqueries -> Paths]
  PROVE  Above(q, above) \in Paths
<1> DEFINE roots == Query[q].roots
           met == {i \in DOMAIN roots : roots[i] \in Subqueries /\ above[roots[i]] # <<>>}
           first == CHOOSE i \in met : \A j \in met : i <= j
<1>1. <<>> \in Paths
  BY EmptySeq DEF Paths
<1>2. CASE met = {}
  BY <1>1, <1>2 DEF Above
<1>3. CASE met # {}
  <2>1. met \subseteq Nat
    <3>1. roots \in Seq(STRING)
      BY QueryAssumption
    <3>2. DOMAIN roots = 1 .. Len(roots) /\ Len(roots) \in Nat
      BY <3>1, LenProperties
    <3>3. QED BY <3>2
  <2>2. \E i \in met : \A j \in met : i <= j
    <3> HIDE DEF met
    <3>1. QED BY <1>3, <2>1, LeastNatural
  <2>3. first \in met
    <3> HIDE DEF met
    <3>1. QED BY <2>2
  <2>4. above[roots[first]] \in Paths
    BY <2>3
  <2>5. Above(q, above) = above[roots[first]]
    BY <1>3, Zenon DEF Above
  <2>6. QED BY <2>4, <2>5
<1>4. QED BY <1>2, <1>3

LEMMA PathToType ==
  ASSUME NEW q \in Subqueries, NEW r \in Resources, NEW above \in [Subqueries -> Paths]
  PROVE  PathTo(q, r, above) \in Paths
<1> DEFINE S == Subqueries \X (Resources \union {"raw"})
           a == Above(q, above)
           x == <<q, IF Raw(q, r) /\ a # <<>> THEN "raw" ELSE r>>
<1>1. a \in Seq(S) /\ x \in S
  BY AboveType DEF Paths
<1>2. PathTo(q, r, above) = Append(a, x)
  BY DEF PathTo
<1> HIDE DEF S, a, x
<1>3. Append(a, x) \in Seq(S)
  BY <1>1, AppendProperties
<1>4. QED BY <1>2, <1>3 DEF Paths, S

\* The model's view of a context is the reference's of its visit.
LEMMA NormalizeReads ==
  ASSUME NEW c \in Contexts, NEW q \in Subqueries, (c.raw <=> Kind[c.resource] = "raw")
  PROVE  /\ IsRaw(c, q) <=> Raw(q, c.resource)
         /\ Skipped(c, q) <=> Silent(q, c.resource)
         /\ ResultPath(c, q) = PathTo(q, c.resource, c.found)
<1>1. IsRaw(c, q) <=> Raw(q, c.resource)
  BY DEF IsRaw, Raw
<1>2. Skipped(c, q) <=> Silent(q, c.resource)
  BY <1>1 DEF Skipped, Silent
<1>3. DOMAIN c.found = Subqueries
  BY DEF Contexts
<1>4. ParentResult(c, q) = Above(q, c.found)
  BY <1>3 DEF ParentResult, Above
<1>5. QED BY <1>1, <1>2, <1>4 DEF ResultPath, PathTo

\* The fields of a context's visit.
LEMMA VisitOfFields ==
  ASSUME NEW c
  PROVE  /\ IsVisit(VisitOf(c))
         /\ VisitOf(c).node = c.node /\ VisitOf(c).resource = c.resource
         /\ VisitOf(c).iterable = c.iterable /\ VisitOf(c).fresh = c.fresh /\ VisitOf(c).above = c.found
  BY DEF VisitOf, Visit, IsVisit

LEMMA AppendedAnswer ==
  ASSUME NEW results \in Seq(ResultType), NEW x \in ResultType
  PROVE  /\ Append(results, x) \in Seq(ResultType)
         /\ AnswersIn(Append(results, x)) = AnswersIn(results) \union {DataAnswer(x.path)}
<1> DEFINE s == Append(results, x)
<1>1. /\ s \in Seq(ResultType) /\ Len(s) = Len(results) + 1 /\ Len(results) \in Nat
      /\ DOMAIN s = 1 .. Len(s) /\ DOMAIN results = 1 .. Len(results)
      /\ \A i \in 1 .. Len(results) : s[i] = results[i]
      /\ s[Len(results) + 1] = x
  BY AppendProperties, LenProperties
<1> HIDE DEF s
<1>2. AnswersIn(s) \subseteq AnswersIn(results) \union {DataAnswer(x.path)}
  <2>1. SUFFICES ASSUME NEW i \in DOMAIN s
                 PROVE  DataAnswer(s[i].path) \in AnswersIn(results) \union {DataAnswer(x.path)}
    BY <2>1 DEF AnswersIn
  <2>2. CASE i \in 1 .. Len(results)
    BY <1>1, <2>2 DEF AnswersIn
  <2>3. CASE i \notin 1 .. Len(results)
    BY <1>1, <2>3
  <2>4. QED BY <2>2, <2>3
<1>3. AnswersIn(results) \subseteq AnswersIn(s)
  <2>1. SUFFICES ASSUME NEW i \in DOMAIN results
                 PROVE  DataAnswer(results[i].path) \in AnswersIn(s)
    BY <2>1 DEF AnswersIn
  <2>2. i \in DOMAIN s /\ s[i] = results[i]
    BY <1>1
  <2>3. QED BY <2>2 DEF AnswersIn
<1>4. DataAnswer(x.path) \in AnswersIn(s)
  <2>1. Len(results) + 1 \in DOMAIN s
    BY <1>1
  <2>2. QED BY <1>1, <2>1 DEF AnswersIn
<1>5. QED BY <1>1, <1>2, <1>3, <1>4 DEF s

\* No result is added, or the answer of a visit.
AddsOwn(g, before, after, u) ==
  after = before \/ \E x \in ResultType : after = Append(before, x) /\ Own(g, u) = {DataAnswer(x.path)}

\* TryNormalize answers what the visit of the context answers, and goes on with
\* the visit from which the walk goes on.
LEMMA NormalizeAnswers ==
  ASSUME input \in Inputs, NEW c \in Contexts, c.resource \in Resources,
         c.object <=> IsObject(c.resource),
         NEW q \in Subqueries \union {NoSubquery}, q = Asked(input, VisitOf(c)),
         q # NoSubquery => (c.raw <=> Kind[c.resource] = "raw"),
         NEW results \in Seq(ResultType),
         NEW n, n = TryNormalize(results, c, q)
  PROVE  /\ n.results \in Seq(ResultType)
         /\ AnswersIn(n.results) = AnswersIn(results) \union Own(input, VisitOf(c))
         /\ n.context \in Contexts
         /\ n.context.resource = c.resource /\ n.context.node = c.node
         /\ n.context.object = c.object /\ n.context.iterable = c.iterable
         /\ n.status = "ok" => Entered(input, VisitOf(c)) = {VisitOf(n.context)}
         /\ AddsOwn(input, results, n.results, VisitOf(c))
<1> DEFINE u == VisitOf(c)
           r == c.resource
           path == PathTo(q, r, c.found)
<1>1. u.resource = r /\ u.above = c.found /\ c.found \in [Subqueries -> Paths]
  BY VisitOfFields DEF Contexts
<1>2. CASE q = NoSubquery
  <2>1. n = [status |-> "ok", results |-> results, context |-> c]
    BY <1>2 DEF TryNormalize
  <2>2. Own(input, u) = {} /\ Entered(input, u) = {u}
    BY <1>2 DEF Own, Entered
  <2>3. n.status = "ok" /\ n.results = results /\ n.context = c
    BY <2>1
  <2> HIDE DEF u
  <2>4. QED BY <2>2, <2>3 DEF u, AddsOwn
<1>3. CASE q # NoSubquery
  <2>1. /\ IsRaw(c, q) <=> Raw(q, r)
        /\ Skipped(c, q) <=> Silent(q, r)
        /\ ResultPath(c, q) = path
    BY <1>3, NormalizeReads
  <2>2. Broken(input, q, r) <=> ~IsRaw(c, q) /\ (~c.object \/ input.health[c.resource] = "malformed")
    BY <2>1 DEF Broken
  <2>3. CASE Broken(input, q, r)
    <3>1. n = [status |-> "internal", results |-> results, context |-> c]
      BY <1>3, <2>2, <2>3 DEF TryNormalize
    <3>2. Own(input, u) = {}
      BY <1>1, <1>3, <2>3 DEF Own
    <3>3. n.status # "ok" /\ n.results = results /\ n.context = c
      BY <3>1
    <3> HIDE DEF u
    <3>4. QED BY <3>2, <3>3 DEF u, AddsOwn
  <2>4. CASE ~Broken(input, q, r) /\ Silent(q, r)
    <3>1. n = [status |-> "ok", results |-> results, context |-> c]
      BY <1>3, <2>1, <2>2, <2>4 DEF TryNormalize
    <3>2. Own(input, u) = {} /\ Entered(input, u) = {u}
      BY <1>1, <1>3, <2>4 DEF Own, Entered
    <3>3. n.status = "ok" /\ n.results = results /\ n.context = c
      BY <3>1
    <3> HIDE DEF u
    <3>4. QED BY <3>2, <3>3 DEF u, AddsOwn
  <2>5. CASE ~Broken(input, q, r) /\ ~Silent(q, r)
    <3> DEFINE x == [subquery |-> q, path |-> path, fresh |-> c.fresh]
               d == [c EXCEPT !.found = [@ EXCEPT ![q] = path]]
    <3>1. n = [status |-> "ok", results |-> Append(results, x), context |-> d]
      BY <1>3, <2>1, <2>2, <2>5 DEF TryNormalize
    <3>2. /\ Own(input, u) = {DataAnswer(path)}
          /\ Entered(input, u) = {[u EXCEPT !.above = [@ EXCEPT ![q] = path]]}
      BY <1>1, <1>3, <2>5 DEF Own, Entered
    <3>3. path \in Paths
      BY <1>1, <1>3, PathToType
    <3> HIDE DEF path
    <3>4. x \in ResultType /\ x.path = path
      BY <1>3, <3>3 DEF ResultType, Contexts
    <3>5. d \in Contexts /\ d.resource = c.resource /\ d.node = c.node /\ d.object = c.object
          /\ d.iterable = c.iterable /\ d.fresh = c.fresh /\ d.found = [c.found EXCEPT ![q] = path]
      BY <1>1, <1>3, <3>3 DEF Contexts
    <3>6. VisitOf(d) = [u EXCEPT !.above = [@ EXCEPT ![q] = path]]
      <4> HIDE DEF d
      <4>1. QED BY <3>5 DEF VisitOf, Visit
    <3>7. /\ Append(results, x) \in Seq(ResultType)
          /\ AnswersIn(Append(results, x)) = AnswersIn(results) \union {DataAnswer(path)}
      BY <3>4, AppendedAnswer
    <3> HIDE DEF x, d
    <3>8. n.status = "ok" /\ n.results = Append(results, x) /\ n.context = d
      BY <3>1
    <3> HIDE DEF u
    <3>9. AddsOwn(input, results, n.results, u)
      BY <3>2, <3>4, <3>8 DEF AddsOwn
    <3>10. QED BY <3>2, <3>5, <3>6, <3>7, <3>8, <3>9 DEF u
  <2>6. QED BY <2>3, <2>4, <2>5
<1>4. QED BY <1>2, <1>3

\* A context without an object is queued as it is, or fails.
LEMMA NormalizeHollow ==
  ASSUME NEW c, Hollow(c), ~c.raw, NEW q, NEW results, NEW n, n = TryNormalize(results, c, q)
  PROVE  n.results = results /\ n.context = c /\ (n.status = "ok" <=> q = NoSubquery)
<1>1. q # NoSubquery => ~IsRaw(c, q) /\ ~c.object
  BY DEF Hollow, IsRaw
<1>2. QED BY <1>1 DEF TryNormalize

-----------------------------------------------------------------------------
(* Fetching. *)

StatusCodes == {"ok", "notfound", "unavailable", "timeout", "internal", "cancelled"}

\* What the loop gets for a member is what the reference says of it.
LEMMA FetchMemberIs ==
  ASSUME input \in Inputs, context \in Contexts, Real(input, context), context.iterable,
         expression.type = "predicate", index \in 1 .. Len(Members[context.resource])
  PROVE  /\ Member \in Resources
         /\ FetchMember.code = "ok" /\ IsObject(Member) <=> Member \in Fetched(input, VisitOf(context), expression)
         /\ FetchMember.code = "ok" /\ IsObject(Member) =>
              FetchMember.fresh = Met(input, VisitOf(context), expression, Member).fresh
         /\ FetchMember.code = "notfound" => MissingMember(input)
         /\ FetchMember.code \in StatusCodes /\ FetchMember.fresh \in BOOLEAN
<1> DEFINE r == Member
           g == input
           v == VisitOf(context)
           must == Prefix(expression) \in required
           got == Get(r, FALSE)
<1>1. /\ context.resource \in Resources /\ Members[context.resource] \in Seq(Resources)
      /\ r \in Resources /\ r \in ToSet(Members[context.resource])
  <2>1. context.resource \in Resources /\ Members[context.resource] \in Seq(Resources)
    BY TreeAssumption DEF Real
  <2>2. DOMAIN Members[context.resource] = 1 .. Len(Members[context.resource])
    BY <2>1, LenProperties
  <2>3. QED BY <2>1, <2>2, ElementOfSeq DEF Member, ToSet
<1>2. g.health[r] \in Healths
  BY <1>1, InputType
<1>3. /\ v.node = context.node /\ v.resource = context.resource /\ v.iterable
      /\ IsObject(v.resource)
  BY VisitOfFields DEF Real
<1>4. Must(g, v, expression, r) <=> must
  BY <1>3 DEF Must, Prefix
<1>5. Named(v, expression) = ToSet(Members[context.resource])
  BY <1>3 DEF Named
<1>6. r \in Fetched(g, v, expression) <=> IsObject(r) /\ (Serves(g, r) \/ ~(must \/ r \notin g.warm))
  BY <1>1, <1>3, <1>4, <1>5 DEF Fetched, Available, Fresh
<1>7. Met(g, v, expression, r).fresh <=> must \/ r \notin g.warm
  BY <1>3, <1>4 DEF Met, Visit, Fresh
<1>8. /\ r \in g.warm => got = [code |-> "ok", fresh |-> FALSE]
      /\ r \notin g.warm => got = [code |-> IF Serves(g, r) THEN "ok" ELSE g.health[r], fresh |-> TRUE]
  BY DEF Get
<1>9. Serves(g, r) <=> g.health[r] \in {"ok", "malformed", "uncomparable"}
  BY DEF Serves
<1>10. FetchMember = IF got.code # "ok" \/ ~IsObject(r) \/ ~must \/ got.fresh THEN got
                     ELSE IF Serves(g, r) THEN [code |-> "ok", fresh |-> TRUE]
                     ELSE [code |-> "internal", fresh |-> FALSE]
  BY DEF FetchMember, GetRedfishObjectWithFreshness, GetQueryParamsForRedPath
<1> HIDE DEF must, got, v, r
<1>11. FetchMember.code = "ok" /\ IsObject(r) <=> IsObject(r) /\ (Serves(g, r) \/ ~(must \/ r \notin g.warm))
  BY <1>2, <1>8, <1>9, <1>10 DEF Healths
<1>12. FetchMember.code = "ok" /\ IsObject(r) => (FetchMember.fresh <=> must \/ r \notin g.warm)
  BY <1>2, <1>8, <1>9, <1>10 DEF Healths
<1>13. FetchMember.code \in StatusCodes /\ FetchMember.fresh \in BOOLEAN
  <2>1. got.code \in StatusCodes
    BY <1>2, <1>8, <1>9 DEF Healths, StatusCodes
  <2>2. got.fresh = TRUE \/ got.fresh = FALSE
    <3>1. CASE r \in g.warm
      <4>1. got = [code |-> "ok", fresh |-> FALSE]
        BY <1>8, <3>1
      <4>2. QED BY <4>1
    <3>2. CASE r \notin g.warm
      <4>1. got = [code |-> IF Serves(g, r) THEN "ok" ELSE g.health[r], fresh |-> TRUE]
        BY <1>8, <3>2
      <4>2. QED BY <4>1
    <3>3. QED BY <3>1, <3>2
  <2>3. \/ FetchMember = got \/ FetchMember = [code |-> "ok", fresh |-> TRUE]
        \/ FetchMember = [code |-> "internal", fresh |-> FALSE]
    BY <1>10
  <2>4. FetchMember.code \in StatusCodes
    BY <2>1, <2>3 DEF StatusCodes, Healths
  <2>5. FetchMember.fresh \in BOOLEAN
    <3>1. FetchMember.fresh = TRUE \/ FetchMember.fresh = FALSE
      BY <2>2, <2>3
    <3>2. QED BY <3>1
  <2>6. QED BY <2>4, <2>5
<1>14. FetchMember.code = "notfound" => g.health[r] = "notfound"
  BY <1>2, <1>8, <1>9, <1>10 DEF Healths
<1>15. FetchMember.code = "notfound" => MissingMember(g)
  <2>1. index \in DOMAIN Members[context.resource] /\ r = Members[context.resource][index]
    BY <1>1, LenProperties DEF r, Member
  <2>2. QED BY <1>1, <1>14, <2>1 DEF MissingMember
<1>16. Met(g, v, expression, r).fresh \in BOOLEAN
  BY DEF Met, Visit
<1>17. FetchMember.code = "ok" /\ IsObject(r) => FetchMember.fresh = Met(g, v, expression, r).fresh
  BY <1>7, <1>12, <1>13, <1>16
<1>18. QED BY <1>1, <1>6, <1>11, <1>13, <1>15, <1>17 DEF r, v

\* An expression that is no predicate names one resource or none.
LEMMA TargetIs ==
  ASSUME input \in Inputs, Real(input, context), context.object, NEW e, e.type # "predicate"
  PROVE  /\ Target(e) # Absent => Named(VisitOf(context), e) = {Target(e)}
         /\ Target(e) = Absent => Named(VisitOf(context), e) \subseteq {Absent}
         /\ e.type = "node" => Named(VisitOf(context), e) \subseteq Resources
<1> DEFINE v == VisitOf(context)
           links == IF e.type = "node" THEN Child[context.resource] ELSE Pointer[context.resource]
           names == {m \in DOMAIN links : <<m>> = e.expression}
<1>1. v.resource = context.resource /\ IsObject(v.resource) /\ context.resource \in Resources
  BY VisitOfFields DEF Real
<1>2. CASE e.type \in {"node", "pointer"}
  <2>1. Named(v, e) = {links[n] : n \in names}
    BY <1>1, <1>2 DEF Named
  <2>2. Target(e) = IF names = {} THEN Absent ELSE links[CHOOSE m \in names : TRUE]
    BY <1>2 DEF Target
  <2>3. \A m, n \in names : m = n
    OBVIOUS
  <2>4. e.type = "node" => \A n \in names : links[n] \in Resources
    BY <1>1, TreeAssumption
  <2> HIDE DEF names, links, v
  <2>5. CASE names = {}
    <3>1. Named(v, e) = {} /\ Target(e) = Absent
      BY <2>1, <2>2, <2>5
    <3>2. QED BY <3>1 DEF v
  <2>6. CASE names # {}
    <3>1. PICK m : m = CHOOSE n \in names : TRUE
      OBVIOUS
    <3>2. m \in names /\ \A n \in names : n = m
      BY <2>3, <2>6, <3>1
    <3>3. Named(v, e) = {links[m]} /\ Target(e) = links[m]
      BY <2>1, <2>2, <2>6, <3>1, <3>2
    <3>4. QED BY <2>4, <3>2, <3>3 DEF v
  <2>7. QED BY <2>5, <2>6 DEF v
<1>3. CASE e.type \notin {"node", "pointer"}
  BY <1>1, <1>3 DEF Named, Target
<1>4. QED BY <1>2, <1>3

\* What Get and GetFreshObject give for it.
LEMMA FetchTargetIs ==
  ASSUME input \in Inputs, context \in Contexts, Real(input, context), context.object,
         NEW e, e.type # "predicate", Target(e) \in Resources, Kind[Target(e)] # "value"
  PROVE  /\ FetchTarget(e).code = "ok" => Reached(input, VisitOf(context), e) = {Target(e)}
         /\ FetchTarget(e).code # "ok" => Reached(input, VisitOf(context), e) = {}
         /\ FetchTarget(e).code = "ok" =>
              FetchTarget(e).fresh = Met(input, VisitOf(context), e, Target(e)).fresh
         /\ FetchTarget(e).code \in StatusCodes /\ FetchTarget(e).fresh \in BOOLEAN
<1> DEFINE r == Target(e)
           g == input
           v == VisitOf(context)
           must == MustBeFresh(e)
           Skips == e.type = "node" /\ must
           got == Get(r, Skips)
<1>1. Named(v, e) = {r}
  BY TargetIs, TreeAssumption
<1>2. g.health[r] \in Healths
  BY InputType
<1>3. v.node = context.node
  BY VisitOfFields
<1>4. Must(g, v, e, r) <=> must /\ (e.type = "node" \/ Kind[r] = "object")
  BY <1>3 DEF Must, MustBeFresh, Prefix, GetQueryParamsForRedPath
<1>5. Fetched(g, v, e) = {x \in {r} : Serves(g, x) \/ ~(Must(g, v, e, x) \/ x \notin g.warm)}
  <2>1. Named(v, e) \intersect Resources = {r}
    BY <1>1
  <2>2. QED BY <2>1 DEF Fetched, Available, Fresh
<1>6. Reached(g, v, e) = Fetched(g, v, e)
  BY DEF Reached
<1>7. Met(g, v, e, r).fresh <=> Must(g, v, e, r) \/ r \notin g.warm
  BY DEF Met, Visit, Fresh
<1>8. Met(g, v, e, r).fresh \in BOOLEAN
  BY DEF Met, Visit
<1>9. /\ r \in g.warm /\ ~Skips => got = [code |-> "ok", fresh |-> FALSE]
      /\ ~(r \in g.warm /\ ~Skips) => got = [code |-> IF Serves(g, r) THEN "ok" ELSE g.health[r], fresh |-> TRUE]
  BY DEF Get
<1>10. Serves(g, r) <=> g.health[r] \in {"ok", "malformed", "uncomparable"}
  BY DEF Serves
<1>11. FetchTarget(e) = IF Kind[r] # "object" \/ got.code # "ok" \/ ~must \/ got.fresh THEN got
                        ELSE IF Serves(g, r) THEN [code |-> "ok", fresh |-> TRUE]
                        ELSE [code |-> "internal", fresh |-> FALSE]
  BY DEF FetchTarget, GetRedfishObjectWithFreshness, IsObject
<1> HIDE DEF must, got, v, r
<1>12. FetchTarget(e).code = "ok" <=> Serves(g, r) \/ ~(Must(g, v, e, r) \/ r \notin g.warm)
  BY <1>2, <1>4, <1>9, <1>10, <1>11 DEF Healths
<1>13. FetchTarget(e).code = "ok" => (FetchTarget(e).fresh <=> Must(g, v, e, r) \/ r \notin g.warm)
  BY <1>2, <1>4, <1>9, <1>10, <1>11 DEF Healths
<1>14. FetchTarget(e).code \in StatusCodes /\ FetchTarget(e).fresh \in BOOLEAN
  <2>1. got.code \in StatusCodes
    BY <1>2, <1>9, <1>10 DEF Healths, StatusCodes
  <2>2. got.fresh = TRUE \/ got.fresh = FALSE
    <3>1. CASE r \in g.warm /\ ~Skips
      <4>1. got = [code |-> "ok", fresh |-> FALSE]
        BY <1>9, <3>1
      <4>2. QED BY <4>1
    <3>2. CASE ~(r \in g.warm /\ ~Skips)
      <4>1. got = [code |-> IF Serves(g, r) THEN "ok" ELSE g.health[r], fresh |-> TRUE]
        BY <1>9, <3>2
      <4>2. QED BY <4>1
    <3>3. QED BY <3>1, <3>2
  <2>3. \/ FetchTarget(e) = got \/ FetchTarget(e) = [code |-> "ok", fresh |-> TRUE]
        \/ FetchTarget(e) = [code |-> "internal", fresh |-> FALSE]
    BY <1>11
  <2>4. FetchTarget(e).code \in StatusCodes
    BY <2>1, <2>3 DEF StatusCodes, Healths
  <2>5. FetchTarget(e).fresh \in BOOLEAN
    <3>1. FetchTarget(e).fresh = TRUE \/ FetchTarget(e).fresh = FALSE
      BY <2>2, <2>3
    <3>2. QED BY <3>1
  <2>6. QED BY <2>4, <2>5
<1>15. FetchTarget(e).code = "ok" => FetchTarget(e).fresh = Met(g, v, e, r).fresh
  BY <1>7, <1>8, <1>13, <1>14
<1>16. FetchTarget(e).code = "ok" => Reached(g, v, e) = {r}
  BY <1>5, <1>6, <1>12
<1>17. FetchTarget(e).code # "ok" => Reached(g, v, e) = {}
  BY <1>5, <1>6, <1>12
<1>18. QED BY <1>14, <1>15, <1>16, <1>17 DEF r, v

-----------------------------------------------------------------------------
(* What steps have in common. *)

\* Nothing that was handled comes undone.
LEMMA HandledMore ==
  ASSUME NEW g, NEW v, NEW a, NEW q, NEW a2, NEW q2, a \subseteq a2, q \subseteq q2
  PROVE  /\ \A e : Handled(g, a, q, v, e) => Handled(g, a2, q2, v, e)
         /\ AllHandled(g, a, q, v) => AllHandled(g, a2, q2, v)
         /\ \A e, r : Delivered(g, a, q, v, e, r) => Delivered(g, a2, q2, v, e, r)
<1>1. \A e : Handled(g, a, q, v, e) => Handled(g, a2, q2, v, e)
  BY DEF Handled
<1>2. AllHandled(g, a, q, v) => AllHandled(g, a2, q2, v)
  BY <1>1 DEF AllHandled
<1>3. \A e, r : Delivered(g, a, q, v, e, r) => Delivered(g, a2, q2, v, e, r)
  BY DEF Delivered
<1>4. QED BY <1>1, <1>2, <1>3

\* The answers of a visit are answers of the query.
LEMMA GivenIsPossible ==
  ASSUME NEW g, NEW v \in AllVisits(g)
  PROVE  /\ \A e \in ChildExpressions(trie, v.node) : Gives(g, v, e) \subseteq Possible(g)
         /\ \A e \in ChildExpressions(trie, v.node), r \in Pending(g, v) :
              UriAnswer(RedPathPrefix(g, v.node, e), r) \in Possible(g)
<1>1. ASSUME NEW e \in ChildExpressions(trie, v.node)
      PROVE  Gives(g, v, e) \subseteq Possible(g)
  <2>1. Gives(g, v, e) \subseteq UNION {Gives(g, v, f) : f \in ChildExpressions(trie, v.node)}
    OBVIOUS
  <2>2. UNION {Gives(g, v, f) : f \in ChildExpressions(trie, v.node)} \subseteq Meant(g)
    <3> DEFINE Given(w) == UNION {Gives(g, w, f) : f \in ChildExpressions(trie, w.node)}
               starts == UNION {Own(g, u) : u \in Starts(g)}
               all == UNION {Given(w) : w \in AllVisits(g)}
    <3>1. Meant(g) = starts \union all
      BY DEF Meant
    <3>2. Given(v) \subseteq all
      <4> HIDE DEF Given
      <4>1. Given(v) \in {Given(w) : w \in AllVisits(g)}
        OBVIOUS
      <4>2. QED BY <4>1
    <3> HIDE DEF starts, all
    <3>3. QED BY <3>1, <3>2
  <2>3. QED BY <2>1, <2>2 DEF Possible
<1>2. \A e \in ChildExpressions(trie, v.node), r \in Pending(g, v) :
        UriAnswer(RedPathPrefix(g, v.node, e), r) \in Misplaced(g, v)
  BY DEF Misplaced
<1>3. Misplaced(g, v) \subseteq Possible(g)
  BY DEF Possible
<1>4. QED BY <1>1, <1>2, <1>3

LEMMA StartIsPossible ==
  ASSUME NEW g, NEW u \in Starts(g)
  PROVE  Own(g, u) \subseteq Possible(g)
  BY DEF Possible, Meant

LEMMA OwedIsPossible ==
  ASSUME NEW g
  PROVE  Owed(g) \subseteq Possible(g) /\ Owed(g) \subseteq Meant(g)
  BY DEF Owed, Possible

\* A step that queues nothing and stays with its context.
LEMMA Kept ==
  ASSUME Inv, at \in {"expression", "member", "deliver"}, at' \in {"expression", "member", "deliver"},
         UNCHANGED <<input, history, node_queue, context>>,
         Answer \subseteq Answer', Answer' \subseteq Possible(input), code # "none" => code' # "none"
  PROVE  /\ StartInv' /\ QueueInv' /\ ContextInv' /\ HistoryInv' /\ AnswerInv'
         /\ Clean(input', code') => Clean(input, code) /\ StartsInv' /\ VisitedInv'
<1>1. UNCHANGED <<input, possible, owed, visited, node_queue, context>>
  BY DEF history
<1>2. StartInv' /\ HistoryInv' /\ AnswerInv'
  BY <1>1 DEF Inv, SoundInv, StartInv, HistoryInv, AnswerInv
<1>3. QueueInv' /\ ContextInv'
  BY <1>1 DEF Inv, SoundInv, QueueInv, ContextInv, InWalk
<1>4. ASSUME Clean(input', code') PROVE Clean(input, code)
  BY <1>1, <1>4 DEF Clean
<1>5. ASSUME Clean(input', code') PROVE StartsInv'
  <2>1. StartsInv
    BY <1>4, <1>5 DEF Inv, CompleteInv
  <2>2. QED BY <1>1, <2>1 DEF StartsInv
<1>6. ASSUME Clean(input', code') PROVE VisitedInv'
  <2>1. VisitedInv
    BY <1>4, <1>6 DEF Inv, CompleteInv
  <2>2. \A v \in visited : AllHandled(input, Answer, visited, v) => AllHandled(input', Answer', visited', v)
    BY <1>1, HandledMore
  <2>3. QED BY <1>1, <2>1, <2>2 DEF VisitedInv
<1>7. QED BY <1>2, <1>3, <1>4, <1>5, <1>6

\* A step that returns with an error.
LEMMA Ended ==
  ASSUME Inv, TypeOK', at' = "done", code' # "none", UNCHANGED <<input, possible, owed, node_queue>>,
         Answer' \subseteq Possible(input)
  PROVE  Inv'
<1>1. QueueInv'
  BY DEF Inv, SoundInv, QueueInv, InWalk
<1>2. StartInv' /\ ContextInv' /\ ContextsInv' /\ UrisInv' /\ HistoryInv' /\ AnswerInv'
  BY DEF Inv, SoundInv, StartInv, ContextInv, ContextsInv, UrisInv, HistoryInv, AnswerInv
<1>3. CompleteInv'
  BY DEF CompleteInv, Clean
<1>4. QED BY <1>1, <1>2, <1>3 DEF Inv, SoundInv

\* The URIs that are subscribed to after an expression.
LEMMA SubscribedAnswer ==
  ASSUME NEW e, NEW pending, result' = result,
         subscriptions' = subscriptions \union {<<Prefix(e), u>> : u \in pending}
  PROVE  Answer' = Answer \union {UriAnswer(Prefix(e), u) : u \in pending}
<1> DEFINE new == {<<Prefix(e), u>> : u \in pending}
<1>1. UrisIn(subscriptions') = UrisIn(subscriptions) \union UrisIn(new)
  BY DEF UrisIn
<1>2. UrisIn(new) = {UriAnswer(Prefix(e), u) : u \in pending}
  <2>1. \A u : UriAnswer(<<Prefix(e), u>>[1], <<Prefix(e), u>>[2]) = UriAnswer(Prefix(e), u)
    OBVIOUS
  <2>2. QED BY <2>1 DEF UrisIn
<1>3. Answer' = AnswersIn(result') \union UrisIn(subscriptions')
  BY DEF Answer, AnswersIn, UrisIn
<1>4. QED BY <1>1, <1>2, <1>3, AnswerIs

\* An expression has been executed and has made no context.
LEMMA ExecutedNothing ==
  ASSUME Inv, at \in {"expression", "member"}, NEW e \in ChildExpressions(trie, context.node), NEW pending,
         Executed(e, <<>>, pending), todo' \in {todo, todo \ {e}}, at = "member" => e = expression,
         \A u \in pending : UriAnswer(Prefix(e), u) \in Possible(input),
         Clean(input, code) =>
           /\ Gives(input, VisitOf(context), e) \subseteq Answer \union {UriAnswer(Prefix(e), u) : u \in pending}
           /\ LeadsTo(input, VisitOf(context), e) = {}
  PROVE  Inv'
<1>1. /\ at' = "expression" /\ uris' = {} /\ contexts' = <<>> /\ index' = 0
      /\ UNCHANGED <<input, history, cancelled, node_queue, context, result, code>>
      /\ UNCHANGED <<input, possible, owed, visited, cancelled, node_queue, context, result, code>>
      /\ subscriptions' = subscriptions \union {<<Prefix(e), u>> : u \in pending}
  BY DEF Executed, history
<1>2. Answer' = Answer \union {UriAnswer(Prefix(e), u) : u \in pending}
  BY <1>1, SubscribedAnswer
<1>3. Answer \subseteq Answer' /\ Answer' \subseteq Possible(input)
  BY <1>2 DEF Inv, SoundInv, AnswerInv
<1>4. TypeOK'
  <2>1. <<>> \in Seq(Contexts)
    OBVIOUS
  <2>2. QED BY <1>1, <2>1 DEF Inv, TypeOK
<1>5. ContextsInv' /\ UrisInv'
  BY <1>1 DEF ContextsInv, UrisInv
<1>6. /\ StartInv' /\ QueueInv' /\ ContextInv' /\ HistoryInv' /\ AnswerInv'
      /\ Clean(input', code') => Clean(input, code) /\ StartsInv' /\ VisitedInv'
  BY <1>1, <1>3, Kept
<1>7. ASSUME Clean(input', code') PROVE ExpressionsInv'
  <2>1. Clean(input, code) /\ ExpressionsInv
    BY <1>6, <1>7 DEF Inv, CompleteInv
  <2>2. Handled(input, Answer', visited, VisitOf(context), e)
    BY <1>2, <2>1 DEF Handled
  <2>3. \A f : Handled(input, Answer, visited, VisitOf(context), f) =>
               Handled(input, Answer', visited, VisitOf(context), f)
    BY <1>3, HandledMore
  <2>4. SUFFICES ASSUME NEW f \in ChildExpressions(trie, context.node), f \notin todo'
                 PROVE  Handled(input, Answer', visited, VisitOf(context), f)
    BY <1>1 DEF ExpressionsInv
  <2>5. CASE f = e
    BY <2>2, <2>5
  <2>6. CASE f # e
    <3>1. f \notin todo /\ ~(at # "expression" /\ f = expression)
      BY <2>4, <2>6
    <3>2. QED BY <2>1, <2>3, <3>1 DEF ExpressionsInv
  <2>7. QED BY <2>5, <2>6
<1>8. MemberInv' /\ DeliverInv' /\ FinalInv'
  BY <1>1 DEF MemberInv, DeliverInv, FinalInv
<1>9. QED BY <1>4, <1>5, <1>6, <1>7, <1>8 DEF Inv, SoundInv, CompleteInv

\* An expression has been executed and its contexts are to be delivered.
LEMMA ExecutedSome ==
  ASSUME Inv, at \in {"expression", "member"}, NEW e \in ChildExpressions(trie, context.node),
         NEW cs \in Seq(Contexts), cs # <<>>,
         Executed(e, cs, uris), todo' \in {todo, todo \ {e}}, at = "member" => e = expression,
         \A i \in DOMAIN cs :
           \/ Real(input, context) /\ Born(input, context, e, cs[i])
           \/ Hollow(cs[i]) /\ ~cs[i].raw /\ code # "none",
         Clean(input, code) =>
           \A r \in Reached(input, VisitOf(context), e) : \E j \in DOMAIN cs : cs[j].resource = r
  PROVE  Inv'
<1>1. /\ at' = "deliver" /\ uris' = uris /\ contexts' = cs /\ index' = 0 /\ expression' = e
      /\ UNCHANGED <<input, history, cancelled, node_queue, context, result, code>>
      /\ UNCHANGED <<input, possible, owed, visited, cancelled, node_queue, context, result, code, subscriptions>>
  BY DEF Executed, history
<1>2. Answer' = Answer
  BY <1>1 DEF Answer
<1>3. Answer \subseteq Answer' /\ Answer' \subseteq Possible(input)
  BY <1>2 DEF Inv, SoundInv, AnswerInv
<1>4. TypeOK'
  BY <1>1 DEF Inv, TypeOK
<1>5. ContextsInv' /\ UrisInv'
  BY <1>1 DEF Inv, SoundInv, ContextsInv, UrisInv
<1>6. /\ StartInv' /\ QueueInv' /\ ContextInv' /\ HistoryInv' /\ AnswerInv'
      /\ Clean(input', code') => Clean(input, code) /\ StartsInv' /\ VisitedInv'
  BY <1>1, <1>3, Kept
<1>7. ASSUME Clean(input', code') PROVE ExpressionsInv' /\ DeliverInv'
  <2>1. Clean(input, code) /\ ExpressionsInv
    BY <1>6, <1>7 DEF Inv, CompleteInv
  <2>2. ExpressionsInv'
    BY <1>1, <1>2, <2>1 DEF ExpressionsInv
  <2>3. DeliverInv'
    BY <1>1, <2>1 DEF DeliverInv
  <2>4. QED BY <2>2, <2>3
<1>8. MemberInv' /\ FinalInv'
  BY <1>1 DEF MemberInv, FinalInv
<1>9. QED BY <1>4, <1>5, <1>6, <1>7, <1>8 DEF Inv, SoundInv, CompleteInv

\* An expression has failed.
LEMMA FailedStep ==
  ASSUME Inv, at \in {"expression", "member"}, NEW e \in ChildExpressions(trie, context.node),
         NEW status \in StatusCodes, status # "ok", Failed(status), todo' \in {todo, todo \ {e}},
         at = "member" => e = expression,
         status = "notfound" /\ Clean(input, code) => Handled(input, Answer, visited, VisitOf(context), e)
  PROVE  Inv'
<1>1. /\ contexts' = <<>> /\ index' = 0
      /\ UNCHANGED <<input, history, cancelled, node_queue, context, result, uris, subscriptions>>
      /\ UNCHANGED <<input, possible, owed, visited, cancelled, node_queue, context, result, uris, subscriptions>>
  BY DEF Failed, history
<1>2. /\ status = "notfound" => code' = code
      /\ status # "notfound" => code' = status /\ code' \in Codes /\ code' # "none"
      /\ at' \in {"expression", "done"} /\ (at' = "done" => status # "notfound")
  BY DEF Failed, ErrorCode, StatusCodes, Healths, Codes
<1>3. Answer' = Answer /\ Answer \subseteq Possible(input)
  BY <1>1 DEF Answer, Inv, SoundInv, AnswerInv
<1>4. TypeOK'
  <2>1. <<>> \in Seq(Contexts)
    OBVIOUS
  <2>2. code' \in Codes
    BY <1>2 DEF Inv, TypeOK
  <2>3. QED BY <1>1, <1>2, <2>1, <2>2 DEF Inv, TypeOK
<1>5. CASE at' = "done"
  BY <1>1, <1>2, <1>3, <1>4, <1>5, Ended
<1>6. CASE at' = "expression"
  <2>1. ContextsInv' /\ UrisInv'
    BY <1>1, <1>6 DEF Inv, SoundInv, ContextsInv, UrisInv
  <2>2. code # "none" => code' # "none"
    BY <1>2
  <2>3. /\ StartInv' /\ QueueInv' /\ ContextInv' /\ HistoryInv' /\ AnswerInv'
        /\ Clean(input', code') => Clean(input, code) /\ StartsInv' /\ VisitedInv'
    BY <1>1, <1>3, <1>6, <2>2, Kept
  <2>4. ASSUME Clean(input', code') PROVE ExpressionsInv'
    <3>1. Clean(input, code) /\ ExpressionsInv /\ status = "notfound"
      BY <1>2, <2>3, <2>4 DEF Inv, CompleteInv, Clean
    <3>2. SUFFICES ASSUME NEW f \in ChildExpressions(trie, context.node), f \notin todo'
                   PROVE  Handled(input, Answer, visited, VisitOf(context), f)
      BY <1>1, <1>3, <1>6 DEF ExpressionsInv
    <3>3. CASE f = e
      BY <3>1, <3>3
    <3>4. CASE f # e
      <4>1. f \notin todo /\ ~(at # "expression" /\ f = expression)
        BY <3>2, <3>4
      <4>2. QED BY <3>1, <4>1 DEF ExpressionsInv
    <3>5. QED BY <3>3, <3>4
  <2>5. MemberInv' /\ DeliverInv' /\ FinalInv'
    BY <1>6 DEF MemberInv, DeliverInv, FinalInv
  <2>6. QED BY <1>4, <2>1, <2>3, <2>4, <2>5 DEF Inv, SoundInv, CompleteInv
<1>7. QED BY <1>2, <1>5, <1>6

-----------------------------------------------------------------------------
(* The beginning and the end of an execution. *)

LEMMA NothingType == Nothing \in [Subqueries -> Paths]
<1>1. <<>> \in Paths
  BY EmptySeq DEF Paths
<1>2. QED BY <1>1 DEF Nothing

LEMMA InitInv == Init => Inv
<1>1. SUFFICES ASSUME Init PROVE Inv
  BY <1>1
<1> DEFINE resumed == [Response(NoContext, input.start[2], TRUE) EXCEPT !.raw = FALSE, !.node = input.start[1]]
<1>2. input \in Inputs /\ input.start[1] \in trie.nodes /\ input.start[2] \in Resources
  BY <1>1, InputType DEF Init
<1>3. NoContext \in Contexts
  BY NothingType, TrieType DEF NoContext, Contexts
<1>4. resumed \in Contexts
  <2> DEFINE r == input.start[2]
  <2>1. PICK c : c = resumed
    OBVIOUS
  <2>2. c = [resource |-> r, object |-> IsObject(r), iterable |-> Kind[r] = "collection", raw |-> FALSE,
             fresh |-> TRUE, node |-> input.start[1], found |-> Nothing]
    BY <2>1 DEF Response, NoContext
  <2>3. IsObject(r) \in BOOLEAN /\ (Kind[r] = "collection") \in BOOLEAN
    BY DEF IsObject
  <2> HIDE DEF r, resumed
  <2>4. QED BY <1>2, <2>1, <2>2, <2>3, NothingType DEF Contexts, r
<1>5. TypeOK
  <2>1. <<>> \in Seq(Contexts) /\ <<>> \in Seq([subquery : Subqueries, path : Paths, fresh : BOOLEAN])
    BY EmptySeq
  <2>2. context \in Contexts
    BY <1>1, <1>3, <1>4 DEF Init
  <2>3. QED BY <1>1, <1>2, <2>1, <2>2 DEF Init, TypeOK, Codes
<1>6. Answer = {}
  BY <1>1 DEF Init, Answer
<1>7. StartInv /\ QueueInv /\ ContextInv /\ ContextsInv /\ UrisInv /\ HistoryInv /\ AnswerInv
  BY <1>1, <1>6 DEF Init, StartInv, QueueInv, ContextInv, ContextsInv, UrisInv, HistoryInv, AnswerInv
<1>8. StartsInv /\ VisitedInv /\ ExpressionsInv /\ MemberInv /\ DeliverInv /\ FinalInv
  BY <1>1 DEF Init, StartsInv, VisitedInv, ExpressionsInv, MemberInv, DeliverInv, FinalInv
<1>9. QED BY <1>5, <1>7, <1>8 DEF Inv, SoundInv, CompleteInv

\* A step that leaves alone what the invariant is about.
LEMMA Unchanged ==
  ASSUME Inv, cancelled' \in BOOLEAN, UNCHANGED <<input, history, at, walk, result, code, subscriptions>>
  PROVE  Inv'
<1>1. UNCHANGED <<input, possible, owed, visited, at, node_queue, context, todo, expression, index,
                  contexts, uris, result, code, subscriptions>>
  BY DEF history, walk
<1>2. Answer' = Answer
  BY <1>1 DEF Answer
<1>3. TypeOK'
  BY <1>1 DEF Inv, TypeOK
<1>4. SoundInv'
  BY <1>1, <1>2 DEF Inv, SoundInv, StartInv, QueueInv, ContextInv, ContextsInv, UrisInv, HistoryInv, AnswerInv, InWalk
<1>5. StartsInv' = StartsInv /\ VisitedInv' = VisitedInv /\ ExpressionsInv' = ExpressionsInv
  BY <1>1, <1>2 DEF StartsInv, VisitedInv, ExpressionsInv
<1>6. MemberInv' = MemberInv /\ DeliverInv' = DeliverInv /\ FinalInv' = FinalInv
  BY <1>1, <1>2 DEF MemberInv, MemberMet, DeliverInv, FinalInv
<1>7. CompleteInv'
  BY <1>1, <1>5, <1>6 DEF Inv, CompleteInv
<1>8. QED BY <1>3, <1>4, <1>7 DEF Inv

LEMMA ReturnStep ==
  ASSUME Inv, NEW error \in Codes \ {"none"}, Return(error)
  PROVE  Inv'
<1>1. /\ at' = "done" /\ code' = error
      /\ UNCHANGED <<input, possible, owed, cancelled, node_queue, context, todo, expression, index,
                     contexts, uris, result, subscriptions>>
  BY DEF Return, history, walk
<1>2. Answer' = Answer /\ Answer \subseteq Possible(input)
  BY <1>1 DEF Answer, Inv, SoundInv, AnswerInv
<1>3. TypeOK'
  BY <1>1 DEF Inv, TypeOK
<1>4. QED BY <1>1, <1>2, <1>3, Ended

LEMMA RunRefusedStep == ASSUME Inv, RunRefused PROVE Inv'
<1>1. \E error \in Codes \ {"none"} : Return(error)
  BY DEF RunRefused, Codes
<1>2. QED BY <1>1, ReturnStep

LEMMA FetchRootFailsStep == ASSUME Inv, FetchRootFails PROVE Inv'
<1>1. \E error \in Codes \ {"none"} : Return(error)
  BY DEF FetchRootFails, Codes
<1>2. QED BY <1>1, ReturnStep

LEMMA RunBeginsStep == ASSUME Inv, RunBegins PROVE Inv'
<1>1. /\ at = "start" /\ at' = "root" /\ input.op # "resume"
      /\ UNCHANGED <<input, possible, owed, visited, cancelled, node_queue, context, todo, expression, index,
                     contexts, uris, result, code, subscriptions>>
  BY DEF RunBegins, history, walk
<1>2. Answer' = Answer
  BY <1>1 DEF Answer
<1>3. TypeOK'
  BY <1>1 DEF Inv, TypeOK
<1>4. SoundInv'
  BY <1>1, <1>2 DEF Inv, SoundInv, StartInv, QueueInv, ContextInv, ContextsInv, UrisInv, HistoryInv, AnswerInv, InWalk
<1>5. CompleteInv'
  BY <1>1 DEF CompleteInv, StartsInv, VisitedInv, ExpressionsInv, MemberInv, DeliverInv, FinalInv
<1>6. QED BY <1>3, <1>4, <1>5 DEF Inv

\* The walk starts where the reference starts.
LEMMA EnqueueStep ==
  ASSUME Inv, at \in {"start", "root"}, NEW c \in Contexts, c.resource \in Resources,
         c.object <=> IsObject(c.resource), c.iterable => c.object,
         Starts(input) = {VisitOf(c)},
         NEW q, q = Asked(input, VisitOf(c)),
         q # NoSubquery => (c.raw <=> Kind[c.resource] = "raw"),
         Enqueue(c, q)
  PROVE  Inv'
<1> DEFINE n == TryNormalize(result, c, q)
           u == VisitOf(c)
<1>1. /\ n.status = "ok" /\ at' = "pop" /\ node_queue' = <<n.context>> /\ visited' = {VisitOf(n.context)}
      /\ result' = n.results
      /\ UNCHANGED <<input, possible, owed, cancelled, context, todo, expression, index, contexts, uris,
                     code, subscriptions>>
  BY DEF Enqueue
<1>2. input \in Inputs /\ result \in Seq(ResultType)
  BY DEF Inv, TypeOK, ResultType
<1>3. q \in Subqueries \union {NoSubquery}
  <2>1. u.node \in trie.nodes
    BY VisitOfFields DEF Contexts
  <2>2. QED BY <2>1, TrieType DEF Asked
<1>4. /\ n.results \in Seq(ResultType)
      /\ AnswersIn(n.results) = AnswersIn(result) \union Own(input, u)
      /\ n.context \in Contexts
      /\ n.context.resource = c.resource /\ n.context.node = c.node
      /\ n.context.object = c.object /\ n.context.iterable = c.iterable
      /\ Entered(input, u) = {VisitOf(n.context)}
  BY <1>1, <1>2, <1>3, NormalizeAnswers
<1> HIDE DEF n, u
<1>5. Answer' = Answer \union Own(input, u) /\ Own(input, u) \subseteq Possible(input)
  <2>1. Answer' = AnswersIn(result') \union UrisIn(subscriptions')
    BY DEF Answer, AnswersIn, UrisIn
  <2>2. Own(input, u) \subseteq Possible(input)
    BY StartIsPossible DEF u
  <2>3. QED BY <1>1, <1>4, <2>1, <2>2, AnswerIs
<1>6. VisitOf(n.context) \in AllVisits(input)
  <2>1. VisitOf(n.context) \in First(input)
    BY <1>4 DEF First, u
  <2>2. QED BY <1>2, <2>1, VisitsClosed
<1>7. Real(input, n.context)
  BY <1>4, <1>6 DEF Real
<1>8. TypeOK'
  <2>1. <<n.context>> \in Seq(Contexts)
    BY <1>4
  <2>2. QED BY <1>1, <1>4, <2>1 DEF Inv, TypeOK, ResultType
<1>9. QueueInv'
  <2>1. \A i \in DOMAIN node_queue' : node_queue'[i] = n.context
    BY <1>1
  <2>2. QED BY <1>1, <1>7, <2>1 DEF QueueInv, InWalk
<1>10. StartInv' /\ ContextInv' /\ ContextsInv' /\ UrisInv' /\ HistoryInv' /\ AnswerInv'
  BY <1>1, <1>5 DEF Inv, SoundInv, StartInv, ContextInv, ContextsInv, UrisInv, HistoryInv, AnswerInv
<1>11. StartsInv'
  BY <1>1, <1>4, <1>5 DEF StartsInv, u
<1>12. VisitedInv'
  <2>1. 1 \in DOMAIN node_queue' /\ node_queue'[1] = n.context
    BY <1>1
  <2>2. QED BY <1>1, <2>1 DEF VisitedInv
<1>13. ExpressionsInv' /\ MemberInv' /\ DeliverInv' /\ FinalInv'
  BY <1>1 DEF ExpressionsInv, MemberInv, DeliverInv, FinalInv
<1>14. QED BY <1>8, <1>9, <1>10, <1>11, <1>12, <1>13 DEF Inv, SoundInv, CompleteInv

\* What is fetched for the service root.
LEMMA FetchedRootIs ==
  ASSUME input \in Inputs, FetchedRoot.code = "ok", IsObject(Root), input.op # "resume"
  PROVE  /\ FetchedRoot.fresh \in BOOLEAN
         /\ Starts(input) = {Visit(<<>>, Root, FALSE, FetchedRoot.fresh, Nothing)}
<1> DEFINE g == input
           must == <<<<>>>> \in required
           got == Get(Root, FALSE)
           F == Fresh(g, Root, must)
<1>1. g.health[Root] \in Healths
  BY InputType, TreeAssumption
<1>2. Root \in g.warm => got = [code |-> "ok", fresh |-> FALSE]
  BY DEF Get
<1>3. Root \notin g.warm => got = [code |-> IF Serves(g, Root) THEN "ok" ELSE g.health[Root], fresh |-> TRUE]
  BY DEF Get
<1>4. Serves(g, Root) <=> g.health[Root] \in {"ok", "malformed", "uncomparable"}
  BY DEF Serves
<1>5. FetchedRoot = IF got.code # "ok" \/ ~IsObject(Root) \/ ~must \/ got.fresh THEN got
                    ELSE IF Serves(g, Root) THEN [code |-> "ok", fresh |-> TRUE]
                    ELSE [code |-> "internal", fresh |-> FALSE]
  BY DEF FetchedRoot, GetRedfishObjectWithFreshness, GetQueryParamsForRedPath
<1>6. F <=> must \/ Root \notin g.warm
  BY DEF Fresh
<1>7. F \in BOOLEAN
  BY DEF Fresh
<1>8. Starts(g) = IF Available(g, Root, must) THEN {Visit(<<>>, Root, FALSE, F, Nothing)} ELSE {}
  BY DEF Starts
<1>9. Available(g, Root, must) <=> Serves(g, Root) \/ ~F
  BY DEF Available
<1> HIDE DEF must, got, F
<1>10. Available(g, Root, must)
  BY <1>1, <1>2, <1>3, <1>4, <1>5, <1>6, <1>9 DEF Healths
<1>11. FetchedRoot.fresh = F
  <2>1. CASE must \/ Root \notin g.warm
    <3>1. FetchedRoot.fresh = TRUE
      BY <1>1, <1>2, <1>3, <1>4, <1>5, <2>1 DEF Healths
    <3>2. F = TRUE
      BY <1>6, <1>7, <2>1
    <3>3. QED BY <3>1, <3>2
  <2>2. CASE ~must /\ Root \in g.warm
    <3>1. FetchedRoot.fresh = FALSE
      BY <1>2, <1>5, <2>2
    <3>2. F = FALSE
      BY <1>6, <1>7, <2>2
    <3>3. QED BY <3>1, <3>2
  <2>3. QED BY <2>1, <2>2
<1>12. QED BY <1>7, <1>8, <1>10, <1>11

LEMMA RootContextIs ==
  ASSUME NEW r, NEW f, NEW c, c = ObjectOnly(NoContext, r, f)
  PROVE  c = [resource |-> r, object |-> TRUE, iterable |-> FALSE, raw |-> FALSE,
              fresh |-> f, node |-> <<>>, found |-> Nothing]
  BY DEF ObjectOnly, NoContext

\* A context that the walk starts with.
RootIsStart(c) ==
  /\ c \in Contexts /\ c.resource \in Resources /\ c.object /\ ~c.iterable /\ ~c.raw
  /\ IsObject(c.resource) /\ Kind[c.resource] # "raw"
  /\ Starts(input) = {VisitOf(c)} /\ RootSubquery = Asked(input, VisitOf(c))

LEMMA FetchedRootStart ==
  ASSUME input \in Inputs, input.op # "resume", FetchedRoot.code = "ok", IsObject(Root)
  PROVE  RootIsStart(RootContext)
<1> DEFINE c == RootContext
<1>1. FetchedRoot.fresh \in BOOLEAN /\ Starts(input) = {Visit(<<>>, Root, FALSE, FetchedRoot.fresh, Nothing)}
  BY FetchedRootIs
<1>2. c = [resource |-> Root, object |-> TRUE, iterable |-> FALSE, raw |-> FALSE,
           fresh |-> FetchedRoot.fresh, node |-> <<>>, found |-> Nothing]
  BY RootContextIs DEF RootContext
<1> HIDE DEF c
<1>3. c \in Contexts
  BY <1>1, <1>2, TreeAssumption, TrieType, NothingType DEF Contexts
<1>4. VisitOf(c) = Visit(<<>>, Root, FALSE, FetchedRoot.fresh, Nothing)
  BY <1>2 DEF VisitOf, Visit
<1>5. RootSubquery = Asked(input, VisitOf(c))
  BY <1>4 DEF RootSubquery, Asked, Visit
<1>6. c.resource \in Resources /\ c.object /\ ~c.iterable /\ ~c.raw /\ IsObject(c.resource)
  BY <1>2, TreeAssumption
<1>7. Kind[c.resource] # "raw"
  BY <1>6 DEF IsObject
<1>8. QED BY <1>1, <1>3, <1>4, <1>5, <1>6, <1>7 DEF RootIsStart, c

LEMMA FetchRootStep == ASSUME Inv, FetchRoot PROVE Inv'
<1> DEFINE c == RootContext
<1>1. /\ at = "root" /\ input.op # "resume" /\ input \in Inputs
      /\ FetchedRoot.code = "ok" /\ IsObject(Root) /\ Enqueue(c, RootSubquery)
  BY DEF FetchRoot, Inv, TypeOK, SoundInv, StartInv
<1>2. RootIsStart(c)
  BY <1>1, FetchedRootStart
<1> HIDE DEF c
<1>3. QED BY <1>1, <1>2, EnqueueStep DEF RootIsStart

\* The context that Resume starts with.
LEMMA ResumedContext ==
  ASSUME Inv, at = "start", input.op = "resume"
  PROVE  /\ context.resource \in Resources /\ (context.object <=> IsObject(context.resource))
         /\ context.iterable => context.object
         /\ Starts(input) = {VisitOf(context)}
         /\ ResumeSubquery = Asked(input, VisitOf(context))
         /\ ResumeSubquery # NoSubquery => (context.raw <=> Kind[context.resource] = "raw")
<1> DEFINE r == input.start[2]
<1>1. context = [Response(NoContext, r, TRUE) EXCEPT !.raw = FALSE, !.node = input.start[1]]
  BY DEF Inv, SoundInv, StartInv
<1>2. r \in Resources /\ input.start[1] \in trie.nodes
  BY InputType DEF Inv, TypeOK
<1>3. context = [resource |-> r, object |-> IsObject(r), iterable |-> Kind[r] = "collection", raw |-> FALSE,
                 fresh |-> TRUE, node |-> input.start[1], found |-> Nothing]
  BY <1>1 DEF Response, NoContext
<1>4. /\ context.resource = r /\ context.node = input.start[1] /\ context.found = Nothing
      /\ (context.object <=> IsObject(r)) /\ (context.iterable <=> Kind[r] = "collection") /\ ~context.raw
  BY <1>3
<1>5. VisitOf(context) = Visit(input.start[1], r, Kind[r] = "collection", TRUE, Nothing)
  BY <1>3 DEF VisitOf, Visit
<1>6. Starts(input) = {VisitOf(context)}
  BY <1>5 DEF Starts
<1>7. ResumeSubquery = Asked(input, VisitOf(context))
  BY <1>4, VisitOfFields DEF ResumeSubquery, Asked
<1>8. ResumeSubquery # NoSubquery => context.object
  BY DEF ResumeSubquery
<1>9. QED BY <1>2, <1>4, <1>6, <1>7, <1>8 DEF IsObject

LEMMA ResumeBeginsStep == ASSUME Inv, ResumeBegins PROVE Inv'
<1>1. at = "start" /\ input.op = "resume" /\ Enqueue(context, ResumeSubquery) /\ context \in Contexts
  BY DEF ResumeBegins, Inv, TypeOK
<1>2. QED BY <1>1, ResumedContext, EnqueueStep

LEMMA ResumeRefusedStep == ASSUME Inv, ResumeRefused PROVE Inv'
<1> DEFINE q == ResumeSubquery
           n == TryNormalize(result, context, q)
           u == VisitOf(context)
<1>1. /\ at = "start" /\ input.op = "resume" /\ result' = n.results /\ at' = "done" /\ code' = "internal"
      /\ UNCHANGED <<input, possible, owed, visited, cancelled, node_queue, context, todo, expression, index,
                     contexts, uris, subscriptions>>
  BY DEF ResumeRefused, history, walk
<1>2. input \in Inputs /\ result \in Seq(ResultType) /\ context \in Contexts
  BY DEF Inv, TypeOK, ResultType
<1>3. q \in Subqueries \union {NoSubquery}
  BY <1>2, TrieType DEF ResumeSubquery, Contexts
<1>4. n.results \in Seq(ResultType) /\ AnswersIn(n.results) = AnswersIn(result) \union Own(input, u)
  BY <1>1, <1>2, <1>3, ResumedContext, NormalizeAnswers
<1> HIDE DEF n, u
<1>5. Own(input, u) \subseteq Possible(input)
  BY <1>1, ResumedContext, StartIsPossible DEF u
<1>6. Answer' \subseteq Possible(input)
  <2>1. Answer' = AnswersIn(result') \union UrisIn(subscriptions')
    BY DEF Answer, AnswersIn, UrisIn
  <2>2. QED BY <1>1, <1>4, <1>5, <2>1, AnswerIs DEF Inv, SoundInv, AnswerInv
<1>7. TypeOK'
  BY <1>1, <1>4 DEF Inv, TypeOK, ResultType, Codes
<1>8. QED BY <1>1, <1>6, <1>7, Ended

-----------------------------------------------------------------------------
(* The traversal. *)

LEMMA CancelStep == ASSUME Inv, Cancel PROVE Inv'
  BY Unchanged DEF Cancel

LEMMA StutterStep == ASSUME Inv, UNCHANGED vars PROVE Inv'
<1>1. UNCHANGED <<input, history, at, walk, result, code, subscriptions>> /\ cancelled' \in BOOLEAN
  BY DEF vars, Inv, TypeOK
<1>2. QED BY <1>1, Unchanged

LEMMA PopStep == ASSUME Inv, Pop PROVE Inv'
<1>1. /\ at = "pop" /\ uris' = {}
      /\ UNCHANGED <<input, possible, owed, visited, cancelled, expression, index, contexts, result, code, subscriptions>>
  BY DEF Pop, history
<1>2. Answer' = Answer
  BY <1>1 DEF Answer
<1>3. node_queue \in Seq(Contexts) /\ context \in Contexts
  BY DEF Inv, TypeOK
<1>4. Clean(input', code') => StartsInv' /\ VisitedInv
  BY <1>1, <1>2 DEF Inv, CompleteInv, StartsInv, Pop
<1>5. HistoryInv' /\ AnswerInv'
  BY <1>1, <1>2 DEF Inv, SoundInv, HistoryInv, AnswerInv
<1>6. CASE node_queue = <<>>
  <2>1. at' = "final" /\ UNCHANGED <<node_queue, context, todo>>
    BY <1>6 DEF Pop
  <2>2. TypeOK'
    BY <1>1, <2>1 DEF Inv, TypeOK
  <2>3. StartInv' /\ QueueInv' /\ ContextInv' /\ ContextsInv' /\ UrisInv'
    BY <1>1, <1>6, <2>1 DEF StartInv, QueueInv, ContextInv, ContextsInv, UrisInv
  <2>4. ASSUME Clean(input', code') PROVE VisitedInv'
    BY <1>1, <1>2, <1>4, <1>6, <2>1, <2>4 DEF VisitedInv
  <2>5. ExpressionsInv' /\ MemberInv' /\ DeliverInv' /\ FinalInv'
    BY <1>6, <2>1 DEF ExpressionsInv, MemberInv, DeliverInv, FinalInv
  <2>6. QED BY <1>4, <1>5, <2>2, <2>3, <2>4, <2>5 DEF Inv, SoundInv, CompleteInv
<1>7. CASE node_queue # <<>>
  <2>1. /\ context' = Head(node_queue) /\ node_queue' = Tail(node_queue)
        /\ todo' = ChildExpressions(trie, Head(node_queue).node) /\ at' = "expression"
    BY <1>7 DEF Pop
  <2>2. /\ Head(node_queue) = node_queue[1] /\ 1 \in DOMAIN node_queue
        /\ Tail(node_queue) \in Seq(Contexts) /\ Head(node_queue) \in Contexts
        /\ Len(node_queue) \in Nat /\ Len(Tail(node_queue)) = Len(node_queue) - 1
        /\ \A i \in 1 .. Len(Tail(node_queue)) : Tail(node_queue)[i] = node_queue[i + 1]
        /\ DOMAIN node_queue = 1 .. Len(node_queue)
        /\ DOMAIN Tail(node_queue) = 1 .. Len(Tail(node_queue))
    BY <1>3, <1>7, HeadTailProperties, LenProperties, EmptySeq
  <2>3. TypeOK'
    BY <1>1, <2>1, <2>2 DEF Inv, TypeOK
  <2>4. StartInv' /\ ContextsInv' /\ UrisInv'
    BY <1>1, <2>1 DEF StartInv, ContextsInv, UrisInv
  <2>5. \A i \in DOMAIN Tail(node_queue) :
          \E j \in DOMAIN node_queue : Tail(node_queue)[i] = node_queue[j]
    BY <2>2
  <2>6. \A j \in DOMAIN node_queue : j # 1 =>
          \E i \in DOMAIN Tail(node_queue) : Tail(node_queue)[i] = node_queue[j]
    <3>1. SUFFICES ASSUME NEW j \in DOMAIN node_queue, j # 1
                   PROVE  j - 1 \in DOMAIN Tail(node_queue) /\ Tail(node_queue)[j - 1] = node_queue[j]
      OBVIOUS
    <3>2. j - 1 \in 1 .. Len(Tail(node_queue)) /\ (j - 1) + 1 = j
      BY <2>2, <3>1
    <3>3. QED BY <2>2, <3>2
  <2>7. QueueInv' /\ ContextInv'
    <3>1. \A j \in DOMAIN node_queue : InWalk(node_queue[j])
      BY DEF Inv, SoundInv, QueueInv
    <3>2. QED BY <1>1, <2>1, <2>2, <2>5, <3>1 DEF QueueInv, ContextInv, InWalk
  <2>8. ASSUME Clean(input', code') PROVE VisitedInv'
    <3>1. SUFFICES ASSUME NEW v \in visited,
                          ~ \E i \in DOMAIN Tail(node_queue) : VisitOf(Tail(node_queue)[i]) = v
                   PROVE  v = VisitOf(Head(node_queue)) \/ AllHandled(input, Answer, visited, v)
      BY <1>1, <1>2, <2>1 DEF VisitedInv
    <3>2. (\E i \in DOMAIN node_queue : VisitOf(node_queue[i]) = v) \/ AllHandled(input, Answer, visited, v)
      BY <1>1, <1>4, <2>8 DEF VisitedInv
    <3>3. QED BY <2>2, <2>6, <3>1, <3>2
  <2>9. ExpressionsInv' /\ MemberInv' /\ DeliverInv' /\ FinalInv'
    BY <2>1 DEF ExpressionsInv, MemberInv, DeliverInv, FinalInv
  <2>10. QED BY <1>4, <1>5, <2>3, <2>4, <2>7, <2>8, <2>9 DEF Inv, SoundInv, CompleteInv
<1>8. QED BY <1>6, <1>7

LEMMA PoppedStep == ASSUME Inv, Popped PROVE Inv'
<1>1. /\ at = "expression" /\ at' = "pop" /\ todo = {}
      /\ UNCHANGED <<input, possible, owed, visited, cancelled, node_queue, context, todo, expression, index,
                     contexts, uris, result, code, subscriptions>>
  BY DEF Popped, history, walk
<1>2. Answer' = Answer
  BY <1>1 DEF Answer
<1>3. TypeOK'
  BY <1>1 DEF Inv, TypeOK
<1>4. SoundInv'
  BY <1>1, <1>2 DEF Inv, SoundInv, StartInv, QueueInv, ContextInv, ContextsInv, UrisInv, HistoryInv, AnswerInv, InWalk
<1>5. ASSUME Clean(input', code') PROVE StartsInv' /\ VisitedInv'
  <2>1. StartsInv /\ VisitedInv /\ ExpressionsInv
    BY <1>1, <1>5 DEF Inv, CompleteInv
  <2>2. AllHandled(input, Answer, visited, VisitOf(context))
    BY <1>1, <2>1, VisitOfFields DEF ExpressionsInv, AllHandled
  <2>3. StartsInv'
    BY <1>1, <1>2, <2>1 DEF StartsInv
  <2>4. VisitedInv'
    BY <1>1, <1>2, <2>1, <2>2 DEF VisitedInv
  <2>5. QED BY <2>3, <2>4
<1>6. ExpressionsInv' /\ MemberInv' /\ DeliverInv' /\ FinalInv'
  BY <1>1 DEF ExpressionsInv, MemberInv, DeliverInv, FinalInv
<1>7. QED BY <1>3, <1>4, <1>5, <1>6 DEF Inv, CompleteInv

-----------------------------------------------------------------------------
(* The expressions of a node. *)

\* A context with an object, or with members, is a visit of the reference.
LEMMA Current ==
  ASSUME Inv, at \in {"expression", "member", "deliver"}
  PROVE  /\ input \in Inputs /\ context \in Contexts
         /\ Real(input, context) \/ (Hollow(context) /\ code # "none")
         /\ context.object \/ context.iterable => Real(input, context)
         /\ code = "none" => Real(input, context)
  BY DEF Inv, TypeOK, SoundInv, ContextInv, InWalk, Hollow

\* URIs that wait may be recorded under any expression of the node.
LEMMA WaitingIsPossible ==
  ASSUME Inv, at \in {"expression", "member", "deliver"}, NEW e \in ChildExpressions(trie, context.node),
         NEW u \in uris
  PROVE  UriAnswer(Prefix(e), u) \in Possible(input)
<1>1. Real(input, context) /\ uris \subseteq Pending(input, VisitOf(context))
  BY DEF Inv, SoundInv, UrisInv
<1>2. VisitOf(context) \in AllVisits(input) /\ VisitOf(context).node = context.node
  BY <1>1, VisitOfFields DEF Real
<1>3. QED BY <1>1, <1>2, GivenIsPossible DEF Prefix

LEMMA NothingReached ==
  ASSUME NEW g, NEW v, NEW e, ~SubscribesTo(g, v.node, e), Reached(g, v, e) = {}
  PROVE  Gives(g, v, e) = {} /\ LeadsTo(g, v, e) = {}
  BY DEF Gives, LeadsTo

\* Nothing is named, so that nothing is given and nothing met.
LEMMA NothingNamed ==
  ASSUME NEW g, NEW v, NEW e, Named(v, e) \intersect Resources = {}, e.type = "node" => Named(v, e) = {}
  PROVE  Gives(g, v, e) = {} /\ LeadsTo(g, v, e) = {}
<1>1. Fetched(g, v, e) = {}
  BY DEF Fetched
<1>2. Reached(g, v, e) = {}
  BY <1>1 DEF Reached
<1>3. Collected(g, v, e) = {}
  BY <1>1 DEF Collected
<1>4. QED BY <1>2, <1>3, NothingReached DEF Gives, LeadsTo

LEMMA SubscribeStep ==
  ASSUME Inv, NEW e \in todo, Subscribe(e)
  PROVE  Inv'
<1> DEFINE v == VisitOf(context)
           new == IF e.type = "node" /\ Target(e) # Absent /\ Kind[Target(e)] # "value" THEN {Target(e)} ELSE {}
           pending == uris \union new
<1>1. /\ at = "expression" /\ todo' = todo \ {e} /\ context.object
      /\ ~(context.iterable /\ e.type = "predicate")
      /\ Subscribes(e) /\ Executed(e, <<>>, pending)
  BY DEF Subscribe, Take
<1>2. e \in ChildExpressions(trie, context.node)
  BY DEF Inv, TypeOK
<1>3. input \in Inputs /\ Real(input, context) /\ v \in AllVisits(input) /\ v.node = context.node
      /\ v.iterable = context.iterable
  BY <1>1, Current, VisitOfFields DEF Real
<1>4. Collected(input, v, e) = new
  <2>1. CASE e.type = "predicate"
    BY <1>1, <1>3, <2>1 DEF Collected
  <2>2. CASE e.type = "node"
    <3>1. Collected(input, v, e) = {r \in Named(v, e) : Kind[r] # "value"}
      BY <2>2 DEF Collected
    <3>2. CASE Target(e) # Absent
      BY <1>1, <1>3, <2>2, <3>1, <3>2, TargetIs
    <3>3. CASE Target(e) = Absent
      <4>1. Named(v, e) \subseteq {Absent} /\ Named(v, e) \subseteq Resources
        BY <1>1, <1>3, <2>2, <3>3, TargetIs
      <4>2. Named(v, e) = {}
        BY <4>1, TreeAssumption
      <4>3. QED BY <3>1, <3>3, <4>2
    <3>4. QED BY <3>2, <3>3
  <2>3. CASE e.type \notin {"predicate", "node"}
    BY <2>3 DEF Collected
  <2>4. QED BY <2>1, <2>2, <2>3
<1>5. /\ Gives(input, v, e) = {UriAnswer(Prefix(e), r) : r \in new}
      /\ LeadsTo(input, v, e) = {}
  BY <1>1, <1>3, <1>4 DEF Gives, LeadsTo, Subscribes, Prefix
<1> HIDE DEF new
<1>6. \A u \in pending : UriAnswer(Prefix(e), u) \in Possible(input)
  <2>1. \A u \in uris : UriAnswer(Prefix(e), u) \in Possible(input)
    BY <1>1, <1>2, WaitingIsPossible
  <2>2. Gives(input, v, e) \subseteq Possible(input)
    BY <1>2, <1>3, GivenIsPossible
  <2>3. QED BY <1>5, <2>1, <2>2
<1>7. Gives(input, v, e) \subseteq Answer \union {UriAnswer(Prefix(e), u) : u \in pending}
  BY <1>5
<1> HIDE DEF pending, v
<1>8. QED BY <1>1, <1>2, <1>5, <1>6, <1>7, ExecutedNothing DEF v

\* The context an expression makes for what it has reached.
LEMMA ResponseIs ==
  ASSUME NEW c \in Contexts, NEW r \in Resources, NEW f \in BOOLEAN, NEW x, x = Response(c, r, f)
  PROVE  /\ x \in Contexts
         /\ x.resource = r /\ x.fresh = f /\ (x.object <=> IsObject(r)) /\ (x.raw <=> Kind[r] = "raw")
         /\ (x.iterable <=> Kind[r] = "collection") /\ x.node = c.node /\ x.found = c.found
<1>1. /\ (Kind[r] = "collection") \in BOOLEAN /\ (Kind[r] = "raw") \in BOOLEAN /\ IsObject(r) \in BOOLEAN
  BY DEF IsObject
<1>2. /\ x.resource = r /\ x.fresh = f /\ x.object = IsObject(r) /\ x.raw = (Kind[r] = "raw")
      /\ x.iterable = (Kind[r] = "collection") /\ x.node = c.node /\ x.found = c.found
  BY DEF Response, Contexts
<1>3. x \in Contexts
  BY <1>1 DEF Response, Contexts
<1>4. QED BY <1>2, <1>3

LEMMA ObjectOnlyIs ==
  ASSUME NEW c \in Contexts, NEW r \in Resources, NEW f \in BOOLEAN, NEW x, x = ObjectOnly(c, r, f)
  PROVE  /\ x \in Contexts
         /\ x.resource = r /\ x.fresh = f /\ x.object /\ ~x.raw
         /\ ~x.iterable /\ x.node = c.node /\ x.found = c.found
  BY DEF ObjectOnly, Contexts

\* Moved to the child node it is the visit of the reference.
LEMMA BornIs ==
  ASSUME NEW g, NEW c \in Contexts, NEW e, ~SubscribesTo(g, c.node, e),
         NEW x \in Contexts, x.found = c.found, x.resource \in Reached(g, VisitOf(c), e),
         x.iterable <=> e.type # "predicate" /\ Kind[x.resource] = "collection",
         x.fresh = Met(g, VisitOf(c), e, x.resource).fresh,
         x.object <=> IsObject(x.resource), x.raw <=> Kind[x.resource] = "raw"
  PROVE  Born(g, c, e, x)
<1> DEFINE v == VisitOf(c)
           u == Met(g, v, e, x.resource)
<1>1. VisitOf([x EXCEPT !.node = Append(c.node, e)]) =
        Visit(Append(c.node, e), x.resource, x.iterable, x.fresh, c.found)
  BY DEF VisitOf, Visit, Contexts
<1>2. v.node = c.node /\ v.above = c.found
  BY VisitOfFields
<1>3. /\ u = Visit(u.node, u.resource, u.iterable, u.fresh, u.above) /\ u.iterable \in BOOLEAN
      /\ u.iterable <=> e.type # "predicate" /\ Kind[x.resource] = "collection"
  BY DEF Met, Visit
<1>4. u.node = Append(c.node, e) /\ u.resource = x.resource /\ u.above = c.found
  BY <1>2, MetPlace
<1> HIDE DEF u, v
<1>5. x.iterable \in BOOLEAN
  BY DEF Contexts
<1>6. u.iterable = x.iterable
  BY <1>3, <1>5
<1>7. VisitOf([x EXCEPT !.node = Append(c.node, e)]) = u
  BY <1>1, <1>3, <1>4, <1>6 DEF u, v
<1>8. QED BY <1>7 DEF Born, u, v

LEMMA NavigateStep ==
  ASSUME Inv, NEW e \in todo, Navigate(e)
  PROVE  Inv'
<1> DEFINE v == VisitOf(context)
           r == Target(e)
           got == FetchTarget(e)
           x == Response(context, r, got.fresh)
<1>1. /\ at = "expression" /\ todo' = todo \ {e} /\ context.object /\ e.type # "predicate"
      /\ ~Subscribes(e)
  BY DEF Navigate, Take
<1>2. e \in ChildExpressions(trie, context.node)
  BY DEF Inv, TypeOK
<1>3. input \in Inputs /\ context \in Contexts /\ Real(input, context) /\ v.node = context.node
  BY <1>1, Current, VisitOfFields
<1>4. ~SubscribesTo(input, v.node, e) /\ ~SubscribesTo(input, context.node, e)
  BY <1>1, <1>3 DEF Subscribes
<1>5. \A u \in uris : UriAnswer(Prefix(e), u) \in Possible(input)
  BY <1>1, <1>2, WaitingIsPossible
<1>6. Reached(input, v, e) = {} =>
        /\ Gives(input, v, e) = {} /\ LeadsTo(input, v, e) = {}
        /\ Handled(input, Answer, visited, v, e)
  BY <1>4, NothingReached DEF Handled
<1>7. CASE cancelled
  <2>1. Failed("cancelled")
    BY <1>7 DEF Navigate
  <2>2. "cancelled" \in StatusCodes
    BY DEF StatusCodes
  <2>3. QED BY <1>1, <1>2, <2>1, <2>2, FailedStep
<1>8. CASE ~cancelled /\ r = Absent
  <2>1. Executed(e, <<>>, uris)
    BY <1>8 DEF Navigate
  <2>2. Named(v, e) \subseteq {Absent} /\ (e.type = "node" => Named(v, e) \subseteq Resources)
    BY <1>1, <1>3, <1>8, TargetIs
  <2>3. Gives(input, v, e) = {} /\ LeadsTo(input, v, e) = {}
    BY <2>2, NothingNamed, TreeAssumption
  <2>4. QED BY <1>1, <1>2, <1>5, <2>1, <2>3, ExecutedNothing
<1>9. CASE ~cancelled /\ r # Absent /\ r \notin Resources
  <2>1. Failed("notfound")
    BY <1>9 DEF Navigate
  <2>2. Named(v, e) = {r}
    BY <1>1, <1>3, <1>9, TargetIs
  <2>3. Reached(input, v, e) = {}
    BY <1>9, <2>2 DEF Reached, Fetched
  <2>4. "notfound" \in StatusCodes
    BY DEF StatusCodes, Healths
  <2>5. QED BY <1>1, <1>2, <1>6, <2>1, <2>3, <2>4, FailedStep
<1>10. CASE ~cancelled /\ r \in Resources /\ Kind[r] = "value"
  <2>1. r # Absent
    BY <1>10, TreeAssumption
  <2>2. Executed(e, <<>>, uris)
    BY <1>10, <2>1 DEF Navigate
  <2>3. Named(v, e) = {r}
    BY <1>1, <1>3, <2>1, TargetIs
  <2>4. Reached(input, v, e) = {}
    BY <1>1, <1>10, <2>3 DEF Reached, Fetched
  <2>5. QED BY <1>1, <1>2, <1>5, <1>6, <2>2, <2>4, ExecutedNothing
<1>11. CASE ~cancelled /\ r \in Resources /\ Kind[r] # "value"
  <2>1. r # Absent
    BY <1>11, TreeAssumption
  <2>2. IF got.code = "ok" THEN Executed(e, <<x>>, uris) ELSE Failed(got.code)
    BY <1>11, <2>1 DEF Navigate
  <2>3. /\ got.code = "ok" => Reached(input, v, e) = {r}
        /\ got.code # "ok" => Reached(input, v, e) = {}
        /\ got.code = "ok" => got.fresh = Met(input, v, e, r).fresh
        /\ got.code \in StatusCodes /\ got.fresh \in BOOLEAN
    BY <1>1, <1>3, <1>11, FetchTargetIs
  <2> HIDE DEF got
  <2>4. CASE got.code = "ok"
    <3>1. PICK y : y = x
      OBVIOUS
    <3>2. /\ y \in Contexts /\ y.resource = r /\ y.fresh = got.fresh /\ (y.object <=> IsObject(r))
          /\ (y.raw <=> Kind[r] = "raw") /\ (y.iterable <=> Kind[r] = "collection") /\ y.found = context.found
      BY <1>3, <1>11, <2>3, <3>1, ResponseIs
    <3>3. Born(input, context, e, y)
      BY <1>1, <1>3, <1>4, <2>3, <2>4, <3>2, BornIs
    <3>4. Executed(e, <<y>>, uris)
      BY <2>2, <2>4, <3>1
    <3>5. <<y>> \in Seq(Contexts) /\ <<y>> # <<>> /\ DOMAIN <<y>> = {1} /\ <<y>>[1] = y
      BY <3>2
    <3>6. \A i \in DOMAIN <<y>> : Real(input, context) /\ Born(input, context, e, <<y>>[i])
      BY <1>3, <3>3, <3>5
    <3>7. \A z \in Reached(input, v, e) : \E j \in DOMAIN <<y>> : <<y>>[j].resource = z
      BY <2>3, <2>4, <3>2, <3>5
    <3>8. QED BY <1>1, <1>2, <3>4, <3>5, <3>6, <3>7, ExecutedSome
  <2>5. CASE got.code # "ok"
    BY <1>1, <1>2, <1>6, <2>2, <2>3, <2>5, FailedStep
  <2>6. QED BY <2>4, <2>5
<1>12. QED BY <1>7, <1>8, <1>9, <1>10, <1>11

LEMMA FilterObjectStep ==
  ASSUME Inv, NEW e \in todo, FilterObject(e)
  PROVE  Inv'
<1> DEFINE v == VisitOf(context)
           r == context.resource
<1>1. /\ at = "expression" /\ todo' = todo \ {e} /\ context.object /\ ~context.iterable
      /\ e.type = "predicate" /\ ~Subscribes(e)
  BY DEF FilterObject, Take
<1>2. e \in ChildExpressions(trie, context.node)
  BY DEF Inv, TypeOK
<1>3. /\ input \in Inputs /\ context \in Contexts /\ Real(input, context) /\ v.node = context.node
      /\ r \in Resources /\ IsObject(r) /\ v.resource = r /\ v.iterable = context.iterable /\ v.fresh = context.fresh
  BY <1>1, Current, VisitOfFields DEF Real
<1>4. ~SubscribesTo(input, v.node, e) /\ ~SubscribesTo(input, context.node, e)
  BY <1>1, <1>3 DEF Subscribes
<1>5. \A u \in uris : UriAnswer(Prefix(e), u) \in Possible(input)
  BY <1>1, <1>2, WaitingIsPossible
<1>6. Reached(input, v, e) = {} =>
        /\ Gives(input, v, e) = {} /\ LeadsTo(input, v, e) = {}
        /\ Handled(input, Answer, visited, v, e)
  BY <1>4, NothingReached DEF Handled
<1>7. Reached(input, v, e) = {z \in {r} : (context.fresh \/ Serves(input, z)) /\ Accepts(e, z)}
  <2>1. Named(v, e) = {r}
    BY <1>1, <1>3 DEF Named
  <2>2. Fetched(input, v, e) = {z \in {r} : context.fresh \/ Serves(input, z)}
    BY <1>1, <1>3, <2>1 DEF Fetched
  <2>3. QED BY <1>1, <2>2 DEF Reached
<1>8. input.health[r] \in Healths /\ (Serves(input, r) <=> input.health[r] \in {"ok", "malformed", "uncomparable"})
  BY <1>3, InputType DEF Serves
<1>9. CASE cancelled
  <2>1. Failed("cancelled")
    BY <1>9 DEF FilterObject
  <2>2. "cancelled" \in StatusCodes
    BY DEF StatusCodes
  <2>3. QED BY <1>1, <1>2, <2>1, <2>2, FailedStep
<1>9a. CASE ~cancelled /\ Undecided(input, e, r)
  <2>1. Failed("internal")
    BY <1>9a DEF FilterObject
  <2>2. "internal" \in StatusCodes
    BY DEF StatusCodes
  <2>3. QED BY <1>1, <1>2, <2>1, <2>2, FailedStep
<1>10. CASE ~cancelled /\ ~Undecided(input, e, r) /\ ~context.fresh /\ ~Serves(input, r)
  <2>1. Failed(input.health[r])
    BY <1>10 DEF FilterObject
  <2>2. input.health[r] \in StatusCodes /\ input.health[r] # "ok"
    BY <1>8, <1>10 DEF StatusCodes, Healths
  <2>3. Reached(input, v, e) = {}
    BY <1>7, <1>10
  <2>4. QED BY <1>1, <1>2, <1>6, <2>1, <2>2, <2>3, FailedStep
<1>11. CASE ~cancelled /\ ~Undecided(input, e, r) /\ (context.fresh \/ Serves(input, r)) /\ ~Accepts(e, r)
  <2>1. Executed(e, <<>>, uris)
    BY <1>11 DEF FilterObject
  <2>2. Reached(input, v, e) = {}
    BY <1>7, <1>11
  <2>3. QED BY <1>1, <1>2, <1>5, <1>6, <2>1, <2>2, ExecutedNothing
<1>12. CASE ~cancelled /\ ~Undecided(input, e, r) /\ (context.fresh \/ Serves(input, r)) /\ Accepts(e, r)
  <2>1. PICK f \in BOOLEAN : f = TRUE
    OBVIOUS
  <2>1a. PICK y : y = ObjectOnly(context, r, f)
    OBVIOUS
  <2>2. Executed(e, <<y>>, uris)
    BY <1>12, <2>1, <2>1a DEF FilterObject
  <2>3. Reached(input, v, e) = {r}
    BY <1>7, <1>12
  <2>4. /\ y \in Contexts /\ y.resource = r /\ y.fresh = f /\ y.object /\ ~y.raw
        /\ ~y.iterable /\ y.found = context.found
    BY <1>3, <2>1a, ObjectOnlyIs
  <2>5. Met(input, v, e, r).fresh = TRUE
    BY <1>1, <1>3 DEF Met, Visit
  <2>6. Kind[r] # "raw"
    BY <1>3 DEF IsObject
  <2>7. Born(input, context, e, y)
    BY <1>1, <1>3, <1>4, <2>1, <2>3, <2>4, <2>5, <2>6, BornIs
  <2>8. <<y>> \in Seq(Contexts) /\ <<y>> # <<>> /\ DOMAIN <<y>> = {1} /\ <<y>>[1] = y
    BY <2>4
  <2>9. \A i \in DOMAIN <<y>> : Real(input, context) /\ Born(input, context, e, <<y>>[i])
    BY <1>3, <2>7, <2>8
  <2>10. \A z \in Reached(input, v, e) : \E j \in DOMAIN <<y>> : <<y>>[j].resource = z
    BY <2>3, <2>4, <2>8
  <2>11. QED BY <1>1, <1>2, <2>2, <2>8, <2>9, <2>10, ExecutedSome
<1>13. QED BY <1>9, <1>9a, <1>10, <1>11, <1>12

LEMMA NothingToDoStep ==
  ASSUME Inv, NEW e \in todo, NothingToDo(e)
  PROVE  Inv'
<1> DEFINE v == VisitOf(context)
<1>1. /\ at = "expression" /\ todo' = todo \ {e} /\ ~context.object /\ Executed(e, <<>>, uris)
  BY DEF NothingToDo, Take
<1>2. e \in ChildExpressions(trie, context.node)
  BY DEF Inv, TypeOK
<1>3. \A u \in uris : UriAnswer(Prefix(e), u) \in Possible(input)
  BY <1>1, <1>2, WaitingIsPossible
<1>4. ASSUME Clean(input, code) PROVE Gives(input, v, e) = {} /\ LeadsTo(input, v, e) = {}
  <2>1. Real(input, context)
    BY <1>1, <1>4, Current DEF Clean
  <2>2. ~IsObject(v.resource)
    BY <1>1, <2>1, VisitOfFields DEF Real
  <2>3. Named(v, e) = {}
    BY <2>2 DEF Named
  <2>4. QED BY <2>3, NothingNamed
<1>5. QED BY <1>1, <1>2, <1>3, <1>4, ExecutedNothing

-----------------------------------------------------------------------------
(* The loop over the members of a collection. *)

LEMMA SubstitutionFailsStep ==
  ASSUME Inv, NEW e \in todo, SubstitutionFails(e)
  PROVE  Inv'
<1>1. at = "expression" /\ todo' = todo \ {e} /\ Failed("internal")
  BY DEF SubstitutionFails, Take
<1>2. e \in ChildExpressions(trie, context.node)
  BY DEF Inv, TypeOK
<1>3. "internal" \in StatusCodes
  BY DEF StatusCodes
<1>4. QED BY <1>1, <1>2, <1>3, FailedStep

LEMMA FilterMembersStep ==
  ASSUME Inv, NEW e \in todo, FilterMembers(e)
  PROVE  Inv'
<1>1. /\ at = "expression" /\ todo' = todo \ {e} /\ context.iterable /\ e.type = "predicate"
      /\ at' = "member" /\ expression' = e /\ index' = 1 /\ contexts' = <<>>
      /\ UNCHANGED <<input, history, node_queue, context>>
      /\ UNCHANGED <<input, possible, owed, visited, cancelled, node_queue, context, uris, result, code,
                     subscriptions>>
  BY DEF FilterMembers, Take, history
<1>2. e \in ChildExpressions(trie, context.node)
  BY DEF Inv, TypeOK
<1>3. Answer' = Answer /\ Answer \subseteq Possible(input)
  BY <1>1 DEF Answer, Inv, SoundInv, AnswerInv
<1>4. TypeOK'
  <2>1. <<>> \in Seq(Contexts)
    OBVIOUS
  <2>2. QED BY <1>1, <1>2, <2>1 DEF Inv, TypeOK
<1>5. ContextsInv' /\ UrisInv'
  BY <1>1 DEF Inv, SoundInv, ContextsInv, UrisInv
<1>6. /\ StartInv' /\ QueueInv' /\ ContextInv' /\ HistoryInv' /\ AnswerInv'
      /\ Clean(input', code') => Clean(input, code) /\ StartsInv' /\ VisitedInv'
  BY <1>1, <1>3, Kept
<1>7. ASSUME Clean(input', code') PROVE ExpressionsInv'
  <2>1. ExpressionsInv
    BY <1>6, <1>7 DEF Inv, CompleteInv
  <2>2. QED BY <1>1, <1>3, <2>1 DEF ExpressionsInv
<1>8. MemberInv' /\ DeliverInv' /\ FinalInv'
  BY <1>1 DEF MemberInv, DeliverInv, FinalInv
<1>9. QED BY <1>4, <1>5, <1>6, <1>7, <1>8 DEF Inv, SoundInv, CompleteInv

LEMMA InMembers ==
  ASSUME Inv, at = "member"
  PROVE  /\ input \in Inputs /\ context \in Contexts /\ Real(input, context) /\ context.iterable
         /\ expression.type = "predicate" /\ expression \in ChildExpressions(trie, context.node)
         /\ index \in Nat /\ index >= 1
         /\ Members[context.resource] \in Seq(Resources)
         /\ DOMAIN Members[context.resource] = 1 .. Len(Members[context.resource])
         /\ Len(Members[context.resource]) \in Nat
         /\ Collected(input, VisitOf(context), expression) = Fetched(input, VisitOf(context), expression)
         /\ Fetched(input, VisitOf(context), expression) \subseteq
              {Members[context.resource][i] : i \in 1 .. Len(Members[context.resource])}
         /\ \A r : r \in Reached(input, VisitOf(context), expression) <=>
                     r \in Fetched(input, VisitOf(context), expression) /\ Accepts(expression, r)
<1> DEFINE v == VisitOf(context)
           m == Members[context.resource]
<1>1. /\ input \in Inputs /\ context \in Contexts /\ expression \in ChildExpressions(trie, context.node)
      /\ index \in Nat
  BY DEF Inv, TypeOK
<1>2. context.iterable /\ expression.type = "predicate" /\ index >= 1
  BY <1>1 DEF Inv, SoundInv, ContextsInv
<1>3. Real(input, context)
  BY <1>2, Current
<1>4. v.iterable /\ v.resource = context.resource /\ IsObject(v.resource) /\ context.resource \in Resources
  BY <1>2, <1>3, VisitOfFields DEF Real
<1>5. m \in Seq(Resources) /\ DOMAIN m = 1 .. Len(m) /\ Len(m) \in Nat
  BY <1>4, TreeAssumption, LenProperties
<1>6. Named(v, expression) = {m[i] : i \in 1 .. Len(m)}
  BY <1>2, <1>4, <1>5 DEF Named, ToSet
<1>7. Fetched(input, v, expression) \subseteq {m[i] : i \in 1 .. Len(m)}
  BY <1>6 DEF Fetched
<1>8. Collected(input, v, expression) = Fetched(input, v, expression)
  BY <1>2, <1>4 DEF Collected
<1>9. \A r : r \in Reached(input, v, expression) <=> r \in Fetched(input, v, expression) /\ Accepts(expression, r)
  BY <1>2 DEF Reached
<1>10. QED BY <1>1, <1>2, <1>3, <1>5, <1>7, <1>8, <1>9

\* A step of the loop keeps everything but what it collects.
LEMMA LoopStep ==
  ASSUME Inv, InLoop, at' = at, index' = index + 1,
         UNCHANGED <<input, history, cancelled, node_queue, context, todo, expression, result, subscriptions>>,
         code' \in Codes, code # "none" => code' # "none", contexts' \in Seq(Contexts),
         ContextsInv', UrisInv', uris' \subseteq Resources,
         Clean(input, code) /\ Clean(input', code') => MemberInv'
  PROVE  Inv'
<1>1. UNCHANGED <<input, possible, owed, visited, cancelled, node_queue, context, todo, expression, result, subscriptions>>
  BY DEF history
<1>2. at = "member" /\ index \in Nat /\ expression \in ChildExpressions(trie, context.node)
  BY DEF InLoop, Inv, TypeOK
<1>3. Answer' = Answer /\ Answer \subseteq Possible(input)
  BY <1>1 DEF Answer, Inv, SoundInv, AnswerInv
<1>4. TypeOK'
  BY <1>1, <1>2 DEF Inv, TypeOK
<1>5. /\ StartInv' /\ QueueInv' /\ ContextInv' /\ HistoryInv' /\ AnswerInv'
      /\ Clean(input', code') => Clean(input, code) /\ StartsInv' /\ VisitedInv'
  BY <1>1, <1>2, <1>3, Kept
<1>6. ASSUME Clean(input', code') PROVE ExpressionsInv'
  <2>1. ExpressionsInv
    BY <1>5, <1>6 DEF Inv, CompleteInv
  <2>2. QED BY <1>1, <1>3, <2>1 DEF ExpressionsInv
<1>7. Clean(input', code') => MemberInv'
  BY <1>5
<1>8. DeliverInv' /\ FinalInv'
  BY <1>2 DEF DeliverInv, FinalInv
<1>9. QED BY <1>4, <1>5, <1>6, <1>7, <1>8 DEF Inv, SoundInv, CompleteInv

LEMMA MemberCancelledStep == ASSUME Inv, MemberCancelled PROVE Inv'
<1>1. /\ InLoop /\ at = "member" /\ contexts' = Append(contexts, Empty(context)) /\ code' = "cancelled"
      /\ index' = index + 1
      /\ UNCHANGED <<input, history, cancelled, at, node_queue, context, todo, expression, uris, result, subscriptions>>
  BY DEF MemberCancelled, InLoop
<1>2. PICK x : x = Empty(context)
  OBVIOUS
<1>3. context \in Contexts /\ contexts \in Seq(Contexts) /\ index \in Nat
  BY DEF Inv, TypeOK
<1>4. x \in Contexts /\ Hollow(x) /\ ~x.raw
  BY <1>2, <1>3 DEF Empty, Contexts, Hollow
<1>5. /\ contexts' \in Seq(Contexts) /\ Len(contexts) \in Nat
      /\ DOMAIN contexts' = 1 .. Len(contexts) + 1 /\ DOMAIN contexts = 1 .. Len(contexts)
      /\ \A i \in 1 .. Len(contexts) : contexts'[i] = contexts[i]
      /\ contexts'[Len(contexts) + 1] = x
  BY <1>1, <1>2, <1>3, <1>4, AppendProperties, LenProperties
<1>6. ContextsInv'
  <2>1. ContextsInv
    BY DEF Inv, SoundInv
  <2>2. ASSUME NEW i \in DOMAIN contexts'
        PROVE  \/ Real(input, context) /\ Born(input, context, expression, contexts'[i])
               \/ Hollow(contexts'[i]) /\ ~contexts'[i].raw
    <3>1. CASE i \in 1 .. Len(contexts)
      BY <1>1, <1>5, <2>1, <3>1 DEF ContextsInv
    <3>2. CASE i = Len(contexts) + 1
      BY <1>4, <1>5, <3>2
    <3>3. QED BY <1>5, <3>1, <3>2
  <2>3. QED BY <1>1, <1>3, <2>1, <2>2 DEF ContextsInv
<1>7. UrisInv' /\ uris' \subseteq Resources
  BY <1>1 DEF Inv, TypeOK, SoundInv, UrisInv
<1>8. code' \in Codes /\ code' # "none" /\ ~Clean(input', code')
  BY <1>1 DEF Codes, Clean
<1>9. QED BY <1>1, <1>5, <1>6, <1>7, <1>8, LoopStep

\* One more member has been met.
LEMMA OneMoreMember ==
  ASSUME Inv, InLoop, Clean(input, code), index' = index + 1, UNCHANGED <<input, context, expression>>,
         uris \subseteq uris',
         \A j \in DOMAIN contexts : \E k \in DOMAIN contexts' : contexts'[k].resource = contexts[j].resource,
         SubscribesTo(input, context.node, expression) =>
           (Member \in Collected(input, VisitOf(context), expression) => Member \in uris'),
         ~SubscribesTo(input, context.node, expression) =>
           (Member \in Reached(input, VisitOf(context), expression) =>
              \E j \in DOMAIN contexts' : contexts'[j].resource = Member)
  PROVE  MemberInv'
<1>1. at = "member" /\ MemberInv /\ index \in Nat
  BY DEF InLoop, Inv, TypeOK, CompleteInv
<1>2. SUFFICES ASSUME NEW i \in 1 .. index, i <= Len(Members[context.resource])
               PROVE  MemberMet(i)'
  <2>1. 1 .. index' - 1 = 1 .. index
    BY <1>1
  <2>2. QED BY <1>2, <2>1 DEF MemberInv
<1>3. CASE i = index
  BY <1>3 DEF MemberMet, Member
<1>4. CASE i # index
  <2>1. i \in 1 .. index - 1
    BY <1>1, <1>4
  <2>2. MemberMet(i)
    BY <1>1, <1>2, <2>1 DEF MemberInv
  <2>3. QED BY <2>2 DEF MemberMet
<1>5. QED BY <1>3, <1>4

LEMMA MemberFailsStep == ASSUME Inv, MemberFails PROVE Inv'
<1> DEFINE v == VisitOf(context)
           status == FetchMember.code
<1>1. /\ InLoop /\ at = "member" /\ ~cancelled /\ status # "ok" /\ todo' = todo
      /\ index <= Len(Members[context.resource])
      /\ IF input.mode = "fail" THEN Failed(status)
         ELSE /\ code' = IF status = "notfound" THEN code ELSE ErrorCode(status)
              /\ index' = index + 1
              /\ UNCHANGED <<input, history, cancelled, at, node_queue, context, expression, contexts,
                             uris, result, subscriptions>>
  BY DEF MemberFails, InLoop
<1>2. /\ input \in Inputs /\ context \in Contexts /\ Real(input, context) /\ context.iterable
      /\ expression.type = "predicate" /\ expression \in ChildExpressions(trie, context.node)
      /\ index \in 1 .. Len(Members[context.resource])
      /\ Collected(input, v, expression) = Fetched(input, v, expression)
      /\ \A r : r \in Reached(input, v, expression) => r \in Fetched(input, v, expression)
  BY <1>1, InMembers
<1>3. /\ Member \notin Fetched(input, v, expression)
      /\ status = "notfound" => MissingMember(input)
      /\ status \in StatusCodes
  BY <1>1, <1>2, FetchMemberIs
<1>4. CASE input.mode = "fail"
  <2>1. Failed(status)
    BY <1>1, <1>4
  <2>2. ~(status = "notfound" /\ Clean(input, code))
    BY <1>3, <1>4 DEF Clean
  <2> HIDE DEF status, v
  <2>3. QED BY <1>1, <1>2, <1>3, <2>1, <2>2, FailedStep
<1>5. CASE input.mode # "fail"
  <2>1. /\ code' = IF status = "notfound" THEN code ELSE ErrorCode(status)
        /\ index' = index + 1
        /\ UNCHANGED <<input, history, cancelled, at, node_queue, context, todo, expression, contexts, uris,
                       result, subscriptions>>
    BY <1>1, <1>5
  <2>2. code' \in Codes /\ (code # "none" => code' # "none")
    <3>1. status # "notfound" => code' = status /\ status \in Codes /\ status # "none"
      BY <1>1, <1>3, <2>1 DEF ErrorCode, StatusCodes, Codes
    <3>2. QED BY <2>1, <3>1 DEF Inv, TypeOK
  <2>3. contexts' \in Seq(Contexts) /\ uris' \subseteq Resources
    BY <2>1 DEF Inv, TypeOK
  <2>4. ContextsInv' /\ UrisInv'
    <3>1. index' # 0
      BY <1>2, <2>1
    <3>2. QED BY <1>1, <2>1, <2>2, <3>1 DEF Inv, SoundInv, ContextsInv, UrisInv
  <2>5. Clean(input, code) => MemberInv'
    BY <1>1, <1>2, <1>3, <2>1, OneMoreMember
  <2>6. QED BY <1>1, <2>1, <2>2, <2>3, <2>4, <2>5, LoopStep
<1>6. QED BY <1>4, <1>5

LEMMA MemberUndecidedStep == ASSUME Inv, MemberUndecided PROVE Inv'
<1>1. at = "member" /\ todo' = todo /\ Failed("internal")
  BY DEF MemberUndecided, InLoop
<1>2. expression \in ChildExpressions(trie, context.node)
  BY <1>1, InMembers
<1>3. "internal" \in StatusCodes
  BY DEF StatusCodes
<1>4. QED BY <1>1, <1>2, <1>3, FailedStep

LEMMA MemberOkStep == ASSUME Inv, MemberOk PROVE Inv'
<1> DEFINE v == VisitOf(context)
           r == Member
           e == expression
           adds == IsObject(r) /\ ~Subscribes(e) /\ Accepts(e, r)
<1>1. /\ InLoop /\ at = "member" /\ FetchMember.code = "ok" /\ index' = index + 1
      /\ index <= Len(Members[context.resource])
      /\ uris' = IF IsObject(r) /\ Subscribes(e) THEN uris \union {r} ELSE uris
      /\ contexts' = IF adds THEN Append(contexts, ObjectOnly(context, r, FetchMember.fresh)) ELSE contexts
      /\ UNCHANGED <<input, history, cancelled, at, node_queue, context, todo, expression, result, code, subscriptions>>
  BY DEF MemberOk, Tested, InLoop
<1>2. /\ input \in Inputs /\ context \in Contexts /\ Real(input, context) /\ context.iterable
      /\ e.type = "predicate" /\ e \in ChildExpressions(trie, context.node)
      /\ index \in 1 .. Len(Members[context.resource]) /\ index \in Nat
      /\ Collected(input, v, e) = Fetched(input, v, e)
      /\ \A z : z \in Reached(input, v, e) <=> z \in Fetched(input, v, e) /\ Accepts(e, z)
  BY <1>1, InMembers
<1>3. /\ r \in Resources
      /\ IsObject(r) <=> r \in Fetched(input, v, e)
      /\ IsObject(r) => FetchMember.fresh = Met(input, v, e, r).fresh
      /\ FetchMember.fresh \in BOOLEAN
  BY <1>1, <1>2, FetchMemberIs
<1>4. Subscribes(e) <=> SubscribesTo(input, context.node, e)
  BY DEF Subscribes
<1>5. uris' \subseteq Resources /\ uris \subseteq uris'
  BY <1>1, <1>3 DEF Inv, TypeOK
<1>6. UrisInv'
  <2>1. ASSUME IsObject(r), Subscribes(e) PROVE r \in Pending(input, v)
    <3>1. v.node = context.node
      BY VisitOfFields
    <3>2. e \in {f \in ChildExpressions(trie, v.node) : f.type = "predicate" /\ SubscribesTo(input, v.node, f)}
      BY <1>2, <1>4, <2>1, <3>1
    <3>3. QED BY <1>2, <1>3, <2>1, <3>2 DEF Pending
  <2>2. uris = {} \/ uris \subseteq Pending(input, v)
    BY <1>1 DEF Inv, SoundInv, UrisInv
  <2>3. uris' \subseteq Pending(input, v)
    BY <1>1, <2>1, <2>2
  <2>4. QED BY <1>1, <1>2, <2>3 DEF UrisInv
<1>7. PICK x : x = ObjectOnly(context, r, FetchMember.fresh)
  OBVIOUS
<1>8. PICK f \in BOOLEAN : f = FetchMember.fresh
  BY <1>3
<1>9. /\ x \in Contexts /\ x.resource = r /\ x.fresh = FetchMember.fresh /\ x.object /\ ~x.raw /\ ~x.iterable
      /\ x.found = context.found
  <2>1. x = ObjectOnly(context, r, f)
    BY <1>7, <1>8
  <2>2. /\ x \in Contexts /\ x.resource = r /\ x.fresh = f /\ x.object /\ ~x.raw /\ ~x.iterable
        /\ x.found = context.found
    BY <1>2, <1>3, <2>1, ObjectOnlyIs
  <2>3. QED BY <1>8, <2>2
<1>10. ASSUME adds PROVE Born(input, context, e, x)
  <2>1. r \in Reached(input, v, e) /\ x.fresh = Met(input, v, e, r).fresh
    BY <1>2, <1>3, <1>9, <1>10
  <2>2. Kind[r] # "raw"
    BY <1>10 DEF IsObject
  <2>3. QED BY <1>2, <1>4, <1>9, <1>10, <2>1, <2>2, BornIs
<1>11. contexts \in Seq(Contexts) /\ Len(contexts) \in Nat /\ DOMAIN contexts = 1 .. Len(contexts)
  BY LenProperties DEF Inv, TypeOK
<1>12. adds => /\ contexts' \in Seq(Contexts)
               /\ DOMAIN contexts' = 1 .. Len(contexts) + 1
               /\ \A i \in 1 .. Len(contexts) : contexts'[i] = contexts[i]
               /\ contexts'[Len(contexts) + 1] = x
  BY <1>1, <1>7, <1>9, <1>11, AppendProperties, LenProperties
<1>13. ~adds => contexts' = contexts
  BY <1>1
<1> HIDE DEF adds
<1>14. ContextsInv'
  <2>1. ContextsInv
    BY DEF Inv, SoundInv
  <2>2. ASSUME NEW i \in DOMAIN contexts'
        PROVE  \/ Real(input, context) /\ Born(input, context, e, contexts'[i])
               \/ Hollow(contexts'[i]) /\ ~contexts'[i].raw /\ code # "none"
    <3>1. CASE i \in 1 .. Len(contexts)
      BY <1>1, <1>11, <1>12, <1>13, <2>1, <3>1 DEF ContextsInv
    <3>2. CASE adds /\ i = Len(contexts) + 1
      BY <1>2, <1>10, <1>12, <3>2
    <3>3. QED BY <1>11, <1>12, <1>13, <3>1, <3>2
  <2>3. index' # 0
    BY <1>1, <1>2
  <2>4. QED BY <1>1, <2>1, <2>2, <2>3 DEF ContextsInv
<1>15. Clean(input, code) => MemberInv'
  <2>1. \A j \in DOMAIN contexts : \E k \in DOMAIN contexts' : contexts'[k].resource = contexts[j].resource
    <3>1. ASSUME NEW j \in DOMAIN contexts PROVE j \in DOMAIN contexts' /\ contexts'[j] = contexts[j]
      BY <1>11, <1>12, <1>13, <3>1
    <3>2. QED BY <3>1
  <2>2. Subscribes(e) => (r \in Collected(input, v, e) => r \in uris')
    BY <1>1, <1>2, <1>3
  <2>3. ~Subscribes(e) => (r \in Reached(input, v, e) => \E j \in DOMAIN contexts' : contexts'[j].resource = r)
    <3>1. SUFFICES ASSUME ~Subscribes(e), r \in Reached(input, v, e)
                   PROVE  \E j \in DOMAIN contexts' : contexts'[j].resource = r
      OBVIOUS
    <3>2. adds
      BY <1>2, <1>3, <3>1 DEF adds
    <3>3. Len(contexts) + 1 \in DOMAIN contexts'
      BY <1>11, <1>12, <3>2
    <3>4. QED BY <1>9, <1>12, <3>2, <3>3
  <2>4. QED BY <1>1, <1>4, <1>5, <2>1, <2>2, <2>3, OneMoreMember
<1>16. contexts' \in Seq(Contexts) /\ code' \in Codes
  BY <1>1, <1>11, <1>12, <1>13 DEF Inv, TypeOK
<1>17. QED BY <1>1, <1>5, <1>6, <1>14, <1>15, <1>16, LoopStep

LEMMA MembersDoneStep == ASSUME Inv, MembersDone PROVE Inv'
<1> DEFINE v == VisitOf(context)
           e == expression
           m == Members[context.resource]
<1>1. at = "member" /\ index > Len(m) /\ Executed(e, contexts, uris) /\ todo' = todo
  BY DEF MembersDone
<1>2. /\ e \in ChildExpressions(trie, context.node) /\ Real(input, context) /\ index \in Nat /\ Len(m) \in Nat
      /\ Collected(input, v, e) = Fetched(input, v, e)
      /\ Fetched(input, v, e) \subseteq {m[i] : i \in 1 .. Len(m)}
      /\ \A r : r \in Reached(input, v, e) => r \in Fetched(input, v, e)
  BY <1>1, InMembers
<1>3. \A u \in uris : UriAnswer(Prefix(e), u) \in Possible(input)
  BY <1>1, <1>2, WaitingIsPossible
<1>4. v.node = context.node
  BY VisitOfFields
<1>5. ASSUME Clean(input, code)
      PROVE  \A r \in Fetched(input, v, e) :
               /\ SubscribesTo(input, context.node, e) => r \in uris
               /\ ~SubscribesTo(input, context.node, e) =>
                    (r \in Reached(input, v, e) => \E j \in DOMAIN contexts : contexts[j].resource = r)
  <2>1. SUFFICES ASSUME NEW i \in 1 .. Len(m), m[i] \in Fetched(input, v, e)
                 PROVE  /\ SubscribesTo(input, context.node, e) => m[i] \in uris
                        /\ ~SubscribesTo(input, context.node, e) =>
                             (m[i] \in Reached(input, v, e) => \E j \in DOMAIN contexts : contexts[j].resource = m[i])
    BY <1>2
  <2>2. i \in 1 .. index - 1 /\ i <= Len(m)
    BY <1>1, <1>2, <2>1
  <2>3. MemberMet(i)
    BY <1>1, <1>5, <2>2 DEF Inv, CompleteInv, MemberInv
  <2>4. QED BY <1>2, <2>1, <2>3 DEF MemberMet
<1>6. CASE contexts = <<>>
  <2>1. ASSUME Clean(input, code)
        PROVE  /\ Gives(input, v, e) \subseteq Answer \union {UriAnswer(Prefix(e), u) : u \in uris}
               /\ LeadsTo(input, v, e) = {}
    <3>1. CASE SubscribesTo(input, context.node, e)
      <4>1. Gives(input, v, e) = {UriAnswer(Prefix(e), r) : r \in Collected(input, v, e)} /\ LeadsTo(input, v, e) = {}
        BY <1>4, <3>1 DEF Gives, LeadsTo, Prefix
      <4>2. Collected(input, v, e) \subseteq uris
        BY <1>2, <1>5, <2>1, <3>1
      <4>3. QED BY <4>1, <4>2
    <3>2. CASE ~SubscribesTo(input, context.node, e)
      <4>1. Reached(input, v, e) = {}
        BY <1>2, <1>5, <1>6, <2>1, <3>2
      <4>2. QED BY <1>4, <3>2, <4>1, NothingReached
    <3>3. QED BY <3>1, <3>2
  <2>2. Executed(e, <<>>, uris)
    BY <1>1, <1>6
  <2> HIDE DEF v
  <2>3. QED BY <1>1, <1>2, <1>3, <2>1, <2>2, ExecutedNothing DEF v
<1>7. CASE contexts # <<>>
  <2>1. contexts \in Seq(Contexts) /\ 1 \in DOMAIN contexts
    BY <1>7, LenProperties, EmptySeq DEF Inv, TypeOK
  <2>2. \A i \in DOMAIN contexts :
           \/ Real(input, context) /\ Born(input, context, e, contexts[i])
           \/ Hollow(contexts[i]) /\ ~contexts[i].raw /\ code # "none"
    BY <1>1 DEF Inv, SoundInv, ContextsInv
  <2>3. ASSUME Clean(input, code)
        PROVE  \A r \in Reached(input, v, e) : \E j \in DOMAIN contexts : contexts[j].resource = r
    <3>1. ~SubscribesTo(input, context.node, e)
      BY <2>1, <2>2, <2>3 DEF Clean, Born
    <3>2. QED BY <1>2, <1>5, <2>3, <3>1
  <2>4. QED BY <1>1, <1>2, <1>7, <2>1, <2>2, <2>3, ExecutedSome
<1>8. QED BY <1>6, <1>7

-----------------------------------------------------------------------------
(* The loop over the contexts of an expression. *)

\* All that an expression reaches has been delivered.
LEMMA AllDelivered ==
  ASSUME NEW g, NEW v, NEW e, NEW answer, NEW queued, ~SubscribesTo(g, v.node, e),
         \A r \in Reached(g, v, e) : Delivered(g, answer, queued, v, e, r)
  PROVE  Handled(g, answer, queued, v, e)
<1>1. Gives(g, v, e) \subseteq answer
  BY DEF Gives, Delivered
<1>2. LeadsTo(g, v, e) \subseteq queued
  BY DEF LeadsTo, Delivered
<1>3. QED BY <1>1, <1>2 DEF Handled

\* A queue that is left alone or appended to, with the visit of what is queued.
Queued(x) == node_queue' = Append(node_queue, x) /\ visited' = visited \union {VisitOf(x)}

LEMMA QueueGrows ==
  ASSUME node_queue \in Seq(Contexts),
         UNCHANGED <<node_queue, visited>> \/ \E x \in Contexts : InWalk(x) /\ Queued(x)
  PROVE  /\ node_queue' \in Seq(Contexts) /\ visited \subseteq visited'
         /\ \A i \in DOMAIN node_queue : i \in DOMAIN node_queue' /\ node_queue'[i] = node_queue[i]
         /\ \A i \in DOMAIN node_queue' : (i \in DOMAIN node_queue /\ node_queue'[i] = node_queue[i]) \/ InWalk(node_queue'[i])
         /\ \A w \in visited' : w \in visited \/ \E i \in DOMAIN node_queue' : VisitOf(node_queue'[i]) = w
<1>1. CASE UNCHANGED <<node_queue, visited>>
  BY <1>1
<1>2. CASE \E x \in Contexts : InWalk(x) /\ Queued(x)
  <2>1. PICK x \in Contexts : InWalk(x) /\ Queued(x)
    BY <1>2
  <2>2. /\ node_queue' \in Seq(Contexts) /\ Len(node_queue) \in Nat
        /\ DOMAIN node_queue' = 1 .. Len(node_queue) + 1 /\ DOMAIN node_queue = 1 .. Len(node_queue)
        /\ \A i \in 1 .. Len(node_queue) : node_queue'[i] = node_queue[i]
        /\ node_queue'[Len(node_queue) + 1] = x
    BY <2>1, AppendProperties, LenProperties DEF Queued
  <2>3. visited' = visited \union {VisitOf(x)}
    BY <2>1 DEF Queued
  <2>4. Len(node_queue) + 1 \in DOMAIN node_queue'
    BY <2>2
  <2>5. \A i \in DOMAIN node_queue' : i \in DOMAIN node_queue \/ i = Len(node_queue) + 1
    BY <2>2
  <2>6. QED BY <2>1, <2>2, <2>3, <2>4, <2>5
<1>3. QED BY <1>1, <1>2

LEMMA DeliveredStep ==
  ASSUME Inv, at = "deliver", contexts' = Tail(contexts),
         at' = IF Tail(contexts) = <<>> THEN "expression" ELSE "deliver",
         expression' = IF Tail(contexts) = <<>> THEN NoExpression ELSE expression,
         UNCHANGED <<input, possible, owed, cancelled, context, todo, index, uris, code, subscriptions>>,
         result' \in Seq(ResultType), Answer \subseteq Answer', Answer' \subseteq Possible(input),
         UNCHANGED <<node_queue, visited>> \/ \E x \in Contexts : InWalk(x) /\ Queued(x),
         Clean(input, code) =>
           Delivered(input, Answer', visited', VisitOf(context), expression, Head(contexts).resource)
  PROVE  Inv'
<1> DEFINE v == VisitOf(context)
           rest == Tail(contexts)
<1>1. /\ node_queue \in Seq(Contexts) /\ contexts \in Seq(Contexts) /\ contexts # <<>>
      /\ expression \in ChildExpressions(trie, context.node)
      /\ \A i \in DOMAIN contexts :
           \/ Real(input, context) /\ Born(input, context, expression, contexts[i])
           \/ Hollow(contexts[i]) /\ ~contexts[i].raw /\ code # "none"
  BY DEF Inv, TypeOK, SoundInv, ContextsInv
<1>2. /\ node_queue' \in Seq(Contexts) /\ visited \subseteq visited'
      /\ \A i \in DOMAIN node_queue : i \in DOMAIN node_queue' /\ node_queue'[i] = node_queue[i]
      /\ \A i \in DOMAIN node_queue' : (i \in DOMAIN node_queue /\ node_queue'[i] = node_queue[i]) \/ InWalk(node_queue'[i])
      /\ \A w \in visited' : w \in visited \/ \E i \in DOMAIN node_queue' : VisitOf(node_queue'[i]) = w
  BY <1>1, QueueGrows
<1>3. /\ Head(contexts) = contexts[1] /\ 1 \in DOMAIN contexts /\ rest \in Seq(Contexts)
      /\ Len(contexts) \in Nat /\ Len(rest) = Len(contexts) - 1
      /\ \A i \in 1 .. Len(rest) : rest[i] = contexts[i + 1]
      /\ DOMAIN contexts = 1 .. Len(contexts) /\ DOMAIN rest = 1 .. Len(rest)
  BY <1>1, HeadTailProperties, LenProperties, EmptySeq
<1>4. rest = <<>> => Len(rest) = 0
  BY EmptySeq
<1>5. \A i \in DOMAIN rest : \E j \in DOMAIN contexts : rest[i] = contexts[j]
  BY <1>3
<1>6. \A j \in DOMAIN contexts : j # 1 => rest # <<>> /\ \E i \in DOMAIN rest : rest[i] = contexts[j]
  <2>1. SUFFICES ASSUME NEW j \in DOMAIN contexts, j # 1
                 PROVE  rest # <<>> /\ j - 1 \in DOMAIN rest /\ rest[j - 1] = contexts[j]
    OBVIOUS
  <2>2. j - 1 \in 1 .. Len(rest) /\ (j - 1) + 1 = j
    BY <1>3, <2>1
  <2>3. QED BY <1>3, <1>4, <2>2
<1>7. TypeOK'
  BY <1>1, <1>2, <1>3 DEF Inv, TypeOK, ResultType
<1>8. StartInv' /\ HistoryInv' /\ AnswerInv' /\ UrisInv' /\ ContextInv'
  BY DEF Inv, SoundInv, StartInv, HistoryInv, AnswerInv, UrisInv, ContextInv, InWalk
<1>9. QueueInv'
  BY <1>2 DEF Inv, SoundInv, QueueInv, InWalk
<1>10. ContextsInv'
  BY <1>1, <1>5 DEF ContextsInv
<1>11. ASSUME Clean(input', code')
       PROVE  StartsInv' /\ VisitedInv' /\ ExpressionsInv' /\ MemberInv' /\ DeliverInv' /\ FinalInv'
  <2>1. Clean(input, code) /\ StartsInv /\ VisitedInv /\ ExpressionsInv /\ DeliverInv
    BY <1>11 DEF Inv, CompleteInv
  <2>2. Delivered(input, Answer', visited', v, expression, contexts[1].resource)
    BY <1>3, <2>1
  <2>3. /\ \A w : AllHandled(input, Answer, visited, w) => AllHandled(input, Answer', visited', w)
        /\ \A e : Handled(input, Answer, visited, v, e) => Handled(input, Answer', visited', v, e)
        /\ \A r : Delivered(input, Answer, visited, v, expression, r) =>
                  Delivered(input, Answer', visited', v, expression, r)
    BY <1>2, HandledMore
  <2>4. StartsInv'
    BY <1>2, <2>1 DEF StartsInv
  <2>5. VisitedInv'
    <3>1. SUFFICES ASSUME NEW w \in visited,
                          ~ \E i \in DOMAIN node_queue' : VisitOf(node_queue'[i]) = w, w # v
                   PROVE  AllHandled(input, Answer', visited', w)
      BY <1>2 DEF VisitedInv
    <3>2. ~ \E i \in DOMAIN node_queue : VisitOf(node_queue[i]) = w
      BY <1>2, <3>1
    <3>3. AllHandled(input, Answer, visited, w)
      BY <2>1, <3>1, <3>2 DEF VisitedInv
    <3>4. QED BY <2>3, <3>3
  <2>6. \A r \in Reached(input, v, expression) :
          \/ Delivered(input, Answer', visited', v, expression, r)
          \/ rest # <<>> /\ \E i \in DOMAIN rest : rest[i].resource = r
    <3>1. SUFFICES ASSUME NEW r \in Reached(input, v, expression),
                          ~Delivered(input, Answer', visited', v, expression, r)
                   PROVE  rest # <<>> /\ \E i \in DOMAIN rest : rest[i].resource = r
      OBVIOUS
    <3>2. PICK j \in DOMAIN contexts : contexts[j].resource = r
      BY <2>1, <2>3, <3>1 DEF DeliverInv
    <3>3. j # 1
      BY <2>2, <3>1, <3>2
    <3>4. QED BY <1>6, <3>2, <3>3
  <2>7. DeliverInv'
    BY <2>6 DEF DeliverInv
  <2>8. rest = <<>> => Handled(input, Answer', visited', v, expression)
    <3>1. ~SubscribesTo(input, v.node, expression)
      BY <1>1, <1>3, <2>1, VisitOfFields DEF Clean, Born
    <3>2. QED BY <2>6, <3>1, AllDelivered
  <2>9. ExpressionsInv'
    <3>1. SUFFICES ASSUME NEW e \in ChildExpressions(trie, context.node) \ todo,
                          ~(at' # "expression" /\ e = expression')
                   PROVE  Handled(input, Answer', visited', v, e)
      BY DEF ExpressionsInv
    <3>2. CASE e = expression
      BY <2>8, <3>1, <3>2
    <3>3. CASE e # expression
      BY <2>1, <2>3, <3>1, <3>3 DEF ExpressionsInv
    <3>4. QED BY <3>2, <3>3
  <2>10. MemberInv' /\ FinalInv'
    BY DEF MemberInv, FinalInv
  <2>11. QED BY <2>4, <2>5, <2>7, <2>9, <2>10
<1>12. QED BY <1>7, <1>8, <1>9, <1>10, <1>11 DEF Inv, SoundInv, CompleteInv

LEMMA DeliverStep == ASSUME Inv, Deliver PROVE Inv'
<1> DEFINE v == VisitOf(context)
           h == Head(contexts)
           d == [h EXCEPT !.node = Append(context.node, expression)]
           q == IF input.op = "resume" /\ ~d.object THEN NoSubquery ELSE trie.subquery_id[d.node]
           m == TryNormalize(result, d, q)
<1>1. /\ at = "deliver" /\ result' = m.results
      /\ m.status = "ok" =>
           /\ IF input.op = "resume" /\ q # NoSubquery THEN UNCHANGED <<node_queue, visited>>
              ELSE node_queue' = Append(node_queue, m.context) /\ visited' = visited \union {VisitOf(m.context)}
           /\ contexts' = Tail(contexts)
           /\ at' = IF Tail(contexts) = <<>> THEN "expression" ELSE "deliver"
           /\ expression' = IF Tail(contexts) = <<>> THEN NoExpression ELSE expression
           /\ code' = code
      /\ m.status # "ok" =>
           /\ at' = "done"
           /\ code' = IF code = "cancelled" /\ input.op # "resume" THEN "cancelled" ELSE "internal"
           /\ UNCHANGED <<node_queue, visited, contexts, expression>>
      /\ UNCHANGED <<input, possible, owed, cancelled, context, todo, index, uris, subscriptions>>
  BY DEF Deliver
<1>2. PICK c : c = d
  OBVIOUS
<1>3. PICK n : n = m
  OBVIOUS
<1>4. /\ input \in Inputs /\ context \in Contexts /\ contexts \in Seq(Contexts) /\ contexts # <<>>
      /\ result \in Seq(ResultType) /\ expression \in ChildExpressions(trie, context.node)
      /\ context.node \in trie.nodes /\ code \in Codes
  BY <1>1 DEF Inv, TypeOK, SoundInv, ContextsInv, ResultType, Contexts
<1>5. h = contexts[1] /\ 1 \in DOMAIN contexts /\ h \in Contexts
  BY <1>4, HeadTailProperties, LenProperties, EmptySeq
<1>6. Append(context.node, expression) \in trie.nodes
  BY <1>4, ChildNode
<1>7. /\ c \in Contexts /\ c.node = Append(context.node, expression) /\ c.resource = h.resource
      /\ c.object = h.object /\ c.iterable = h.iterable /\ c.raw = h.raw
  <2>1. PICK node \in trie.nodes : node = Append(context.node, expression)
    BY <1>6
  <2>2. PICK k \in Contexts : k = h
    BY <1>5
  <2>3. c = [k EXCEPT !.node = node]
    BY <1>2, <2>1, <2>2
  <2> HIDE DEF h, d
  <2>4. /\ c \in Contexts /\ c.node = node /\ c.resource = k.resource
        /\ c.object = k.object /\ c.iterable = k.iterable /\ c.raw = k.raw
    BY <2>3 DEF Contexts
  <2>5. QED BY <2>1, <2>2, <2>4
<1>8. PICK p : p = q
  OBVIOUS
<1>9. /\ p = IF input.op = "resume" /\ ~c.object THEN NoSubquery ELSE trie.subquery_id[c.node]
      /\ n = TryNormalize(result, c, p)
  BY <1>2, <1>3, <1>8
<1>10. p \in Subqueries \union {NoSubquery}
  BY <1>6, <1>7, <1>9, TrieType
<1>11. /\ result' = n.results
       /\ n.status = "ok" =>
            /\ input.op = "resume" /\ p # NoSubquery => UNCHANGED <<node_queue, visited>>
            /\ ~(input.op = "resume" /\ p # NoSubquery) => Queued(n.context)
       /\ n.status # "ok" => at' = "done" /\ code' \in Codes /\ code' # "none" /\ UNCHANGED node_queue
  <2>1. result' = n.results
    BY <1>1, <1>3
  <2>2. ASSUME n.status = "ok"
        PROVE  /\ input.op = "resume" /\ p # NoSubquery => UNCHANGED <<node_queue, visited>>
               /\ ~(input.op = "resume" /\ p # NoSubquery) => Queued(n.context)
    BY <1>1, <1>3, <1>8, <2>2 DEF Queued
  <2>3. n.status # "ok" => at' = "done" /\ code' \in Codes /\ code' # "none" /\ UNCHANGED node_queue
    BY <1>1, <1>3 DEF Codes
  <2>4. QED BY <2>1, <2>2, <2>3
<1>12. n.status # "ok" => UNCHANGED <<contexts, expression>>
  BY <1>1, <1>3
<1>13. n.status = "ok" =>
         /\ contexts' = Tail(contexts) /\ code' = code
         /\ at' = IF Tail(contexts) = <<>> THEN "expression" ELSE "deliver"
         /\ expression' = IF Tail(contexts) = <<>> THEN NoExpression ELSE expression
  BY <1>1, <1>3
<1>14. UNCHANGED <<input, possible, owed, cancelled, context, todo, index, uris, subscriptions>> /\ at = "deliver"
  BY <1>1
<1>15. \/ Real(input, context) /\ Born(input, context, expression, h)
       \/ Hollow(h) /\ ~h.raw /\ code # "none"
  BY <1>1, <1>5 DEF Inv, SoundInv, ContextsInv
<1>16. Answer' = AnswersIn(n.results) \union UrisIn(subscriptions)
  <2>1. Answer' = AnswersIn(result') \union UrisIn(subscriptions')
    BY DEF Answer, AnswersIn, UrisIn
  <2>2. QED BY <1>11, <1>14, <2>1
<1>17. Answer \subseteq Possible(input) /\ Answer = AnswersIn(result) \union UrisIn(subscriptions)
  BY AnswerIs DEF Inv, SoundInv, AnswerInv
<1>18. ASSUME n.status # "ok", n.results \in Seq(ResultType), AnswersIn(n.results) \subseteq Possible(input)
       PROVE  Inv'
  <2>1. TypeOK'
    BY <1>11, <1>12, <1>14, <1>18 DEF Inv, TypeOK, ResultType
  <2>2. Answer' \subseteq Possible(input)
    BY <1>16, <1>17, <1>18
  <2>3. QED BY <1>11, <1>14, <1>18, <2>1, <2>2, Ended
<1>19. CASE Real(input, context) /\ Born(input, context, expression, h)
  <2> DEFINE u == Met(input, v, expression, h.resource)
  <2>1. /\ ~SubscribesTo(input, context.node, expression) /\ h.resource \in Reached(input, v, expression)
        /\ VisitOf(d) = u /\ (h.object <=> IsObject(h.resource)) /\ (h.raw <=> Kind[h.resource] = "raw")
    BY <1>19 DEF Born
  <2>2. VisitOf(c) = u /\ u.node = c.node /\ u.resource = h.resource /\ u.iterable = c.iterable
    <3>1. VisitOf(c) = u
      BY <1>2, <2>1
    <3> HIDE DEF u
    <3>2. QED BY <1>7, <3>1, VisitOfFields
  <2>3. h.resource \in Resources
    BY <2>1 DEF Reached, Fetched
  <2>4. p = Asked(input, VisitOf(c))
    BY <1>7, <1>9, <2>1, <2>2 DEF Asked
  <2>5. /\ n.results \in Seq(ResultType)
        /\ AnswersIn(n.results) = AnswersIn(result) \union Own(input, VisitOf(c))
        /\ n.context \in Contexts
        /\ n.context.resource = c.resource /\ n.context.node = c.node
        /\ n.context.object = c.object /\ n.context.iterable = c.iterable
        /\ n.status = "ok" => Entered(input, VisitOf(c)) = {VisitOf(n.context)}
    BY <1>4, <1>7, <1>9, <1>10, <2>1, <2>3, <2>4, NormalizeAnswers
  <2>6. v \in AllVisits(input) /\ v.node = context.node
    BY <1>19, VisitOfFields DEF Real
  <2>7. Own(input, u) \subseteq Gives(input, v, expression) /\ Further(input, u) \subseteq LeadsTo(input, v, expression)
    BY <2>1, <2>6 DEF Gives, LeadsTo
  <2>8. Own(input, u) \subseteq Possible(input) /\ Further(input, u) \subseteq AllVisits(input)
    BY <1>4, <2>6, <2>7, GivenIsPossible, VisitsClosed
  <2>9. u.iterable => IsObject(h.resource)
    BY DEF Met, Visit, IsObject
  <2> HIDE DEF u, v, d, h, q, m
  <2>10. AnswersIn(n.results) \subseteq Possible(input) /\ Answer' = Answer \union Own(input, u)
    BY <1>16, <1>17, <2>2, <2>5, <2>8
  <2>11. CASE n.status # "ok"
    BY <1>18, <2>5, <2>10, <2>11
  <2>12. CASE n.status = "ok"
    <3>1. CASE input.op = "resume" /\ p # NoSubquery
      <4>1. Further(input, u) = {}
        BY <2>2, <2>4, <3>1 DEF Further
      <4>2. UNCHANGED <<node_queue, visited>>
        BY <1>11, <2>12, <3>1
      <4>3. Delivered(input, Answer', visited', v, expression, h.resource)
        BY <2>10, <4>1 DEF Delivered, u
      <4>4. QED BY <1>11, <1>13, <1>14, <1>17, <2>5, <2>8, <2>10, <2>12, <4>2, <4>3, DeliveredStep DEF v, h
    <3>2. CASE ~(input.op = "resume" /\ p # NoSubquery)
      <4>1. Further(input, u) = {VisitOf(n.context)}
        BY <2>2, <2>4, <2>5, <2>12, <3>2 DEF Further
      <4>2. Queued(n.context)
        BY <1>11, <2>12, <3>2
      <4>3. InWalk(n.context)
        BY <1>7, <2>1, <2>2, <2>3, <2>5, <2>8, <2>9, <4>1 DEF InWalk, Real
      <4>4. Delivered(input, Answer', visited', v, expression, h.resource)
        BY <2>10, <4>1, <4>2 DEF Delivered, Queued, u
      <4>5. \E x \in Contexts : InWalk(x) /\ Queued(x)
        BY <2>5, <4>2, <4>3
      <4>6. QED BY <1>11, <1>13, <1>14, <1>17, <2>5, <2>8, <2>10, <2>12, <4>4, <4>5, DeliveredStep DEF v, h
    <3>3. QED BY <3>1, <3>2
  <2>13. QED BY <2>11, <2>12
<1>20. CASE Hollow(h) /\ ~h.raw /\ code # "none"
  <2>1. Hollow(c) /\ ~c.raw
    BY <1>7, <1>20 DEF Hollow
  <2>2. n.results = result /\ n.context = c /\ (n.status = "ok" <=> p = NoSubquery)
    BY <1>9, <2>1, NormalizeHollow
  <2>3. Answer' = Answer
    BY <1>16, <1>17, <2>2
  <2> HIDE DEF v, d, h, q, m
  <2>4. CASE n.status # "ok"
    BY <1>4, <1>17, <1>18, <2>2, <2>4
  <2>5. CASE n.status = "ok"
    <3>1. Queued(c) /\ InWalk(c)
      BY <1>11, <1>20, <2>1, <2>2, <2>5 DEF InWalk
    <3>2. ~Clean(input, code) /\ result' \in Seq(ResultType)
      BY <1>4, <1>11, <1>20, <2>2 DEF Clean
    <3>3. QED BY <1>7, <1>11, <1>13, <1>14, <1>17, <2>3, <2>5, <3>1, <3>2, DeliveredStep
  <2>6. QED BY <2>4, <2>5
<1>21. QED BY <1>15, <1>19, <1>20

\* When the queue is empty every visit of the reference has been made.
LEMMA FinalStep == ASSUME Inv, Final PROVE Inv'
<1>1. /\ at = "final" /\ at' = "done"
      /\ code' \in {code, "internal", "timeout"}
      /\ UNCHANGED <<input, possible, owed, visited, cancelled, node_queue, context, todo, expression, index,
                     contexts, uris, result, subscriptions>>
  BY DEF Final, history, walk
<1>2. Answer' = Answer /\ Answer \subseteq Possible(input) /\ input \in Inputs
  BY <1>1 DEF Answer, Inv, SoundInv, AnswerInv, TypeOK
<1>3. TypeOK'
  BY <1>1 DEF Inv, TypeOK, Codes
<1>4. QueueInv'
  <2>1. code # "none" => code' # "none"
    BY <1>1
  <2>2. QED BY <1>1, <2>1 DEF Inv, SoundInv, QueueInv, InWalk
<1>5. StartInv' /\ ContextInv' /\ ContextsInv' /\ UrisInv' /\ HistoryInv' /\ AnswerInv'
  BY <1>1, <1>2 DEF Inv, SoundInv, StartInv, ContextInv, ContextsInv, UrisInv, HistoryInv, AnswerInv
<1>6. VisitedInv' /\ ExpressionsInv' /\ MemberInv' /\ DeliverInv'
  BY <1>1 DEF VisitedInv, ExpressionsInv, MemberInv, DeliverInv
<1>7. ASSUME Clean(input', code') PROVE StartsInv' /\ FinalInv'
  <2>1. Clean(input, code)
    BY <1>1, <1>7 DEF Clean
  <2>2. StartsInv /\ VisitedInv /\ node_queue = <<>>
    BY <1>1, <2>1 DEF Inv, CompleteInv, FinalInv
  <2>3. StartsInv'
    BY <1>1, <1>2, <2>2 DEF StartsInv
  <2>4. \A v \in visited : AllHandled(input, Answer, visited, v)
    BY <1>1, <2>2 DEF VisitedInv
  <2>5. \A u \in Starts(input) : Own(input, u) \subseteq Answer /\ Entered(input, u) \subseteq visited
    BY <1>1, <2>2 DEF StartsInv
  <2>6. First(input) \subseteq visited
    BY <2>5 DEF First
  <2>7. AllVisits(input) \subseteq visited
    BY <1>2, <2>4, <2>6, VisitsLeast DEF AllHandled, Handled
  <2>8. \A v \in AllVisits(input) : \A e \in ChildExpressions(trie, v.node) : Gives(input, v, e) \subseteq Answer
    BY <2>4, <2>7 DEF AllHandled, Handled
  <2>9. Meant(input) \subseteq Answer
    BY <2>5, <2>8 DEF Meant
  <2>10. Owed(input) \subseteq Answer
    BY <2>9, OwedIsPossible
  <2>11. QED BY <1>1, <1>2, <2>3, <2>10 DEF FinalInv
<1>8. QED BY <1>3, <1>4, <1>5, <1>6, <1>7 DEF Inv, SoundInv, CompleteInv

-----------------------------------------------------------------------------
(* Theorems *)

LEMMA NextInv == ASSUME Inv, [Next]_vars PROVE Inv'
<1>1. CASE UNCHANGED vars
  BY <1>1, StutterStep
<1>2. CASE Cancel
  BY <1>2, CancelStep
<1>3. CASE RunRefused
  BY <1>3, RunRefusedStep
<1>4. CASE RunBegins
  BY <1>4, RunBeginsStep
<1>5. CASE FetchRootFails
  BY <1>5, FetchRootFailsStep
<1>6. CASE FetchRoot
  BY <1>6, FetchRootStep
<1>7. CASE ResumeRefused
  BY <1>7, ResumeRefusedStep
<1>8. CASE ResumeBegins
  BY <1>8, ResumeBeginsStep
<1>9. CASE Pop
  BY <1>9, PopStep
<1>10. CASE Popped
  BY <1>10, PoppedStep
<1>11. ASSUME NEW e \in todo,
              Subscribe(e) \/ Navigate(e) \/ FilterObject(e) \/ NothingToDo(e) \/ SubstitutionFails(e) \/ FilterMembers(e)
       PROVE  Inv'
  BY <1>11, SubscribeStep, NavigateStep, FilterObjectStep, NothingToDoStep, SubstitutionFailsStep, FilterMembersStep
<1>12. CASE MemberCancelled
  BY <1>12, MemberCancelledStep
<1>13. CASE MemberFails
  BY <1>13, MemberFailsStep
<1>13a. CASE MemberUndecided
  BY <1>13a, MemberUndecidedStep
<1>14. CASE MemberOk
  BY <1>14, MemberOkStep
<1>15. CASE MembersDone
  BY <1>15, MembersDoneStep
<1>16. CASE Deliver
  BY <1>16, DeliverStep
<1>17. CASE Final
  BY <1>17, FinalStep
<1>18. CASE Done
  BY <1>18, StutterStep DEF Done
<1>19. QED
  BY <1>1, <1>2, <1>3, <1>4, <1>5, <1>6, <1>7, <1>8, <1>9, <1>10, <1>11, <1>12, <1>13, <1>13a, <1>14, <1>15,
     <1>16, <1>17, <1>18 DEF Next

\* The inductive invariant.  The walk of Run and Resume only ever holds contexts
\* that stand for visits of the reference or follow an error; and as long as
\* there is no error every visit made is queued, in progress or completely
\* answered.
THEOREM InvHolds == Spec => []Inv
<1>1. Init => Inv
  BY InitInv
<1>2. Inv /\ [Next]_vars => Inv'
  BY NextInv
<1>3. QED BY <1>1, <1>2, PTL DEF Spec

\* Type correctness: the queue, the contexts and the results stay well formed,
\* every expression executed is a child of its context's trie node, and every
\* URI subscribed to is a resource.
THEOREM TypeCorrect == Spec => []TypeOK
<1>1. Inv => TypeOK
  BY DEF Inv
<1>2. QED BY <1>1, InvHolds, PTL

\* What every step but a stuttering one does to the answer.
Advances ==
  /\ at # "done"
  /\ UNCHANGED <<possible, owed>>
  /\ Answer \subseteq Answer'
  /\ code # "none" => code' # "none"

LEMMA AnswerGrows ==
  ASSUME result' = result, subscriptions \subseteq subscriptions'
  PROVE  Answer \subseteq Answer'
<1>1. UrisIn(subscriptions) \subseteq UrisIn(subscriptions')
  BY DEF UrisIn
<1>2. Answer' = AnswersIn(result') \union UrisIn(subscriptions')
  BY DEF Answer, AnswersIn, UrisIn
<1>3. QED BY <1>1, <1>2, AnswerIs

LEMMA NormalizeGrows ==
  ASSUME result \in Seq(ResultType), NEW c, NEW q, result' = TryNormalize(result, c, q).results,
         subscriptions' = subscriptions
  PROVE  Answer \subseteq Answer'
<1>1. PICK x : result' = result \/ result' = Append(result, x)
  <2> DEFINE y == [subquery |-> q, path |-> ResultPath(c, q), fresh |-> c.fresh]
  <2>1. TryNormalize(result, c, q).results \in {result, Append(result, y)}
    BY DEF TryNormalize
  <2>2. QED BY <2>1
<1>2. \A i \in DOMAIN result : i \in DOMAIN result' /\ result'[i] = result[i]
  BY <1>1
<1>3. AnswersIn(result) \subseteq AnswersIn(result')
  BY <1>2 DEF AnswersIn
<1>4. Answer' = AnswersIn(result') \union UrisIn(subscriptions')
  BY DEF Answer, AnswersIn, UrisIn
<1>5. QED BY <1>3, <1>4, AnswerIs

LEMMA FailedAdvances ==
  ASSUME at # "done", NEW status \in StatusCodes, status # "ok", Failed(status)
  PROVE  Advances
<1>1. UNCHANGED <<possible, owed, result, subscriptions>>
  BY DEF Failed, history
<1>2. code # "none" => code' # "none"
  BY DEF Failed, ErrorCode, StatusCodes
<1>3. QED BY <1>1, <1>2, AnswerGrows DEF Advances

LEMMA ExecutedAdvances ==
  ASSUME at # "done", NEW e, NEW cs, NEW pending, Executed(e, cs, pending)
  PROVE  Advances
<1>1. UNCHANGED <<possible, owed, result, code>> /\ subscriptions \subseteq subscriptions'
  BY DEF Executed, history
<1>2. QED BY <1>1, AnswerGrows DEF Advances

LEMMA ExpressionAdvances ==
  ASSUME Inv, NEW e \in todo, Subscribe(e) \/ Navigate(e) \/ FilterObject(e) \/ NothingToDo(e) \/ SubstitutionFails(e) \/ FilterMembers(e)
  PROVE  Advances
<1>1. at = "expression" /\ input \in Inputs
  BY DEF Subscribe, Navigate, FilterObject, NothingToDo, SubstitutionFails, FilterMembers, Inv, TypeOK
<1>2. CASE Subscribe(e)
  BY <1>1, <1>2, ExecutedAdvances DEF Subscribe
<1>3. CASE NothingToDo(e)
  BY <1>1, <1>3, ExecutedAdvances DEF NothingToDo
<1>4. CASE FilterMembers(e)
  BY <1>1, <1>4, AnswerGrows DEF FilterMembers, Advances, history
<1>4a. CASE SubstitutionFails(e)
  <2>1. Failed("internal")
    BY <1>4a DEF SubstitutionFails
  <2>2. QED BY <1>1, <2>1, FailedAdvances DEF StatusCodes
<1>5. CASE FilterObject(e)
  <2>1. \/ Failed("cancelled") \/ Failed("internal")
        \/ ~Serves(input, context.resource) /\ Failed(input.health[context.resource])
        \/ \E cs : Executed(e, cs, uris)
    BY <1>5 DEF FilterObject
  <2>2. context.resource \in Resources
    BY <1>1, <1>5, Current DEF FilterObject, Real
  <2>3. input.health[context.resource] \in Healths
    BY <1>1, <2>2, InputType
  <2>4. CASE Failed("cancelled") \/ Failed("internal")
    BY <1>1, <2>4, FailedAdvances DEF StatusCodes
  <2>5. CASE ~Serves(input, context.resource) /\ Failed(input.health[context.resource])
    BY <1>1, <2>3, <2>5, FailedAdvances DEF StatusCodes, Serves, Healths
  <2>6. QED BY <1>1, <2>1, <2>4, <2>5, ExecutedAdvances
<1>6. CASE Navigate(e)
  <2>1. \/ Failed("cancelled") \/ Failed("notfound")
        \/ /\ Target(e) \in Resources /\ Kind[Target(e)] # "value"
           /\ FetchTarget(e).code # "ok" /\ Failed(FetchTarget(e).code)
        \/ \E cs : Executed(e, cs, uris)
    BY <1>6 DEF Navigate
  <2>2. CASE Failed("cancelled") \/ Failed("notfound")
    BY <1>1, <2>2, FailedAdvances DEF StatusCodes
  <2>3. CASE /\ Target(e) \in Resources /\ Kind[Target(e)] # "value"
             /\ FetchTarget(e).code # "ok" /\ Failed(FetchTarget(e).code)
    <3>1. context.object /\ e.type # "predicate"
      BY <1>6 DEF Navigate
    <3>2. context \in Contexts /\ Real(input, context)
      BY <1>1, <3>1, Current
    <3>3. FetchTarget(e).code \in StatusCodes
      BY <1>1, <2>3, <3>1, <3>2, FetchTargetIs
    <3>4. QED BY <1>1, <2>3, <3>3, FailedAdvances
  <2>4. QED BY <1>1, <2>1, <2>2, <2>3, ExecutedAdvances
<1>7. QED BY <1>2, <1>3, <1>4, <1>4a, <1>5, <1>6

LEMMA MemberAdvances ==
  ASSUME Inv, MemberCancelled \/ MemberFails \/ MemberUndecided \/ MemberOk \/ MembersDone
  PROVE  Advances
<1>1. at = "member"
  BY DEF MemberCancelled, MemberFails, MemberUndecided, MemberOk, MembersDone, InLoop
<1>2. CASE MemberCancelled
  BY <1>1, <1>2, AnswerGrows DEF MemberCancelled, Advances, history
<1>3. CASE MemberOk
  BY <1>1, <1>3, AnswerGrows DEF MemberOk, Advances, history
<1>4. CASE MembersDone
  BY <1>1, <1>4, ExecutedAdvances DEF MembersDone
<1>4a. CASE MemberUndecided
  <2>1. Failed("internal")
    BY <1>4a DEF MemberUndecided
  <2>2. QED BY <1>1, <2>1, FailedAdvances DEF StatusCodes
<1>5. CASE MemberFails
  <2>1. FetchMember.code # "ok" /\ InLoop
    BY <1>5 DEF MemberFails
  <2>2. index \in 1 .. Len(Members[context.resource])
    BY <1>1, <2>1, InMembers DEF InLoop
  <2>3. FetchMember.code \in StatusCodes
    BY <1>1, <2>2, InMembers, FetchMemberIs
  <2>4. CASE Failed(FetchMember.code)
    BY <1>1, <2>1, <2>3, <2>4, FailedAdvances
  <2>5. CASE ~Failed(FetchMember.code)
    <3>1. /\ code' = IF FetchMember.code = "notfound" THEN code ELSE ErrorCode(FetchMember.code)
          /\ UNCHANGED <<possible, owed, result, subscriptions>>
      BY <1>5, <2>5 DEF MemberFails, history
    <3>2. code # "none" => code' # "none"
      BY <2>3, <3>1 DEF ErrorCode, StatusCodes
    <3>3. QED BY <1>1, <3>1, <3>2, AnswerGrows DEF Advances
  <2>6. QED BY <2>4, <2>5
<1>6. QED BY <1>2, <1>3, <1>4, <1>4a, <1>5

LEMMA StepAdvances ==
  ASSUME Inv, Next
  PROVE  Advances \/ UNCHANGED vars
<1>1. result \in Seq(ResultType)
  BY DEF Inv, TypeOK, ResultType
<1>2. CASE Cancel
  BY <1>2, AnswerGrows DEF Cancel, Advances, history
<1>3. ASSUME NEW error, error # "none", at # "done", Return(error) PROVE Advances
  BY <1>3, AnswerGrows DEF Return, Advances, history
<1>4. CASE RunRefused
  BY <1>3, <1>4 DEF RunRefused
<1>5. CASE RunBegins
  BY <1>5, AnswerGrows DEF RunBegins, Advances, history
<1>6. CASE FetchRootFails
  BY <1>3, <1>6 DEF FetchRootFails
<1>7. ASSUME NEW c, NEW q, at # "done", Enqueue(c, q) PROVE Advances
  BY <1>1, <1>7, NormalizeGrows DEF Enqueue, Advances
<1>8. CASE FetchRoot
  BY <1>7, <1>8 DEF FetchRoot
<1>9. CASE ResumeRefused
  BY <1>1, <1>9, NormalizeGrows DEF ResumeRefused, Advances, history
<1>10. CASE ResumeBegins
  BY <1>7, <1>10 DEF ResumeBegins
<1>11. CASE Pop
  BY <1>11, AnswerGrows DEF Pop, Advances, history
<1>12. CASE Popped
  BY <1>12, AnswerGrows DEF Popped, Advances, history
<1>13. ASSUME NEW e \in todo,
              Subscribe(e) \/ Navigate(e) \/ FilterObject(e) \/ NothingToDo(e) \/ SubstitutionFails(e) \/ FilterMembers(e)
       PROVE  Advances
  BY <1>13, ExpressionAdvances
<1>14. CASE MemberCancelled \/ MemberFails \/ MemberUndecided \/ MemberOk \/ MembersDone
  BY <1>14, MemberAdvances
<1>15. CASE Deliver
  <2>1. PICK c, q : result' = TryNormalize(result, c, q).results
    BY <1>15 DEF Deliver
  <2>2. at = "deliver" /\ UNCHANGED <<possible, owed, subscriptions>> /\ (code # "none" => code' # "none")
    BY <1>15 DEF Deliver
  <2>3. QED BY <1>1, <2>1, <2>2, NormalizeGrows DEF Advances
<1>16. CASE Final
  BY <1>16, AnswerGrows DEF Final, Advances, history
<1>17. CASE Done
  BY <1>17 DEF Done
<1>18. QED
  BY <1>2, <1>4, <1>5, <1>6, <1>8, <1>9, <1>10, <1>11, <1>12, <1>13, <1>14, <1>15, <1>16, <1>17 DEF Next

LEMMA PromiseInit == Init => Promise!Init
<1>1. SUFFICES ASSUME Init PROVE Promise!Init
  BY <1>1
<1>2. Answer = {} /\ ~(code # "none") /\ ~(at = "done")
  BY <1>1 DEF Init, Answer
<1>3. owed \subseteq possible
  BY <1>1, OwedIsPossible DEF Init
<1>4. QED BY <1>2, <1>3 DEF Promise!Init

LEMMA PromiseNext ==
  ASSUME Inv, Inv', [Next]_vars
  PROVE  [Promise!Next]_(Promise!vars)
<1>1. CASE UNCHANGED vars
  <2>1. UNCHANGED <<possible, owed, result, subscriptions, code, at>>
    BY <1>1 DEF vars, history
  <2>2. Answer' = Answer
    BY <2>1 DEF Answer
  <2>3. QED BY <2>1, <2>2 DEF Promise!vars
<1>2. CASE Next /\ Advances
  <2>1. /\ at # "done" /\ UNCHANGED <<possible, owed>> /\ Answer \subseteq Answer'
        /\ code # "none" => code' # "none"
    BY <1>2 DEF Advances
  <2>2. Answer' \subseteq possible
    BY <2>1 DEF Inv, SoundInv, AnswerInv, HistoryInv
  <2>3. CASE at' = "done"
    <3>1. code' = "none" => owed \subseteq Answer'
      <4>1. CASE Clean(input', code')
        BY <2>1, <2>3, <4>1 DEF Inv, SoundInv, HistoryInv, CompleteInv, FinalInv
      <4>2. CASE ~Clean(input', code')
        <5>1. code' = "none" => owed' = {}
          BY <4>2 DEF Inv, SoundInv, HistoryInv, Clean, Owed
        <5>2. QED BY <2>1, <5>1
      <4>3. QED BY <4>1, <4>2
    <3>2. Promise!Return
      BY <2>1, <2>2, <2>3, <3>1 DEF Promise!Return
    <3>3. QED BY <3>2 DEF Promise!Next
  <2>4. CASE at' # "done"
    <3>1. Promise!Visit
      BY <2>1, <2>2, <2>4 DEF Promise!Visit
    <3>2. QED BY <3>1 DEF Promise!Next
  <2>5. QED BY <2>3, <2>4
<1>3. QED BY <1>1, <1>2, StepAdvances

\* An execution of the plan, of any query in any Redfish tree, whatever fails,
\* is cached or is cancelled, implements QueryAnswer: it gives only answers the
\* query has, takes none back, and if it returns without an error it has given
\* every one it owes.
THEOREM PlannerImplementsQueryAnswer == Spec => ImplementsQueryAnswer
<1>1. Init => Promise!Init
  BY PromiseInit
<1>2. Inv /\ Inv' /\ [Next]_vars => [Promise!Next]_(Promise!vars)
  BY PromiseNext
<1>3. QED BY <1>1, <1>2, InvHolds, PTL DEF Spec, ImplementsQueryAnswer, Promise!Spec

-----------------------------------------------------------------------------
(* Freshness: the prefix under which CombineQueryParams records a subquery is *)
(* the one the walk looks up when it fetches what the subquery returns.       *)

Label(e) == IF e.type = "predicate" THEN <<"[*]">> ELSE e.expression

LEMMA PrefixOfIs ==
  ASSUME NEW S, NEW node \in Seq(S)
  PROVE  /\ PrefixOf(node) \in Seq({Label(e) : e \in S})
         /\ Len(PrefixOf(node)) = Len(node)
         /\ \A i \in 1 .. Len(node) : PrefixOf(node)[i] = Label(node[i])
<1>1. Len(node) \in Nat /\ DOMAIN node = 1 .. Len(node) /\ \A i \in 1 .. Len(node) : node[i] \in S
  BY LenProperties, ElementOfSeq
<1>2. PrefixOf(node) = [i \in 1 .. Len(node) |-> Label(node[i])]
  BY <1>1 DEF PrefixOf, Label
<1>3. PrefixOf(node) \in [1 .. Len(node) -> {Label(e) : e \in S}]
  BY <1>1, <1>2
<1>4. QED BY <1>1, <1>2, <1>3

LEMMA PrefixOfConcat ==
  ASSUME NEW S, NEW a \in Seq(S), NEW b \in Seq(S)
  PROVE  PrefixOf(a \o b) = PrefixOf(a) \o PrefixOf(b)
<1> DEFINE T == {Label(e) : e \in S}
<1>1. a \o b \in Seq(S) /\ Len(a \o b) = Len(a) + Len(b) /\ Len(a) \in Nat /\ Len(b) \in Nat
  BY ConcatProperties, LenProperties
<1>2. \A i \in 1 .. Len(a) + Len(b) : (a \o b)[i] = IF i <= Len(a) THEN a[i] ELSE b[i - Len(a)]
  BY ConcatProperties
<1>3. /\ PrefixOf(a) \in Seq(T) /\ PrefixOf(b) \in Seq(T) /\ PrefixOf(a \o b) \in Seq(T)
      /\ Len(PrefixOf(a)) = Len(a) /\ Len(PrefixOf(b)) = Len(b) /\ Len(PrefixOf(a \o b)) = Len(a) + Len(b)
      /\ \A i \in 1 .. Len(a) : PrefixOf(a)[i] = Label(a[i])
      /\ \A i \in 1 .. Len(b) : PrefixOf(b)[i] = Label(b[i])
      /\ \A i \in 1 .. Len(a) + Len(b) : PrefixOf(a \o b)[i] = Label((a \o b)[i])
  BY <1>1, PrefixOfIs
<1> HIDE DEF T
<1>4. \A x, y \in Seq(T) :
        /\ x \o y \in Seq(T) /\ Len(x \o y) = Len(x) + Len(y)
        /\ \A i \in 1 .. Len(x) + Len(y) : (x \o y)[i] = IF i <= Len(x) THEN x[i] ELSE y[i - Len(x)]
  BY ConcatProperties
<1>5. /\ PrefixOf(a) \o PrefixOf(b) \in Seq(T)
      /\ Len(PrefixOf(a) \o PrefixOf(b)) = Len(a) + Len(b)
      /\ \A i \in 1 .. Len(a) + Len(b) :
           (PrefixOf(a) \o PrefixOf(b))[i] =
             IF i <= Len(a) THEN PrefixOf(a)[i] ELSE PrefixOf(b)[i - Len(a)]
  BY <1>3, <1>4
<1>6. \A i \in 1 .. Len(a) + Len(b) : PrefixOf(a \o b)[i] = (PrefixOf(a) \o PrefixOf(b))[i]
  <2>1. SUFFICES ASSUME NEW i \in 1 .. Len(a) + Len(b)
                 PROVE  PrefixOf(a \o b)[i] = (PrefixOf(a) \o PrefixOf(b))[i]
    OBVIOUS
  <2>2. CASE i <= Len(a)
    BY <1>1, <1>2, <1>3, <1>5, <2>2
  <2>3. CASE ~(i <= Len(a))
    <3>1. i - Len(a) \in 1 .. Len(b)
      BY <1>1, <2>3
    <3>2. QED BY <1>1, <1>2, <1>3, <1>5, <2>3, <3>1
  <2>4. QED BY <2>2, <2>3
<1>7. QED BY <1>1, <1>3, <1>5, <1>6, SeqEqual

ArePrefixes(prefixes, parts, n) == Len(prefixes) = n /\ \A i \in 1 .. n : prefixes[i] = PrefixOf(parts[i])

LEMMA PrefixOfConcatenation ==
  ASSUME NEW S, NEW n \in Nat, NEW parts \in [1 .. n -> Seq(S)], NEW prefixes,
         ArePrefixes(prefixes, parts, n)
  PROVE  PrefixOf(Concatenation(parts)) = Concatenation(prefixes)
<1>1. Len(parts) = n /\ Len(prefixes) = n /\ \A i \in 1 .. n : prefixes[i] = PrefixOf(parts[i])
  BY DEF ArePrefixes
<1>2. PICK f : f[0] = <<>> /\ (\A k \in 1 .. n : f[k] = f[k - 1] \o parts[k]) /\ Concatenation(parts) = f[n]
  BY <1>1, ConcatenationSteps
<1>3. PICK h : h[0] = <<>> /\ (\A k \in 1 .. n : h[k] = h[k - 1] \o prefixes[k]) /\ Concatenation(prefixes) = h[n]
  BY <1>1, ConcatenationSteps
<1> DEFINE Bad == {m \in 0 .. n : ~(f[m] \in Seq(S) /\ h[m] = PrefixOf(f[m]))}
<1>4. Bad = {}
  <2>1. SUFFICES ASSUME Bad # {} PROVE FALSE
    BY <2>1
  <2>2. PICK m \in Bad : \A k \in Bad : m <= k
    <3>1. Bad \subseteq Nat
      OBVIOUS
    <3> HIDE DEF Bad
    <3>2. QED BY <2>1, <3>1, LeastNatural
  <2>3. m # 0
    <3>1. <<>> \in Seq(S) /\ PrefixOf(<<>>) = <<>>
      BY DEF PrefixOf
    <3>2. 0 \notin Bad
      BY <1>2, <1>3, <3>1
    <3>3. QED BY <2>2, <3>2
  <2>4. m - 1 \in 0 .. n /\ m - 1 \notin Bad /\ m \in 1 .. n
    BY <2>2, <2>3
  <2>5. f[m - 1] \in Seq(S) /\ parts[m] \in Seq(S) /\ h[m - 1] = PrefixOf(f[m - 1]) /\ prefixes[m] = PrefixOf(parts[m])
    BY <1>1, <2>4
  <2>6. f[m] = f[m - 1] \o parts[m] /\ h[m] = h[m - 1] \o prefixes[m]
    BY <1>2, <1>3, <2>4
  <2>7. f[m] \in Seq(S)
    BY <2>5, <2>6, ConcatProperties
  <2>8. h[m] = PrefixOf(f[m])
    <3>1. \A x, y \in Seq(S) : PrefixOf(x \o y) = PrefixOf(x) \o PrefixOf(y)
      BY PrefixOfConcat
    <3>2. QED BY <2>5, <2>6, <3>1
  <2>9. QED BY <2>2, <2>7, <2>8
<1>5. QED BY <1>2, <1>3, <1>4

\* What ends in a node, and how it got there.
LEMMA EndsHere ==
  ASSUME NEW n \in trie.nodes, NEW q, q = trie.subquery_id[n], q # NoSubquery
  PROVE  \E s \in trie.joined : \E k \in DOMAIN s : s[k] = q /\ n = EndNode(Query, s, k)
<1> DEFINE here == {x \in Ends : x.node = n}
<1>1. q = IF here = {} THEN NoSubquery ELSE (CHOOSE x \in here : TRUE).id
  BY TrieIs
<1>2. PICK x : x \in here /\ x.id = q
  <2> HIDE DEF here
  <2>1. QED BY <1>1
<1>3. PICK s \in trie.joined : x \in SequenceEnds(Query, s)
  BY <1>2, TrieIs DEF Ends
<1>4. PICK k \in DOMAIN s : x = [node |-> EndNode(Query, s, k), id |-> s[k]]
  BY <1>3 DEF SequenceEnds
<1>5. QED BY <1>2, <1>4

\* Every prefix under which a subquery is recorded is among those required.
LEMMA RecordedPrefix ==
  ASSUME NEW s \in trie.joined, NEW k \in DOMAIN s, Query[s[k]].fresh,
         \A i \in 1 .. k : Query[s[i]].kind = "redpath"
  PROVE  Concatenation([i \in 1 .. k |-> RedPathString(Query[s[i]].redpath)]) \in required
<1> DEFINE prefix(l) == Concatenation([i \in 1 .. l |-> RedPathString(SubqueryRedPath(Query[s[i]]))])
           own == {IF Query[s[l]].kind = "uri" THEN <<Query[s[l]].target>> ELSE prefix(l) :
                     l \in {i \in DOMAIN s : Query[s[i]].fresh}}
<1>1. own \subseteq FreshPrefixes(Query, trie.joined)
  BY DEF FreshPrefixes
<1>2. FreshPrefixes(Query, trie.joined) \subseteq required
  BY DEF required, CombineQueryParams
<1>3. k \in 1 .. k
  BY JoinedType
<1>4. prefix(k) \in own
  <2>1. k \in {i \in DOMAIN s : Query[s[i]].fresh} /\ Query[s[k]].kind # "uri"
    BY <1>3
  <2> HIDE DEF prefix
  <2>2. QED BY <2>1
<1>5. prefix(k) = Concatenation([i \in 1 .. k |-> RedPathString(Query[s[i]].redpath)])
  <2>1. \A i \in 1 .. k : SubqueryRedPath(Query[s[i]]) = Query[s[i]].redpath
    BY DEF SubqueryRedPath
  <2>2. [i \in 1 .. k |-> RedPathString(SubqueryRedPath(Query[s[i]]))] =
          [i \in 1 .. k |-> RedPathString(Query[s[i]].redpath)]
    BY <2>1
  <2>3. QED BY <2>2
<1> HIDE DEF own, prefix
<1>6. QED BY <1>1, <1>2, <1>4, <1>5

\* The expressions of RedPaths alone.
PathExpressions == {e \in QueryExpressions : e.type \in {"node", "predicate"}}

LEMMA PathExpressionsType ==
  ASSUME NEW q \in Subqueries
  PROVE  SplitRedPath(Query[q].redpath).expressions \in Seq(PathExpressions)
<1> DEFINE E == RedPathExpressions(Query[q].redpath)
<1>1. E \subseteq QueryExpressions
  BY DEF QueryExpressions
<1>2. \A e \in E : e.type \in {"node", "predicate"}
  BY DEF RedPathExpressions, StepExpressions, Expression
<1>3. SplitRedPath(Query[q].redpath).expressions \in Seq(E)
  <2>1. Len(Query[q].redpath) \in Nat
    BY QueryAssumption, LenProperties
  <2>2. QED BY <2>1, SplitRedPathType
<1> HIDE DEF E
<1>4. E \subseteq PathExpressions
  BY <1>1, <1>2 DEF PathExpressions
<1>5. QED BY <1>3, <1>4

\* The node of a subquery whose RedPaths are written as they are walked.
LEMMA WalkedPrefix ==
  ASSUME NEW s \in trie.joined, NEW k \in DOMAIN s, Query[s[k]].fresh, \A i \in 1 .. k : AsWalked(s[i])
  PROVE  /\ EndNode(Query, s, k) \in Seq(PathExpressions)
         /\ PrefixOf(EndNode(Query, s, k)) \in required
<1> DEFINE parts == [i \in 1 .. k |-> SplitRedPath(Query[s[i]].redpath).expressions]
           prefixes == [i \in 1 .. k |-> RedPathString(Query[s[i]].redpath)]
<1>1. k \in Nat /\ \A i \in 1 .. k : s[i] \in Subqueries
  BY JoinedType
<1>2. \A i \in 1 .. k : /\ Query[s[i]].kind = "redpath"
                        /\ RedPathString(Query[s[i]].redpath) = PrefixOf(SplitRedPath(Query[s[i]].redpath).expressions)
  BY DEF AsWalked
<1>3. \A i \in 1 .. k : SubqueryExpressions(Query[s[i]]) = SplitRedPath(Query[s[i]].redpath)
  BY <1>2 DEF SubqueryExpressions
<1>4. EndNode(Query, s, k) = Concatenation(parts)
  <2>1. [i \in 1 .. k |-> SubqueryExpressions(Query[s[i]]).expressions] = parts
    BY <1>3
  <2>2. QED BY <2>1 DEF EndNode
<1>5. parts \in [1 .. k -> Seq(PathExpressions)]
  BY <1>1, PathExpressionsType
<1>6. Len(prefixes) = k /\ \A i \in 1 .. k : prefixes[i] = PrefixOf(parts[i])
  BY <1>1, <1>2
<1>7. Concatenation(prefixes) \in required
  BY <1>2, RecordedPrefix
<1> HIDE DEF parts, prefixes
<1>8. Concatenation(parts) \in Seq(PathExpressions)
  BY <1>1, <1>5, ConcatenationType
<1>9. PrefixOf(Concatenation(parts)) = Concatenation(prefixes)
  <2>1. ArePrefixes(prefixes, parts, k)
    BY <1>6 DEF ArePrefixes
  <2>2. QED BY <1>1, <1>5, <2>1, PrefixOfConcatenation
<1>10. QED BY <1>4, <1>7, <1>8, <1>9

\* A written RedPath is never empty.
LEMMA RedPathStringNonempty ==
  ASSUME NEW redpath \in Seq(STRING)
  PROVE  RedPathString(redpath) # <<>>
<1> DEFINE n == Len(redpath) + 1
           Used(i) == i \in Cuts(redpath) /\ ~(i = 1 /\ redpath # <<>>)
           W(i) == Written(Step(redpath, i))
           parts == [i \in 1 .. n |-> IF Used(i) THEN W(i) ELSE <<>>]
           S == {SubSeq(Step(redpath, i), 1, Opening(Step(redpath, i)) - 1) : i \in 1 .. n} \union {<<"[*]">>}
<1>1. n \in Nat \ {0} /\ n \in 1 .. n
  BY LenProperties
<1>2. ASSUME NEW i \in 1 .. n PROVE W(i) \in Seq(S) /\ W(i) # <<>>
  <2>1. PICK x \in S : x = SubSeq(Step(redpath, i), 1, Opening(Step(redpath, i)) - 1)
    OBVIOUS
  <2>2. PICK y \in S : y = <<"[*]">>
    OBVIOUS
  <2>3. W(i) = <<x>> \o <<y>> \/ W(i) = <<x>> \o <<>>
    BY <2>1, <2>2 DEF Written
  <2> HIDE DEF S, W
  <2>4. <<x>> \in Seq(S) /\ <<y>> \in Seq(S) /\ <<>> \in Seq(S)
    OBVIOUS
  <2>5. /\ \A a, b \in Seq(S) : a \o b \in Seq(S) /\ Len(a \o b) = Len(a) + Len(b)
        /\ Len(<<x>>) = 1 /\ Len(<<y>>) = 1 /\ Len(<<>>) = 0
    BY ConcatProperties, EmptySeq
  <2>6. ASSUME NEW a \in Seq(S), NEW b \in Seq(S), Len(a) = 1, W(i) = a \o b
        PROVE  W(i) \in Seq(S) /\ W(i) # <<>>
    <3>1. a \o b \in Seq(S) /\ Len(a \o b) = 1 + Len(b) /\ Len(b) \in Nat
      BY <2>5, <2>6, LenProperties
    <3>2. Len(a \o b) # 0
      BY <3>1
    <3>3. QED BY <2>6, <3>1, <3>2, EmptySeq
  <2>7. QED BY <2>3, <2>4, <2>5, <2>6
<1>3. parts \in [1 .. n -> Seq(S)]
  <2>1. <<>> \in Seq(S)
    OBVIOUS
  <2> HIDE DEF S, W, Used, n
  <2>2. QED BY <1>2, <2>1
<1>4. Used(n)
  <2>1. n \in Cuts(redpath)
    BY DEF Cuts
  <2>2. n = 1 => redpath = <<>>
    BY LenProperties, EmptySeq
  <2>3. QED BY <2>1, <2>2
<1>5. parts[n] # <<>>
  BY <1>1, <1>2, <1>4
<1>6. RedPathString(redpath) = Concatenation(parts)
  BY DEF RedPathString
<1> HIDE DEF parts, S, n
<1>7. QED BY <1>1, <1>3, <1>5, <1>6, ConcatenationNonempty

\* The prefix of a joined sequence is not empty either.
LEMMA WalkedNonempty ==
  ASSUME NEW s \in trie.joined, NEW k \in DOMAIN s, Query[s[k]].fresh, \A i \in 1 .. k : AsWalked(s[i])
  PROVE  EndNode(Query, s, k) # <<>>
<1> DEFINE parts == [i \in 1 .. k |-> SubqueryExpressions(Query[s[i]]).expressions]
<1>1. k \in Nat \ {0} /\ k \in 1 .. k /\ \A i \in 1 .. k : s[i] \in Subqueries
  BY JoinedType
<1>2. parts \in [1 .. k -> Seq(QueryExpressions)]
  BY <1>1, SubqueryExpressionsType
<1>3. parts[k] # <<>>
  <2>1. /\ Query[s[k]].kind = "redpath"
        /\ RedPathString(Query[s[k]].redpath) = PrefixOf(SplitRedPath(Query[s[k]].redpath).expressions)
    BY <1>1 DEF AsWalked
  <2>2. parts[k] = SplitRedPath(Query[s[k]].redpath).expressions
    BY <1>1, <2>1 DEF SubqueryExpressions
  <2>3. RedPathString(Query[s[k]].redpath) # <<>>
    BY <1>1, QueryAssumption, RedPathStringNonempty
  <2>4. PrefixOf(<<>>) = <<>>
    BY DEF PrefixOf
  <2>5. QED BY <2>1, <2>2, <2>3, <2>4
<1>4. EndNode(Query, s, k) = Concatenation(parts)
  BY DEF EndNode
<1> HIDE DEF parts
<1>5. QED BY <1>1, <1>2, <1>3, <1>4, ConcatenationNonempty

\* The service root is the first subquery of what is joined below it.
LEMMA RootPrefix ==
  ASSUME NEW s \in trie.joined, NEW k \in DOMAIN s, Query[s[k]].fresh, Query[s[k]].kind = "redpath",
         Query[s[k]].roots = <<>>, SplitRedPath(Query[s[k]].redpath).expressions = <<>>,
         RedPathString(Query[s[k]].redpath) = <<<<>>>>
  PROVE  EndNode(Query, s, k) = <<>> /\ <<<<>>>> \in required
<1>1. s \in JoinSubqueriesFromGivenRoot(Query) /\ DOMAIN s = 1 .. Len(s) /\ Len(s) \in Nat
  <2>1. trie.joined \subseteq JoinSubqueriesFromGivenRoot(Query)
    BY TrieIs DEF JoinSubqueries
  <2>2. QED BY <2>1, JoinedType
<1>2. k = 1
  <2>1. SUFFICES ASSUME k # 1 PROVE FALSE
    BY <2>1
  <2>2. k - 1 \in 1 .. Len(s) - 1 /\ (k - 1) + 1 = k
    BY <1>1, <2>1
  <2>3. s[k - 1] \in ToSet(Query[s[(k - 1) + 1]].roots)
    BY <1>1, <2>2 DEF JoinSubqueriesFromGivenRoot
  <2>4. ToSet(Query[s[k]].roots) = {}
    BY DEF ToSet
  <2>5. QED BY <2>2, <2>3, <2>4
<1>3. \A x : Concatenation([i \in 1 .. 1 |-> x]) = <<>> \o x
  <2>1. ASSUME NEW x PROVE Concatenation([i \in 1 .. 1 |-> x]) = <<>> \o x
    <3> DEFINE one == [i \in 1 .. 1 |-> x]
    <3>1. Len(one) = 1 /\ one[1] = x
      OBVIOUS
    <3> HIDE DEF one
    <3>2. PICK f : /\ f[0] = <<>>
                   /\ \A j \in 1 .. Len(one) : f[j] = f[j - 1] \o one[j]
                   /\ Concatenation(one) = f[Len(one)]
      <4>1. Len(one) \in Nat
        BY <3>1
      <4>2. QED BY <4>1, ConcatenationSteps, Zenon
    <3>3. 1 \in 1 .. Len(one) /\ 1 - 1 = 0
      BY <3>1
    <3>4. f[1] = f[0] \o one[1]
      BY <3>2, <3>3
    <3>5. Concatenation(one) = <<>> \o x
      BY <3>1, <3>2, <3>4
    <3>6. QED BY <3>5 DEF one
  <2>2. QED BY <2>1
<1>4. EndNode(Query, s, k) = <<>>
  <2>1. SubqueryExpressions(Query[s[1]]).expressions = <<>>
    BY <1>2 DEF SubqueryExpressions
  <2>2. [i \in 1 .. 1 |-> SubqueryExpressions(Query[s[i]]).expressions] = [i \in 1 .. 1 |-> <<>>]
    BY <2>1
  <2>3. EndNode(Query, s, k) = <<>> \o <<>>
    BY <1>2, <1>3, <2>2 DEF EndNode
  <2>4. QED BY <2>3
<1>5. <<<<>>>> \in required
  <2>1. Concatenation([i \in 1 .. k |-> RedPathString(Query[s[i]].redpath)]) \in required
    <3>1. \A i \in 1 .. k : i = k
      BY <1>2
    <3>2. \A i \in 1 .. k : Query[s[i]].kind = "redpath"
      BY <3>1
    <3>3. QED BY <3>2, RecordedPrefix
  <2>2. [i \in 1 .. k |-> RedPathString(Query[s[i]].redpath)] = [i \in 1 .. 1 |-> <<<<>>>>]
    BY <1>2
  <2>3. Concatenation([i \in 1 .. 1 |-> <<<<>>>>]) = <<>> \o <<<<>>>>
    BY <1>3
  <2>4. <<>> \o <<<<>>>> = <<<<>>>>
    OBVIOUS
  <2>5. QED BY <2>1, <2>2, <2>3, <2>4
<1>6. QED BY <1>4, <1>5

\* A subquery with freshness REQUIRED and plain RedPaths that ends in a node.
FreshHere(n) ==
  LET q == trie.subquery_id[n] IN q # NoSubquery /\ Query[q].fresh /\ q \in PlainRedPaths

\* The walk finds the prefix of its node among those required.
LEMMA RequiredHere ==
  ASSUME NEW n \in trie.nodes, FreshHere(n)
  PROVE  /\ n = <<>> => <<<<>>>> \in required
         /\ n # <<>> => n \in Seq(PathExpressions) /\ PrefixOf(n) \in required
<1> DEFINE q == trie.subquery_id[n]
<1>1. q # NoSubquery /\ Query[q].fresh /\ q \in PlainRedPaths
  BY DEF FreshHere
<1>2. PICK s \in trie.joined : \E k \in DOMAIN s : s[k] = q /\ n = EndNode(Query, s, k)
  BY <1>1, EndsHere
<1>3. PICK k \in DOMAIN s : s[k] = q /\ n = EndNode(Query, s, k)
  BY <1>2
<1>4. CASE \A t \in trie.joined : \A j \in DOMAIN t : t[j] = q => \A i \in 1 .. j : AsWalked(t[i])
  <2>1. \A i \in 1 .. k : AsWalked(s[i])
    BY <1>3, <1>4
  <2>2. QED BY <1>1, <1>3, <2>1, WalkedPrefix, WalkedNonempty
<1>5. CASE /\ Query[q].kind = "redpath" /\ Query[q].roots = <<>>
           /\ SplitRedPath(Query[q].redpath).expressions = <<>>
           /\ RedPathString(Query[q].redpath) = <<<<>>>>
  BY <1>1, <1>3, <1>5, RootPrefix
<1>6. QED BY <1>1, <1>4, <1>5 DEF PlainRedPaths

\* Run looks a child node up under the RedPath that leads to it.
LEMMA LookedUp ==
  ASSUME NEW g \in Inputs, g.op # "resume", NEW n \in trie.nodes, NEW e, Append(n, e) \in trie.nodes
  PROVE  RedPathPrefix(g, n, e) = PrefixOf(Append(n, e))
<1> DEFINE S == QueryExpressions
           m == Append(n, e)
<1>1. n \in Seq(S) /\ m \in Seq(S)
  BY TrieType
<1>2. Len(n) \in Nat /\ DOMAIN n = 1 .. Len(n)
  BY <1>1, LenProperties
<1>3. g.start[1] = <<>> /\ Len(g.start[1]) = 0
  BY InputType, EmptySeq
<1>4. SubSeq(n, 1, Len(n)) = n
  BY <1>1, <1>2
<1>5. RedPathPrefix(g, n, e) = Append(PrefixOf(n), Label(e))
  <2>1. SubSeq(n, Len(g.start[1]) + 1, Len(n)) = n
    BY <1>3, <1>4
  <2>2. QED BY <2>1 DEF RedPathPrefix, AddExpressionToRedPath, Label
<1>6. DOMAIN m = 1 .. Len(n) + 1 /\ m[Len(n) + 1] = e /\ \A i \in 1 .. Len(n) : m[i] = n[i]
  BY <1>2
<1>7. /\ PrefixOf(m) \in Seq({Label(x) : x \in S}) /\ Len(PrefixOf(m)) = Len(m) /\ Len(m) = Len(n) + 1
      /\ \A i \in 1 .. Len(m) : PrefixOf(m)[i] = Label(m[i])
  <2>1. Len(m) = Len(n) + 1
    BY <1>1, <1>2
  <2> HIDE DEF S, m
  <2>2. QED BY <1>1, <2>1, PrefixOfIs
<1> DEFINE T == {Label(x) : x \in S} \union {Label(e)}
<1>8. PrefixOf(n) \in Seq(T) /\ Len(PrefixOf(n)) = Len(n) /\ \A i \in 1 .. Len(n) : PrefixOf(n)[i] = Label(n[i])
  <2>1. /\ PrefixOf(n) \in Seq({Label(x) : x \in S}) /\ Len(PrefixOf(n)) = Len(n)
        /\ \A i \in 1 .. Len(n) : PrefixOf(n)[i] = Label(n[i])
    BY <1>1, PrefixOfIs
  <2>2. QED BY <2>1
<1>9. Label(e) \in T
  OBVIOUS
<1> HIDE DEF T, S, m
<1>10. /\ Append(PrefixOf(n), Label(e)) \in Seq(T) /\ Len(Append(PrefixOf(n), Label(e))) = Len(n) + 1
       /\ \A i \in 1 .. Len(n) : Append(PrefixOf(n), Label(e))[i] = PrefixOf(n)[i]
       /\ Append(PrefixOf(n), Label(e))[Len(n) + 1] = Label(e)
  BY <1>8, <1>9, AppendProperties
<1>11. \A i \in 1 .. Len(n) + 1 : Append(PrefixOf(n), Label(e))[i] = PrefixOf(m)[i]
  <2>1. SUFFICES ASSUME NEW i \in 1 .. Len(n) + 1 PROVE Append(PrefixOf(n), Label(e))[i] = PrefixOf(m)[i]
    OBVIOUS
  <2>2. PrefixOf(m)[i] = Label(m[i]) /\ (i \in 1 .. Len(n) \/ i = Len(n) + 1)
    BY <1>2, <1>7
  <2>3. CASE i \in 1 .. Len(n)
    BY <1>6, <1>8, <1>10, <2>2, <2>3
  <2>4. CASE i = Len(n) + 1
    BY <1>6, <1>10, <2>2, <2>4
  <2>5. QED BY <2>2, <2>3, <2>4
<1>12. PrefixOf(m) \in Seq(T)
  BY <1>7 DEF T
<1>13. PrefixOf(m) = Append(PrefixOf(n), Label(e))
  BY <1>7, <1>10, <1>11, <1>12, SeqEqual
<1>14. QED BY <1>5, <1>13 DEF m

\* What the walk meets for such a subquery is fresh.
LEMMA MetIsFresh ==
  ASSUME NEW g \in Inputs, g.op # "resume", NEW v, v.node \in trie.nodes, NEW e, NEW r,
         Append(v.node, e) \in trie.nodes, FreshHere(Append(v.node, e))
  PROVE  Met(g, v, e, r).fresh
<1> DEFINE n == v.node
           m == Append(n, e)
<1>1. n \in Seq(QueryExpressions) /\ m \in Seq(QueryExpressions) /\ Len(n) \in Nat
  BY TrieType, LenProperties
<1>2. m # <<>> /\ m[Len(n) + 1] = e /\ Len(m) = Len(n) + 1
  BY <1>1
<1>3. m \in Seq(PathExpressions) /\ PrefixOf(m) \in required
  BY <1>2, RequiredHere
<1>4. e \in PathExpressions
  <2>1. m[Len(n) + 1] \in PathExpressions
    <3>1. Len(n) + 1 \in 1 .. Len(m)
      BY <1>1, <1>2
    <3> HIDE DEF m
    <3>2. QED BY <1>3, <3>1, ElementOfSeq
  <2>2. QED BY <1>2, <2>1
<1>5. e.type \in {"node", "predicate"}
  BY <1>4 DEF PathExpressions
<1>6. RedPathPrefix(g, v.node, e) \in required
  BY <1>3, LookedUp
<1>7. Must(g, v, e, r)
  BY <1>5, <1>6 DEF Must
<1>8. Fresh(g, r, Must(g, v, e, r))
  BY <1>7 DEF Fresh
<1>9. QED BY <1>8 DEF Met, Visit

LEMMA RequiredStays ==
  ASSUME RequiredIsFresh, result' = result, input' = input
  PROVE  RequiredIsFresh'
  BY DEF RequiredIsFresh

\* A result is added for the subquery of the context's node.
LEMMA RequiredAdded ==
  ASSUME RequiredIsFresh, result \in Seq(ResultType), NEW c, NEW q,
         result' = TryNormalize(result, c, q).results, input' = input,
         q # NoSubquery /\ (IsRaw(c, q) \/ c.object) /\ input.op # "resume" =>
           (Query[q].fresh /\ q \in PlainRedPaths => c.fresh)
  PROVE  RequiredIsFresh'
<1> DEFINE x == [subquery |-> q, path |-> ResultPath(c, q), fresh |-> c.fresh]
<1>1. CASE result' = result
  BY <1>1, RequiredStays
<1>2. CASE result' # result
  <2>1. q # NoSubquery /\ (IsRaw(c, q) \/ c.object) /\ result' = Append(result, x)
    BY <1>2 DEF TryNormalize
  <2>2. x.subquery = q /\ x.fresh = c.fresh
    OBVIOUS
  <2> HIDE DEF x
  <2>3. /\ DOMAIN result' = 1 .. Len(result) + 1 /\ DOMAIN result = 1 .. Len(result) /\ Len(result) \in Nat
        /\ \A i \in 1 .. Len(result) : result'[i] = result[i]
        /\ result'[Len(result) + 1] = x
    BY <2>1
  <2>4. SUFFICES ASSUME input.op # "resume", NEW i \in DOMAIN result',
                        Query[result'[i].subquery].fresh, result'[i].subquery \in PlainRedPaths
                 PROVE  result'[i].fresh
    BY DEF RequiredIsFresh
  <2>5. CASE i \in 1 .. Len(result)
    BY <2>3, <2>4, <2>5 DEF RequiredIsFresh
  <2>6. CASE i = Len(result) + 1
    BY <2>1, <2>2, <2>3, <2>4, <2>6
  <2>7. QED BY <2>3, <2>5, <2>6
<1>3. QED BY <1>1, <1>2

LEMMA RootIsFresh == ASSUME Inv, RequiredIsFresh, FetchRoot PROVE RequiredIsFresh'
<1> DEFINE q == RootSubquery
<1>1. /\ at = "root" /\ input.op # "resume" /\ input \in Inputs /\ input' = input
      /\ FetchedRoot.code = "ok" /\ IsObject(Root) /\ result' = TryNormalize(result, RootContext, q).results
  BY DEF FetchRoot, Enqueue, Inv, TypeOK, SoundInv, StartInv
<1>2. RootContext.fresh = FetchedRoot.fresh
  <2>1. PICK c : c = RootContext
    OBVIOUS
  <2>2. c.fresh = FetchedRoot.fresh
    BY <2>1, RootContextIs DEF RootContext
  <2>3. QED BY <2>1, <2>2
<1>3. ASSUME q # NoSubquery, Query[q].fresh, q \in PlainRedPaths PROVE FetchedRoot.fresh
  <2>1. FreshHere(<<>>)
    BY <1>3 DEF FreshHere, RootSubquery
  <2>2. <<<<>>>> \in required
    BY <2>1, RequiredHere, TrieType
  <2>3. Starts(input) = {Visit(<<>>, Root, FALSE, FetchedRoot.fresh, Nothing)}
    BY <1>1, FetchedRootIs
  <2>4. \A u \in Starts(input) : u.fresh
    <3> DEFINE F == Fresh(input, Root, <<<<>>>> \in required)
    <3>1. Starts(input) \subseteq {Visit(<<>>, Root, FALSE, F, Nothing)}
      BY <1>1 DEF Starts
    <3>2. F
      BY <2>2 DEF Fresh
    <3> HIDE DEF F
    <3>3. QED BY <3>1, <3>2 DEF Visit
  <2>5. Visit(<<>>, Root, FALSE, FetchedRoot.fresh, Nothing).fresh
    BY <2>3, <2>4
  <2>6. QED BY <2>5 DEF Visit
<1>4. result \in Seq(ResultType)
  BY DEF Inv, TypeOK, ResultType
<1> HIDE DEF q
<1>5. QED BY <1>1, <1>2, <1>3, <1>4, RequiredAdded

LEMMA DeliveredIsFresh == ASSUME Inv, RequiredIsFresh, Deliver PROVE RequiredIsFresh'
<1> DEFINE d == [Head(contexts) EXCEPT !.node = Append(context.node, expression)]
           p == IF input.op = "resume" /\ ~d.object THEN NoSubquery ELSE trie.subquery_id[d.node]
<1>1. at = "deliver" /\ result' = TryNormalize(result, d, p).results /\ input' = input
  BY DEF Deliver
<1>2. PICK c : c = d
  OBVIOUS
<1>3. PICK q : q = p
  OBVIOUS
<1>4. /\ input \in Inputs /\ context \in Contexts /\ contexts \in Seq(Contexts) /\ contexts # <<>>
      /\ result \in Seq(ResultType) /\ expression \in ChildExpressions(trie, context.node)
      /\ context.node \in trie.nodes
  BY <1>1 DEF Inv, TypeOK, SoundInv, ContextsInv, ResultType, Contexts
<1>5. PICK h \in Contexts : h = Head(contexts)
  BY <1>4, HeadTailProperties
<1>6. h = contexts[1] /\ 1 \in DOMAIN contexts
  BY <1>4, <1>5, HeadTailProperties, LenProperties, EmptySeq
<1>7. Append(context.node, expression) \in trie.nodes
  BY <1>4, ChildNode
<1>8. /\ c = [h EXCEPT !.node = Append(context.node, expression)]
      /\ q = IF input.op = "resume" /\ ~c.object THEN NoSubquery ELSE trie.subquery_id[c.node]
  BY <1>2, <1>3, <1>5
<1>9. result' = TryNormalize(result, c, q).results
  BY <1>1, <1>2, <1>3
<1> HIDE DEF d, p
<1>10. /\ c.node = Append(context.node, expression) /\ c.resource = h.resource /\ c.object = h.object
       /\ c.iterable = h.iterable /\ c.raw = h.raw /\ c.fresh = h.fresh
  <2>1. PICK k : k = Append(context.node, expression)
    OBVIOUS
  <2>2. c = [h EXCEPT !.node = k]
    BY <1>8, <2>1
  <2>3. /\ c.node = k /\ c.resource = h.resource /\ c.object = h.object
        /\ c.iterable = h.iterable /\ c.raw = h.raw /\ c.fresh = h.fresh
    BY <2>2 DEF Contexts
  <2>4. QED BY <2>1, <2>3
<1>11. ASSUME q # NoSubquery, IsRaw(c, q) \/ c.object, input.op # "resume", Query[q].fresh, q \in PlainRedPaths
       PROVE  c.fresh
  <2>1. \/ Real(input, context) /\ Born(input, context, expression, h)
        \/ Hollow(h) /\ ~h.raw
    BY <1>1, <1>6 DEF Inv, SoundInv, ContextsInv
  <2>2. ~(Hollow(h) /\ ~h.raw)
    BY <1>10, <1>11 DEF Hollow, IsRaw
  <2>3. VisitOf([h EXCEPT !.node = Append(context.node, expression)]) = Met(input, VisitOf(context), expression, h.resource)
    BY <2>1, <2>2 DEF Born
  <2>4. VisitOf(c) = Met(input, VisitOf(context), expression, h.resource)
    BY <1>8, <2>3
  <2>5. FreshHere(Append(context.node, expression))
    BY <1>8, <1>10, <1>11 DEF FreshHere
  <2>6. VisitOf(context).node = context.node
    BY VisitOfFields
  <2>7. Met(input, VisitOf(context), expression, h.resource).fresh
    BY <1>4, <1>7, <1>11, <2>5, <2>6, MetIsFresh
  <2>8. VisitOf(c).fresh
    BY <2>4, <2>7
  <2>9. QED BY <2>8, VisitOfFields
<1>12. QED BY <1>1, <1>4, <1>9, <1>11, RequiredAdded

LEMMA NextRequiredIsFresh == ASSUME Inv, RequiredIsFresh, [Next]_vars PROVE RequiredIsFresh'
<1>1. CASE FetchRoot
  BY <1>1, RootIsFresh
<1>2. CASE Deliver
  BY <1>2, DeliveredIsFresh
<1>3. CASE ResumeRefused \/ ResumeBegins
  BY <1>3 DEF ResumeRefused, ResumeBegins, Enqueue, RequiredIsFresh
<1>4. CASE UNCHANGED <<input, result>>
  BY <1>4, RequiredStays
<1>5. FetchRoot \/ Deliver \/ ResumeRefused \/ ResumeBegins \/ UNCHANGED <<input, result>>
  <2>1. CASE UNCHANGED vars \/ Done
    BY <2>1 DEF vars, Done
  <2>2. CASE Cancel \/ RunRefused \/ RunBegins \/ FetchRootFails \/ Pop \/ Popped \/ Final
    BY <2>2 DEF Cancel, RunRefused, RunBegins, FetchRootFails, Return, Pop, Popped, Final
  <2>3. ASSUME NEW e \in todo,
               Subscribe(e) \/ Navigate(e) \/ FilterObject(e) \/ NothingToDo(e) \/ SubstitutionFails(e) \/ FilterMembers(e)
        PROVE  UNCHANGED <<input, result>>
    BY <2>3 DEF Subscribe, Navigate, FilterObject, NothingToDo, SubstitutionFails, FilterMembers, Executed, Failed
  <2>4. CASE MemberCancelled \/ MemberFails \/ MemberUndecided \/ MemberOk \/ MembersDone
    BY <2>4 DEF MemberCancelled, MemberFails, MemberUndecided, MemberOk, MembersDone, Executed, Failed
  <2>5. QED BY <2>1, <2>2, <2>3, <2>4 DEF Next
<1>6. QED BY <1>1, <1>2, <1>3, <1>4, <1>5

\* What a subquery with freshness REQUIRED returns was not served from a cache,
\* if the RedPaths down to it name no URI and no reference and the execution was
\* not resumed: CombineQueryParams writes the prefix of every such subquery the
\* way the walk, which looks it up, does.
THEOREM RequiredResultsAreFresh == Spec => []RequiredIsFresh
<1>1. Init => RequiredIsFresh
  BY DEF Init, RequiredIsFresh
<1>2. Inv /\ RequiredIsFresh /\ [Next]_vars => RequiredIsFresh'
  BY NextRequiredIsFresh
<1>3. QED BY <1>1, <1>2, InvHolds, PTL DEF Spec

-----------------------------------------------------------------------------
(* Answers are given once. *)

Running == at \notin {"start", "root", "done"}
Busy == at \in {"expression", "member", "deliver"}

\* A way that is still to be taken.
Waiting(w) ==
  \/ \E i \in DOMAIN node_queue : VisitOf(node_queue[i]) = w[1]
  \/ /\ Busy /\ w[1] = VisitOf(context)
     /\ \/ w[2] \in todo
        \/ at = "member" /\ w[2] = expression
        \/ at = "deliver" /\ w[2] = expression /\ \E i \in DOMAIN contexts : contexts[i].resource = w[3]

Taken == {w \in Ways(input) : w[1] \in visited /\ ~Waiting(w)}

\* What the ways taken so far have answered and led to.
Given ==
  (UNION {Own(input, u) : u \in Starts(input)}) \union (UNION {Own(input, MetBy(input, w)) : w \in Taken})
Entrance == First(input) \union UNION {Further(input, MetBy(input, w)) : w \in Taken}

DistinctInv == \A i, j \in DOMAIN result : result[i].path = result[j].path => i = j
OriginInv ==
  Running => /\ AnswersIn(result) \subseteq Given
             /\ \A u \in visited : u.resource # Absent => u \in Entrance
QueuedOnceInv ==
  Running =>
    /\ \A i \in DOMAIN node_queue : VisitOf(node_queue[i]) \in visited
    /\ \A i, j \in DOMAIN node_queue :
         VisitOf(node_queue[i]) = VisitOf(node_queue[j]) /\ node_queue[i].resource # Absent => i = j
PoppedOnceInv ==
  Busy =>
    /\ VisitOf(context) \in visited
    /\ context.resource # Absent => \A i \in DOMAIN node_queue : VisitOf(node_queue[i]) # VisitOf(context)
Apart(cs) ==
  \A i, j \in DOMAIN cs : cs[i].resource = cs[j].resource /\ cs[i].resource # Absent => i = j
MadeOnceInv == at \in {"member", "deliver"} => expression \notin todo /\ Apart(contexts)
LoopedOnceInv ==
  at = "member" =>
    \A i \in DOMAIN contexts : contexts[i].resource # Absent =>
      \E k \in DOMAIN Members[context.resource] : k < index /\ contexts[i].resource = Members[context.resource][k]

OnceInv ==
  /\ DistinctInv /\ OriginInv /\ QueuedOnceInv
  /\ PoppedOnceInv /\ MadeOnceInv /\ LoopedOnceInv

\* Ways that were taken stay taken if none of them is to be taken again.
LEMMA TakenStays ==
  ASSUME input' = input, visited \subseteq visited',
         \A w \in Ways(input) : w[1] \in visited /\ Waiting(w)' => Waiting(w)
  PROVE  Taken \subseteq Taken' /\ Given \subseteq Given' /\ Entrance \subseteq Entrance'
<1>1. Taken \subseteq Taken'
  BY DEF Taken
<1>2. Given \subseteq Given'
  BY <1>1 DEF Given
<1>3. Entrance \subseteq Entrance'
  BY <1>1 DEF Entrance
<1>4. QED BY <1>1, <1>2, <1>3

\* A step that neither answers nor queues anything.
LEMMA QuietOnce ==
  ASSUME OnceInv, UNCHANGED <<input, result, visited, node_queue>>, Running' => Running,
         Busy' => Busy /\ context' = context,
         \A w : Waiting(w)' => Waiting(w), MadeOnceInv', LoopedOnceInv'
  PROVE  OnceInv'
<1>1. Given \subseteq Given' /\ Entrance \subseteq Entrance'
  BY TakenStays
<1>2. DistinctInv'
  BY DEF OnceInv, DistinctInv
<1>3. OriginInv'
  BY <1>1 DEF OnceInv, OriginInv, AnswersIn
<1>4. QueuedOnceInv'
  BY DEF OnceInv, QueuedOnceInv
<1>5. PoppedOnceInv'
  BY DEF OnceInv, PoppedOnceInv
<1>6. QED BY <1>2, <1>3, <1>4, <1>5 DEF OnceInv

\* The walk is left or an expression is given up.
LEMMA EndedOnce ==
  ASSUME OnceInv, UNCHANGED <<input, result, visited, node_queue>>,
         at' \in {"root", "done"} \/ (at' \in {"pop", "final"} /\ Running) \/ (at' = "expression" /\ Busy),
         at' = "expression" => context' = context /\ todo' \subseteq todo
  PROVE  OnceInv'
<1>1. MadeOnceInv' /\ LoopedOnceInv'
  BY DEF MadeOnceInv, LoopedOnceInv
<1>2. (Running' => Running) /\ (Busy' => Busy /\ context' = context)
  BY DEF Running, Busy
<1>3. \A w : Waiting(w)' => Waiting(w)
  BY DEF Waiting, Busy
<1>4. QED BY <1>1, <1>2, <1>3, QuietOnce

\* An expression is taken up.
LEMMA ExpressionOnce ==
  ASSUME OnceInv, UNCHANGED <<input, result, visited, node_queue, context>>, at = "expression",
         NEW e \in todo, todo' = todo \ {e}, expression' = e,
         \/ at' = "member" /\ contexts' = <<>>
         \/ at' = "deliver" /\ \E x : contexts' = <<x>>
  PROVE  OnceInv'
<1>1. \A i, j \in DOMAIN contexts' : i = j
  OBVIOUS
<1>2. MadeOnceInv'
  BY <1>1 DEF MadeOnceInv, Apart
<1>3. LoopedOnceInv'
  BY DEF LoopedOnceInv
<1>4. (Running' => Running) /\ (Busy' => Busy /\ context' = context)
  BY DEF Running, Busy
<1>5. \A w : Waiting(w)' => Waiting(w)
  BY DEF Waiting, Busy
<1>6. QED BY <1>2, <1>3, <1>4, <1>5, QuietOnce

\* The loop over the members goes on, or is over.
LEMMA LoopOnce ==
  ASSUME OnceInv, UNCHANGED <<input, result, visited, node_queue, context, todo, expression>>, at = "member",
         at' \in {"member", "deliver"}, Apart(contexts'), LoopedOnceInv'
  PROVE  OnceInv'
<1>1. MadeOnceInv'
  BY DEF OnceInv, MadeOnceInv, Apart
<1>2. (Running' => Running) /\ (Busy' => Busy /\ context' = context)
  BY DEF Running, Busy
<1>3. \A w : Waiting(w)' => Waiting(w)
  BY DEF Waiting, Busy
<1>4. QED BY <1>1, <1>2, <1>3, QuietOnce

LEMMA FailedOnce ==
  ASSUME OnceInv, Busy, NEW status, Failed(status), todo' \subseteq todo
  PROVE  OnceInv'
<1>1. UNCHANGED <<input, result, visited, node_queue, context>> /\ at' \in {"expression", "done"}
  BY DEF Failed, history
<1>2. QED BY <1>1, EndedOnce

LEMMA ExecutedOnce ==
  ASSUME OnceInv, at = "expression", NEW e, Take(e), NEW cs, NEW pending, Executed(e, cs, pending),
         cs = <<>> \/ \E x : cs = <<x>>
  PROVE  OnceInv'
<1>1. UNCHANGED <<input, result, visited, node_queue, context>> /\ contexts' = cs
  BY DEF Executed, history
<1>2. e \in todo /\ todo' = todo \ {e}
  BY DEF Take
<1>3. CASE cs = <<>>
  BY <1>1, <1>2, <1>3, EndedOnce DEF Executed, Busy
<1>4. CASE cs # <<>>
  BY <1>1, <1>2, <1>4, ExpressionOnce DEF Executed
<1>5. QED BY <1>3, <1>4

LEMMA ExpressionsOnce ==
  ASSUME OnceInv, NEW e,
         Subscribe(e) \/ Navigate(e) \/ FilterObject(e) \/ NothingToDo(e) \/ SubstitutionFails(e) \/ FilterMembers(e)
  PROVE  OnceInv'
<1>1. at = "expression" /\ Take(e) /\ Busy
  BY DEF Subscribe, Navigate, FilterObject, NothingToDo, SubstitutionFails, FilterMembers, Busy
<1>2. todo' \subseteq todo
  BY <1>1 DEF Take
<1>3. CASE FilterMembers(e)
  <2>1. /\ UNCHANGED <<input, result, visited, node_queue, context>>
        /\ at' = "member" /\ contexts' = <<>> /\ expression' = e
    BY <1>3 DEF FilterMembers, history
  <2>2. QED BY <1>1, <2>1, ExpressionOnce DEF Take
<1>3a. CASE SubstitutionFails(e)
  <2>1. Failed("internal")
    BY <1>3a DEF SubstitutionFails
  <2>2. QED BY <1>1, <1>2, <2>1, FailedOnce
<1>4. CASE Subscribe(e)
  BY <1>1, <1>4, ExecutedOnce DEF Subscribe
<1>5. CASE NothingToDo(e)
  BY <1>1, <1>5, ExecutedOnce DEF NothingToDo
<1>6. CASE FilterObject(e)
  <2>1. \/ \E status : Failed(status)
        \/ \E cs : Executed(e, cs, uris) /\ (cs = <<>> \/ \E x : cs = <<x>>)
    BY <1>6 DEF FilterObject
  <2>2. QED BY <1>1, <1>2, <2>1, FailedOnce, ExecutedOnce
<1>7. CASE Navigate(e)
  <2>1. \/ \E status : Failed(status)
        \/ \E cs : Executed(e, cs, uris) /\ (cs = <<>> \/ \E x : cs = <<x>>)
    BY <1>7 DEF Navigate
  <2>2. QED BY <1>1, <1>2, <2>1, FailedOnce, ExecutedOnce
<1>8. QED BY <1>3, <1>3a, <1>4, <1>5, <1>6, <1>7

\* One more context, of no resource or of one that has not been met.
LEMMA ApartMore ==
  ASSUME NEW cs \in Seq(Contexts), Apart(cs), NEW x \in Contexts,
         x.resource = Absent \/ \A i \in DOMAIN cs : cs[i].resource # x.resource
  PROVE  /\ Apart(Append(cs, x))
         /\ \A i \in DOMAIN Append(cs, x) :
              Append(cs, x)[i] = x \/ (i \in DOMAIN cs /\ Append(cs, x)[i] = cs[i])
<1> DEFINE s == Append(cs, x)
<1>1. /\ Len(cs) \in Nat /\ DOMAIN cs = 1 .. Len(cs) /\ DOMAIN s = 1 .. Len(cs) + 1
      /\ \A i \in 1 .. Len(cs) : s[i] = cs[i]
      /\ s[Len(cs) + 1] = x
  BY AppendProperties, LenProperties
<1> HIDE DEF s
<1>2. \A i \in DOMAIN s : (i \in DOMAIN cs /\ s[i] = cs[i]) \/ (i = Len(cs) + 1 /\ s[i] = x)
  BY <1>1
<1>3. Apart(s)
  BY <1>2 DEF Apart
<1>4. QED BY <1>2, <1>3 DEF s

LEMMA MembersOnce ==
  ASSUME Inv, OnceInv, OneWay(input), MemberCancelled \/ MemberFails \/ MemberUndecided \/ MemberOk \/ MembersDone
  PROVE  OnceInv'
<1>1. at = "member" /\ UNCHANGED todo /\ Busy
  BY DEF MemberCancelled, MemberFails, MemberUndecided, MemberOk, MembersDone, InLoop, Busy
<1>2. contexts \in Seq(Contexts) /\ context \in Contexts /\ Apart(contexts) /\ index \in Nat
  BY <1>1 DEF Inv, TypeOK, OnceInv, MadeOnceInv
<1>3. \A i \in DOMAIN contexts : contexts[i].resource # Absent =>
        \E k \in DOMAIN Members[context.resource] : k < index /\ contexts[i].resource = Members[context.resource][k]
  BY <1>1 DEF OnceInv, LoopedOnceInv
<1>4. \A k \in DOMAIN Members[context.resource] : k < index => k < index + 1
  <2>1. context.resource \in Resources
    BY <1>1, InMembers DEF Real
  <2>2. DOMAIN Members[context.resource] = 1 .. Len(Members[context.resource]) /\ Len(Members[context.resource]) \in Nat
    BY <2>1, TreeAssumption, LenProperties
  <2>3. QED BY <1>2, <2>2
<1>5. CASE MemberCancelled
  <2>1. /\ UNCHANGED <<input, result, visited, node_queue, context, todo, expression, at>>
        /\ contexts' = Append(contexts, Empty(context)) /\ index' = index + 1
    BY <1>5 DEF MemberCancelled, history
  <2>2. PICK x : x = Empty(context)
    OBVIOUS
  <2>3. x \in Contexts /\ x.resource = Absent
    BY <1>2, <2>2 DEF Empty, Contexts
  <2>4. /\ Apart(contexts')
        /\ \A i \in DOMAIN contexts' : contexts'[i] = x \/ (i \in DOMAIN contexts /\ contexts'[i] = contexts[i])
    BY <1>2, <2>1, <2>2, <2>3, ApartMore
  <2>5. LoopedOnceInv'
    BY <1>3, <1>4, <2>1, <2>3, <2>4 DEF LoopedOnceInv
  <2>6. QED BY <1>1, <2>1, <2>4, <2>5, LoopOnce
<1>6. CASE MemberFails
  <2>1. \/ Failed(FetchMember.code)
        \/ UNCHANGED <<input, result, visited, node_queue, context, todo, expression, at, contexts>> /\ index' = index + 1
    BY <1>1, <1>6 DEF MemberFails, history
  <2>2. CASE Failed(FetchMember.code)
    BY <1>1, <2>2, FailedOnce
  <2>3. CASE ~Failed(FetchMember.code)
    <3>1. LoopedOnceInv'
      BY <1>3, <1>4, <2>1, <2>3 DEF LoopedOnceInv
    <3>2. Apart(contexts')
      BY <1>2, <2>1, <2>3
    <3>3. QED BY <1>1, <2>1, <2>3, <3>1, <3>2, LoopOnce
  <2>4. QED BY <2>2, <2>3
<1>6a. CASE MemberUndecided
  <2>1. Failed("internal")
    BY <1>6a DEF MemberUndecided
  <2>2. QED BY <1>1, <2>1, FailedOnce
<1>7. CASE MembersDone
  <2>1. /\ UNCHANGED <<input, result, visited, node_queue, context, todo, contexts>>
        /\ at' = "expression" \/ (at' = "deliver" /\ expression' = expression)
    BY <1>1, <1>7 DEF MembersDone, Executed, history
  <2>2. CASE at' = "expression"
    BY <1>1, <2>1, <2>2, EndedOnce
  <2>3. CASE at' # "expression"
    <3>1. LoopedOnceInv'
      BY <2>1, <2>3 DEF LoopedOnceInv
    <3>2. QED BY <1>1, <1>2, <2>1, <2>3, <3>1, LoopOnce
  <2>4. QED BY <2>2, <2>3
<1>8. CASE MemberOk
  <2> DEFINE y == ObjectOnly(context, Member, FetchMember.fresh)
             r == Members[context.resource][index]
  <2>1. /\ UNCHANGED <<input, result, visited, node_queue, context, todo, expression, at>>
        /\ contexts' = contexts \/ contexts' = Append(contexts, y)
        /\ InLoop
    BY <1>8 DEF MemberOk, history
  <2>2. index \in DOMAIN Members[context.resource] /\ context.resource \in Resources /\ r \in Resources
    <3>1. context.resource \in Resources /\ index # 0
      BY <1>1, InMembers DEF Inv, SoundInv, ContextsInv, Real
    <3>2. Members[context.resource] \in Seq(Resources)
      BY <3>1, TreeAssumption
    <3>3. index \in DOMAIN Members[context.resource]
      BY <1>2, <2>1, <3>1, <3>2, LenProperties DEF InLoop
    <3>4. QED BY <3>1, <3>2, <3>3
  <2>3. index' = index + 1 /\ index < index + 1
    BY <1>2, <1>8 DEF MemberOk
  <2>4. CASE contexts' = contexts
    <3>1. LoopedOnceInv'
      BY <1>3, <1>4, <2>1, <2>3, <2>4 DEF LoopedOnceInv
    <3>2. QED BY <1>1, <1>2, <2>1, <2>4, <3>1, LoopOnce
  <2>5. CASE contexts' # contexts
    <3>1. PICK x : x = y
      OBVIOUS
    <3>2. x.resource = r /\ contexts' = Append(contexts, x)
      BY <1>2, <2>1, <2>5, <3>1 DEF ObjectOnly, Contexts, Member
    <3>3. x \in Contexts
      <4>1. FetchMember.fresh \in BOOLEAN
        BY <1>1, <2>2, InMembers, FetchMemberIs
      <4>2. QED BY <1>2, <2>2, <3>1, <4>1 DEF ObjectOnly, Contexts, Member
    <3>4. \A i \in DOMAIN contexts : contexts[i].resource # r
      <4>1. SUFFICES ASSUME NEW i \in DOMAIN contexts, contexts[i].resource = r PROVE FALSE
        OBVIOUS
      <4>2. r # Absent
        BY <2>2, TreeAssumption
      <4>3. PICK k \in DOMAIN Members[context.resource] : k < index /\ r = Members[context.resource][k]
        BY <1>3, <4>1, <4>2
      <4>4. k = index
        BY <2>2, <4>3 DEF OneWay
      <4>5. QED BY <1>2, <4>3, <4>4
    <3>5. /\ Apart(contexts')
          /\ \A i \in DOMAIN contexts' : contexts'[i] = x \/ (i \in DOMAIN contexts /\ contexts'[i] = contexts[i])
      BY <1>2, <3>2, <3>3, <3>4, ApartMore
    <3>6. LoopedOnceInv'
      BY <1>3, <1>4, <2>1, <2>2, <2>3, <3>2, <3>5 DEF LoopedOnceInv
    <3>7. QED BY <1>1, <2>1, <3>5, <3>6, LoopOnce
  <2>6. QED BY <2>4, <2>5
<1>9. QED BY <1>5, <1>6, <1>6a, <1>7, <1>8

LEMMA PopOnce == ASSUME Inv, OnceInv, Pop PROVE OnceInv'
<1>1. at = "pop" /\ Running /\ UNCHANGED <<input, result, visited, contexts, expression>>
  BY DEF Pop, history, Running
<1>2. CASE node_queue = <<>>
  BY <1>1, <1>2, EndedOnce DEF Pop
<1>3. CASE node_queue # <<>>
  <2>1. /\ context' = Head(node_queue) /\ node_queue' = Tail(node_queue) /\ at' = "expression"
    BY <1>3 DEF Pop
  <2>2. node_queue \in Seq(Contexts)
    BY DEF Inv, TypeOK
  <2>3. /\ Head(node_queue) = node_queue[1] /\ 1 \in DOMAIN node_queue /\ Len(node_queue) \in Nat
        /\ DOMAIN node_queue = 1 .. Len(node_queue)
        /\ DOMAIN Tail(node_queue) = 1 .. Len(node_queue) - 1
        /\ \A i \in 1 .. Len(node_queue) - 1 : Tail(node_queue)[i] = node_queue[i + 1]
    BY <1>3, <2>2, HeadTailProperties, LenProperties, EmptySeq
  <2>4. \A i \in DOMAIN node_queue' : i + 1 \in DOMAIN node_queue /\ i + 1 # 1 /\ node_queue'[i] = node_queue[i + 1]
    BY <2>1, <2>3
  <2>5. \A i, j \in DOMAIN node_queue' : i + 1 = j + 1 => i = j
    BY <2>1, <2>3
  <2>6. \A w : Waiting(w)' => Waiting(w)
    <3>1. SUFFICES ASSUME NEW w, Waiting(w)' PROVE \E i \in DOMAIN node_queue : VisitOf(node_queue[i]) = w[1]
      BY DEF Waiting
    <3>2. (\E i \in DOMAIN node_queue' : VisitOf(node_queue'[i]) = w[1]) \/ w[1] = VisitOf(context')
      BY <3>1 DEF Waiting
    <3>3. QED BY <2>1, <2>3, <2>4, <3>2
  <2>7. Given \subseteq Given' /\ Entrance \subseteq Entrance'
    BY <1>1, <2>6, TakenStays
  <2>8. DistinctInv'
    BY <1>1 DEF OnceInv, DistinctInv
  <2>9. OriginInv'
    BY <1>1, <2>7 DEF OnceInv, OriginInv, AnswersIn
  <2>10. /\ \A i \in DOMAIN node_queue : VisitOf(node_queue[i]) \in visited
         /\ \A i, j \in DOMAIN node_queue :
              VisitOf(node_queue[i]) = VisitOf(node_queue[j]) /\ node_queue[i].resource # Absent => i = j
    BY <1>1 DEF OnceInv, QueuedOnceInv
  <2>11. QueuedOnceInv'
    BY <1>1, <2>4, <2>5, <2>10 DEF QueuedOnceInv
  <2>12. PoppedOnceInv'
    BY <1>1, <2>1, <2>3, <2>4, <2>10 DEF PoppedOnceInv
  <2>13. MadeOnceInv' /\ LoopedOnceInv'
    BY <2>1 DEF MadeOnceInv, LoopedOnceInv
  <2>14. QED BY <2>8, <2>9, <2>11, <2>12, <2>13 DEF OnceInv
<1>4. QED BY <1>2, <1>3

\* The first answer.
LEMMA EnqueueOnce ==
  ASSUME Inv, at \in {"start", "root"}, NEW c \in Contexts, c.resource \in Resources,
         c.object <=> IsObject(c.resource),
         Starts(input) = {VisitOf(c)},
         NEW q, q = Asked(input, VisitOf(c)),
         q # NoSubquery => (c.raw <=> Kind[c.resource] = "raw"),
         Enqueue(c, q)
  PROVE  OnceInv'
<1> DEFINE n == TryNormalize(result, c, q)
           u == VisitOf(c)
<1>1. /\ n.status = "ok" /\ at' = "pop" /\ node_queue' = <<n.context>> /\ visited' = {VisitOf(n.context)}
      /\ result' = n.results /\ input' = input
  BY DEF Enqueue
<1>2. input \in Inputs /\ result \in Seq(ResultType)
  BY DEF Inv, TypeOK, ResultType
<1>3. q \in Subqueries \union {NoSubquery}
  <2>1. u.node \in trie.nodes
    BY VisitOfFields DEF Contexts
  <2>2. QED BY <2>1, TrieType DEF Asked
<1>4. /\ AnswersIn(n.results) = AnswersIn(result) \union Own(input, u)
      /\ Entered(input, u) = {VisitOf(n.context)}
      /\ AddsOwn(input, result, n.results, u)
  BY <1>1, <1>2, <1>3, NormalizeAnswers
<1> HIDE DEF n, u
<1>5. result = <<>>
  BY DEF Inv, SoundInv, StartInv
<1>6. DistinctInv'
  <2>1. result' = <<>> \/ \E x : result' = <<x>>
    BY <1>1, <1>4, <1>5 DEF AddsOwn
  <2>2. \A i, j \in DOMAIN result' : i = j
    BY <2>1
  <2>3. QED BY <2>2 DEF DistinctInv
<1>7. OriginInv'
  <2>1. AnswersIn(result) = {}
    BY <1>5 DEF AnswersIn
  <2>2. AnswersIn(result') \subseteq Given'
    BY <1>1, <1>4, <2>1 DEF Given, u
  <2>3. visited' \subseteq First(input)
    BY <1>1, <1>4 DEF First, u
  <2>4. QED BY <1>1, <2>2, <2>3 DEF OriginInv, Entrance, AnswersIn
<1>8. QueuedOnceInv'
  <2>1. DOMAIN node_queue' = {1} /\ node_queue'[1] = n.context
    BY <1>1
  <2>2. QED BY <1>1, <2>1 DEF QueuedOnceInv
<1>9. PoppedOnceInv' /\ MadeOnceInv' /\ LoopedOnceInv'
  BY <1>1 DEF PoppedOnceInv, MadeOnceInv, LoopedOnceInv, Busy
<1>10. QED BY <1>6, <1>7, <1>8, <1>9 DEF OnceInv

LEMMA FetchRootOnce == ASSUME Inv, FetchRoot PROVE OnceInv'
<1> DEFINE c == RootContext
<1>1. /\ at = "root" /\ input.op # "resume" /\ input \in Inputs
      /\ FetchedRoot.code = "ok" /\ IsObject(Root) /\ Enqueue(c, RootSubquery)
  BY DEF FetchRoot, Inv, TypeOK, SoundInv, StartInv
<1>2. RootIsStart(c)
  BY <1>1, FetchedRootStart
<1> HIDE DEF c
<1>3. QED BY <1>1, <1>2, EnqueueOnce DEF RootIsStart

LEMMA ResumeOnce == ASSUME Inv, OnceInv, ResumeBegins \/ ResumeRefused PROVE OnceInv'
<1>1. at = "start" /\ input.op = "resume" /\ context \in Contexts
  BY DEF ResumeBegins, ResumeRefused, Inv, TypeOK
<1>2. CASE ResumeBegins
  BY <1>1, <1>2, ResumedContext, EnqueueOnce DEF ResumeBegins
<1>3. CASE ResumeRefused
  <2>1. at' = "done" /\ result' = TryNormalize(result, context, ResumeSubquery).results /\ result = <<>>
    BY <1>1, <1>3 DEF ResumeRefused, Inv, SoundInv, StartInv
  <2>2. result' = <<>> \/ \E x : result' = <<x>>
    <3> DEFINE y == [subquery |-> ResumeSubquery, path |-> ResultPath(context, ResumeSubquery), fresh |-> context.fresh]
    <3>1. TryNormalize(result, context, ResumeSubquery).results \in {result, Append(result, y)}
      BY DEF TryNormalize
    <3>2. Append(<<>>, y) = <<y>>
      OBVIOUS
    <3>3. QED BY <2>1, <3>1, <3>2
  <2>3. \A i, j \in DOMAIN result' : i = j
    BY <2>2
  <2>4. QED BY <2>1, <2>3 DEF OnceInv, DistinctInv, OriginInv, QueuedOnceInv, PoppedOnceInv, MadeOnceInv, LoopedOnceInv, Running, Busy
<1>4. QED BY <1>2, <1>3

\* A way, and what lies behind it.
LEMMA WayIs ==
  ASSUME NEW g \in Inputs, NEW v \in AllVisits(g), NEW e \in ChildExpressions(trie, v.node),
         ~SubscribesTo(g, v.node, e), NEW r \in Reached(g, v, e)
  PROVE  /\ <<v, e, r>> \in Ways(g) /\ MetBy(g, <<v, e, r>>) = Met(g, v, e, r)
         /\ Further(g, Met(g, v, e, r)) \intersect First(g) = {}
<1>1. <<v, e, r>> \in Ways(g) /\ MetBy(g, <<v, e, r>>) = Met(g, v, e, r)
  BY DEF Ways, MetBy
<1>2. PICK k \in Nat : v \in Walk(g)[k]
  BY OfAllVisits
<1>3. PICK n \in Nat : n = Len(g.start[1])
  BY InputType
<1>4. ASSUME NEW w \in Further(g, Met(g, v, e, r)), w \in First(g) PROVE FALSE
  <2>1. w \in LeadsTo(g, v, e)
    BY <1>4 DEF LeadsTo
  <2>2. w \in Walk(g)[k + 1] /\ k + 1 \in Nat
    BY <1>2, <2>1, WalkSteps DEF Onward
  <2>3. w \in Walk(g)[0] /\ 0 \in Nat
    BY <1>4, WalkSteps
  <2>4. Len(w.node) = n + (k + 1)
    BY <1>3, <2>2, WalkPlace
  <2>5. Len(w.node) = n + 0
    BY <1>3, <2>3, WalkPlace
  <2>6. n + (k + 1) # n + 0
    OBVIOUS
  <2>7. QED BY <2>4, <2>5, <2>6
<1>5. QED BY <1>1, <1>4

\* What a delivery answers and queues: the way of the context at hand, or, if
\* that was left by a cancellation, nothing.
Delivers(r) ==
  LET v == VisitOf(context)
      u == Met(input, v, expression, r)
  IN  /\ v \in AllVisits(input) /\ {r, context.resource} \subseteq Resources
      /\ ~SubscribesTo(input, v.node, expression) /\ r \in Reached(input, v, expression)
      /\ AddsOwn(input, result, result', u)
      /\ at' # "done" =>
           \/ UNCHANGED <<node_queue, visited>>
           \/ \E x \in Contexts : Queued(x) /\ VisitOf(x) \in Further(input, u) /\ x.resource = r

DeliversNothing ==
  /\ result' = result
  /\ at' # "done" => \E x \in Contexts : Queued(x) /\ x.resource = Absent

LEMMA DeliverIs ==
  ASSUME Inv, Deliver
  PROVE  /\ contexts \in Seq(Contexts) /\ contexts # <<>> /\ at = "deliver"
         /\ UNCHANGED <<input, context, todo>>
         /\ at' # "done" =>
              /\ contexts' = Tail(contexts)
              /\ at' = IF Tail(contexts) = <<>> THEN "expression" ELSE "deliver"
              /\ at' = "deliver" => expression' = expression
         /\ Delivers(Head(contexts).resource) \/ (DeliversNothing /\ Head(contexts).resource = Absent)
<1> DEFINE v == VisitOf(context)
           h == Head(contexts)
           d == [h EXCEPT !.node = Append(context.node, expression)]
           q == IF input.op = "resume" /\ ~d.object THEN NoSubquery ELSE trie.subquery_id[d.node]
           m == TryNormalize(result, d, q)
<1>1. /\ at = "deliver" /\ result' = m.results
      /\ m.status = "ok" =>
           /\ IF input.op = "resume" /\ q # NoSubquery THEN UNCHANGED <<node_queue, visited>>
              ELSE node_queue' = Append(node_queue, m.context) /\ visited' = visited \union {VisitOf(m.context)}
           /\ contexts' = Tail(contexts)
           /\ at' = IF Tail(contexts) = <<>> THEN "expression" ELSE "deliver"
           /\ expression' = IF Tail(contexts) = <<>> THEN NoExpression ELSE expression
      /\ m.status # "ok" => at' = "done"
      /\ UNCHANGED <<input, context, todo>>
  BY DEF Deliver
<1>2. PICK c : c = d
  OBVIOUS
<1>3. PICK n : n = m
  OBVIOUS
<1>4. /\ input \in Inputs /\ context \in Contexts /\ contexts \in Seq(Contexts) /\ contexts # <<>>
      /\ result \in Seq(ResultType) /\ expression \in ChildExpressions(trie, context.node)
      /\ context.node \in trie.nodes
  BY <1>1 DEF Inv, TypeOK, SoundInv, ContextsInv, ResultType, Contexts
<1>5. h = contexts[1] /\ 1 \in DOMAIN contexts /\ h \in Contexts
  BY <1>4, HeadTailProperties, LenProperties, EmptySeq
<1>6. Append(context.node, expression) \in trie.nodes
  BY <1>4, ChildNode
<1>7. /\ c \in Contexts /\ c.node = Append(context.node, expression) /\ c.resource = h.resource
      /\ c.object = h.object /\ c.raw = h.raw /\ c.iterable = h.iterable
  <2>1. PICK node \in trie.nodes : node = Append(context.node, expression)
    BY <1>6
  <2>2. PICK k \in Contexts : k = h
    BY <1>5
  <2>3. c = [k EXCEPT !.node = node]
    BY <1>2, <2>1, <2>2
  <2> HIDE DEF h, d
  <2>4. /\ c \in Contexts /\ c.node = node /\ c.resource = k.resource
        /\ c.object = k.object /\ c.raw = k.raw /\ c.iterable = k.iterable
    BY <2>3 DEF Contexts
  <2>5. QED BY <2>1, <2>2, <2>4
<1>8. PICK p : p = q
  OBVIOUS
<1>9. /\ p = IF input.op = "resume" /\ ~c.object THEN NoSubquery ELSE trie.subquery_id[c.node]
      /\ n = TryNormalize(result, c, p)
  BY <1>2, <1>3, <1>8
<1>10. p \in Subqueries \union {NoSubquery}
  BY <1>6, <1>7, <1>9, TrieType
<1>11. /\ result' = n.results
       /\ n.status = "ok" =>
            /\ input.op = "resume" /\ p # NoSubquery => UNCHANGED <<node_queue, visited>>
            /\ ~(input.op = "resume" /\ p # NoSubquery) => Queued(n.context)
       /\ at' # "done" => n.status = "ok"
  <2>1. result' = n.results /\ (at' # "done" => n.status = "ok")
    BY <1>1, <1>3
  <2>2. ASSUME n.status = "ok"
        PROVE  /\ input.op = "resume" /\ p # NoSubquery => UNCHANGED <<node_queue, visited>>
               /\ ~(input.op = "resume" /\ p # NoSubquery) => Queued(n.context)
    BY <1>1, <1>3, <1>8, <2>2 DEF Queued
  <2>3. QED BY <2>1, <2>2
<1>12. at' # "done" =>
         /\ contexts' = Tail(contexts)
         /\ at' = IF Tail(contexts) = <<>> THEN "expression" ELSE "deliver"
         /\ at' = "deliver" => expression' = expression
  BY <1>1
<1>13. \/ Real(input, context) /\ Born(input, context, expression, h)
       \/ Hollow(h) /\ ~h.raw
  BY <1>1, <1>5 DEF Inv, SoundInv, ContextsInv
<1>14. CASE Real(input, context) /\ Born(input, context, expression, h)
  <2> DEFINE u == Met(input, v, expression, h.resource)
  <2>1. /\ ~SubscribesTo(input, context.node, expression) /\ h.resource \in Reached(input, v, expression)
        /\ VisitOf(d) = u /\ (h.object <=> IsObject(h.resource)) /\ (h.raw <=> Kind[h.resource] = "raw")
    BY <1>14 DEF Born
  <2>2. VisitOf(c) = u /\ u.node = c.node /\ u.resource = h.resource
    <3>1. VisitOf(c) = u
      BY <1>2, <2>1
    <3> HIDE DEF u
    <3>2. QED BY <1>7, <3>1, VisitOfFields
  <2>3. h.resource \in Resources
    BY <2>1 DEF Reached, Fetched
  <2>4. p = Asked(input, VisitOf(c))
    BY <1>7, <1>9, <2>1, <2>2 DEF Asked
  <2>5. /\ n.context \in Contexts /\ n.context.resource = c.resource
        /\ n.status = "ok" => Entered(input, VisitOf(c)) = {VisitOf(n.context)}
        /\ AddsOwn(input, result, n.results, VisitOf(c))
    BY <1>4, <1>7, <1>9, <1>10, <2>1, <2>3, <2>4, NormalizeAnswers
  <2>6. v \in AllVisits(input) /\ v.node = context.node /\ context.resource \in Resources
    BY <1>14, VisitOfFields DEF Real
  <2> HIDE DEF u, v, d, h, q, m
  <2>7. ASSUME at' # "done"
        PROVE  \/ UNCHANGED <<node_queue, visited>>
               \/ \E x \in Contexts : Queued(x) /\ VisitOf(x) \in Further(input, u) /\ x.resource = h.resource
    <3>1. n.status = "ok"
      BY <1>11, <2>7
    <3>2. CASE input.op = "resume" /\ p # NoSubquery
      BY <1>11, <3>1, <3>2
    <3>3. CASE ~(input.op = "resume" /\ p # NoSubquery)
      <4>1. Further(input, u) = {VisitOf(n.context)}
        BY <2>2, <2>4, <2>5, <3>1, <3>3 DEF Further
      <4>2. QED BY <1>7, <1>11, <2>5, <3>1, <3>3, <4>1
    <3>4. QED BY <3>2, <3>3
  <2>8. AddsOwn(input, result, result', u)
    BY <1>11, <2>2, <2>5
  <2>9. Delivers(h.resource)
    BY <2>1, <2>3, <2>6, <2>7, <2>8 DEF Delivers, u, v
  <2>10. QED BY <1>1, <1>4, <1>12, <2>9 DEF h
<1>15. CASE Hollow(h) /\ ~h.raw
  <2>1. Hollow(c) /\ ~c.raw
    BY <1>7, <1>15 DEF Hollow
  <2>2. n.results = result /\ n.context = c /\ (n.status = "ok" <=> p = NoSubquery)
    BY <1>9, <2>1, NormalizeHollow
  <2>3. c.resource = Absent /\ h.resource = Absent
    BY <1>15, <2>1 DEF Hollow
  <2> HIDE DEF v, d, h, q, m
  <2>4. DeliversNothing
    BY <1>7, <1>11, <2>2, <2>3 DEF DeliversNothing
  <2>5. QED BY <1>1, <1>4, <1>12, <2>3, <2>4 DEF h
<1>16. QED BY <1>13, <1>14, <1>15

\* Every visit is of a resource.
LEMMA VisitedResources ==
  ASSUME NEW g \in Inputs
  PROVE  \A v \in AllVisits(g) : v.resource \in Resources
<1> DEFINE S == {v \in AllVisits(g) : v.resource \in Resources}
<1>1. ASSUME NEW v \in First(g) PROVE v.resource \in Resources
  <2>1. PICK u \in Starts(g) : v \in Entered(g, u)
    BY <1>1 DEF First
  <2>2. u.resource \in Resources /\ IsVisit(u)
    <3>1. g.start[2] \in Resources /\ Root \in Resources
      BY InputType, TreeAssumption
    <3>2. QED BY <3>1 DEF Starts, Visit, IsVisit
  <2>3. QED BY <2>1, <2>2, EnteredPlace
<1>2. ASSUME NEW v \in S, NEW e \in ChildExpressions(trie, v.node), NEW w \in LeadsTo(g, v, e)
      PROVE  w.resource \in Resources
  <2>1. PICK r \in Reached(g, v, e) : w \in Entered(g, Met(g, v, e, r))
    BY <1>2 DEF LeadsTo, Further
  <2>2. r \in Resources
    BY <2>1 DEF Reached, Fetched
  <2>3. QED BY <2>1, <2>2, MetPlace, EnteredPlace
<1>3. First(g) \subseteq S
  BY <1>1, VisitsClosed
<1>4. \A v \in S : \A e \in ChildExpressions(trie, v.node) : LeadsTo(g, v, e) \subseteq S
  BY <1>2, VisitsClosed
<1> HIDE DEF S
<1>5. AllVisits(g) \subseteq S
  BY <1>3, <1>4, VisitsLeast
<1>6. QED BY <1>5 DEF S

\* What the way about to be taken answers and leads to is new.
LEMMA WayIsNew ==
  ASSUME input \in Inputs, OnceInv, OneWay(input), Running, NEW w \in Ways(input), Waiting(w),
         Further(input, MetBy(input, w)) \intersect First(input) = {}
  PROVE  /\ Own(input, MetBy(input, w)) \intersect AnswersIn(result) = {}
         /\ \A u \in Further(input, MetBy(input, w)) : u.resource # Absent => u \notin visited
<1> DEFINE O(x) == Own(input, MetBy(input, x))
           F(x) == Further(input, MetBy(input, x))
<1>1. /\ \A x \in Ways(input) \ {w} : O(w) \intersect O(x) = {} /\ F(w) \intersect F(x) = {}
      /\ \A u \in Starts(input) : Own(input, u) \intersect O(w) = {}
  BY DEF OneWay
<1>2. Taken \subseteq Ways(input) \ {w}
  BY DEF Taken
<1>3. AnswersIn(result) \subseteq Given /\ \A u \in visited : u.resource # Absent => u \in Entrance
  BY DEF OnceInv, OriginInv
<1>4. /\ Given = (UNION {Own(input, u) : u \in Starts(input)}) \union (UNION {O(x) : x \in Taken})
      /\ Entrance = First(input) \union UNION {F(x) : x \in Taken}
  BY DEF Given, Entrance
<1> HIDE DEF O, F
<1>5. ASSUME NEW a \in O(w) PROVE a \notin Given
  <2>1. \A u \in Starts(input) : a \notin Own(input, u)
    BY <1>1, <1>5
  <2>2. \A x \in Taken : a \notin O(x)
    BY <1>1, <1>2, <1>5
  <2>3. a \notin UNION {Own(input, u) : u \in Starts(input)}
    BY <2>1
  <2>4. a \notin UNION {O(x) : x \in Taken}
    BY <2>2
  <2>5. QED BY <1>4, <2>3, <2>4
<1>6. ASSUME NEW u \in F(w) PROVE u \notin Entrance
  <2>1. u \notin First(input)
    BY <1>6 DEF F
  <2>2. \A x \in Taken : u \notin F(x)
    BY <1>1, <1>2, <1>6
  <2>3. QED BY <1>4, <2>1, <2>2
<1>7. QED BY <1>3, <1>5, <1>6 DEF O, F

LEMMA AddedOnce ==
  ASSUME DistinctInv, result \in Seq(ResultType), NEW u, AddsOwn(input, result, result', u),
         Own(input, u) \intersect AnswersIn(result) = {}
  PROVE  DistinctInv' /\ AnswersIn(result') \subseteq AnswersIn(result) \union Own(input, u)
<1>1. CASE result' = result
  BY <1>1 DEF DistinctInv
<1>2. CASE result' # result
  <2>1. PICK x \in ResultType : result' = Append(result, x) /\ Own(input, u) = {DataAnswer(x.path)}
    BY <1>2 DEF AddsOwn
  <2>2. AnswersIn(result') = AnswersIn(result) \union Own(input, u)
    BY <2>1, AppendedAnswer
  <2>3. /\ DOMAIN result' = 1 .. Len(result) + 1 /\ DOMAIN result = 1 .. Len(result) /\ Len(result) \in Nat
        /\ \A i \in 1 .. Len(result) : result'[i] = result[i]
        /\ result'[Len(result) + 1] = x
    BY <2>1, AppendProperties, LenProperties
  <2>4. \A i \in DOMAIN result : result[i].path # x.path
    BY <2>1 DEF AnswersIn
  <2>5. \A i \in DOMAIN result' : (i \in DOMAIN result /\ result'[i] = result[i]) \/ (i = Len(result) + 1 /\ result'[i] = x)
    BY <2>3
  <2>6. DistinctInv'
    BY <2>4, <2>5 DEF DistinctInv
  <2>7. QED BY <2>2, <2>6
<1>3. QED BY <1>1, <1>2

\* The loop over the new contexts goes on: what is queued, if anything, is of
\* no resource or has not been visited.
LEMMA DeliveryGoesOn ==
  ASSUME Inv, OnceInv, Deliver, at' # "done",
         \/ UNCHANGED <<node_queue, visited>>
         \/ \E x \in Contexts : Queued(x) /\ (x.resource # Absent => VisitOf(x) \notin visited)
  PROVE  /\ QueuedOnceInv' /\ PoppedOnceInv' /\ MadeOnceInv' /\ LoopedOnceInv'
         /\ Given \subseteq Given' /\ Entrance \subseteq Entrance'
<1>1. /\ contexts \in Seq(Contexts) /\ contexts # <<>> /\ at = "deliver" /\ Busy /\ Running
      /\ UNCHANGED <<input, context, todo>> /\ contexts' = Tail(contexts)
      /\ at' \in {"expression", "deliver"}
      /\ at' = "deliver" => expression' = expression
  BY DeliverIs DEF Busy, Running
<1>2. node_queue \in Seq(Contexts) /\ input \in Inputs
  BY DEF Inv, TypeOK
<1>3. \A i \in DOMAIN contexts' : /\ i + 1 \in DOMAIN contexts /\ i + 1 # 1 /\ contexts'[i] = contexts[i + 1]
                                  /\ \A j \in DOMAIN contexts' : i + 1 = j + 1 => i = j
  <2>1. /\ Len(contexts) \in Nat /\ DOMAIN contexts = 1 .. Len(contexts)
        /\ DOMAIN Tail(contexts) = 1 .. Len(contexts) - 1
        /\ \A i \in 1 .. Len(contexts) - 1 : Tail(contexts)[i] = contexts[i + 1]
    BY <1>1, HeadTailProperties, LenProperties, EmptySeq
  <2>2. QED BY <1>1, <2>1
<1>4. /\ \A i \in DOMAIN node_queue' :
           \/ i \in DOMAIN node_queue /\ node_queue'[i] = node_queue[i]
           \/ /\ i = Len(node_queue) + 1 /\ VisitOf(node_queue'[i]) \in visited'
              /\ node_queue'[i].resource # Absent => VisitOf(node_queue'[i]) \notin visited
      /\ visited \subseteq visited'
  <2>1. CASE UNCHANGED <<node_queue, visited>>
    BY <2>1
  <2>2. CASE \E x \in Contexts : Queued(x) /\ (x.resource # Absent => VisitOf(x) \notin visited)
    <3>1. PICK x \in Contexts : Queued(x) /\ (x.resource # Absent => VisitOf(x) \notin visited)
      BY <2>2
    <3>2. node_queue' = Append(node_queue, x) /\ visited' = visited \union {VisitOf(x)}
      BY <3>1 DEF Queued
    <3>3. /\ DOMAIN node_queue' = 1 .. Len(node_queue) + 1 /\ DOMAIN node_queue = 1 .. Len(node_queue)
          /\ Len(node_queue) \in Nat
          /\ \A i \in 1 .. Len(node_queue) : node_queue'[i] = node_queue[i]
          /\ node_queue'[Len(node_queue) + 1] = x
      BY <1>2, <3>2, AppendProperties, LenProperties
    <3>4. ASSUME NEW i \in DOMAIN node_queue'
          PROVE  \/ i \in DOMAIN node_queue /\ node_queue'[i] = node_queue[i]
                 \/ i = Len(node_queue) + 1 /\ node_queue'[i] = x
      BY <3>3
    <3>5. QED BY <3>1, <3>2, <3>4
  <2>3. QED BY <2>1, <2>2
<1>5. \A c : VisitOf(c).resource = c.resource
  BY VisitOfFields
<1>6. /\ \A i \in DOMAIN node_queue : VisitOf(node_queue[i]) \in visited
      /\ \A i, j \in DOMAIN node_queue :
           VisitOf(node_queue[i]) = VisitOf(node_queue[j]) /\ node_queue[i].resource # Absent => i = j
      /\ VisitOf(context) \in visited
      /\ context.resource # Absent => \A i \in DOMAIN node_queue : VisitOf(node_queue[i]) # VisitOf(context)
      /\ expression \notin todo /\ Apart(contexts)
  BY <1>1 DEF OnceInv, QueuedOnceInv, PoppedOnceInv, MadeOnceInv
<1>7. QueuedOnceInv'
  <2>1. \A i \in DOMAIN node_queue' : VisitOf(node_queue'[i]) \in visited'
    BY <1>4, <1>6
  <2>2. ASSUME NEW i \in DOMAIN node_queue', NEW j \in DOMAIN node_queue',
               VisitOf(node_queue'[i]) = VisitOf(node_queue'[j]), node_queue'[i].resource # Absent
        PROVE  i = j
    <3>1. node_queue'[j].resource # Absent
      BY <1>5, <2>2
    <3>2. CASE i \in DOMAIN node_queue /\ node_queue'[i] = node_queue[i]
      BY <1>4, <1>6, <2>2, <3>1, <3>2
    <3>3. CASE ~(i \in DOMAIN node_queue /\ node_queue'[i] = node_queue[i])
      BY <1>4, <1>6, <2>2, <3>1, <3>3
    <3>4. QED BY <3>2, <3>3
  <2>3. QED BY <2>1, <2>2 DEF QueuedOnceInv
<1>8. PoppedOnceInv'
  <2>1. ASSUME context.resource # Absent, NEW i \in DOMAIN node_queue', VisitOf(node_queue'[i]) = VisitOf(context)
        PROVE  FALSE
    <3>1. node_queue'[i].resource # Absent
      BY <1>5, <2>1
    <3>2. QED BY <1>4, <1>6, <2>1, <3>1
  <2>2. QED BY <1>1, <1>4, <1>6, <2>1 DEF PoppedOnceInv
<1>9. MadeOnceInv'
  <2>1. Apart(contexts')
    BY <1>3, <1>6 DEF Apart
  <2>2. QED BY <1>1, <1>6, <2>1 DEF MadeOnceInv
<1>10. LoopedOnceInv'
  BY <1>1 DEF LoopedOnceInv
<1>11. ASSUME NEW w \in Ways(input), w[1] \in visited, Waiting(w)' PROVE Waiting(w)
  <2>1. w[1].resource # Absent
    <3>1. w[1] \in AllVisits(input)
      BY DEF Ways
    <3>2. QED BY <1>2, <3>1, VisitedResources, TreeAssumption
  <2>2. CASE \E i \in DOMAIN node_queue' : VisitOf(node_queue'[i]) = w[1]
    <3>1. PICK i \in DOMAIN node_queue' : VisitOf(node_queue'[i]) = w[1]
      BY <2>2
    <3>2. i \in DOMAIN node_queue /\ node_queue'[i] = node_queue[i]
      BY <1>4, <1>5, <1>11, <2>1, <3>1
    <3>3. QED BY <3>1, <3>2 DEF Waiting
  <2>3. CASE ~\E i \in DOMAIN node_queue' : VisitOf(node_queue'[i]) = w[1]
    <3>1. /\ w[1] = VisitOf(context')
          /\ \/ w[2] \in todo'
             \/ at' = "member" /\ w[2] = expression'
             \/ at' = "deliver" /\ w[2] = expression' /\ \E i \in DOMAIN contexts' : contexts'[i].resource = w[3]
      BY <1>11, <2>3 DEF Waiting
    <3>2. \/ w[2] \in todo
          \/ w[2] = expression /\ \E i \in DOMAIN contexts : contexts[i].resource = w[3]
      BY <1>1, <1>3, <3>1
    <3>3. QED BY <1>1, <3>1, <3>2 DEF Waiting
  <2>4. QED BY <2>2, <2>3
<1>12. Given \subseteq Given' /\ Entrance \subseteq Entrance'
  BY <1>1, <1>4, <1>11, TakenStays
<1>13. QED BY <1>7, <1>8, <1>9, <1>10, <1>12

\* A way is taken.
LEMMA DeliverOnce == ASSUME Inv, OnceInv, OneWay(input), Deliver PROVE OnceInv'
<1> DEFINE v == VisitOf(context)
           r == Head(contexts).resource
           u == Met(input, v, expression, r)
           way == <<v, expression, r>>
<1>1. /\ contexts \in Seq(Contexts) /\ contexts # <<>> /\ at = "deliver" /\ Busy /\ Running
      /\ UNCHANGED <<input, context, todo>>
      /\ at' # "done" =>
           /\ contexts' = Tail(contexts)
           /\ at' \in {"expression", "deliver"}
           /\ at' = "deliver" => expression' = expression
      /\ Delivers(r) \/ (DeliversNothing /\ r = Absent)
  BY DeliverIs DEF Busy, Running
<1>2. /\ result \in Seq(ResultType) /\ input \in Inputs /\ DistinctInv
      /\ expression \in ChildExpressions(trie, context.node)
  BY <1>1 DEF Inv, TypeOK, SoundInv, ContextsInv, ResultType, OnceInv
<1>3. VisitOf(context) \in visited /\ expression \notin todo /\ Apart(contexts)
  BY <1>1 DEF OnceInv, PoppedOnceInv, MadeOnceInv
<1>4. AnswersIn(result) \subseteq Given /\ \A x \in visited : x.resource # Absent => x \in Entrance
  BY <1>1 DEF OnceInv, OriginInv
<1>5. ASSUME at' = "done" PROVE QueuedOnceInv' /\ PoppedOnceInv' /\ MadeOnceInv' /\ LoopedOnceInv' /\ OriginInv'
  BY <1>5 DEF QueuedOnceInv, PoppedOnceInv, MadeOnceInv, LoopedOnceInv, OriginInv, Running, Busy
<1>6. CASE Delivers(r)
  <2>1. /\ v \in AllVisits(input) /\ {r, context.resource} \subseteq Resources
        /\ ~SubscribesTo(input, v.node, expression) /\ r \in Reached(input, v, expression)
        /\ AddsOwn(input, result, result', u)
        /\ at' # "done" =>
             \/ UNCHANGED <<node_queue, visited>>
             \/ \E x \in Contexts : Queued(x) /\ VisitOf(x) \in Further(input, u) /\ x.resource = r
    BY <1>6 DEF Delivers
  <2>2. expression \in ChildExpressions(trie, v.node) /\ r # Absent /\ context.resource # Absent
    BY <1>2, <2>1, VisitOfFields, TreeAssumption
  <2>3. way \in Ways(input) /\ MetBy(input, way) = u /\ Further(input, u) \intersect First(input) = {}
    BY <1>2, <2>1, <2>2, WayIs
  <2>4. /\ Len(contexts) \in Nat /\ DOMAIN contexts = 1 .. Len(contexts) /\ 1 \in DOMAIN contexts
        /\ Head(contexts) = contexts[1]
        /\ DOMAIN Tail(contexts) = 1 .. Len(contexts) - 1
        /\ \A i \in 1 .. Len(contexts) - 1 : Tail(contexts)[i] = contexts[i + 1]
    BY <1>1, HeadTailProperties, LenProperties, EmptySeq
  <2>5. contexts[1].resource = r
    BY <2>4
  <2>6. PICK w : w = way
    OBVIOUS
  <2>7. w[1] = VisitOf(context) /\ w[2] = expression /\ w[3] = r
    BY <2>6
  <2>8. w \in Ways(input) /\ MetBy(input, w) = u
    BY <2>3, <2>6
  <2> HIDE DEF v, r, u, way
  <2>9. Waiting(w)
    BY <1>1, <2>4, <2>5, <2>7 DEF Waiting
  <2>10. /\ Own(input, u) \intersect AnswersIn(result) = {}
        /\ \A x \in Further(input, u) : x.resource # Absent => x \notin visited
    BY <1>1, <1>2, <2>3, <2>8, <2>9, WayIsNew
  <2>11. DistinctInv' /\ AnswersIn(result') \subseteq AnswersIn(result) \union Own(input, u)
    BY <1>2, <2>1, <2>10, AddedOnce
  <2>12. ASSUME at' # "done" PROVE QueuedOnceInv' /\ PoppedOnceInv' /\ MadeOnceInv' /\ LoopedOnceInv' /\ OriginInv'
    <3>1. \/ UNCHANGED <<node_queue, visited>>
          \/ \E x \in Contexts : Queued(x) /\ VisitOf(x) \in Further(input, u) /\ VisitOf(x) \notin visited
      <4>1. \A x : VisitOf(x).resource = x.resource
        BY VisitOfFields
      <4>2. QED BY <2>1, <2>2, <2>10, <2>12, <4>1
    <3>2. /\ QueuedOnceInv' /\ PoppedOnceInv' /\ MadeOnceInv' /\ LoopedOnceInv'
          /\ Given \subseteq Given' /\ Entrance \subseteq Entrance'
      BY <2>12, <3>1, DeliveryGoesOn
    <3>3. visited \subseteq visited' /\ \A x \in visited' : x \in visited \/ x \in Further(input, u)
      BY <3>1 DEF Queued
    <3>4. ~Waiting(w)'
      <4>1. \A i \in DOMAIN node_queue' : VisitOf(node_queue'[i]) # VisitOf(context)
        BY <1>1, <2>2, <2>12, <3>2 DEF PoppedOnceInv, Busy
      <4>2. \A i \in DOMAIN contexts' : contexts'[i].resource # r
        <5>1. SUFFICES ASSUME NEW i \in DOMAIN contexts', contexts'[i].resource = r PROVE FALSE
          OBVIOUS
        <5>2. i + 1 \in DOMAIN contexts /\ i + 1 # 1 /\ contexts[i + 1].resource = r
          BY <1>1, <2>4, <2>12, <5>1
        <5>3. QED BY <1>3, <2>2, <2>4, <2>5, <5>2 DEF Apart
      <4>3. QED BY <1>1, <1>3, <2>7, <2>12, <4>1, <4>2 DEF Waiting
    <3>5. Own(input, u) \subseteq Given' /\ Further(input, u) \subseteq Entrance'
      <4>1. w \in Taken'
        BY <1>1, <1>3, <2>8, <2>7, <3>3, <3>4 DEF Taken
      <4>2. QED BY <1>1, <2>8, <4>1 DEF Given, Entrance
    <3>6. OriginInv'
      BY <1>4, <2>11, <3>2, <3>3, <3>5 DEF OriginInv
    <3>7. QED BY <3>2, <3>6
  <2>13. QED BY <1>5, <2>11, <2>12 DEF OnceInv
<1>7. CASE DeliversNothing
  <2>1. /\ result' = result
        /\ at' # "done" => \E x \in Contexts : Queued(x) /\ x.resource = Absent
    BY <1>7 DEF DeliversNothing
  <2> HIDE DEF v, r, u, way
  <2>2. DistinctInv'
    BY <1>2, <2>1 DEF DistinctInv
  <2>3. ASSUME at' # "done" PROVE QueuedOnceInv' /\ PoppedOnceInv' /\ MadeOnceInv' /\ LoopedOnceInv' /\ OriginInv'
    <3>1. PICK x \in Contexts : Queued(x) /\ x.resource = Absent
      BY <2>1, <2>3
    <3>2. /\ QueuedOnceInv' /\ PoppedOnceInv' /\ MadeOnceInv' /\ LoopedOnceInv'
          /\ Given \subseteq Given' /\ Entrance \subseteq Entrance'
      BY <2>3, <3>1, DeliveryGoesOn
    <3>3. \A y \in visited' : y \in visited \/ y.resource = Absent
      BY <3>1, VisitOfFields DEF Queued
    <3>4. OriginInv'
      BY <1>4, <2>1, <3>2, <3>3 DEF OriginInv, AnswersIn
    <3>5. QED BY <3>2, <3>4
  <2>4. QED BY <1>5, <2>2, <2>3 DEF OnceInv
<1>8. QED BY <1>1, <1>6, <1>7

\* What one expression, one member or one context adds is added once.
LEMMA NextOnce == ASSUME Inv, OnceInv, OneWay(input), [Next]_vars PROVE OnceInv'
<1>1. CASE UNCHANGED vars \/ Done \/ Cancel
  <2>1. /\ UNCHANGED <<input, result, visited, node_queue, at, context, todo, expression, index, contexts>>
    BY <1>1 DEF vars, history, walk, Done, Cancel
  <2>2. /\ MadeOnceInv' /\ LoopedOnceInv' /\ (Running' => Running) /\ (Busy' => Busy /\ context' = context)
        /\ \A w : Waiting(w)' => Waiting(w)
    BY <2>1 DEF OnceInv, MadeOnceInv, Apart, LoopedOnceInv, Running, Busy, Waiting
  <2>3. QED BY <2>1, <2>2, QuietOnce
<1>2. CASE RunRefused \/ FetchRootFails \/ Final
  <2>1. UNCHANGED <<input, result, visited, node_queue>> /\ at' = "done"
    BY <1>2 DEF RunRefused, FetchRootFails, Return, Final, history, walk
  <2>2. QED BY <2>1, EndedOnce
<1>3. CASE RunBegins \/ Popped
  <2>1. /\ UNCHANGED <<input, result, visited, node_queue>>
        /\ at' = "root" \/ (at' = "pop" /\ at = "expression")
    BY <1>3 DEF RunBegins, Popped, history, walk
  <2>2. QED BY <2>1, EndedOnce DEF Running
<1>4. CASE FetchRoot
  BY <1>4, FetchRootOnce
<1>5. CASE ResumeRefused \/ ResumeBegins
  BY <1>5, ResumeOnce
<1>6. CASE Pop
  BY <1>6, PopOnce
<1>7. CASE \E e \in todo : Subscribe(e) \/ Navigate(e) \/ FilterObject(e) \/ NothingToDo(e) \/ SubstitutionFails(e) \/ FilterMembers(e)
  BY <1>7, ExpressionsOnce
<1>8. CASE MemberCancelled \/ MemberFails \/ MemberUndecided \/ MemberOk \/ MembersDone
  BY <1>8, MembersOnce
<1>9. CASE Deliver
  BY <1>9, DeliverOnce
<1>10. QED BY <1>1, <1>2, <1>3, <1>4, <1>5, <1>6, <1>7, <1>8, <1>9 DEF Next

LEMMA NextKeepsInput == [Next]_vars => input' = input
<1>1. CASE UNCHANGED vars \/ Done
  BY <1>1 DEF vars, Done
<1>2. CASE Cancel \/ RunRefused \/ RunBegins \/ FetchRootFails \/ Pop \/ Popped \/ Final
  BY <1>2 DEF Cancel, RunRefused, RunBegins, FetchRootFails, Return, Pop, Popped, Final
<1>3. CASE FetchRoot \/ ResumeRefused \/ ResumeBegins \/ Deliver
  BY <1>3 DEF FetchRoot, ResumeRefused, ResumeBegins, Enqueue, Deliver
<1>4. ASSUME NEW e \in todo,
             Subscribe(e) \/ Navigate(e) \/ FilterObject(e) \/ NothingToDo(e) \/ SubstitutionFails(e) \/ FilterMembers(e)
      PROVE  input' = input
  BY <1>4 DEF Subscribe, Navigate, FilterObject, NothingToDo, SubstitutionFails, FilterMembers, Executed, Failed
<1>5. CASE MemberCancelled \/ MemberFails \/ MemberUndecided \/ MemberOk \/ MembersDone
  BY <1>5 DEF MemberCancelled, MemberFails, MemberUndecided, MemberOk, MembersDone, Executed, Failed
<1>6. QED BY <1>1, <1>2, <1>3, <1>4, <1>5 DEF Next

LEMMA InitOnce == Init => OnceInv
  BY DEF Init, OnceInv, DistinctInv, OriginInv, QueuedOnceInv, PoppedOnceInv, MadeOnceInv, LoopedOnceInv,
         Running, Busy

LEMMA DistinctIsOnce == ASSUME TypeOK, DistinctInv PROVE AnsweredOnce
<1> DEFINE S == 1 .. Len(result)
           T == {result[i].path : i \in DOMAIN result}
           f == [i \in S |-> result[i].path]
<1>1. result \in Seq(ResultType)
  BY DEF TypeOK, ResultType
<1>2. DOMAIN result = S /\ Len(result) \in Nat
  BY <1>1, LenProperties
<1>3. IsFiniteSet(S) /\ Cardinality(S) = Len(result)
  <2>1. PICK n \in Nat : n = Len(result)
    BY <1>2
  <2>2. IsFiniteSet(1 .. n) /\ Cardinality(1 .. n) = (IF 1 > n THEN 0 ELSE n - 1 + 1)
    <3>1. 1 \in Int /\ n \in Int
      OBVIOUS
    <3>2. QED BY <3>1, FS_Interval
  <2>3. (IF 1 > n THEN 0 ELSE n - 1 + 1) = n
    OBVIOUS
  <2>4. QED BY <2>1, <2>2, <2>3
<1>4. f \in [S -> T] /\ \A t \in T : \E i \in S : f[i] = t
  BY <1>2
<1>5. \A i, j \in S : f[i] = f[j] => i = j
  BY <1>2 DEF DistinctInv
<1> HIDE DEF S, T, f
<1>6. f \in Surjection(S, T) /\ f \in Injection(S, T)
  BY <1>4, <1>5 DEF Surjection, Injection, IsInjective
<1>7. Cardinality(T) = Cardinality(S)
  BY <1>3, <1>6, FS_Surjection
<1>8. QED BY <1>3, <1>7 DEF AnsweredOnce, T

\* No answer is given twice, and what must be fresh is, if no answer and no
\* visit is come to by two ways: the walk takes each way at most once, across
\* the queue, the expressions of a node and the loop over the members, whatever
\* fails or is cancelled on it.
THEOREM AnswersOnceAndFresh == Spec => [](OneWay(input) => AnswersAreOnceAndFresh)
<1> DEFINE I == OneWay(input) => OnceInv
<1>1. Init => I
  BY InitOnce
<1>2. Inv /\ I /\ [Next]_vars => I'
  <2>1. SUFFICES ASSUME Inv, I, [Next]_vars, OneWay(input)' PROVE OnceInv'
    OBVIOUS
  <2>2. input' = input
    BY <2>1, NextKeepsInput
  <2>3. OneWay(input)
    BY <2>1, <2>2 DEF OneWay
  <2>4. QED BY <2>1, <2>3, NextOnce
<1>3. TypeOK /\ I /\ RequiredIsFresh => (OneWay(input) => AnswersAreOnceAndFresh)
  BY DistinctIsOnce DEF OnceInv, AnswersAreOnceAndFresh
<1> HIDE DEF I
<1>4. QED BY <1>1, <1>2, <1>3, InvHolds, TypeCorrect, RequiredResultsAreFresh, PTL DEF Spec
=============================================================================
