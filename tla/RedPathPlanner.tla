--------------------------- MODULE RedPathPlanner ---------------------------
(***************************************************************************)
(* QueryPlanner (redpath/engine/query_planner_impl.cc): one execution of a *)
(* plan.  Run walks the trie breadth first, executing the expressions of a *)
(* trie node relative to the resources found for it; Resume does the same  *)
(* below the resource of an event.  Another thread may cancel at any time, *)
(* resources may be missing or fail, and answers may come from a cache.    *)
(*                                                                         *)
(* The Redfish tree is a constant; which resources fail and which are      *)
(* cached is chosen at the start.  Statistics and tracing are left out.    *)
(***************************************************************************)
EXTENDS RedPathTrie

CONSTANTS
  Root,          \* the service root
  Kind,          \* resource -> "object", "collection", "raw" or "value"
  Child,         \* resource -> name -> resource
  Pointer,       \* resource -> JSON pointer -> URI
  Members,       \* resource -> its members, in order
  Matches,       \* predicate -> the resources it accepts
  Comparing,     \* predicates that compare a value, and may find it cannot be
  WithVariables, \* predicates whose variables SubstituteVariables may refuse
  Query,         \* the query
  Propertyless,  \* subqueries that ask for no property
  NoData,        \* (subquery, resource) pairs without any asked property
  Expand,        \* prefix -> levels of its expand rule
  Subscribable,  \* redpaths_to_subscribe
  Faults,        \* the ways in which resources may be broken
  Caches,        \* the sets of resources that the transport's cache may hold
  ResumeAt       \* (trie node, resource) pairs a subscription resumes with

Resources == DOMAIN Kind
Subqueries == DOMAIN Query
Absent == "absent"
Healths == {"ok", "malformed", "uncomparable", "notfound", "unavailable", "timeout"}

\* redpath_trie_, and the prefixes of redpath_to_query_params with freshness
\* REQUIRED.
trie == CreateRedPathTrie(Query)
required == CombineQueryParams(Query, trie.joined, Expand)

\* BuildQueryPlanner refuses a query without a trie.
ASSUME PlanAssumption == trie.status = "ok"
ASSUME QueryAssumption ==
  /\ NoSubquery \notin Subqueries
  /\ \A q \in Subqueries :
       /\ Query[q].kind \in {"redpath", "pointer", "uri"}
       /\ Query[q].roots \in Seq(STRING) /\ Query[q].redpath \in Seq(STRING)
       /\ {Query[q].fresh, Query[q].raw} \subseteq BOOLEAN
ASSUME TreeAssumption ==
  /\ Root \in Resources /\ Absent \notin Resources
  /\ \A r \in Resources :
       /\ Members[r] \in Seq(Resources)
       /\ \A n \in DOMAIN Child[r] : Child[r][n] \in Resources
ASSUME ServiceAssumption ==
  /\ \A h \in Faults : DOMAIN h = Resources /\ \A r \in Resources : h[r] \in Healths
  /\ ResumeAt \subseteq trie.nodes \X Resources

VARIABLES
  input,        \* what the execution is given: [op, mode, interface, health, warm, start]
  possible,     \* history: the answers the query has
  owed,         \* history: those it gives if it meets no error
  visited,      \* history: the visits queued so far
  cancelled,    \* query_cancellation_state_
  at,
  node_queue,
  context,      \* current_execution_context
  todo,         \* child expressions still to execute
  expression,   \* the one being applied to members, or whose contexts are delivered
  index,        \* the member it has come to
  contexts,     \* the execution contexts it has made
  result,       \* data: a sequence of [subquery, path, fresh]
  code,         \* error_code of the result's status
  uris,         \* uris_to_subscribe of the current context
  subscriptions \* subscription_configs: (redpath, URI) pairs

history == <<possible, owed, visited>>
walk == <<node_queue, context, todo, expression, index, contexts, uris>>
vars == <<input, history, cancelled, at, walk, result, code, subscriptions>>

\* op is "run", "subscribe" or "resume"; mode is execution_mode_; interface says
\* whether there is a RedfishInterface; health is the outcome of fetching a
\* resource; warm is what the cache holds; start the trie node and the resource
\* the walk starts with.  Run starts from the service root, Resume from a
\* resource the caller has.
Inputs ==
  {g \in [op : {"run", "subscribe", "resume"}, mode : {"fail", "continue"}, interface : BOOLEAN,
          health : Faults, warm : Caches, start : ResumeAt \union {<<<<>>, Root>>}] :
     IF g.op = "resume" THEN g.start \in ResumeAt ELSE g.start = <<<<>>, Root>>}

Codes == {"none", "internal", "unavailable", "timeout", "cancelled", "root_unreachable"}

IsObject(r) == Kind[r] \in {"object", "collection"}
Serves(g, r) == g.health[r] \in {"ok", "malformed", "uncomparable"}
HasChildren(q) == BuildParentChildSubqueryMap(Query)[q] # {}
Accepts(e, r) == r \in Matches[e.expression]

\* ExecutePredicateExpression has a status and no result.
Undecided(g, e, r) == g.health[r] = "uncomparable" /\ e.expression \in Comparing

\* last_redpath_prefix of a context at a trie node, joined with an expression:
\* Resume starts from an empty prefix, whatever node it resumes at.
RedPathPrefix(g, node, e) ==
  AddExpressionToRedPath(PrefixOf(SubSeq(node, Len(g.start[1]) + 1, Len(node))), e)

\* Whether the RedPath is subscribed to instead of being fetched.
SubscribesTo(g, node, e) == g.op = "subscribe" /\ RedPathPrefix(g, node, e) \in Subscribable

-----------------------------------------------------------------------------
(* The reference: what the query means in the tree.  A visit is a trie node *)
(* reached with a resource, below the answers given on the way to it.       *)

Nothing == [q \in Subqueries |-> <<>>]
Visit(node, r, iterable, fresh, above) ==
  [node |-> node, resource |-> r, iterable |-> iterable, fresh |-> fresh, above |-> above]

DataAnswer(path) == [redpath |-> <<>>, path |-> path]
UriAnswer(redpath, uri) == [redpath |-> redpath, path |-> <<<<"uri", uri>>>>]

\* What a resource is fetched with: the cache, unless it must not be used.
Fresh(g, r, must) == must \/ r \notin g.warm
Available(g, r, must) == Serves(g, r) \/ ~Fresh(g, r, must)

Raw(q, r) == Query[q].raw /\ Kind[r] = "raw"
Broken(g, q, r) == ~Raw(q, r) /\ (~IsObject(r) \/ g.health[r] = "malformed")

\* No property is found: an empty answer is given only by a subquery that asks
\* for none and has others below it.
Silent(q, r) ==
  /\ ~Raw(q, r)
  /\ q \in Propertyless \/ <<q, r>> \in NoData
  /\ q \notin Propertyless \/ ~HasChildren(q)

\* The answer of the first root id that was met; <<>> is the top level.
Above(q, above) ==
  LET roots == Query[q].roots
      met == {i \in DOMAIN roots : roots[i] \in Subqueries /\ above[roots[i]] # <<>>}
  IN  IF met = {} THEN <<>> ELSE above[roots[CHOOSE i \in met : \A j \in met : i <= j]]

\* The path of (subquery, resource) pairs down to an answer.  A second raw value
\* in one place overwrites the first: it counts as the same answer.
PathTo(q, r, above) ==
  Append(Above(q, above), <<q, IF Raw(q, r) /\ Above(q, above) # <<>> THEN "raw" ELSE r>>)

\* The subquery that is answered on a visit, or none: Resume leaves one
\* without an object unanswered.
Asked(g, u) ==
  IF g.op = "resume" /\ ~IsObject(u.resource) THEN NoSubquery ELSE trie.subquery_id[u.node]

\* What a visit answers itself, and the visit from which the walk goes on.
Own(g, u) ==
  LET q == Asked(g, u) IN
  IF q = NoSubquery \/ Broken(g, q, u.resource) \/ Silent(q, u.resource) THEN {}
  ELSE {DataAnswer(PathTo(q, u.resource, u.above))}

Entered(g, u) ==
  LET q == Asked(g, u) IN
  IF q = NoSubquery THEN {u}
  ELSE IF Broken(g, q, u.resource) THEN {}
  ELSE {IF Silent(q, u.resource) THEN u
        ELSE [u EXCEPT !.above = [@ EXCEPT ![q] = PathTo(q, u.resource, u.above)]]}

\* The resources an expression names, relative to a visit.
Named(v, e) ==
  LET Under(links) == {links[n] : n \in {m \in DOMAIN links : <<m>> = e.expression}} IN
  CASE ~IsObject(v.resource) -> {}
    [] IsObject(v.resource) /\ e.type = "predicate" ->
         IF v.iterable THEN ToSet(Members[v.resource]) ELSE {v.resource}
    [] IsObject(v.resource) /\ e.type = "node" -> Under(Child[v.resource])
    [] IsObject(v.resource) /\ e.type = "pointer" -> Under(Pointer[v.resource])
    [] IsObject(v.resource) /\ e.type \notin {"predicate", "node", "pointer"} ->
         {e.expression[1]}

Must(g, v, e, r) ==
  CASE e.type \in {"node", "predicate"} -> RedPathPrefix(g, v.node, e) \in required
    [] e.type = "pointer" -> <<<<r>>>> \in required /\ Kind[r] = "object"
    [] e.type \notin {"node", "predicate", "pointer"} ->
         <<e.expression>> \in required /\ Kind[r] = "object"

\* Those of them that can be fetched.  A predicate on one object fetches it
\* again unless it is fresh already.
Fetched(g, v, e) ==
  {r \in Named(v, e) \intersect Resources :
     CASE e.type = "predicate" /\ v.iterable -> IsObject(r) /\ Available(g, r, Must(g, v, e, r))
       [] e.type = "predicate" /\ ~v.iterable -> v.fresh \/ Serves(g, r)
       [] e.type # "predicate" -> Kind[r] # "value" /\ Available(g, r, Must(g, v, e, r))}

Reached(g, v, e) == {r \in Fetched(g, v, e) : e.type = "predicate" => Accepts(e, r)}

\* A predicate gives an object, whatever it was applied to.
Met(g, v, e, r) ==
  Visit(Append(v.node, e), r, e.type # "predicate" /\ Kind[r] = "collection",
        (e.type = "predicate" /\ ~v.iterable) \/ Fresh(g, r, Must(g, v, e, r)), v.above)

\* The URIs that are subscribed to instead.
Collected(g, v, e) ==
  CASE e.type = "predicate" -> IF v.iterable THEN Fetched(g, v, e) ELSE {}
    [] e.type = "node" -> {r \in Named(v, e) : Kind[r] # "value"}
    [] e.type \notin {"predicate", "node"} -> {}

Gives(g, v, e) ==
  IF SubscribesTo(g, v.node, e)
  THEN {UriAnswer(RedPathPrefix(g, v.node, e), r) : r \in Collected(g, v, e)}
  ELSE UNION {Own(g, Met(g, v, e, r)) : r \in Reached(g, v, e)}

\* Resume does not go on below an answer.
Further(g, u) == IF g.op = "resume" /\ Asked(g, u) # NoSubquery THEN {} ELSE Entered(g, u)

LeadsTo(g, v, e) ==
  IF SubscribesTo(g, v.node, e) THEN {}
  ELSE UNION {Further(g, Met(g, v, e, r)) : r \in Reached(g, v, e)}

\* Where the walk starts; Run does not if there is no service root.
Starts(g) ==
  LET must == <<<<>>>> \in required IN
  IF g.op = "resume"
  THEN {Visit(g.start[1], g.start[2], Kind[g.start[2]] = "collection", TRUE, Nothing)}
  ELSE IF IsObject(Root) /\ Available(g, Root, must)
  THEN {Visit(<<>>, Root, FALSE, Fresh(g, Root, must), Nothing)} ELSE {}

\* The visits one expression further down.
Onward(g, visits) ==
  UNION {UNION {LeadsTo(g, v, e) : e \in ChildExpressions(trie, v.node)} : v \in visits}

\* The visits k expressions below the start.
Walk(g) ==
  LET visits[k \in Nat] ==
        IF k = 0 THEN UNION {Entered(g, u) : u \in Starts(g)} ELSE Onward(g, visits[k - 1])
  IN  visits

AllVisits(g) ==
  UNION {Walk(g)[Len(n) - Len(g.start[1])] : n \in {m \in trie.nodes : Len(m) >= Len(g.start[1])}}

Meant(g) ==
  (UNION {Own(g, u) : u \in Starts(g)})
    \union UNION {UNION {Gives(g, v, e) : e \in ChildExpressions(trie, v.node)} : v \in AllVisits(g)}

\* Members collected by a predicate that is then given up, by a missing member
\* or a cancellation, are recorded under the next expression of the same node.
Pending(g, v) ==
  UNION {Collected(g, v, p) : p \in {e \in ChildExpressions(trie, v.node) :
                                       e.type = "predicate" /\ SubscribesTo(g, v.node, e)}}

Misplaced(g, v) ==
  {UriAnswer(RedPathPrefix(g, v.node, e), r) : e \in ChildExpressions(trie, v.node), r \in Pending(g, v)}

\* kFailOnFirstError gives up a whole collection for one missing member.
MissingMember(g) ==
  \E r \in Resources : \E i \in DOMAIN Members[r] : g.health[Members[r][i]] = "notfound"

Possible(g) == Meant(g) \union UNION {Misplaced(g, v) : v \in AllVisits(g)}
Owed(g) == IF g.mode = "fail" /\ MissingMember(g) THEN {} ELSE Meant(g)

-----------------------------------------------------------------------------
NoContext == [resource |-> Absent, object |-> FALSE, iterable |-> FALSE, raw |-> FALSE,
              fresh |-> FALSE, node |-> <<>>, found |-> Nothing]
NoExpression == Expression("none", <<>>)

\* RedfishVariant::AsObject, AsIterable and AsRaw.
Response(base, r, fresh) ==
  [base EXCEPT !.resource = r, !.fresh = fresh, !.object = IsObject(r),
               !.iterable = Kind[r] = "collection", !.raw = Kind[r] = "raw"]

\* A context with an object alone, or with nothing.
ObjectOnly(base, r, fresh) ==
  [base EXCEPT !.resource = r, !.fresh = fresh, !.object = TRUE, !.iterable = FALSE, !.raw = FALSE]
Empty(base) == [base EXCEPT !.resource = Absent, !.object = FALSE, !.iterable = FALSE, !.raw = FALSE]

\* The visit a context stands for.
VisitOf(c) == Visit(c.node, c.resource, c.iterable, c.fresh, c.found)

\* Where a result is nested: (subquery, resource) pairs.
Paths == Seq(Subqueries \X (Resources \union {"raw"}))
Contexts ==
  [resource : Resources \union {Absent}, object : BOOLEAN, iterable : BOOLEAN, raw : BOOLEAN,
   fresh : BOOLEAN, node : trie.nodes, found : [Subqueries -> Paths]]

TypeOK ==
  /\ input \in Inputs
  /\ cancelled \in BOOLEAN
  /\ at \in {"start", "root", "pop", "expression", "member", "deliver", "final", "done"}
  /\ node_queue \in Seq(Contexts) /\ context \in Contexts /\ contexts \in Seq(Contexts)
  /\ todo \subseteq ChildExpressions(trie, context.node)
  /\ at \in {"member", "deliver"} => expression \in ChildExpressions(trie, context.node)
  /\ index \in Nat
  /\ result \in Seq([subquery : Subqueries, path : Paths, fresh : BOOLEAN])
  /\ code \in Codes
  /\ uris \subseteq Resources

Init ==
  /\ input \in Inputs
  /\ possible = Possible(input) /\ owed = Owed(input) /\ visited = {}
  /\ cancelled = FALSE
  /\ at = "start"
  /\ node_queue = <<>>
  /\ context = IF input.op = "resume"
               THEN [Response(NoContext, input.start[2], TRUE) EXCEPT !.raw = FALSE, !.node = input.start[1]]
               ELSE NoContext
  /\ todo = {}
  /\ expression = NoExpression
  /\ index = 0
  /\ contexts = <<>>
  /\ result = <<>>
  /\ code = "none"
  /\ uris = {}
  /\ subscriptions = {}

\* SetQueryCancellationState(true); the flag is reset after the run.
Cancel ==
  /\ ~cancelled /\ at # "done"
  /\ cancelled' = TRUE
  /\ UNCHANGED <<input, history, at, walk, result, code, subscriptions>>

-----------------------------------------------------------------------------
(* Fetching. *)

\* The transport's answer to a GET that may, or must not, use the cache.
Get(r, uncached) ==
  IF r \in input.warm /\ ~uncached THEN [code |-> "ok", fresh |-> FALSE]
  ELSE [code |-> IF Serves(input, r) THEN "ok" ELSE input.health[r], fresh |-> TRUE]

\* GetQueryParamsForRedPath: whether freshness is required.
GetQueryParamsForRedPath(prefix) == prefix \in required

\* GetRedfishObjectWithFreshness: a cached object is fetched again if freshness
\* is required, and any failure to do so is an internal error.
GetRedfishObjectWithFreshness(fresh, got, r) ==
  IF got.code # "ok" \/ ~IsObject(r) \/ ~fresh \/ got.fresh THEN got
  ELSE IF Serves(input, r) THEN [code |-> "ok", fresh |-> TRUE]
  ELSE [code |-> "internal", fresh |-> FALSE]

\* PopulateSubqueryErrorStatus
ErrorCode(status) == IF status = "notfound" THEN "internal" ELSE status

-----------------------------------------------------------------------------
(* TryNormalize *)

IsRaw(c, q) == Query[q].raw /\ c.raw

\* No property is found: an empty result is made only for a root subquery
\* that asks for none, so that its children can be nested in it.
Skipped(c, q) ==
  /\ ~IsRaw(c, q)
  /\ q \in Propertyless \/ <<q, c.resource>> \in NoData
  /\ q \notin Propertyless \/ ~HasChildren(q)

\* The result of the first root id that the context has met; else top level.
ParentResult(c, q) ==
  LET roots == Query[q].roots
      known == {i \in DOMAIN roots : roots[i] \in DOMAIN c.found /\ c.found[roots[i]] # <<>>}
  IN  IF known = {} THEN <<>> ELSE c.found[roots[CHOOSE i \in known : \A j \in known : i <= j]]

\* A raw value that is nested has its place to itself.
ResultPath(c, q) ==
  Append(ParentResult(c, q),
         <<q, IF IsRaw(c, q) /\ ParentResult(c, q) # <<>> THEN "raw" ELSE c.resource>>)

\* A result is known by the path of (subquery, resource) pairs it is nested
\* under.  ApplyCollectAs, which also copies properties to the map
\* collected_properties of the result, with resources it fetches to identify
\* them, is left out.
TryNormalize(results, c, q) ==
  IF q = NoSubquery THEN [status |-> "ok", results |-> results, context |-> c]
  ELSE IF ~IsRaw(c, q) /\ (~c.object \/ input.health[c.resource] = "malformed")
  THEN [status |-> "internal", results |-> results, context |-> c]
  ELSE IF Skipped(c, q) THEN [status |-> "ok", results |-> results, context |-> c]
  ELSE [status |-> "ok",
        results |-> Append(results, [subquery |-> q, path |-> ResultPath(c, q), fresh |-> c.fresh]),
        context |-> [c EXCEPT !.found = [@ EXCEPT ![q] = ResultPath(c, q)]]]

-----------------------------------------------------------------------------
(* The beginning of Run and Resume. *)

Return(error) ==
  /\ at' = "done"
  /\ code' = error
  /\ UNCHANGED <<input, history, cancelled, walk, result, subscriptions>>

\* The timing session is already open; no interface; cancelled already.
RunRefused ==
  /\ at = "start" /\ input.op # "resume"
  /\ \/ Return("timeout")
     \/ ~input.interface /\ Return("internal")
     \/ input.interface /\ cancelled /\ Return("cancelled")

RunBegins ==
  /\ at = "start" /\ input.op # "resume" /\ input.interface /\ ~cancelled
  /\ at' = "root"
  /\ UNCHANGED <<input, history, cancelled, walk, result, code, subscriptions>>

\* The subquery that ends in the context's own trie node is answered first.
Enqueue(c, q) ==
  LET n == TryNormalize(result, c, q)
  IN  /\ n.status = "ok"
      /\ node_queue' = <<n.context>>
      /\ visited' = {VisitOf(n.context)}
      /\ result' = n.results
      /\ at' = "pop"
      /\ UNCHANGED <<input, possible, owed, cancelled, context, todo, expression, index, contexts,
                     uris, code, subscriptions>>

RootSubquery == trie.subquery_id[<<>>]

\* The prefix of the service root is "/".
FetchedRoot ==
  GetRedfishObjectWithFreshness(GetQueryParamsForRedPath(<<<<>>>>), Get(Root, FALSE), Root)

RootContext == ObjectOnly(NoContext, Root, FetchedRoot.fresh)

\* The object is asked for once more whether the query was cancelled, and a
\* failed variant becomes a failed precondition unless it was a timeout.
FetchRootFails ==
  /\ at = "root"
  /\ LET got == FetchedRoot.code IN
     \/ Get(Root, FALSE).code = "timeout" /\ Return("timeout")
     \/ Get(Root, FALSE).code # "timeout" /\ cancelled /\ Return("cancelled")
     \/ /\ got # "ok" \/ ~IsObject(Root)
        /\ got # "timeout" /\ ~cancelled /\ Return("root_unreachable")
     \/ /\ got = "ok" /\ IsObject(Root) /\ ~cancelled
        /\ TryNormalize(result, RootContext, RootSubquery).status # "ok" /\ Return("internal")

FetchRoot ==
  /\ at = "root" /\ ~cancelled
  /\ FetchedRoot.code = "ok" /\ IsObject(Root)
  /\ Enqueue(RootContext, RootSubquery)

ResumeSubquery == IF context.object THEN trie.subquery_id[context.node] ELSE NoSubquery

\* The data of the node itself is kept even if there is no interface to go on.
ResumeRefused ==
  /\ at = "start" /\ input.op = "resume"
  /\ LET n == TryNormalize(result, context, ResumeSubquery)
     IN  /\ n.status # "ok" \/ ~input.interface
         /\ result' = n.results
  /\ at' = "done"
  /\ code' = "internal"
  /\ UNCHANGED <<input, history, cancelled, walk, subscriptions>>

ResumeBegins ==
  /\ at = "start" /\ input.op = "resume" /\ input.interface
  /\ Enqueue(context, ResumeSubquery)

-----------------------------------------------------------------------------
(* The breadth-first traversal. *)

\* A context that is popped has no URIs yet.
Pop ==
  /\ at = "pop"
  /\ IF node_queue = <<>>
     THEN /\ at' = "final"
          /\ UNCHANGED <<node_queue, context, todo>>
     ELSE /\ context' = Head(node_queue)
          /\ node_queue' = Tail(node_queue)
          /\ todo' = ChildExpressions(trie, Head(node_queue).node)
          /\ at' = "expression"
  /\ uris' = {}
  /\ UNCHANGED <<input, history, cancelled, expression, index, contexts, result, code, subscriptions>>

\* The expressions of the node are all executed.
Popped ==
  /\ at = "expression" /\ todo = {}
  /\ at' = "pop"
  /\ UNCHANGED <<input, history, cancelled, walk, result, code, subscriptions>>

Prefix(e) == RedPathPrefix(input, context.node, e)
Subscribes(e) == SubscribesTo(input, context.node, e)

\* ExecuteQueryExpression returns the contexts cs, which are to be delivered;
\* without any, PopulateSubscriptionContext takes the URIs collected so far.
Executed(e, cs, pending) ==
  /\ contexts' = cs
  /\ index' = 0
  /\ IF cs = <<>>
     THEN /\ at' = "expression"
          /\ expression' = NoExpression
          /\ subscriptions' = subscriptions \union {<<Prefix(e), u>> : u \in pending}
          /\ uris' = {}
     ELSE /\ at' = "deliver"
          /\ expression' = e
          /\ uris' = pending
          /\ UNCHANGED subscriptions
  /\ UNCHANGED <<input, history, cancelled, node_queue, context, result, code>>

\* ExecuteQueryExpression fails.  What was collected stays with the context.
Failed(status) ==
  LET goes_on == status = "notfound" \/ input.op = "resume" \/ (input.mode = "continue" /\ status # "cancelled")
  IN  /\ code' = IF status = "notfound" THEN code ELSE ErrorCode(status)
      /\ at' = IF goes_on THEN "expression" ELSE "done"
      /\ contexts' = <<>>
      /\ expression' = NoExpression
      /\ index' = 0
      /\ UNCHANGED <<input, history, cancelled, node_queue, context, uris, result, subscriptions>>

\* ExecuteQueryExpression relative to an object: the resource the expression
\* names, whether it must be fresh, and whether Get itself skips the cache.
Target(e) ==
  LET Under(links) == LET names == {m \in DOMAIN links : <<m>> = e.expression}
                      IN  IF names = {} THEN Absent ELSE links[CHOOSE m \in names : TRUE]
  IN  CASE e.type = "node" -> Under(Child[context.resource])
        [] e.type = "pointer" -> Under(Pointer[context.resource])
        [] e.type \notin {"node", "pointer"} -> e.expression[1]

MustBeFresh(e) ==
  GetQueryParamsForRedPath(CASE e.type = "node" -> Prefix(e)
                             [] e.type = "pointer" -> <<<<Target(e)>>>>
                             [] e.type \notin {"node", "pointer"} -> <<e.expression>>)

FetchTarget(e) ==
  LET got == Get(Target(e), e.type = "node" /\ MustBeFresh(e))
  IN  IF Kind[Target(e)] = "object"
      THEN GetRedfishObjectWithFreshness(MustBeFresh(e), got, Target(e)) ELSE got

Take(e) == e \in todo /\ todo' = todo \ {e}

\* The URI of the expression is collected instead of being fetched.
Subscribe(e) ==
  /\ at = "expression" /\ Take(e)
  /\ context.object /\ ~(context.iterable /\ e.type = "predicate")
  /\ Subscribes(e)
  /\ Executed(e, <<>>,
       uris \union IF e.type = "node" /\ Target(e) # Absent /\ Kind[Target(e)] # "value"
                   THEN {Target(e)} ELSE {})

\* An absent property, or one that is not an object, gives no context; a URI
\* that names no resource is not found.
Navigate(e) ==
  /\ at = "expression" /\ Take(e)
  /\ context.object /\ e.type # "predicate"
  /\ ~Subscribes(e)
  /\ IF cancelled THEN Failed("cancelled")
     ELSE IF Target(e) = Absent THEN Executed(e, <<>>, uris)
     ELSE IF Target(e) \notin Resources THEN Failed("notfound")
     ELSE IF Kind[Target(e)] = "value" THEN Executed(e, <<>>, uris)
     ELSE LET got == FetchTarget(e) IN
          IF got.code = "ok" THEN Executed(e, <<Response(context, Target(e), got.fresh)>>, uris)
          ELSE Failed(got.code)

\* A predicate on a single object, whose variables are not substituted; a
\* cached object is then fetched again.
FilterObject(e) ==
  /\ at = "expression" /\ Take(e)
  /\ context.object /\ ~context.iterable /\ e.type = "predicate"
  /\ ~Subscribes(e)
  /\ IF cancelled THEN Failed("cancelled")
     ELSE IF Undecided(input, e, context.resource) THEN Failed("internal")
     ELSE IF ~context.fresh /\ ~Serves(input, context.resource)
     THEN Failed(input.health[context.resource])
     ELSE Executed(e, IF Accepts(e, context.resource)
                      THEN <<ObjectOnly(context, context.resource, TRUE)>> ELSE <<>>, uris)

\* Neither an object nor a collection to apply a predicate to.
NothingToDo(e) ==
  /\ at = "expression" /\ Take(e)
  /\ ~context.object /\ ~(context.iterable /\ e.type = "predicate")
  /\ Executed(e, <<>>, uris)

\* SubstituteVariables fails on the predicate, whatever the members.
SubstitutionFails(e) ==
  /\ at = "expression" /\ Take(e)
  /\ context.iterable /\ e.type = "predicate"
  /\ e.expression \in WithVariables
  /\ Failed("internal")

FilterMembers(e) ==
  /\ at = "expression" /\ Take(e)
  /\ context.iterable /\ e.type = "predicate"
  /\ at' = "member"
  /\ expression' = e
  /\ index' = 1
  /\ contexts' = <<>>
  /\ UNCHANGED <<input, history, cancelled, node_queue, context, uris, result, code, subscriptions>>

InLoop == at = "member" /\ index <= Len(Members[context.resource])
Member == Members[context.resource][index]

FetchMember ==
  GetRedfishObjectWithFreshness(GetQueryParamsForRedPath(Prefix(expression)), Get(Member, FALSE), Member)

\* A member is reached after a cancellation: a context without an object.
MemberCancelled ==
  /\ InLoop /\ cancelled
  /\ contexts' = Append(contexts, Empty(context))
  /\ code' = "cancelled"
  /\ index' = index + 1
  /\ UNCHANGED <<input, history, cancelled, at, node_queue, context, todo, expression, uris, result,
                 subscriptions>>

\* Mutant of MemberFails: the loop ends at the failed member.
MemberFailsBreaks ==
  /\ InLoop /\ ~cancelled
  /\ FetchMember.code # "ok"
  /\ index' = Len(Members[context.resource]) + 1
  /\ UNCHANGED <<input, history, cancelled, at, code, contexts, node_queue, context, todo, expression,
                 uris, result, subscriptions>>

\* A member fails.  Under kFailOnFirstError the whole expression fails, with
\* the contexts made so far; and a missing member is not an error for Run.
MemberFails ==
  /\ InLoop /\ ~cancelled
  /\ LET status == FetchMember.code IN
     /\ status # "ok"
     /\ IF input.mode = "fail" THEN Failed(status)
        ELSE /\ code' = IF status = "notfound" THEN code ELSE ErrorCode(status)
             /\ index' = index + 1
             /\ UNCHANGED <<input, history, cancelled, at, node_queue, context, expression, contexts,
                            uris, result, subscriptions>>
  /\ UNCHANGED todo

\* The member has an object and the predicate is applied to it.
Tested == IsObject(Member) /\ ~Subscribes(expression)

\* An error of the predicate fails the whole expression in either mode.
MemberUndecided ==
  /\ InLoop /\ ~cancelled
  /\ FetchMember.code = "ok"
  /\ Tested /\ Undecided(input, expression, Member)
  /\ Failed("internal")
  /\ UNCHANGED todo

\* A member without an object is passed over.
MemberOk ==
  /\ InLoop /\ ~cancelled
  /\ FetchMember.code = "ok"
  /\ Tested => ~Undecided(input, expression, Member)
  /\ index' = index + 1
  /\ uris' = IF IsObject(Member) /\ Subscribes(expression) THEN uris \union {Member} ELSE uris
  /\ contexts' = IF Tested /\ Accepts(expression, Member)
                 THEN Append(contexts, ObjectOnly(context, Member, FetchMember.fresh)) ELSE contexts
  /\ UNCHANGED <<input, history, cancelled, at, node_queue, context, todo, expression, result, code,
                 subscriptions>>

MembersDone ==
  /\ at = "member" /\ index > Len(Members[context.resource])
  /\ Executed(expression, contexts, uris)
  /\ UNCHANGED todo

\* The loop over the new contexts: its subquery is answered and the context is
\* queued; Resume leaves an answered one out of the queue.  A context without
\* an object ends Run, as cancelled if that is what its code says.
Deliver ==
  /\ at = "deliver"
  /\ LET c == [Head(contexts) EXCEPT !.node = Append(context.node, expression)]
         q == IF input.op = "resume" /\ ~c.object THEN NoSubquery ELSE trie.subquery_id[c.node]
         n == TryNormalize(result, c, q)
         last == Tail(contexts) = <<>>
     IN  /\ result' = n.results
         /\ IF n.status = "ok"
            THEN /\ IF input.op = "resume" /\ q # NoSubquery THEN UNCHANGED <<node_queue, visited>>
                    ELSE /\ node_queue' = Append(node_queue, n.context)
                         /\ visited' = visited \union {VisitOf(n.context)}
                 /\ contexts' = Tail(contexts)
                 /\ at' = IF last THEN "expression" ELSE "deliver"
                 /\ expression' = IF last THEN NoExpression ELSE expression
                 /\ UNCHANGED code
            ELSE /\ at' = "done"
                 /\ code' = IF code = "cancelled" /\ input.op # "resume" THEN "cancelled" ELSE "internal"
                 /\ UNCHANGED <<node_queue, visited, contexts, expression>>
  /\ UNCHANGED <<input, possible, owed, cancelled, context, todo, index, uris, subscriptions>>

\* TryNormalizeOnFinalQueryResult may fail, and EndTiming, which Resume does
\* not call, may find the query late.
Final ==
  /\ at = "final"
  /\ at' = "done"
  /\ code' \in {code, "internal"} \union (IF input.op = "resume" THEN {} ELSE {"timeout"})
  /\ UNCHANGED <<input, history, cancelled, walk, result, subscriptions>>

Done == at = "done" /\ UNCHANGED vars

Next ==
  \/ Cancel
  \/ RunRefused \/ RunBegins \/ FetchRootFails \/ FetchRoot
  \/ ResumeRefused \/ ResumeBegins
  \/ Pop \/ Popped
  \/ \E e \in todo : \/ Subscribe(e) \/ Navigate(e) \/ FilterObject(e) \/ NothingToDo(e)
                      \/ SubstitutionFails(e) \/ FilterMembers(e)
  \/ MemberCancelled \/ MemberFails \/ MemberUndecided \/ MemberOk \/ MembersDone
  \/ Deliver
  \/ Final \/ Done

Spec == Init /\ [][Next]_vars

-----------------------------------------------------------------------------
(* Refinement *)

Answer == {DataAnswer(result[i].path) : i \in DOMAIN result}
            \union {UriAnswer(s[1], s[2]) : s \in subscriptions}

Promise == INSTANCE QueryAnswer WITH
  answer <- Answer, error <- code # "none", returned <- at = "done"

-----------------------------------------------------------------------------
(* Properties *)

\* An execution gives only answers the query has, each nested in the answer of
\* the subquery it is rooted in, and never takes one back.  If it returns without
\* an error, no answer that it owes is missing: neither a cancellation nor an
\* error of a resource or a predicate nor the order of the walk loses one
\* silently.  Under kFailOnFirstError nothing is owed once a member of any
\* collection is missing (MissingMember): the collection is then given up
\* without an error.
ImplementsQueryAnswer == Promise!Spec

\* The RedPath is written the way the walk writes it: it has no empty step and
\* no empty predicate.
AsWalked(q) ==
  /\ Query[q].kind = "redpath"
  /\ RedPathString(Query[q].redpath) = PrefixOf(SplitRedPath(Query[q].redpath).expressions)

\* The subqueries with such RedPaths down to them, and the service root's.
PlainRedPaths ==
  {q \in Subqueries :
     \/ \A s \in trie.joined : \A k \in DOMAIN s : s[k] = q => \A i \in 1 .. k : AsWalked(s[i])
     \/ /\ Query[q].kind = "redpath" /\ Query[q].roots = <<>>
        /\ SplitRedPath(Query[q].redpath).expressions = <<>>
        /\ RedPathString(Query[q].redpath) = <<<<>>>>}

\* The steps of the walk: a visit, an expression, a resource it reaches.
Ways(g) ==
  UNION {UNION {{<<v, e, r>> : r \in Reached(g, v, e)} :
                  e \in {x \in ChildExpressions(trie, v.node) : ~SubscribesTo(g, v.node, x)}} :
           v \in AllVisits(g)}

MetBy(g, way) == Met(g, way[1], way[2], way[3])

\* No answer and no visit is come to by two ways, and no collection has one
\* member twice.
OneWay(g) ==
  /\ \A w, x \in Ways(g) : w # x =>
       /\ Own(g, MetBy(g, w)) \intersect Own(g, MetBy(g, x)) = {}
       /\ Further(g, MetBy(g, w)) \intersect Further(g, MetBy(g, x)) = {}
  /\ \A u \in Starts(g), w \in Ways(g) : Own(g, u) \intersect Own(g, MetBy(g, w)) = {}
  /\ \A r \in Resources : \A i, j \in DOMAIN Members[r] : Members[r][i] = Members[r][j] => i = j

AnsweredOnce == Cardinality({result[i].path : i \in DOMAIN result}) = Len(result)
RequiredIsFresh ==
  input.op # "resume" => \A i \in DOMAIN result : LET q == result[i].subquery IN
    Query[q].fresh /\ q \in PlainRedPaths => result[i].fresh

\* No answer is given twice, although one subquery may be reached by several
\* ways and one resource by several subqueries.  And what a subquery with
\* freshness REQUIRED returns was not served from a cache, if the RedPaths down
\* to it name no URI and no reference to one and the execution was not resumed.
AnswersAreOnceAndFresh == AnsweredOnce /\ RequiredIsFresh

\* query_planner_impl.cc:1019: "Get fresh Redfish Object if user has requested
\* in the query rule", also below the resource of an event.
ResumedIsFresh ==
  input.op = "resume" => \A i \in DOMAIN result : LET q == result[i].subquery IN
    Query[q].fresh /\ q \in PlainRedPaths => result[i].fresh

\* query_planner_impl.cc: "Exit query execution and populate error if querying
\* fails": a run without an error has all the answers there are.
NothingIsLost == at = "done" /\ code = "none" => Meant(input) \subseteq Answer
=============================================================================
