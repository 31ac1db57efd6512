-------------------------- MODULE DelliciusPlanner --------------------------
(***************************************************************************)
(* The older QueryPlanner (dellicius/engine/internal/query_planner.cc) as  *)
(* a function of the query and the service.  It has no trie: every         *)
(* subquery has a handle, and a step asks once for each node name that the *)
(* handles waiting at an object have next.                                 *)
(*                                                                         *)
(* A query is as in RedPathTrie, with limit (max_size_in_bytes, counted in *)
(* data sets; 0 if unset).  A plan adds what the execution is given:       *)
(*   service    [root, kind, child, link, members, matches, health, warm]  *)
(*   silent     (subquery, resource) pairs the normalizer finds nothing in *)
(*   order      the order in which the hash map yields node names          *)
(*   mode       "fail" or "continue"                                       *)
(*   callback   "none", or whether it says to continue: "more" or "stop"   *)
(* A data set is known by its address, the pairs <<subquery, position>>    *)
(* that lead to it from the result: a list that was cleared gives its      *)
(* positions, and so its data sets, out again.                             *)
(***************************************************************************)
EXTENDS Integers, Sequences, FiniteSets, SequencesExt

CONSTANT Begins(_, _)  \* a node name's text begins another's, as Sys does System

T == INSTANCE RedPathTrie WITH Less <- IsStrictPrefix

-----------------------------------------------------------------------------
(* Handles. *)

NoStep == [node |-> "", predicate |-> ""]

\* Every slash cuts, those of a predicate too.
Stretches(redpath) ==
  LET ends == SetToSortSeq({i \in DOMAIN redpath : redpath[i] = "/"} \union {0, Len(redpath) + 1}, <)
  IN  SelectSeq([k \in 1 .. Len(ends) - 1 |-> SubSeq(redpath, ends[k] + 1, ends[k + 1] - 1)],
                LAMBDA s : s # <<>>)

\* kLocationStepRegex, with a node name.
IsStep(s) ==
  /\ s[1] \notin {"[", "]"}
  /\ Len(s) = 1 \/ (Len(s) = 4 /\ s[2] = "[" /\ s[4] = "]")

StepFrom(s) == [node |-> s[1], predicate |-> IF Len(s) = 1 THEN "" ELSE s[3]]

RedPathToSteps(redpath) ==
  LET parts == Stretches(redpath) IN
  IF redpath = <<"/">> THEN [status |-> "ok", steps |-> <<NoStep>>]
  ELSE IF \A i \in DOMAIN parts : IsStep(parts[i])
  THEN [status |-> "ok", steps |-> [i \in DOMAIN parts |-> StepFrom(parts[i])]]
  ELSE [status |-> "invalid", steps |-> <<>>]

StepsOf(subquery) ==
  IF subquery.kind = "redpath" THEN RedPathToSteps(subquery.redpath) ELSE [status |-> "ok", steps |-> <<>>]

RECURSIVE BuildSubqueryHandleChain(_, _, _, _, _)
RECURSIVE BuildRoots(_, _, _, _, _)

\* handles: subquery -> the children linked to it, in order.  child is "" for
\* the first of a chain.  A handle that exists is linked and its chain is not
\* followed again.
BuildSubqueryHandleChain(query, build, id, chain, child) ==
  LET linked == IF child = "" THEN <<>> ELSE <<child>>
      had == build.handles
  IN  IF build.status # "ok" THEN build
      ELSE IF id \notin DOMAIN query \/ id \in chain THEN [build EXCEPT !.status = "internal"]
      ELSE IF id \in DOMAIN had THEN [build EXCEPT !.handles[id] = @ \o linked]
      ELSE IF StepsOf(query[id]).status # "ok" THEN [build EXCEPT !.status = "invalid"]
      ELSE BuildRoots(query, [build EXCEPT !.handles = [q \in DOMAIN had \union {id} |->
                                                         IF q = id THEN linked ELSE had[q]]],
                      query[id].roots, chain \union {id}, id)

BuildRoots(query, build, roots, chain, child) ==
  IF roots = <<>> THEN build
  ELSE BuildRoots(query, BuildSubqueryHandleChain(query, build, Head(roots), chain, child),
                  Tail(roots), chain, child)

\* GetSubqueryHandles: ids gives the subqueries in the order of the query.
GetSubqueryHandles(query, ids) ==
  IF ids = <<>> THEN [status |-> "internal", handles |-> <<>>]
  ELSE BuildRoots(query, [status |-> "ok", handles |-> [q \in {} |-> <<>>]], ids, {}, "")

-----------------------------------------------------------------------------
(* Query parameters.  A prefix is a sequence of node names and "[*]". *)

\* The redpath of a URI or a reference is empty, and leaves a "/".
PrefixPart(subquery) ==
  LET steps == StepsOf(subquery).steps IN
  IF subquery.kind # "redpath" THEN <<"">>
  ELSE FlattenSeq([i \in DOMAIN steps |->
         IF steps[i].predicate = "" THEN <<steps[i].node>> ELSE <<steps[i].node, "[*]">>])

FreshPrefixes(query, joined) ==
  UNION {{FlattenSeq([i \in 1 .. k |-> PrefixPart(query[s[i]])]) : k \in {i \in DOMAIN s : query[s[i]].fresh}} :
           s \in joined}

\* absl::StartsWith on the texts: the last name of p may be the beginning of a
\* longer one.
StartsWith(child, p) ==
  \/ IsPrefix(p, child)
  \/ IsPrefix(Front(p), child) /\ Len(p) <= Len(child) /\ Begins(Last(p), child[Len(p)])

\* Every node name that is not empty and every predicate of the difference is a
\* level, and so is the rest of a name.
IsInExpandPath(child, parent, levels) ==
  Cardinality({i \in Len(parent) + 1 .. Len(child) : child[i] # ""})
    + (IF IsPrefix(parent, child) THEN 0 ELSE 1) <= levels

BubblesUp(p, child, levels) ==
  levels > 0 /\ p # child /\ StartsWith(child, p) /\ IsInExpandPath(child, p, levels)

\* The prefixes fetched with freshness REQUIRED: those of the query, and those
\* whose expansion one of them is in.  expand has at most one rule, so that it
\* is the last one in the order of the map.
CombineQueryParams(query, expand) ==
  LET fresh == FreshPrefixes(query, T!JoinSubqueries(query).joined)
  IN  fresh \union {p \in DOMAIN expand : \E child \in fresh : BubblesUp(p, child, expand[p])}

-----------------------------------------------------------------------------
(* The service. *)

Nothing == [status |-> "null", resource |-> "", fresh |-> FALSE]
Serves(plan, r) == plan.service.health[r] = "ok"

\* RedfishInterface: a cached answer unless a fresh one is asked for.
Fetch(plan, r, required) ==
  IF r \in plan.service.warm /\ ~required THEN [status |-> "ok", resource |-> r, fresh |-> FALSE]
  ELSE [status |-> plan.service.health[r], resource |-> r, fresh |-> TRUE]

FetchUri(plan, uri) ==
  IF uri \in DOMAIN plan.service.kind THEN Fetch(plan, uri, <<uri>> \in plan.required)
  ELSE [Nothing EXCEPT !.status = "not_found"]

\* The reference is looked up in the content of the object.
FetchUriReference(plan, r, name) ==
  IF name \in DOMAIN plan.service.link[r] THEN FetchUri(plan, plan.service.link[r][name])
  ELSE [Nothing EXCEPT !.status = "not_found"]

\* RedfishObject::Get
GetNode(plan, r, name, prefix) ==
  IF name \in DOMAIN plan.service.child[r] THEN Fetch(plan, plan.service.child[r][name], prefix \in plan.required)
  ELSE [Nothing EXCEPT !.status = "not_found"]

KindOf(plan, variant) == IF variant.status = "ok" THEN plan.service.kind[variant.resource] ELSE "none"
IsObject(plan, variant) == KindOf(plan, variant) \in {"object", "collection"}

\* The object again from the service if it came from the cache.
GetRedfishObjectWithFreshness(plan, variant, required) ==
  IF ~IsObject(plan, variant) THEN Nothing
  ELSE IF ~required \/ variant.fresh THEN variant
  ELSE IF Serves(plan, variant.resource) THEN [variant EXCEPT !.fresh = TRUE]
  ELSE Nothing

-----------------------------------------------------------------------------
(* Results. *)

NoParent == <<>>

NewRun(plan) ==
  [data |-> [a \in {} |-> Nothing], code |-> "ok", codes |-> [q \in {} |-> ""],
   terminated |-> {}, sent |-> <<>>, halted |-> FALSE]

\* The data sets of a subquery below a parent, and all that hangs from them.
Output(run, parent, q) ==
  {a \in DOMAIN run.data : Len(a) > Len(parent) /\ SubSeq(a, 1, Len(parent)) = parent /\ a[Len(parent) + 1][1] = q}

Free(run, parent, q) ==
  Append(parent, <<q, 1 + Cardinality({a \in Output(run, parent, q) : Len(a) = Len(parent) + 1})>>)

WithData(run, address, value) ==
  [run EXCEPT !.data = [a \in DOMAIN run.data \union {address} |-> IF a = address THEN value ELSE run.data[a]]]

\* subquery_output->Clear() after the callback has had the result.
Flush(plan, run, parent, q) ==
  LET left == DOMAIN run.data \ Output(run, parent, q)
  IN  [run EXCEPT !.sent = Append(@, run.data), !.data = [a \in left |-> run.data[a]],
                  !.terminated = IF plan.callback = "stop" THEN @ \union {q} ELSE @]

Overflows(plan, run, q) ==
  plan.callback # "none" /\ plan.query[q].limit > 0 /\ Cardinality(DOMAIN run.data) + 1 > plan.query[q].limit

\* Mutant of Normalized: what is joined to the subquery goes beside its data.
NormalizedBeside(plan, run, context, object) ==
  [address |-> context.parent,
   run |-> WithData(run, Free(run, context.parent, context.q),
                    [resource |-> object.resource, fresh |-> object.fresh])]

\* Where Normalize put the data set.  A subquery it terminates has no data set
\* to return: what is joined to it would go to the top of the result.
Normalized(plan, run, context, object) ==
  IF context.q \in run.terminated THEN [run |-> run, address |-> NoParent]
  ELSE [address |-> Free(run, context.parent, context.q),
        run |-> WithData(run, Free(run, context.parent, context.q),
                         [resource |-> object.resource, fresh |-> object.fresh])]

Normalize(plan, run, context, object) ==
  Normalized(plan, IF Overflows(plan, run, context.q) THEN Flush(plan, run, context.parent, context.q) ELSE run,
             context, object)

PopulateSubqueryErrorStatus(run, status, contexts) ==
  IF status = "not_found" THEN run
  ELSE LET code == IF status \in {"unavailable", "deadline_exceeded", "unauthenticated"} THEN status ELSE "internal"
           hit == {contexts[i].q : i \in DOMAIN contexts}
       IN  [run EXCEPT !.code = code,
                       !.codes = [q \in DOMAIN run.codes \union hit |-> IF q \in hit THEN code ELSE run.codes[q]]]

RECURSIVE PopulateRawData(_, _, _, _)
PopulateRawData(plan, run, variant, contexts) ==
  IF contexts = <<>> \/ KindOf(plan, variant) # "raw" THEN run
  ELSE LET c == Head(contexts) IN
       PopulateRawData(plan,
         IF c.q \in run.terminated \/ ~plan.query[c.q].raw THEN run
         ELSE WithData(run, Free(run, c.parent, c.q), [resource |-> variant.resource, fresh |-> variant.fresh]),
         variant, Tail(contexts))

-----------------------------------------------------------------------------
(* Contexts.  [q, parent, at] is a subquery whose step at comes next, and   *)
(* whose data belongs to the data set parent.                               *)

Context(q, parent) == [q |-> q, parent |-> parent, at |-> 1]
Step(plan, c) == plan.steps[c.q][c.at]
IsEnd(plan, c) == plan.query[c.q].kind = "redpath" => c.at = Len(plan.steps[c.q])

NodeName(plan, c) ==
  IF plan.query[c.q].kind = "redpath" THEN Step(plan, c).node ELSE plan.query[c.q].target

HasNoPredicate(plan, c) == plan.query[c.q].kind # "redpath" \/ Step(plan, c).predicate = ""

\* ApplyPredicateRule; an empty predicate is an error and so not satisfied.
Satisfies(plan, c, object, index, count) ==
  LET p == IF plan.query[c.q].kind = "redpath" THEN Step(plan, c).predicate ELSE "" IN
  \/ p = "*"
  \/ p = "last()" /\ index = count
  \/ p \in DOMAIN plan.service.matches /\ object.resource \in plan.service.matches[p]

RECURSIVE PopulateResultOrContinueQuery(_, _, _, _)

\* One context: the run after it, and the contexts that go on from the object.
PopulateOne(plan, run, c, object) ==
  IF c.q \in run.terminated THEN [run |-> run, next |-> <<>>]
  ELSE IF ~IsEnd(plan, c) THEN [run |-> run, next |-> <<[c EXCEPT !.at = @ + 1]>>]
  ELSE IF <<c.q, object.resource>> \in plan.silent THEN [run |-> run, next |-> <<>>]
  ELSE LET done == Normalize(plan, run, c, object)
           children == plan.handles[c.q]
       IN  [run |-> done.run, next |-> [i \in DOMAIN children |-> Context(children[i], done.address)]]

PopulateResultOrContinueQuery(plan, acc, contexts, object) ==
  IF contexts = <<>> THEN acc
  ELSE LET one == PopulateOne(plan, acc.run, Head(contexts), object)
       IN  PopulateResultOrContinueQuery(plan, [run |-> one.run, next |-> acc.next \o one.next],
                                         Tail(contexts), object)

Populate(plan, run, contexts, object) ==
  PopulateResultOrContinueQuery(plan, [run |-> run, next |-> <<>>], contexts, object)

-----------------------------------------------------------------------------
(* Steps.  acc is [run, nodes]: the context nodes are made for every node   *)
(* name before the first of them is executed.                               *)

AddNode(acc, run, object, contexts, prefix) ==
  [run |-> run, nodes |-> Append(acc.nodes, [object |-> object, contexts |-> contexts, prefix |-> prefix])]

\* Every context of the node name is tried, those without a predicate too.  If
\* none is accepted the object keeps them all as they were.
ExecutePredicateExpression(plan, acc, contexts, object, index, count, prefix) ==
  LET accepted == SelectSeq(contexts, LAMBDA c : Satisfies(plan, c, object, index, count))
      got == Populate(plan, acc.run, accepted, object)
  IN  IF accepted = <<>> THEN AddNode(acc, acc.run, object, contexts, prefix)
      ELSE AddNode(acc, got.run, object, got.next, prefix)

RECURSIVE ExecuteMembers(_, _, _, _, _, _, _)

\* An error of a member is recorded for every context of the node name.
AfterMember(plan, acc, contexts, member, index, count, required, prefix) ==
  LET object == GetRedfishObjectWithFreshness(plan, member, required) IN
  IF member.status # "ok"
  THEN [acc EXCEPT !.run = [PopulateSubqueryErrorStatus(@, member.status, contexts) EXCEPT
                              !.halted = member.status # "not_found" /\ plan.mode = "fail"]]
  ELSE IF object = Nothing THEN acc
  ELSE ExecutePredicateExpression(plan, acc, contexts, object, index, count, prefix)

ExecuteMembers(plan, acc, contexts, members, index, required, prefix) ==
  IF index > Len(members) \/ acc.run.halted THEN acc
  ELSE ExecuteMembers(plan,
         AfterMember(plan, acc, contexts, Fetch(plan, members[index], required), index, Len(members), required, prefix),
         contexts, members, index + 1, required, prefix)

\* What a node name leads to for the contexts with a predicate: the members of
\* a collection, or the object alone.
ExecutePredicates(plan, acc, contexts, variant, object, prefix, all) ==
  IF KindOf(plan, variant) = "collection"
  THEN ExecuteMembers(plan, acc, contexts, plan.service.members[variant.resource], 1, all \in plan.required, all)
  ELSE IF object = Nothing THEN acc
  ELSE ExecutePredicateExpression(plan, acc, contexts, object, 1, 1, prefix)

\* The contexts without a predicate first.  A node that is no object ends the
\* node name, for the contexts with a predicate too.
WithNoPredicate(plan, acc, plain, object, prefix) ==
  LET got == Populate(plan, acc.run, plain, object)
  IN  AddNode(acc, got.run, object, got.next, prefix)

AfterFetch(plan, acc, contexts, plain, variant, prefix, all) ==
  LET object == GetRedfishObjectWithFreshness(plan, variant, prefix \in plan.required)
      rest == GetRedfishObjectWithFreshness(plan, variant, all \in plan.required)
  IN  IF plain # <<>> /\ object = Nothing
      THEN [acc EXCEPT !.run = PopulateRawData(plan, @, variant, plain)]
      ELSE IF plain = <<>> THEN ExecutePredicates(plan, acc, contexts, variant, rest, prefix, all)
      ELSE IF Len(plain) = Len(contexts) THEN WithNoPredicate(plan, acc, plain, object, prefix)
      ELSE ExecutePredicates(plan, WithNoPredicate(plan, acc, plain, object, prefix),
                             contexts, variant, rest, prefix, all)

\* One node name: a URI if any of its contexts has one, then a reference.
Get(plan, node, contexts, name, prefix) ==
  LET kinds == {plan.query[contexts[i].q].kind : i \in DOMAIN contexts} IN
  IF "uri" \in kinds THEN FetchUri(plan, name)
  ELSE IF "pointer" \in kinds THEN FetchUriReference(plan, node.object.resource, name)
  ELSE GetNode(plan, node.object.resource, name, prefix)

ExecuteNodeName(plan, acc, contexts, variant, prefix) ==
  IF variant.status = "not_found" THEN acc
  ELSE IF variant.status # "ok" /\ plan.mode = "fail"
  THEN [acc EXCEPT !.run = [PopulateSubqueryErrorStatus(@, variant.status, contexts) EXCEPT !.halted = TRUE]]
  ELSE AfterFetch(plan,
         [acc EXCEPT !.run = IF variant.status = "ok" THEN @ ELSE PopulateSubqueryErrorStatus(@, variant.status, contexts)],
         contexts, SelectSeq(contexts, LAMBDA c : HasNoPredicate(plan, c)), variant, prefix, Append(prefix, "[*]"))

RECURSIVE ExecuteNodeNames(_, _, _, _)

\* DeduplicateNodeNamesAcrossSubqueries: each name with the contexts it is next
\* for, in the order of the map.
ExecuteNodeNames(plan, acc, node, names) ==
  IF names = <<>> \/ acc.run.halted THEN acc
  ELSE LET n == Head(names)
           contexts == SelectSeq(node.contexts, LAMBDA c : NodeName(plan, c) = n)
           prefix == Append(node.prefix, n)
       IN  ExecuteNodeNames(plan,
             IF contexts = <<>> THEN acc
             ELSE ExecuteNodeName(plan, acc, contexts, Get(plan, node, contexts, n, prefix), prefix),
             node, Tail(names))

RECURSIVE ExecuteRedPathStepFromEachSubquery(_, _, _)

\* nodes is a sequence of context nodes, executed depth first.
ExecuteRedPathStepFromEachSubquery(plan, run, nodes) ==
  IF nodes = <<>> \/ run.halted THEN run
  ELSE LET done == ExecuteNodeNames(plan, [run |-> run, nodes |-> <<>>], Head(nodes), plan.order)
       IN  ExecuteRedPathStepFromEachSubquery(plan, done.run, done.nodes \o Tail(nodes))

-----------------------------------------------------------------------------
(* A query. *)

\* The contexts of the root handles; "/" is answered from the root at once.
RECURSIVE RootContexts(_, _, _, _)
RootContexts(plan, acc, ids, object) ==
  IF ids = <<>> THEN acc
  ELSE LET q == Head(ids)
           c == Context(q, NoParent)
           atRoot == plan.query[q].kind = "redpath" /\ NodeName(plan, c) = ""
       IN  RootContexts(plan,
             IF plan.query[q].roots # <<>> THEN acc
             ELSE IF atRoot THEN PopulateResultOrContinueQuery(plan, acc, <<c>>, object)
             ELSE [acc EXCEPT !.next = Append(@, c)],
             Tail(ids), object)

ProcessSubqueries(plan, run, ids, variant) ==
  IF ~IsObject(plan, variant) THEN [run EXCEPT !.code = "failed_precondition"]
  ELSE LET roots == RootContexts(plan, [run |-> run, next |-> <<>>], ids, variant)
       IN  ExecuteRedPathStepFromEachSubquery(plan, roots.run,
             <<[object |-> variant, contexts |-> roots.next, prefix |-> <<>>]>>)

\* BuildDefaultQueryPlanner, for a plan without its handles.
BuildDefaultQueryPlanner(plan, ids, expand) ==
  LET build == GetSubqueryHandles(plan.query, ids) IN
  IF build.status # "ok" THEN [status |-> build.status]
  ELSE [status |-> "ok",
        plan |-> [query |-> plan.query, service |-> plan.service, silent |-> plan.silent, order |-> plan.order,
                  mode |-> plan.mode, callback |-> plan.callback, handles |-> build.handles,
                  steps |-> [q \in DOMAIN plan.query |-> StepsOf(plan.query[q]).steps],
                  required |-> CombineQueryParams(plan.query, expand)]]

\* Run: the callback has the result, or what is left of it, at the end.
Run(plan, ids) ==
  LET run == ProcessSubqueries(plan, NewRun(plan), ids, Fetch(plan, plan.service.root, <<"">> \in plan.required))
  IN  IF plan.callback = "none" THEN run ELSE [run EXCEPT !.sent = Append(@, run.data)]
=============================================================================
