-------------------------- MODULE PredicateChecks --------------------------
(***************************************************************************)
(* Predicates against what they mean.  A predicate is a tree: an           *)
(* expression, or a group of items with an operator before each but the    *)
(* first.  Operators have no precedence; a group is read left to right.    *)
(***************************************************************************)
EXTENDS AlgorithmState

PR == INSTANCE Predicates

PlainName(n) == [name |-> n, index |-> -1]
Compares(name, op, value) == [leaf |-> PR!Rel(<<PlainName(name)>>, op, value)]
Group(items, ops) == [items |-> items, ops |-> ops]
IsLeaf(tree) == "leaf" \in DOMAIN tree

Objects == {J!Obj([N |-> J!Num(n), S |-> J!Str(s), B |-> J!Bool(TRUE), Z |-> J!Null]) : n \in {5, 7}, s \in {"fan", "fan2"}}
FullObject == J!Obj([N |-> J!Num(5), S |-> J!Str("5"), F |-> J!Str("fan2"), B |-> J!Bool(TRUE), Z |-> J!Null,
                     D |-> J!Str("noonZ"), O |-> J!Obj([N |-> J!Float(55)]), A |-> J!Arr(<<J!Num(1)>>)])
Values == {[number |-> 50], [number |-> 55], [true |-> 1], [null |-> 1], [string |-> "fan2"], [string |-> "fan10"],
           [quoted |-> "fan"], [date |-> "noon"], [date |-> "laterZ"]}
Names == {<<PlainName(n)>> : n \in {"N", "S", "F", "B", "Z", "D", "none"}}
         \union {<<PlainName("O"), PlainName("N")>>, <<[name |-> "A", index |-> 0]>>, <<[name |-> "A", index |-> 1]>>}

N5 == Compares("N", "=", [number |-> 50])
NotFan == Compares("S", "!=", [string |-> "fan"])
NIsX == Compares("N", "=", [variable |-> "X"])
SIsY == Compares("S", "=", [variable |-> "Y"])
NIsNotX == Compares("N", "!=", [variable |-> "X"])
HasNone == [leaf |-> PR!Exists(<<PlainName("None")>>, FALSE)]
LeafTrees == {N5, NotFan, NIsX, SIsY}
Environments ==
  {[X |-> x, Y |-> y] : x \in {<<>>, <<[number |-> 50]>>, <<[number |-> 70], [number |-> 50]>>},
                        y \in {<<>>, <<[string |-> "fan2"]>>}}
Variables == <<"X", "Y">>

PairTrees(items) == {Group(<<a, b>>, <<o>>) : a \in items, b \in items, o \in PR!Operators}
Trees ==
  LeafTrees \union {Group(<<Group(<<a>>, <<>>)>>, <<>>) : a \in LeafTrees} \union PairTrees(LeafTrees \union {HasNone, NIsNotX})
    \union {Group(<<a, b, c>>, <<o, p>>) : a \in LeafTrees, b \in LeafTrees, c \in {NotFan, NIsX}, o \in PR!Operators, p \in PR!Operators}
    \union {Group(<<a, b>>, <<o>>) : a \in {N5, SIsY}, b \in PairTrees({NotFan, NIsX}), o \in PR!Operators}
    \union {Group(<<b, a>>, <<o>>) : a \in {N5, SIsY}, b \in PairTrees({NotFan, NIsX}), o \in PR!Operators}
    \union {Group(<<a, Group(<<b, N5>>, <<o>>), a>>, <<p, o>>) :
              a \in {NotFan, SIsY}, b \in PairTrees({N5, NotFan}), o \in PR!Operators, p \in PR!Operators}

-----------------------------------------------------------------------------
(* The text of a tree, and its meaning. *)

RECURSIVE Write(_)
Inner(tree) == IF IsLeaf(tree) THEN <<tree.leaf>> ELSE <<PR!Symbol("(")>> \o Write(tree) \o <<PR!Symbol(")")>>
Write(tree) ==
  IF IsLeaf(tree) THEN <<tree.leaf>>
  ELSE PR!FlattenSeq([i \in DOMAIN tree.items |->
         (IF i = 1 THEN <<>> ELSE <<PR!Symbol(" "), PR!Symbol(tree.ops[i - 1]), PR!Symbol(" ")>>) \o Inner(tree.items[i])])

\* The values a relation is compared with.
ValuesOf(e, env) ==
  CASE PR!ReadsAs(e.value) # "variable" -> <<e.value>>
    [] PR!ReadsAs(e.value) = "variable" /\ Len(env[e.value.variable]) > 1 /\ e # env.expands -> <<>>
    [] OTHER -> env[e.value.variable]
Holds(j, e) == PR!Single(j, e, [index |-> 0, size |-> 1]).value
Satisfied(j, e, env) ==
  IF e.type # "rel" THEN Holds(j, e)
  ELSE \E i \in DOMAIN ValuesOf(e, env) : Holds(j, [e EXCEPT !.value = ValuesOf(e, env)[i]])

RECURSIVE Says(_, _)
\* Whether anything is left of a tree without its unpopulated variables.
Says(tree, env) ==
  IF IsLeaf(tree) THEN tree.leaf.type # "rel" \/ ValuesOf(tree.leaf, env) # <<>>
  ELSE \E i \in DOMAIN tree.items : Says(tree.items[i], env)

RECURSIVE Accepts(_, _, _, _)
\* Read left to right, a group holds if some item does that has no operator or
\* "or" before it, and every later item that has "and".  own: an item that is
\* left keeps its own operator, and not the one after the item left before it.
Accepts(tree, j, env, own) ==
  IF IsLeaf(tree) THEN Satisfied(j, tree.leaf, env)
  ELSE LET kept == {i \in DOMAIN tree.items : Says(tree.items[i], env)}
           before(i) == {k \in kept : k < i}
           op(i) == IF own THEN tree.ops[i - 1] ELSE tree.ops[CHOOSE k \in before(i) : \A l \in before(i) : l <= k]
       IN  \E i \in kept :
             /\ before(i) = {} \/ op(i) = "or"
             /\ Accepts(tree.items[i], j, env, own)
             /\ \A k \in kept : k > i /\ op(k) = "and" => Accepts(tree.items[k], j, env, own)

Means(tree, j, env, own) == ~Says(tree, env) \/ Accepts(tree, j, env, own)

RECURSIVE LeavesOf(_)
LeavesOf(tree) == IF IsLeaf(tree) THEN {tree.leaf} ELSE UNION {LeavesOf(tree.items[i]) : i \in DOMAIN tree.items}
Relational(tree) == \A e \in LeavesOf(tree) : e.type = "rel"
Fixed(tree) == \A e \in LeavesOf(tree) : e.type # "rel" \/ PR!ReadsAs(e.value) # "variable"

\* Only one relation with a variable of several values is expanded, the first in
\* the text, wherever it stands; in another relation the variable is taken for
\* one without values.
PlacesOfX(text) == {i \in DOMAIN text : PR!IsVariable(text[i], "X")}
FirstX(text) == CHOOSE i \in PlacesOfX(text) : \A k \in PlacesOfX(text) : i <= k
Expanding(text, env) ==
  env @@ [expands |-> IF PlacesOfX(text) = {} THEN PR!All ELSE text[FirstX(text)]]
\* What stands between the last space and the first place is repeated with every
\* value: a parenthesis there is opened more often than it is closed.
Unbalanced(text, env) ==
  /\ Len(env.X) > 1 /\ PlacesOfX(text) # {}
  /\ PR!ExpressionStart(text, FirstX(text)) < FirstX(text)
\* The older planner cuts a relation out with the parentheses beside it.
CutsParentheses(text, env) ==
  \E i \in DOMAIN PR!Split(text) :
    \E chunk \in {PR!Split(text)[i]} : Len(chunk) > 1 /\ PR!HasVariable(PR!ReplaceVariables(chunk, Variables, PR!FirstValues(env)))

-----------------------------------------------------------------------------
(* A service that filters: "and" binds more closely than "or".             *)

RECURSIVE Filters(_, _)
Without(text) == PR!SelectSeq(text, LAMBDA s : s.type # " ")
Top(text, op) == {i \in DOMAIN text : text[i].type = op /\ PR!Level(text, 1, i) = 0}
SplitAt(text, op) ==
  LET i == CHOOSE k \in Top(text, op) : TRUE IN <<SubSeq(text, 1, i - 1), SubSeq(text, i + 1, Len(text))>>
OData(j, e) ==
  LET got == PR!ResolveRedPathNodeToJson(j, e.name)
      same == CASE PR!ReadsAs(e.value) = "number" -> 10 * got.value.int = e.value.number
                [] OTHER -> got.value = J!Str(e.value.quoted)
  IN  got.status = "ok" /\ same = (e.op = "eq")
Filters(j, text) ==
  IF Top(text, "or") # {} THEN Filters(j, SplitAt(text, "or")[1]) \/ Filters(j, SplitAt(text, "or")[2])
  ELSE IF Top(text, "and") # {} THEN Filters(j, SplitAt(text, "and")[1]) /\ Filters(j, SplitAt(text, "and")[2])
  ELSE IF text[1].type = "(" THEN Filters(j, SubSeq(text, 2, Len(text) - 1))
  ELSE OData(j, text[1])

-----------------------------------------------------------------------------
(* RedPaths over a service with one collection.  Every member has an       *)
(* object, arrays of parts, and values that read alike.                    *)

RP == INSTANCE RedPathQuery
TR == INSTANCE RedfishTree

ThingsPath == <<"v1", "Things">>
Thing(k) == <<"v1", "Things", k>>
Part(n) == J!Obj(One("N", J!Num(n)))
ThingDocs ==
  (Thing("a") :> J!Obj(Id(Thing("a")) @@ [N |-> J!Num(5), S |-> J!Str("fan"), B |-> J!Bool(TRUE), Z |-> J!Null,
                         O |-> J!Obj([N |-> J!Float(55), S |-> J!Str("fan")]), Parts |-> J!Arr(<<Part(5), Part(7)>>)]))
  @@ (Thing("b") :> J!Obj(Id(Thing("b")) @@ [N |-> J!Float(55), S |-> J!Str("5"), B |-> J!Bool(FALSE), Z |-> J!Num(7),
                            O |-> J!Obj([N |-> J!Null, S |-> J!Str("5")]), Parts |-> J!Arr(<<>>)]))
  @@ (Thing("c") :> J!Obj(Id(Thing("c")) @@ [N |-> J!Str("5"), Z |-> J!Arr(<<>>), O |-> J!Bool(TRUE), Parts |-> J!Arr(<<Part(7)>>)]))
Collections == {<<>>, <<"a", "b", "c">>, <<"b", "gone", "a">>, <<"c", "lost">>}
ThingService(keys) ==
  [answer |-> (RootPath :> [code |-> 200, body |-> J!Obj(Id(RootPath) @@ One("Things", Ref(ThingsPath)))])
              @@ (ThingsPath :> [code |-> 200, body |-> J!Obj(Id(ThingsPath) @@
                    One("Members", J!Arr([i \in DOMAIN keys |-> Ref(Thing(keys[i]))])))])
              @@ [p \in DOMAIN ThingDocs |-> [code |-> 200, body |-> ThingDocs[p]]]
              @@ (Thing("lost") :> [code |-> 0, status |-> "Unavailable"]),
   warm |-> {}, features |-> <<>>]
Served(service) ==
  [u \in {At(p) : p \in {q \in DOMAIN service.answer : service.answer[q].code = 200}} |-> service.answer[u.path].body]

ThingNames == {<<PlainName(n)>> : n \in {"N", "S", "B", "Z", "none"}}
              \union {<<PlainName("O"), PlainName(n)>> : n \in {"N", "S", "none"}}
ThingValues == {[number |-> 50], [number |-> 55], [true |-> 1], [null |-> 1], [string |-> "fan"]}
Brackets ==
  {<<PR!Rel(n, op, v)>> : n \in ThingNames, op \in {"=", "!=", "<", ">="}, v \in ThingValues}
  \union {<<PR!Exists(n, not)>> : n \in ThingNames \union {<<PlainName("@odata.id")>>}, not \in BOOLEAN}
  \union {<<PR!Rel(<<PlainName("S")>>, "=", [date |-> "noon"])>>, <<PR!All>>, <<PR!Symbol("last")>>} \union {<<[type |-> "index", at |-> i]>> : i \in 0 .. 1}
  \union {<<PR!Rel(<<PlainName("N")>>, "!=", [number |-> 50]), PR!Symbol(" "), PR!Symbol("and"), PR!Symbol(" "), PR!Exists(<<PlainName("S")>>, FALSE)>>}
OfPath(name, groups) == [name |-> name, groups |-> groups]
Anything == <<<<PR!All>>>>
RedPathsTo(text, keys) ==
  {<<OfPath("Things", <<text>>)>>, <<OfPath("Things", Anything), OfPath("Parts", <<text>>)>>}
  \union IF keys # <<"a", "b", "c">> THEN {}
         ELSE {<<OfPath("Things", Anything), OfPath("None", <<text>>)>>,
               <<OfPath("Things", <<text>>), OfPath("Parts", <<<<PR!Symbol("last")>>>>)>>,
               <<OfPath("Things", <<text>>),
                 OfPath("Parts", <<<<PR!Exists(<<PlainName("N")>>, FALSE)>>, <<[type |-> "index", at |-> 0]>>>>)>>}

\* What a step leads to in one document, its predicate read as the planners do.
Reads(text, item, i, size) ==
  PR!ApplyPredicateRule(item, text, [index |-> i - 1, size |-> size]) = PR!Ok(TRUE)
OneStep(docs, j, step) ==
  LET value == TR!Child(docs, j, step.name)
      items == IF TR!Members(value) = <<>> /\ J!IsObject(value) /\ ~Nav!IsCollection(value) THEN <<value>> ELSE TR!Items(docs, value)
  IN  IF step.groups = <<>> THEN <<value>>
      ELSE LET chosen == {i \in DOMAIN items : Reads(step.groups[Len(step.groups)], items[i], i, Len(items))}
           IN  [n \in 1 .. Cardinality(chosen) |-> items[PR!SetToSortSeq(chosen, <)[n]]]
RECURSIVE LeadsTo(_, _, _)
LeadsTo(docs, js, steps) ==
  IF steps = <<>> THEN PR!SelectSeq(js, J!IsObject)
  ELSE LeadsTo(docs, PR!FlattenSeq([i \in DOMAIN js |-> OneStep(docs, js[i], Head(steps))]), Tail(steps))

\* The predicates that both read alike, whatever they are read of.
ReadAlike(e) ==
  CASE e.type \in {"all", "last", "index"} -> TRUE
    [] e.type = "exists" -> ~e.not /\ Len(e.name) = 1
    [] e.type = "rel" /\ Len(e.name) = 1 -> PR!ReadsAs(e.value) \in {"true", "string"}
    [] OTHER -> FALSE
\* GetRedPath takes no number from a string, empty for null, a flag for all of
\* its children, and only "=" of dotted names.
ReadAlikeOf(e, j) ==
  LET field == J!Field(j, e.name[1].name)
      positive == e.type = "exists" => ~e.not
  IN  IF ReadAlike(e) THEN TRUE
      ELSE IF ~J!Has(j, e.name[1].name) THEN positive
      ELSE IF Len(e.name) > 1 THEN J!IsObject(field) /\ positive /\ (e.type = "rel" => e.op = "=")
      ELSE e.type = "rel" /\ CASE PR!ReadsAs(e.value) = "number" -> ~J!IsString(field)
                               [] PR!ReadsAs(e.value) = "null" -> ~J!IsArray(field)
                               [] OTHER -> FALSE

-----------------------------------------------------------------------------

\* Pairs of operators of which exactly one holds of a value that compares.
Opposites == {<<"=", "!=">>, <<"<", ">=">>, <<">", "<=">>, <<"~>", "<~=">>, <<"<~", "~>=">>}

PickPredicate ==
  \/ \E tree \in Trees : input' = [kind |-> "predicate", tree |-> tree] /\ world' = Write(tree)
  \/ \E name \in Names, value \in Values :
       input' = [kind |-> "comparison", name |-> name, value |-> value] /\ world' = FullObject
  \/ \E text \in Brackets : \E keys \in Collections : \E steps \in RedPathsTo(text, keys) :
       input' = [kind |-> "redpath", text |-> text, keys |-> keys, steps |-> steps] /\ world' = ThingService(keys)

Applied(j, text) == PR!ApplyPredicateRule(j, text, [index |-> 0, size |-> 1])
Substituted(text, env) == PR!SubstituteVariables(text, Variables, env)

UsePredicate ==
  \/ /\ input.kind = "predicate"
     /\ answer' = [object |-> PR!CreatePredicateObject(world),
                   filter |-> PR!BuildFilterFromRedpathPredicateList(<<world, world>>),
                   substituted |-> [env \in Environments |-> Substituted(world, env)],
                   older |-> [env \in Environments |-> PR!SubstituteFirstValues(world, Variables, env)]]
  \/ /\ input.kind = "comparison"
     /\ answer' = [op \in UNION {{o[1], o[2]} : o \in Opposites} |->
                     Applied(world, <<PR!Rel(input.name, op, input.value)>>)]

  \/ /\ input.kind = "redpath"
     /\ answer' = RP!GetRedPath(world, Nav!CachedGetUri(world, At(RootPath), Nav!NoParams), input.steps)

PrintingKeepsMeaning(j) ==
  answer.object.status = "ok" => Applied(j, PR!PredicateObjectToString(answer.object.value)) = Applied(j, world)

SubstitutionKeepsMeaning(j, env) ==
  /\ IF Unbalanced(world, env)
     THEN answer.substituted[env].status = "ok" => Applied(j, answer.substituted[env].value).status # "ok"
     ELSE /\ answer.substituted[env].status = "ok"
          /\ Applied(j, answer.substituted[env].value) = PR!Ok(Means(input.tree, j, Expanding(world, env), TRUE))
  /\ IF CutsParentheses(world, env)
     THEN Applied(j, answer.older[env]) \in {PR!Fails("invalid"), PR!Ok(Means(input.tree, j, PR!FirstValues(env), FALSE))}
     ELSE Applied(j, answer.older[env]) = PR!Ok(Means(input.tree, j, PR!FirstValues(env), FALSE))

\* A relation that stands alone in parentheses is taken for one with them, whose
\* value nothing has.
FilterKeepsAccepted(j) ==
  /\ answer.filter.status = "ok"
  /\ IF Len(world) > 1 /\ PR!OneRelation(world)
     THEN \A i \in PR!Relations(answer.filter.value) : answer.filter.value[i].value = [quoted |-> "other"]
     ELSE Applied(j, world).value => Filters(j, Without(answer.filter.value))

\* A value that compares under one operator compares under the opposite one,
\* and satisfies one of the two; null, booleans and strings only have "=",
\* and the fuzzy operators are equality between dates.
OneOfOpposites(o) ==
  LET got == {answer[o[1]], answer[o[2]]}
      there == PR!ResolveRedPathNodeToJson(world, input.name)
  IN  IF there.status # "ok" THEN got = {PR!Ok(FALSE)}
      ELSE \/ \E g \in got : Cardinality(got) = 1 /\ (g.status # "ok" \/ ~g.value)
           \/ got = {PR!Ok(TRUE), PR!Ok(FALSE)}
           \/ o[1] \in {"<", ">"} /\ PR!ReadsAs(input.value) \notin {"number", "date"}
           \/ o[1] \in PR!FuzzyOperators /\ PR!ReadsAs(input.value) = "date"

\* Where a filter meets what is no object: a member that was not to be had, or
\* the property of a value that does not have it.
MeetsNoObject ==
  LET name == input.steps[Len(input.steps)].name
      keys == PR!ToSet(input.keys)
  IN  CASE name = "Things" -> "lost" \in keys
        [] name = "None" -> keys # {}
        [] name = "Parts" -> keys \intersect {"lost", "gone"} # {}
IsFilter(text) ==
  /\ text[1].type \in {"rel", "exists"}
  /\ text[1].type = "rel" => PR!ReadsAs(text[1].value) # "date"
Filtered == {ThingDocs[Thing(k)] : k \in PR!ToSet(input.keys) \ {"lost", "gone"}} \union {Part(5), Part(7)}

RedPathSelects ==
  LET found == PR!SelectSeq(answer.objects, LAMBDA v : v.status = "Ok") IN
  /\ answer.crash <=> IsFilter(input.text) /\ MeetsNoObject
  /\ ~answer.crash /\ Len(input.text) = 1 /\ (\A j \in Filtered : ReadAlikeOf(input.text[1], j)) =>
       [i \in DOMAIN found |-> found[i].body] = LeadsTo(Served(world), <<Served(world)[At(RootPath)]>>, input.steps)

\* Predicates mean the same wherever they go.  Read by ApplyPredicateRule a
\* predicate holds as its tree does left to right; parsed and printed again, or
\* with its variables substituted, it accepts what it accepted, an unpopulated
\* variable dropping its expression and several values standing for any of
\* them; and the $filter string made of it, which a service reads with
\* precedence, keeps every resource that the predicate accepts.  Three texts are
\* exceptions, for which the property says what becomes of them.  A variable of
\* several values behind "(" makes a text that is refused, never one that
\* accepts something else, and so does, in the older planner, one without values
\* beside a parenthesis.  A variable of several values in two different
\* relations is only expanded in the first, and the other is dropped as if it
\* had no values, which makes the predicate wider or narrower than it was
\* written.  A relation alone in parentheses becomes a $filter with a value that
\* nothing has, which loses what it accepts.  GetRedPath,
\* with a reader of its own, leads to what ApplyPredicateRule accepts on the
\* way, where both read a predicate alike, and ends unless a filter meets
\* something that is no object, whose null pointer it would dereference.
PredicatesKeepTheirMeaning ==
  Done =>
    CASE input.kind = "predicate" ->
           \A j \in Objects :
             /\ Fixed(input.tree) => Applied(j, world) = PR!Ok(Accepts(input.tree, j, [X |-> <<>>, Y |-> <<>>], TRUE))
             /\ PrintingKeepsMeaning(j)
             /\ Relational(input.tree) => \A env \in Environments : SubstitutionKeepsMeaning(j, env)
             /\ Relational(input.tree) /\ Fixed(input.tree) => FilterKeepsAccepted(j)
      [] input.kind = "redpath" -> RedPathSelects
      [] input.kind = "comparison" -> \A o \in Opposites : OneOfOpposites(o)
      [] OTHER -> TRUE
=============================================================================
