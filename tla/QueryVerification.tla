------------------------- MODULE QueryVerification -------------------------
(***************************************************************************)
(* Verification of query results: two results against each other, or one   *)
(* against validations.  An outcome is a status and the set of errors, of  *)
(* which the place in the result and the URI in force there are kept.      *)
(* Errors are only ever added.  At the end, validation of a query, and of  *)
(* a result against the query it answers.                                  *)
(*                                                                         *)
(* A message of a oneof is a record with one field, as in QueryResults.    *)
(* The map of a verification is a sequence of <<name, verification>>: the  *)
(* order the hash map happens to be read in.                               *)
(***************************************************************************)
EXTENDS QueryResults

Outcome(status, errors) == [status |-> status, errors |-> errors]
Passed == Outcome("Ok", {})
\* AddAndReturnError
Failed(context) == Outcome("Internal", {context})
Refused(status) == Outcome(status, {})
\* Mutant of And: the status is the last one.
AndLast(before, after) == Outcome(after.status, before.errors \union after.errors)

\* Goes on with the errors so far; a status that is not Ok replaces the one before.
And(before, after) ==
  Outcome(IF after.status = "Ok" THEN before.status ELSE after.status, before.errors \union after.errors)

\* VerificationContext
Context(path, uri) == [path |-> path, uri |-> uri]
Below(context, step) == [context EXCEPT !.path = Append(@, step)]
GetUriAnnotation(fields, uri) ==
  IF kUriAnnotationTag \in DOMAIN fields THEN fields[kUriAnnotationTag].string ELSE uri

-----------------------------------------------------------------------------
(* The parts of a verification; what is not set is empty. *)

NoVerification == [presence |-> "UNKNOWN", comparison |-> "UNKNOWN", validation |-> <<>>, stable_id |-> "NONE"]
Unset == [unset |-> 0, overrides |-> <<>>]
NoList == [identifiers |-> <<>>, verify |-> Unset, presence |-> "UNKNOWN", min_size |-> 0]
VerifyOf(v) == IF "verify" \in DOMAIN v THEN v.verify ELSE NoVerification
ListOf(v) == IF "list_compare" \in DOMAIN v THEN v.list_compare ELSE NoList
DataOf(v) == IF "data_compare" \in DOMAIN v THEN v.data_compare ELSE <<>>

-----------------------------------------------------------------------------
(* Scalars *)

\* Identifiers are equal when what they say is, set or not.
SameIdentifier(a, b) ==
  \A n \in {"local_devpath", "machine_devpath", "embedded_location_context", "location"} :
    (IF n \in DOMAIN a THEN a[n] ELSE "") = (IF n \in DOMAIN b THEN b[n] ELSE "")
SameValue(a, b) == IF Kind(a) = "identifier" THEN SameIdentifier(a.identifier, b.identifier) ELSE a = b

Compare(a, b, comparison, context) ==
  CASE comparison = "EQUAL" -> IF SameValue(a, b) THEN Passed ELSE Failed(context)
    [] comparison = "NOT_EQUAL" -> IF SameValue(a, b) THEN Failed(context) ELSE Passed
    [] OTHER -> Passed
\* CompareRawData
CompareRaw(a, b, comparison, context) ==
  IF DOMAIN a.raw # DOMAIN b.raw THEN Refused("FailedPrecondition") ELSE Compare(a, b, comparison, context)
CompareQueryValues(a, b, comparison, context) ==
  CASE Kind(a) # Kind(b) -> Refused("FailedPrecondition")
    [] Kind(a) \in {"subquery", "list", "null", "none"} -> Refused("FailedPrecondition")
    [] Kind(a) = "raw" -> CompareRaw(a, b, comparison, context)
    [] OTHER -> Compare(a, b, comparison, context)

GetIntervalCompatibleTypes == {"int", "double", "timestamp"}
\* The instants in order.
AsNumber(v) == CASE Kind(v) = "int" -> v.int
                 [] Kind(v) = "double" -> v.double
                 [] Kind(v) = "timestamp" -> CASE v.timestamp = "early" -> 1 [] v.timestamp = "noon" -> 2
Operation(value, operand, operation, context) ==
  CASE operation = "GREATER_THAN" -> IF value > operand THEN Passed ELSE Failed(context)
    [] operation = "GREATER_THAN_OR_EQUAL" -> IF value >= operand THEN Passed ELSE Failed(context)
    [] operation = "LESS_THAN" -> IF value < operand THEN Passed ELSE Failed(context)
    [] operation = "LESS_THAN_OR_EQUAL" -> IF value <= operand THEN Passed ELSE Failed(context)
    [] OTHER -> Refused("Internal")
\* A regular expression without operators matches where it is contained.
OperationString(value, operand, operation, context) ==
  LET at(i) == SubSeq(value, i, i + Len(operand) - 1) = operand
      contains == \E i \in 1 .. Len(value) - Len(operand) + 1 : at(i)
      starts == Len(operand) <= Len(value) /\ at(1)
      ends == Len(operand) <= Len(value) /\ at(Len(value) - Len(operand) + 1)
      result(holds) == IF holds THEN Passed ELSE Failed(context)
  IN CASE operation \in {"STRING_CONTAINS", "STRING_REGEX_MATCH"} -> result(contains)
       [] operation \in {"STRING_NOT_CONTAINS", "STRING_NOT_REGEX_MATCH"} -> result(~contains)
       [] operation = "STRING_STARTS_WITH" -> result(starts)
       [] operation = "STRING_NOT_STARTS_WITH" -> result(~starts)
       [] operation = "STRING_ENDS_WITH" -> result(ends)
       [] operation = "STRING_NOT_ENDS_WITH" -> result(~ends)
       [] OTHER -> Refused("Internal")
OperationQueryValue(value, operand, operation, context) ==
  CASE Kind(value) # Kind(operand) -> Refused("FailedPrecondition")
    [] Kind(value) \in GetIntervalCompatibleTypes ->
         Operation(AsNumber(value), AsNumber(operand), operation, context)
    [] Kind(value) = "string" -> OperationString(value.string, operand.string, operation, context)
    [] Kind(value) \in {"bool", "identifier", "raw"} -> Refused("Internal")
    [] OTHER -> Refused("FailedPrecondition")

\* One operand that compares as asked is enough, for NOT_IN as well as for IN;
\* without one the errors of the comparisons are kept.
RangeCheck(value, operands, range, context) ==
  LET comparison == CASE range = "IN" -> "EQUAL" [] range = "NOT_IN" -> "NOT_EQUAL"
      outcomes == [i \in DOMAIN operands |-> CompareQueryValues(value, operands[i], comparison, context)]
  IN CASE operands = <<>> \/ range = "UNKNOWN" -> Refused("FailedPrecondition")
       [] \E i \in DOMAIN operands : outcomes[i].status = "Ok" -> Passed
       [] OTHER -> Outcome("Internal", UNION {outcomes[i].errors : i \in DOMAIN operands})

Interval(value, operands, interval, context) ==
  LET lower == IF interval \in {"OPEN", "OPEN_CLOSED"} THEN "GREATER_THAN" ELSE "GREATER_THAN_OR_EQUAL"
      upper == IF interval \in {"OPEN", "CLOSED_OPEN"} THEN "LESS_THAN" ELSE "LESS_THAN_OR_EQUAL"
  IN CASE Len(operands) # 2 -> Refused("FailedPrecondition")
       [] \E i \in 1 .. 2 : Kind(operands[i]) # Kind(value) -> Refused("FailedPrecondition")
       [] Kind(value) \notin GetIntervalCompatibleTypes -> Refused("FailedPrecondition")
       [] interval = "UNKNOWN" -> Refused("FailedPrecondition")
       [] /\ OperationQueryValue(value, operands[1], lower, context).status = "Ok"
          /\ OperationQueryValue(value, operands[2], upper, context).status = "Ok" -> Passed
       [] OTHER -> Failed(context)

\* Every validation is tried; a validation of no kind passes.
QueryValueValidation(value, verification, context) ==
  LET element(v) ==
        CASE "operation" \in DOMAIN v -> IF v.operands = <<>> THEN Refused("Internal")
                                         ELSE OperationQueryValue(value, v.operands[1], v.operation, context)
          [] "range" \in DOMAIN v -> RangeCheck(value, v.operands, v.range, context)
          [] "interval" \in DOMAIN v -> Interval(value, v.operands, v.interval, context)
          [] OTHER -> Passed
  IN FoldLeft(LAMBDA before, v : And(before, element(v)), Passed, verification.validation)

-----------------------------------------------------------------------------
(* Conditions *)

CheckCondition(fields, condition, context) ==
  /\ condition.property_name \in DOMAIN fields
  /\ QueryValueValidation(fields[condition.property_name], condition.condition, context) = Passed

\* The first override whose conditions hold of all the data at hand (of one
\* result to verify or of both to compare).
Applies(override, all, context) ==
  \E conditions \in {IF "all_of" \in DOMAIN override THEN override.all_of
                     ELSE IF "any_of" \in DOMAIN override THEN override.any_of ELSE <<>>} :
    \E held \in {{i \in DOMAIN conditions : \A data \in all : CheckCondition(data, conditions[i], context)}} :
      held # {} /\ ("all_of" \in DOMAIN override => held = DOMAIN conditions)
FirstOverride(matching, verification) ==
  IF matching = {} THEN verification ELSE verification.overrides[Min(matching)].conditional_verify
GetOverride(all, verification, context) ==
  FirstOverride({i \in DOMAIN verification.overrides : Applies(verification.overrides[i], all, context)}, verification)
GetVerification(data, verification, context) == GetOverride({data}, verification, context)
GetComparison(a, b, verification, context) == GetOverride({a, b}, verification, context)

VerifyStableId(id, requirement) ==
  CASE requirement \in {"UNKNOWN", "NONE"} -> TRUE
    [] requirement = "DEVPATH" -> "machine_devpath" \in DOMAIN id
    [] requirement = "SUBFRU" -> {"machine_devpath", "embedded_location_context"} \subseteq DOMAIN id

-----------------------------------------------------------------------------
(* Comparison of two results *)

\* What an element of a list is known by, <<>> if one of the properties is missing.
GenerateIdentifier(identifiers, item) ==
  IF Kind(item) # "subquery" \/ \E i \in DOMAIN identifiers : identifiers[i] \notin DOMAIN item.subquery THEN <<>>
  ELSE [i \in DOMAIN identifiers |-> <<identifiers[i], ValueToJson(item.subquery[identifiers[i]])>>]

Keys(items, identifiers) ==
  [i \in DOMAIN items |-> IF identifiers = <<>> THEN <<i>> ELSE GenerateIdentifier(identifiers, items[i])]
\* Missing identifier, duplicate identifier
KeysAreSound(keys) == \A i, k \in DOMAIN keys : keys[i] # <<>> /\ (i # k => keys[i] # keys[k])

RECURSIVE CompareListValues(_, _, _, _, _), CompareItems(_, _, _, _, _), CompareSubqueryValues(_, _, _, _)
\* The elements that both lists have, one after the other: a subquery that
\* fails lets the others be compared, a scalar that fails does not.
CompareItem(a, b, verification, at, before) ==
  CASE Kind(a) = "subquery" ->
         And(before, CompareSubqueryValues(<<a.subquery, Fields(b)>>, DataOf(verification), at, [before EXCEPT !.status = "Ok"]))
    [] Kind(a) = "list" -> And(before, Refused("FailedPrecondition"))
    [] OTHER -> And(before, CompareQueryValues(a, b, VerifyOf(verification).comparison, at))
Stops(a, b, verification, at) ==
  /\ Kind(a) # "subquery"
  /\ Kind(a) = "list" \/ CompareQueryValues(a, b, VerifyOf(verification).comparison, at).status # "Ok"
CompareItems(pairs, verification, at, before, stopped) ==
  IF pairs = <<>> \/ stopped THEN before
  ELSE CompareItems(Tail(pairs), verification, at,
                    CompareItem(pairs[1][1], pairs[1][2], verification, at, before),
                    Stops(pairs[1][1], pairs[1][2], verification, at))

\* The elements with the same key, in the order of the first list.
Matched(a, b, keys_a, keys_b) ==
  [i \in DOMAIN a |-> <<a[i], b[CHOOSE k \in DOMAIN b : keys_b[k] = keys_a[i]]>>]
\* Lists are only compared when the keys are sound and no error came before them.
\* An element that one list lacks stops the comparison of the ones that come
\* after it in the hash map; here it comes first.
CompareKeyed(a, b, keys_a, keys_b, verification, context, before) ==
  CASE before.errors # {} -> Outcome("Internal", before.errors \union (IF KeysAreSound(keys_a) THEN {} ELSE {context}))
    [] ~(KeysAreSound(keys_a) /\ KeysAreSound(keys_b)) \/ ToSet(keys_a) # ToSet(keys_b) -> Failed(context)
    [] OTHER -> CompareItems(Matched(a, b, keys_a, keys_b), verification, Below(context, "item"), before, FALSE)
CompareListValues(a, b, verification, context, before) ==
  CompareKeyed(a, b, Keys(a, verification.identifiers), Keys(b, verification.identifiers),
               verification.verify, context, before)

\* A property of both, by the kind it has in the first.
CompareProperty(a, b, verification, at, before) ==
  CASE Kind(a) = "subquery" -> CompareSubqueryValues(<<a.subquery, Fields(b)>>, DataOf(verification), at, before)
    [] Kind(a) = "list" -> CompareListValues(a.list, Items(b), ListOf(verification), at, before)
    [] OTHER -> And(before, CompareQueryValues(a, b, VerifyOf(verification).comparison, at))

\* A property that one side lacks is an error and the comparison goes on; a
\* property that does not compare ends it.
CompareField(a, b, field, here, before) ==
  CASE field[1] \notin DOMAIN a /\ field[1] \notin DOMAIN b -> before
    [] field[1] \notin DOMAIN a \/ field[1] \notin DOMAIN b -> And(before, Outcome("Ok", {here}))
    [] OTHER -> CompareProperty(a[field[1]], b[field[1]], GetComparison(a, b, field[2], here),
                                Below(here, field[1]), before)
CompareSubqueryValues(both, fields, context, before) ==
  IF fields = <<>> \/ before.status # "Ok" THEN before
  ELSE CompareSubqueryValues(both, Tail(fields), context,
         CompareField(both[1], both[2], fields[1],
           [context EXCEPT !.uri = GetUriAnnotation(both[1], GetUriAnnotation(both[2], context.uri))], before))

\* Missing properties are only in the errors: the status stays Ok.
CompareQueryResults(a, b, verification) ==
  CASE a.query_id # b.query_id -> Refused("FailedPrecondition")
    [] a.query_id # verification.query_id -> Refused("InvalidArgument")
    [] OTHER -> CompareSubqueryValues(<<a.data, b.data>>, verification.data_verify, Context(<<a.query_id>>, ""), Passed)

-----------------------------------------------------------------------------
(* Verification of one result *)

VerifyQueryValue(value, verification, context) ==
  IF "verify" \notin DOMAIN verification THEN Passed
  ELSE And(IF Kind(value) = "identifier" /\ ~VerifyStableId(value.identifier, verification.verify.stable_id)
           THEN Outcome("Ok", {context}) ELSE Passed,
           QueryValueValidation(value, verification.verify, context))

RECURSIVE VerifyItems(_, _, _, _), VerifySubqueryValue(_, _, _, _)
\* A value by its kind; the elements of a list up to the first that fails.
VerifyItem(v, verification, at, before) ==
  CASE Kind(v) = "subquery" -> VerifySubqueryValue(v.subquery, DataOf(verification), at, before)
    [] Kind(v) = "list" -> And(before, Refused("FailedPrecondition"))
    [] OTHER -> And(before, VerifyQueryValue(v, verification, at))
VerifyItems(items, verification, at, before) ==
  IF items = <<>> \/ before.status # "Ok" THEN before
  ELSE VerifyItems(Tail(items), verification, at, VerifyItem(items[1], verification, at, before))
VerifyListValue(items, verification, context, before) ==
  CASE Len(items) < verification.min_size -> And(before, Failed(context))
    [] "unset" \in DOMAIN verification.verify -> before
    [] OTHER -> VerifyItems(items, verification.verify, Below(context, "item"), before)

Required(verification) ==
  "REQUIRED" = IF "verify" \in DOMAIN verification THEN verification.verify.presence ELSE ListOf(verification).presence
VerifyField(data, name, verification, here, before) ==
  CASE name \notin DOMAIN data -> IF Required(verification) THEN And(before, Outcome("Ok", {here})) ELSE before
    [] Kind(data[name]) = "list" -> VerifyListValue(data[name].list, ListOf(verification), Below(here, name), before)
    [] OTHER -> VerifyItem(data[name], verification, Below(here, name), before)
VerifySubqueryValue(data, fields, context, before) ==
  IF fields = <<>> \/ before.status # "Ok" THEN before
  ELSE VerifySubqueryValue(data, Tail(fields), context,
         VerifyField(data, fields[1][1], GetVerification(data, fields[1][2], context),
                     [context EXCEPT !.uri = GetUriAnnotation(data, context.uri)], before))

\* Any error fails the result.
ProcessResult(outcome) ==
  IF outcome.status = "Ok" /\ outcome.errors # {} THEN Outcome("Internal", outcome.errors) ELSE outcome
VerifyQueryResult(result, verification) ==
  IF result.query_id # verification.query_id THEN Refused("InvalidArgument")
  ELSE ProcessResult(VerifySubqueryValue(result.data, verification.data_verify, Context(<<result.query_id>>, ""), Passed))

-----------------------------------------------------------------------------
(* QueryResultValidator: a result against the query it answers.  A query   *)
(* is a sequence of subqueries, each with its id, the ids of its roots,    *)
(* its properties and its redpath, a sequence of steps.                    *)

RECURSIVE TraverseQueryConfig(_, _, _)
\* The paths from the root of a result to a subquery, one of them twice if it
\* has a root twice.  A subquery that is its own root is refused; a longer
\* cycle of roots is followed without end.
TraverseQueryConfig(query, i, above) ==
  LET id == query[i].subquery_id
      rooted(r) == {k \in DOMAIN query : query[k].subquery_id = r}
      roots == query[i].root_subquery_ids
      parents == FlattenSeq([r \in DOMAIN roots |->
                   [k \in DOMAIN SetToSeq(rooted(roots[r])) |->
                      TraverseQueryConfig(query, SetToSeq(rooted(roots[r]))[k], above \union {i})]])
      paths == FlattenSeq([p \in DOMAIN parents |-> parents[p].paths])
  IN CASE i \in above -> [status |-> "Overflow", paths |-> <<>>]
       [] roots = <<>> -> [status |-> "Ok", paths |-> <<<<id>>>>]
       [] \E r \in DOMAIN roots : roots[r] = id -> [status |-> "Internal", paths |-> <<>>]
       [] \E r \in DOMAIN roots : rooted(roots[r]) = {} -> [status |-> "NotFound", paths |-> <<>>]
       [] \E p \in ToSet(parents) : p.status # "Ok" -> CHOOSE p \in ToSet(parents) : p.status # "Ok"
       [] OTHER -> [status |-> "Ok", paths |-> [k \in DOMAIN paths |-> Append(paths[k], id)]]

\* A property is known by its name, if it has one, after the path of its subquery.
PropertyName(p) == IF p.name = "" THEN p.property ELSE p.name

\* Every place of a property, once: a place that two properties, or one on two
\* paths, would have is refused.
BuildQueryConfigMap(query) ==
  LET traversed == [i \in DOMAIN query |-> TraverseQueryConfig(query, i, {})]
      places == UNION {{i} \X (DOMAIN traversed[i].paths) \X (DOMAIN query[i].properties) : i \in DOMAIN query}
      at(place) == Append(traversed[place[1]].paths[place[2]], PropertyName(query[place[1]].properties[place[3]]))
  IN CASE \E i \in DOMAIN query : traversed[i].status # "Ok" ->
            [status |-> (CHOOSE t \in {traversed[i] : i \in DOMAIN query} : t.status # "Ok").status, map |-> <<>>]
       [] \E p, q \in places : p # q /\ at(p) = at(q) -> [status |-> "Internal", map |-> <<>>]
       [] OTHER -> [status |-> "Ok",
                    map |-> [path \in {at(p) : p \in places} |->
                               LET p == CHOOSE q \in places : at(q) = path IN query[p[1]].properties[p[3]]]]

CompareTypes(v, type) ==
  CASE Kind(v) = "int" -> type = "INT64"
    [] Kind(v) = "double" -> type = "DOUBLE"
    [] Kind(v) = "string" -> type = "STRING"
    [] Kind(v) = "bool" -> type = "BOOLEAN"
    [] OTHER -> Kind(v) = "identifier"

CheckProperty(v, property) ==
  /\ v # KindNotSet
  /\ IF property.collection
     THEN Kind(v) = "list" /\ \A i \in DOMAIN v.list : v.list[i] # KindNotSet /\ CompareTypes(v.list[i], property.type)
     ELSE CompareTypes(v, property.type)

RECURSIVE TraverseQueryResult(_, _, _)
\* What is not a property must be a subquery, or a list of them.
TraverseQueryResult(map, path, fields) ==
  \A n \in DOMAIN fields :
    \E here \in {Append(path, n)} :
      CASE here \in DOMAIN map -> CheckProperty(fields[n], map[here])
        [] Kind(fields[n]) = "list" -> \A i \in DOMAIN fields[n].list : TraverseQueryResult(map, here, Fields(fields[n].list[i]))
        [] Kind(fields[n]) = "subquery" -> TraverseQueryResult(map, here, fields[n].subquery)
        [] OTHER -> FALSE

\* Create and Validate
ValidateQueryResult(query, result) ==
  LET config == BuildQueryConfigMap(query.subqueries)
  IN CASE query.query_id = "" -> "InvalidArgument"
       [] config.status # "Ok" -> config.status
       [] query.query_id # result.query_id -> "InvalidArgument"
       [] TraverseQueryResult(config.map, <<>>, result.data) -> "Ok"
       [] OTHER -> "Internal"

-----------------------------------------------------------------------------
(* RedPathQueryValidator.  An issue has its type and the number of the     *)
(* subquery it is about, or 0.  A step of a redpath has the groups of      *)
(* predicates that its brackets hold.                                      *)

Issue(type, i) == [type |-> type, about |-> i]
Names(subquery) == {PropertyName(subquery.properties[k]) : k \in DOMAIN subquery.properties}
\* The ids under which a subquery stands: those of its roots, or the top level.
RootIds(subquery) == IF subquery.root_subquery_ids = <<>> THEN {"TopLevelQuery"} ELSE ToSet(subquery.root_subquery_ids)

\* Mutant of CheckForDuplicateSubqueryIds: subqueries at the top level are not compared.
DuplicatesBelowRoots(query, i) ==
  \E k \in 1 .. i - 1 : /\ query[k].subquery_id = query[i].subquery_id
                        /\ ToSet(query[k].root_subquery_ids) \intersect RootIds(query[i]) # {}

\* A subquery with the same id came before under the same root: another one,
\* or this one if it has a root twice.
CheckForDuplicateSubqueryIds(query, i) ==
  \/ \E k \in 1 .. i - 1 : /\ query[k].subquery_id = query[i].subquery_id
                           /\ RootIds(query[k]) \intersect RootIds(query[i]) # {}
  \/ ~IsInjective(query[i].root_subquery_ids)

\* The properties of a root are those of the first subquery with its id, and
\* are only known if it came before.
CheckForSubqueryIdRootPropertyConflicts(query, i) ==
  \E r \in ToSet(query[i].root_subquery_ids), k \in 1 .. i :
    /\ query[k].subquery_id = r
    /\ \A m \in 1 .. k - 1 : query[m].subquery_id # r
    /\ query[i].subquery_id \in Names(query[k])

TestForConflictingIds(query) ==
  {Issue("kConflictingIds", i) : i \in {k \in DOMAIN query :
     \/ CheckForDuplicateSubqueryIds(query, k)
     \/ Cardinality(Names(query[k])) < Len(query[k].properties)
     \/ CheckForSubqueryIdRootPropertyConflicts(query, k)}}

\* The predicates of the first brackets of a step.  A step without any is taken
\* for one itself, and allowed as a name is.
ParsePredicate(step) == IF step.groups = <<>> THEN <<>> ELSE step.groups[1]
\* kPredicateRegex: no variable on the left, and a value after a comparator.
Allowed(predicate) == predicate.left # "variable" /\ (predicate.comparator = "" \/ predicate.right # "")
TestForDisallowedPredicates(query) ==
  {Issue("kDisallowedPredicate", i) : i \in
     {k \in DOMAIN query : \E s \in DOMAIN query[k].redpath :
        \E p \in ToSet(ParsePredicate(query[k].redpath[s])) : ~Allowed(p)}}

kDeepRedpathLimit == 5
kUniqueRedpathsLimit == 5
TestForDeepRedPath(query) == {Issue("kDeepRedPath", i) : i \in {k \in DOMAIN query : Len(query[k].redpath) >= kDeepRedpathLimit}}
TestForDeepQuery(query) ==
  IF Cardinality({query[i].redpath : i \in DOMAIN query}) >= kUniqueRedpathsLimit THEN {Issue("kDeepQuery", 0)} ELSE {}
TestForNamePresent(query) ==
  IF \E i \in DOMAIN query : \E k \in DOMAIN query[i].properties : query[i].properties[k].name = ""
  THEN {Issue("kRedPathNoName", 0)} ELSE {}
TestForWideBranching(query) ==
  LET below(root) == {query[i].redpath : i \in {k \in DOMAIN query : root \in ToSet(query[k].root_subquery_ids)}} IN
  IF \E i \in DOMAIN query : \E root \in ToSet(query[i].root_subquery_ids) : Cardinality(below(root)) > 1
  THEN {Issue("kWideBranching", 0)} ELSE {}

TestForErrorLevelIssues(query) == TestForDisallowedPredicates(query) \union TestForConflictingIds(query)
TestForWarningLevelIssues(query) ==
  TestForDeepRedPath(query) \union TestForDeepQuery(query) \union TestForWideBranching(query) \union TestForNamePresent(query)

\* ValidateQuery, and ValidateQueryFile once the file is read.
ValidateQuery(query) == [errors |-> TestForErrorLevelIssues(query), warnings |-> TestForWarningLevelIssues(query)]
=============================================================================
