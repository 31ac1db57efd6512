---------------------------- MODULE ResultChecks ----------------------------
(***************************************************************************)
(* Query results: conversion, lookup and removal, and their verification.  *)
(***************************************************************************)
EXTENDS AlgorithmState

QR == INSTANCE QueryResults
QV == INSTANCE QueryVerification
NZ == INSTANCE Normalizers

Ids == {[local_devpath |-> "/phys"], [local_devpath |-> "/phys", machine_devpath |-> "/m"],
        [machine_devpath |-> "/m", embedded_location_context |-> "e"]}
Scalars == {QR!Number(1), QR!Double(1), QR!Text("a"), QR!Text("2023-01-01T12:00:00Z"), QR!Truth(TRUE),
            QR!Timestamp("never"), QR!Timestamp("early"), QR!Timestamp("noon"), QR!RawString("a"),
            QR!RawBytes("a"), QR!NullValue, QR!KindNotSet, QR!ListValue(<<>>), QR!Subquery(<<>>),
            QR!Identifier([location |-> "slot"]), QR!Identifier([local_devpath |-> ""])}
           \union {QR!Identifier(id) : id \in Ids}
\* What JSON can say of a value without loss.
Plain == {QR!Number(1), QR!Double(1), QR!Text("a"), QR!Truth(TRUE),
          QR!Timestamp("noon"), QR!NullValue, QR!ListValue(<<>>), QR!Subquery(<<>>)}
         \union {QR!Identifier(id) : id \in Ids}

\* Data sets of the older planner: the first may have the second for a child.
DataSet(id, uri, properties, raw, children) ==
  [id |-> id, uri |-> uri, properties |-> properties, raw |-> raw, children |-> children]
Leaf(id) == DataSet(id, "", <<[name |-> "w", value |-> QR!Number(1)]>>, <<>>, <<>>)
DelliciusResult(first, second, raw, v) ==
  [query_id |-> "q", message |-> "", code |-> "OK", request_counts |-> <<1, 2>>, start |-> <<1>>, end |-> <<3>>,
   subquery_output_by_id |->
     "s" :> (<<DataSet(first, "/u", <<[name |-> "v", value |-> v],
                                      [name |-> "c", collection |-> <<QR!Number(1), QR!Number(2)>>]>>, <<>>,
                       <<<<"child", <<Leaf(second), Leaf(first)>>>>>>), Leaf(second)>>
             \o raw)]

Name(n) == [name |-> n, at |-> <<>>]
AtIndex(n, i) == [name |-> n, at |-> <<[index |-> i]>>]
Matching(n, match) == [name |-> n, at |-> <<[match |-> match]>>]
Paths == {<<Name("s")>>, <<AtIndex("s", 0)>>, <<AtIndex("s", 1)>>, <<AtIndex("s", 2)>>, <<AtIndex("s", 0), Name("v")>>,
          <<AtIndex("s", 0), Name("none")>>, <<AtIndex("s", 0), AtIndex("c", 1)>>,
          <<AtIndex("s", 0), AtIndex("child", 0)>>, <<AtIndex("s", 0), AtIndex("child", 1), Name("w")>>,
          <<AtIndex("s", 0), Matching("child", <<<<"w", "1">>>>)>>, <<Matching("s", <<<<"w", "1">>>>), Name("w")>>,
          <<Matching("s", <<<<"_uri_", "/u">>, <<"v", "a">>>>), Name("c")>>, <<Name("x")>>}

ResultInputs ==
  {[kind |-> "result", first |-> f, second |-> s, raw |-> raw, value |-> v, path |-> path] :
     f \in Ids, s \in Ids, raw \in {<<>>, <<DataSet(<<>>, "", <<>>, <<QR!RawString("r")>>, <<>>)>>},
     v \in {QR!Number(1)}, path \in Paths}
  \union {[kind |-> "result", first |-> [local_devpath |-> "/phys"], second |-> [machine_devpath |-> ""],
           raw |-> <<>>, value |-> v, path |-> path] :
            v \in Scalars, path \in {<<AtIndex("s", 0), Name("v")>>, <<Matching("s", <<<<"v", "2023-01-01T12:00:00Z">>>>), Name("c")>>}}

PickResult ==
  \E x \in ResultInputs :
    input' = x /\ world' = QR!ToQueryResult(DelliciusResult(x.first, x.second, x.raw, x.value))

UseResult ==
  /\ input.kind = "result"
  /\ \E json \in {QR!QueryResultDataToJson(world.data)} :
       answer' = [json |-> json,
                  back |-> QR!JsonToQueryResultData(json),
                  removed |-> QR!RemoveQueryValueFromResult(world, "q", input.path),
                  without |-> QR!RemoveDataForIdentifier(QR!Subquery(world.data), input.first)]

RECURSIVE ResultPlaces(_)
\* The scalars of a value, each with the names and numbers that lead to it.
ResultPlaces(v) ==
  CASE QR!Kind(v) = "subquery" -> UNION {{<<<<n>> \o l[1], l[2]>> : l \in ResultPlaces(v.subquery[n])} : n \in DOMAIN v.subquery}
    [] QR!Kind(v) = "list" -> UNION {{<<<<i>> \o l[1], l[2]>> : l \in ResultPlaces(v.list[i])} : i \in DOMAIN v.list}
    [] OTHER -> {<<<<>>, v>>}

\* A result keeps what it says on its way to JSON and back: a value JSON can
\* express is unchanged, and what a first round changes a second does not
\* (ValueToJson, JsonToQueryValue).  Every data set of the older planner is an
\* element of its subquery unless raw data replaced it (AddChildSubQuery).
\* RemoveQueryValueFromResult takes out what GetQueryValueFromResult finds and
\* nothing else, except that it leaves a subquery named by a path of one part;
\* and RemoveDataForIdentifier leaves nothing for GetDataForIdentifier to find.
ResultsKeepTheirMeaning ==
  input.kind = "result" /\ Done =>
    /\ QR!JsonToQueryResultData(QR!QueryResultDataToJson(answer.back)) = answer.back
    /\ input.value \in Plain /\ input.raw = <<>> => answer.back = world.data
    /\ Len(QR!Items(world.data["s"])) = IF input.raw = <<>> THEN 2 ELSE 0
    /\ \A got \in {QR!GetQueryValueFromResult(world, "q", input.path)} :
         /\ got.status = answer.removed.status
         /\ got.left = QR!Subquery(world.data)
         /\ got.status # "Ok" \/ Len(QR!SplitPath(input.path)) = 1 => answer.removed.left = QR!Subquery(world.data)
         /\ got.status = "Ok" /\ Len(QR!SplitPath(input.path)) > 1 =>
              Cardinality(ResultPlaces(answer.removed.left)) =
                Cardinality(ResultPlaces(QR!Subquery(world.data))) - Cardinality(ResultPlaces(got.found))
    /\ answer.without.removed <=> QR!GetDataForIdentifier(QR!Subquery(world.data), input.first) # {}
    /\ QR!GetDataForIdentifier(answer.without.left, input.first) = {}

-----------------------------------------------------------------------------
(* Normalizers: one property of every type and JSON value, or the places   *)
(* that say where an object is.                                            *)

JsonValues == {J!Str("a"), J!Str("2023-01-01T12:00:00Z"), J!Num(5), J!Float(55), J!Bool(TRUE), J!Null, J!Obj(<<>>), J!Arr(<<>>),
               J!Arr(<<J!Str("a"), J!Str("2023-01-01T12:00:00Z")>>), J!Arr(<<J!Str("2023-01-01T12:00:00Z"), J!Num(5)>>),
               J!Arr(<<J!Num(5), J!Float(-55)>>), J!Arr(<<J!Bool(TRUE)>>)}
Requested(type, collection, nullable) ==
  [name |-> "p", text |-> "P", from |-> NZ!Segments(<<"P">>), type |-> type, collection |-> collection, nullable |-> nullable]
NameOf == [name |-> "", text |-> "Name", from |-> NZ!Segments(<<"Name">>), type |-> "string", collection |-> FALSE, nullable |-> FALSE]
NamedObject == Text("Name", "n") @@ One("@odata.id", J!Str("/u"))

\* A place that says everything, or has null or a number for all of it.
PlaceSaying(label, devpath) ==
  J!Obj(One("PartLocation", J!Obj(One("ServiceLabel", label))) @@ One("PartLocationContext", label)
        @@ One("Oem", J!Obj(One("Google", J!Obj(One("Devpath", devpath) @@ One("EmbeddedLocationContext", label))))))
Nowhere == J!Obj(<<>>)
PlaceA == PlaceSaying(J!Str("A"), J!Str("/phys/a"))
PlaceB == PlaceSaying(J!Str("B"), J!Str("/phys/b"))
LabelOnly == J!Obj(One("PartLocation", J!Obj(One("ServiceLabel", J!Str("A")))) @@ One("PartLocationContext", J!Str("A")))
PlaceSays == {Nowhere, PlaceA, PlaceB, LabelOnly, PlaceSaying(J!Null, J!Null), PlaceSaying(J!Num(5), J!Num(5))}
Assigners == {[local |-> <<>>, location |-> <<>>],
              [local |-> "/phys/a" :> "/m/a" @@ "/phys/t" :> "/m/t", location |-> <<"B", "B">> :> "/m/b" @@ <<>> :> "/m"],
              [local |-> "/phys/a" :> "/m/a", location |-> <<"A", "A">> :> "/m/slot"]}
Stacks == {"plain", "local", "devpath2", "devpath3"}

ValueInputs ==
  {[kind |-> "value", property |-> Requested(type, collection, nullable), json |-> json] :
     type \in {"string", "bool", "int", "double", "date", "undefined"}, collection \in BOOLEAN, nullable \in BOOLEAN,
     json \in JsonValues}
LocationInputs ==
  {[kind |-> "location", first |-> first, last |-> last, chassis |-> chassis, derived |-> derived, assigner |-> assigner] :
     first \in PlaceSays, last \in PlaceSays, chassis \in BOOLEAN, derived \in {<<>>, <<"/phys/t">>}, assigner \in Assigners}

PickNormalizer ==
  \/ \E x \in ValueInputs : input' = x /\ world' = J!Obj(One("P", x.json) @@ NamedObject)
  \/ \E x \in LocationInputs :
       /\ input' = x
       /\ world' = J!Obj(One("PhysicalLocation", x.first) @@ NamedObject @@ One("Oem", J!Obj(One("Google", J!Obj(One("Location", x.last)))))
                         @@ (IF x.chassis THEN Text("@odata.type", "#Chassis.") ELSE <<>>))

NormalizeBoth(properties, annotate, derived, assigner) ==
  answer' = [older |-> [stack \in Stacks |-> NZ!NormalizeChain(world, properties, annotate, stack, derived, assigner)],
             newer |-> [stack \in Stacks |-> NZ!RedpathNormalizeChain(world, properties, annotate, stack, derived, assigner)]]
NormalizeObject ==
  \/ input.kind = "value" /\ NormalizeBoth(<<input.property, NameOf>>, TRUE, <<>>, [local |-> <<>>, location |-> <<>>])
  \/ input.kind = "location" /\ NormalizeBoth(<<NameOf>>, FALSE, input.derived, input.assigner)

\* The fields of a data set of the older planner, once converted.
AsDataSet(d) ==
  DataSet((IF d.devpath = <<>> THEN <<>> ELSE "local_devpath" :> d.devpath[1]) @@ d.decorators, d.uri, d.properties, <<>>, <<>>)
ConvertedFields(d) == QR!Fields(QR!Items(QR!AddChildSubQuery(<<AsDataSet(d)>>))[1])
FieldsOf(got) == IF got.status = "ok" THEN got.value ELSE <<>>
OlderFields(stack) == IF answer.older[stack].status = "ok" THEN ConvertedFields(answer.older[stack].value) ELSE <<>>
NewerFields(stack) == FieldsOf(answer.newer[stack])
IdIn(fields) == NZ!IdentifierOf(fields)

\* A value the newer planner takes the older one takes too, null apart, unless
\* it was refused an empty collection; and it takes no other, but for the dates
\* before the first element of a list that is not a string.
ValuesAgree ==
  /\ answer.newer["plain"].status = "ok" =>
       LET new == NewerFields("plain") IN
       /\ answer.older["plain"].status = "ok" \/ ("p" \notin DOMAIN new /\ J!Size(input.json) = 0)
       /\ answer.older["plain"].status = "ok" =>
            OlderFields("plain") = [n \in {m \in DOMAIN new : new[m] # QR!NullValue} |-> new[n]]
  /\ answer.newer["plain"].status # "ok" /\ answer.older["plain"].status = "ok" =>
       "p" \notin DOMAIN OlderFields("plain") \/ (input.property.type = "date" /\ input.property.collection)

SaysNumber == PlaceSaying(J!Num(5), J!Num(5)) \in {input.first, input.last}
SaysNull == PlaceSaying(J!Null, J!Null) \in {input.first, input.last}
\* The local devpath: what the last place says, else what the topology has.
ExpectedDevpath(stack) ==
  LET said == IF input.last \in {PlaceA, PlaceB} THEN input.last ELSE input.first IN
  CASE said = PlaceA -> {"/phys/a"}
    [] said = PlaceB -> {"/phys/b"}
    [] OTHER -> IF stack \in {"local", "devpath2"} THEN QR!ToSet(input.derived) ELSE {}
ExpectedLabel ==
  LET said == IF input.last \in {PlaceA, PlaceB, LabelOnly} THEN input.last ELSE input.first IN
  IF said = PlaceB THEN "B" ELSE IF said \in {PlaceA, LabelOnly} THEN "A" ELSE ""
LocationKey == IF ExpectedLabel = "" /\ input.chassis THEN <<>> ELSE <<ExpectedLabel, ExpectedLabel>>
ByDevpath(stack) == {input.assigner.local[d] : d \in ExpectedDevpath(stack) \intersect DOMAIN input.assigner.local}
ByLocation == {input.assigner.location[k] : k \in {LocationKey} \intersect DOMAIN input.assigner.location}
OneOr(some, other) == IF some = {} THEN other ELSE some
FieldSet(f, name) == IF name \in DOMAIN f THEN {f[name]} ELSE {}

LocationsAgree(stack, new, old) ==
  /\ SaysNumber <=> answer.newer[stack].status = "invalid"
  /\ answer.older[stack].status = "ok"
  /\ ~SaysNumber =>
       /\ FieldSet(new, "local_devpath") = ExpectedDevpath(stack)
       /\ stack = "devpath2" => FieldSet(new, "machine_devpath") = ByDevpath(stack)
       /\ stack = "devpath3" => FieldSet(new, "machine_devpath") = OneOr(ByDevpath(stack), ByLocation)
       /\ ~SaysNull =>
            /\ FieldSet(old, "local_devpath") = ExpectedDevpath(stack)
            /\ stack = "devpath2" => FieldSet(old, "machine_devpath") = ByDevpath(stack)
            /\ stack = "devpath3" => FieldSet(old, "machine_devpath") = OneOr(ByLocation, ByDevpath(stack))
       /\ \A n \in DOMAIN NewerFields(stack) \ {QR!kIdentifierTag} : NewerFields(stack)[n] = NewerFields("plain")[n]

\* The two planners' normalizers agree.  A value that the newer one takes from
\* an object, the older one takes too, and what it takes is the same once
\* converted; where an object is, the last of four places says, and only then
\* the node topology; the machine devpath is the one of the local devpath, or
\* of the location where there is a fallback, which the older planner asks
\* first; and the steps added to a chain change the identifier only.  They part
\* where a place holds no string: a number fails the newer normalizer and not
\* the older one, and with a null nothing is said of where the older one finds
\* the object.
NormalizersAgree ==
  Done =>
    CASE input.kind = "value" -> ValuesAgree
      [] input.kind = "location" ->
           \A stack \in Stacks : LocationsAgree(stack, IdIn(NewerFields(stack)), IdIn(OlderFields(stack)))
      [] OTHER -> TRUE

-----------------------------------------------------------------------------
(* Verification of results: pairs of results with a scalar p and a list l  *)
(* are compared, one result is verified, and one is validated against the  *)
(* query it answers.                                                       *)

Ver == INSTANCE QueryVerification

Item(k, w) == Ver!Subquery(("k" :> Ver!Number(k)) @@ ("w" :> Ver!Number(w)))
ItemLists == {<<>>, <<Item(1, 1)>>, <<Item(1, 2)>>, <<Item(1, 1), Item(2, 1)>>, <<Item(2, 1), Item(1, 1)>>,
              <<Item(1, 1), Item(1, 1)>>, <<Item(1, 1), Ver!Subquery("w" :> Ver!Number(1))>>}
Ps == {<<>>, "p" :> Ver!Number(1), "p" :> Ver!Number(2), "p" :> Ver!Number(3), "p" :> Ver!Text("ab"), "p" :> Ver!NullValue,
       "p" :> Ver!Identifier([machine_devpath |-> "/m"]),
       "p" :> Ver!Identifier([machine_devpath |-> "/m", embedded_location_context |-> ""])}
Result(fields) == [query_id |-> "q", data |-> fields]
Results == {Result(p @@ ("l" :> Ver!ListValue(l)) @@ ("_uri_" :> Ver!Text("/u"))) : p \in Ps, l \in ItemLists}

Check(comparison, validation) ==
  [verify |-> [Ver!NoVerification EXCEPT !.comparison = comparison, !.validation = validation], overrides |-> <<>>]
Equal == Check("EQUAL", <<>>)
ListResults(identifiers, verify) ==
  [list_compare |-> [Ver!NoList EXCEPT !.identifiers = identifiers, !.verify = verify], overrides |-> <<>>]
Data(fields) == [data_compare |-> fields, overrides |-> <<>>]
\* p is compared only when it is below 3 on both sides.
OnlySmall ==
  [verify |-> Ver!NoVerification,
   overrides |-> <<[all_of |-> <<[property_name |-> "p",
                                  condition |-> [Ver!NoVerification EXCEPT !.validation =
                                    <<[operation |-> "LESS_THAN", operands |-> <<Ver!Number(3)>>]>>]]>>,
                    conditional_verify |-> Equal]>>]
ListChecks == {ListResults(ids, Data(<<<<"k", Equal>>, <<"w", Equal>>>>)) : ids \in {<<>>, <<"k">>}}
Verifications == {[query_id |-> "q", data_verify |-> <<<<"p", p>>, <<"l", l>>>>] : p \in {Equal, OnlySmall}, l \in ListChecks}

IntervalCheck(kind, lo, hi) == [interval |-> kind, operands |-> <<Ver!Number(lo), Ver!Number(hi)>>]
Compared(op, operand) == [operation |-> op, operands |-> <<operand>>]
RangeOf(kind, values) == [range |-> kind, operands |-> [i \in DOMAIN values |-> Ver!Number(values[i])]]
Validations == {IntervalCheck(kind, lo, hi) : kind \in {"OPEN", "CLOSED", "OPEN_CLOSED", "CLOSED_OPEN"}, lo \in 0 .. 2, hi \in 0 .. 2}
   \union {RangeOf(kind, values) : kind \in {"IN", "NOT_IN"}, values \in {<<>>, <<1>>, <<1, 2>>}}
   \union {Compared(op, Ver!Text("b")) :
             op \in {"STRING_CONTAINS", "STRING_NOT_CONTAINS", "STRING_STARTS_WITH", "STRING_NOT_STARTS_WITH",
                     "STRING_ENDS_WITH", "STRING_NOT_ENDS_WITH", "STRING_REGEX_MATCH", "STRING_NOT_REGEX_MATCH"}}
   \union {Compared("LESS_THAN", operand) : operand \in {Ver!Text("b"), Ver!Number(2)}}
   \union {[operation |-> "LESS_THAN", operands |-> <<>>], [range |-> "IN", operands |-> <<Ver!Text("b"), Ver!Number(1)>>]}
\* Those that stand before or after another one: of numbers, of texts, of both.
Companions == {IntervalCheck("OPEN", 0, 2), Compared("STRING_CONTAINS", Ver!Text("b")),
               [range |-> "NOT_IN", operands |-> <<Ver!Text("a"), Ver!Number(2)>>]}
ValidationLists == {<<>>} \union {<<v>> : v \in Validations}
                   \union UNION {{<<v, w>>, <<w, v>>} : v \in {c \in Validations : "interval" \notin DOMAIN c}, w \in Companions}
Requirements == {[Ver!NoVerification EXCEPT !.presence = r[1], !.stable_id = r[2]] :
                   r \in {<<"REQUIRED", "DEVPATH">>, <<"REQUIRED", "SUBFRU">>, <<"OPTIONAL", "NONE">>}}
VerifiedPs == {<<>>} \union {"p" :> v : v \in {Ver!Number(1), Ver!Number(2), Ver!NullValue}
                                             \union {Ver!Text(t) : t \in {"a", "b", "ab", "ba"}}
                                             \union {Ver!Identifier(id) : id \in Ids}}

Property(name, type, collection) == [name |-> "", property |-> name, type |-> type, collection |-> collection]
Queries == {[query_id |-> "q", subqueries |-> <<
               [subquery_id |-> "l", root_subquery_ids |-> roots,
                properties |-> <<Property("k", "INT64", FALSE), Property("w", type, FALSE)>>],
               [subquery_id |-> "m", root_subquery_ids |-> more, properties |-> <<Property("k", "INT64", FALSE)>>]>>] :
              roots \in {<<>>, <<"l">>, <<"m">>, <<"x">>}, more \in {<<>>, <<"l">>}, type \in {"INT64", "STRING"}}

Pairs == {ab \in Results \X Results :
            \/ ab[1].data["l"] = ab[2].data["l"]
            \/ [ab[1].data EXCEPT !["l"] = 0] = [ab[2].data EXCEPT !["l"] = 0]
            \/ "p" \notin DOMAIN ab[2].data}
VerificationInputs ==
  {[kind |-> "compare", a |-> ab[1], b |-> ab[2], verification |-> v] : ab \in Pairs, v \in Verifications}
  \union {[kind |-> "verify", a |-> Result(p), validation |-> vs, requirement |-> r] :
            p \in VerifiedPs, vs \in ValidationLists, r \in Requirements}
  \union {[kind |-> "validate", a |-> Result("l" :> Ver!ListValue(l)), query |-> q] : l \in ItemLists, q \in Queries}

PickVerification == \E x \in VerificationInputs : input' = x /\ UNCHANGED world

Reversed(v) == [v EXCEPT !.data_verify = <<@[2], @[1]>>]
ToVerify == [query_id |-> "q",
             data_verify |-> <<<<"p", [verify |-> [input.requirement EXCEPT !.validation = input.validation],
                                       overrides |-> <<>>]>>>>]
VerifyResult ==
  \/ /\ input.kind = "compare"
     /\ answer' = <<{Ver!CompareQueryResults(x[1], x[2], v) :
                       x \in {<<input.a, input.b>>, <<input.b, input.a>>},
                       v \in {input.verification, Reversed(input.verification)}}>>
  \/ /\ input.kind = "verify"
     /\ answer' = <<{Ver!VerifyQueryResult(input.a, ToVerify)}>>
  \/ /\ input.kind = "validate"
     /\ answer' = <<{[status |-> Ver!ValidateQueryResult(input.query, input.a), errors |-> {}]}>>

-----------------------------------------------------------------------------
(* The reference: what the verifications ask for, without their order. *)

SameP(a, b) ==
  \/ "p" \notin DOMAIN a /\ "p" \notin DOMAIN b
  \/ /\ "p" \in DOMAIN a /\ "p" \in DOMAIN b
     /\ a["p"] # Ver!NullValue /\ Ver!Kind(a["p"]) = Ver!Kind(b["p"])
     /\ IF input.verification.data_verify[1][2] = OnlySmall
        THEN <<a["p"], b["p"]>> \notin {<<Ver!Number(1), Ver!Number(2)>>, <<Ver!Number(2), Ver!Number(1)>>}
        ELSE a["p"] = b["p"] \/ Ver!Kind(a["p"]) = "identifier"
SameL(a, b) ==
  IF input.verification.data_verify[2][2].list_compare.identifiers = <<>> THEN a = b
  ELSE /\ \A l \in {a, b} : \A i, k \in DOMAIN l :
            "k" \in DOMAIN l[i].subquery /\ (i # k => l[i].subquery["k"] # l[k].subquery["k"])
       /\ {a[i] : i \in DOMAIN a} = {b[i] : i \in DOMAIN b}
\* What is true of a text and "b".
TextMeets ==
  "a" :> {"STRING_NOT_CONTAINS", "STRING_NOT_STARTS_WITH", "STRING_NOT_ENDS_WITH", "STRING_NOT_REGEX_MATCH"} @@
  "b" :> {"STRING_CONTAINS", "STRING_STARTS_WITH", "STRING_ENDS_WITH", "STRING_REGEX_MATCH"} @@
  "ab" :> {"STRING_CONTAINS", "STRING_NOT_STARTS_WITH", "STRING_ENDS_WITH", "STRING_REGEX_MATCH"} @@
  "ba" :> {"STRING_CONTAINS", "STRING_STARTS_WITH", "STRING_NOT_ENDS_WITH", "STRING_REGEX_MATCH"}
\* The parts of an identifier that a requirement makes mandatory.
Mandatory == "DEVPATH" :> {"machine_devpath"} @@ "NONE" :> {} @@
             "SUBFRU" :> {"machine_devpath", "embedded_location_context"}
Meets(v, check) ==
  CASE "interval" \in DOMAIN check ->
         v \in {Ver!Number(n) : n \in {m \in 0 .. 2 :
                 /\ check.operands[1].int <= m /\ m <= check.operands[2].int
                 /\ check.interval \in {"OPEN", "OPEN_CLOSED"} => m # check.operands[1].int
                 /\ check.interval \in {"OPEN", "CLOSED_OPEN"} => m # check.operands[2].int}}
    [] "range" \in DOMAIN check /\ check.range = "IN" -> \E i \in DOMAIN check.operands : check.operands[i] = v
    [] "range" \in DOMAIN check ->
         \E i \in DOMAIN check.operands : Ver!Kind(check.operands[i]) = Ver!Kind(v) /\ check.operands[i] # v
    [] OTHER -> \/ check.operation = "LESS_THAN" /\ check.operands = <<Ver!Number(2)>> /\ v = Ver!Number(1)
                \/ \E t \in {"a", "b", "ab", "ba"} : v = Ver!Text(t) /\ check.operation \in TextMeets[t]

\* A verdict is about the results and not about the order in which hash maps
\* are read or the results are given: a comparison passes, with no error and
\* status Ok, exactly when the results agree on everything the verification
\* names (CompareQueryResults); a result passes exactly when every validation
\* and requirement holds of it, whatever stands before or after it in its list
\* (VerifyQueryResult), where NOT_IN asks that some operand differs and an
\* identifier must have the parts a stable id takes; and it is valid for a query
\* exactly when every value stands where the query puts it and has its type
\* (ValidateQueryResult).  Errors carry the URI annotation in force.
VerdictMatchesReference ==
  input.kind \in {"compare", "verify", "validate"} /\ Done =>
    \A outcome \in answer[1] :
      /\ outcome.status = "Ok" /\ outcome.errors = {} <=>
           CASE input.kind = "compare" ->
                  SameP(input.a.data, input.b.data) /\ SameL(input.a.data["l"].list, input.b.data["l"].list)
             [] input.kind = "verify" ->
                  IF "p" \notin DOMAIN input.a.data THEN input.requirement.presence # "REQUIRED"
                  ELSE \E v \in {input.a.data["p"]} :
                         /\ \A i \in DOMAIN input.validation : Meets(v, input.validation[i])
                         /\ Ver!Kind(v) = "identifier" =>
                              Mandatory[input.requirement.stable_id] \subseteq DOMAIN v.identifier
             [] input.kind = "validate" ->
                  \/ /\ input.query.subqueries[1].root_subquery_ids = <<>>
                     /\ input.query.subqueries[1].properties[2].type = "INT64" \/ input.a.data["l"].list = <<>>
                  \/ /\ input.query.subqueries[1].root_subquery_ids = <<"m">>
                     /\ input.query.subqueries[2].root_subquery_ids = <<>>
                     /\ input.a.data["l"].list = <<>>
      /\ input.kind = "compare" => \A e \in outcome.errors : e.uri = "/u"

-----------------------------------------------------------------------------
(* Validation of queries: two or three subqueries that may share ids,      *)
(* names, roots and redpaths.                                              *)

Bare(left, comparator, right) == [left |-> left, comparator |-> comparator, right |-> right]
PathStep(groups) == [groups |-> groups]
RedPaths == {<<PathStep(<<>>)>>, <<PathStep(<<<<Bare("all", "", "")>>>>)>>,
             <<PathStep(<<<<Bare("name", "=", "variable"), Bare("name", "", "")>>>>), PathStep(<<>>)>>,
             <<PathStep(<<<<Bare("name", "<", "value"), Bare("variable", "=", "value")>>>>)>>,
             <<PathStep(<<<<Bare("index", "", "")>>, <<Bare("name", "=", "")>>>>)>>,
             <<PathStep(<<>>), PathStep(<<>>), PathStep(<<>>), PathStep(<<>>), PathStep(<<>>)>>}
Plainly == <<PathStep(<<>>)>>
Asked(id, roots, names, redpath) ==
  [subquery_id |-> id, root_subquery_ids |-> roots, redpath |-> redpath,
   properties |-> [k \in DOMAIN names |-> [name |-> names[k][1], property |-> names[k][2], type |-> "INT64", collection |-> FALSE]]]
NameLists == {<<>>, <<<<"", "m">>>>, <<<<"x", "k">>, <<"", "x">>>>}
QueryTriples ==
  {<<Asked("l", <<>>, first, Plainly), Asked(id, roots, second, Plainly), Asked("m", below, <<<<"m", "k">>>>, Plainly)>> :
     first \in NameLists, id \in {"l", "n"}, roots \in {<<>>, <<"l">>, <<"m">>}, second \in NameLists, below \in {<<>>, <<"l">>, <<"n", "l">>, <<"l", "l">>}}
QueryInputs ==
  {[kind |-> "query", query |-> q] : q \in QueryTriples}
  \union {[kind |-> "query", query |-> <<q[3], q[2], q[1]>>] : q \in QueryTriples}
  \union {[kind |-> "query", query |-> <<Asked("l", <<>>, <<<<"x", "k">>>>, a), Asked("m", <<"l">>, <<>>, b), Asked("n", <<"l">>, <<>>, b)>>] :
            a \in RedPaths, b \in RedPaths}

PickQuery == \E x \in QueryInputs : input' = x /\ UNCHANGED world
Backwards(query) == [i \in DOMAIN query |-> query[Len(query) + 1 - i]]
CheckQuery ==
  /\ input.kind = "query"
  /\ answer' = [issues |-> Ver!ValidateQuery(input.query), backwards |-> Ver!ValidateQuery(Backwards(input.query)),
                paths |-> [i \in DOMAIN input.query |-> Ver!TraverseQueryConfig(input.query, i, {})],
                config |-> Ver!BuildQueryConfigMap(input.query).status]

\* Where the values of a query go in its result: of subqueries and properties.
PathsTo(i) == answer.paths[i].paths
Placed == UNION {{<<PathsTo(i)[n], <<i, 0, n>>>> : n \in DOMAIN PathsTo(i)} : i \in DOMAIN input.query}
          \union UNION {{<<Append(PathsTo(i)[n], Ver!PropertyName(input.query[i].properties[k])), <<i, k, n>>>> :
                           n \in DOMAIN PathsTo(i), k \in DOMAIN input.query[i].properties} : i \in DOMAIN input.query}
Ambiguous == \E p, q \in Placed : p # q /\ p[1] = q[1]
\* Two values of one kind, both of subqueries or both of properties.
AmbiguousAlike == \E p, q \in Placed : p # q /\ p[1] = q[1] /\ (p[2][2] = 0 <=> q[2][2] = 0)
Rooted == \A i \in DOMAIN input.query : answer.paths[i].status = "Ok"
RootsComeFirst ==
  \A i, k \in DOMAIN input.query :
    input.query[k].subquery_id \in J!ToSet(input.query[i].root_subquery_ids) => k < i
IdsDiffer == \A i, k \in DOMAIN input.query : i # k => input.query[i].subquery_id # input.query[k].subquery_id
Types(issues) == {issue.type : issue \in issues}

\* A query that the validator finds no conflict in puts every value of its
\* result in a place of its own, and can be compared with results; and one
\* that it finds a conflict in does not (TestForConflictingIds).  For a property
\* that a subquery hides this takes roots that come before what is below them,
\* with ids of their own: only the first root seen before it is looked at.
\* Warnings do not depend on the order of the subqueries.
ValidQueriesAreUnambiguous ==
  input.kind = "query" /\ Done =>
    /\ Types(answer.issues.warnings) = Types(answer.backwards.warnings)
    /\ Rooted =>
         /\ "kConflictingIds" \in Types(answer.issues.errors) => Ambiguous
         /\ AmbiguousAlike => "kConflictingIds" \in Types(answer.issues.errors)
         /\ Ambiguous /\ RootsComeFirst /\ IdsDiffer => "kConflictingIds" \in Types(answer.issues.errors)
         /\ answer.config # "Ok" => Ambiguous
    /\ answer.issues.errors = {} /\ Rooted /\ RootsComeFirst /\ IdsDiffer => answer.config = "Ok"
    /\ "kDisallowedPredicate" \in Types(answer.issues.errors) <=>
         \E i \in DOMAIN input.query : \E s \in DOMAIN input.query[i].redpath :
           \E p \in J!ToSet(Ver!ParsePredicate(input.query[i].redpath[s])) : p.left = "variable"
=============================================================================
