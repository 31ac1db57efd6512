---------------------------- MODULE QueryResults ----------------------------
(***************************************************************************)
(* The results of queries: what a QueryResult holds, its conversion from   *)
(* the results of the older planner and to and from JSON, and the tools    *)
(* that look values up in it.                                              *)
(*                                                                         *)
(* A QueryValue is a record with one field, named for its kind_case().     *)
(* The fields of a subquery are a function on their names, an identifier   *)
(* has the fields that are set, "" and all, and a timestamp is the name    *)
(* of an instant.                                                          *)
(***************************************************************************)
EXTENDS Integers, Sequences, FiniteSets, SequencesExt, TLC

J == INSTANCE Json

Number(n) == [int |-> n]
Double(n) == [double |-> n]
Text(s) == [string |-> s]
Truth(b) == [bool |-> b]
Timestamp(t) == [timestamp |-> t]
Subquery(fields) == [subquery |-> fields]
ListValue(items) == [list |-> items]
Identifier(id) == [identifier |-> id]
RawString(s) == [raw |-> [raw_string |-> s]]
RawBytes(b) == [raw |-> [raw_bytes |-> b]]
NullValue == [null |-> 0]
KindNotSet == [none |-> 0]

Kind(v) == CHOOSE k \in DOMAIN v : TRUE
\* subquery_value() and list_value(): the empty message when another kind is set.
Fields(v) == IF Kind(v) = "subquery" THEN v.subquery ELSE <<>>
Items(v) == IF Kind(v) = "list" THEN v.list ELSE <<>>

kIdentifierTag == "_id_"
kUriAnnotationTag == "_uri_"
kLocalDevpathTag == "_local_devpath_"
kMachineDevpathTag == "_machine_devpath_"
kEmbeddedLocationContextTag == "_embedded_location_context_"

-----------------------------------------------------------------------------
(* Instants.  "never" is outside what a Timestamp may hold, "early" is an  *)
(* instant whose text the datetime expression does not accept (a year of   *)
(* three digits), and "noon" has two spellings, which end differently.     *)

\* DecodeGoogleApiProto and Validate
Decodes(t) == t # "never"
\* absl::FormatTime, which ends in "+00:00" unless the format says "Z".
FormatTime(t, end) == (CASE t = "early" -> "999-01-01T00:00:00"
                         [] t = "noon" -> "2023-01-01T12:00:00"
                         [] t = "never" -> "10000-01-01T00:00:00") \o end
TimestampStrToTimestamp(text) ==
  IF text \in {"2023-01-01T12:00:00+00:00", "2023-01-01T12:00:00Z"} THEN {"noon"} ELSE {}

-----------------------------------------------------------------------------
(* Builders: operator[] forces the value to be a subquery, append a list.  *)

Put(v, name, x) == Subquery((name :> x) @@ Fields(v))
Append1(v, x) == ListValue(Append(Items(v), x))

\* One property of a data set; a collection appends its values one by one.
\* A property that has no value adds no field.
HasValue(p) == "collection" \in DOMAIN p \/ p.value # KindNotSet
PropertyValue(p) ==
  CASE "collection" \in DOMAIN p -> FoldLeft(LAMBDA acc, x : Append1(acc, x), KindNotSet, p.collection)
    [] OTHER -> p.value

RECURSIVE AddChildSubQuery(_)
\* The value of a subquery: a list with an element for each data set.  Raw data
\* replaces what is there, and the next data set replaces it in turn.
AddChildSubQuery(sets) ==
  IF sets = <<>> THEN KindNotSet
  ELSE \* each data set is added to what the ones before it left
    LET set == Last(sets)
        before == AddChildSubQuery(Front(sets))
        \* has_devpath() && !devpath().empty(), and the decorators likewise
        id == [n \in {m \in DOMAIN set.id : set.id[m] # ""} |-> set.id[n]]
        named == IF DOMAIN id = {} THEN KindNotSet ELSE Put(KindNotSet, kIdentifierTag, Identifier(id))
        annotated == IF set.uri = "" THEN named ELSE Put(named, kUriAnnotationTag, Text(set.uri))
        filled == FoldLeft(LAMBDA v, p : Put(v, p.name, PropertyValue(p)), annotated, SelectSeq(set.properties, HasValue))
    IN CASE set.raw # <<>> -> set.raw[1]
         [] OTHER -> Append1(before,
                       FoldLeft(LAMBDA v, c : Put(v, c[1], AddChildSubQuery(c[2])), filled, set.children))

RpcCodeToQueryResultErrorCode(code) ==
  CASE code \in {"OK", "NOT_FOUND"} -> "ERROR_NONE"
    [] code = "FAILED_PRECONDITION" -> "ERROR_SERVICE_ROOT_UNREACHABLE"
    [] code = "DEADLINE_EXCEEDED" -> "ERROR_NETWORK"
    [] code = "UNAUTHENTICATED" -> "ERROR_UNAUTHENTICATED"
    [] code = "UNAVAILABLE" -> "ERROR_UNAVAILABLE"
    [] OTHER -> "ERROR_INTERNAL"

\* A status without a message is not carried over, whatever its code.
ToQueryResult(in) ==
  [query_id |-> in.query_id,
   error_code |-> IF in.message = "" THEN "ERROR_NONE" ELSE RpcCodeToQueryResultErrorCode(in.code),
   errors |-> IF in.message = "" THEN <<>> ELSE <<in.message>>,
   num_requests |-> FoldLeft(LAMBDA n, m : n + m, 0, in.request_counts),
   start |-> in.start, end |-> in.end,
   data |-> [id \in DOMAIN in.subquery_output_by_id |-> AddChildSubQuery(in.subquery_output_by_id[id])]]

\* The way back to a status, for the callers of an engine.
StatusFromQueryResultStatus(error_code) ==
  CASE error_code = "ERROR_NONE" -> "OK"
    [] error_code \in {"ERROR_NETWORK", "ERROR_QUERY_TIMEOUT"} -> "DEADLINE_EXCEEDED"
    [] error_code = "ERROR_SERVICE_ROOT_UNREACHABLE" -> "FAILED_PRECONDITION"
    [] error_code = "ERROR_UNAUTHENTICATED" -> "UNAUTHENTICATED"
    [] error_code = "ERROR_INTERNAL" -> "INTERNAL"
    [] error_code = "ERROR_UNAVAILABLE" -> "UNAVAILABLE"
    [] error_code = "ERROR_CANCELLED" -> "CANCELLED"

QueryResultHasErrors(result) == result.errors # <<>>
QueryOutputHasErrors(results) == \E id \in DOMAIN results : QueryResultHasErrors(results[id])
GetQueryResult(results, query_id) ==
  CASE DOMAIN results = {} -> <<"FailedPrecondition">>
    [] query_id \notin DOMAIN results -> <<"NotFound">>
    [] QueryResultHasErrors(results[query_id]) -> <<"Internal">>
    [] OTHER -> <<"Ok", results[query_id]>>
\* A time that is not set is <<>>.
GetQueryDuration(result) ==
  IF result.start = <<>> \/ result.end = <<>> \/ result.start[1] > result.end[1] THEN <<"Internal">>
  ELSE <<"Ok", result.end[1] - result.start[1]>>

-----------------------------------------------------------------------------
(* JSON *)

IdentifierTags == [local_devpath |-> kLocalDevpathTag, machine_devpath |-> kMachineDevpathTag,
                   embedded_location_context |-> kEmbeddedLocationContextTag]
\* Mutant of IdentifierValueToJson: the machine devpath only without a local one.
OneDevpathToJson(id) ==
  LET n == CHOOSE m \in DOMAIN IdentifierTags : m \in DOMAIN id
  IN J!Obj([tag \in {IdentifierTags[n]} |-> J!Str(id[n])])

\* What is empty is left out, and so is the Redfish location.
IdentifierValueToJson(id) ==
  LET kept == {n \in DOMAIN id \intersect DOMAIN IdentifierTags : id[n] # ""}
  IN J!Obj([tag \in {IdentifierTags[n] : n \in kept} |-> J!Str(id[CHOOSE n \in kept : IdentifierTags[n] = tag])])

Base64Escape(bytes) == "base64:" \o bytes

RECURSIVE ValueToJson(_)
ValueToJson(v) ==
  CASE Kind(v) = "int" -> J!Num(v.int)
    [] Kind(v) = "double" -> J!Float(v.double)
    [] Kind(v) = "string" -> J!Str(v.string)
    [] Kind(v) = "bool" -> J!Bool(v.bool)
    [] Kind(v) = "timestamp" -> IF Decodes(v.timestamp) THEN J!Str(FormatTime(v.timestamp, "+00:00")) ELSE J!Null
    [] Kind(v) = "subquery" -> J!Obj([n \in DOMAIN v.subquery |-> ValueToJson(v.subquery[n])])
    [] Kind(v) = "list" -> J!Arr([i \in DOMAIN v.list |-> ValueToJson(v.list[i])])
    [] Kind(v) = "identifier" -> IdentifierValueToJson(v.identifier)
    [] Kind(v) = "raw" -> J!Str(IF "raw_string" \in DOMAIN v.raw THEN v.raw.raw_string
                                ELSE Base64Escape(v.raw.raw_bytes))
    [] Kind(v) = "null" -> J!Null
    [] Kind(v) = "none" -> J!Obj(<<>>)
QueryResultDataToJson(fields) == ValueToJson(Subquery(fields))

\* The identifier an object spells, if it has one of the three names.
JsonToIdentifierValue(j) ==
  LET named == {n \in DOMAIN IdentifierTags : J!Has(j, IdentifierTags[n])}
  IN IF named = {} THEN {} ELSE {[n \in named |-> J!Field(j, IdentifierTags[n]).string]}

RECURSIVE JsonToQueryValue(_)
JsonToQueryValue(j) ==
  CASE J!Tag(j) = "null" -> NullValue
    [] J!Tag(j) = "int" -> Number(j.int)
    [] J!Tag(j) = "float" -> Double(j.float)
    [] J!IsString(j) -> IF TimestampStrToTimestamp(j.string) = {} THEN Text(j.string)
                        ELSE Timestamp(CHOOSE t \in TimestampStrToTimestamp(j.string) : TRUE)
    [] J!Tag(j) = "bool" -> Truth(j.bool)
    [] J!IsObject(j) -> IF JsonToIdentifierValue(j) = {}
                        THEN Subquery([n \in DOMAIN j.object |-> JsonToQueryValue(j.object[n])])
                        ELSE Identifier(CHOOSE id \in JsonToIdentifierValue(j) : TRUE)
    [] J!IsArray(j) -> ListValue([i \in DOMAIN j.array |-> JsonToQueryValue(j.array[i])])
JsonToQueryResultData(j) ==
  IF J!IsObject(j) THEN [n \in DOMAIN j.object |-> JsonToQueryValue(j.object[n])] ELSE <<>>

-----------------------------------------------------------------------------
(* Readers *)

\* QueryValueReader::Get
Get(v, key) ==
  CASE Kind(v) # "subquery" -> <<"Internal">>
    [] key \notin DOMAIN v.subquery -> <<"NotFound">>
    [] OTHER -> <<"Ok", v.subquery[key]>>
\* GetStringValue, GetIntValue, GetDoubleValue, GetBoolValue, GetIdentifier
GetOfKind(v, key, kind) ==
  LET got == Get(v, key)
  IN CASE got[1] # "Ok" -> got
       [] Kind(got[2]) # kind -> <<"InvalidArgument">>
       [] OTHER -> <<"Ok", got[2][kind]>>

-----------------------------------------------------------------------------
(* The data of one resource *)

DataHas(v, id) == kIdentifierTag \in DOMAIN Fields(v) /\ Fields(v)[kIdentifierTag] = Identifier(id)

RECURSIVE GetDataForIdentifier(_, _)
\* The subqueries with the identifier, not the ones inside of them.
GetDataForIdentifier(v, id) ==
  CASE Kind(v) = "subquery" /\ DataHas(v, id) -> {v}
    [] Kind(v) = "subquery" -> UNION {GetDataForIdentifier(v.subquery[n], id) : n \in DOMAIN v.subquery}
    [] Kind(v) = "list" -> UNION {GetDataForIdentifier(v.list[i], id) : i \in DOMAIN v.list}
    [] OTHER -> {}

RECURSIVE RemoveDataForIdentifier(_, _)
\* Whether something was removed, and the value left: a subquery that is removed
\* stays behind as a value of no kind.  An identifier that matches counts as
\* removed wherever it stands.
RemoveDataForIdentifier(v, id) ==
  CASE Kind(v) = "subquery" /\ DataHas(v, id) -> [removed |-> TRUE, left |-> KindNotSet]
    [] Kind(v) = "subquery" ->
         LET after == [n \in DOMAIN v.subquery |-> RemoveDataForIdentifier(v.subquery[n], id)]
         IN [removed |-> \E n \in DOMAIN after : after[n].removed,
             left |-> Subquery([n \in DOMAIN after |-> after[n].left])]
    [] Kind(v) = "list" ->
         LET after == [i \in DOMAIN v.list |-> RemoveDataForIdentifier(v.list[i], id)]
         IN [removed |-> \E i \in DOMAIN after : after[i].removed,
             left |-> ListValue([i \in DOMAIN after |-> after[i].left])]
    [] OTHER -> [removed |-> v = Identifier(id), left |-> v]

-----------------------------------------------------------------------------
(* Paths.  A path is a query id and parts, each a name or a selector in    *)
(* brackets that follows a name: an index or a list of <<name, text>>.     *)

QueryValueToString(v) ==
  CASE Kind(v) = "string" -> <<v.string>>
    [] Kind(v) = "int" -> <<ToString(v.int)>>
    [] Kind(v) = "double" -> <<ToString(v.double)>>
    [] Kind(v) = "timestamp" -> <<FormatTime(v.timestamp, "Z")>>
    [] Kind(v) = "bool" -> <<IF v.bool THEN "true" ELSE "false">>
    [] Kind(v) = "identifier" /\ DOMAIN v.identifier \intersect {"local_devpath", "machine_devpath"} # {} ->
         <<"identifier">> \o (IF "local_devpath" \in DOMAIN v.identifier THEN <<v.identifier.local_devpath>> ELSE <<>>)
                          \o (IF "machine_devpath" \in DOMAIN v.identifier THEN <<v.identifier.machine_devpath>> ELSE <<>>)
    [] OTHER -> <<>>

CompareListIdentifier(item, match) ==
  \A i \in DOMAIN match :
    match[i][1] \in DOMAIN Fields(item) /\ QueryValueToString(Fields(item)[match[i][1]]) = <<match[i][2]>>

\* The position of the element that a selector names, 0 for none.
Selected(items, part) ==
  IF "index" \in DOMAIN part THEN IF part.index + 1 \in DOMAIN items THEN part.index + 1 ELSE 0
  ELSE LET matching == {i \in DOMAIN items : CompareListIdentifier(items[i], part.match)}
       IN IF matching = {} THEN 0 ELSE Min(matching)

RECURSIVE ProcessNextMutableQueryValue(_, _, _)
\* Follows the parts from a value: what is there and, if the last part is to be
\* removed, the value without it.
ProcessNextMutableQueryValue(v, parts, remove) ==
  IF parts = <<>> THEN [status |-> "Ok", found |-> v, left |-> v]
  ELSE LET part == Head(parts)
           last == Len(parts) = 1
           at == IF Kind(v) = "list" /\ "name" \notin DOMAIN part THEN Selected(v.list, part) ELSE 0
           failed(status) == [status |-> status, found |-> v, left |-> v]
       IN CASE Kind(v) \notin {"subquery", "list"} -> failed("InvalidArgument")
            [] Kind(v) = "subquery" /\ "name" \in DOMAIN part ->
                 IF part.name \notin DOMAIN v.subquery THEN failed("NotFound")
                 ELSE LET next == ProcessNextMutableQueryValue(v.subquery[part.name], Tail(parts), remove)
                      IN [next EXCEPT !.left =
                            IF remove /\ last
                            THEN Subquery([n \in DOMAIN v.subquery \ {part.name} |-> v.subquery[n]])
                            ELSE Subquery([v.subquery EXCEPT ![part.name] = next.left])]
            [] at # 0 ->
                 LET next == ProcessNextMutableQueryValue(v.list[at], Tail(parts), remove)
                 IN [next EXCEPT !.left = ListValue(IF remove /\ last THEN RemoveAt(v.list, at)
                                                    ELSE [v.list EXCEPT ![at] = next.left])]
            [] OTHER -> failed("NotFound")

\* SplitPath and the split at '[': a part with a selector is two parts.
SplitPath(path) == FlattenSeq([i \in DOMAIN path |->
  IF path[i].at = <<>> THEN <<[name |-> path[i].name]>> ELSE <<[name |-> path[i].name], path[i].at[1]>>])

\* The first part is looked up and never removed, even when it is the last.
ProcessQueryValueFromResult(result, query_id, path, remove) ==
  LET parts == SplitPath(path)
      failed(status) == [status |-> status, found |-> KindNotSet, left |-> Subquery(result.data)]
  IN CASE query_id # result.query_id \/ parts = <<>> \/ DOMAIN result.data = {} -> failed("InvalidArgument")
       [] parts[1].name \notin DOMAIN result.data -> failed("NotFound")
       [] OTHER ->
            LET next == ProcessNextMutableQueryValue(result.data[parts[1].name], Tail(parts), remove)
            IN [next EXCEPT !.left = Subquery([result.data EXCEPT ![parts[1].name] = next.left])]
GetQueryValueFromResult(result, query_id, path) == ProcessQueryValueFromResult(result, query_id, path, FALSE)
RemoveQueryValueFromResult(result, query_id, path) == ProcessQueryValueFromResult(result, query_id, path, TRUE)
=============================================================================
