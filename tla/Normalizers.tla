---------------------------- MODULE Normalizers ----------------------------
(***************************************************************************)
(* The normalizers of both planners: what of a Redfish object goes into    *)
(* the data set of a subquery, and the identifiers that are added to it.   *)
(*                                                                         *)
(* A requested property is [name, text, from, type, collection, nullable]: *)
(* name is "" when the client gives none, from is text as segments.  The   *)
(* older normalizer fills a data set [properties, devpath, location,       *)
(* decorators, uri], the newer one the fields of a subquery.  An assigner  *)
(* maps local devpaths and locations to machine devpaths; derived is the   *)
(* devpath the node topology has for the object, <<>> for none.            *)
(***************************************************************************)
EXTENDS Integers, Sequences, FiniteSets, SequencesExt, TLC

J == INSTANCE Json
QR == INSTANCE QueryResults
PR == INSTANCE Predicates

Ok(value) == [status |-> "ok", value |-> value]
Fails(status) == [status |-> status]

\* absl::ParseTime; AbslTimeToProtoTime refuses some instants.
ParseTime(s) == QR!TimestampStrToTimestamp(s)

-----------------------------------------------------------------------------
(* One property *)

Fits(j, type) ==
  CASE type \in {"string", "date"} -> J!IsString(j)
    [] type = "bool" -> J!Tag(j) = "bool"
    [] type \in {"int", "double"} -> J!IsNumber(j)
    [] OTHER -> TRUE

Tenths(j) == IF J!Tag(j) = "int" THEN 10 * j.int ELSE j.float
\* A date that does not parse, and a type that is not known, leave no value.
DateValue(instants) == IF instants = {} THEN QR!KindNotSet ELSE QR!Timestamp(CHOOSE t \in instants : TRUE)
ScalarValue(j, type) ==
  CASE type = "string" -> QR!Text(j.string)
    [] type = "bool" -> QR!Truth(j.bool)
    [] type = "double" -> QR!Double(Tenths(j))
    [] type = "int" -> QR!Number(PR!Truncated(Tenths(j)))
    [] type = "date" -> DateValue(ParseTime(j.string))
    [] OTHER -> QR!KindNotSet

\* The values of the elements, those that leave none left out.
ElementValues(items, type) ==
  SelectSeq([i \in DOMAIN items |-> ScalarValue(items[i], type)], LAMBDA v : v # QR!KindNotSet)

AllFit(items, type) == \A i \in DOMAIN items : Fits(items[i], type)
LeadingFits(items, type) ==
  SubSeq(items, 1, Cardinality({k \in DOMAIN items : AllFit(SubSeq(items, 1, k), type)}))

Found(j, p) == PR!ResolveRedPathNodeToJson(j, p.from)

\* The older planner: an element of another type throws, but dates stop there.
\* A property without a value is still a property.
ValuesOrNone(values) == IF values = <<>> THEN QR!KindNotSet ELSE QR!ListValue(values)
GetCollectionProperty(j, p) ==
  IF ~J!IsArray(j) THEN Fails("invalid")
  ELSE IF p.type # "date" /\ ~AllFit(j.array, p.type) THEN Fails("throws")
  ELSE Ok(ValuesOrNone(ElementValues(LeadingFits(j.array, p.type), p.type)))
GetScalarProperty(j, p) ==
  IF J!Tag(j) = "null" THEN Ok(QR!KindNotSet)
  ELSE IF ~Fits(j, p.type) THEN Fails("invalid") ELSE Ok(ScalarValue(j, p.type))
PropertyFrom(found, p) ==
  IF found.status # "ok" THEN found
  ELSE IF p.collection THEN GetCollectionProperty(found.value, p) ELSE GetScalarProperty(found.value, p)
GetProperty(content, p) == PropertyFrom(Found(content, p), p)

\* The newer planner: every element must fit, null is a value only if nullable,
\* and what has no value is invalid.
MustBeSet(value) == IF value = QR!KindNotSet THEN Fails("invalid") ELSE Ok(value)
RedpathCollectionProperty(j, p) ==
  IF J!Size(j) = 0 THEN Fails("notfound")
  ELSE IF ~J!IsArray(j) \/ ~AllFit(j.array, p.type) THEN Fails("invalid")
  ELSE MustBeSet(ValuesOrNone(ElementValues(j.array, p.type)))
RedpathScalarProperty(j, p) ==
  IF J!Tag(j) = "null" THEN IF p.nullable THEN Ok(QR!NullValue) ELSE Fails("notfound")
  ELSE IF ~Fits(j, p.type) THEN Fails("invalid") ELSE MustBeSet(ScalarValue(j, p.type))
RedpathPropertyFrom(found, p) ==
  IF found.status # "ok" THEN found
  ELSE IF p.collection THEN RedpathCollectionProperty(found.value, p) ELSE RedpathScalarProperty(found.value, p)
RedpathProperty(content, p) == RedpathPropertyFrom(Found(content, p), p)

PropertyName(p) == IF p.name # "" THEN p.name ELSE p.text

-----------------------------------------------------------------------------
(* Where an object is.  Four places may say it; the last one that does     *)
(* counts.                                                                 *)

Segments(names) == [i \in DOMAIN names |-> [name |-> names[i], index |-> -1]]
Places == <<<<"Location">>, <<"PhysicalLocation">>, <<"Oem", "Google", "Location">>, <<"Oem", "Google", "PhysicalLocation">>>>
LocationNames ==
  [service_label |-> <<"PartLocation", "ServiceLabel">>, part_location_context |-> <<"PartLocationContext">>,
   embedded_location_context |-> <<"Oem", "Google", "EmbeddedLocationContext">>, devpath |-> <<"Oem", "Google", "Devpath">>]
AdditionalProperty(what, place) ==
  [name |-> what, text |-> what, from |-> Segments(Places[place] \o LocationNames[what]),
   type |-> "string", collection |-> FALSE, nullable |-> FALSE]

Saying(got) == {i \in DOMAIN got : got[i].status = "ok"}
\* Mutant of Counts: the first place that says it counts.
FirstCounts(i, places) == \A k \in places : i <= k
Counts(i, places) == \A k \in places : i >= k
LastOf(got, places) == IF places = {} THEN <<>> ELSE <<got[CHOOSE i \in places : Counts(i, places)].value>>

\* string_value(), which is empty when another kind is set, or none.
StringValue(v) == IF QR!Kind(v) = "string" THEN v.string ELSE ""
Said(got) == LET last == LastOf(got, Saying(got)) IN [i \in DOMAIN last |-> StringValue(last[i])]
\* The parts of a location that are set.
SetOnly(location) == [what \in {w \in DOMAIN location : location[w] # <<>>} |-> location[what][1]]

\* Root devpath is assigned to a Chassis without a location.
IsChassis(content) ==
  J!Has(content, "@odata.type") /\ J!Field(content, "@odata.type") = J!Str("#Chassis.")
ValueOr(f, name) == IF name \in DOMAIN f THEN f[name] ELSE ""
NoLocation(location) == ValueOr(location, "service_label") = "" /\ ValueOr(location, "part_location_context") = ""

\* id_assigner_devpath.cc knows local devpaths only.
IdForLocalDevpath(assigner, devpath) ==
  IF devpath # "" /\ devpath \in DOMAIN assigner.local THEN <<assigner.local[devpath]>> ELSE <<>>
IdForRedfishLocation(assigner, location, is_root) ==
  LET key == IF is_root THEN <<>> ELSE <<ValueOr(location, "service_label"), ValueOr(location, "part_location_context")>> IN
  IF key \in DOMAIN assigner.location THEN <<assigner.location[key]>> ELSE <<>>

-----------------------------------------------------------------------------
(* The older planner's chain *)

OlderLocation(content) ==
  SetOnly([what \in DOMAIN LocationNames |->
             Said([i \in DOMAIN Places |-> GetProperty(content, AdditionalProperty(what, i))])])
WithoutDevpath(said) == [what \in DOMAIN said \ {"devpath"} |-> said[what]]

\* The first error that ends the normalization, 0 for none.
Fatal(got) == SelectInSeq(got, LAMBDA g : g.status \in {"invalid", "throws"})
DevpathOf(said) == IF "devpath" \in DOMAIN said THEN <<said.devpath>> ELSE <<>>
NewDataSet(properties, said, uri) ==
  [properties |-> properties, devpath |-> DevpathOf(said), location |-> WithoutDevpath(said), decorators |-> <<>>, uri |-> uri]
UriIn(content) == IF J!HasUri(content) THEN J!Field(content, "@odata.id").string ELSE ""
Kept(got, properties) ==
  LET ok == SelectSeq([i \in DOMAIN got |-> i], LAMBDA i : got[i].status = "ok") IN
  [n \in DOMAIN ok |-> [name |-> PropertyName(properties[ok[n]]), value |-> got[ok[n]].value]]
DataSetFrom(content, properties, got, annotate) ==
  IF Fatal(got) # 0 THEN got[Fatal(got)]
  ELSE Ok(NewDataSet(Kept(got, properties), OlderLocation(content), IF annotate THEN UriIn(content) ELSE ""))
Normalize(content, properties, annotate) ==
  DataSetFrom(content, properties, [i \in DOMAIN properties |-> GetProperty(content, properties[i])], annotate)

AddDevpath(set, derived) == IF set.devpath # <<>> THEN set ELSE [set EXCEPT !.devpath = derived]

EmbeddedOnly(location) ==
  [what \in {w \in DOMAIN location : w = "embedded_location_context" /\ location[w] # ""} |-> location[what]]
\* The location first, then the local devpath; or the local devpath alone.
MachineDevpath(set, assigner, is_root, local_only) ==
  LET local == IF set.devpath = <<>> THEN <<>> ELSE IdForLocalDevpath(assigner, set.devpath[1])
      located == IdForRedfishLocation(assigner, set.location, is_root)
  IN  IF local_only \/ located = <<>> THEN local ELSE located
WithMachineDevpath(decorators, id) ==
  IF id = <<>> THEN decorators ELSE ("machine_devpath" :> id[1]) @@ decorators
AddMachineBarepath(content, set, assigner, local_only) ==
  [set EXCEPT !.decorators =
     WithMachineDevpath(EmbeddedOnly(set.location) @@ @,
       MachineDevpath(set, assigner, IsChassis(content) /\ NoLocation(set.location), local_only))]

\* stack: "plain", "local" (with the node topology), "devpath3", "devpath2".
Local(stack) == stack \in {"local", "devpath2"}
Machine(stack) == stack \in {"devpath2", "devpath3"}
MachineStep(content, set, stack, assigner) ==
  IF Machine(stack) THEN AddMachineBarepath(content, set, assigner, stack = "devpath2") ELSE set
NotEmpty(set) == IF set.properties = <<>> /\ set.devpath = <<>> THEN Fails("notfound") ELSE Ok(set)
Chain(content, first, stack, derived, assigner) ==
  IF first.status # "ok" THEN first
  ELSE NotEmpty(MachineStep(content, IF Local(stack) THEN AddDevpath(first.value, derived) ELSE first.value, stack, assigner))
NormalizeChain(content, properties, annotate, stack, derived, assigner) ==
  Chain(content, Normalize(content, properties, annotate), stack, derived, assigner)

-----------------------------------------------------------------------------
(* The newer planner's chain *)

NewerLocation(content) ==
  [what \in DOMAIN LocationNames |-> [i \in DOMAIN Places |-> RedpathProperty(content, AdditionalProperty(what, i))]]
LocationIsInvalid(got) == \E what \in DOMAIN got, i \in DOMAIN Places : got[what][i].status = "invalid"

IdentifierOf(fields) ==
  IF QR!kIdentifierTag \in DOMAIN fields THEN fields[QR!kIdentifierTag].identifier ELSE <<>>
WithIdentifier(fields, id) == (QR!kIdentifierTag :> QR!Identifier(id)) @@ fields
IsRootChassis(content, fields) == IsChassis(content) /\ NoLocation(IdentifierOf(fields))

\* IsRootChassis is asked before the location is in the data set.
NewIdentifier(content, fields, said) ==
  (IF IsRootChassis(content, fields) THEN "is_root" :> TRUE ELSE <<>>)
    @@ WithoutDevpath(said) @@ (IF "devpath" \in DOMAIN said THEN "local_devpath" :> said.devpath ELSE <<>>)

Annotated(content, fields) ==
  IF J!Has(content, "@odata.id") THEN (QR!kUriAnnotationTag :> QR!Text(J!Field(content, "@odata.id").string)) @@ fields
  ELSE fields

FieldsFrom(got, properties) ==
  FoldLeft(LAMBDA f, k : (k.name :> k.value) @@ f, <<>>, Kept(got, properties))
Identified(fields, id) == IF DOMAIN id = {} THEN fields ELSE WithIdentifier(fields, id)
WithLocation(content, fields, located) ==
  IF LocationIsInvalid(located) THEN Fails("invalid")
  ELSE Ok(Identified(fields, NewIdentifier(content, fields, SetOnly([what \in DOMAIN located |-> Said(located[what])]))))
WithAnnotation(content, got) == IF got.status = "ok" THEN Ok(Annotated(content, got.value)) ELSE got
RedpathDataFrom(content, properties, got, annotate) ==
  IF Fatal(got) # 0 THEN got[Fatal(got)]
  ELSE LET located == WithLocation(content, FieldsFrom(got, properties), NewerLocation(content)) IN
       IF annotate THEN WithAnnotation(content, located) ELSE located
RedpathNormalize(content, properties, annotate) ==
  RedpathDataFrom(content, properties, [i \in DOMAIN properties |-> RedpathProperty(content, properties[i])], annotate)

RedpathAddDevpath(fields, derived) ==
  IF "local_devpath" \in DOMAIN IdentifierOf(fields) \/ derived = <<>> THEN fields
  ELSE WithIdentifier(fields, ("local_devpath" :> derived[1]) @@ IdentifierOf(fields))

\* The local devpath first, then the location; the answer is not to be empty.
NoId == {<<>>, <<"">>}
LocalId(id, assigner) == IF "local_devpath" \in DOMAIN id THEN IdForLocalDevpath(assigner, id.local_devpath) ELSE <<>>
RedpathMachineDevpath(id, assigner, is_root, fallback) ==
  LET local == LocalId(id, assigner) IN
  IF local \notin NoId \/ ~fallback THEN local ELSE IdForRedfishLocation(assigner, id, is_root)
WithMachine(fields, id, machine, is_root) ==
  IF machine \notin NoId THEN WithIdentifier(fields, ("machine_devpath" :> machine[1]) @@ id)
  ELSE IF is_root THEN WithIdentifier(fields, id) ELSE fields
BarepathFor(fields, id, is_root, assigner, fallback) ==
  WithMachine(fields, id, RedpathMachineDevpath(id, assigner, is_root, fallback), is_root)
RedpathAddMachineBarepath(content, fields, assigner, fallback) ==
  BarepathFor(fields, IdentifierOf(fields), IsRootChassis(content, fields), assigner, fallback)

RedpathMachineStep(content, fields, stack, assigner) ==
  IF Machine(stack) THEN RedpathAddMachineBarepath(content, fields, assigner, stack = "devpath3") ELSE fields
HasFields(fields) == IF DOMAIN fields = {} THEN Fails("notfound") ELSE Ok(fields)
RedpathChain(content, first, stack, derived, assigner) ==
  IF first.status # "ok" THEN first
  ELSE HasFields(RedpathMachineStep(content,
         IF Local(stack) THEN RedpathAddDevpath(first.value, derived) ELSE first.value, stack, assigner))
RedpathNormalizeChain(content, properties, annotate, stack, derived, assigner) ==
  RedpathChain(content, RedpathNormalize(content, properties, annotate), stack, derived, assigner)
=============================================================================
