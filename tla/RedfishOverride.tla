--------------------------- MODULE RedfishOverride ---------------------------
(***************************************************************************)
(* How an override policy edits the answers of a Redfish service           *)
(* (transport_with_override.cc, struct_proto_conversion.cc).               *)
(*                                                                         *)
(* A policy is [uri, regex]: uri maps paths to sequences of edits, regex   *)
(* is a sequence of [paths, edits], paths being the URIs that the regular  *)
(* expression matches (those that do not compile are left out, in          *)
(* SetOverridePolicyOnce).  An edit is                                     *)
(*   [action, at, value, is_expand]                                        *)
(* where at is a sequence of identifiers, [field |-> name],                *)
(* [array_field |-> [name, value]] or [array_idx |-> n], and value is <<>> *)
(* if the override_value is not set, <<"reading">> or <<"value", v>>.      *)
(***************************************************************************)
EXTENDS Json

\* What an edit of a document returns: its status and the document.
Kept(status, j) == [status |-> status, json |-> j]
Edited(j) == [status |-> "Ok", json |-> j]

RECURSIVE ValueToJson(_)
\* google.protobuf.Value has one type of number, double, so an integer of the
\* policy is a float in JSON.  StructToJson, ListValueToJson.
ValueToJson(value) ==
  CASE Tag(value) = "int" -> Float(10 * value.int)
    [] IsArray(value) -> Arr([i \in DOMAIN value.array |-> ValueToJson(value.array[i])])
    [] IsObject(value) -> Obj([n \in DOMAIN value.object |-> ValueToJson(value.object[n])])
    [] OTHER -> value

\* json == json: numbers are compared as numbers.
Tenths(j) == IF Tag(j) = "int" THEN 10 * j.int ELSE j.float
Equal(j, k) == IF IsNumber(j) /\ IsNumber(k) THEN Tenths(j) = Tenths(k) ELSE j = k

\* The override_value of an edit, or why there is none.
ValueStatus(edit) ==
  CASE edit.value = <<>> -> "InvalidArgument"
    [] Len(edit.value) = 1 -> "Unimplemented"
    [] OTHER -> "Ok"
NewValue(edit) == ValueToJson(edit.value[2])

JsonReplace(j, edit) ==
  IF ValueStatus(edit) # "Ok" THEN Kept(ValueStatus(edit), j)
  ELSE IF Type(j) # Type(NewValue(edit)) THEN Kept("InvalidArgument", j)
  ELSE Edited(NewValue(edit))

\* A field is added to an object or, if it is an array, one element to it; a
\* value other than an object or null has no fields to add to, and operator[]
\* throws.
JsonAdd(j, at, edit) ==
  CASE ValueStatus(edit) # "Ok" -> Kept(ValueStatus(edit), j)
    [] "field" \in DOMAIN at ->
         IF Has(j, at.field)
         THEN IF IsArray(Field(j, at.field))
              THEN Edited(WithField(j, at.field, Arr(Append(Field(j, at.field).array, NewValue(edit)))))
              ELSE Kept("InvalidArgument", j)
         ELSE IF IsObject(j) THEN Edited(WithField(j, at.field, NewValue(edit)))
         ELSE IF Tag(j) = "null" THEN Edited(Obj([n \in {at.field} |-> NewValue(edit)]))
         ELSE Kept("throws", j)
    [] "array_idx" \in DOMAIN at ->
         IF IsArray(j) /\ at.array_idx \in 0 .. Len(j.array) - 1 /\ IsArray(j.array[at.array_idx + 1])
         THEN Edited(WithElement(j, at.array_idx + 1, Arr(Append(j.array[at.array_idx + 1].array, NewValue(edit)))))
         ELSE Kept("InvalidArgument", j)
    [] OTHER -> Kept("InvalidArgument", j)

\* The first element of an array that has the field with the value, or 0.
FirstWith(j, field) ==
  LET found == {i \in DOMAIN j.array : /\ Has(j.array[i], field.name)
                                       /\ Equal(Field(j.array[i], field.name), ValueToJson(field.value))}
  IN  IF found = {} THEN 0 ELSE CHOOSE i \in found : \A k \in found : i <= k

JsonClear(j, at) ==
  CASE "field" \in DOMAIN at ->
         IF ~IsObject(j) THEN Kept("InvalidArgument", j)
         ELSE IF ~Has(j, at.field) THEN Kept("NotFound", j)
         ELSE Edited(WithoutField(j, at.field))
    [] "array_field" \in DOMAIN at ->
         IF IsArray(j) /\ FirstWith(j, at.array_field) # 0
         THEN Edited(Arr(RemoveAt(j.array, FirstWith(j, at.array_field))))
         ELSE Kept("InvalidArgument", j)
    [] "array_idx" \in DOMAIN at ->
         IF IsArray(j) /\ at.array_idx \in 0 .. Len(j.array) - 1
         THEN Edited(Arr(RemoveAt(j.array, at.array_idx + 1)))
         ELSE Kept("InvalidArgument", j)

RECURSIVE FindObjectAndAct(_, _, _)

\* Replace acts on what the whole identifier leads to, add and clear on what
\* all of it but the last leads to.
FindObjectAndAct(j, at, edit) ==
  LET id == Head(at)
      below(k) == FindObjectAndAct(k, Tail(at), edit)
      element(i) == [below(j.array[i]) EXCEPT !.json = WithElement(j, i, @)]
  IN  CASE edit.action = "replace" /\ at = <<>> -> JsonReplace(j, edit)
        [] edit.action = "add" /\ Len(at) = 1 -> JsonAdd(j, id, edit)
        [] edit.action = "clear" /\ Len(at) = 1 -> JsonClear(j, id)
        [] OTHER ->
             CASE "field" \in DOMAIN id ->
                    IF Has(j, id.field)
                    THEN [below(Field(j, id.field)) EXCEPT !.json = WithField(j, id.field, @)]
                    ELSE Kept("InvalidArgument", j)
               [] "array_field" \in DOMAIN id ->
                    IF IsArray(j) /\ FirstWith(j, id.array_field) # 0
                    THEN element(FirstWith(j, id.array_field)) ELSE Kept("InvalidArgument", j)
               [] "array_idx" \in DOMAIN id ->
                    IF IsArray(j) /\ id.array_idx \in 0 .. Len(j.array) - 1
                    THEN element(id.array_idx + 1) ELSE Kept("InvalidArgument", j)

ResultUpdateHelper(edit, j) ==
  IF edit.action \in {"replace", "add", "clear"} THEN FindObjectAndAct(j, edit.at, edit)
  ELSE Kept("InvalidArgument", j)

\* The edits of a policy for the resource with this URI, in order: those of its
\* URI that are not for $expand only, then those of every regular expression.
EditsFor(policy, uri) ==
  (IF uri \in DOMAIN policy.uri THEN SelectSeq(policy.uri[uri], LAMBDA e : ~e.is_expand) ELSE <<>>)
  \o FlattenSeq([i \in DOMAIN policy.regex |->
       IF uri \in policy.regex[i].paths THEN policy.regex[i].edits ELSE <<>>])

\* An edit that fails is logged and the next one tried.
Apply(j, edits) == FoldLeft(LAMBDA k, edit : ResultUpdateHelper(edit, k).json, j, edits)

\* Mutant of ResultExpandUpdateHelper: resources inside the answer are left alone.
OutermostOnly(policy, j) == IF Has(j, "@odata.id") THEN Apply(j, EditsFor(policy, UriOf(j).path)) ELSE j

RECURSIVE ResultExpandUpdateHelper(_, _)

\* Every resource in the answer, outermost first.  No value of a JSON document
\* is met twice, so the set of visited ones never stops the descent.
ResultExpandUpdateHelper(policy, j) ==
  LET k == IF Has(j, "@odata.id") THEN Apply(j, EditsFor(policy, UriOf(j).path)) ELSE j
      below(v) == ResultExpandUpdateHelper(policy, v)
  IN  CASE Size(j) = 1 -> j
        [] IsObject(k) -> Obj([n \in DOMAIN k.object |-> below(k.object[n])])
        [] IsArray(k) -> Arr([i \in DOMAIN k.array |-> below(k.array[i])])
        [] OTHER -> k

\* TryApplyingOverride, once the policy is there; bytes are left alone.
TryApplyingOverride(policy, answer) ==
  IF answer.code = 0 \/ Tag(answer.body) = "bytes" THEN answer
  ELSE [answer EXCEPT !.body = ResultExpandUpdateHelper(policy, @)]
=============================================================================
