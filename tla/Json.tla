-------------------------------- MODULE Json --------------------------------
(***************************************************************************)
(* JSON documents.  A value is a record with one field, named for its type *)
(* (nlohmann::json::type()), so that values of different types compare.    *)
(* An object maps names to values.  A string that is a URI is kept apart   *)
(* as a record of the segments of its path and of the JSON pointer that    *)
(* follows '#'; numbers are integers or, for floats, integers in tenths.   *)
(***************************************************************************)
EXTENDS Integers, Sequences, FiniteSets, SequencesExt

Str(s) == [string |-> s]
Uri(path) == [uri |-> [path |-> path, pointer |-> <<>>]]
UriAt(path, pointer) == [uri |-> [path |-> path, pointer |-> pointer]]
Num(n) == [int |-> n]
Float(tenths) == [float |-> tenths]
Bool(b) == [bool |-> b]
Arr(s) == [array |-> s]
Obj(f) == [object |-> f]
Null == [null |-> 0]
Discarded == [discarded |-> 0]

Tag(j) == CHOOSE t \in DOMAIN j : TRUE
\* json.type()
Type(j) == IF Tag(j) = "uri" THEN "string" ELSE Tag(j)

IsObject(j) == Tag(j) = "object"
IsArray(j) == Tag(j) = "array"
IsString(j) == Type(j) = "string"
IsNumber(j) == Tag(j) \in {"int", "float"}

\* json.contains(name), which is false unless json is an object.
Has(j, name) == IsObject(j) /\ name \in DOMAIN j.object
Field(j, name) == j.object[name]

\* json.size(): 0 for null, 1 for every other scalar.
Size(j) ==
  CASE IsObject(j) -> Cardinality(DOMAIN j.object)
    [] IsArray(j) -> Len(j.array)
    [] Tag(j) = "null" -> 0
    [] OTHER -> 1

WithField(j, name, value) ==
  Obj([n \in DOMAIN j.object \union {name} |-> IF n = name THEN value ELSE j.object[n]])
WithoutField(j, name) == Obj([n \in DOMAIN j.object \ {name} |-> j.object[n]])
WithElement(j, i, value) == Arr([j.array EXCEPT ![i] = value])

\* GetObjectUri: an object with a string for its @odata.id.
HasUri(j) == Has(j, "@odata.id") /\ IsString(Field(j, "@odata.id"))
UriOf(j) == Field(j, "@odata.id").uri
Reference(uri) == Obj([n \in {"@odata.id"} |-> uri])
=============================================================================
