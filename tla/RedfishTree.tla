----------------------------- MODULE RedfishTree -----------------------------
(***************************************************************************)
(* A Redfish service as its clients see it through RedfishInterface: one   *)
(* tree, in which a reference is the document it refers to.  That          *)
(* HttpRedfishInterface implements this view is what RedfishNavigation is  *)
(* checked for.  docs maps the URIs that are served to their documents;    *)
(* nothing is read from those that are not.                                *)
(***************************************************************************)
EXTENDS Json, TLC

Fetch(docs, uri) == IF uri \in DOMAIN docs THEN docs[uri] ELSE Null
Deref(docs, j) == IF HasUri(j) /\ Size(j) = 1 THEN Fetch(docs, UriOf(j)) ELSE j

\* operator[] of objects and variants.
Child(docs, j, name) == IF Has(j, name) THEN Deref(docs, Field(j, name)) ELSE Discarded
RECURSIVE Descend(_, _, _)
Descend(docs, j, names) ==
  IF names = <<>> THEN j ELSE Descend(docs, Child(docs, j, Head(names)), Tail(names))

\* AsIterable(): an array, or the Members of a collection.
Members(j) == IF IsArray(j) THEN j.array
              ELSE IF Has(j, "Members") /\ IsArray(Field(j, "Members")) THEN Field(j, "Members").array ELSE <<>>
Items(docs, j) == [i \in DOMAIN Members(j) |-> Deref(docs, Members(j)[i])]

\* Each().Do(): the objects among them.
EachOf(docs, j) == SelectSeq(Items(docs, j), IsObject)
Each(docs, j, name) == EachOf(docs, Child(docs, j, name))

\* AsObject() and GetValue(), as sequences of at most one value.
ObjectAt(docs, j, names) ==
  LET k == Descend(docs, j, names) IN IF IsObject(k) THEN <<k>> ELSE <<>>
StringAt(docs, j, name) ==
  LET k == Child(docs, j, name) IN IF Tag(k) = "string" THEN <<k.string>> ELSE <<>>
BoolAt(docs, j, name) ==
  LET k == Child(docs, j, name) IN IF Tag(k) = "bool" THEN <<k.bool>> ELSE <<>>
UriString(j) == IF HasUri(j) THEN <<UriOf(j)>> ELSE <<>>
Or(opt, default) == IF opt = <<>> THEN default ELSE opt[1]
FirstOf(opts) == LET some == SelectSeq(opts, LAMBDA o : o # <<>>) IN IF some = <<>> THEN <<>> ELSE some[1]

\* Maps from keys to sequences.
Found(map, key) == IF key \in DOMAIN map THEN map[key] ELSE <<>>
Put(map, key, value) == (key :> value) @@ map
Push(map, key, value) == Put(map, key, Append(Found(map, key), value))

\* GetResourceTypeAndVersionForObject: the third part of @odata.type.
ResourceType(docs, j) == Or(StringAt(docs, j, "@odata.type"), "none")
=============================================================================
