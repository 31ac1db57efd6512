-------------------------- MODULE RedfishNavigation --------------------------
(***************************************************************************)
(* How HttpRedfishInterface makes a service of many JSON documents look    *)
(* like one: variants, objects and iterables that follow @odata.id         *)
(* references (http_redfish_intf.cc), the chains of indices of             *)
(* RedfishVariant (interface.h) and JSON pointers (json_ptr.cc).           *)
(*                                                                         *)
(* A service is a record                                                   *)
(*   [answer, warm, features]                                              *)
(* answer maps the paths that are served to [code, body], or to            *)
(* [code |-> 0, status] where the transport fails.  warm is the set of     *)
(* paths held by the cache, features the supported_features_, <<>> while   *)
(* they are not known.  A variant is [status, body, state, path]; body is  *)
(* JSON, bytes or, where ptr_ is null, NoBody; path is the URI and the     *)
(* names and indices passed since (RedfishExtendedPath).                   *)
(***************************************************************************)
EXTENDS Json, TLC

Http == INSTANCE Transports

NoBody == [nobody |-> 0]
Bytes == [bytes |-> 0]
IsJson(body) == Tag(body) \notin {"nobody", "bytes"}

Path(uri) == [uri |-> uri, properties |-> <<>>]
NoPath == Path([path |-> <<>>, pointer |-> <<>>])
Failed(status) == [status |-> status, body |-> NoBody, state |-> "unknown", path |-> NoPath]
Variant(code, body, state, path) ==
  [status |-> Http!HttpResponseCodeToCanonical(Http!HttpResponseCodeFromInt(code)),
   body |-> body, state |-> state, path |-> path]

\* GetParams: expand is a number of levels, which may be 0, or not set.
Unset == -1
NoParams == [freshness |-> "optional", expand |-> Unset, type |-> "no_links", top |-> FALSE, filter |-> FALSE]

-----------------------------------------------------------------------------
(* interface.cc, json_ptr.cc *)

ExpandSupported(params, features) ==
  /\ CASE params.type = "both" -> features.expand_all
       [] params.type = "no_links" -> features.no_links
       [] params.type = "links" -> features.links
  /\ params.expand <= features.max_levels

TopSupported(features) == features.top_skip

\* ValidateAndAdjustParams
ValidateAndAdjustParams(params, features) ==
  IF features = <<>> THEN params
  ELSE LET known == features[1] IN
       [params EXCEPT !.expand = IF @ # Unset /\ ExpandSupported(params, known) THEN @ ELSE Unset,
                      !.top = @ /\ TopSupported(known),
                      !.filter = @ /\ known.filter]

RECURSIVE HandleJsonPtr(_, _)

\* A token names a field of an object or is the number of an element of an
\* array; anything else discards the document.
HandleJsonPtr(j, tokens) ==
  LET elements == {i \in DOMAIN j.array : ToString(i - 1) = Head(tokens)} IN
  IF tokens = <<>> THEN j
  ELSE IF Has(j, Head(tokens)) THEN HandleJsonPtr(Field(j, Head(tokens)), Tail(tokens))
  ELSE IF IsArray(j) /\ elements # {}
  THEN HandleJsonPtr(j.array[CHOOSE i \in elements : TRUE], Tail(tokens))
  ELSE Discarded

-----------------------------------------------------------------------------
(* The service.  With $expand references are replaced by what they refer   *)
(* to, as many levels deep as asked for; a URI that is not served is       *)
(* answered with 404 and an error document.  External.                     *)

Served(service, path) ==
  IF path \in DOMAIN service.answer THEN service.answer[path]
  ELSE [code |-> 404, body |-> Obj([n \in {"error"} |-> Str("not found")])]

RECURSIVE Inline(_, _, _)
Inline(service, j, levels) ==
  LET target == Served(service, UriOf(j).path) IN
  CASE HasUri(j) /\ Size(j) = 1 /\ levels > 0 ->
         IF UriOf(j).pointer = <<>> /\ target.code = 200 /\ IsJson(target.body)
         THEN Inline(service, target.body, levels - 1) ELSE j
    [] IsObject(j) -> Obj([n \in DOMAIN j.object |-> Inline(service, j.object[n], levels)])
    [] IsArray(j) -> Arr([i \in DOMAIN j.array |-> Inline(service, j.array[i], levels)])
    [] OTHER -> j

Answer(service, uri, params) ==
  LET a == Served(service, uri.path) IN
  IF a.code = 200 /\ IsJson(a.body) THEN [a EXCEPT !.body = Inline(service, @, params.expand)] ELSE a

-----------------------------------------------------------------------------
(* http_redfish_intf.cc *)

\* GetUriHelper: a failed operation is its status; what follows '#' is a JSON
\* pointer into the answer.
GetUriHelper(uri, answer, state) ==
  IF answer.code = 0 THEN Failed(answer.status)
  ELSE IF uri.pointer = <<>> THEN Variant(answer.code, answer.body, state, Path(uri))
  ELSE IF ~IsJson(answer.body) THEN Failed("Internal")
  ELSE Variant(answer.code, HandleJsonPtr(answer.body, uri.pointer), state, Path(uri))

CachedGetUri(service, uri, params) ==
  GetUriHelper(uri, Answer(service, uri, ValidateAndAdjustParams(params, service.features)),
               IF uri.path \in service.warm THEN "cached" ELSE "fresh")

UncachedGetUri(service, uri, params) ==
  GetUriHelper(uri, Answer(service, uri, ValidateAndAdjustParams(params, service.features)), "fresh")

\* GetFullPath: the properties lengthen the pointer, if there is one.
GetFullPath(path) ==
  IF path.uri.pointer = <<>> THEN [path.uri EXCEPT !.path = @ \o path.properties]
  ELSE [path.uri EXCEPT !.pointer = @ \o path.properties]
Below(path, token) == [path EXCEPT !.properties = Append(@, token)]

\* ResolveReference: an object that is nothing but a reference is fetched; with
\* $expand every other value is fetched again too, and kept if that fails.
Refetched(service, uri, params) ==
  IF params.freshness = "required" THEN UncachedGetUri(service, uri, params)
  ELSE CachedGetUri(service, uri, params)
\* Mutant of Resolved: what was fetched again is taken even if that failed.
ResolvedAnyway(parent, j, here, got, expanding) ==
  IF (HasUri(j) /\ Size(j) = 1) \/ expanding THEN got
  ELSE [status |-> parent.status, body |-> j, state |-> parent.state, path |-> here]
Resolved(parent, j, here, got, expanding) ==
  IF (HasUri(j) /\ Size(j) = 1) \/ (expanding /\ got.status = "Ok") THEN got
  ELSE [status |-> parent.status, body |-> j, state |-> parent.state, path |-> here]
Dereference(service, parent, j, here, params) ==
  Resolved(parent, j, here, Refetched(service, GetFullPath(here), params), params.expand # Unset)
ResolveReference(service, parent, j, path, params) ==
  Dereference(service, parent, j, IF HasUri(j) THEN Path(UriOf(j)) ELSE path,
              ValidateAndAdjustParams(params, service.features))

\* AsObject, AsIterable
AsObject(v) == IsJson(v.body) /\ IsObject(v.body)
IsCollection(j) == Has(j, "Members") /\ IsArray(Field(j, "Members"))
AsIterable(v) == IsJson(v.body) /\ (IsArray(v.body) \/ IsCollection(v.body))
Elements(v) == IF IsArray(v.body) THEN v.body.array ELSE Field(v.body, "Members").array

\* HttpIntfObjectImpl::Get: an absent property is a discarded value, no error.
Get(service, v, name, params) ==
  IF Has(v.body, name)
  THEN ResolveReference(service, v, Field(v.body, name), Below(v.path, name), params)
  ELSE [v EXCEPT !.body = Discarded, !.path = Below(@, name)]

\* operator[] of the two iterables: params keep their freshness only.
Element(service, v, index, mode, params) ==
  LET j == Elements(v)[index + 1] IN
  IF index \notin 0 .. Len(Elements(v)) - 1
  THEN Failed(IF IsArray(v.body) THEN "OutOfRange" ELSE "NotFound")
  ELSE IF mode = "no_resolve" THEN [v EXCEPT !.body = j, !.path = Below(@, ToString(index))]
  ELSE ResolveReference(service, v, j, Below(v.path, ToString(index)),
                        [NoParams EXCEPT !.freshness = params.freshness])

\* EnsureFreshPayload and AsFreshObject.
EnsureFreshPayload(service, v) ==
  IF v.state = "fresh" THEN v
  ELSE IF ~Has(v.body, "@odata.id") THEN Failed("NotFound")
  ELSE LET again == UncachedGetUri(service, UriOf(v.body), NoParams) IN
       IF again.status = "Ok" /\ ~AsObject(again) THEN Failed("Internal") ELSE again

\* ForEachProperty: the properties as they are, references not followed.
Properties(v) == {[v EXCEPT !.body = Field(v.body, n), !.path = Below(@, n)] : n \in DOMAIN v.body.object}

\* GetValue.  bits is the width of the integer asked for; an integer is cut to
\* it, a float is rounded half away from zero and refused if it does not fit.
Round(tenths) == IF tenths >= 0 THEN (tenths + 5) \div 10 ELSE -((5 - tenths) \div 10)
Cut(n, bits) == ((n + 2^(bits - 1)) % 2^bits) - 2^(bits - 1)
GetInt(v, bits) ==
  CASE Tag(v.body) = "int" -> <<Cut(v.body.int, bits)>>
    [] Tag(v.body) = "float" /\ Round(v.body.float) \in -(2^(bits - 1)) .. 2^(bits - 1) - 1
         -> <<Round(v.body.float)>>
    [] OTHER -> <<>>
GetString(v) == IF Tag(v.body) = "string" THEN <<v.body.string>> ELSE <<>>
GetBool(v) == IF Tag(v.body) = "bool" THEN <<v.body.bool>> ELSE <<>>
GetDouble(v) ==
  CASE Tag(v.body) = "int" -> <<10 * v.body.int>> [] Tag(v.body) = "float" -> <<v.body.float>>
    [] OTHER -> <<>>

-----------------------------------------------------------------------------
(* interface.h *)

\* RedfishVariant::operator[]: a failed variant stays failed.
Index(service, v, step) ==
  IF v.status # "Ok" THEN [v EXCEPT !.body = NoBody]
  ELSE CASE step.kind = "name" ->
              IF AsObject(v) THEN Get(service, v, step.name, step.params)
              ELSE Failed("Internal")
         [] step.kind = "index" ->
              IF AsIterable(v) THEN Element(service, v, step.index, "resolve", NoParams)
              ELSE Failed("Internal")

Name(n) == [kind |-> "name", name |-> n, params |-> NoParams, adjust |-> FALSE]
At(i) == [kind |-> "index", index |-> i]
Each == [kind |-> "each"]

\* A step with auto_adjust_levels expands one level more for every Each after it.
Adjusted(steps) ==
  LET step == Head(steps)
      more == Cardinality({i \in 2 .. Len(steps) : steps[i].kind = "each"})
  IN  IF step.kind = "name" /\ step.adjust /\ step.params.expand # Unset
      THEN [step EXCEPT !.params.expand = @ + more] ELSE step

RECURSIVE Do(_, _, _)

\* IndexHelper::Do: the objects the chain of indices leads to, in order.  A
\* callback that returns kStop sees a prefix of them.
Do(service, v, steps) ==
  IF steps = <<>> THEN IF AsObject(v) THEN <<v>> ELSE <<>>
  ELSE IF Head(steps).kind # "each" THEN Do(service, Index(service, v, Adjusted(steps)), Tail(steps))
  ELSE IF AsIterable(v)
  THEN FlattenSeq([i \in DOMAIN Elements(v) |->
         Do(service, Element(service, v, i - 1, "resolve", NoParams), Tail(steps))])
  ELSE <<>>

\* PopulateSupportedFeatures, from the variant of the service root.
Flags(service, v, names) == {n \in names : GetBool(Index(service, v, Name(n))) = <<TRUE>>}
Features(protocol, expand, flags, levels) ==
  [expand_all |-> "ExpandAll" \in expand, links |-> "Links" \in expand, no_links |-> "NoLinks" \in expand,
   max_levels |-> IF levels # <<>> THEN levels[1] ELSE 0,
   top_skip |-> AsObject(protocol) /\ "TopSkipQuery" \in flags, filter |-> "FilterQuery" \in flags]
ExpandFeatures(service, protocol, expand, expands) ==
  Features(protocol, IF expands THEN Flags(service, expand, {"ExpandAll", "Links", "NoLinks"}) ELSE {},
           Flags(service, protocol, {"TopSkipQuery", "FilterQuery"}),
           IF expands THEN GetInt(Index(service, expand, Name("MaxLevels")), 8) ELSE <<>>)
ProtocolFeatures(service, protocol, remove_expand) ==
  LET expand == Index(service, protocol, Name("ExpandQuery")) IN
  ExpandFeatures(service, protocol, expand, AsObject(expand) /\ ~remove_expand)
PopulateSupportedFeatures(service, root, remove_expand) ==
  IF service.features # <<>> \/ root.status # "Ok" \/ ~AsObject(root) THEN service.features
  ELSE <<ProtocolFeatures(service, Index(service, root, Name("ProtocolFeaturesSupported")), remove_expand)>>
=============================================================================
