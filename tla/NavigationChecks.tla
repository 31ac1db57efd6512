-------------------------- MODULE NavigationChecks --------------------------
(***************************************************************************)
(* Navigation: a root, a collection of two chassis, an array addressed by  *)
(* JSON pointers.                                                          *)
(***************************************************************************)
EXTENDS AlgorithmState


Parts == <<"v1", "Parts">>

Documents ==
  (RootPath :> J!Obj(Id(RootPath) @@ One("Chassis", Ref(ChassisPath))
                       @@ One("ProtocolFeaturesSupported", J!Obj(One("ExpandQuery", J!Obj(
                            One("NoLinks", J!Bool(TRUE)) @@ One("MaxLevels", J!Num(1))))))))
  @@ (ChassisPath :> J!Obj(Id(ChassisPath) @@ One("Members", J!Arr(<<Ref(C1), Ref(C2)>>))))
  @@ (C1 :> J!Obj(Id(C1) @@ One("Status", J!Obj(One("Health", J!Str("OK"))))
                    @@ One("Part", J!Reference(J!UriAt(Parts, <<"All", "1">>)))))
  @@ (C2 :> J!Obj(Id(C2) @@ One("Parts", Ref(Parts))))
  @@ (Parts :> J!Obj(Id(Parts) @@ One("All", J!Arr(<<J!Obj(One("N", J!Num(7))),
                       J!Obj(One("Status", J!Obj(One("Health", J!Str("Bad")))))>>))))

Root(service) == Nav!CachedGetUri(service, [path |-> RootPath, pointer |-> <<>>], Nav!NoParams)

\* A service without $expand, one with one level, and one whose root was not
\* read yet; any one document missing or not to be had.
Faults == [broken : {ChassisPath, C1, Parts}, how : {"404", "lost"}] \union {[broken |-> <<>>, how |-> "none"]}
WithFeatures(new, expands) ==
  IF expands = "unknown" THEN new
  ELSE [new EXCEPT !.features = Nav!PopulateSupportedFeatures(new, Root(new), expands = "removed")]
ServiceFor(fault, warm, expands) ==
  WithFeatures([answer |-> [p \in DOMAIN Documents |->
                  CASE p # fault.broken -> [code |-> 200, body |-> Documents[p]]
                    [] fault.how = "404" -> [code |-> 404, body |-> J!Obj(One("error", J!Str("gone")))]
                    [] fault.how = "lost" -> [code |-> 0, status |-> "Unavailable"]],
                warm |-> IF warm THEN DOMAIN Documents ELSE {}, features |-> <<>>], expands)

Get(n) == Nav!Name(n)
Walks == {<<Get("Chassis")>>,
          <<Get("Chassis"), Nav!At(0), Get("Status"), Get("Health")>>,
          <<Get("Chassis"), Nav!At(0), Get("Part"), Get("Status"), Get("Health")>>,
          <<Get("Chassis"), Nav!At(1), Get("Parts"), Get("All"), Nav!At(0)>>,
          <<Get("Chassis"), Nav!At(2), Get("Parts")>>,
          <<Get("Chassis"), Nav!Each, Get("Status")>>,
          <<Get("Chassis"), Nav!Each, Get("Parts"), Get("All"), Nav!Each, Get("Status")>>}

\* The same walk with $expand and freshness asked for at every name.
Asking(walk, levels, freshness, adjust) ==
  [i \in DOMAIN walk |->
     IF walk[i].kind = "name"
     THEN [walk[i] EXCEPT !.params.expand = levels, !.params.freshness = freshness, !.adjust = adjust]
     ELSE walk[i]]

NavigationInputs ==
  {[kind |-> "navigation", fault |-> fault, warm |-> warm, expands |-> expands,
    walk |-> Asking(w, levels, freshness, adjust)] :
     fault \in Faults, warm \in BOOLEAN, expands \in {"unknown", "supported", "removed"},
     w \in Walks, levels \in Nav!Unset .. 1, freshness \in {"optional", "required"}, adjust \in BOOLEAN}
PickNavigation ==
  \E x \in NavigationInputs : input' = x /\ world' = ServiceFor(x.fault, x.warm, x.expands)

\* The reference: the whole service as one document.  A reference is what it
\* refers to, whatever the service answered for it.
RECURSIVE Flat(_, _, _)
Flat(service, j, depth) ==
  LET a == Nav!Served(service, J!UriOf(j).path) IN
  CASE depth = 0 -> j
    [] J!HasUri(j) /\ J!Size(j) = 1 ->
         IF a.code = 0 THEN J!Null
         ELSE Flat(service, Nav!HandleJsonPtr(a.body, J!UriOf(j).pointer), depth - 1)
    [] J!IsObject(j) -> J!Obj([n \in DOMAIN j.object |-> Flat(service, j.object[n], depth)])
    [] J!IsArray(j) -> J!Arr([i \in DOMAIN j.array |-> Flat(service, j.array[i], depth)])
    [] OTHER -> j
Depth == 4

Sound(j) == ~J!Has(j, "error") /\ J!Tag(j) \notin {"null", "discarded"}
Children(j) == IF J!IsArray(j) THEN j.array
               ELSE IF Nav!IsCollection(j) THEN J!Field(j, "Members").array ELSE <<>>

RECURSIVE Lookup(_, _)
\* What a walk finds in one document.  Nothing is found below an error.
Lookup(j, walk) ==
  LET step == Head(walk) IN
  IF walk = <<>> THEN IF J!IsObject(j) THEN <<j>> ELSE <<>>
  ELSE IF ~Sound(j) THEN <<>>
  ELSE CASE step.kind = "name" ->
              IF J!Has(j, step.name) THEN Lookup(J!Field(j, step.name), Tail(walk)) ELSE <<>>
         [] step.kind = "index" ->
              IF step.index + 1 \in DOMAIN Children(j)
              THEN Lookup(Children(j)[step.index + 1], Tail(walk)) ELSE <<>>
         [] step.kind = "each" ->
              J!FlattenSeq([i \in DOMAIN Children(j) |-> Lookup(Children(j)[i], Tail(walk))])

Navigate ==
  /\ input.kind = "navigation"
  /\ \E found \in {Nav!Do(world, Root(world), input.walk)} :
       answer' = <<[found |-> found,
                    fresh |-> [i \in DOMAIN found |-> Nav!EnsureFreshPayload(world, found[i])]]>>

\* A walk finds the objects that it finds in the service seen as one document:
\* whatever is asked of $expand and freshness at any step, whatever the service
\* supports and the cache holds, the same objects in the same order, every
\* reference followed, and none lost or found twice because it was inlined
\* (ResolveReference's "flatten a Redfish service's entire Redfish tree"); and
\* an object that is read afresh is the same object.
NavigationFlattens ==
  input.kind = "navigation" /\ Done =>
    LET flat(v) == Flat(world, v.body, Depth)
        found == answer[1].found
        fresh == answer[1].fresh
    IN  /\ [i \in DOMAIN found |-> flat(found[i])] = Lookup(flat(Root(world)), input.walk)
        /\ \A i \in DOMAIN found : fresh[i].status = "Ok" =>
             fresh[i].state = "fresh" /\ flat(fresh[i]) = flat(found[i])

-----------------------------------------------------------------------------
(* The system model on a service that has two members in the first         *)
(* collection of every chain and one in every other; the drive of a        *)
(* chassis is also the drive of a system.                                  *)

Sys == INSTANCE Sysmodel

\* The service of all chains: below a path of names and "each" lies what some
\* chain names next.
Segment(step) == IF step.kind = "each" THEN "each" ELSE step.name
AnyParams == [levels |-> 0, freshness |-> "optional"]
ChainNames ==
  UNION {{[i \in DOMAIN chain |-> Segment(chain[i])] : chain \in J!ToSet(Sys!Resources(AnyParams)[r])} :
           r \in DOMAIN Sys!Resources(AnyParams)}
Following(names, at) == {n[Len(at) + 1] : n \in {m \in names : Len(m) > Len(at) /\ Prefix(at, m)}}
Places(names) == UNION {{SubSeq(n, 1, i) : i \in 0 .. Len(n)} : n \in names}
At1(at, first) == RootPath \o [i \in DOMAIN at |-> IF at[i] # "each" THEN at[i] ELSE IF i = 2 THEN first ELSE "1"]
MemberOf(at, path) ==
  IF at = <<"Chassis", "each", "Drives">> THEN At1(<<"Systems", "each", "Storage", "each", "Drives", "each">>, path[3])
  ELSE Append(path, "1")
ResourceAt(names, at, path) ==
  J!Obj(Id(path) @@ [n \in Following(names, at) \ {"each"} |-> Ref(Append(path, n))]
        @@ [n \in {m \in {"Members"} : "each" \in Following(names, at)} |->
              List(IF Len(at) = 1 THEN <<Ref(Append(path, "1")), Ref(Append(path, "2"))>> ELSE <<Ref(MemberOf(at, path))>>)])
ResourceDocuments(names) ==
  [path \in {At1(at, first) : at \in Places(names), first \in {"1", "2"}} |->
     LET at == CHOOSE p \in Places(names) : \E first \in {"1", "2"} : path = At1(p, first) IN
     ResourceAt(names, at, path)]

SysmodelInputs ==
  [kind : {"sysmodel"}, resource : DOMAIN Sys!Resources(AnyParams), limit : {1, 2, 9},
   q : [levels : {0, 1}, freshness : {"optional", "required"}], gone : BOOLEAN]

\* One storage of the two systems may be out of order.
PickSysmodel ==
  \E docs \in {ResourceDocuments(ChainNames)} : \E x \in SysmodelInputs :
    /\ input' = x
    /\ world' = [answer |-> [p \in DOMAIN docs |->
                   IF x.gone /\ p = <<"v1", "Systems", "1", "Storage">> THEN [code |-> 0, status |-> "Unavailable"]
                   ELSE [code |-> 200, body |-> docs[p]]],
                 warm |-> {}, features |-> <<>>]

QuerySysmodel ==
  /\ input.kind = "sysmodel"
  /\ answer' = <<Sys!QueryAllResources(world, Root(world), input.resource, input.q, input.limit)>>

\* Each drive counts where it is found first.
FirstOfEach(s) == J!FoldLeft(LAMBDA acc, j : IF j \in J!ToSet(acc) THEN acc ELSE Append(acc, j), <<>>, s)
Uris(s) == [i \in DOMAIN s |-> J!UriOf(s[i])]
Wanted(flat, chains) == J!FlattenSeq([i \in DOMAIN chains |-> Lookup(flat, chains[i])])

\* QueryAllResources calls back once for every resource of the type, in the
\* order of the service, wherever in the tree it is referenced from (the same
\* Drive from a system and from a chassis), as far as the service can be read;
\* a callback that returns kStop is not called again by the chain it stopped,
\* and at most once by the other one.
EveryResourceOnce ==
  input.kind = "sysmodel" /\ Done =>
    \E chains \in {Sys!Resources(input.q)[input.resource]} :
      \E wanted \in {FirstOfEach(Uris(Wanted(Flat(world, Root(world).body, 9), chains)))} :
        \E called \in {Uris([i \in DOMAIN answer[1] |-> answer[1][i].body])} :
          /\ Prefix(SubSeq(wanted, 1, J!Min({input.limit, Len(wanted)})), called)
          /\ Len(called) <= J!Min({input.limit, Len(wanted)})
                            + (IF input.resource \in {"LogService", "SoftwareInventory"} THEN 0 ELSE Len(chains) - 1)
          /\ J!IsInjective(called)

-----------------------------------------------------------------------------
(* Override: a collection of one or two chassis, whose tags, slots and     *)
(* status a policy edits.                                                  *)

Ovr == INSTANCE RedfishOverride

Chassis(path) ==
  J!Obj(Id(path) @@ One("Status", J!Obj(One("Health", J!Str("OK")) @@ One("State", J!Str("On"))))
          @@ One("N", J!Num(7)) @@ One("Tags", J!Arr(<<J!Str("a"), J!Str("b")>>))
          @@ One("Slots", J!Arr(<<J!Obj(One("Slot", J!Num(1)) @@ One("Kind", J!Str("x"))),
                                  J!Obj(One("Slot", J!Num(2)) @@ One("Kind", J!Str("y")))>>)))
OverrideService(paths) ==
  [answer |-> [p \in {ChassisPath} \union J!ToSet(paths) |->
     [code |-> 200, body |-> IF p # ChassisPath THEN Chassis(p)
        ELSE J!Obj(Id(p) @@ One("Members", J!Arr([i \in DOMAIN paths |-> Ref(paths[i])])))]]]

Named(name) == [field |-> name]
Second == [array_field |-> [name |-> "Slot", value |-> J!Num(2)]]
Edit(action, at, value) == [action |-> action, at |-> at, value |-> value, is_expand |-> FALSE]
Edits == {Edit("replace", <<Named("Status"), Named("Health")>>, <<"value", J!Str("Bad")>>),
          Edit("replace", <<Named("N")>>, <<"value", J!Num(3)>>),
          Edit("replace", <<Named("Slots"), Second, Named("Kind")>>, <<"value", J!Str("z")>>),
          Edit("replace", <<Named("Status")>>, <<"reading">>),
          Edit("add", <<Named("Status"), Named("New")>>, <<"value", J!Num(3)>>),
          Edit("add", <<Named("Tags")>>, <<"value", J!Str("c")>>),
          Edit("add", <<Named("Status")>>, <<"value", J!Str("c")>>),
          Edit("clear", <<Named("Slots"), Second>>, <<>>),
          Edit("clear", <<Named("Tags"), [array_idx |-> 1]>>, <<>>),
          Edit("clear", <<Named("Slots"), [array_idx |-> 1], Named("Kind")>>, <<>>),
          Edit("clear", <<Named("Tags"), [array_idx |-> 2]>>, <<>>),
          [Edit("clear", <<Named("Status")>>, <<>>) EXCEPT !.is_expand = TRUE]}
OverrideInputs ==
  {[kind |-> "override", members |-> paths, levels |-> levels,
    policy |-> [uri |-> C1 :> <<e>>, regex |-> <<[paths |-> {C1, C2}, edits |-> <<f>>]>>]] :
     paths \in {<<C1>>, <<C1, C2>>}, levels \in 0 .. 2, e \in Edits, f \in Edits}

PickOverride == \E x \in OverrideInputs : input' = x /\ world' = OverrideService(x.members)

Override ==
  /\ input.kind = "override"
  /\ answer' = <<Ovr!TryApplyingOverride(input.policy,
       Nav!Answer(world, [path |-> ChassisPath, pointer |-> <<>>], [expand |-> input.levels]))>>

RECURSIVE Leaves(_)
\* The places of a document: the names and numbers that lead to each scalar.
Leaves(j) ==
  CASE J!IsObject(j) -> UNION {{<<<<n>> \o l[1], l[2]>> : l \in Leaves(j.object[n])} : n \in DOMAIN j.object}
    [] J!IsArray(j) -> UNION {{<<<<ToString(i)>> \o l[1], l[2]>> : l \in Leaves(j.array[i])} : i \in DOMAIN j.array}
    [] OTHER -> {<<<<>>, j>>}

\* Every resource is edited the same way wherever it is served: overriding an
\* expanded answer is the same as expanding overridden answers
\* (ResultExpandUpdateHelper).  Collections of one member are left out: their
\* Members array has size 1 and the descent takes it for a bare reference.
\* An edit that fails changes nothing, and one that succeeds changes nothing
\* but what its first name leads to (FindObjectAndAct).
OverrideCommutesWithExpand ==
  input.kind = "override" /\ Done =>
    /\ Len(input.members) > 1 =>
         \E edited \in {[world EXCEPT !.answer = [p \in DOMAIN @ |-> Ovr!TryApplyingOverride(input.policy, @[p])]]} :
           answer[1].body = Nav!Inline(edited, edited.answer[ChassisPath].body, input.levels)
    /\ \A e \in J!ToSet(input.policy.uri[C1]) :
         \A alone \in {Ovr!ResultUpdateHelper(e, Chassis(C1))} :
           /\ alone.status # "Ok" => alone.json = Chassis(C1)
           /\ \A leaf \in Leaves(Chassis(C1)) :
                leaf \in Leaves(alone.json) \/ leaf[1][1] = e.at[1].field

-----------------------------------------------------------------------------
(* HTTP transfers: the blocks of headers of one response, interim answers  *)
(* or redirects before the last, then its body, in two pieces at most.     *)

HC == INSTANCE Transports

StatusLine(code) == [kind |-> "status", code |-> code]
HeaderField(key, value) == [kind |-> "field", key |-> key, value |-> value]
BlankLine == [kind |-> "blank"]
Progress == [kind |-> "progress"]
Block(code) == <<StatusLine(code), HeaderField("K", code), BlankLine>>
Piece(data) == [kind |-> "body", data |-> data]
Received ==
  {before \o Block(code) \o body :
     before \in {<<>>, Block(100), <<Progress>> \o Block(302)}, code \in {200, 404},
     body \in {<<>>, <<Piece("a")>>, <<Piece("a"), Progress, Piece("b")>>, <<Piece("a"), Piece("b"), HeaderField("T", 0)>>}}
\* All of it, or what is received before the transfer times out or breaks.
Ends == {<<events, "OK">> : events \in Received}
        \union {<<SubSeq(events, 1, n), perform>> : events \in {e \in Received : Len(e) > 6}, n \in {0, 2, 4, 6},
                  perform \in {"OPERATION_TIMEDOUT", "RECV_ERROR"}}
TransferOf(got, made) ==
  {[kind |-> "transfer", made |-> made, events |-> got[1], perform |-> got[2], handler |-> h[1], cancel |-> h[2],
    on_headers |-> h[3], fails |-> h[4]] :
     h \in {<<FALSE, 0, "Ok", 0>>}
           \union ({TRUE} \X (1 .. Len(got[1]) + 2) \X {"Ok"} \X (0 .. 2))
           \union ({TRUE} \X {1, 5, Len(got[1]) + 2} \X {"DataLoss"} \X {0})}
PickTransfer ==
  \E got \in Ends, made \in {"all", "no handle", "no headers"} :
    /\ made # "all" => got[1] = <<>>
    /\ \E t \in TransferOf(got, made) : input' = t
    /\ UNCHANGED world

\* The events that call the handler, in order: the first blank line, and every
\* piece of the body, before the transfer is cancelled.
Heard(n) ==
  \/ input.events[n].kind = "body"
  \/ input.events[n].kind = "blank" /\ \A i \in 1 .. n - 1 : input.events[i].kind # "blank"
CodeAt(n) == LET lines == {i \in 1 .. n : input.events[i].kind = "status"} IN
  IF lines = {} THEN 0 ELSE input.events[CHOOSE i \in lines : \A k \in lines : k <= i].code
CallAt(n) == IF input.events[n].kind = "body" THEN [data |-> input.events[n].data] ELSE [headers |-> CodeAt(n)]
PiecesUpTo(n) == Cardinality({i \in 1 .. n : input.events[i].kind = "body"})
Refused(n) == IF input.events[n].kind = "body" THEN PiecesUpTo(n) = input.fails ELSE input.on_headers # "Ok"
Calls(heard) == LET at == J!SetToSortSeq(heard, <) IN [k \in DOMAIN at |-> CallAt(at[k])]

-----------------------------------------------------------------------------
(* gRPC: two calls of one thread through a stack of transports, streams of *)
(* events, documents as protobuf values, and endpoints.                    *)

AllKinds == J!Obj([n |-> J!Num(3), f |-> J!Float(25), z |-> J!Null, b |-> J!Bool(FALSE), s |-> J!Str("x"),
                   o |-> J!Obj([n |-> J!Num(1)]), e |-> J!Obj(<<>>), a |-> J!Arr(<<J!Num(2), J!Arr(<<>>), J!Obj([z |-> J!Null])>>)])
Endpoint(scheme, port, unix_in_name) == [scheme |-> scheme, host |-> "h", port |-> port, unix_in_name |-> unix_in_name]
Bmc == Endpoint("dns", "80", FALSE)
Responses ==
  {[code |-> code, headers |-> [H |-> "1"]] @@ content :
     code \in {200, 404}, content \in {[json |-> HC!JsonToStruct(AllKinds)], [json_str |-> AllKinds], [octet_stream |-> "blob"], <<>>}}
Plainest == [code |-> 200, headers |-> <<>>, json_str |-> AllKinds]
Call(op, data, timeout, takes, status, response) ==
  [op |-> op, path |-> "/a", data |-> data, timeout |-> timeout, headers |-> [Host |-> Endpoint("", "none", TRUE), H |-> "1"], takes |-> takes, status |-> status,
   response |-> response, fqdn |-> HC!EndpointToFqdn(Bmc), default |-> 5, max_age |-> IF data = <<>> THEN HC!Infinite ELSE 7]
Operations == {"Get", "Post", "Patch", "Delete", "Put"}
FirstCalls ==
  {Call(op, data, 0, takes, status, Plainest) :
     op \in Operations, data \in {<<>>, <<AllKinds>>, <<[bytes |-> "blob"]>>}, takes \in {1, 6}, status \in {"Ok", "Unavailable"}}
  \union {Call(op, <<[bytes |-> "blob"]>>, timeout, takes, "Ok", Plainest) :
            op \in {"GetWithin", "PostWith"}, timeout \in {-1, 0, 2, HC!Infinite}, takes \in {1, 3}}
  \union {Call("Get", <<>>, 0, 2, "Ok", r) : r \in Responses}
SecondCalls == {Call("Get", <<>>, 0, takes, status, Plainest) : takes \in {0, 3}, status \in {"Ok", "Unavailable"}}
TransportStacks == {<<"grpc">>, <<"null">>, <<"metrical">>, <<"metrical", "grpc">>, <<"logged", "metrical", "grpc">>, <<"metrical", "logged">>}
Read(ok, response) == [ok |-> ok, response |-> response]

PickRpc ==
  /\ UNCHANGED world
  /\ \/ \E stack \in TransportStacks, first \in FirstCalls, second \in SecondCalls :
          input' = [kind |-> "rpc", stack |-> stack, calls |-> <<first, second>>]
     \/ \E a, b \in [ok : BOOLEAN, response : Responses], started \in BOOLEAN, status \in {"Ok", "Cancelled"} :
          input' = [kind |-> "stream", started |-> started, reads |-> <<a, b, Read(FALSE, Plainest)>>, status |-> status]
     \/ \E scheme \in {"", "dns", "unix", "google"}, port \in {"none", "", "word", "80"}, unix_in_name \in BOOLEAN,
          wait \in {<<>>, <<1>>}, connected \in 1 .. 2 :
          input' = [kind |-> "endpoint", endpoint |-> Endpoint(scheme, port, unix_in_name), wait |-> wait, connected |-> connected]

Carried(stack, calls, first) ==
  [outs |-> <<first.out, HC!Carry(stack, calls[2], first.metrics).out>>, metrics |-> HC!Carry(stack, calls[2], first.metrics).metrics]
Transfer ==
  \/ input.kind = "transfer" /\ answer' = HC!HttpMethod(input)
  \/ input.kind = "rpc" /\ answer' = Carried(input.stack, input.calls, HC!Carry(input.stack, input.calls[1], HC!ResetMetrics))
  \/ input.kind = "stream" /\ answer' = [calls |-> HC!Subscribe(input)]
  \/ /\ input.kind = "endpoint"
     /\ answer' = [status |-> HC!CreateGrpcRedfishTransport(input.endpoint, input.wait, input.connected),
                   fqdn |-> HC!EndpointToFqdn(input.endpoint)]

RECURSIVE AsDoubles(_)
AsDoubles(j) ==
  CASE J!Tag(j) = "int" -> J!Float(10 * j.int)
    [] J!IsObject(j) -> J!Obj([n \in DOMAIN j.object |-> AsDoubles(j.object[n])])
    [] J!IsArray(j) -> J!Arr([i \in DOMAIN j.array |-> AsDoubles(j.array[i])])
    [] OTHER -> j
Said(response) ==
  CASE "json" \in DOMAIN response -> AsDoubles(AllKinds)
    [] "json_str" \in DOMAIN response -> response.json_str
    [] "octet_stream" \in DOMAIN response -> [bytes |-> response.octet_stream]
    [] OTHER -> J!Discarded

\* How long a call may take, and whether it is made at all.
Within(call) == IF call.op \in {"GetWithin", "PostWith"} THEN call.timeout ELSE call.default
IsSent(stack, call) ==
  /\ stack[Len(stack)] = "grpc"
  /\ call.op = "PostWith" => Len(stack) = 1
  /\ call.op = "GetWithin" => call.timeout \in 1 .. HC!Infinite - 1
RpcIsAnswered(call, out) ==
  /\ out.status = "Ok" <=> IsSent(input.stack, call) /\ call.takes <= Within(call) /\ call.status = "Ok"
  /\ out.status = "Ok" => out.result = <<[code |-> call.response.code, headers |-> call.response.headers, body |-> Said(call.response)]>>
  /\ (out.request # <<>>) = IsSent(input.stack, call)
  /\ out.request # <<>> =>
       /\ out.request[1].headers["Host"] = [Bmc EXCEPT !.scheme = "", !.port = "none"]
       /\ call.op \in {"Get", "GetWithin"} => out.request[1].json_str = <<>> /\ out.request[1].octet_stream = <<>>
       /\ call.op \notin {"Get", "GetWithin"} => call.data \in {out.request[1].json_str, out.request[1].octet_stream}
       /\ out.took <= Within(call) /\ (out.took < Within(call) => out.took = call.takes)

\* The calls a metrical transport made of something below it.
MeasuredAs(key) ==
  {k \in 1 .. 2 : /\ key = <<input.calls[k].path, IF input.calls[k].op = "GetWithin" THEN "Get" ELSE input.calls[k].op,
                             IF answer.outs[k].status = "Ok" THEN "metadata" ELSE "metadata_failures">>
                  /\ input.calls[k].op # "PostWith"}
MetricsAreOfTheCalls ==
  IF "metrical" \notin J!ToSet(input.stack) \/ Len(input.stack) = 1 THEN answer.metrics = <<>>
  ELSE /\ \A k \in 1 .. 2 : input.calls[k].op # "PostWith" => \E key \in DOMAIN answer.metrics : k \in MeasuredAs(key)
       /\ \A key \in DOMAIN answer.metrics :
            LET m == answer.metrics[key]
                took == {answer.outs[k].took : k \in MeasuredAs(key)}
            IN  m.count = Cardinality(MeasuredAs(key)) /\ {m.min, m.max} \subseteq took /\ \A d \in took : d \in m.min .. m.max

StreamIsInOrder ==
  LET read == {n \in DOMAIN input.reads : \A i \in 1 .. n : input.reads[i].ok} IN
  answer.calls = IF ~input.started THEN <<>>
                 ELSE [n \in 1 .. Cardinality(read) + 1 |->
                         IF n \in read
                         THEN [event |-> IF "json" \in DOMAIN input.reads[n].response THEN J!Discarded ELSE Said(input.reads[n].response)]
                         ELSE [stop |-> input.status]]

EndpointIsSound ==
  LET e == input.endpoint IN
  /\ answer.status = "Ok" /\ e.scheme \in {"", "dns"} => e.port = "80"
  /\ answer.status = "Ok" /\ input.wait # <<>> => input.connected <= input.wait[1]
  /\ answer.status = "Ok" /\ e.scheme # "unix" /\ ~e.unix_in_name => answer.fqdn.scheme = ""

\* A handler is told the headers once and first, then every piece of the body
\* in order, and nothing more once it has refused one or cancelled the transfer
\* (HeaderCallback, BodyCallback, ProgressCallback); its error is the outcome of
\* the transfer, before anything libcurl says; the transfer is Ok only if
\* nothing was kept from it.  Without a handler the whole body is in the
\* response.  A handler is told the code of the first block of headers, be it
\* an interim answer or a redirect; otherwise the code is that of the last one,
\* but the headers are those of the first block that has them.
HttpTransferIsDelivered ==
    LET numbers == 1 .. Len(input.events)
        heard == {n \in numbers : Heard(n) /\ n < input.cancel}
        refused == {n \in heard : Refused(n)}
        told == {n \in heard : \A r \in refused : n <= r}
        noticed == \E n \in numbers : n >= input.cancel /\ input.events[n].kind = "progress"
    IN CASE input.made # "all" -> answer.status # "Ok" /\ answer.calls = <<>>
         [] ~input.handler ->
              /\ answer.calls = <<>>
              /\ answer.status = "Ok" <=> input.perform = "OK"
              /\ answer.status = "Ok" =>
                   /\ answer.response[1].code = CodeAt(Len(input.events))
                   /\ answer.response[1].headers["K"] = CodeAt(CHOOSE n \in numbers : Heard(n) /\ input.events[n].kind = "blank")
                   /\ Len(answer.response[1].body) = PiecesUpTo(Len(input.events))
         [] OTHER ->
              /\ answer.calls = Calls(told)
              /\ answer.status =
                   CASE refused # {} -> "DataLoss"
                     [] noticed -> "Cancelled"
                     [] input.perform = "OPERATION_TIMEDOUT" -> "Unavailable"
                     [] input.perform = "RECV_ERROR" -> "Internal"
                     [] input.cancel <= Len(input.events) + 1 -> "Cancelled"
                     [] OTHER -> "Ok"

\* What is asked of a service reaches it as it was asked, and what it answers
\* comes back whole.  An HTTP transfer tells its handler everything, in order,
\* until that refuses or cancels (HttpTransferIsDelivered).  A gRPC call names
\* its host whatever headers it is given, carries its data and no other, ends
\* by its own deadline and not that of the transport, and returns the response,
\* with the numbers of a Struct as doubles (DoRpc); through other transports
\* too, if they have the operation, and those that measure count every call
\* once, for success by the status and not by the HTTP code (RedfishTrace).
\* The events of a stream come in order, and then it stops, once (OnReadDone).
TransferIsDelivered ==
  Done =>
    CASE input.kind = "transfer" -> HttpTransferIsDelivered
      [] input.kind = "rpc" -> (\A k \in 1 .. 2 : RpcIsAnswered(input.calls[k], answer.outs[k])) /\ MetricsAreOfTheCalls
      [] input.kind = "stream" -> StreamIsInOrder
      [] input.kind = "endpoint" -> EndpointIsSound
      [] OTHER -> TRUE
=============================================================================
