--------------------------- MODULE TopologyChecks ---------------------------
(***************************************************************************)
(* Topology: chassis A with B in a slot and C on a cable, memory in B, a   *)
(* sensor and a manager of B; or the same as assemblies.                   *)
(***************************************************************************)
EXTENDS AlgorithmState

Converted(name) == IF name = "DDR 4" THEN "ddr_4" ELSE name
MessageParts(id) ==
  CASE id = "errors" -> <<"ResourceEvent", "1", "0", "ResourceErrorsDetected">>
    [] id = "threshold" -> <<"ResourceEvent", "1", "0", "ResourceErrorThresholdExceeded">>
    [] id = "unknown" -> <<"ResourceEvent", "1", "0", "Other">>
    [] id = "foreign" -> <<"Base", "1", "0", "ResourceErrorsDetected">>
    [] id = "malformed" -> <<"ResourceEvent", "ResourceErrorsDetected">>
Topo == INSTANCE RedfishTopology

Links(f) == One("Links", J!Obj(f))
Place(type, label) ==
  One("Location", J!Obj(One("PartLocation", J!Obj(Text("LocationType", type) @@ Text("ServiceLabel", label)))))
A == <<"v1", "Chassis", "A">>
B == <<"v1", "Chassis", "B">>
C == <<"v1", "Chassis", "C">>
System1 == <<"v1", "Systems">>
Mem == <<"v1", "Memory">>
M1 == <<"v1", "Memory", "1">>
M2 == <<"v1", "Memory", "2">>
Cables == <<"v1", "Cables">>
K == <<"v1", "Cables", "K">>
Sensor == <<"v1", "Chassis", "B", "Sensors", "s">>
Manager == <<"v1", "Managers", "m">>
Drive == <<"v1", "Drives", "d">>
Google == <<"google">>
Slot == <<"v1", "Chassis", "A", "Slot">>

ThingDocuments(x) ==
  (RootPath :> (One("Chassis", Ref(ChassisPath)) @@ One("Cables", Ref(Cables))))
  @@ (ChassisPath :> One("Members", List(x.listed)))
  @@ (A :> (Text("@odata.type", "Chassis") @@ Text("Name", "a")
            @@ Links(One("Contains", List(<<Ref(B)>>)) @@ One("Drives", List(<<Ref(Drive)>>)) @@ One("Systems", List(<<Ref(System1)>>)))))
  @@ (B :> (Text("@odata.type", "Chassis") @@ Text("Name", "b") @@ Place(x.how, "S")
            @@ Text("Model", "x") @@ One("Replaceable", J!Bool(x.replaceable))
            @@ Links(One("ContainedBy", Ref(A)) @@ One("Drives", List(<<Ref(Drive)>>)) @@ One("Systems", List(<<Ref(System1)>>)))))
  @@ (C :> (Text("@odata.type", "Chassis") @@ Text("Name", "c") @@ Place("Slot", "T")))
  @@ (System1 :> (Text("@odata.type", "System") @@ One("Memory", Ref(Mem))
              @@ Links(One("Chassis", List(<<Ref(A), Ref(B)>>)))))
  @@ (Mem :> One("Members", List(<<Ref(M1), Ref(M2)>>)))
  @@ (M1 :> (Text("@odata.type", "Memory") @@ Text("MemoryDeviceType", "DDR 4") @@ Place("Embedded", "M")
             @@ One("Status", J!Obj(Text("State", x.state) @@ Text("Health", "OK")))))
  @@ (M2 :> (Text("@odata.type", "Memory") @@ Text("Name", "m")))
  @@ (Cables :> One("Members", List(<<Ref(K)>>)))
  @@ (K :> (Text("@odata.type", "Cable") @@ Text("Name", "k") @@ Place("Connector", "L")
            @@ Links(One("Up", List(<<Ref(A)>>)) @@ One("Down", List(<<Ref(C)>>)))))
  @@ (Sensor :> (Text("@odata.type", "Sensor") @@ One("RelatedItem", List(x.related))))
  @@ (Manager :> (Text("@odata.type", "Manager") @@ Text("Name", "m") @@ Links(One("ManagerInChassis", Ref(B)))))
  @@ (Drive :> (Text("@odata.type", "Drive") @@ Text("Name", "d") @@ Place("Bay", "D")))
  @@ (Slot :> Place("Slot", "S"))
  @@ (Google :> Text("Name", "google"))

Docs(documents) ==
  [uri \in {At(p) : p \in DOMAIN documents} |-> J!Obj(Id(uri.path) @@ documents[uri.path])]

Rules == [arrays |-> <<>>, collections |-> <<>>, singles |-> <<>>, links |-> <<>>, array_links |-> <<>>,
          skip_links |-> <<>>]
Config ==
  [chassis_link |-> "ContainedBy", chassis_uri |-> At(ChassisPath), google_root |-> At(Google),
   upstream_links |-> <<"Up">>,
   resources |-> [Chassis |-> [Rules EXCEPT !.array_links = <<"Contains", "Drives">>, !.skip_links = <<"Systems">>],
                  System |-> [Rules EXCEPT !.collections = <<"Memory">>],
                  Cable |-> [Rules EXCEPT !.array_links = <<"Down">>]]]

Lists == {<<Ref(A)>>, <<Ref(B)>>, <<Ref(C)>>, <<Ref(C), Ref(B), Ref(A)>>}
ThingInputs ==
  [kind : {"topology"}, garbage : {"null"}, listed : Lists, how : {"Slot", "Embedded", "none"}, replaceable : BOOLEAN,
   state : {"Enabled", "Absent"}, related : {<<>>, <<Ref(M1)>>, <<Ref(M2)>>}]

\* The same as assemblies: board a with a connector, b plugged into it, a cable
\* on b's other end with c on it, listed in any order; b may be disabled, or
\* lack the component that stands for the board.
PartUri(name) == [path |-> A, pointer |-> <<name>>]
PartRef(name) == J!Reference(J!UriAt(A, <<name>>))
PartOf(name, called, associated, context) ==
  One("@odata.id", J!UriAt(A, <<name>>)) @@ Text("Name", called) @@ Text("PhysicalContext", context)
  @@ One("AssociatedWith", List(associated))
Assembly(name, attached, parts, state) ==
  J!Obj(Text("Name", name) @@ One("Status", J!Obj(Text("State", state)))
        @@ One("Oem", J!Obj(One("Google", J!Obj(
             One("AttachedTo", List(attached)) @@ One("Components", List(parts)))))))
Parts1 ==
  [a |-> PartOf("a", "a", <<Ref(A)>>, "Board"), s |-> PartOf("s", "S", <<>>, "Connector"),
   b |-> PartOf("b", "b", <<Ref(B)>>, "Board"), m |-> PartOf("m", "m", <<>>, "Memory"),
   t |-> PartOf("t", "T", <<>>, "Connector"), k |-> PartOf("k", "k", <<Ref(K)>>, "Cable"),
   d |-> PartOf("d", "DOWNLINK", <<>>, "Connector"), c |-> PartOf("c", "c", <<Ref(C)>>, "Board")]
PartObjects(names) == [i \in DOMAIN names |-> J!Obj(Parts1[names[i]])]
AssemblyOf(x, name) ==
  CASE name = "a" -> Assembly("a", <<>>, PartObjects(<<"a", "s">>), "Enabled")
    [] name = "b" -> Assembly("b", <<PartRef("s")>>,
                              PartObjects(IF x.boardless THEN <<"m", "t">> ELSE <<"b", "m", "t">>), x.state)
    [] name = "k" -> Assembly("k", <<PartRef("t")>>, PartObjects(<<"k", "d">>), "Enabled")
    [] name = "c" -> Assembly("c", <<PartRef("d")>>, PartObjects(<<"c">>), "Enabled")
AssemblyDocs(x) ==
  Docs((RootPath :> (One("Chassis", Ref(ChassisPath))
                     @@ One("Oem", J!Obj(One("Google", J!Obj(Text("TopologyRepresentation", "V1")))))))
       @@ (ChassisPath :> One("Members", List(<<Ref(A)>>)))
       @@ (A :> One("Assembly", J!Obj(One("Assemblies", List([i \in DOMAIN x.order |-> AssemblyOf(x, x.order[i])])))))
       @@ [p \in {B, C, K} |-> Text("Name", "n")])
  @@ [uri \in {PartUri(n) : n \in DOMAIN Parts1} |-> J!Obj(Parts1[uri.pointer[1]])]
AssemblyInputs ==
  [kind : {"assemblies"}, order : J!SetToSeqs({"a", "b", "k", "c"}), boardless : BOOLEAN,
   state : {"Enabled", "Disabled"}, garbage : {"null", "stale"}]

\* other is the same hardware, described in another order.
PickTopology ==
  \/ \E x \in ThingInputs :
       /\ input' = x
       /\ world' = [topology |-> Docs(ThingDocuments(x)), other |-> Docs(ThingDocuments([x EXCEPT !.listed = <<Ref(A)>>]))]
  \/ \E x \in AssemblyInputs :
       /\ input' = x
       /\ world' = [topology |-> AssemblyDocs(x), other |-> AssemblyDocs([x EXCEPT !.order = <<"a", "b", "k", "c">>])]

BuildTopology ==
  /\ input.kind \in {"topology", "assemblies"}
  /\ answer' = <<[k \in DOMAIN world |->
       Topo!CreateTopologyFromRedfish(world[k], world[k][At(RootPath)], Config, "V2", input.garbage)]>>

-----------------------------------------------------------------------------
(* The health of B, with conditions that come from it or from memory.      *)

Condition(id, args, origin) ==
  J!Obj(Text("MessageId", id) @@ One("MessageArgs", List(args)) @@ Text("Severity", "Critical")
        @@ [n \in {m \in {"OriginOfCondition"} : origin # <<>>} |-> Ref(origin)])
Two == <<J!Str("id"), J!Num(5)>>
Conditions == {Condition("errors", Two, <<>>), Condition("errors", Two, M1), Condition("threshold", Two, M1),
               Condition("threshold", <<J!Str("id"), J!Str("x")>>, B), Condition("errors", <<J!Str("id")>>, <<>>),
               Condition("unknown", Two, <<>>), Condition("foreign", Two, M1), Condition("malformed", Two, M1),
               Condition("errors", Two, M2), J!Str("none")}
HealthInputs ==
  [kind : {"health"}, conditions : UNION {[1 .. n -> Conditions] : n \in 0 .. 2}, health : {"OK", "Warning", "none"},
   parse_with_ok_health : BOOLEAN]
Resolver == (At(B) :> <<Topo!RootDevpath>>) @@ (At(M1) :> <<Append(Topo!RootDevpath, <<":device:", "m">>)>>)

PickHealth ==
  \E x \in HealthInputs :
    /\ input' = x
    /\ world' = Docs((B :> One("Status", J!Obj(Text("HealthRollup", x.health) @@ One("Conditions", List(x.conditions)))))
                     @@ [p \in {M1, M2} |-> Text("Name", "m")])

RollUp ==
  /\ input.kind = "health"
  /\ answer' = <<Topo!ExtractHealthRollup(world, world[At(B)], Resolver, input.parse_with_ok_health, J!Null)>>

\* An event is reported for each condition that can be read, at the devpath of
\* its origin; one condition without a registry and a type spoils them all.
Readable(c) == J!IsObject(c) /\ J!Field(c, "MessageId").string # "malformed"
OriginOf(c) == IF J!Has(c, "OriginOfCondition") THEN J!UriOf(J!Field(c, "OriginOfCondition")) ELSE At(B)
Reported(c) == /\ J!Field(c, "MessageId").string \in {"errors", "threshold"}
               /\ J!Size(J!Field(c, "MessageArgs")) = 2 /\ OriginOf(c) \in DOMAIN Resolver
Attributed(rollup, conditions) ==
  IF \A i \in DOMAIN conditions : Readable(conditions[i])
  THEN \E kept \in {SelectSeq(conditions, Reported)} :
         /\ rollup.status = "Ok"
         /\ [i \in DOMAIN rollup.events |-> rollup.events[i].origin] = [i \in DOMAIN kept |-> Resolver[OriginOf(kept[i])]]
  ELSE rollup.status = "Internal" /\ rollup.events = <<>>
HealthIsAttributed ==
  LET ill == input.health = "Warning" \/ (input.health = "OK" /\ input.parse_with_ok_health) IN
  CASE ~ill -> answer[1] = [status |-> "Ok", events |-> <<>>]
    [] ill /\ input.conditions = <<>> -> answer[1].status = "FailedPrecondition"
    [] OTHER -> Attributed(answer[1], input.conditions)

-----------------------------------------------------------------------------
\* Each node of an assembly is one step below the node it is attached to, what
\* is plugged in where the devpath of the connector says; what is attached to
\* nothing is the root, or was never reached and has no devpath.
Assembled(t) ==
  \A n \in DOMAIN t.nodes :
    IF t.parents[n] = <<>> THEN t.nodes[n].devpath \in {Topo!RootDevpath, <<>>}
    ELSE \A up \in {t.nodes[t.parents[n][1]]} :
           IF t.nodes[n].type \in {"board", "cable"}
           THEN t.nodes[n].devpath = (IF up.devpath = <<>> THEN <<>> ELSE Topo!GetDevpathFromSlotDevpath(up.devpath)[1])
           ELSE t.nodes[n].devpath = (IF up.devpath = <<>> THEN <<>>
                                      ELSE Append(up.devpath, J!Last(t.nodes[n].devpath)))

WellFormed(t) ==
  /\ \A n \in 2 .. Len(t.nodes) :
       /\ Len(t.parents[n]) = 1 /\ t.parents[n][1] < n
       /\ t.nodes[n].devpath = Append(t.nodes[t.parents[n][1]].devpath, J!Last(t.nodes[n].devpath))
  /\ \A uri \in DOMAIN t.uris : Len(t.uris[uri]) = 1 /\ uri \in J!ToSet(t.nodes[t.uris[uri][1]].uris)
  /\ \A n \in DOMAIN t.nodes : \A r \in {Topo!GetReplaceableDevpath(t, t.nodes[n].devpath)} :
       r # <<>> /\ Prefix(r[1], t.nodes[n].devpath)
  /\ \A n \in DOMAIN t.nodes : \A uri \in J!ToSet(Topo!GetFirstUriForDevpath(t, t.nodes[n].devpath)) :
       Topo!GetDevpathForUri(t, uri) = <<t.nodes[n].devpath>>

Located(t) ==
  /\ \A slot \in {Topo!GetSlotDevpathFromNodeTopology(world.topology, world.topology[At(Slot)], At(Slot), t)} :
       /\ slot # <<>>
       /\ \A n \in DOMAIN t.nodes :
            t.nodes[n].devpath = Topo!GetDevpathFromSlotDevpath(slot[1])[1] => t.nodes[n].name = "b"
  /\ \A path \in {Sensor, Manager, B} :
       \A d \in {Topo!GetDevpathForObjectAndNodeTopology(world.topology, world.topology[At(path)], t)} :
         \/ d # <<>> /\ \E n \in DOMAIN t.nodes : Prefix(t.nodes[n].devpath, d[1])
         \/ d = <<>> /\ At(B) \notin DOMAIN t.uris

\* The topology that is derived from a service is the tree of the hardware: the
\* same one wherever the search starts and in whatever order the assemblies are
\* listed, each node one step of its devpath below its only parent, each
\* resource at one node, and each condition of its health at the devpath of its
\* origin (ExtractHealthRollup); the part to replace for a devpath is always found, on
\* the way to the root
\* (GetReplaceableDevpathForDevpathAndNodeTopology); what is plugged into a
\* slot is the board there (GetDevpathFromSlotDevpath), and sensors and
\* managers are at, or a device of, a node.
DevpathsFollowTheHardware ==
  /\ input.kind = "health" /\ Done => HealthIsAttributed
  /\ input.kind \in {"topology", "assemblies"} /\ Done => \A t \in {answer[1].topology} :
       /\ Topo!HaveTheSameNodes(t, answer[1].other)
       /\ input.kind = "assemblies" /\ ~input.boardless => Assembled(t)
       /\ input.kind = "topology" => WellFormed(t) /\ Located(t)
=============================================================================
