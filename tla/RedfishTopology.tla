--------------------------- MODULE RedfishTopology ---------------------------
(***************************************************************************)
(* The physical topology that is derived from a Redfish service: nodes     *)
(* with devpaths, from Assemblies (topology.cc) or from Links, Location    *)
(* and Cables (topology_v2.cc), and the devpaths of resources that are no  *)
(* nodes (devpath.cc, utils.cc, location.cc); at the end, the events that  *)
(* are attributed to them (health_rollup.cc).                              *)
(*                                                                         *)
(* A devpath is a sequence of <<separator, name>>; ":connector:" and       *)
(* ":device:" are separators like "/".  A topology is a record             *)
(*   [nodes, uris, devpaths, parents]                                      *)
(* where nodes is a sequence and the three maps hold indices into it       *)
(* (node_to_children is kept by the code as the inverse of parents).       *)
(***************************************************************************)
EXTENDS RedfishTree

\* Blanks are trimmed or replaced by '_', capitals made small: several names
\* may become one.
CONSTANT Converted(_)
\* A MessageId, split at its dots.
CONSTANT MessageParts(_)

RootDevpath == <<<<"/", "phys">>>>
NoTopology == [nodes |-> <<>>, uris |-> <<>>, devpaths |-> <<>>, parents |-> <<>>]

\* GetConvertedResourceType: a memory module is named for its kind.
ConvertedProperty(docs, v, name) ==
  LET kind == StringAt(docs, v, "MemoryDeviceType")
      plain == StringAt(docs, v, name)
  IN  IF ResourceType(docs, v) = "Memory" /\ kind # <<>> THEN <<Converted(kind[1])>>
      ELSE IF plain # <<>> THEN <<Converted(plain[1])>> ELSE <<>>

\* GetSupplementalLocationInfo
PlaceOf(docs, v) ==
  FirstOf(<<ObjectAt(docs, v, <<"Location">>), ObjectAt(docs, v, <<"PhysicalLocation">>)>>)
Supplement(label, context) ==
  IF label = <<>> /\ context = <<>> THEN <<>>
  ELSE <<[label |-> Or(label, ""), context |-> Or(context, "")]>>
SupplementalLocation(docs, place) ==
  LET part == ObjectAt(docs, place[1], <<"PartLocation">>) IN
  IF place = <<>> \/ part = <<>> THEN <<>>
  ELSE Supplement(StringAt(docs, part[1], "ServiceLabel"), StringAt(docs, place[1], "PartLocationContext"))

-----------------------------------------------------------------------------
(* topology_v2.cc *)

\* FindAllCablesHelper: the cables that have an upstream resource and a place,
\* each with the URI of the former; the last of the upstream links counts.
Cables(docs, root, config) ==
  LET upstream(cable) ==
        FoldLeft(LAMBDA uri, link :
            LET one == Descend(docs, cable, <<"Links", link>>)
                many == Items(docs, one)
            IN  IF many # <<>> /\ IsObject(many[1]) THEN UriString(many[1])
                ELSE IF IsObject(one) THEN UriString(one) ELSE uri,
          <<>>, config.upstream_links)
      usable(cable) == /\ ObjectAt(docs, cable, <<"Links">>) # <<>>
                       /\ upstream(cable) # <<>>
                       /\ ObjectAt(docs, cable, <<"Location", "PartLocation">>) # <<>>
      all == SelectSeq(Each(docs, root, "Cables"), usable)
  IN  [i \in DOMAIN all |-> [cable |-> all[i], upstream |-> upstream(all[i])[1]]]

RECURSIVE FindAllDownstreamsUris(_, _, _, _)

\* What a resource of this type leads to, and the URIs visited with what the
\* links to skip lead to.
FindAllDownstreamsUris(docs, v, config, visited) ==
  LET rules == config.resources[ResourceType(docs, v)]
      links == Child(docs, v, "Links")
      each(j, names) == FlattenSeq([i \in DOMAIN names |-> Each(docs, j, names[i])])
      one(j, names) == FlattenSeq([i \in DOMAIN names |-> ObjectAt(docs, j, <<names[i]>>)])
      direct == each(v, rules.arrays)
                \o FlattenSeq([i \in DOMAIN rules.collections |->
                     EachOf(docs, Descend(docs, v, <<rules.collections[i], "Members">>))])
                \o one(v, rules.singles)
                \o one(links, rules.links) \o each(links, rules.array_links)
      skip(acc, w) ==
        LET uri == UriString(w)
            next == FindAllDownstreamsUris(docs, w, config, acc.visited \union {uri[1]})
        IN  IF uri = <<>> \/ uri[1] \in acc.visited THEN acc
            ELSE [objects |-> acc.objects \o next.objects, visited |-> next.visited]
  IN  IF ResourceType(docs, v) \notin DOMAIN config.resources
      THEN [objects |-> <<>>, visited |-> visited]
      ELSE FoldLeft(skip, [objects |-> direct, visited |-> visited],
                    each(links, rules.skip_links))

RECURSIVE Upstream(_, _, _, _)

\* The loop of FindRootChassisUri: up the chassis_link or, where there is none,
\* up the cable.
Upstream(docs, config, above, chassis) ==
  LET link == ObjectAt(docs, chassis, <<"Links", config.chassis_link>>)
      uri == UriString(chassis)
      cable == IF uri # <<>> /\ uri[1] \in DOMAIN above
               THEN Fetch(docs, above[uri[1]]) ELSE Null
  IN  IF link # <<>> THEN Upstream(docs, config, above, link[1])
      ELSE IF IsObject(cable) THEN Upstream(docs, config, above, cable) ELSE chassis

\* FindRootNode, FindRootChassisUri
FindRootNode(docs, root, config) ==
  LET valid == SelectSeq(Items(docs, Fetch(docs, config.chassis_uri)), LAMBDA m : m # Null)
      above == FoldLeft(LAMBDA map, c :
                 FoldLeft(LAMBDA m, w : IF UriString(w) = <<>> THEN m ELSE Put(m, UriString(w)[1], c.upstream),
                          map, FindAllDownstreamsUris(docs, c.cable, config, {}).objects),
                 <<>>, Cables(docs, root, config))
  IN  IF valid = <<>> \/ UriString(valid[1]) = <<>> THEN <<>>
      ELSE <<Upstream(docs, config, above, valid[1])>>

\* Replaceable, or what Oem.Google says of it; parts are replaceable by default.
IsReplaceable(docs, v) ==
  Or(FirstOf(<<BoolAt(docs, v, "Replaceable"),
               BoolAt(docs, Descend(docs, v, <<"Oem", "Google">>), "Replaceable")>>), TRUE)
Node(docs, v, place, name, devpath, kind, replaceable) ==
  [name |-> name, model |-> Or(ConvertedProperty(docs, v, "Model"), name),
   devpath |-> devpath, replaceable |-> replaceable, uris |-> UriString(v),
   type |-> IF ResourceType(docs, v) = "Cable" THEN "cable" ELSE kind,
   location |-> SupplementalLocation(docs, place)]

\* The node of a resource that is plugged into, or part of, its parent's node;
\* none if the location cannot be handled.
ChildNode(docs, v, place, part, name, above) ==
  LET type == StringAt(docs, part, "LocationType")
      label == StringAt(docs, part, "ServiceLabel")
  IN  CASE type = <<>> \/ name = <<>> -> <<>>
        [] type = <<"Embedded">> ->
             <<Node(docs, v, place, name[1], Append(above, <<":device:", name[1]>>), "device", FALSE)>>
        [] type[1] \in {"Slot", "Connector", "Bay", "Backplane", "Socket"} ->
             IF label = <<>> THEN <<>>
             ELSE <<Node(docs, v, place, name[1], Append(above, <<"/", label[1]>>), "board", IsReplaceable(docs, v))>>
        [] OTHER -> <<>>

\* A node is added: as the root, or below its parent.  The result has the node
\* that what lies downstream is attached to, or 0 if the search ends here.
Added(topology, node, uri, parent) ==
  LET n == Len(topology.nodes) + 1 IN
  IF node = <<>> THEN [topology |-> topology, at |-> 0]
  ELSE [topology |-> [topology EXCEPT !.nodes = Append(@, node[1]), !.uris = Push(@, uri, n),
                        !.devpaths = Put(@, node[1].devpath, n),
                        !.parents = IF parent = 0 THEN @ ELSE Push(@, n, parent)],
        at |-> n]

\* One resource of the queue becomes the root, is attached to its parent's node,
\* or becomes a node of its own.
Attach(docs, topology, v, uri, parent, place) ==
  LET part == Child(docs, place[1], "PartLocation")
      absent == StringAt(docs, Descend(docs, v, <<"Status">>), "State") = <<"Absent">>
      name == ConvertedProperty(docs, v, "Name")
  IN  CASE parent = 0 ->
             Added(topology, <<[Node(docs, v, place, Or(name, "root"), RootDevpath, "board", TRUE)
                                 EXCEPT !.type = "board"]>>, uri, 0)
        [] parent # 0 /\ (place = <<>> \/ ~IsObject(part)) ->
             [topology |-> [topology EXCEPT !.nodes[parent].uris = Append(@, uri),
                                            !.uris = Push(@, uri, parent)],
              at |-> parent]
        [] OTHER -> Added(topology, IF absent THEN <<>>
                                    ELSE ChildNode(docs, v, place, part, name, topology.nodes[parent].devpath),
                          uri, parent)

\* What was found downstream joins the queue, unless it was visited.
\* Mutant of Enqueue: what was visited is queued again.
EnqueueAll(s, found, at) ==
  FoldLeft(LAMBDA acc, w :
      IF UriString(w) = <<>> THEN acc ELSE [acc EXCEPT !.queue = Append(@, [parent |-> at, object |-> w])],
    s, found)
Enqueue(s, found, at) ==
  FoldLeft(LAMBDA acc, w :
      IF UriString(w) = <<>> \/ UriString(w)[1] \in acc.visited THEN acc
      ELSE [acc EXCEPT !.queue = Append(@, [parent |-> at, object |-> w]), !.visited = @ \union {UriString(w)[1]}],
    s, found)
HungOn(docs, cables, uri) ==
  SelectSeq([i \in DOMAIN cables |-> IF cables[i].upstream = uri THEN Fetch(docs, UriString(cables[i].cable)[1])
                                     ELSE Null],
            IsObject)
Beyond(docs, config, cables, s, entry, uri, step, down) ==
  LET google == Fetch(docs, config.google_root)
      first == IF entry.parent = 0 /\ IsObject(google) THEN <<[parent |-> step.at, object |-> google]>> ELSE <<>>
  IN  IF step.at = 0 THEN [s EXCEPT !.queue = Tail(@)]
      ELSE Enqueue([topology |-> step.topology, queue |-> Tail(s.queue) \o first, visited |-> down.visited],
                   down.objects \o HungOn(docs, cables, uri), step.at)

\* One turn of the loop of CreateTopologyFromRedfishV2, which is breadth first.
Visit(docs, config, cables, s) ==
  LET entry == Head(s.queue)
      uri == UriString(entry.object)
  IN  IF uri = <<>> THEN [s EXCEPT !.queue = Tail(@)]
      ELSE Beyond(docs, config, cables, s, entry, uri[1],
                  Attach(docs, s.topology, entry.object, uri[1], entry.parent, PlaceOf(docs, entry.object)),
                  FindAllDownstreamsUris(docs, entry.object, config, s.visited))

RECURSIVE Build(_, _, _, _)
Build(docs, config, cables, s) ==
  IF s.queue = <<>> THEN s.topology ELSE Build(docs, config, cables, Visit(docs, config, cables, s))

CreateTopologyFromRedfishV2(docs, root, config) ==
  LET start == FindRootNode(docs, root, config) IN
  IF start = <<>> THEN NoTopology
  ELSE Build(docs, config, SelectSeq(Cables(docs, root, config), LAMBDA c : UriString(c.cable) # <<>>),
             [topology |-> NoTopology, queue |-> <<[parent |-> 0, object |-> start[1]]>>, visited |-> {}])

-----------------------------------------------------------------------------
(* topology.cc *)

\* AssemblyIsEnabled and ExtractAssemblyProperties, for every object of walks.
AssemblyWalks ==
  <<<<"Chassis">>, <<"Systems">>, <<"Systems", "Memory">>, <<"Systems", "Processors">>,
    <<"Systems", "EthernetInterfaces">>, <<"Systems", "Storage", "Drives">>>>
AssembliesOf(docs, v) ==
  SelectSeq(EachOf(docs, Descend(docs, v, <<"Assembly", "Assemblies">>)),
            LAMBDA a : \A status \in ToSet(ObjectAt(docs, a, <<"Status">>)) :
                         StringAt(docs, status, "State") = <<"Enabled">>)

RECURSIVE BelowEach(_, _, _)
\* The objects of nested collections, each collection of an object after all
\* that is below the collection before it.
BelowEach(docs, v, names) ==
  IF names = <<>> THEN AssembliesOf(docs, v)
  ELSE FlattenSeq([i \in DOMAIN Each(docs, v, names[1]) |->
         BelowEach(docs, Each(docs, v, names[1])[i], Tail(names))])

\* FindAssemblyPayloads.  Within a system the order is that of AssemblyWalks.
FindAssemblyPayloads(docs, root) ==
  BelowEach(docs, root, <<"Chassis">>)
  \o FlattenSeq([i \in DOMAIN Each(docs, root, "Systems") |->
       LET system == Each(docs, root, "Systems")[i] IN
       FlattenSeq([k \in 2 .. Len(AssemblyWalks) |-> BelowEach(docs, system, Tail(AssemblyWalks[k]))])])

\* ProcessAssembly: the assembly without upstream or components if there is
\* nothing under Oem.Google, and nothing at all without a name.
ProcessAssembly(docs, v) ==
  LET name == StringAt(docs, v, "Name")
      google == ObjectAt(docs, v, <<"Oem", "Google">>)
      uris(w, list) == FlattenSeq([i \in DOMAIN Each(docs, w, list) |->
                                     UriString(Each(docs, w, list)[i])])
      component(c) ==
        LET own == StringAt(docs, c, "Name") IN
        [name |-> own[1], model |-> Or(StringAt(docs, c, "Model"), own[1]), id |-> UriString(c)[1],
         uris |-> uris(c, "AssociatedWith"), devpath |-> <<>>, sequence |-> <<>>,
         type |-> IF own = name THEN "board"
                  ELSE IF StringAt(docs, c, "PhysicalContext") = <<"Connector">> THEN "connector" ELSE "device"]
      parts == SelectSeq(Each(docs, google[1], "Components"),
                         LAMBDA c : UriString(c) # <<>> /\ StringAt(docs, c, "Name") # <<>>)
  IN  IF name = <<>> THEN <<>>
      ELSE <<[name |-> name[1], model |-> Or(StringAt(docs, v, "Model"), name[1]),
              upstream |-> IF google = <<>> THEN <<>> ELSE uris(google[1], "AttachedTo"),
              components |-> IF google = <<>> THEN <<>> ELSE [i \in DOMAIN parts |-> component(parts[i])]]>>

\* GenerateDevpathsForComponents
WithDevpaths(assembly, sequence) ==
  [assembly EXCEPT !.components = [i \in DOMAIN @ |->
     [@[i] EXCEPT !.sequence = sequence,
                  !.devpath = CASE assembly.components[i].type = "board" -> sequence
                                [] assembly.components[i].type = "connector" ->
                                     Append(sequence, <<":connector:", assembly.components[i].name>>)
                                [] OTHER -> Append(sequence, <<":device:", assembly.components[i].name>>)]]]

\* One assembly of a pass: it waits until its first upstream component has a
\* devpath.  known maps URIs to the components of the assemblies done so far.
Place(acc, i) ==
  LET a == acc.assemblies[i]
      sequence == IF a.upstream = <<>> THEN RootDevpath
                  ELSE Append(acc.known[a.upstream[1]].sequence, <<"/", acc.known[a.upstream[1]].name>>)
      placed == WithDevpaths(a, sequence)
  IN  IF i \in acc.processed \/ (a.upstream # <<>> /\ a.upstream[1] \notin DOMAIN acc.known) THEN acc
      ELSE [assemblies |-> [acc.assemblies EXCEPT ![i] = placed], processed |-> acc.processed \union {i},
            known |-> FoldLeft(LAMBDA map, c : Put(map, c.id, c), acc.known, placed.components)]

RECURSIVE Passes(_)
Passes(acc) ==
  LET next == FoldLeft(Place, acc, [i \in DOMAIN acc.assemblies |-> i]) IN
  IF next.processed = acc.processed THEN next ELSE Passes(next)

GenerateDevpaths(assemblies) ==
  Passes([assemblies |-> assemblies, processed |-> {}, known |-> <<>>]).assemblies

CreateAssembliesFromRedfish(docs, root) ==
  LET payloads == FindAssemblyPayloads(docs, root) IN
  GenerateDevpaths(FlattenSeq([i \in DOMAIN payloads |-> ProcessAssembly(docs, payloads[i])]))

\* One assembly of CreateNodeTopologyFromAssemblies.  A board with nothing but
\* a connector DOWNLINK is a cable.  In an assembly without a board the pointer
\* assembly_primary_node is read uninitialized: if it happens to be null the
\* nodes are dropped while the maps keep pointing at them (Dangling), if it
\* holds the board of the assembly before, that one may become a cable.
Dangling == 0
AddAssembly(acc, assembly) ==
  LET parts == assembly.components
      boards == {i \in DOMAIN parts : parts[i].type = "board"}
      board == CHOOSE i \in boards : \A k \in boards : i <= k
      last == CHOOSE i \in boards : \A k \in boards : k <= i
      downlink == Len(parts) = 2 /\ \E i \in DOMAIN parts : parts[i].name = "DOWNLINK"
      old == IF boards = {} /\ acc.garbage = "stale" /\ downlink
             THEN [acc.topology.nodes EXCEPT ![acc.primary].type = "cable"] ELSE acc.topology.nodes
      dropped == boards = {} /\ acc.garbage = "null"
      index(i) == IF dropped THEN Dangling ELSE Len(old) + i
      attached(i) == IF i \in boards THEN assembly.upstream
                     ELSE IF boards = {} THEN <<>> ELSE <<parts[board].id>>
      node(i) == [name |-> parts[i].name, model |-> parts[i].model, devpath |-> parts[i].devpath,
                  type |-> IF boards # {} /\ i = last /\ downlink THEN "cable" ELSE parts[i].type,
                  replaceable |-> FALSE, uris |-> parts[i].uris, location |-> <<>>]
      all == [i \in DOMAIN parts |-> i]
  IN  IF parts = <<>> THEN acc
      ELSE [acc EXCEPT
        !.topology.nodes = IF dropped THEN @ ELSE old \o [i \in DOMAIN parts |-> node(i)],
        !.topology.uris = FoldLeft(LAMBDA map, i :
           FoldLeft(LAMBDA m, uri : Push(m, uri, index(i)), map, parts[i].uris), @, all),
        !.topology.devpaths = FoldLeft(LAMBDA map, i : Put(map, parts[i].devpath, index(i)), @, all),
        !.ids = FoldLeft(LAMBDA map, i : Put(map, parts[i].id, index(i)), @, all),
        !.primary = IF boards = {} THEN @ ELSE index(last),
        !.attached = IF dropped THEN @ ELSE @ \o [i \in DOMAIN parts |-> attached(i)]]

CreateNodeTopologyFromAssemblies(assemblies, garbage) ==
  LET acc == FoldLeft(AddAssembly, [topology |-> NoTopology, ids |-> <<>>, attached |-> <<>>,
                                    primary |-> 1, garbage |-> garbage], assemblies) IN
  [acc.topology EXCEPT !.parents = [n \in DOMAIN acc.attached |->
     LET known == SelectSeq(acc.attached[n], LAMBDA id : id \in DOMAIN acc.ids) IN
     [i \in DOMAIN known |-> acc.ids[known[i]]]]]

\* CreateTopologyFromRedfish: the service's representation, or the default.
CreateTopologyFromRedfish(docs, root, config, default, garbage) ==
  LET google == ObjectAt(docs, root, <<"Oem", "Google">>)
      named == IF google = <<>> THEN <<>> ELSE StringAt(docs, google[1], "TopologyRepresentation")
      version == IF named \in {<<"V1">>, <<"V2">>} THEN named[1] ELSE default
  IN  IF version = "V1" THEN CreateNodeTopologyFromAssemblies(CreateAssembliesFromRedfish(docs, root), garbage)
      ELSE CreateTopologyFromRedfishV2(docs, root, config)

\* NodeTopologiesHaveTheSameNodes
HaveTheSameNodes(t1, t2) == Len(t1.nodes) = Len(t2.nodes) /\ ToSet(t2.nodes) \subseteq ToSet(t1.nodes)

-----------------------------------------------------------------------------
(* devpath.cc; no alternate_resolver. *)

GetDevpathForUri(topology, uri) ==
  IF Found(topology.uris, uri) = <<>> THEN <<>> ELSE <<topology.nodes[topology.uris[uri][1]].devpath>>

GetFirstUriForDevpath(topology, devpath) ==
  IF devpath \notin DOMAIN topology.devpaths \/ topology.nodes[topology.devpaths[devpath]].uris = <<>> THEN <<>>
  ELSE <<topology.nodes[topology.devpaths[devpath]].uris[1]>>

\* /redfish/v1/Chassis/<id>, of a longer URI.
ChassisPrefix(uri) == [path |-> SubSeq(uri.path, 1, 3), pointer |-> <<>>]
UnderChassis(uri) == Len(uri.path) >= 3 /\ uri.path[2] = "Chassis"

\* A sensor is where the first item it is related to is, or where it is
\* itself, or where its chassis is.
GetSensorDevpathFromNodeTopology(v, topology) ==
  LET related == Field(v, "RelatedItem").array
      uri == UriString(v)
  IN  FirstOf(<<IF Has(v, "RelatedItem") /\ related # <<>> /\ HasUri(related[1])
                THEN GetDevpathForUri(topology, UriOf(related[1])) ELSE <<>>,
                IF uri = <<>> THEN <<>> ELSE GetDevpathForUri(topology, uri[1]),
                IF uri # <<>> /\ UnderChassis(uri[1]) /\ Len(uri[1].path) > 3
                THEN GetDevpathForUri(topology, ChassisPrefix(uri[1])) ELSE <<>>>>)

GetManagerDevpathFromNodeTopology(docs, v, topology) ==
  LET within == ObjectAt(docs, v, <<"Links", "ManagerInChassis">>)
      devpath == IF within = <<>> \/ UriString(within[1]) = <<>> THEN <<>>
                 ELSE GetDevpathForUri(topology, UriString(within[1])[1])
      name == ConvertedProperty(docs, v, "Name")
  IN  IF devpath # <<>> /\ name # <<>> THEN <<Append(devpath[1], <<":device:", name[1]>>)>>
      ELSE IF UriString(v) = <<>> THEN <<>> ELSE GetDevpathForUri(topology, UriString(v)[1])

GetDevpathForObjectAndNodeTopology(docs, v, topology) ==
  CASE ResourceType(docs, v) = "Manager" -> GetManagerDevpathFromNodeTopology(docs, v, topology)
    [] ResourceType(docs, v) = "Sensor" -> GetSensorDevpathFromNodeTopology(v, topology)
    [] OTHER -> IF UriString(v) = <<>> THEN <<>> ELSE GetDevpathForUri(topology, UriString(v)[1])

GetSlotDevpathFromNodeTopology(docs, v, parent, topology) ==
  LET board == GetDevpathForUri(topology, ChassisPrefix(parent))
      part == FirstOf(<<ObjectAt(docs, v, <<"Location", "PartLocation">>),
                        ObjectAt(docs, v, <<"PhysicalLocation", "PartLocation">>)>>)
      label == StringAt(docs, part[1], "ServiceLabel")
  IN  IF ~UnderChassis(parent) \/ board = <<>> \/ part = <<>> \/ label = <<>> THEN <<>>
      ELSE <<Append(board[1], <<":connector:", label[1]>>)>>

\* What is plugged into a slot.
GetDevpathFromSlotDevpath(devpath) ==
  IF \A i \in DOMAIN devpath : devpath[i][1] # ":connector:" THEN <<>>
  ELSE <<[i \in DOMAIN devpath |-> IF devpath[i][1] = ":connector:" THEN <<"/", devpath[i][2]>> ELSE devpath[i]]>>

RECURSIVE Replaceable(_, _)
\* The loop of GetReplaceableDevpathForDevpathAndNodeTopology.
Replaceable(topology, queue) ==
  CASE queue = <<>> -> <<>>
    [] queue # <<>> /\ topology.nodes[queue[1]].replaceable -> <<topology.nodes[queue[1]].devpath>>
    [] OTHER -> Replaceable(topology, Tail(queue) \o Found(topology.parents, queue[1]))
GetReplaceableDevpath(topology, devpath) ==
  IF devpath \notin DOMAIN topology.devpaths THEN <<>>
  ELSE Replaceable(topology, <<topology.devpaths[devpath]>>)

-----------------------------------------------------------------------------
(* health_rollup.cc: the events behind the health of a resource, each with *)
(* the devpath of its origin.  An answer is [status, events].              *)

Outcome(status, events) == [status |-> status, events |-> events]

\* GetMessageRegistryAndTypeForCondition
RegistryAndType(docs, condition) ==
  LET id == StringAt(docs, condition, "MessageId") IN
  IF id = <<>> \/ Len(MessageParts(id[1])) # 4 THEN <<>>
  ELSE <<[registry |-> MessageParts(id[1])[1], type |-> MessageParts(id[1])[4]]>>

\* ExtractResourceEventFromMessageArgs.  A threshold that is no number is read
\* uninitialized, a string that is none stays empty.
ExtractResourceEventFromMessageArgs(docs, args, message, garbage) ==
  LET text(j) == IF Tag(j) = "string" THEN j.string ELSE ""
      event(value) == <<[kind |-> message.type, id |-> text(Items(docs, args)[1]), value |-> value,
                         severity |-> <<>>, time |-> <<>>, origin |-> <<>>]>>
  IN  CASE message.registry # "ResourceEvent" \/ Len(Members(args)) < 2 -> <<>>
        [] message.registry = "ResourceEvent" /\ Len(Members(args)) >= 2 ->
             CASE message.type \in {"ResourceErrorsDetected", "ResourceStateChanged"} ->
                    event(Str(text(Items(docs, args)[2])))
               [] message.type = "ResourceErrorThresholdExceeded" ->
                    event(IF IsNumber(Items(docs, args)[2]) THEN Items(docs, args)[2] ELSE garbage)
               [] OTHER -> <<>>

\* Where the condition comes from: the resource it names, if that is another
\* one.  Without a devpath the event is dropped, unless the resource has no URI.
Origin(docs, v, condition, resolver) ==
  LET origin == Child(docs, condition, "OriginOfCondition")
      from == IF IsObject(origin) /\ UriString(origin) # UriString(v) THEN origin ELSE v
  IN  IF UriString(from) = <<>> THEN <<>> ELSE Found(resolver, UriString(from)[1])

Event(docs, v, condition, event, origin) ==
  IF event = <<>> \/ (UriString(v) # <<>> /\ origin = <<>>) THEN <<>>
  ELSE <<[event[1] EXCEPT !.severity = StringAt(docs, condition, "Severity"),
                          !.time = StringAt(docs, condition, "Timestamp"),
                          !.origin = IF UriString(v) = <<>> THEN <<>> ELSE origin]>>

RECURSIVE ConditionsFrom(_, _, _, _, _, _)
ConditionsFrom(docs, v, conditions, resolver, garbage, events) ==
  LET condition == Head(conditions)
      message == RegistryAndType(docs, condition)
  IN  IF conditions = <<>> THEN Outcome("Ok", events)
      ELSE IF ~IsObject(condition) \/ message = <<>> THEN Outcome("Internal", <<>>)
      ELSE ConditionsFrom(docs, v, Tail(conditions), resolver, garbage,
             events \o Event(docs, v, condition,
               ExtractResourceEventFromMessageArgs(docs, Child(docs, condition, "MessageArgs"), message[1], garbage),
               Origin(docs, v, condition, resolver)))

Parsed(parse_with_ok_health) ==
  {<<"Critical">>, <<"Warning">>} \union IF parse_with_ok_health THEN {<<"OK">>} ELSE {}

ExtractHealthRollup(docs, v, resolver, parse_with_ok_health, garbage) ==
  LET status == Child(docs, v, "Status")
      conditions == Items(docs, Child(docs, status, "Conditions"))
  IN  IF ~IsObject(status) THEN Outcome("Internal", <<>>)
      ELSE IF StringAt(docs, status, "HealthRollup") \notin Parsed(parse_with_ok_health) THEN Outcome("Ok", <<>>)
      ELSE IF conditions = <<>> THEN Outcome("FailedPrecondition", <<>>)
      ELSE ConditionsFrom(docs, v, conditions, resolver, garbage, <<>>)
=============================================================================
