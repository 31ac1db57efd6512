------------------------ MODULE RouterConfiguration ------------------------
(***************************************************************************)
(* What a query router is made of: the queries that its specification      *)
(* selects for each server, with their rules and timeouts, the stable id   *)
(* and the versions that go with them (QueryRouter::Create, util.cc,       *)
(* query_spec.cc).  An optional value is a sequence of one element or      *)
(* none.  files maps the names of files to what they hold, Unparsable for  *)
(* text that is not the proto that is wanted.                              *)
(***************************************************************************)
EXTENDS Integers, Sequences, SequencesExt, TLC

Unparsable == [unparsable |-> 0]

\* GetProto
GetProto(files, name) ==
  CASE name \notin DOMAIN files -> [status |-> "NotFound"]
    [] files[name] = Unparsable -> [status |-> "FailedPrecondition"]
    [] OTHER -> [status |-> "Ok", proto |-> files[name]]

-----------------------------------------------------------------------------
(* Selections *)

ServerClassFromNodeClass(node_class) == IF node_class = "COMPUTE" THEN "COMPUTE" ELSE "UNSPECIFIED"

\* The classes are tried in order; one that is not specified is an error, and
\* is only seen if none before it matched.
ClassVerdict(classes, matching) ==
  LET ends == {i \in DOMAIN classes : classes[i] \in {"UNSPECIFIED"} \union matching} IN
  CASE ends = {} -> "other"
    [] classes[CHOOSE i \in ends : \A k \in ends : i <= k] = "UNSPECIFIED" -> "error"
    [] OTHER -> "matched"

\* The classes that count, the node's before the server's; none does for a
\* server without class.
ClassOf(select, server) ==
  CASE server.class = <<>> -> "matched"
    [] select.node_class # <<>> ->
         ClassVerdict(select.node_class, {c \in ToSet(select.node_class) : ServerClassFromNodeClass(c) = server.class[1]})
    [] select.server_class # <<>> -> ClassVerdict(select.server_class, {server.class[1]})
    [] OTHER -> "matched"

TypeMatches(select, server) == select.server_type = <<>> \/ select.server_type = <<server.type>>
TagMatches(select, server) == select.server_tag = {} \/ server.tag \in select.server_tag

\* One round of the loop of ExecuteOnMatchingSelections.
Selects(select, server) ==
  CASE <<select.server_type, select.server_tag, select.node_class, select.server_class>> = <<<<>>, {}, <<>>, <<>>>> -> "error"
    [] select.server_type = <<"UNSPECIFIED">> -> "error"
    [] ClassOf(select, server) = "error" -> "error"
    [] TypeMatches(select, server) /\ TagMatches(select, server) /\ ClassOf(select, server) = "matched" -> "matched"
    [] OTHER -> "other"

-----------------------------------------------------------------------------
(* The query specification of a server: a map from query ids to            *)
(* [query, rule, timeout].                                                 *)

NoInfo == [query |-> "", rule |-> <<>>, timeout |-> <<>>]
Put(info, id, entry) == (id :> entry) @@ info
InfoOf(info, id) == IF id \in DOMAIN info THEN info[id] ELSE NoInfo
\* AddTimeoutFromSelectionSpec: a selection without a timeout leaves the one there is.
Timeout(spec, entry) == IF spec.timeout = <<>> THEN entry.timeout ELSE spec.timeout

Ok(info) == [status |-> "Ok", info |-> info]
Fail(status) == [status |-> status, info |-> <<>>]

\* The last query stays; a rule or timeout that it has not stays from before.
AddFromPath(info, id, spec, files) ==
  LET query == GetProto(files, spec.query_path)
      rules == GetProto(files, spec.rule_path)
      entry == [InfoOf(info, id) EXCEPT !.query = query.proto.query, !.timeout = Timeout(spec, InfoOf(info, id))]
  IN CASE spec.query_path = "" -> Fail("FailedPrecondition")
       [] query.status # "Ok" -> Fail(query.status)
       [] query.proto.query_id # id -> Fail("FailedPrecondition")
       [] spec.rule_path = "" -> Ok(Put(info, id, entry))
       [] rules.status # "Ok" -> Fail(rules.status)
       [] OTHER -> Ok(Put(info, id, IF id \in DOMAIN rules.proto THEN [entry EXCEPT !.rule = <<rules.proto[id]>>] ELSE entry))

AddFromSpec(info, id, spec) ==
  Ok(Put(info, id, [query |-> spec.query, rule |-> IF spec.rule = <<>> THEN InfoOf(info, id).rule ELSE spec.rule,
                    timeout |-> Timeout(spec, InfoOf(info, id))]))

\* add_to_query_spec; a selection that names no query adds nothing.
AddToQuerySpec(info, id, spec, files) ==
  CASE spec.from = "path" -> AddFromPath(info, id, spec, files)
    [] spec.from = "spec" -> AddFromSpec(info, id, spec)
    [] OTHER -> Ok(info)

\* The rounds of ExecuteOnMatchingQuerySelections, the queries in the order
\* that the map has; a selection without any select ends it.
Rounds(selection_specs, order) ==
  FlattenSeq([q \in DOMAIN order |->
    FlattenSeq([k \in DOMAIN selection_specs[order[q]] |->
      \* Each select of the selection k, or one round to refuse it.
      LET spec == selection_specs[order[q]][k] IN
      IF spec.select = <<>> THEN <<[id |-> order[q], spec |-> spec, select |-> <<>>]>>
      ELSE [s \in DOMAIN spec.select |-> [id |-> order[q], spec |-> spec, select |-> <<spec.select[s]>>]]])])

RECURSIVE ExecuteOnMatchingQuerySelections(_, _, _, _)
ExecuteOnMatchingQuerySelections(info, rounds, server, files) ==
  IF rounds = <<>> THEN Ok(info)
  ELSE \* The first round, then the rest of them unless it fails.
       LET round == Head(rounds)
           verdict == IF round.select = <<>> THEN "error" ELSE Selects(round.select[1], server)
           next == CASE verdict = "error" -> Fail("FailedPrecondition")
                     [] verdict = "matched" -> AddToQuerySpec(info, round.id, round.spec, files)
                     [] OTHER -> Ok(info)
       IN IF next.status # "Ok" THEN next
          ELSE ExecuteOnMatchingQuerySelections(next.info, Tail(rounds), server, files)

GetQuerySpec(router, server, files) ==
  ExecuteOnMatchingQuerySelections(<<>>, Rounds(router.selection_specs, router.order), server, files)

-----------------------------------------------------------------------------
(* Policies *)

\* A policy of the stable id matches by class or tag; its type alone is not enough.
StableIdMatches(select, server) ==
  /\ TypeMatches(select, server)
  /\ server.class[1] \in ToSet(select.server_class) \/ server.tag \in select.server_tag

FirstPolicy(router, server) ==
  LET policies == IF router.stable_id_config = <<>> THEN <<>> ELSE router.stable_id_config[1]
      matching == {i \in DOMAIN policies : StableIdMatches(policies[i].select, server)}
  IN IF matching = {} THEN <<>> ELSE <<policies[CHOOSE i \in matching : \A k \in matching : i <= k]>>

GetStableIdTypeFromRouterSpec(router, server) ==
  LET policy == FirstPolicy(router, server) IN
  IF policy = <<>> THEN router.default_stable_id_type ELSE policy[1].stable_id_type

\* Mutant of GetTopologyConfigNameFromRouterSpec: the first policy of all is asked.
TopologyOfAnyPolicy(router, server) ==
  IF router.stable_id_config \in {<<>>, <<<<>>>>} THEN <<>> ELSE <<router.stable_id_config[1][1].topology_config_path>>

GetTopologyConfigNameFromRouterSpec(router, server) ==
  LET policy == FirstPolicy(router, server) IN
  IF policy = <<>> THEN <<>> ELSE <<policy[1].topology_config_path>>

RouterSpecStableIdToQueryEngineStableId(type) ==
  IF type = "TOPOLOGY_DERIVED" THEN "kRedfishLocationDerived" ELSE "kRedfishLocation"

VersionMatches(select, server) ==
  /\ TypeMatches(select, server)
  /\ TagMatches(select, server)
  /\ select.server_class = <<>> \/ server.class[1] \in ToSet(select.server_class)

\* The last policy that matches a query says its versions.
GetQueryIdToBmcVersionFromRouterSpec(router, server) ==
  LET configs == router.query_id_to_version_config
      matching(q) == {i \in DOMAIN configs[q] : VersionMatches(configs[q][i].select, server)}
  IN [q \in {id \in DOMAIN configs : matching(id) # {}} |->
        configs[q][CHOOSE i \in matching(q) : \A k \in matching(q) : k <= i].bmc_version]

-----------------------------------------------------------------------------
(* Versions: a string is the parts between its dots, after the prefix if   *)
(* it has it; a part is a number or NotANumber.                            *)

NotANumber == -1
ParseVersion(v) ==
  IF v.prefix /\ Len(v.parts) >= 3 /\ \A i \in 1 .. 3 : v.parts[i] # NotANumber THEN <<SubSeq(v.parts, 1, 3)>> ELSE <<>>

\* operator< of std::tuple
Less(a, b) == \E i \in DOMAIN a : a[i] < b[i] /\ \A k \in 1 .. i - 1 : a[k] = b[k]

\* What cannot be parsed restricts nothing.
IsBmcVersionCompatible(bmc_version, version) ==
  \A current \in ToSet(ParseVersion(version)) :
    /\ \A v \in ToSet(bmc_version.min_version) : \A min \in ToSet(ParseVersion(v)) : ~Less(current, min)
    /\ \A v \in ToSet(bmc_version.max_version) : \A max \in ToSet(ParseVersion(v)) : ~Less(max, current)

\* versions has the version of each server that the caller knows.
CanIncludeQuery(id, versions, entry) ==
  entry.server_info \in DOMAIN versions /\ id \in DOMAIN entry.query_id_to_bmc_version =>
    IsBmcVersionCompatible(entry.query_id_to_bmc_version[id], versions[entry.server_info])

-----------------------------------------------------------------------------
(* QueryRouter::Create *)

PatternStatus(router) ==
  CASE router.query_pattern = "SERIAL_ALL" -> "Ok"
    [] router.query_pattern \in {"SERIAL_AGENT", "PARALLEL_ALL"} /\ router.max_concurrent_threads > 0 -> "Ok"
    [] OTHER -> "FailedPrecondition"

Cache(router) ==
  IF router.cache_duration_ms <= 0 THEN "null" ELSE IF router.deep_cache THEN "deep" ELSE "shallow"

\* The transport has been moved away before it is looked at, so a server with a
\* factory and an arbiter type gets an arbiter whether it came with a transport.
EngineFor(router, spec) ==
  [stable_id_type |-> IF spec.stable_id_type # <<>> THEN spec.stable_id_type[1]
                      ELSE RouterSpecStableIdToQueryEngineStableId(GetStableIdTypeFromRouterSpec(router, spec.server_info)),
   topology |-> GetTopologyConfigNameFromRouterSpec(router, spec.server_info),
   features |-> IF router.features = <<>> THEN "standard" ELSE router.features[1],
   cache |-> Cache(router),
   arbiter |-> spec.transport_factory /\ spec.transport_arbiter_type # <<>>,
   refresh |-> router.transport_arbiter_refresh]

\* One entry of the routing table; factories says whether an engine can be made.
Entry(router, spec, files, factories) ==
  LET query_spec == GetQuerySpec(router, spec.server_info, files) IN
  CASE query_spec.status # "Ok" -> [status |-> query_spec.status]
    [] ~factories -> [status |-> "Internal"]
    [] OTHER -> [status |-> "Ok", server_info |-> spec.server_info, engine |-> EngineFor(router, spec),
                 query_spec |-> query_spec.info, query_ids |-> DOMAIN query_spec.info,
                 query_id_to_bmc_version |-> GetQueryIdToBmcVersionFromRouterSpec(router, spec.server_info),
                 node_local_system_id |-> spec.node_local_system_id]

Create(router, servers, files, factories) ==
  LET table == [i \in DOMAIN servers |-> Entry(router, servers[i], files, factories)]
      failed == {i \in DOMAIN table : table[i].status # "Ok"}
  IN CASE PatternStatus(router) # "Ok" -> [status |-> PatternStatus(router)]
       [] failed # {} -> [status |-> table[CHOOSE i \in failed : \A k \in failed : i <= k].status]
       [] OTHER -> [status |-> "Ok", table |-> table]

\* The variables of a query by its id.  The test for a variable that the caller
\* set looks for its name among the ids of queries, so it is added to it.
CreateQueryArgumentsWithSystemId(query_ids, arguments, system_id) ==
  IF "SYSTEM_ID" \in DOMAIN arguments THEN arguments
  ELSE [q \in DOMAIN arguments \union query_ids |->
          (IF q \in DOMAIN arguments THEN arguments[q] ELSE <<>>)
          \o (IF q \in query_ids THEN <<<<"SYSTEM_ID", system_id>>>> ELSE <<>>)]

-----------------------------------------------------------------------------
(* QuerySpec: queries and rules from files, and one after the other. *)

RECURSIVE AddQueries(_, _)
AddQueries(info, queries) ==
  CASE queries = <<>> -> Ok(info)
    [] Head(queries) = Unparsable -> Fail("Internal")
    [] Head(queries).query_id \in DOMAIN info -> Fail("Internal")
    [] OTHER -> AddQueries(Put(info, Head(queries).query_id, [NoInfo EXCEPT !.query = Head(queries).query]), Tail(queries))

\* The last file with a rule for a query gives it; rules for other queries are left out.
FromQueryContext(queries, rules) ==
  LET info == AddQueries(<<>>, queries).info
      ruling(q) == {i \in DOMAIN rules : q \in DOMAIN rules[i]}
  IN CASE AddQueries(<<>>, queries).status # "Ok" -> AddQueries(<<>>, queries)
       [] Unparsable \in ToSet(rules) -> Fail("Internal")
       [] OTHER -> Ok([q \in DOMAIN info |->
                         IF ruling(q) = {} THEN info[q]
                         ELSE [info[q] EXCEPT !.rule = <<rules[CHOOSE i \in ruling(q) : \A k \in ruling(q) : k <= i][q]>>]])

FromQueryFiles(query_files, query_rules, files) ==
  IF \E name \in ToSet(query_files) \union ToSet(query_rules) : name \notin DOMAIN files THEN Fail("NotFound")
  ELSE FromQueryContext([i \in DOMAIN query_files |-> files[query_files[i]]],
                        [i \in DOMAIN query_rules |-> files[query_rules[i]]])

\* QuerySpec::Add
Add(info, spec) ==
  CASE spec.query_id = "" -> Fail("InvalidArgument")
    [] spec.query_id \in DOMAIN info -> Fail("AlreadyExists")
    [] spec.timeout = <<"invalid">> -> Fail("InvalidArgument")
    [] OTHER -> Ok(Put(info, spec.query_id, [query |-> spec.query, rule |-> spec.rule, timeout |-> spec.timeout]))
=============================================================================
