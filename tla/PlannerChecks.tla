---------------------------- MODULE PlannerChecks ----------------------------
(***************************************************************************)
(* The older planner against what a query means: two chassis with sensors, *)
(* a system with a log of raw bytes, and any one resource broken.          *)
(***************************************************************************)
EXTENDS AlgorithmState

NameBegins(a, b) == a = "Sys" /\ b = "System"
DP == INSTANCE DelliciusPlanner WITH Begins <- NameBegins

NoNames == [n \in {} |-> ""]
Tree ==
  [root |-> "root",
   kind |-> [r \in {"root", "c1", "c2", "s1", "s2", "s3", "sys"} |-> "object"]
            @@ [r \in {"chassis", "hot", "cold"} |-> "collection"] @@ ("log" :> "raw"),
   child |-> ("root" :> ("Chassis" :> "chassis" @@ "System" :> "sys")) @@ ("c1" :> ("Sensors" :> "hot"))
             @@ ("c2" :> ("Sensors" :> "cold")) @@ ("sys" :> ("Log" :> "log"))
             @@ [r \in {"chassis", "hot", "cold", "s1", "s2", "s3"} |-> NoNames],
   link |-> ("c1" :> ("Ref" :> "sys")) @@ ("c2" :> ("Ref" :> "gone"))
            @@ [r \in {"root", "chassis", "hot", "cold", "s1", "s2", "s3", "sys"} |-> NoNames],
   members |-> "chassis" :> <<"c1", "c2">> @@ "hot" :> <<"s1", "s2">> @@ "cold" :> <<"s3">>,
   matches |-> "Big" :> {"c1", "sys"} @@ "Hot" :> {"s1"}]

\* The first chassis has sensors that are called Chassis too.
Nested == [Tree EXCEPT !.child["c1"] = @ @@ ("Chassis" :> "hot")]

Asks(kind, redpath, target, roots) ==
  [kind |-> kind, redpath |-> redpath, target |-> target, roots |-> roots, fresh |-> FALSE, raw |-> FALSE, limit |-> 0]
Along(redpath, roots) == Asks("redpath", redpath, "", roots)
All(name) == <<"/", name, "[", "*", "]">>
Such(name, p) == <<"/", name, "[", p, "]">>

PlannerQueries ==
  {"a" :> Along(All("Chassis"), <<>>) @@ "b" :> Along(Such("Sensors", "Hot"), <<"a">>),
   "a" :> Along(Such("Chassis", "Big"), <<>>) @@ "b" :> Along(All("Chassis") \o Such("Sensors", "last()"), <<>>)
     @@ "c" :> Along(<<"/", "Chassis">>, <<>>),
   "a" :> Along(All("Chassis"), <<>>) @@ "b" :> Asks("pointer", <<>>, "Ref", <<"a">>) @@ "c" :> Asks("uri", <<>>, "sys", <<>>)
     @@ "d" :> Along(<<"/", "Sensors">>, <<"a">>),
   "a" :> Along(<<"/">>, <<>>) @@ "b" :> Along(Such("System", "Big"), <<"a">>)
     @@ "c" :> [Along(<<"/", "System", "/", "Log">>, <<>>) EXCEPT !.raw = TRUE],
   "a" :> Along(Such("Chassis", "Big"), <<>>) @@ "b" :> Along(Such("Chassis", "last()"), <<>>)
     @@ "c" :> Along(All("Sensors"), <<"a", "b">>),
   "a" :> Along(Such("Chassis", "Hot"), <<>>) @@ "b" :> Asks("uri", <<>>, "gone", <<>>),
   "a" :> Along(Such("System", "Big"), <<>>) @@ "b" :> [Along(<<"/", "Log">>, <<"a">>) EXCEPT !.raw = TRUE]
     @@ "c" :> Along(Such("Chassis", "last()"), <<>>)}
Malformed ==
  {"a" :> Along(All("Chassis"), <<"b">>) @@ "b" :> Along(All("Sensors"), <<"a">>),
   "a" :> Along(All("Chassis"), <<>>) @@ "b" :> Along(All("Sensors"), <<"c">>) @@ "c" :> Along(All("Sensors"), <<"b", "a">>),
   "a" :> Along(All("Chassis"), <<>>) @@ "b" :> Along(All("Sensors"), <<"z">>),
   "a" :> Along(<<"/", "Chassis", "[", "a", "/", "b", "]">>, <<>>), "a" :> Along(<<"/", "[", "Big", "]">>, <<>>)}

PlannerFaults ==
  {"none" :> "ok"} \union {r :> how : r \in {"root", "chassis", "c1", "hot", "s2", "sys", "log"},
                                    how \in {"not_found", "unavailable", "forbidden"}}
PlannerWorld(x) ==
  LET sv == (IF x.nested THEN Nested ELSE Tree) IN
  DP!BuildDefaultQueryPlanner(
    [query |-> x.query, mode |-> x.mode, silent |-> x.silent, order |-> x.order, callback |-> x.callback,
     service |-> sv @@ [warm |-> x.warm, health |-> x.fault @@ [r \in DOMAIN sv.kind |-> "ok"]]],
    x.ids, x.expand)

Names2 == <<"Chassis", "System", "Sensors", "Log", "Ref", "sys", "gone">>
Input == [kind |-> "planner", query |-> <<>>, ids |-> <<>>, nested |-> FALSE, fault |-> "none" :> "ok", warm |-> {},
          silent |-> {}, order |-> Names2, mode |-> "fail", callback |-> "none", expand |-> [p \in {} |-> 0]]
SomeOrder(s) == DP!SetToSeq(s)
Required(query, qs) == [q \in DOMAIN query |-> [query[q] EXCEPT !.fresh = q \in qs]]
Limited(query, qs, limit) == [q \in DOMAIN query |-> [query[q] EXCEPT !.limit = IF q \in qs THEN limit ELSE 0]]
Parents(query) == UNION {J!ToSet(query[q].roots) : q \in DOMAIN query}
Warms == {{"chassis", "c1", "s1"}, DOMAIN Tree.kind}
Expands == {[p \in {} |-> 0], [p \in {<<"Chassis">>} |-> 1], [p \in {<<"Chassis", "[*]">>} |-> 2],
            [p \in {<<"Sys">>} |-> 1]}

PlannerInputs ==
  {[Input EXCEPT !.query = query, !.ids = ids, !.fault = fault, !.silent = silent, !.order = order, !.mode = mode, !.warm = warm] :
     query \in PlannerQueries, ids \in {<<"a", "b", "c", "d">>, <<"d", "c", "b", "a">>}, fault \in PlannerFaults,
     silent \in {{}, {<<"a", "c1">>}}, order \in {Names2, DP!Reverse(Names2)}, mode \in {"fail", "continue"}, warm \in {{}}}
  \union {[Input EXCEPT !.query = query, !.ids = <<"a", "b", "c">>] : query \in Malformed}
  \union {[Input EXCEPT !.query = Required(query, qs), !.ids = <<"a", "b", "c", "d">>, !.warm = warm, !.expand = expand] :
            query \in PlannerQueries, qs \in {{"a"}, {"b"}, {"c"}}, warm \in Warms, expand \in Expands}
  \union {[Input EXCEPT !.query = Required(query, qs), !.ids = <<"a", "b", "c", "d">>, !.warm = warm, !.fault = fault, !.mode = mode] :
            query \in PlannerQueries, qs \in {{"a"}, {"b"}, {"c"}}, warm \in Warms, fault \in PlannerFaults, mode \in {"fail", "continue"}}
  \union {[Input EXCEPT !.query = query, !.ids = <<"a", "b", "c", "d">>, !.nested = TRUE] : query \in PlannerQueries}
  \union {[Input EXCEPT !.query = Limited(query, DOMAIN query \ Parents(query), limit), !.ids = <<"a", "b", "c", "d">>, !.callback = callback] :
            query \in PlannerQueries, limit \in 1 .. 3, callback \in {"more", "stop"}}

OfQuery(x) == [x EXCEPT !.ids = DP!SelectSeq(@, LAMBDA q : q \in DOMAIN x.query)]
PickPlanner == \E x \in PlannerInputs : input' = OfQuery(x) /\ world' = PlannerWorld(OfQuery(x))

PlanQuery ==
  /\ input.kind = "planner"
  /\ answer' = IF world.status = "ok" THEN [run |-> DP!Run(world.plan, input.ids)] ELSE [status |-> world.status]

-----------------------------------------------------------------------------
(* The meaning of a query: paths of <<subquery, resource>> pairs.  A place   *)
(* is a resource and the prefix under which it is asked for.                 *)

Up(plan, r, prefix) ==
  plan.service.health[r] = "ok" \/ (r \in plan.service.warm /\ prefix \notin plan.required)
ObjectLike(plan, r) == plan.service.kind[r] \in {"object", "collection"}

\* The places of the service that a step leads to, before its predicate.
NamedNext(plan, place, step) ==
  {<<s, Append(place[2], step.node)>> :
     s \in IF step.node \in DOMAIN plan.service.child[place[1]] THEN {plan.service.child[place[1]][step.node]} ELSE {}}
Members(plan, place) ==
  IF plan.service.kind[place[1]] = "collection" THEN plan.service.members[place[1]] ELSE <<place[1]>>
MemberMeets(plan, m, i, p) ==
  \/ p = "*"
  \/ p = "last()" /\ i = Len(m)
  \/ p \in DOMAIN plan.service.matches /\ m[i] \in plan.service.matches[p]

\* The indices of m that can be had, for a step with a predicate.
There(plan, place) == {i \in DOMAIN Members(plan, place) : Up(plan, Members(plan, place)[i], Append(place[2], "[*]"))}
Below(plan, place, i) ==
  IF plan.service.kind[place[1]] = "collection" THEN <<Members(plan, place)[i], Append(place[2], "[*]")>> ELSE place

RECURSIVE StepsLeadTo(_, _, _, _)

\* again: whether a step is looked for once more below what it turns down.
StepLeadsTo(plan, place, steps, again) ==
  IF steps[1].predicate = "" THEN StepsLeadTo(plan, {place}, Tail(steps), again)
  ELSE IF ~ObjectLike(plan, place[1]) THEN {}
  ELSE LET m == Members(plan, place)
           met == {i \in There(plan, place) : MemberMeets(plan, m, i, steps[1].predicate)}
       IN  StepsLeadTo(plan, {Below(plan, place, i) : i \in met}, Tail(steps), again)
           \union IF again THEN StepsLeadTo(plan, {Below(plan, place, i) : i \in There(plan, place) \ met}, steps, again) ELSE {}
StepsLeadTo(plan, from, steps, again) ==
  IF steps = <<>> \/ from = {} THEN from
  ELSE LET named == {p \in UNION {NamedNext(plan, place, steps[1]) : place \in from} : Up(plan, p[1], p[2])}
       IN  UNION {StepLeadsTo(plan, p, steps, again) : p \in named}

\* A URI is asked for by its name alone, whatever leads to it.
Reached(plan, q, place, again) ==
  LET sub == plan.query[q]
      asked(uris) == {<<u, Append(place[2], sub.target)>> : u \in {v \in uris : v \in DOMAIN plan.service.kind /\ Up(plan, v, <<v>>)}}
      to == CASE sub.kind = "redpath" -> IF sub.redpath = <<"/">> THEN {place} ELSE StepsLeadTo(plan, {place}, plan.steps[q], again)
              [] sub.kind = "uri" -> asked({sub.target})
              [] sub.kind = "pointer" -> IF sub.target \in DOMAIN plan.service.link[place[1]]
                                         THEN asked({plan.service.link[place[1]][sub.target]}) ELSE {}
  IN  {p \in to : ObjectLike(plan, p[1]) \/ sub.raw}

RECURSIVE Meaning(_, _, _, _)
Meaning(plan, q, place, again) ==
  UNION {IF <<q, p[1]>> \in plan.silent THEN {}
         ELSE {<<<<q, p[1]>>>>} \union
              {<<<<q, p[1]>>>> \o path :
                 path \in UNION {Meaning(plan, c, p, again) : c \in {d \in DOMAIN plan.query : q \in J!ToSet(plan.query[d].roots)}}} :
           p \in Reached(plan, q, place, again)}
MeaningWith(plan, again) ==
  IF ~Up(plan, plan.service.root, <<"">>) THEN {}
  ELSE UNION {Meaning(plan, q, <<plan.service.root, <<>>>>, again) : q \in {p \in DOMAIN plan.query : plan.query[p].roots = <<>>}}
MeaningOf(plan) == MeaningWith(plan, FALSE)

PathOf(data, a) == [i \in DOMAIN a |-> <<a[i][1], data[SubSeq(a, 1, i)].resource>>]
PathsOf(data) == {PathOf(data, a) : a \in DOMAIN data}

\* Some resource the query may go to fails with more than "not found".
Broken(plan) == {r \in DOMAIN plan.service.kind : /\ plan.service.health[r] \notin {"ok", "not_found"}
                                                 /\ r \in plan.service.warm => plan.required # {}}
Whole(plan) == [plan EXCEPT !.service.health = [r \in DOMAIN @ |-> IF @[r] = "not_found" THEN @[r] ELSE "ok"]]

\* Without the second request for an object that is no collection but is named
\* with a predicate; here this is the system.
OnceOnly(plan) == [plan EXCEPT !.required = @ \ {<<"System", "[*]">>}]
Loses(plan) == MeaningOf(OnceOnly(Whole(plan))) # MeaningOf(OnceOnly(plan))
LosesAnObject(plan) == MeaningOf(OnceOnly(plan)) # MeaningOf(plan)

IsPlan(query) ==
  LET below(qs) == {q \in DOMAIN query : J!ToSet(query[q].roots) \intersect qs # {}}
      reach == {q \in DOMAIN query : query[q].roots = <<>>}
      two == reach \union below(reach)
  IN  /\ \A q \in DOMAIN query : J!ToSet(query[q].roots) \subseteq DOMAIN query
      /\ \A q \in DOMAIN query : J!ToSet(query[q].roots) \subseteq two
      /\ \A q \in DOMAIN query : DP!StepsOf(query[q]).status = "ok"

\* The prefix that CombineQueryParams writes for the data set is the one under
\* which it is asked for: not below "/", where it has a slash too many, not
\* below a URI or a reference, and not below an object that is no collection
\* but is named with a predicate.
Spelled(plan, a) ==
  LET chain == [i \in DOMAIN a |-> plan.query[a[i][1]]] IN
  /\ \A i \in DOMAIN chain : chain[i].kind = "redpath"
  /\ Len(chain) > 1 => \A i \in DOMAIN chain : chain[i].redpath # <<"/">>
  /\ \A i \in 1 .. Len(chain) - 1 : chain[i].redpath # Such("System", "Big")

Answered(plan, run) ==
  /\ IF input.nested THEN /\ MeaningOf(plan) \subseteq PathsOf(run.data)
                          /\ PathsOf(run.data) \subseteq MeaningWith(plan, TRUE)
     ELSE IF run.halted THEN PathsOf(run.data) \subseteq MeaningOf(plan)
     ELSE /\ PathsOf(run.data) = MeaningOf(plan)
          /\ Cardinality(PathsOf(run.data)) = Cardinality(DOMAIN run.data)
  /\ Loses(plan) => run.code # "ok"
  /\ LosesAnObject(plan) /\ ~Loses(plan) => run.code = "ok"
  /\ Broken(plan) = {} /\ plan.service.health["root"] = "ok" => run.code = "ok" /\ run.codes = <<>>
  /\ run.halted => plan.mode = "fail" /\ run.codes # <<>>
  /\ \A a \in DOMAIN run.data :
       plan.query[DP!Last(a)[1]].fresh /\ Spelled(plan, a) => run.data[a].fresh

Batches(run) == UNION {PathsOf(run.sent[i]) : i \in DOMAIN run.sent}
Batched(plan, run) ==
  /\ Batches(run) \subseteq MeaningOf(plan)
  /\ plan.callback = "more" => Batches(run) = MeaningOf(plan)

\* The older planner answers a query with what its RedPaths mean: each
\* subquery once for every resource its path leads to below the data sets it
\* is joined to, whatever the order of subqueries and node names, and although
\* a node name that several subqueries share is asked for once.  What a broken
\* resource hides is missing with an error, but for one case: an object that
\* is no collection, is named with a predicate and comes from the cache is
\* asked for again if REQUIRED, and when that fails it is missing and the code
\* is OK (GetRedfishObjectWithFreshness, query_planner.cc:180).  A halted
\* execution says nothing that the query does not mean.  REQUIRED data is
\* fresh where its prefix is Spelled as the execution spells it.  Results
\* handed over in batches lose nothing; limits are set on subqueries that none
\* is joined to, since Clear() would take the data sets of others away.  Where
\* a member has a child named as its collection, a step is also looked for
\* below the members that every subquery turned down: the answer then lies
\* between the meaning and the meaning with such steps repeated.
PlannerAnswersTheQuery ==
  Done /\ input.kind = "planner" =>
    /\ (world.status = "ok") = IsPlan(input.query)
    /\ world.status = "ok" =>
         IF input.callback = "none" THEN Answered(world.plan, answer.run) ELSE Batched(world.plan, answer.run)

-----------------------------------------------------------------------------
(* Router specifications: one selection against one server, versions,      *)
(* files of queries, and whole specifications for two servers.             *)

RC == INSTANCE RouterConfiguration

Select(type, tags, nodes, classes) ==
  [server_type |-> type, server_tag |-> tags, node_class |-> nodes, server_class |-> classes]
ByTag(tag) == Select(<<>>, {tag}, <<>>, <<>>)
ByClass == Select(<<>>, {}, <<>>, <<"COMPUTE">>)
AllBmcs == Select(<<"BMCWEB">>, {}, <<>>, <<>>)
Server(tag, class) == [type |-> "BMCWEB", tag |-> tag, class |-> class]
SelectionInputs ==
  {[kind |-> "select", select |-> Select(type, tags, nodes, classes), server |-> server] :
     type \in {<<>>, <<"UNSPECIFIED">>, <<"BMCWEB">>}, tags \in {{}, {"t"}, {"u", "v"}},
     nodes \in {<<>>, <<"COMPUTE">>, <<"STORAGE">>, <<"UNSPECIFIED", "COMPUTE">>, <<"STORAGE", "COMPUTE">>},
     classes \in {<<>>, <<"COMPUTE">>, <<"COMPUTE", "UNSPECIFIED">>},
     server \in {Server("t", <<"COMPUTE">>), Server("u", <<"UNSPECIFIED">>)}}

Version(parts) == [prefix |-> TRUE, parts |-> parts]
Versions == {Version(<<23, 4, 1>>), Version(<<23, 4, 1, 7>>), Version(<<23, 5, 0>>), Version(<<24, 1, 0>>),
             Version(<<24, RC!NotANumber, 0>>), Version(<<24, 1>>), [prefix |-> FALSE, parts |-> <<24, 1, 0>>]}
Bounds == {<<>>} \union {<<v>> : v \in Versions}
VersionInputs == {[kind |-> "version", min |-> min, max |-> max, version |-> v] : min \in Bounds, max \in Bounds, v \in Versions}

QueryFile(id, query) == [query_id |-> id, query |-> query]
ConfigFiles == "f1" :> QueryFile("q1", "file1") @@ "f2" :> QueryFile("q2", "file2") @@ "g1" :> QueryFile("q1", "other1")
               @@ "bad" :> RC!Unparsable @@ "r" :> ("q1" :> "rule" @@ "q3" :> "unused") @@ "s" :> ("q1" :> "rule2")
FileLists == UNION {[1 .. n -> {"f1", "f2", "g1", "bad", "missing"}] : n \in 0 .. 2}
FileInputs == {[kind |-> "files", queries |-> queries, rules |-> rules] :
                 queries \in FileLists, rules \in {<<>>, <<"r">>, <<"r", "s">>, <<"s", "r">>, <<"bad">>, <<"missing">>}}

FromPath(query, rule, timeout) == [from |-> "path", query_path |-> query, rule_path |-> rule, timeout |-> timeout]
Inline(query, rule, timeout) == [from |-> "spec", query |-> query, rule |-> rule, timeout |-> timeout]
Adds == {FromPath("f1", "", <<>>), FromPath("f1", "r", <<2>>), FromPath("f2", "", <<>>), FromPath("f1", "missing", <<>>),
         Inline("inline", <<>>, <<>>), Inline("inline2", <<"own">>, <<3>>), [from |-> "none", timeout |-> <<>>]}
Selectors == {<<ByTag("t")>>, <<ByTag("u"), ByClass>>, <<AllBmcs>>, <<>>}
Selection(add, select) == [n \in DOMAIN add \union {"select"} |-> IF n = "select" THEN select ELSE add[n]]
RouterSpec(specs, order, policies, pattern, threads) ==
  [selection_specs |-> specs, order |-> order, stable_id_config |-> policies, default_stable_id_type |-> "NONE",
   query_id_to_version_config |-> <<>>, query_pattern |-> pattern, max_concurrent_threads |-> threads,
   features |-> <<>>, cache_duration_ms |-> 0, deep_cache |-> FALSE, transport_arbiter_refresh |-> <<>>]
Policy(select, type, topology) == [select |-> select, stable_id_type |-> type, topology_config_path |-> topology]
ByTopologyPolicy == Policy(ByTag("t"), "TOPOLOGY_DERIVED", "derived")
ByLocationPolicy == Policy(ByClass, "REDFISH_LOCATION", "located")
Policies == {<<>>, <<<<>>>>, <<<<ByTopologyPolicy, ByLocationPolicy>>>>, <<<<ByLocationPolicy, ByTopologyPolicy>>>>, <<<<Policy(AllBmcs, "TOPOLOGY_DERIVED", "never"), ByTopologyPolicy>>>>}
SecondQuery == {Selection(Inline("second", <<>>, <<>>), <<ByTag("u")>>)}
RouterInputs ==
  {[kind |-> "router", specs |-> ("q1" :> <<Selection(a, s), Selection(b, t)>> @@ "q2" :> <<second>>),
    policies |-> <<>>, pattern |-> "SERIAL_ALL", threads |-> 0] : a \in Adds, s \in Selectors, b \in Adds, t \in Selectors, second \in SecondQuery}
  \union {[kind |-> "router", specs |-> ("q1" :> <<>> @@ "q2" :> <<second>>), policies |-> policies, pattern |-> pattern, threads |-> threads] :
            second \in SecondQuery, policies \in Policies, pattern \in {"SERIAL_ALL", "SERIAL_AGENT", "UNSPECIFIED"}, threads \in {0, 2}}

PickRouter ==
  /\ \/ input' \in SelectionInputs
     \/ input' \in VersionInputs
     \/ input' \in FileInputs
     \/ input' \in RouterInputs
  /\ UNCHANGED world

ServerSpec(server) == [server_info |-> server, stable_id_type |-> <<>>, transport_factory |-> FALSE,
                       transport_arbiter_type |-> <<>>, node_local_system_id |-> <<>>]
TwoServers == <<ServerSpec(Server("t", <<"COMPUTE">>)), ServerSpec(Server("u", <<"UNSPECIFIED">>))>>
RouterIn(order) ==
  RC!Create(RouterSpec(input.specs, order, input.policies, input.pattern, input.threads), TwoServers, ConfigFiles, TRUE)

RECURSIVE AddAll(_, _)
AddAll(result, queries) ==
  IF queries = <<>> \/ result.status # "Ok" THEN result
  ELSE AddAll(RC!Add(result.info, [query_id |-> Head(queries).query_id, query |-> Head(queries).query, rule |-> <<>>, timeout |-> <<>>]),
              Tail(queries))

ConfigureRouter ==
  \/ /\ input.kind = "select"
     /\ answer' = [selects |-> RC!Selects(input.select, input.server),
                   stable |-> RC!StableIdMatches(input.select, input.server),
                   version |-> RC!VersionMatches(input.select, input.server)]
  \/ /\ input.kind = "version"
     /\ answer' = <<RC!IsBmcVersionCompatible([min_version |-> input.min, max_version |-> input.max], input.version)>>
  \/ /\ input.kind = "files"
     /\ answer' = RC!FromQueryFiles(input.queries, input.rules, ConfigFiles)
  \/ /\ input.kind = "router"
     /\ answer' = <<RouterIn(<<"q1", "q2">>), RouterIn(<<"q2", "q1">>)>>

\* A select that names one condition means the same wherever it stands, but for
\* the stable id, where the type alone selects nothing.
SelectsAgree ==
  answer.selects # "error" /\ input.select.node_class = <<>> =>
    /\ answer.selects = "matched" <=> answer.version
    /\ answer.stable /\ (input.select.server_tag = {} \/ input.select.server_class = <<>>) => answer.selects = "matched"
    /\ answer.selects = "matched" /\ ~answer.stable => input.select.server_tag = {} /\ input.select.server_class = <<>>

Rank(v) == IF v.prefix /\ Len(v.parts) > 2 /\ v.parts[2] # RC!NotANumber THEN <<v.parts[1] * 100 + v.parts[2] * 10 + v.parts[3]>> ELSE <<>>
VersionInRange ==
  answer[1] <=>
    \A current \in RC!ToSet(Rank(input.version)) :
      /\ \A bound \in RC!ToSet(input.min) : \A r \in RC!ToSet(Rank(bound)) : r <= current
      /\ \A bound \in RC!ToSet(input.max) : \A r \in RC!ToSet(Rank(bound)) : current <= r

\* The files give what Add gives, one query after the other, and the last rule.
FilesAgree ==
  LET names == RC!ToSet(input.queries) \union RC!ToSet(input.rules) IN
  IF {"bad", "missing"} \intersect names # {} THEN answer.status # "Ok"
  ELSE \E added \in {AddAll(RC!Ok(<<>>), [i \in DOMAIN input.queries |-> ConfigFiles[input.queries[i]]])} :
         /\ added.status = "Ok" <=> answer.status = "Ok"
         /\ answer.status = "Ok" =>
              /\ DOMAIN answer.info = DOMAIN added.info
              /\ \A q \in DOMAIN answer.info :
                   answer.info[q] = [added.info[q] EXCEPT !.rule =
                     IF q # "q1" \/ input.rules = <<>> THEN <<>>
                     ELSE <<ConfigFiles[input.rules[Len(input.rules)]]["q1"]>>]

\* The selections of a query that match a server and give it a query.
Chosen(q, server) == {k \in DOMAIN input.specs[q] :
  /\ input.specs[q][k].from # "none"
  /\ \E i \in DOMAIN input.specs[q][k].select : RC!Selects(input.specs[q][k].select[i], server) = "matched"}
LastOf(ks) == CHOOSE k \in ks : \A other \in ks : other <= k
QueryIn(spec) == IF spec.from = "spec" THEN spec.query ELSE ConfigFiles[spec.query_path].query
RuleIn(spec) == IF spec.from = "spec" THEN spec.rule ELSE IF spec.rule_path = "" THEN <<>> ELSE <<"rule">>
Unreadable(spec) == spec.from = "path" /\ (spec.query_path = "f2" \/ spec.rule_path = "missing")
TimeoutIn(spec) == spec.timeout

\* got is what the selection k names or, if it names nothing, what is left over
\* from the last selection before it that does.
OwnOrLeftOver(got, specs, chosen, k, Names(_)) ==
  LET before == {i \in chosen : i < k /\ Names(specs[i]) # <<>>} IN
  IF Names(specs[k]) # <<>> \/ before = {} THEN got = Names(specs[k]) ELSE got = Names(specs[LastOf(before)])
EntryFollows(entry) ==
  /\ entry.query_ids = {q \in DOMAIN input.specs : Chosen(q, entry.server_info) # {}}
  /\ \A q \in entry.query_ids :
       LET chosen == Chosen(q, entry.server_info)
           last == LastOf(chosen)
       IN /\ entry.query_spec[q].query = QueryIn(input.specs[q][last])
          /\ OwnOrLeftOver(entry.query_spec[q].rule, input.specs[q], chosen, last, RuleIn)
          /\ OwnOrLeftOver(entry.query_spec[q].timeout, input.specs[q], chosen, last, TimeoutIn)
  /\ entry.engine.topology \in {<<>>, <<"derived">>, <<"located">>}
  /\ entry.engine.stable_id_type = IF entry.engine.topology = <<"derived">> THEN "kRedfishLocationDerived" ELSE "kRedfishLocation"
RouterFollows ==
  /\ answer[1].status = "Ok" <=> answer[2].status = "Ok"
  /\ answer[1].status = "Ok" <=>
       /\ input.pattern = "SERIAL_ALL" \/ (input.pattern = "SERIAL_AGENT" /\ input.threads > 0)
       /\ \A q \in DOMAIN input.specs : \A k \in DOMAIN input.specs[q] :
            /\ input.specs[q][k].select # <<>>
            /\ Unreadable(input.specs[q][k]) => \A i \in 1 .. 2 : k \notin Chosen(q, TwoServers[i].server_info)
  /\ answer[1].status = "Ok" => answer[1] = answer[2] /\ \A i \in 1 .. 2 : EntryFollows(answer[1].table[i])

\* A router is what its specification says, in whatever order the queries come
\* (QueryRouter::Create, GetQuerySpec): a server gets the queries that some
\* selection gives it, the last one for each.  Query, rule and timeout are those
\* of that one selection, but for one case that is against the pairing of query
\* and rule in the specification: if it names no rule (no timeout) and an
\* earlier selection that matched names one, the earlier one's is left over
\* (util.cc:195-217 only overwrite), and nothing else ever mixes two
\* selections.  The router is refused exactly when a selection is empty or a
\* file it needs is not there or is for another query; the stable id and the
\* topology come from one policy.  Selections, versions' and stable ids' policies agree on what a
\* select matches; a version is compatible when it lies between the bounds that
\* can be read; and queries read from files are those that Add puts together.
RouterFollowsItsSpec ==
  Done =>
    CASE input.kind = "select" -> SelectsAgree
      [] input.kind = "version" -> VersionInRange
      [] input.kind = "files" -> FilesAgree
      [] input.kind = "router" -> RouterFollows
      [] OTHER -> TRUE
=============================================================================
