# A TLA+ verification project for Ecclesia

Ecclesia (`src/ecclesia/lib`) is a C++ library for machine management: a Redfish
client stack (transports, caches, query planners and engines), a Redfish event
subscription server, and low-level hardware access (PCI, SMBus, USB, SMBIOS).
This project models the parts of it that keep state across calls and threads as
state machines, and its sequential algorithms (planning, navigation, topology,
results, predicates, configuration) as operators; it checks both with TLC on
small instances and proves, with TLAPS, every safety property the runs check of the
state machines, for any number of threads, calls, queries and resources: of the seven
concurrent components and of the planner, whose refinement of an abstract
specification is proved too.

## 1. Inventory

Paths are relative to `src/ecclesia/lib`.

| Component | State | Operations | Interaction | What is hard |
|---|---|---|---|---|
| Event store `redfish/event/server/event_store.cc` | bounded multiset of events ordered by timestamp, one mutex | `AddNewEvent`, `GetEventsSince`, `GetEvent`, `GetEventsBySubscriptionId`, `Clear` | called by the subscription service from many backend threads | timestamp is taken before the mutex; eviction at the bound |
| Subscription store `redfish/event/server/subscription_store_impl.cc` | three maps under three mutexes, one of them owning the contexts the second points at | `AddNewSubscription`, `DeleteSubscription`, `GetSubscription`, `GetSubscriptionsByEventSourceId`, `ToJSON` | used by the service; hands out raw pointers | an operation spans several critical sections |
| Subscription service `redfish/event/server/subscription_impl.cc` | pending subscribe and query aggregates, the two stores | `CreateSubscription`, `DeleteSubscription`, `Notify`, `ClearEventStore` | asynchronous backend callbacks, subscriber callbacks | responses lost, failed or duplicated; deletion during a query |
| RedPath subscription `redfish/redpath/definitions/.../redpath_subscription.cc` | trigger id to query map | `Create`, event dispatch | client end of the event stream | parsing of the trigger context |
| Query engine `redfish/dellicius/engine/query_engine.cc` | planner map, reference count, cancellation flag and condition variable | `ExecuteRedpathQuery`, `ExecuteSubscriptionQuery`, `HandleRedfishEvent`, `CancelQueryExecution` | planners, normalizer, transport metrics | cancellation racing completion |
| Query router `redfish/redpath/definitions/query_router/query_router.cc` | engines per server, routing table, reference count, cancellation flag, thread pool | `Create`, `ExecuteQuery`, `CancelQueryExecution` | runs engines serially or on a pool, one result callback | cancellation racing completion, callback exclusion |
| Query planners `redfish/dellicius/engine/internal/query_planner.cc`, `redfish/redpath/engine/query_planner_impl.cc` | RedPath trie, contexts, timeout manager, execution mode | `Run`, `Resume` | RedfishInterface, normalizer, predicates | breadth-first execution with cancellation, paging, retries |
| Query timeout manager `redfish/timing/query_timeout_manager.h` | in-progress flag, deadline | `StartTiming`, `EndTiming`, `GetRemainingTimeout` | used by a planner run | a waiter racing the end of a run |
| Transport cache `redfish/transport/cache.{h,cc}` | per-path nodes with result, age, update-in-progress flag | `CachedGet`, `UncachedGet`, `CachedPost` | wraps a transport | a thread joins another's update; deep-cache of nested objects |
| Redfish interface `redfish/transport/http_redfish_intf.cc`, `redfish/interface.h` | transport and cache behind a reader-writer lock, supported features behind a mutex | `GetRoot`, `CachedGetUri`, `UncachedGetUri`, `PostUri`..., `UpdateTransport`; navigation of objects, arrays, collections | used by everything above it | replacing the transport under requests; references fetched again, expanded or cached |
| Transports `redfish/transport/{http,grpc,logged_transport,metrical_transport}.cc`, `http/curl_client.cc` | session, curl handle, per-thread metrics | `Get`, `Post`, `Patch`, `Delete`, `Put`, `Subscribe` | network | session renewal; callbacks of one transfer; streams |
| Override transport `redfish/redfish_override/transport_with_override.cc` | override policy, init state | `Get`, `Post`, `Patch`, `Delete` | wraps a transport | lazily fetched policy |
| Stub arbiter `stubarbiter/arbiter.h` | active stub, freshness, stub map | `Execute` (manual, failover) | transport stubs | failover of concurrent callers |
| Transport arbiter engine `redfish/dellicius/engine/transport_arbiter_query_engine.cc` | a stub arbiter over query engines | `ExecuteRedpathQuery`, `CancelQueryExecution` | arbiter, engines | failover on query errors |
| Normalizers, trie, predicates under `redfish/redpath`, `redfish/dellicius` | none or per-call | pure functions and lookups | planners | two implementations that must agree; text rewriting |
| Query results `redfish/redpath/definitions/query_result` | none | build, read, convert, address, compare, verify, validate | clients of the engines | combinations of overrides and conditions |
| Router configuration `redfish/redpath/definitions/query_router/util.cc`, `query_spec.cc` | none | select queries, rules, timeouts, versions | `QueryRouter::Create` | several selections for one server |
| Query utilities `redfish/dellicius/utils` | none | join, names and paths, validation of queries | planners, authors of queries | order of subqueries |
| Topology `redfish/{topology,topology_v2,sysmodel,devpath}.cc` | per-call | traversal of a Redfish tree | RedfishInterface | cyclic references, cable links |
| Health rollup `redfish/health_rollup.cc` | none | extract assemblies, parse | query results | algorithmic |
| Complexity tracker `complexity_tracker/` | counters per context | record calls, report | transports | nesting of contexts |
| Thread pool `thread/thread_pool.h` | queue, stop flag | `Schedule`, destructor | query router | drain at destruction |
| Lock files `file/lockfile.cc` | an advisory lock on a file descriptor, owned by a movable guard | `Create`, `Lock`, `Unlock` | processes | ownership through moves |
| Atomic sequence `atomic/sequence.h` | a counter | `GenerateValue` | threads | overflow |
| Hardware access `io/`, `smbios/`, `apifs/` | file descriptors | reads and writes of files and devices | kernel | I/O |
| Support code `codec/`, `strings/`, `status/`, `time/`, `types/`, `network/`, `protobuf/`, `logging/`, `testing/` | none | pure helpers | everything | boundary values |

How the parts interact: a client calls the **query router**, which batches the
queries per server and hands each batch to a **query engine**; the engine runs one
**planner** per query, which walks Redfish resources through a **Redfish
interface**, its **transport cache** and a **transport**. The **stub arbiter**
picks between two transports when one fails; the **transport arbiter query
engine** is a query engine on top of it. On the other side of the wire, the
**subscription service** accepts subscriptions, keeps them in the **subscription
store**, keeps recent events in the **event store** and calls back its
subscribers when a backend reports an event.

What makes each part correct:

* event store: bounded, and a replay from a surviving event misses no later one;
* subscription store: its maps agree and its raw pointers never dangle, in the
  middle of an operation too;
* subscription service: no partial subscription, one answer per request, replay
  before live events, events only for the resources the client asked for;
* router and engines: every query is reported once, cancellation ends, and it
  stops nothing it does not overlap;
* transport cache: one fetch per node at a time, failures are not cached, what is
  returned as fresh is fresh;
* stub arbiter: a stub found to fail is never used by a later call, a healthy one
  is never dropped, the status reported belongs to a real attempt;
* planners: an execution that reports no error has given every answer it owes,
  never one twice, never a stale one where freshness is required;
* Redfish interface: a request uses one transport and its cache from beginning to
  end, no lock order blocks, sessions are released, overrides do not change
  under way and act alike on single and expanded answers;
* algorithms: each agrees with a definition of what it is for that is shorter
  than the algorithm.

## 2. Modules

State machines:

| Module | Models | State and actions |
|---|---|---|
| `EventLog` | the multiset inside `EventStoreImpl` | operators: `Insert` (with eviction), `Visit` (iteration order), the replay loop one `Turn` at a time, and its reference |
| `EventStore` | `event_store.cc` with its publishers | `event_contexts`, the wall clock, the id each publisher has stamped; `StampEvent` is apart from `AddNewEvent` because the code takes `absl::Now()` before the mutex |
| `SubscriptionStore` | `subscription_store_impl.cc` | the three maps and the three mutexes; every critical section of `AddNewSubscription` and `DeleteSubscription` is a step that locks and one that works and unlocks; a notifier walks the Span it was given and sees when the vector behind it changes |
| `SubscriptionService` | `subscription_impl.cc` | per request the loop over `Subscribe`, its asynchronous responses and its answer; per notification the aggregate of its queries; an event is stamped, stored, then dispatched |
| `QueryEngine` | `query_engine.cc`, the control of a planner's `Run`, `query_timeout_manager.h` | reference count, cancellation flags, the timing session of each planner; one frame per executing thread, one task per cancellation |
| `QueryRouter` | `query_router.cc`, `thread_pool.h`; EXTENDS `QueryEngine` | batches, the pool's queue and threads, the router's own reference count and cancellation |
| `TimeBasedCache` | `transport/cache.h`, `cache.cc` | per node result, update time, in-progress flag and registered waiters; per thread the call it is in |
| `StubArbiter` | `stubarbiter/arbiter.h` and the calls `transport_arbiter_query_engine.cc` makes | the active stub, its label and freshness; per thread the locals of `Manual` and `Failover` |
| `RedPathPlanner` | `redpath/engine/query_planner_impl.cc`; EXTENDS `RedPathTrie` | the queue of trie nodes with their contexts, the result, the subscriptions, the error; `Run`, `Run` with triggers and `Resume`, one action per context, with cancellation between any two |
| `QueryAnswer` | the promise of one execution | abstract: answers are added, then the execution returns |
| `RedfishClient` | `http_redfish_intf.cc` over `transport_with_override.cc` over `http.cc` | three locks, the features, the once flag and policy of each transport, sessions; one frame per thread |

Algorithms, as operators. They are recursive where the code is (`RedPathTrie`, about
which theorems are proved, has recursive functions in place of recursive operators),
keep the order of its loops and its early returns, and treat text as symbols:

| Module | Models |
|---|---|
| `RedPathTrie` | joining of subqueries (`join.cc`), the prefix tree (`redpath_trie.cc`), merged query parameters |
| `DelliciusPlanner` | the older planner (`dellicius/engine/internal/query_planner.cc`) as a function of query, service, execution mode and callback |
| `Json` | JSON values as records; the accessors the library uses |
| `RedfishNavigation` | `RedfishVariant`, `ResolveReference`, collections, `$expand`, freshness, JSON pointers, typed values, supported features |
| `RedfishTree` | what the traversals below use of the interface |
| `RedfishOverride` | what an override policy does to an answer |
| `RedfishTopology` | `topology.cc`, `topology_v2.cc`, `devpath.cc`, `location.cc`, `node_topology.h`; `health_rollup.cc`, whose events are attributed to devpaths |
| `Sysmodel` | `sysmodel.cc`: the chains by which resources of a type are enumerated |
| `QueryResults`, `QueryVerification` | `definitions/query_result` with its verification and validator, and the validator of queries (`query_validator.cc`) |
| `Predicates` | evaluation, parsing, printing, substitution of variables, `$filter` (`definitions/query_predicates`) |
| `RedPathQuery` | `query.cc`: `GetRedPath` with its own reading of predicates |
| `Normalizers` | the normalizers of both planners and the chains they are composed into |
| `Transports` | one HTTP transfer (`curl_client.cc`, `codes.cc`), the gRPC transport and its event stream, the decorators that log and measure |
| `RouterConfiguration` | `query_router/util.cc`, `query_spec.cc`, `QueryRouter::Create` |

The algorithms are checked by one state machine: `AlgorithmState` has an input, the
world it is about and the answer; `NavigationChecks`, `TopologyChecks`,
`ResultChecks`, `PredicateChecks` and `PlannerChecks` hold the inputs, the reference
definitions and the properties; `AlgorithmsMC` goes through thirteen topics, picks an
input of one of them, computes, and stops.

Every module keeps the names of the source. `*MC` modules give constants the
values a `.cfg` cannot write; `*Proofs` modules hold theorems. A definition whose comment begins
"Mutant of" is a deliberately broken variant of the definition that follows it,
kept to show which property would notice; no specification uses it.

Abstractions shared by all modules: payloads are reduced to what the properties
tell apart; hashed ids (event ids, subscription ids) are taken to be unique; a mutex
that is held across steps is a variable, one that is not is the atomicity of an
action; backends, transports, factories and callbacks answer nondeterministically.
Iteration over a hash map is over every order, or over an order that is an input.

## 3. Runs

Bounds are in the `.cfg` files. In parentheses, distinct states.

* **event_store** (22,650): two publishers, four events, a store of two,
  a clock of two values that may step back. Two publishers are enough for any
  inversion of stamping and insertion, four events for eviction twice over.
  Shows `StoreBounded`, that eviction opens no gap behind a survivor
  (`LaterEventsSurvive`) and that the loop of `GetEventsSince` returns what its
  reference says (`ReplayMatchesReference`).
* **subscription_store** (64,968): four adds, two of them with the same id and one
  invalid, two sources, two deleters, a notifier. Each add and each delete is made
  once. Shows live pointers, agreement of the maps, and that every call returns
  (`CallsReturn`) although `DeleteSubscription` takes a second mutex while it holds
  the first: with the locks of one call in the other order two threads wait for each
  other. An add and a delete of one id do not overlap here (`OverlapPerId = FALSE`);
  **delete_during_add** below lets them.
* **service** (33,210): it has two kinds of initial states. In one, three requests (two
  resources; one resource that has no event source; one that does not parse) and one
  notification meet a backend that refuses, fails and repeats: shows the safety of
  subscription and dispatch (`NoPartialSubscription`, `DeliveredIsOwn`) and that every
  request is answered and every notification completed (`EveryoneIsServed`). In the
  other, one client has subscribed and got two events. That client may be deleted, the
  store cleared, an event fire, and a second client subscribe to the same resource as
  its successor, in any order: the successor gets a chronological tail of the former
  subscription before anything live (`ReplayIsOrderedTail`).
* **query_router** (64,368): up to two calls on two engines, three query ids (one
  without plan on one engine, one incompatible), pools of two threads, each
  pattern, up to two cancellations. The inputs are a list of choices, so
  that each interesting combination is there without the product of all. Shows exact
  reference counts, one result per query, that a cancellation leaves no trace, and
  that threads go on (`ThreadsGoOn`): a thread that waits while executions are in
  progress is woken, and every `ExecuteQuery` returns unless a canceller missed its
  wakeup.
* **transport_cache** (90,038): two threads, two calls, two paths (one
  embedded in the other and blocklisted), one POST key, the three cache policies. Two
  calls let one thread fetch while the other joins, or one come after the other; the
  clock moves to the duration, also between the transport's answer, the reading of the
  clock for it and its publication. More calls are left to the proofs, which cover every
  number of threads, calls and paths.
* **stub_arbiter** (34,972): two threads, two calls, both policies, every
  outcome of factory and callback, a clock that passes the refresh time. Two calls
  overlap on one stub, or the second finds what the first left; the proofs cover
  any number.
* **planner** (76,971): a service of ten resources, one of them broken in one of four
  ways or holding what a predicate cannot be applied to, or none, everything or nothing
  cached, predicates whose variables may fail to be substituted, and a query of six subqueries that reach each other
  by collections, pointers and URIs, executed in both modes, with and without
  triggers, and resumed at two places; cancelled at any step. Shows that no answer is
  given twice or stale (`AnswersAreOnceAndFresh`) and the refinement
  `ImplementsQueryAnswer`. TLC also evaluates the hypothesis of the theorem about the
  former (`OneWayHere`): it holds of every input of this run, in which resources are
  reached by several ways.
* **client** (73,558): two threads with one request each of any of four kinds, and one
  that authenticates or replaces the transport. Requests fail or succeed, timeouts
  may be spent, the policy changes between fetches, the features may be a reference
  of the root or may not be there at all. Shows that a request sees one endpoint,
  overrides are stable, sessions are released and every call returns. A session whose
  answer lacks `X-Auth-Token` or `Location` is open at the service and known to nobody
  (`http.cc:154`): no transport can release it, and `SessionsAreReleased` says of such
  sessions only that none is ever used.
* **algorithms** (60,573): every sequential algorithm on bounded inputs against its
  reference; one property per topic, stated in the Checks modules. The inputs of a
  topic are small documents, queries or configurations with one variation at a time
  and the pairs that interact.

Three runs find the code in disagreement with what it says of itself:

* **delete_during_add**: with `OverlapPerId = TRUE` a subscription may be deleted as
  soon as it is in the store: `GetSubscriptionsToJSON` (`subscription_impl.cc:400`)
  lists its id from the insertion on, before the add has linked it and before its
  client is answered. The delete finds no sources to unlink and erases the context, and
  the add then links a pointer to it. The proofs and the run above assume that nobody
  does so.
* **service_lost_batch**: when the last response to a batch of queries is an
  error, `done_callback` is never invoked and the good responses are lost.
* **cancel_lost_wakeup**: `CancelQueryExecution` tests the reference count, then
  locks and waits without a predicate; a signal in between is lost and it waits
  for ever. The counterexample is one under fairness: every other thread has
  returned.

Six more statements of the code that do not hold are kept as definitions beside
the properties, without a run: `OneCallbackAtATime` (`subscription.h` promises that
`on_event_callback` is never called in parallel; two notifications do so),
`HandledContextIsLive` (with `DeleteAnytime`, deleting a subscription whose query is
in flight makes the handler use a destroyed context), `SpansAreStable`
(`GetSubscriptionsByEventSourceId` returns an `absl::Span` into the map's vector, which
adds and deletes grow or erase while the caller walks it without the mutex),
`SessionIsEnded` (a planner run
that is cancelled or gets no service root returns without ending its timing
session; the router run includes what follows from that), `ResumedIsFresh` (required
freshness is ignored after an event) and `NothingIsLost` (with
`kFailOnFirstError` a collection with one missing member is given up silently,
so that `ImplementsQueryAnswer` does not owe its answers).

**Bounds.** Every run keeps one or two actors of each kind: the conflicts listed under
"hazards" are between two actors on one object, with a third as the outcome's
witness where a witness is needed. Counters (calls, times, transports, fetches,
events) are capped in the guards by constants named `Max...`.

**Deadlock.** The event store never stops. In the cache and the arbiter the bounds end every behaviour, so a
`Finished` step, enabled only when every thread is idle, keeps a stuck call
reportable; the planner's execution likewise. The subscription store, service, router
and client specifications end by themselves, when every call has been made and has
returned, and turn the check off; their liveness properties `CallsReturn`,
`EveryoneIsServed` and `ThreadsGoOn` take its place: a thread that waits for a lock for
ever does not return. The algorithms end with their answer.

**Fairness.** Only steps the code takes by itself are fair: the rest of a call that
has begun (in the subscription store with weak fairness for each call: a mutex there is
held for a bounded number of steps), a response to a call that the backend accepted (the contract of
`SubscriptionBackend` in `subscription.h`), a thread of a pool. Nobody is obliged to
call, cancel, delete or notify. In the router it is the single assumption that the
machine does not stop while some thread can move: calls are finite, so it suffices.
In the client it is strong fairness of each thread inside a call, because a lock may
be free only now and then: `absl::Mutex` hands itself over to a thread that keeps
waiting.

**Refinement.** `RedPathPlanner` implements `QueryAnswer` under the mapping `Promise`:
the answers are the paths of (subquery, resource) pairs of the result, and `possible`
is the least set closed under one step of the query in the tree (`Meant`, `AllVisits`).
It takes the nodes and the expressions of the query from the trie, so a wrong trie
would be wrong in both; it knows nothing of the queue, the member loop, the cache or
the errors. (`PlannerAnswersTheQuery` computes the meaning of a query for the older
planner from its RedPaths, without a trie.) Nothing is owed by an execution that
reports an error, nor, with `kFailOnFirstError`, of a collection with a missing member.
The run checks the refinement and `RedPathPlannerProofs` proves it.

**What some properties except.** Each exception is stated in the comment of the property,
which also says what happens in the excepted case.

* `PredicatesKeepTheirMeaning`: a variable of several values behind "(" gives a text that
  is refused; one that stands in two different relations is expanded in the first and
  dropped from the other; a relation alone in parentheses becomes a `$filter` that loses
  what it accepts.
* `PlannerAnswersTheQuery`: an object that is no collection, is named with a predicate and
  comes from the cache is asked for again if freshness is REQUIRED, and if that fails it is
  missing although the status is OK (`query_planner.cc:180`). REQUIRED is honoured where
  the prefix is spelled as the execution spells it, which it is not below "/", below URIs
  and references, and for objects named with a predicate. Batch limits are set on
  subqueries that none is joined to. In a tree where members have a child named as their
  collection the answer lies between two meanings.
* `RouterFollowsItsSpec`: a selection that names no rule or no timeout keeps the one of an
  earlier selection that matched (`util.cc:195`), against the pairing in the
  specification; nothing else mixes two selections.
* `VerdictMatchesReference`: `NOT_IN` is what the code makes of it (section 5).
* `NormalizersAgree`: which of two places wins where both normalizers find one, and
  places that hold a number or null.

## 4. Proofs

TLAPS proves the following for every value of the constants. All theorems have
the form `Spec => []P` or `Spec => [][A]_vars` (the refinement, `Spec => Promise!Spec`)
and follow from one inductive invariant `IInv` per module (`Inv` for the planner): `Init => IInv`, one lemma per action for
`IInv /\ [Next]_vars => IInv'`, and `IInv => P`. Where several actions change the
same part of the state, a lemma says what such a step leaves alone
(`SameRequest`, `NotifyStepIInv`, `ThreadStepIInv`, `CallStepIInv`), and the lemmas
of the actions only argue about the rest.

* `EventStoreProofs` begins with lemmas about `EventLog`, which
  `SubscriptionServiceProofs` uses too: the order in which the multiset is visited
  exists, is unique and lists every context once (`OrderExists`, `InOrderIsVisit`), and
  the replay loop collects exactly the later contexts of the subscription
  (`SinceReturns`). Both are inductions over a log of any size; they are made by
  taking the least number for which the claim fails (`LeastNatural`), which needs
  no induction rule. Then, of the store: type correctness, `StoreBounded`, `LaterEventsSurvive`,
  `ReplayMatchesReference`. Assumes a non-empty store size. `LaterEventsSurvive` is
  not inductive alone: evicting the oldest context is harmless only because
  insertion numbers are fresh, which `HistoryInv` adds. Replay then needs no more of the
  store than that its contexts are distinct and finitely many.
* `SubscriptionStoreProofs`: type correctness, `PointersAreLive`,
  `KeysAreSubscribed`, `AddedIsReachable` with `DeletedIsForgotten`, under the
  hypothesis `~OverlapPerId`. The invariant describes what each half-done add and
  delete has linked (`AddingInv`, `UnlinkInv`, `EraseInv`) and what a settled
  context looks like. `BeginInv` keeps deletes away from an id from the moment its add has
  begun, before it holds any mutex; a delete counts as settled until it has looked its
  sources up (`Unlinking`), since what it finds is fixed only then. From it and from `OwnSources` (a context is only linked under its
  own sources) follows what a lookup returns in the middle of adds and deletes
  (`LookupFindsSubscribers`): all settled subscriptions to the source and only
  live ones to it. That is what lets `SubscriptionService` have one set in place of the
  three maps.
* `SubscriptionServiceProofs`: type correctness, `NoPartialSubscription`,
  `DeliveredIsOwn`, `ReplayIsOrderedTail`, whatever the backend refuses, fails or
  repeats, and with or without deletions while a query is in flight.
  `ResponseInv` says how the loop, the accepted calls and the pending set of
  `AsyncSubscribeResponse` share out the resources of a request, so that the last
  response finds the sources of all of them; `AnswerInv` that nobody is answered
  before that. `AggregateInv` ties each batch of queries to its notification,
  `StampInv` and `LogInv` make stamps unique, so that an event in an inbox
  is still the one that was stored. A replay is in front of the inbox because a
  request whose subscription is not complete has no batch (the last line of
  `AggregateInv`). The theorem is about `Spec`; the run's `MCSpec`
  starts either with three requests to come, or after one that has been answered
  and has two events stored, with its successor to come, to get further within
  its bounds.
* `QueryRouterProofs`: type correctness, `RefCountsAreExact`,
  `EveryQueryIsReported`, `CancellationLeavesNoTrace`, for any number of calls,
  cancellations, engines and pool threads, any routing table and every pattern.
  `PlaceInv` is a partition: each query asked of a call is still to be
  scheduled, in the pool's queue, held by exactly one thread (to do or done), or
  told to the callback, and none that has a plan is lost. `QueueInv` (shutdown
  signals come after all work, and a thread that exits leaves only signals behind)
  is why nothing is left when the pool's destructor has joined its threads.
  `CancelInv` gives each flag the thread that will reset it. `CountInv` equates the
  counts with cardinalities. The lists of queries and batches are flattened
  sequences; the lemmas about `FlattenSeq` are again by least counterexample.
  Assumptions: entries of the routing table have engines of their own (each owns
  its `query_engine`), and a call names a query once. The second is a
  precondition of the statement, not of the code: with
  `PATTERN_PARALLEL_ALL` an id named twice is run and reported twice.
* `TimeBasedCacheProofs`: all the properties the run checks. `UpdaterInv` (who may
  fetch for a node), `CallInv`, `NodeInv` (what an update time says about a
  result), `FetchInv` (the clock is read for a result after it arrived) and `WaitInv` are mutually dependent: what is served
  depends on what a node holds, and that on nobody else fetching meanwhile.
* `StubArbiterProofs`: type correctness, the label of the active stub,
  `FailedStubStaysRetired`, `CallbackGetsStubOfItsLabel`, `FailoverIsSound` and the
  action property `OnlyFailedStubIsCleared`. `OwnerInv` is the key to the former: a
  stub the loop has made is unknown to every other call until it is published.
  The latter rest on a second invariant, `CallInv`, which says for each step of a call
  what it has tried so far, with which outcome, and what it therefore still
  may try.
* `RedfishClientProofs`: type correctness, `ReadersSeeOneEndpoint`,
  `OverrideIsStable`, `SessionsAreReleased`. `LockInv` is the exclusion of
  readers and writer, `EndpointInv` says when cache, trust and transport belong
  together (not between the two assignments of `UpdateTransport`, when the writer
  lock is held), `OverrideInv` that an edited answer was edited with the policy that
  the once flag has fixed, `SessionInv` numbers sessions by the authentication that
  opened them, so that a new one is neither open nor ended nor one that was opened but
  could not be named. `OverrideIsStable`
  relates a request to the answers that came back before it was sent: the history
  field `owed` of its frame remembers those.
* `RedPathPlannerProofs`: type correctness, the refinement `ImplementsQueryAnswer`,
  `RequiredIsFresh` and `AnswersAreOnceAndFresh`, for every query that has a plan,
  every tree of resources (cycles included), every pattern of failures, every content
  of the cache, `Run`, `Run` with triggers and `Resume`, and a cancellation at any step.
  The argument has four parts.
  *Sound* (`SoundInv`): every context in the queue or at hand stands for a visit of the
  reference walk, or is the empty context that a cancelled loop leaves (`Hollow`), which
  can give no answer. *Complete* (`CompleteInv`): as long as the execution is `Clean`
  (no error, and no member that `kFailOnFirstError` gives up silently), every visit
  made is queued, in progress or
  has all its answers and successors among those given and made; when the queue is
  empty the visits are closed, and the reference is the least closed set
  (`VisitsLeast`), so nothing owed is missing. The two together give the refinement.
  *Fresh*: the prefix that `CombineQueryParams` records for a subquery is the one the
  walk looks up on its way to it, if the RedPath is written as the walk writes it
  (`PlainRedPaths`). *Once* (`OnceInv`): a way is a visit, an
  expression and a resource it reaches; each way is still waiting or has been taken,
  every answer and every visit so far comes from the start or from a way taken, and a
  way is waiting in one place only. The hypothesis is `OneWay(input)`: no two
  ways give one answer or lead to one visit, and no collection lists a member twice.
  Without it the code does answer twice: it has no memory of what it has
  visited.
  The trie, the concatenation of RedPaths and the reference walk are recursive
  functions; what they compute is proved by least counterexample on the number of
  steps. Assumptions: the trie could be built (`PlanAssumption`, else there is no
  planner), and the types of the query, the tree and the service.

Assumptions on constants are named, in the module that declares them, and TLC
evaluates them in the runs: bounds are natural numbers, maps of the
configuration have their types, names of threads differ from the value for none,
store sizes are not zero, and the two of the router given above.

Only model-checked:

* liveness (`CallsReturn`, `EveryoneIsServed`, `ThreadsGoOn`) and
  the findings: this prover has no rules for fairness or `ENABLED`;
* the algorithms: they are recursive operators, which the prover does not accept in
  a module with theorems. Their answers for every input would also need induction
  over trees of documents and queries, whose measures are no fields of the data.

## 5. What the models showed that is not a run

Concurrent parts:

* An event stamped early and inserted late is sorted before events a client has
  already seen: resuming from those does not replay it.
* A request whose triggers are all masked subscribes nothing, so no response ever
  comes and its `on_subscribe_callback` is never called.
* A request whose `Subscribe` loop ends on a refused call has been answered with
  the error, and responses to its earlier calls may answer it again:
  `NoPartialSubscription` leaves such requests out.
* A refused query makes `Notify` return and skip the remaining subscribers.
* A deep cache stamps an embedded object with the time it is inserted, so it may
  be served for longer than `max_age` after it was fetched; `CachedWithinDuration`
  leaves such nodes out. Of the others it counts the age from the reading of the clock
  after the answer, which may itself be later than the answer by any delay of the thread. The duration of a POST node is that of its first caller. An
  uncached reader may join a fetch whose answer is in but not yet published.
* In the arbiter the last writer wins: a call that was slow on the secondary
  replaces a primary another call has just restored, until the refresh time.
* `UpdateTransport` keeps the supported features of the first service root.
* The planner keeps the URIs that an expression has collected in its context: if
  the expression then fails and the execution goes on, they are recorded
  under the RedPath of the next expression (`query_planner_impl.cc`, from line 1362).
* A predicate that cannot be applied to a member ends the loop over its collection and the
  context with an error; so does a variable that cannot be substituted. Variables are
  not substituted in the predicate of a single object.
* Freshness bubbles up by the text of RedPaths: a rule for `/Sys` is taken for a prefix of
  `/System` (`StartsWith`), and what is left of the name counts as a level.
* Query parameters are found by the text of a RedPath. A subquery whose
  RedPath is written with an empty step (`//`) has its parameters under a text no
  walk ever asks for, and its required freshness is ignored.

Algorithms:

* A collection of one member has a `Members` array of size one, which the descent of
  an override into an expanded answer takes for a bare reference.
* `NOT_IN` asks that some operand differs, not that all do.
* `RemoveQueryValueFromResult` removes nothing for a path of one part, and
  `TraverseQueryConfig` recurses without bound on a query whose roots form a cycle.
* `GetRedPath` has a reader of its own: of several bracketed groups the last counts,
  dotted names are compared by `=` only, and a filter that meets something that is
  no object dereferences a null pointer.
* The query validator looks at the first bracketed group of a RedPath only, and finds
  a property hidden by a subquery only below roots that it has seen before.
* The decorators of a transport forward neither `Post` with headers nor `Subscribe`;
  metrics belong to a thread, whatever transports it uses, and count an HTTP 404 as
  a success. An endpoint whose name ends in "unix" keeps it in its `Host`.
* `QueryRouter::Create` moves a transport before it is tested for null
  (`query_router.cc`, about line 290), and `CreateQueryArgumentsWithSystemId`
  (line 72) looks for the system id among the query ids.

## 6. Not modelled

`PROJECT.json` lists every component with its reason. In short: device and file
access, SMBIOS decoding, the proxy, lock files, threads, clocks and small helpers
are I/O or pure, with no state of the library's own beyond a call, and have
exhaustive unit tests; the complexity tracker and the test servers are
instrumentation. Of the modelled components these are left out: TLS options and
certificates, the options handed to libcurl, statistics and tracing, escapes and
percent encoding, the rendering of values as text, the wording of messages, the
`collect_as` transformation of a normalized data set (`ApplyCollectAs`), the
engine's factories, and the client end of an event subscription
(`redpath_subscription.cc`), whose planner and server ends are modelled.

## 7. Plan

What would add most, in this order:

1. `SubscriptionStore` as an instance inside `SubscriptionService`, so that the step
   from what a lookup returns to the one set is a refinement rather than a theorem
   beside it.
2. `redpath_subscription.cc` composed with the engine and the service.
3. The older planner as a state machine under the same refinement as the newer one;
   it is a function of its input so far, checked on bounded inputs.
4. The resource identifier extractors, as further inputs of the normalizers.
