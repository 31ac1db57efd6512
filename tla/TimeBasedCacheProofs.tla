------------------------ MODULE TimeBasedCacheProofs ------------------------
(***************************************************************************)
(* The transport cache batches colliding reads, forgets no waiter, serves  *)
(* no failure, calls fresh only what is, and never goes back to an older   *)
(* payload: for any number of threads, calls, paths and any durations.     *)
(***************************************************************************)
EXTENDS TimeBasedCache, TLAPS

\* operation_in_progress_ says exactly whether some thread fetches for a node.
UpdaterInv ==
  /\ \A k \in Keys : operation_in_progress[k] =>
       \E t \in Threads : Updating(t) /\ call[t].key = k
  /\ \A t \in Threads : Updating(t) => operation_in_progress[call[t].key]
  /\ OneFetchPerNode

\* What a call in progress has established.
CallInv ==
  \A t \in Threads :
    /\ pc[t] \in {"read", "fetch", "stamp", "publish", "wait"} => call[t].key \in present
    /\ call[t].op = "cached_post" => call[t].key \in Posts
    /\ call[t].op # "cached_post" => call[t].key \in Paths
    /\ call[t].joined <= now
    /\ \A p \in unprocessed[t] :
         /\ pc[t] = "return" /\ answer[t].result.kind = "json"
         /\ policy = "deep" /\ call[t].key \in Paths /\ p \in Nested[call[t].key]

\* Nodes a deep cache may make from an embedded object.
Embedded(k) == policy = "deep" /\ \E p \in Paths : k \in Nested[p]

\* A node with an update time holds a result that may be served, and unless it
\* was embedded its update time was read from the clock for that result.
NodeInv ==
  \A k \in Keys :
    /\ result[k].payload.time <= now
    /\ k \notin present => result[k].payload.time = 0
    /\ last_update_time[k] # InfinitePast =>
         /\ result[k].payload.kind # "error"
         /\ k \in Paths => result[k].payload.kind = "json"
         /\ ~Embedded(k) => /\ result[k].update_time = last_update_time[k]
                            /\ result[k].payload.time <= last_update_time[k]

\* A fetch ends no earlier than it began and than the result it replaces, and
\* the clock is read for it, if it may be cached, no earlier than it ended.
FetchInv ==
  \A t \in Threads :
    /\ Updating(t) => call[t].joined = began[call[t].key]
    /\ pc[t] \in {"stamp", "publish"} =>
         /\ fetched[t].payload.time <= now
         /\ fetched[t].payload.time >= call[t].joined
         /\ fetched[t].payload.time >= result[call[t].key].payload.time
    /\ pc[t] = "publish" /\ fetched[t].update_time # InfinitePast =>
         /\ Cacheable(call[t].op, fetched[t].payload)
         /\ fetched[t].payload.time <= fetched[t].update_time
    /\ pc[t] = "return" => answer[t].result.time <= now

\* A waiter's result is there, or it is registered with the fetch it joined.
WaitInv ==
  /\ \A t \in notified :
       pc[t] = "wait" /\ result[call[t].key].payload.time >= call[t].joined
  /\ \A k \in Keys : \A t \in notifications[k] :
       /\ pc[t] = "wait" /\ t \notin notified
       /\ call[t].key = k /\ call[t].joined = began[k]
  /\ NoWaiterForgotten

\* The inductive invariant.  What is answered depends on what a node holds, and
\* that on nobody else fetching or inserting while a fetch is in progress.
IInv ==
  /\ TypeOK
  /\ UpdaterInv
  /\ CallInv
  /\ NodeInv
  /\ FetchInv
  /\ WaitInv
  /\ FailuresAreNotCached
  /\ FreshAnswersAreLive

LEMMA NothingTyped ==
  /\ NoPayload \in Payloads /\ NoResult \in Results
  /\ NoCall \in Calls /\ NoAnswer \in Answers
<1>1. NoPayload \in Payloads /\ NoResult \in Results
  BY TimesAssumption DEF NoPayload, Payloads, NoResult, Results, Kinds
<1>2. NoCall \in Calls
  <2>1. NoCall.key \in Paths
    BY KeysAssumption DEF NoCall
  <2>2. QED BY <2>1, TimesAssumption DEF NoCall, Calls, Keys
<1>3. NoAnswer \in Answers
  BY <1>1 DEF NoAnswer, Answers
<1>4. QED BY <1>1, <1>2, <1>3

LEMMA NoCallFacts ==
  /\ NoCall.op = "cached_get" /\ NoCall.key \in Paths /\ NoCall.joined = 0
  /\ NoResult.payload.time = 0
  /\ NoAnswer.result.time = 0
BY KeysAssumption DEF NoCall, NoPayload, NoResult, NoAnswer

LEMMA ResultTimes ==
  /\ \A r \in Payloads : r.time \in Nat
  /\ \A r \in Results : r.payload \in Payloads /\ r.payload.time \in Nat
  /\ \A r \in Results : r.update_time \in {InfinitePast} \union Nat
  /\ \A c \in Calls : c.joined \in Nat
  /\ MaxTime \in Nat /\ \A x \in 0 .. MaxTime : x \in Nat
BY TimesAssumption DEF Payloads, Results, Calls

\* A step of a thread that neither waits nor fetches, before and after, leaves
\* the waiters alone if it leaves the nodes and the calls alone.
LEMMA WaitFrame ==
  ASSUME TypeOK, WaitInv, NEW t \in Threads, NEW s,
         pc[t] \notin {"wait", "fetch", "stamp", "publish"}, s # "wait",
         pc' = [pc EXCEPT ![t] = s],
         UNCHANGED <<notified, notifications, result, began, call>>
  PROVE  WaitInv'
<1>1. \A u \in Threads : u # t => pc'[u] = pc[u]
  BY DEF TypeOK
<1>2. \A u \in notified : pc'[u] = "wait"
  BY <1>1 DEF TypeOK, WaitInv
<1>3. \A k \in Keys : \A u \in notifications[k] : pc'[u] = "wait"
  BY <1>1 DEF TypeOK, WaitInv
<1>4. NoWaiterForgotten'
  <2>1. \A u \in Threads : Updating(u) => Updating(u)'
    BY <1>1 DEF Updating
  <2>2. \A u \in Threads : pc'[u] = "wait" => pc[u] = "wait"
    BY <1>1 DEF TypeOK
  <2>3. QED BY <2>1, <2>2 DEF WaitInv, NoWaiterForgotten
<1>5. QED BY <1>2, <1>3, <1>4 DEF WaitInv

LEMMA InitIInv == Init => IInv
<1> SUFFICES ASSUME Init PROVE IInv
  OBVIOUS
<1>1. TypeOK
  <2>1. enable_blocklist \in BOOLEAN
    BY DEF Init
  <2>2. 0 \in 0 .. MaxTime /\ 0 \in 0 .. MaxCalls
    BY TimesAssumption
  <2>3. QED BY <2>1, <2>2, NothingTyped, TimesAssumption DEF Init, TypeOK, Steps
<1>2. UpdaterInv /\ WaitInv /\ FailuresAreNotCached /\ FreshAnswersAreLive
  BY DEF Init, UpdaterInv, OneFetchPerNode, WaitInv, NoWaiterForgotten,
         FailuresAreNotCached, FreshAnswersAreLive, Updating, Answered
<1>3. CallInv /\ FetchInv
  BY NoCallFacts DEF Init, CallInv, FetchInv, Updating
<1>4. NodeInv
  BY NoCallFacts DEF Init, NodeInv
<1>5. QED BY <1>1, <1>2, <1>3, <1>4 DEF IInv

LEMMA NextIInv ==
  ASSUME IInv, [Next]_vars
  PROVE  IInv'
<1> USE DEF IInv
<1> SUFFICES ASSUME Next PROVE IInv'
  <2>1. CASE UNCHANGED vars
    BY <2>1 DEF vars, node, local, TypeOK, UpdaterInv, OneFetchPerNode, CallInv,
       NodeInv, Embedded, FetchInv, WaitInv, NoWaiterForgotten,
       FailuresAreNotCached, FreshAnswersAreLive, Updating, Answered
  <2>2. QED BY <2>1
<1>1. CASE Tick
  <2>1. now' \in 0 .. MaxTime /\ now <= now' /\ now \in Nat
    BY <1>1, TimesAssumption DEF Tick, TypeOK
  <2>2. QED
    BY <1>1, <2>1, ResultTimes DEF Tick, node, local, Answers, TypeOK, UpdaterInv, OneFetchPerNode, CallInv,
       NodeInv, Embedded, FetchInv, WaitInv, NoWaiterForgotten,
       FailuresAreNotCached, FreshAnswersAreLive, Updating, Answered
<1>2. CASE Finished
  BY <1>2 DEF Finished, vars, node, local, TypeOK, UpdaterInv, OneFetchPerNode, CallInv,
       NodeInv, Embedded, FetchInv, WaitInv, NoWaiterForgotten,
       FailuresAreNotCached, FreshAnswersAreLive, Updating, Answered
<1>3. ASSUME NEW t \in Threads, NEW p \in Paths, CachedGet(t, p) PROVE IInv'
  <2>1. TypeOK'
    <3>1. [op |-> "cached_get", key |-> p, duration |-> MaxAge, joined |-> now] \in Calls
      BY TimesAssumption DEF TypeOK, Calls, Keys
    <3>2. call' \in [Threads -> Calls]
      BY <1>3, <3>1 DEF CachedGet, Begin, TypeOK
    <3>3. calls' \in 0 .. MaxCalls
      BY <1>3, TimesAssumption DEF CachedGet, Begin, TypeOK
    <3>4. pc' \in [Threads -> Steps]
      BY <1>3 DEF CachedGet, Begin, TypeOK, Steps
    <3>5. QED BY <3>1, <3>2, <3>3, <3>4, <1>3 DEF CachedGet, Begin, node, TypeOK
  <2>2. UpdaterInv'
    BY <1>3 DEF CachedGet, Begin, node, local, TypeOK, UpdaterInv, OneFetchPerNode, Updating
  <2>3. CallInv'
    BY <1>3, ResultTimes, NoCallFacts DEF CachedGet, Begin, node, local, TypeOK, CallInv
  <2>4. NodeInv'
    BY <1>3, ResultTimes DEF CachedGet, Begin, node, local, TypeOK, CallInv, NodeInv, Embedded, FetchInv
  <2>5. FetchInv'
    BY <1>3, ResultTimes DEF CachedGet, Begin, node, local, TypeOK, CallInv, NodeInv, FetchInv, UpdaterInv,
       OneFetchPerNode, WaitInv, Updating
  <2>6. WaitInv'
    BY <1>3, ResultTimes DEF CachedGet, Begin, node, local, TypeOK, UpdaterInv, OneFetchPerNode, FetchInv, WaitInv,
       NoWaiterForgotten, Updating
  <2>7. FailuresAreNotCached' /\ FreshAnswersAreLive'
    BY <1>3, ResultTimes DEF CachedGet, Begin, node, local, TypeOK, CallInv, NodeInv, FetchInv, WaitInv,
       FailuresAreNotCached, FreshAnswersAreLive, Answered
  <2>8. QED BY <2>1, <2>2, <2>3, <2>4, <2>5, <2>6, <2>7
<1>4. ASSUME NEW t \in Threads, NEW p \in Paths, NEW r \in BOOLEAN, UncachedGet(t, p, r) PROVE IInv'
  <2>1. TypeOK'
    <3>1. [op |-> "uncached_get", key |-> p, duration |-> MaxAge, joined |-> now] \in Calls
      BY TimesAssumption DEF TypeOK, Calls, Keys
    <3>2. call' \in [Threads -> Calls]
      BY <1>4, <3>1 DEF UncachedGet, Begin, TypeOK
    <3>3. calls' \in 0 .. MaxCalls
      BY <1>4, TimesAssumption DEF UncachedGet, Begin, TypeOK
    <3>4. pc' \in [Threads -> Steps]
      BY <1>4 DEF UncachedGet, Begin, TypeOK, Steps
    <3>5. QED BY <3>1, <3>2, <3>3, <3>4, <1>4 DEF UncachedGet, Begin, node, TypeOK
  <2>2. UpdaterInv'
    BY <1>4 DEF UncachedGet, Begin, node, local, TypeOK, UpdaterInv, OneFetchPerNode, Updating
  <2>3. CallInv'
    BY <1>4, ResultTimes, NoCallFacts DEF UncachedGet, Begin, node, local, TypeOK, CallInv
  <2>4. NodeInv'
    BY <1>4, ResultTimes DEF UncachedGet, Begin, node, local, TypeOK, CallInv, NodeInv, Embedded, FetchInv
  <2>5. FetchInv'
    BY <1>4, ResultTimes DEF UncachedGet, Begin, node, local, TypeOK, CallInv, NodeInv, FetchInv, UpdaterInv,
       OneFetchPerNode, WaitInv, Updating
  <2>6. WaitInv'
    <3>1. \A u \in Threads : u # t => pc'[u] = pc[u] /\ call'[u] = call[u]
      BY <1>4 DEF UncachedGet, Begin, TypeOK
    <3>2. pc[t] = "idle" /\ pc'[t] \notin {"wait", "fetch", "stamp", "publish"}
      BY <1>4 DEF UncachedGet, Begin, TypeOK
    <3>3. t \notin notified /\ \A k \in Keys : t \notin notifications[k]
      BY <3>2 DEF WaitInv
    <3>4. UNCHANGED <<notified, notifications, result, began>>
      BY <1>4 DEF UncachedGet, Begin, node
    <3>5. NoWaiterForgotten'
      BY <3>1, <3>2, <3>4 DEF WaitInv, NoWaiterForgotten, Updating
    <3>6. QED BY <3>1, <3>3, <3>4, <3>5 DEF WaitInv, TypeOK
  <2>7. FailuresAreNotCached' /\ FreshAnswersAreLive'
    BY <1>4, ResultTimes DEF UncachedGet, Begin, node, local, TypeOK, CallInv, NodeInv, FetchInv, WaitInv,
       FailuresAreNotCached, FreshAnswersAreLive, Answered
  <2>8. QED BY <2>1, <2>2, <2>3, <2>4, <2>5, <2>6, <2>7
<1>5. ASSUME NEW t \in Threads, NEW k \in Posts, NEW d \in Durations, CachedPost(t, k, d) PROVE IInv'
  <2>1. TypeOK'
    <3>1. [op |-> "cached_post", key |-> k, duration |-> d, joined |-> now] \in Calls
      BY TimesAssumption DEF TypeOK, Calls, Keys
    <3>2. call' \in [Threads -> Calls]
      BY <1>5, <3>1 DEF CachedPost, Begin, TypeOK
    <3>3. calls' \in 0 .. MaxCalls
      BY <1>5, TimesAssumption DEF CachedPost, Begin, TypeOK
    <3>4. pc' \in [Threads -> Steps]
      BY <1>5 DEF CachedPost, Begin, TypeOK, Steps
    <3>5. QED BY <3>1, <3>2, <3>3, <3>4, <1>5 DEF CachedPost, Begin, node, TypeOK
  <2>2. UpdaterInv'
    BY <1>5 DEF CachedPost, Begin, node, local, TypeOK, UpdaterInv, OneFetchPerNode, Updating
  <2>3. CallInv'
    BY <1>5, ResultTimes, NoCallFacts DEF CachedPost, Begin, node, local, TypeOK, CallInv
  <2>4. NodeInv'
    BY <1>5, ResultTimes DEF CachedPost, Begin, node, local, TypeOK, CallInv, NodeInv, Embedded, FetchInv
  <2>5. FetchInv'
    BY <1>5, ResultTimes DEF CachedPost, Begin, node, local, TypeOK, CallInv, NodeInv, FetchInv, UpdaterInv,
       OneFetchPerNode, WaitInv, Updating
  <2>6. WaitInv'
    BY <1>5, ResultTimes DEF CachedPost, Begin, node, local, TypeOK, UpdaterInv, OneFetchPerNode, FetchInv, WaitInv,
       NoWaiterForgotten, Updating
  <2>7. FailuresAreNotCached' /\ FreshAnswersAreLive'
    BY <1>5, ResultTimes DEF CachedPost, Begin, node, local, TypeOK, CallInv, NodeInv, FetchInv, WaitInv,
       FailuresAreNotCached, FreshAnswersAreLive, Answered
  <2>8. QED BY <2>1, <2>2, <2>3, <2>4, <2>5, <2>6, <2>7
<1>6. ASSUME NEW t \in Threads, Direct(t) PROVE IInv'
  <2>1. TypeOK'
    <3>1. \A kind \in Kinds :
          [result |-> Returned(kind), is_fresh |-> TRUE] \in Answers
      BY DEF TypeOK, Answers, Payloads, Returned
    <3>2. answer' \in [Threads -> Answers]
      BY <1>6, <3>1 DEF Direct, TypeOK
    <3>3. pc' \in [Threads -> Steps]
      BY <1>6 DEF Direct, TypeOK, Steps
    <3>4. QED BY <3>1, <3>2, <3>3, <1>6 DEF Direct, node, TypeOK
  <2>2. UpdaterInv'
    BY <1>6 DEF Direct, node, local, TypeOK, UpdaterInv, OneFetchPerNode, Updating
  <2>3. CallInv'
    BY <1>6, ResultTimes, NoCallFacts DEF Direct, node, local, TypeOK, CallInv
  <2>4. NodeInv'
    BY <1>6, ResultTimes DEF Direct, node, local, TypeOK, CallInv, NodeInv, Embedded, FetchInv
  <2>5. FetchInv'
    BY <1>6, ResultTimes DEF Direct, Returned, node, local, TypeOK, CallInv, NodeInv, FetchInv, UpdaterInv,
       OneFetchPerNode, WaitInv, Updating
  <2>6. WaitInv'
    BY <1>6, WaitFrame DEF Direct, node
  <2>7. FailuresAreNotCached' /\ FreshAnswersAreLive'
    BY <1>6, ResultTimes DEF Direct, Returned, node, local, TypeOK, CallInv, NodeInv, FetchInv, WaitInv,
       FailuresAreNotCached, FreshAnswersAreLive, Answered
  <2>8. QED BY <2>1, <2>2, <2>3, <2>4, <2>5, <2>6, <2>7
<1>7. ASSUME NEW t \in Threads, RetrieveCacheNode(t) PROVE IInv'
  <2>1. TypeOK'
    <3>1. call[t].key \in Keys /\ call[t].duration \in Nat
      BY DEF TypeOK, Calls
    <3>2. duration' \in [Keys -> Nat]
      BY <1>7, <3>1 DEF RetrieveCacheNode, TypeOK
    <3>3. pc' \in [Threads -> Steps]
      BY <1>7 DEF RetrieveCacheNode, TypeOK, Steps
    <3>4. QED BY <3>1, <3>2, <3>3, <1>7 DEF RetrieveCacheNode, TypeOK
  <2>2. UpdaterInv'
    BY <1>7 DEF RetrieveCacheNode, node, local, TypeOK, UpdaterInv, OneFetchPerNode, Updating
  <2>3. CallInv'
    BY <1>7, ResultTimes, NoCallFacts DEF RetrieveCacheNode, node, local, TypeOK, CallInv
  <2>4. NodeInv'
    BY <1>7, ResultTimes DEF RetrieveCacheNode, node, local, TypeOK, CallInv, NodeInv, Embedded, FetchInv
  <2>5. FetchInv'
    BY <1>7, ResultTimes DEF RetrieveCacheNode, node, local, TypeOK, CallInv, NodeInv, FetchInv, UpdaterInv,
       OneFetchPerNode, WaitInv, Updating
  <2>6. WaitInv'
    BY <1>7, ResultTimes DEF RetrieveCacheNode, node, local, TypeOK, UpdaterInv, OneFetchPerNode, FetchInv, WaitInv,
       NoWaiterForgotten, Updating
  <2>7. FailuresAreNotCached' /\ FreshAnswersAreLive'
    BY <1>7, ResultTimes DEF RetrieveCacheNode, node, local, TypeOK, CallInv, NodeInv, FetchInv, WaitInv,
       FailuresAreNotCached, FreshAnswersAreLive, Answered
  <2>8. QED BY <2>1, <2>2, <2>3, <2>4, <2>5, <2>6, <2>7
<1>8. ASSUME NEW t \in Threads, Hit(t) PROVE IInv'
  <2>1. TypeOK'
    <3>1. [result |-> result[call[t].key].payload, is_fresh |-> FALSE] \in Answers
      BY ResultTimes DEF TypeOK, Calls, Answers
    <3>2. answer' \in [Threads -> Answers]
      BY <1>8, <3>1 DEF Hit, TypeOK
    <3>3. pc' \in [Threads -> Steps]
      BY <1>8 DEF Hit, TypeOK, Steps
    <3>4. QED BY <3>1, <3>2, <3>3, <1>8 DEF Hit, node, TypeOK
  <2>2. UpdaterInv'
    BY <1>8 DEF Hit, Recent, node, local, TypeOK, UpdaterInv, OneFetchPerNode, Updating
  <2>3. CallInv'
    BY <1>8, ResultTimes, NoCallFacts DEF Hit, Recent, node, local, TypeOK, CallInv
  <2>4. NodeInv'
    BY <1>8, ResultTimes DEF Hit, Recent, node, local, TypeOK, CallInv, NodeInv, Embedded, FetchInv
  <2>5. FetchInv'
    BY <1>8, ResultTimes DEF Hit, Recent, node, local, TypeOK, CallInv, NodeInv, FetchInv, UpdaterInv,
       OneFetchPerNode, WaitInv, Updating
  <2>6. WaitInv'
    BY <1>8, WaitFrame DEF Hit, node
  <2>7. FailuresAreNotCached' /\ FreshAnswersAreLive'
    BY <1>8, ResultTimes DEF Hit, Recent, node, local, TypeOK, CallInv, NodeInv, FetchInv, WaitInv,
       FailuresAreNotCached, FreshAnswersAreLive, Answered
  <2>8. QED BY <2>1, <2>2, <2>3, <2>4, <2>5, <2>6, <2>7
<1>9. ASSUME NEW t \in Threads, BeginUpdate(t) PROVE IInv'
  <2>0. call[t].key \in Keys
    BY DEF TypeOK, Calls
  <2>1. TypeOK'
    <3>1. [call[t] EXCEPT !.joined = now] \in Calls
      BY DEF TypeOK, Calls
    <3>2. call' \in [Threads -> Calls]
      BY <1>9, <3>1 DEF BeginUpdate, TypeOK
    <3>3. began' \in [Keys -> 0 .. MaxTime]
      BY <1>9 DEF BeginUpdate, TypeOK
    <3>4. operation_in_progress' \in [Keys -> BOOLEAN]
      BY <1>9 DEF BeginUpdate, TypeOK
    <3>5. pc' \in [Threads -> Steps]
      BY <1>9 DEF BeginUpdate, TypeOK, Steps
    <3>6. QED BY <3>1, <3>2, <3>3, <3>4, <3>5, <1>9 DEF BeginUpdate, TypeOK
  <2>2. UpdaterInv'
    <3>1. /\ \A u \in Threads : u # t => pc'[u] = pc[u] /\ call'[u] = call[u]
          /\ pc'[t] = "fetch" /\ call'[t].key = call[t].key
      BY <1>9 DEF BeginUpdate, TypeOK, Calls
    <3>2. \A k \in Keys : operation_in_progress'[k] <=>
            operation_in_progress[k] \/ k = call[t].key
      BY <2>0, <1>9 DEF BeginUpdate, TypeOK
    <3>3. \A u \in Threads : Updating(u)' <=> Updating(u) \/ u = t
      BY <3>1, <1>9 DEF BeginUpdate, Misses, Updating
    <3>4. \A k \in Keys : operation_in_progress'[k] =>
            \E u \in Threads : Updating(u)' /\ call'[u].key = k
      BY <3>1, <3>2, <3>3, <1>9 DEF UpdaterInv, BeginUpdate, Misses, Updating
    <3>5. \A u \in Threads : Updating(u)' => operation_in_progress'[call'[u].key]
      BY <2>0, <3>1, <3>2, <3>3 DEF UpdaterInv, TypeOK, Calls
    <3>6. \A u \in Threads : u # t /\ Updating(u) => call[u].key # call[t].key
      BY <1>9 DEF BeginUpdate, UpdaterInv
    <3>7. OneFetchPerNode'
      BY <3>1, <3>3, <3>6 DEF UpdaterInv, OneFetchPerNode
    <3>8. QED BY <3>4, <3>5, <3>7 DEF UpdaterInv
  <2>3. CallInv'
    BY <1>9, ResultTimes, NoCallFacts DEF BeginUpdate, Misses, node, local, TypeOK, CallInv
  <2>4. NodeInv'
    BY <1>9, ResultTimes DEF BeginUpdate, Misses, node, local, TypeOK, CallInv, NodeInv, Embedded, FetchInv
  <2>5. FetchInv'
    BY <1>9, ResultTimes DEF BeginUpdate, Misses, node, local, TypeOK, CallInv, NodeInv, FetchInv, UpdaterInv,
       OneFetchPerNode, WaitInv, Updating
  <2>6. WaitInv'
    <3>1. \A u \in Threads : u # t => pc'[u] = pc[u] /\ call'[u] = call[u]
      BY <1>9 DEF BeginUpdate, TypeOK
    <3>2. pc[t] # "wait" /\ t \notin notified /\ \A k \in Keys : t \notin notifications[k]
      BY <1>9 DEF BeginUpdate, Misses, WaitInv
    <3>3. notifications[call[t].key] = {}
      BY <2>0, <1>9 DEF BeginUpdate, TypeOK, WaitInv, NoWaiterForgotten, UpdaterInv
    <3>4. \A u \in notified :
            pc'[u] = "wait" /\ result[call'[u].key].payload.time >= call'[u].joined
      BY <3>1, <3>2 DEF TypeOK, WaitInv
    <3>5. \A k \in Keys : \A u \in notifications[k] :
            /\ pc'[u] = "wait" /\ u \notin notified
            /\ call'[u].key = k /\ call'[u].joined = began'[k]
      BY <2>0, <3>1, <3>2, <3>3, <1>9 DEF BeginUpdate, TypeOK, WaitInv
    <3>6. \A u \in Threads : Updating(u) => Updating(u)' /\ call'[u] = call[u]
      BY <3>1, <1>9 DEF BeginUpdate, Misses, Updating
    <3>7. \A u \in Threads : pc'[u] = "wait" => u # t /\ pc[u] = "wait"
      BY <3>1, <1>9 DEF BeginUpdate, TypeOK
    <3>8. NoWaiterForgotten'
      BY <3>1, <3>6, <3>7, <1>9 DEF BeginUpdate, WaitInv, NoWaiterForgotten
    <3>9. QED BY <3>4, <3>5, <3>8, <1>9 DEF BeginUpdate, WaitInv
  <2>7. FailuresAreNotCached' /\ FreshAnswersAreLive'
    BY <1>9, ResultTimes DEF BeginUpdate, Misses, node, local, TypeOK, CallInv, NodeInv, FetchInv, WaitInv,
       FailuresAreNotCached, FreshAnswersAreLive, Answered
  <2>8. QED BY <2>1, <2>2, <2>3, <2>4, <2>5, <2>6, <2>7
<1>10. ASSUME NEW t \in Threads, JoinUpdate(t) PROVE IInv'
  <2>0. call[t].key \in Keys
    BY DEF TypeOK, Calls
  <2>1. TypeOK'
    <3>1. [call[t] EXCEPT !.joined = began[call[t].key]] \in Calls
      BY DEF TypeOK, Calls
    <3>2. call' \in [Threads -> Calls]
      BY <1>10, <3>1 DEF JoinUpdate, TypeOK
    <3>3. notifications' \in [Keys -> SUBSET Threads]
      BY <1>10 DEF JoinUpdate, TypeOK
    <3>4. pc' \in [Threads -> Steps]
      BY <1>10 DEF JoinUpdate, TypeOK, Steps
    <3>5. QED BY <3>1, <3>2, <3>3, <3>4, <1>10 DEF JoinUpdate, TypeOK
  <2>2. UpdaterInv'
    BY <1>10 DEF JoinUpdate, Misses, node, local, TypeOK, UpdaterInv, OneFetchPerNode, Updating
  <2>3. CallInv'
    <3>1. PICK u \in Threads : Updating(u) /\ call[u].key = call[t].key
      BY <2>0, <1>10 DEF JoinUpdate, UpdaterInv
    <3>2. began[call[t].key] <= now
      BY <3>1 DEF FetchInv, CallInv
    <3>3. QED BY <3>2, <1>10 DEF JoinUpdate, Misses, TypeOK, Calls, CallInv
  <2>4. NodeInv'
    BY <1>10, ResultTimes DEF JoinUpdate, Misses, node, local, TypeOK, CallInv, NodeInv, Embedded, FetchInv
  <2>5. FetchInv'
    BY <1>10, ResultTimes DEF JoinUpdate, Misses, node, local, TypeOK, CallInv, NodeInv, FetchInv, UpdaterInv,
       OneFetchPerNode, WaitInv, Updating
  <2>6. WaitInv'
    <3>1. \A u \in Threads : u # t => pc'[u] = pc[u] /\ call'[u] = call[u]
      BY <1>10 DEF JoinUpdate, TypeOK
    <3>2. pc[t] # "wait" /\ t \notin notified /\ \A k \in Keys : t \notin notifications[k]
      BY <1>10 DEF JoinUpdate, Misses, WaitInv
    <3>3. /\ pc'[t] = "wait" /\ call'[t].key = call[t].key
          /\ call'[t].joined = began[call[t].key]
      BY <1>10 DEF JoinUpdate, TypeOK, Calls
    <3>4. \A u \in notified :
            pc'[u] = "wait" /\ result[call'[u].key].payload.time >= call'[u].joined
      BY <3>1, <3>2 DEF TypeOK, WaitInv
    <3>5. \A k \in Keys : notifications'[k] =
            IF k = call[t].key THEN notifications[k] \union {t} ELSE notifications[k]
      BY <1>10 DEF JoinUpdate, TypeOK
    <3>6. \A k \in Keys : \A u \in notifications'[k] :
            /\ pc'[u] = "wait" /\ u \notin notified
            /\ call'[u].key = k /\ call'[u].joined = began[k]
      <4> TAKE k \in Keys
      <4> TAKE u \in notifications'[k]
      <4>1. CASE u = t
        <5>1. k = call[t].key
          BY <4>1, <3>2, <3>5
        <5>2. QED BY <5>1, <4>1, <3>2, <3>3
      <4>2. CASE u # t
        <5>1. u \in notifications[k] /\ u \in Threads
          BY <4>2, <3>5 DEF TypeOK
        <5>2. QED BY <5>1, <4>2, <3>1 DEF WaitInv
      <4>3. QED BY <4>1, <4>2
    <3>7. \A u \in Threads : Updating(u) => Updating(u)' /\ call'[u] = call[u]
      BY <3>1, <1>10 DEF JoinUpdate, Misses, Updating
    <3>8. \E u \in Threads : Updating(u) /\ call[u].key = call[t].key
      BY <2>0, <1>10 DEF JoinUpdate, UpdaterInv
    <3>9. \A u \in Threads : pc'[u] = "wait" =>
            \/ u \in notified
            \/ /\ u \in notifications'[call'[u].key]
               /\ \E v \in Threads : Updating(v)' /\ call'[v].key = call'[u].key
      <4> TAKE u \in Threads
      <4> HAVE pc'[u] = "wait"
      <4>1. CASE u = t
        BY <4>1, <2>0, <3>3, <3>5, <3>7, <3>8
      <4>2. CASE u # t
        <5>1. pc[u] = "wait" /\ call'[u] = call[u] /\ call[u].key \in Keys
          BY <4>2, <3>1 DEF TypeOK, Calls
        <5>2. u \in notifications[call[u].key] => u \in notifications'[call[u].key]
          BY <5>1, <3>5
        <5>3. QED BY <5>1, <5>2, <3>7 DEF WaitInv, NoWaiterForgotten
      <4>3. QED BY <4>1, <4>2
    <3>10. QED BY <3>4, <3>6, <3>9, <1>10 DEF JoinUpdate, WaitInv, NoWaiterForgotten
  <2>7. FailuresAreNotCached' /\ FreshAnswersAreLive'
    BY <1>10, ResultTimes DEF JoinUpdate, Misses, node, local, TypeOK, CallInv, NodeInv, FetchInv, WaitInv,
       FailuresAreNotCached, FreshAnswersAreLive, Answered
  <2>8. QED BY <2>1, <2>2, <2>3, <2>4, <2>5, <2>6, <2>7
<1>11. ASSUME NEW t \in Threads, Fetch(t) PROVE IInv'
  <2>1. TypeOK'
    <3>1. \A kind \in Kinds :
            [payload |-> Returned(kind), update_time |-> InfinitePast] \in Results
      BY DEF TypeOK, Payloads, Results, Returned
    <3>2. fetched' \in [Threads -> Results]
      BY <1>11, <3>1 DEF Fetch, TypeOK
    <3>3. pc' \in [Threads -> Steps]
      BY <1>11 DEF Fetch, TypeOK, Steps
    <3>4. QED BY <3>1, <3>2, <3>3, <1>11 DEF Fetch, node, TypeOK
  <2>2. UpdaterInv'
    BY <1>11 DEF Fetch, node, local, TypeOK, UpdaterInv, OneFetchPerNode, Updating
  <2>3. CallInv'
    BY <1>11, ResultTimes, NoCallFacts DEF Fetch, node, local, TypeOK, CallInv
  <2>4. NodeInv'
    BY <1>11, ResultTimes DEF Fetch, node, local, TypeOK, CallInv, NodeInv, Embedded, FetchInv
  <2>5. FetchInv'
    BY <1>11, ResultTimes DEF Fetch, Returned, node, local, TypeOK, CallInv, NodeInv, FetchInv, UpdaterInv,
       OneFetchPerNode, WaitInv, Updating
  <2>6. WaitInv'
    BY <1>11, ResultTimes DEF Fetch, node, local, TypeOK, UpdaterInv, OneFetchPerNode, FetchInv, WaitInv,
       NoWaiterForgotten, Updating
  <2>7. FailuresAreNotCached' /\ FreshAnswersAreLive'
    BY <1>11, ResultTimes DEF Fetch, node, local, TypeOK, CallInv, NodeInv, FetchInv, WaitInv,
       FailuresAreNotCached, FreshAnswersAreLive, Answered
  <2>8. QED BY <2>1, <2>2, <2>3, <2>4, <2>5, <2>6, <2>7
<1>12. ASSUME NEW t \in Threads, Publish(t) PROVE IInv'
  <2>0. /\ fetched[t] \in Results /\ fetched[t].payload \in Payloads
        /\ call[t].key \in Keys /\ now \in 0 .. MaxTime
    BY ResultTimes DEF TypeOK, Calls
  <2>1. TypeOK'
    <3>1. answer' \in [Threads -> Answers]
      BY <2>0, <1>12 DEF Publish, Take, TypeOK, Answers
    <3>2. unprocessed' \in [Threads -> SUBSET Paths]
      BY <2>0, <1>12, KeysAssumption DEF Publish, Take, Unprocessed, CallInv, TypeOK
    <3>3. pc' \in [Threads -> Steps]
      BY <1>12 DEF Publish, Take, TypeOK, Steps
    <3>4. fetched[t].update_time \in {InfinitePast} \union 0 .. MaxTime
      BY <2>0 DEF Results
    <3>5. last_update_time' \in [Keys -> {InfinitePast} \union 0 .. MaxTime]
      BY <3>4, <1>12 DEF Publish, TypeOK
    <3>6. operation_in_progress' \in [Keys -> BOOLEAN]
      BY <1>12 DEF Publish, TypeOK
    <3>7. began' \in [Keys -> 0 .. MaxTime]
      <4>1. 0 \in 0 .. MaxTime
        BY TimesAssumption
      <4>2. QED BY <4>1, <1>12 DEF Publish, TypeOK
    <3>8. notified' \subseteq Threads /\ notifications' \in [Keys -> SUBSET Threads]
      BY <2>0, <1>12 DEF Publish, TypeOK
    <3>9. result' \in [Keys -> Results] /\ fetched' \in [Threads -> Results]
      BY <2>0, <1>12, NothingTyped DEF Publish, TypeOK
    <3>10. QED BY <3>1, <3>2, <3>3, <3>4, <3>5, <3>6, <3>7, <3>8, <3>9, <1>12 DEF Publish, TypeOK
  <2>2. UpdaterInv'
    BY <1>12 DEF Publish, Take, node, local, TypeOK, UpdaterInv, OneFetchPerNode, Updating
  <2>3. CallInv'
    <3>1. \A u \in Threads : u # t => /\ pc'[u] = pc[u] /\ answer'[u] = answer[u]
                                      /\ unprocessed'[u] = unprocessed[u]
      BY <1>12 DEF Publish, Take, TypeOK
    <3>2. /\ pc'[t] = "return" /\ answer'[t].result = fetched[t].payload
          /\ unprocessed'[t] = Unprocessed(t, fetched[t].payload)
      BY <1>12 DEF Publish, Take, TypeOK
    <3>3. \A p \in unprocessed'[t] :
            /\ policy = "deep" /\ call[t].key \in Paths /\ p \in Nested[call[t].key]
            /\ answer'[t].result.kind = "json"
      BY <3>2 DEF Unprocessed, CallInv
    <3>4. QED BY <3>1, <3>2, <3>3, <1>12 DEF Publish, CallInv
  <2>4. NodeInv'
    <3>1. \A k \in Keys : k # call[t].key =>
            result'[k] = result[k] /\ last_update_time'[k] = last_update_time[k]
      BY <1>12 DEF Publish, TypeOK
    <3>2. /\ result'[call[t].key] = fetched[t]
          /\ last_update_time'[call[t].key] = fetched[t].update_time
      BY <2>0, <1>12 DEF Publish, TypeOK
    <3>3. fetched[t].update_time # InfinitePast =>
            /\ fetched[t].payload.kind # "error"
            /\ call[t].key \in Paths => fetched[t].payload.kind = "json"
            /\ fetched[t].payload.time <= fetched[t].update_time
      BY <1>12, KeysAssumption DEF Publish, Cacheable, CallInv, FetchInv
    <3>4. call[t].key \in present /\ fetched[t].payload.time <= now
      BY <1>12 DEF Publish, CallInv, FetchInv
    <3>5. QED BY <3>1, <3>2, <3>3, <3>4, <1>12 DEF Publish, NodeInv, Embedded
  <2>5. FetchInv'
    BY <1>12, ResultTimes DEF Publish, Take, node, local, TypeOK, CallInv, NodeInv, FetchInv, UpdaterInv,
       OneFetchPerNode, WaitInv, Updating
  <2>6. WaitInv'
    <3>1. \A u \in Threads : u # t => pc'[u] = pc[u]
      BY <1>12 DEF Publish, Take, TypeOK
    <3>2. \A k \in Keys : result'[k].payload.time >= result[k].payload.time
      BY <2>0, <1>12, ResultTimes DEF Publish, FetchInv, TypeOK
    <3>3. t \notin notified /\ \A k \in Keys : t \notin notifications[k]
      BY <1>12 DEF Publish, WaitInv
    <3>4. \A u \in notifications[call[t].key] :
            call[u].key = call[t].key /\ fetched[t].payload.time >= call[u].joined
      BY <2>0, <1>12 DEF Publish, WaitInv, FetchInv, Updating
    <3>5. \A u \in notified : result'[call[u].key].payload.time >= call[u].joined
      <4> TAKE u \in notified
      <4>1. call[u].key \in Keys /\ call[u].joined \in Nat
        BY ResultTimes DEF TypeOK, Calls
      <4>2. result[call[u].key].payload.time \in Nat /\ result'[call[u].key].payload.time \in Nat
        BY <4>1, <2>1, ResultTimes DEF TypeOK
      <4>3. result[call[u].key].payload.time >= call[u].joined
        BY DEF WaitInv
      <4>4. QED BY <4>1, <4>2, <4>3, <3>2
    <3>6. \A u \in notifications[call[t].key] : result'[call[u].key].payload.time >= call[u].joined
      BY <2>0, <3>4, <1>12 DEF Publish, TypeOK
    <3>7. \A u \in notified' :
            pc'[u] = "wait" /\ result'[call[u].key].payload.time >= call[u].joined
      BY <2>0, <3>1, <3>3, <3>5, <3>6, <1>12 DEF Publish, TypeOK, WaitInv
    <3>8. \A k \in Keys : \A u \in notifications'[k] :
            k # call[t].key /\ u \in notifications[k]
      BY <2>0, <1>12 DEF Publish, TypeOK
    <3>9. \A k \in Keys : \A u \in notifications'[k] :
            /\ pc'[u] = "wait" /\ u \notin notified'
            /\ call[u].key = k /\ call[u].joined = began'[k]
      BY <2>0, <3>1, <3>3, <3>8, <1>12 DEF Publish, TypeOK, WaitInv
    <3>10. \A u \in Threads : u # t /\ Updating(u) => Updating(u)'
      BY <3>1 DEF Updating
    <3>11. \A u \in Threads : pc'[u] = "wait" => u # t /\ pc[u] = "wait"
      BY <3>1, <1>12 DEF Publish, Take, TypeOK
    <3>12. \A k \in Keys : k # call[t].key => notifications'[k] = notifications[k]
      BY <1>12 DEF Publish, TypeOK
    <3>13. NoWaiterForgotten'
      BY <3>10, <3>11, <3>12, <1>12 DEF Publish, TypeOK, Calls, WaitInv, NoWaiterForgotten
    <3>14. QED BY <3>7, <3>9, <3>13, <1>12 DEF Publish, WaitInv
  <2>7. FailuresAreNotCached' /\ FreshAnswersAreLive'
    BY <1>12, ResultTimes DEF Publish, Take, node, local, TypeOK, CallInv, NodeInv, FetchInv, WaitInv,
       FailuresAreNotCached, FreshAnswersAreLive, Answered
  <2>8. QED BY <2>1, <2>2, <2>3, <2>4, <2>5, <2>6, <2>7
<1>13. ASSUME NEW t \in Threads, WaitForNotification(t) PROVE IInv'
  <2>0. /\ result[call[t].key] \in Results /\ result[call[t].key].payload \in Payloads
        /\ call[t].key \in Keys
    BY ResultTimes DEF TypeOK, Calls
  <2>1. TypeOK'
    <3>1. answer' \in [Threads -> Answers]
      BY <2>0, <1>13 DEF WaitForNotification, Take, TypeOK, Answers
    <3>2. unprocessed' \in [Threads -> SUBSET Paths]
      BY <2>0, <1>13, KeysAssumption DEF WaitForNotification, Take, Unprocessed, CallInv, TypeOK
    <3>3. pc' \in [Threads -> Steps]
      BY <1>13 DEF WaitForNotification, Take, TypeOK, Steps
    <3>4. QED BY <3>1, <3>2, <3>3, <1>13 DEF WaitForNotification, TypeOK
  <2>2. UpdaterInv'
    BY <1>13 DEF WaitForNotification, Take, node, local, TypeOK, UpdaterInv, OneFetchPerNode, Updating
  <2>3. CallInv'
    <3>1. \A u \in Threads : u # t => /\ pc'[u] = pc[u] /\ answer'[u] = answer[u]
                                      /\ unprocessed'[u] = unprocessed[u]
      BY <1>13 DEF WaitForNotification, Take, TypeOK
    <3>2. /\ pc'[t] = "return" /\ answer'[t].result = result[call[t].key].payload
          /\ unprocessed'[t] = Unprocessed(t, result[call[t].key].payload)
      BY <1>13 DEF WaitForNotification, Take, TypeOK
    <3>3. \A p \in unprocessed'[t] :
            /\ policy = "deep" /\ call[t].key \in Paths /\ p \in Nested[call[t].key]
            /\ answer'[t].result.kind = "json"
      BY <3>2 DEF Unprocessed, CallInv
    <3>4. QED BY <3>1, <3>2, <3>3, <1>13 DEF WaitForNotification, CallInv
  <2>4. NodeInv'
    BY <1>13, ResultTimes DEF WaitForNotification, Take, node, local, TypeOK, CallInv, NodeInv, Embedded, FetchInv
  <2>5. FetchInv'
    BY <1>13, ResultTimes DEF WaitForNotification, Take, node, local, TypeOK, CallInv, NodeInv, FetchInv, UpdaterInv,
       OneFetchPerNode, WaitInv, Updating
  <2>6. WaitInv'
    BY <1>13, ResultTimes DEF WaitForNotification, Take, node, local, TypeOK, UpdaterInv, OneFetchPerNode, FetchInv, WaitInv,
       NoWaiterForgotten, Updating
  <2>7. FailuresAreNotCached' /\ FreshAnswersAreLive'
    BY <1>13, ResultTimes DEF WaitForNotification, Take, node, local, TypeOK, CallInv, NodeInv, FetchInv, WaitInv,
       FailuresAreNotCached, FreshAnswersAreLive, Answered
  <2>8. QED BY <2>1, <2>2, <2>3, <2>4, <2>5, <2>6, <2>7
<1>14. ASSUME NEW t \in Threads, NEW p \in Paths, InsertNested(t, p) PROVE IInv'
  <2>1. TypeOK'
    <3>1. p \in Keys /\ Embedding(answer[t].result) \in Results
      BY DEF TypeOK, Answers, Keys, Embedding, Results
    <3>2. unprocessed' \in [Threads -> SUBSET Paths]
      BY <1>14 DEF InsertNested, Embedding, TypeOK
    <3>3. result' \in [Keys -> Results] /\ duration' \in [Keys -> Nat]
      BY <3>1, <1>14, TimesAssumption DEF InsertNested, Embedding, TypeOK
    <3>4. /\ present' \subseteq Keys
          /\ last_update_time' \in [Keys -> {InfinitePast} \union 0 .. MaxTime]
      BY <3>1, <1>14 DEF InsertNested, Embedding, TypeOK
    <3>5. QED BY <3>1, <3>2, <3>3, <3>4, <1>14 DEF InsertNested, Embedding, TypeOK
  <2>2. UpdaterInv'
    BY <1>14 DEF InsertNested, Embedding, node, local, TypeOK, UpdaterInv, OneFetchPerNode, Updating
  <2>3. CallInv'
    BY <1>14, ResultTimes, NoCallFacts DEF InsertNested, Embedding, node, local, TypeOK, CallInv
  <2>4. NodeInv'
    BY <1>14, ResultTimes DEF InsertNested, Embedding, node, local, TypeOK, CallInv, NodeInv, Embedded, FetchInv
  <2>5. FetchInv'
    <3>1. \A k \in Keys : k \in present => result'[k] = result[k]
      BY <1>14 DEF InsertNested, Embedding, TypeOK
    <3>2. \A u \in Threads : pc[u] \in {"stamp", "publish"} =>
            result'[call[u].key] = result[call[u].key]
      BY <3>1 DEF CallInv, TypeOK, Calls
    <3>3. UNCHANGED <<pc, call, began, now, fetched, answer>>
      BY <1>14 DEF InsertNested
    <3>4. QED BY <3>2, <3>3 DEF FetchInv, Updating
  <2>6. WaitInv'
    <3>1. \A k \in Keys : k \in present => result'[k] = result[k]
      BY <1>14 DEF InsertNested, Embedding, TypeOK
    <3>2. \A u \in Threads : pc[u] = "wait" => result'[call[u].key] = result[call[u].key]
      BY <3>1 DEF CallInv, TypeOK, Calls
    <3>3. NoWaiterForgotten'
      BY <1>14 DEF InsertNested, Embedding, WaitInv, NoWaiterForgotten, Updating
    <3>4. QED BY <3>2, <3>3, <1>14 DEF InsertNested, Embedding, WaitInv, TypeOK
  <2>7. FailuresAreNotCached' /\ FreshAnswersAreLive'
    BY <1>14, ResultTimes DEF InsertNested, Embedding, node, local, TypeOK, CallInv, NodeInv, FetchInv, WaitInv,
       FailuresAreNotCached, FreshAnswersAreLive, Answered
  <2>8. QED BY <2>1, <2>2, <2>3, <2>4, <2>5, <2>6, <2>7
<1>15. ASSUME NEW t \in Threads, Return(t) PROVE IInv'
  <2>1. TypeOK'
    BY <1>15, NothingTyped, TimesAssumption DEF Return, node, local, TypeOK, Steps
  <2>2. UpdaterInv'
    BY <1>15 DEF Return, node, local, TypeOK, UpdaterInv, OneFetchPerNode, Updating
  <2>3. CallInv'
    BY <1>15, ResultTimes, NoCallFacts DEF Return, node, local, TypeOK, CallInv
  <2>4. NodeInv'
    BY <1>15, ResultTimes DEF Return, node, local, TypeOK, CallInv, NodeInv, Embedded, FetchInv
  <2>5. FetchInv'
    BY <1>15, ResultTimes DEF Return, node, local, TypeOK, CallInv, NodeInv, FetchInv, UpdaterInv,
       OneFetchPerNode, WaitInv, Updating
  <2>6. WaitInv'
    BY <1>15, ResultTimes DEF Return, node, local, TypeOK, UpdaterInv, OneFetchPerNode, FetchInv, WaitInv,
       NoWaiterForgotten, Updating
  <2>7. FailuresAreNotCached' /\ FreshAnswersAreLive'
    BY <1>15, ResultTimes DEF Return, node, local, TypeOK, CallInv, NodeInv, FetchInv, WaitInv,
       FailuresAreNotCached, FreshAnswersAreLive, Answered
  <2>8. QED BY <2>1, <2>2, <2>3, <2>4, <2>5, <2>6, <2>7
<1>16. ASSUME NEW t \in Threads, Stamp(t) PROVE IInv'
  <2>1. TypeOK'
    <3>1. \A u \in {now, InfinitePast} : [fetched[t] EXCEPT !.update_time = u] \in Results
      BY DEF TypeOK, Results
    <3>2. fetched' \in [Threads -> Results]
      BY <1>16, <3>1 DEF Stamp, TypeOK
    <3>3. pc' \in [Threads -> Steps]
      BY <1>16 DEF Stamp, TypeOK, Steps
    <3>4. QED BY <3>1, <3>2, <3>3, <1>16 DEF Stamp, node, TypeOK
  <2>2. UpdaterInv'
    BY <1>16 DEF Stamp, node, local, TypeOK, UpdaterInv, OneFetchPerNode, Updating
  <2>3. CallInv'
    BY <1>16, ResultTimes, NoCallFacts DEF Stamp, node, local, TypeOK, CallInv
  <2>4. NodeInv'
    BY <1>16, ResultTimes DEF Stamp, node, local, TypeOK, CallInv, NodeInv, Embedded, FetchInv
  <2>5. FetchInv'
    BY <1>16, ResultTimes DEF Stamp, node, local, TypeOK, CallInv, NodeInv, FetchInv, UpdaterInv,
       OneFetchPerNode, WaitInv, Updating
  <2>6. WaitInv'
    BY <1>16, ResultTimes DEF Stamp, node, local, TypeOK, UpdaterInv, OneFetchPerNode, FetchInv, WaitInv,
       NoWaiterForgotten, Updating
  <2>7. FailuresAreNotCached' /\ FreshAnswersAreLive'
    BY <1>16, ResultTimes DEF Stamp, node, local, TypeOK, CallInv, NodeInv, FetchInv, WaitInv,
       FailuresAreNotCached, FreshAnswersAreLive, Answered
  <2>8. QED BY <2>1, <2>2, <2>3, <2>4, <2>5, <2>6, <2>7
<1>17. QED BY <1>1, <1>2, <1>3, <1>4, <1>5, <1>6, <1>7, <1>8, <1>9, <1>10, <1>11, <1>12, <1>13, <1>14, <1>15, <1>16 DEF Next, Step

\* The state of the cache and of every call in progress is well typed.
THEOREM TypeCorrect == Spec => []TypeOK
<1>1. IInv => TypeOK
  BY DEF IInv
<1>2. QED BY InitIInv, NextIInv, <1>1, PTL DEF Spec

\* No two threads fetch for one node at a time.
THEOREM FetchesAreBatched == Spec => []OneFetchPerNode
<1>1. IInv => OneFetchPerNode
  BY DEF IInv, UpdaterInv
<1>2. QED BY InitIInv, NextIInv, <1>1, PTL DEF Spec

\* Every waiter has been notified, or is known to the node somebody fetches for.
THEOREM WaitersAreKnown == Spec => []NoWaiterForgotten
<1>1. IInv => NoWaiterForgotten
  BY DEF IInv, WaitInv
<1>2. QED BY InitIInv, NextIInv, <1>1, PTL DEF Spec

\* A failure, or a GET's body that is not JSON, is never served from the cache.
THEOREM OnlySuccessIsServed == Spec => []FailuresAreNotCached
<1>1. IInv => FailuresAreNotCached
  BY DEF IInv
<1>2. QED BY InitIInv, NextIInv, <1>1, PTL DEF Spec

\* A result said to be fresh is no older than the fetch that served the call.
THEOREM FreshMeansLive == Spec => []FreshAnswersAreLive
<1>1. IInv => FreshAnswersAreLive
  BY DEF IInv
<1>2. QED BY InitIInv, NextIInv, <1>1, PTL DEF Spec

\* Only a publication and the insertion of an embedded object write a result.
LEMMA ResultWriters ==
  ASSUME TypeOK, Next
  PROVE  \/ UNCHANGED result
         \/ \E t \in Threads : Publish(t)
         \/ \E t \in Threads, p \in Paths : InsertNested(t, p)
BY DEF Next, Step, Tick, Finished, vars, node, CachedGet, UncachedGet, CachedPost, Begin,
       Direct, RetrieveCacheNode, Hit, BeginUpdate, JoinUpdate, Fetch, Stamp,
       WaitForNotification, Return

\* A node's payload is never replaced by one fetched earlier.
THEOREM NodesNeverGoBack == Spec => ResultsNeverGoBack
<1>1. ASSUME IInv, [Next]_vars
      PROVE  [\A k \in Keys : result'[k].payload.time >= result[k].payload.time]_vars
  <2>0. \A k \in Keys : result[k].payload.time \in Nat
    BY <1>1, ResultTimes DEF IInv, TypeOK
  <2>1. CASE UNCHANGED vars
    BY <2>1
  <2>2. CASE Next
    <3>1. CASE UNCHANGED result
      BY <3>1, <2>0
    <3>2. ASSUME NEW t \in Threads, Publish(t)
          PROVE  \A k \in Keys : result'[k].payload.time >= result[k].payload.time
      BY <1>1, <2>0, <3>2 DEF Publish, IInv, TypeOK, FetchInv
    <3>3. ASSUME NEW t \in Threads, NEW p \in Paths, InsertNested(t, p)
          PROVE  \A k \in Keys : result'[k].payload.time >= result[k].payload.time
      <4>1. answer[t].result.time \in Nat
        BY <1>1, ResultTimes DEF IInv, TypeOK, Answers
      <4>2. QED BY <1>1, <2>0, <3>3, <4>1 DEF InsertNested, Embedding, IInv, TypeOK, NodeInv
    <3>4. QED BY <1>1, <2>2, <3>1, <3>2, <3>3, ResultWriters DEF IInv
  <2>3. QED BY <1>1, <2>1, <2>2
<1>2. QED BY <1>1, InitIInv, NextIInv, PTL DEF Spec, ResultsNeverGoBack

\* A call comes to be answered from the cache by a hit, and in no other way.
LEMMA CachedAnswerIsHit ==
  ASSUME TypeOK, Next, NEW t \in Threads,
         ~Answered(t), Answered(t)', ~answer'[t].is_fresh
  PROVE  Hit(t)
<1> USE DEF Answered
<1>1. CASE Tick \/ Finished
  BY <1>1 DEF Tick, Finished, vars, local
<1>2. ASSUME NEW u \in Threads, NEW p \in Paths, CachedGet(u, p) PROVE FALSE
  BY <1>2 DEF CachedGet, Begin, TypeOK
<1>3. ASSUME NEW u \in Threads, NEW p \in Paths, NEW r \in BOOLEAN,
             UncachedGet(u, p, r)
      PROVE  FALSE
  BY <1>3 DEF UncachedGet, Begin, TypeOK
<1>4. ASSUME NEW u \in Threads, NEW k \in Posts, NEW d \in Durations,
             CachedPost(u, k, d)
      PROVE  FALSE
  BY <1>4 DEF CachedPost, Begin, TypeOK
<1>5. ASSUME NEW u \in Threads, Direct(u) PROVE FALSE
  BY <1>5 DEF Direct, TypeOK
<1>6. ASSUME NEW u \in Threads, RetrieveCacheNode(u) \/ BeginUpdate(u) \/ JoinUpdate(u)
                                \/ Fetch(u) \/ Stamp(u) \/ Return(u)
      PROVE  FALSE
  BY <1>6 DEF RetrieveCacheNode, BeginUpdate, JoinUpdate, Fetch, Stamp, Return, TypeOK
<1>7. ASSUME NEW u \in Threads, Publish(u) \/ WaitForNotification(u) PROVE FALSE
  BY <1>7 DEF Publish, WaitForNotification, Take, TypeOK
<1>8. ASSUME NEW u \in Threads, NEW p \in Paths, InsertNested(u, p) PROVE FALSE
  BY <1>8 DEF InsertNested
<1>9. ASSUME NEW u \in Threads, Hit(u) PROVE u = t
  BY <1>9 DEF Hit, TypeOK
<1>10. QED
  BY <1>1, <1>2, <1>3, <1>4, <1>5, <1>6, <1>7, <1>8, <1>9 DEF Next, Step

\* What is served from the cache was fetched within its node's duration, unless
\* a deep cache made the node from an embedded object.
THEOREM ServedWithinDuration == Spec => CachedWithinDuration
<1>1. ASSUME IInv, [Next]_vars
      PROVE  [\A t \in Threads :
                LET k == call[t].key IN
                /\ ~Answered(t) /\ Answered(t)' /\ ~answer'[t].is_fresh
                /\ policy # "deep" \/ \A p \in Paths : k \notin Nested[p]
                => /\ answer'[t].result = result[k].payload
                   /\ now < result[k].update_time + duration[k]
                   /\ result[k].payload.time <= result[k].update_time]_vars
  <2>1. CASE UNCHANGED vars
    BY <2>1
  <2>2. ASSUME Next, NEW t \in Threads,
               ~Answered(t), Answered(t)', ~answer'[t].is_fresh,
               policy # "deep" \/ \A p \in Paths : call[t].key \notin Nested[p]
        PROVE  LET k == call[t].key IN
               /\ answer'[t].result = result[k].payload
               /\ now < result[k].update_time + duration[k]
               /\ result[k].payload.time <= result[k].update_time
    <3>1. Hit(t) /\ call[t].key \in Keys
      BY <1>1, <2>2, CachedAnswerIsHit DEF IInv, TypeOK, Calls
    <3>2. answer'[t].result = result[call[t].key].payload
      BY <1>1, <3>1 DEF Hit, IInv, TypeOK
    <3>3. /\ now < last_update_time[call[t].key] + duration[call[t].key]
          /\ last_update_time[call[t].key] # InfinitePast
      BY <3>1 DEF Hit, Recent
    <3>4. /\ result[call[t].key].update_time = last_update_time[call[t].key]
          /\ result[call[t].key].payload.time <= last_update_time[call[t].key]
      BY <1>1, <2>2, <3>1, <3>3 DEF IInv, NodeInv, Embedded
    <3>5. QED BY <3>2, <3>3, <3>4
  <2>3. QED BY <1>1, <2>1, <2>2
<1>2. QED BY <1>1, InitIInv, NextIInv, PTL DEF Spec, CachedWithinDuration

=============================================================================
