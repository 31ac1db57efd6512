--------------------------- MODULE TimeBasedCache ---------------------------
(***************************************************************************)
(* The Redfish transport cache: TimeBasedCache (shallow or deep) and the   *)
(* NullCache, used by several threads.  A CacheNode lets one thread fetch  *)
(* and parks the others, who take the result that fetch published.  The    *)
(* transport is called without any lock, and the clock runs all the time.  *)
(*                                                                         *)
(* A result is abstracted to its kind, the time the transport returned it  *)
(* and the time read from the clock for it afterwards, which is all that   *)
(* caching may depend on.                                                  *)
(***************************************************************************)
EXTENDS Integers, FiniteSets

CONSTANTS
  Threads,      \* callers
  Paths,        \* URIs of the GET cache, their fragment stripped
  Posts,        \* (URI, payload) keys of the POST cache
  Nested,       \* path -> paths of the non-singleton objects inside its JSON
  Blocklisted,  \* paths under a LogServices collection
  Durations,    \* cache durations the callers of CachedPost ask for
  MaxAge,       \* get_max_age_
  MaxTime,      \* bound: the clock ranges over 0 .. MaxTime
  MaxCalls      \* bound: calls made by all the threads

ASSUME TimesAssumption ==
  MaxAge \in Nat /\ Durations \subseteq Nat /\ MaxTime \in Nat /\ MaxCalls \in Nat
ASSUME KeysAssumption ==
  /\ Paths # {}
  /\ Paths \intersect Posts = {}
  /\ Blocklisted \subseteq Paths
  /\ Nested \in [Paths -> SUBSET Paths]

VARIABLES
  policy,         \* "null", "shallow" or "deep": the cache built by Create
  enable_blocklist,
  now,            \* clock_->Now()
  present,        \* keys of get_cache_ and post_cache_
  duration,       \* node -> duration_
  result,         \* node -> result_
  last_update_time,
  operation_in_progress,
  notifications,  \* node -> threads whose Notification it points at
  notified,       \* threads whose Notification has been set
  began,          \* history: node -> when the fetch in progress began, else 0
  pc,
  call,           \* thread -> the call it is in
  fetched,        \* thread -> the result of its own fetch
  unprocessed,    \* thread -> nested objects it has still to insert
  answer,         \* thread -> the OperationResult its call returns
  calls           \* calls made so far

node == <<present, duration, result, last_update_time, operation_in_progress,
          notifications, notified, began>>
local == <<pc, call, fetched, unprocessed, answer, calls>>
vars == <<policy, enable_blocklist, now, node, local>>

Keys == Paths \union Posts
InfinitePast == -1
Kinds == {"json", "raw", "error"}

\* What a caller is given; time is history.
Payloads == [kind : Kinds, time : 0 .. MaxTime]

\* update_time is InfinitePast for a result that may not be cached, and until
\* the clock is read; in a node it is history.
Results == [payload : Payloads, update_time : {InfinitePast} \union 0 .. MaxTime]

\* joined is history: when the fetch that serves the call began.
Calls == [op : {"cached_get", "uncached_get", "cached_post"}, key : Keys,
          duration : Nat, joined : 0 .. MaxTime]

Answers == [result : Payloads, is_fresh : BOOLEAN]

Steps == {"idle", "direct", "retrieve", "read", "fetch", "stamp", "publish",
          "wait", "return"}

TypeOK ==
  /\ policy \in {"null", "shallow", "deep"}
  /\ enable_blocklist \in BOOLEAN
  /\ now \in 0 .. MaxTime
  /\ present \subseteq Keys
  /\ duration \in [Keys -> Nat]
  /\ result \in [Keys -> Results]
  /\ last_update_time \in [Keys -> {InfinitePast} \union 0 .. MaxTime]
  /\ operation_in_progress \in [Keys -> BOOLEAN]
  /\ notifications \in [Keys -> SUBSET Threads]
  /\ notified \subseteq Threads
  /\ began \in [Keys -> 0 .. MaxTime]
  /\ pc \in [Threads -> Steps]
  /\ call \in [Threads -> Calls]
  /\ fetched \in [Threads -> Results]
  /\ unprocessed \in [Threads -> SUBSET Paths]
  /\ answer \in [Threads -> Answers]
  /\ calls \in 0 .. MaxCalls

\* An absl::StatusOr that was never assigned holds an error.
NoPayload == [kind |-> "error", time |-> 0]
NoResult == [payload |-> NoPayload, update_time |-> InfinitePast]
NoCall == [op |-> "cached_get", key |-> CHOOSE p \in Paths : TRUE,
           duration |-> 0, joined |-> 0]
NoAnswer == [result |-> NoPayload, is_fresh |-> FALSE]

Init ==
  /\ policy \in {"null", "shallow", "deep"}
  /\ enable_blocklist \in IF policy = "null" THEN {FALSE} ELSE BOOLEAN
  /\ now = 0
  /\ present = {}
  /\ duration = [k \in Keys |-> 0]
  /\ result = [k \in Keys |-> NoResult]
  /\ last_update_time = [k \in Keys |-> InfinitePast]
  /\ operation_in_progress = [k \in Keys |-> FALSE]
  /\ notifications = [k \in Keys |-> {}]
  /\ notified = {}
  /\ began = [k \in Keys |-> 0]
  /\ pc = [t \in Threads |-> "idle"]
  /\ call = [t \in Threads |-> NoCall]
  /\ fetched = [t \in Threads |-> NoResult]
  /\ unprocessed = [t \in Threads |-> {}]
  /\ answer = [t \in Threads |-> NoAnswer]
  /\ calls = 0

Tick ==
  /\ now < MaxTime
  /\ now' = now + 1
  /\ UNCHANGED <<policy, enable_blocklist, node, local>>

-----------------------------------------------------------------------------
(* The three calls of RedfishCachedGetterInterface.                        *)

Begin(t, op, key, d, step) ==
  /\ pc[t] = "idle"
  /\ calls < MaxCalls
  /\ calls' = calls + 1
  /\ call' = [call EXCEPT ![t] =
       [op |-> op, key |-> key, duration |-> d, joined |-> now]]
  /\ pc' = [pc EXCEPT ![t] = step]
  /\ UNCHANGED <<policy, enable_blocklist, now, node, fetched, unprocessed,
                 answer>>

\* CachedGet goes straight to the transport.
Skips(p) == policy = "null" \/ (enable_blocklist /\ p \in Blocklisted)

CachedGet(t, p) ==
  Begin(t, "cached_get", p, MaxAge, IF Skips(p) THEN "direct" ELSE "retrieve")

\* A caller says kNotRelevant to leave the cache alone.
UncachedGet(t, p, relevant) ==
  Begin(t, "uncached_get", p, MaxAge,
        IF policy = "null" \/ ~relevant THEN "direct" ELSE "retrieve")

CachedPost(t, k, d) ==
  Begin(t, "cached_post", k, d, IF policy = "null" THEN "direct" ELSE "retrieve")

\* What the transport returns now.
Returned(kind) == [kind |-> kind, time |-> now]

\* The transport is asked and its result returned as it is.
Direct(t) ==
  /\ pc[t] = "direct"
  /\ \E kind \in Kinds :
       answer' = [answer EXCEPT ![t] =
         [result |-> Returned(kind), is_fresh |-> TRUE]]
  /\ pc' = [pc EXCEPT ![t] = "return"]
  /\ UNCHANGED <<policy, enable_blocklist, now, node, call, fetched,
                 unprocessed, calls>>

\* RetrieveCacheNode: under the map's lock, find the node or insert an empty
\* one.  Nodes are never removed, so the reference returned stays valid; the
\* duration of a POST node is the one its first caller asked for.
RetrieveCacheNode(t) ==
  LET k == call[t].key IN
  /\ pc[t] = "retrieve"
  /\ present' = present \union {k}
  /\ duration' = IF k \in present THEN duration
                 ELSE [duration EXCEPT ![k] = call[t].duration]
  /\ pc' = [pc EXCEPT ![t] = "read"]
  /\ UNCHANGED <<policy, enable_blocklist, now, result, last_update_time,
                 operation_in_progress, notifications, notified, began, call,
                 fetched, unprocessed, answer, calls>>

-----------------------------------------------------------------------------
(* CacheNode.                                                              *)

\* CachedRead: the node has a sufficiently recent value.
Recent(k) ==
  last_update_time[k] # InfinitePast /\ now < last_update_time[k] + duration[k]

Hit(t) ==
  LET k == call[t].key IN
  /\ pc[t] = "read"
  /\ call[t].op # "uncached_get"
  /\ Recent(k)
  /\ answer' = [answer EXCEPT ![t] =
       [result |-> result[k].payload, is_fresh |-> FALSE]]
  /\ pc' = [pc EXCEPT ![t] = "return"]
  /\ UNCHANGED <<policy, enable_blocklist, now, node, call, fetched,
                 unprocessed, calls>>

Misses(t) ==
  /\ pc[t] = "read"
  /\ call[t].op = "uncached_get" \/ ~Recent(call[t].key)

\* RegisterNotificationIfUpdateInProgress: nobody updates the node, so this
\* thread will.
BeginUpdate(t) ==
  LET k == call[t].key IN
  /\ Misses(t)
  /\ ~operation_in_progress[k]
  /\ operation_in_progress' = [operation_in_progress EXCEPT ![k] = TRUE]
  /\ began' = [began EXCEPT ![k] = now]
  /\ call' = [call EXCEPT ![t].joined = now]
  /\ pc' = [pc EXCEPT ![t] = "fetch"]
  /\ UNCHANGED <<policy, enable_blocklist, now, present, duration, result,
                 last_update_time, notifications, notified, fetched,
                 unprocessed, answer, calls>>

\* Mutant of JoinUpdate: the Notification is made but not handed to the node.
JoinUpdateUnregistered(t) ==
  LET k == call[t].key IN
  /\ Misses(t)
  /\ operation_in_progress[k]
  /\ call' = [call EXCEPT ![t].joined = began[k]]
  /\ pc' = [pc EXCEPT ![t] = "wait"]
  /\ UNCHANGED <<policy, enable_blocklist, now, node, fetched, unprocessed,
                 answer, calls>>

\* RegisterNotificationIfUpdateInProgress: another thread updates the node.
JoinUpdate(t) ==
  LET k == call[t].key IN
  /\ Misses(t)
  /\ operation_in_progress[k]
  /\ notifications' = [notifications EXCEPT ![k] = @ \union {t}]
  /\ call' = [call EXCEPT ![t].joined = began[k]]
  /\ pc' = [pc EXCEPT ![t] = "wait"]
  /\ UNCHANGED <<policy, enable_blocklist, now, present, duration, result,
                 last_update_time, operation_in_progress, notified, began,
                 fetched, unprocessed, answer, calls>>

\* DoUpdateAndNotifyOthers: Get or Post, with no lock held, returns or fails
\* (when the remaining timeout has passed too).
Fetch(t) ==
  /\ pc[t] = "fetch"
  /\ \E kind \in Kinds :
       fetched' = [fetched EXCEPT ![t] =
         [payload |-> Returned(kind), update_time |-> InfinitePast]]
  /\ pc' = [pc EXCEPT ![t] = "stamp"]
  /\ UNCHANGED <<policy, enable_blocklist, now, node, call, unprocessed, answer,
                 calls>>

\* A POST's successful result is cached whatever its body, a GET's if JSON.
Cacheable(op, r) ==
  r.kind = "json" \/ (r.kind = "raw" /\ op = "cached_post")

\* update_time is the clock's, or infinitely past when nothing may be cached.
\* The clock is read before the mutex is taken, some time after the answer.
Stamp(t) ==
  /\ pc[t] = "stamp"
  /\ fetched' = [fetched EXCEPT ![t].update_time =
       IF Cacheable(call[t].op, fetched[t].payload) THEN now ELSE InfinitePast]
  /\ pc' = [pc EXCEPT ![t] = "publish"]
  /\ UNCHANGED <<policy, enable_blocklist, now, node, call, unprocessed, answer,
                 calls>>

\* CachedGetInternal goes on to CacheNestedObjects with a fresh result of a
\* deep cache, which looks at JSON bodies only.
Unprocessed(t, r) ==
  IF policy = "deep" /\ call[t].op = "cached_get" /\ r.kind = "json"
  THEN Nested[call[t].key] ELSE {}

Take(t, r) ==
  /\ answer' = [answer EXCEPT ![t] = [result |-> r, is_fresh |-> TRUE]]
  /\ unprocessed' = [unprocessed EXCEPT ![t] = Unprocessed(t, r)]
  /\ pc' = [pc EXCEPT ![t] = "return"]

\* Mutant of Publish: every result is stamped, the failed ones too.
PublishStamps(t) ==
  LET k == call[t].key IN
  /\ pc[t] = "publish"
  /\ result' = [result EXCEPT ![k] = fetched[t]]
  /\ last_update_time' = [last_update_time EXCEPT ![k] = now]
  /\ notified' = notified \union notifications[k]
  /\ notifications' = [notifications EXCEPT ![k] = {}]
  /\ operation_in_progress' = [operation_in_progress EXCEPT ![k] = FALSE]
  /\ began' = [began EXCEPT ![k] = 0]
  /\ fetched' = [fetched EXCEPT ![t] = NoResult]
  /\ Take(t, fetched[t].payload)
  /\ UNCHANGED <<policy, enable_blocklist, now, present, duration, call,
                 calls>>

\* Mutant of Publish: the clock is read once the mutex is held.
PublishStampsLate(t) ==
  LET k == call[t].key IN
  /\ pc[t] = "publish"
  /\ result' = [result EXCEPT ![k] = fetched[t]]
  /\ last_update_time' = [last_update_time EXCEPT ![k] =
       IF fetched[t].update_time = InfinitePast THEN InfinitePast ELSE now]
  /\ notified' = notified \union notifications[k]
  /\ notifications' = [notifications EXCEPT ![k] = {}]
  /\ operation_in_progress' = [operation_in_progress EXCEPT ![k] = FALSE]
  /\ began' = [began EXCEPT ![k] = 0]
  /\ fetched' = [fetched EXCEPT ![t] = NoResult]
  /\ Take(t, fetched[t].payload)
  /\ UNCHANGED <<policy, enable_blocklist, now, present, duration, call,
                 calls>>

\* Under the node's mutex: publish the result, notify and forget the waiters.
Publish(t) ==
  LET k == call[t].key IN
  /\ pc[t] = "publish"
  /\ result' = [result EXCEPT ![k] = fetched[t]]
  /\ last_update_time' = [last_update_time EXCEPT ![k] = fetched[t].update_time]
  /\ notified' = notified \union notifications[k]
  /\ notifications' = [notifications EXCEPT ![k] = {}]
  /\ operation_in_progress' = [operation_in_progress EXCEPT ![k] = FALSE]
  /\ began' = [began EXCEPT ![k] = 0]
  /\ fetched' = [fetched EXCEPT ![t] = NoResult]
  /\ Take(t, fetched[t].payload)
  /\ UNCHANGED <<policy, enable_blocklist, now, present, duration, call,
                 calls>>

\* Mutant of WaitForNotification: the thread does not wait.
WaitForNotificationNot(t) ==
  /\ pc[t] = "wait"
  /\ notified' = notified \ {t}
  /\ Take(t, result[call[t].key].payload)
  /\ UNCHANGED <<policy, enable_blocklist, now, present, duration, result,
                 last_update_time, operation_in_progress, notifications, began,
                 call, fetched, calls>>

\* WaitForNotificationAndUseCachedResult: by the time the thread wakes and
\* takes the mutex, a later fetch may have replaced the result.
WaitForNotification(t) ==
  /\ pc[t] = "wait"
  /\ t \in notified
  /\ notified' = notified \ {t}
  /\ Take(t, result[call[t].key].payload)
  /\ UNCHANGED <<policy, enable_blocklist, now, present, duration, result,
                 last_update_time, operation_in_progress, notifications, began,
                 call, fetched, calls>>

\* The node made from an object inside r.
Embedding(r) == [payload |-> r, update_time |-> now]

\* Mutant of InsertNested: the embedded object replaces the node.
InsertNestedReplaces(t, p) ==
  /\ pc[t] = "return"
  /\ p \in unprocessed[t]
  /\ unprocessed' = [unprocessed EXCEPT ![t] = @ \ {p}]
  /\ present' = present \union {p}
  /\ duration' = [duration EXCEPT ![p] = MaxAge]
  /\ result' = [result EXCEPT ![p] = Embedding(answer[t].result)]
  /\ last_update_time' = [last_update_time EXCEPT ![p] = now]
  /\ UNCHANGED <<policy, enable_blocklist, now, operation_in_progress,
                 notifications, notified, began, pc, call, fetched, answer,
                 calls>>

\* CacheNestedObjects, one object: a path that is not in the map yet gets a
\* node with the object, stamped with the time of the insertion.
InsertNested(t, p) ==
  /\ pc[t] = "return"
  /\ p \in unprocessed[t]
  /\ unprocessed' = [unprocessed EXCEPT ![t] = @ \ {p}]
  /\ IF p \in present \/ (enable_blocklist /\ p \in Blocklisted)
     THEN UNCHANGED <<present, duration, result, last_update_time>>
     ELSE /\ present' = present \union {p}
          /\ duration' = [duration EXCEPT ![p] = MaxAge]
          /\ result' = [result EXCEPT ![p] = Embedding(answer[t].result)]
          /\ last_update_time' = [last_update_time EXCEPT ![p] = now]
  /\ UNCHANGED <<policy, enable_blocklist, now, operation_in_progress,
                 notifications, notified, began, pc, call, fetched, answer,
                 calls>>

\* The call returns; its locals go out of scope.
Return(t) ==
  /\ pc[t] = "return"
  /\ unprocessed[t] = {}
  /\ pc' = [pc EXCEPT ![t] = "idle"]
  /\ call' = [call EXCEPT ![t] = NoCall]
  /\ answer' = [answer EXCEPT ![t] = NoAnswer]
  /\ UNCHANGED <<policy, enable_blocklist, now, node, fetched, unprocessed, calls>>

-----------------------------------------------------------------------------
Step(t) ==
  \/ Direct(t)
  \/ RetrieveCacheNode(t)
  \/ Hit(t)
  \/ BeginUpdate(t)
  \/ JoinUpdate(t)
  \/ Fetch(t)
  \/ Stamp(t)
  \/ Publish(t)
  \/ WaitForNotification(t)
  \/ \E p \in Paths : InsertNested(t, p)
  \/ Return(t)

\* The bound on the calls is reached with every call returned: with this step,
\* TLC reports as a deadlock any state in which a waiter is never woken.
Finished ==
  /\ calls = MaxCalls
  /\ \A t \in Threads : pc[t] = "idle"
  /\ UNCHANGED vars

Next ==
  \/ Tick
  \/ \E t \in Threads :
       \/ \E p \in Paths : CachedGet(t, p)
       \/ \E p \in Paths, relevant \in BOOLEAN : UncachedGet(t, p, relevant)
       \/ \E k \in Posts, d \in Durations : CachedPost(t, k, d)
       \/ Step(t)
  \/ Finished

Spec == Init /\ [][Next]_vars

-----------------------------------------------------------------------------
Updating(t) == pc[t] \in {"fetch", "stamp", "publish"}
Answered(t) == pc[t] = "return"

\* No two threads fetch for the same node, although the mutex is not held
\* while the transport works: colliding reads are batched into one request.
OneFetchPerNode ==
  \A t, u \in Threads :
    Updating(t) /\ Updating(u) /\ call[t].key = call[u].key => t = u

\* A thread that waits in WaitForNotification has been notified, or the node
\* knows it and some thread is fetching for that node.
NoWaiterForgotten ==
  \A t \in Threads : pc[t] = "wait" =>
    \/ t \in notified
    \/ /\ t \in notifications[call[t].key]
       /\ \E u \in Threads : Updating(u) /\ call[u].key = call[t].key

\* What is answered from the cache is never a failure, nor a GET's body that is
\* not JSON, although result_ holds such results for the batched readers.
FailuresAreNotCached ==
  \A t \in Threads : Answered(t) /\ ~answer[t].is_fresh =>
    /\ answer[t].result.kind # "error"
    /\ call[t].key \in Paths => answer[t].result.kind = "json"

\* What is answered from the cache was received within the node's duration, as
\* the clock read right after the transport's answer tells, however late its
\* thread got the mutex to publish it.  (The answer itself is older by the time
\* between its arrival and that reading.)  A node that a deep cache made from an
\* embedded object is stamped with the time of its insertion instead, which may
\* be any time after the fetch.
CachedWithinDuration ==
  [][\A t \in Threads :
       LET k == call[t].key IN
       /\ ~Answered(t) /\ Answered(t)' /\ ~answer'[t].is_fresh
       /\ policy # "deep" \/ \A p \in Paths : k \notin Nested[p]
       => /\ answer'[t].result = result[k].payload
          /\ now < result[k].update_time + duration[k]
          /\ result[k].payload.time <= result[k].update_time]_vars

\* A result said to be fresh was returned by the transport after the call began
\* or, for a reader that joined a fetch, after that fetch began (it may have
\* ended before the reader's call: it is joined until it is published).
FreshAnswersAreLive ==
  \A t \in Threads : Answered(t) /\ answer[t].is_fresh =>
    answer[t].result.time >= call[t].joined

\* A node's payload is never replaced by one fetched earlier.
ResultsNeverGoBack ==
  [][\A k \in Keys : result'[k].payload.time >= result[k].payload.time]_vars

=============================================================================
