------------------------ MODULE SubscriptionService ------------------------
(***************************************************************************)
(* SubscriptionServiceImpl (subscription_impl.cc): CreateSubscription with *)
(* its asynchronous backend responses, Notify with its asynchronous        *)
(* queries, event dispatch, deletion.  The event store is an EventLog; the *)
(* subscription store is a set updated atomically, which SubscriptionStore *)
(* justifies for calls that do not overlap on an id.                       *)
(*                                                                         *)
(* A request stands for the client that makes it, for the subscription it  *)
(* leads to and for its id (absl::HashOf(Now(), request), taken to be      *)
(* unique).                                                                *)
(***************************************************************************)
EXTENDS EventLog

CONSTANTS
  Requests,         \* CreateSubscription calls
  Uris,             \* OriginResources
  Sources,          \* EventSourceIds
  Notifs,           \* Notify calls
  Invalid,          \* requests that do not parse
  UrisOf,           \* request -> OriginResources of its unmasked triggers
  EventUrisOf,      \* request -> OriginResources of the triggers it keeps
  SourcesOfUri,     \* uri -> the event sources the backend returns for it
  StoreSize,        \* size of the event store
  SubscribeMayFail, QueryMayFail,  \* the backend refuses a call at once
  ResponseMayFail,                 \* the backend answers with an error
  ResponseMayRepeat,               \* the backend runs a subscribe callback again
  DeleteAnytime                    \* deletion while events are in flight

NoEvent == <<>>     \* no LastEventId in the request

ASSUME StoreSizeAssumption == StoreSize \in Nat \ {0}
ASSUME RequestsAssumption ==
  /\ Invalid \subseteq Requests
  /\ UrisOf \in [Requests -> SUBSET Uris]
  /\ EventUrisOf \in [Requests -> SUBSET Uris]
  /\ SourcesOfUri \in [Uris -> SUBSET Sources]
ASSUME BackendAssumption ==
  {SubscribeMayFail, QueryMayFail, ResponseMayFail, ResponseMayRepeat, DeleteAnytime}
    \subseteq BOOLEAN

VARIABLES
  create,     \* request -> "new", "loop" (in the Subscribe loop), "refused"
              \* (left the loop on a refused call) or "returned"
  loop,       \* request -> resources the loop has still to subscribe
  calls,      \* request -> accepted Subscribe calls whose callback has not run
  async,      \* request -> its AsyncSubscribeResponse
  answers,    \* request -> what on_subscribe_callback got, in order
  last,       \* request -> its LastEventId
  stored,     \* the subscription store
  inbox,      \* request -> what on_event_callback got, in order
  log,        \* the event store
  clock,      \* absl::Now(), also the number of events stamped
  added,      \* history: the events inserted into the store
  notify,     \* Notify call -> its loop
  agg         \* Notify call, request -> its AggregatedQueryResponse

vars == <<create, loop, calls, async, answers, last, stored, inbox, log, clock,
          added, notify, agg>>
createVars == <<create, loop, calls, async, answers, last>>
notifyVars == <<notify, agg>>

Statuses == {"ok", "error"}
Events == [sub : Requests, src : Sources, ts : Nat, seq : Nat, uris : SUBSET Uris]
EventRefs == Requests \X Sources \X Nat

TypeOK ==
  /\ create \in [Requests -> {"new", "loop", "refused", "returned"}]
  /\ loop \in [Requests -> SUBSET Uris]
  /\ \A r \in Requests : create[r] # "loop" => loop[r] = {}
  /\ calls \in [Requests -> SUBSET Uris]
  /\ async \in [Requests -> [pending : SUBSET Uris, status : Statuses,
                             origins : SUBSET (Sources \X Uris),
                             at : {"idle", "replay", "add"}]]
  /\ answers \in [Requests -> Seq(Statuses)]
  /\ last \in [Requests -> EventRefs \union {NoEvent}]
  /\ stored \subseteq Requests
  /\ inbox \in [Requests -> Seq(Events)]
  /\ log \subseteq Events
  /\ added \subseteq Events
  /\ clock \in Nat
  /\ notify \in [Notifs -> [at : {"new", "loop", "ok", "error", "notfound"},
                            src : Sources \union {NoEvent},
                            todo : SUBSET Requests,
                            queries : SUBSET (Requests \X Uris)]]
  /\ agg \in [Notifs \X Requests ->
                [at : {"none", "waiting", "stamped", "stored", "dispatching", "done"},
                 pending : SUBSET Uris, got : SUBSET Uris,
                 calls : SUBSET Uris, ts : Nat]]

NoAsync == [pending |-> {}, status |-> "ok", origins |-> {}, at |-> "idle"]
NoAgg == [at |-> "none", pending |-> {}, got |-> {}, calls |-> {}, ts |-> 0]

Init ==
  /\ create = [r \in Requests |-> "new"]
  /\ loop = [r \in Requests |-> {}]
  /\ calls = [r \in Requests |-> {}]
  /\ async = [r \in Requests |-> NoAsync]
  /\ answers = [r \in Requests |-> <<>>]
  /\ last = [r \in Requests |-> NoEvent]
  /\ stored = {}
  /\ inbox = [r \in Requests |-> <<>>]
  /\ log = {} /\ added = {}
  /\ clock = 0
  /\ notify = [n \in Notifs |-> [at |-> "new", src |-> NoEvent, todo |-> {}, queries |-> {}]]
  /\ agg = [x \in Notifs \X Requests |-> NoAgg]

-----------------------------------------------------------------------------
(* CreateSubscription *)

Answer(r, s) == answers' = [answers EXCEPT ![r] = Append(@, s)]

\* The request is rejected (missing properties, malformed trigger).
CreateRejected(r) ==
  /\ create[r] = "new" /\ r \in Invalid
  /\ create' = [create EXCEPT ![r] = "returned"]
  /\ Answer(r, "error")
  /\ UNCHANGED <<loop, calls, async, last, stored, inbox, log, clock, added, notifyVars>>

\* A client that reconnects gives the last event it was sent, if any.
CreateAccepted(r) ==
  /\ create[r] = "new" /\ r \notin Invalid
  /\ create' = [create EXCEPT ![r] = "loop"]
  /\ loop' = [loop EXCEPT ![r] = UrisOf[r]]
  /\ async' = [async EXCEPT ![r] = [NoAsync EXCEPT !.pending = UrisOf[r]]]
  /\ \E id \in {NoEvent} \union UNION {{RedfishEventId(inbox[o][i]) :
                   i \in DOMAIN inbox[o]} : o \in Requests} :
       last' = [last EXCEPT ![r] = id]
  /\ UNCHANGED <<calls, answers, stored, inbox, log, clock, added, notifyVars>>

\* The backend takes the next Subscribe call ...
SubscribeAccepted(r, u) ==
  /\ create[r] = "loop" /\ u \in loop[r]
  /\ loop' = [loop EXCEPT ![r] = @ \ {u}]
  /\ calls' = [calls EXCEPT ![r] = @ \union {u}]
  /\ UNCHANGED <<create, async, answers, last, stored, inbox, log, clock, added, notifyVars>>

\* ... or refuses it: the error is reported and the loop is left.
SubscribeRefused(r, u) ==
  /\ SubscribeMayFail
  /\ create[r] = "loop" /\ u \in loop[r]
  /\ loop' = [loop EXCEPT ![r] = {}]
  /\ create' = [create EXCEPT ![r] = "refused"]
  /\ Answer(r, "error")
  /\ UNCHANGED <<calls, async, last, stored, inbox, log, clock, added, notifyVars>>

CreateReturns(r) ==
  /\ create[r] = "loop" /\ loop[r] = {}
  /\ create' = [create EXCEPT ![r] = "returned"]
  /\ UNCHANGED <<loop, calls, async, answers, last, stored, inbox, log, clock, added, notifyVars>>

-----------------------------------------------------------------------------
(* AsyncSubscribeResponse::ProcessResponse; its mutex is held until the      *)
(* completion callback (at = "replay", "add") is over.                       *)

Answered(r, u) == create[r] # "new" /\ u \in UrisOf[r] \ async[r].pending

\* A second response for a URI only poisons the status.
ResponseUnexpected(r, u) ==
  /\ ResponseMayRepeat /\ Answered(r, u) /\ async[r].at = "idle"
  /\ async' = [async EXCEPT ![r].status = "error"]
  /\ UNCHANGED <<create, loop, calls, answers, last, stored, inbox, log, clock,
                 added, notifyVars>>

\* After an error the remaining responses are only crossed off.
ResponseIgnored(r, u) ==
  /\ u \in calls[r] /\ async[r].at = "idle" /\ async[r].status = "error"
  /\ calls' = [calls EXCEPT ![r] = @ \ {u}]
  /\ async' = [async EXCEPT ![r].pending = @ \ {u}]
  /\ UNCHANGED <<create, loop, answers, last, stored, inbox, log, clock, added, notifyVars>>

\* The first error completes the subscription with that error.
ResponseFailed(r, u) ==
  /\ ResponseMayFail
  /\ u \in calls[r] /\ async[r].at = "idle" /\ async[r].status = "ok"
  /\ calls' = [calls EXCEPT ![r] = @ \ {u}]
  /\ async' = [async EXCEPT ![r].pending = @ \ {u}, ![r].status = "error"]
  /\ Answer(r, "error")
  /\ UNCHANGED <<create, loop, last, stored, inbox, log, clock, added, notifyVars>>

\* Mutant of ResponseOk: the first response completes the subscription.
ResponseOkFirst(r, u) ==
  /\ u \in calls[r] /\ async[r].at = "idle" /\ async[r].status = "ok"
  /\ calls' = [calls EXCEPT ![r] = @ \ {u}]
  /\ async' = [async EXCEPT ![r] =
       [@ EXCEPT !.pending = @ \ {u}, !.at = "replay",
                 !.origins = @ \union (SourcesOfUri[u] \X {u})]]
  /\ UNCHANGED <<create, loop, answers, last, stored, inbox, log, clock, added, notifyVars>>

\* Mutant of ResponseOk: the subscription is stored before the replay.
ResponseOkStoresFirst(r, u) ==
  /\ u \in calls[r] /\ async[r].at = "idle" /\ async[r].status = "ok"
  /\ calls' = [calls EXCEPT ![r] = @ \ {u}]
  /\ async' = [async EXCEPT ![r] =
       [@ EXCEPT !.pending = @ \ {u},
                 !.origins = @ \union (SourcesOfUri[u] \X {u}),
                 !.at = IF async[r].pending = {u} THEN "replay" ELSE @]]
  /\ stored' = IF async[r].pending = {u} THEN stored \union {r} ELSE stored
  /\ UNCHANGED <<create, loop, answers, last, inbox, log, clock, added, notifyVars>>

\* The last good response completes it.
ResponseOk(r, u) ==
  /\ u \in calls[r] /\ async[r].at = "idle" /\ async[r].status = "ok"
  /\ calls' = [calls EXCEPT ![r] = @ \ {u}]
  /\ async' = [async EXCEPT ![r] =
       [pending |-> async[r].pending \ {u}, status |-> "ok",
        origins |-> async[r].origins \union (SourcesOfUri[u] \X {u}),
        at |-> IF async[r].pending = {u} THEN "replay" ELSE "idle"]]
  /\ UNCHANGED <<create, loop, answers, last, stored, inbox, log, clock, added, notifyVars>>

\* on_async_subscribe_complete: the events since LastEventId are dispatched,
Replay(r) ==
  /\ async[r].at = "replay"
  /\ inbox' = [inbox EXCEPT ![r] =
       @ \o IF last[r] = NoEvent THEN <<>> ELSE GetEventsSince(log, last[r])]
  /\ async' = [async EXCEPT ![r].at = "add"]
  /\ UNCHANGED <<create, loop, calls, answers, last, stored, log, clock, added, notifyVars>>

\* and then the subscription is stored; the store rejects one without sources.
AddSubscription(r) ==
  /\ async[r].at = "add"
  /\ async' = [async EXCEPT ![r].at = "idle"]
  /\ IF async[r].origins = {}
       THEN Answer(r, "error") /\ UNCHANGED stored
       ELSE Answer(r, "ok") /\ stored' = stored \union {r}
  /\ UNCHANGED <<create, loop, calls, last, inbox, log, clock, added, notifyVars>>

-----------------------------------------------------------------------------
(* Notify *)

\* Mutant of UrisAt: all URIs of the subscription are queried.
UrisAtAll(r, src) == {u \in Uris : \E s \in Sources : <<s, u>> \in async[r].origins}

\* URIs of request r that event source src stands for.
UrisAt(r, src) == {u \in Uris : <<src, u>> \in async[r].origins}

NotifyBegin(n, src) ==
  /\ notify[n].at = "new"
  /\ LET contexts == {r \in stored : UrisAt(r, src) # {}}
     IN  notify' = [notify EXCEPT ![n] =
           [at |-> IF contexts = {} THEN "notfound" ELSE "loop",
            src |-> src, todo |-> contexts, queries |-> {}]]
  /\ UNCHANGED <<createVars, stored, inbox, log, clock, added, agg>>

\* The next subscription context: an AggregatedQueryResponse is set up.
NotifyContext(n, r) ==
  /\ notify[n].at = "loop" /\ notify[n].queries = {} /\ r \in notify[n].todo
  /\ LET uris == UrisAt(r, notify[n].src)
     IN  /\ agg' = [agg EXCEPT ![<<n, r>>] =
                      [NoAgg EXCEPT !.at = "waiting", !.pending = uris]]
         /\ notify' = [notify EXCEPT ![n].todo = @ \ {r}, ![n].queries = {r} \X uris]
  /\ UNCHANGED <<createVars, stored, inbox, log, clock, added>>

QueryAccepted(n, r, u) ==
  /\ <<r, u>> \in notify[n].queries
  /\ notify' = [notify EXCEPT ![n].queries = @ \ {<<r, u>>}]
  /\ agg' = [agg EXCEPT ![<<n, r>>].calls = @ \union {u}]
  /\ UNCHANGED <<createVars, stored, inbox, log, clock, added>>

\* ECCLESIA_RETURN_IF_ERROR: Notify returns, the contexts left are skipped.
QueryRefused(n, r, u) ==
  /\ QueryMayFail
  /\ <<r, u>> \in notify[n].queries
  /\ notify' = [notify EXCEPT ![n] =
       [@ EXCEPT !.at = "error", !.todo = {}, !.queries = {}]]
  /\ UNCHANGED <<createVars, stored, inbox, log, clock, added, agg>>

NotifyReturns(n) ==
  /\ notify[n].at = "loop" /\ notify[n].todo = {} /\ notify[n].queries = {}
  /\ notify' = [notify EXCEPT ![n].at = "ok"]
  /\ UNCHANGED <<createVars, stored, inbox, log, clock, added, agg>>

\* AddQueryResponse with an error: the URI is crossed off and nothing else.
QueryFailed(n, r, u) ==
  /\ ResponseMayFail
  /\ u \in agg[<<n, r>>].calls
  /\ agg' = [agg EXCEPT ![<<n, r>>].calls = @ \ {u}, ![<<n, r>>].pending = @ \ {u}]
  /\ UNCHANGED <<createVars, stored, inbox, log, clock, added, notify>>

\* Mutant of QueryAnswered: completion is tested before the URI is crossed off.
QueryAnsweredLate(n, r, u) ==
  /\ u \in agg[<<n, r>>].calls
  /\ LET g == agg[<<n, r>>]
     IN  agg' = [agg EXCEPT ![<<n, r>>] =
           [g EXCEPT !.at = IF g.pending = {} THEN "stamped" ELSE "waiting",
                     !.pending = @ \ {u}, !.calls = @ \ {u}, !.got = @ \union {u}]]
  /\ UNCHANGED <<createVars, stored, inbox, log, clock, added, notify>>

\* AddQueryResponse with a result; the last one runs done_callback, where
\* HandleEventsForSubscription stamps the EventId and builds the events of
\* the triggers that name a queried URI, and gives up if there is none.
QueryAnswered(n, r, u) ==
  /\ u \in agg[<<n, r>>].calls
  /\ LET g == agg[<<n, r>>]
         complete == g.pending = {u}
         got == g.got \union {u}
     IN  /\ agg' = [agg EXCEPT ![<<n, r>>] =
              [at |-> IF ~ complete THEN "waiting"
                      ELSE IF got \cap EventUrisOf[r] = {} THEN "done" ELSE "stamped",
               pending |-> g.pending \ {u}, calls |-> g.calls \ {u}, got |-> got,
               ts |-> IF complete THEN clock ELSE 0]]
         /\ clock' = IF complete THEN clock + 1 ELSE clock
  /\ UNCHANGED <<createVars, stored, inbox, log, added, notify>>

\* The event of an aggregate; stamps are unique, so they order insertions too.
EventOf(n, r) ==
  [sub |-> r, src |-> notify[n].src, ts |-> agg[<<n, r>>].ts, seq |-> agg[<<n, r>>].ts,
   uris |-> agg[<<n, r>>].got \cap EventUrisOf[r]]

StoreEvent(n, r) ==
  /\ agg[<<n, r>>].at = "stamped"
  /\ log' = Insert(log, StoreSize, EventOf(n, r))
  /\ added' = added \union {EventOf(n, r)}
  /\ agg' = [agg EXCEPT ![<<n, r>>].at = "stored"]
  /\ UNCHANGED <<createVars, stored, inbox, clock, notify>>

\* on_event_callback starts with the event and, some time later, returns.
DispatchBegin(n, r) ==
  /\ agg[<<n, r>>].at = "stored"
  /\ inbox' = [inbox EXCEPT ![r] = Append(@, EventOf(n, r))]
  /\ agg' = [agg EXCEPT ![<<n, r>>].at = "dispatching"]
  /\ UNCHANGED <<createVars, stored, log, clock, added, notify>>

DispatchEnd(n, r) ==
  /\ agg[<<n, r>>].at = "dispatching"
  /\ agg' = [agg EXCEPT ![<<n, r>>].at = "done"]
  /\ UNCHANGED <<createVars, stored, inbox, log, clock, added, notify>>

-----------------------------------------------------------------------------
(* DeleteSubscription and ClearEventStore *)

\* Some Notify still holds a pointer to the context of r.
Handling(n, r) == agg[<<n, r>>].at \in {"stamped", "stored", "dispatching"}
InUse(r) ==
  \E n \in Notifs :
    \/ r \in notify[n].todo
    \/ \E u \in Uris : <<r, u>> \in notify[n].queries
    \/ agg[<<n, r>>].calls # {}
    \/ Handling(n, r)

DeleteSubscription(r) ==
  /\ r \in stored
  /\ DeleteAnytime \/ ~ InUse(r)
  /\ stored' = stored \ {r}
  /\ UNCHANGED <<createVars, inbox, log, clock, added, notifyVars>>

ClearEventStore ==
  /\ log # {}
  /\ log' = {}
  /\ UNCHANGED <<createVars, stored, inbox, clock, added, notifyVars>>

-----------------------------------------------------------------------------
RequestStep(r) ==
  \/ CreateRejected(r) \/ CreateAccepted(r) \/ CreateReturns(r)
  \/ \E u \in Uris : SubscribeAccepted(r, u) \/ SubscribeRefused(r, u)
  \/ Replay(r) \/ AddSubscription(r)

ResponseStep(r) ==
  \E u \in Uris :
    \/ ResponseUnexpected(r, u) \/ ResponseIgnored(r, u)
    \/ ResponseFailed(r, u) \/ ResponseOk(r, u)

NotifyStep(n) ==
  \/ \E r \in Requests : NotifyContext(n, r)
  \/ \E r \in Requests, u \in Uris : QueryAccepted(n, r, u) \/ QueryRefused(n, r, u)
  \/ NotifyReturns(n)

AggregateStep(n, r) ==
  \/ \E u \in Uris : QueryFailed(n, r, u) \/ QueryAnswered(n, r, u)
  \/ StoreEvent(n, r) \/ DispatchBegin(n, r) \/ DispatchEnd(n, r)

Next ==
  \/ \E r \in Requests : RequestStep(r) \/ ResponseStep(r) \/ DeleteSubscription(r)
  \/ \E n \in Notifs, src \in Sources : NotifyBegin(n, src)
  \/ \E n \in Notifs : NotifyStep(n)
  \/ \E n \in Notifs, r \in Requests : AggregateStep(n, r)
  \/ ClearEventStore

\* A call of the service that has begun goes on, and the backend answers every
\* call it has accepted; nobody has to subscribe, notify, delete or clear.
Fairness ==
  /\ \A r \in Requests :
       /\ WF_vars(create[r] # "new" /\ RequestStep(r))
       /\ \A u \in Uris :
            WF_vars(ResponseIgnored(r, u) \/ ResponseFailed(r, u) \/ ResponseOk(r, u))
  /\ \A n \in Notifs : WF_vars(NotifyStep(n))
  /\ \A n \in Notifs, r \in Requests : WF_vars(AggregateStep(n, r))

Spec == Init /\ [][Next]_vars /\ Fairness

-----------------------------------------------------------------------------
(* Properties *)

\* "We don't want to have partial subscriptions in the system": a stored
\* subscription has the event sources of every one of its resources, whatever
\* responses fail, repeat or arrive in which order; and on_subscribe_callback
\* runs at most once, and says "ok" for a subscription that was stored, unless
\* the backend refuses one of several Subscribe calls.
NoPartialSubscription ==
  /\ \A r \in stored : \A u \in UrisOf[r] : SourcesOfUri[u] \X {u} \subseteq async[r].origins
  /\ \A r \in Requests : create[r] # "refused" =>
       /\ Len(answers[r]) <= 1
       /\ r \in stored => answers[r] = <<"ok">>

\* A subscriber is only ever sent events that were put into the event store
\* before, so the id it may give as LastEventId has been there; and a live event
\* carries at least one resource, and only resources that its subscriber asked
\* for and that belong to the source that fired.
DeliveredIsOwn ==
  \A r \in Requests : \A e \in ToSet(inbox[r]) :
    /\ e \in added
    /\ e.sub = r =>
         e.uris # {} /\ e.uris \subseteq {u \in UrisOf[r] : e.src \in SourcesOfUri[u]}

\* Replayed events belong to the subscription that owned LastEventId, come
\* after it, are in chronological order, and precede every live event.
ReplayIsOrderedTail ==
  \A r \in Requests : \A j \in DOMAIN inbox[r] : LET e == inbox[r][j] IN
    e.sub # r =>
      /\ last[r] # NoEvent
      /\ e.sub = last[r][1] /\ e.ts > last[r][3]
      /\ \A i \in 1 .. j - 1 : inbox[r][i].sub # r /\ inbox[r][i].ts < e.ts

\* Nobody waits for ever.  Every CreateSubscription call with an unmasked
\* trigger is answered, unless the backend repeats a response, which poisons the
\* status; and a notification leads to a dispatched event for every subscription
\* that listens to the source, unless a query is refused or fails: an aggregate
\* whose queries are all answered is dispatched.
EveryoneIsServed ==
  /\ \A r \in Requests :
       create[r] # "new" /\ UrisOf[r] # {} ~> answers[r] # <<>> \/ async[r].status = "error"
  /\ \A n \in Notifs, r \in Requests :
       r \in notify[n].todo ~>
         \/ notify[n].at = "error"
         \/ agg[<<n, r>>].at # "none" /\ \E u \in UrisAt(r, notify[n].src) :
              u \notin agg[<<n, r>>].pending \union agg[<<n, r>>].got
         \/ agg[<<n, r>>].at = "done" /\ agg[<<n, r>>].got \cap EventUrisOf[r] = {}
         \/ \E e \in ToSet(inbox[r]) : e.sub = r /\ e.ts = agg[<<n, r>>].ts

\* subscription.h: "the implementation must guarantee that `on_event_callback`
\* will only be called once at a time. No parallel call will be allowed!"
OneCallbackAtATime ==
  \A r \in Requests : \A m, n \in Notifs :
    agg[<<m, r>>].at = "dispatching" /\ agg[<<n, r>>].at = "dispatching" => m = n

\* subscription_impl.cc: "Invokes `done_callback` when all OriginResources are
\* queried."
QueriedIsDone ==
  \A n \in Notifs, r \in Requests :
    agg[<<n, r>>].at = "waiting" => agg[<<n, r>>].pending # {}

\* subscription_impl.cc: "Thread safe": the context that an event handler
\* dereferences has not been destroyed.
HandledContextIsLive ==
  \A n \in Notifs, r \in Requests : Handling(n, r) => r \in stored
=============================================================================
