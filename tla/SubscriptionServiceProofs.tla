---------------------- MODULE SubscriptionServiceProofs ----------------------
(***************************************************************************)
(* No subscription is stored in part, subscribers are sent their own       *)
(* events only, and a replay is the ordered tail of the store, for every   *)
(* number of requests, resources, event sources and notifications and      *)
(* every way the backend refuses, fails or repeats its answers.            *)
(***************************************************************************)
EXTENDS SubscriptionService, FiniteSetTheorems, SequenceTheorems, TLAPS

\* The event store of the service, seen as an EventStore: what is proved there
\* of the order of its contexts and of the replay loop holds of every log.
Store == INSTANCE EventStoreProofs WITH
  Publishers <- Notifs, Subs <- Requests, MaxTime <- 0, MaxEvents <- 0, ClockMayStepBack <- FALSE,
  event_contexts <- log, pending <- [n \in Notifs |-> {}], inserts <- clock

\* GetEventsSince returns what it owes, each event once and in order.
LEMMA SinceReturns ==
  ASSUME Store!Ordered(log), IsFiniteSet(log), NEW rid
  PROVE  /\ GetEventsSince(log, rid) \in Seq(log)
         /\ Store!InOrder(GetEventsSince(log, rid))
         /\ Store!Since(log, rid) = {GetEventsSince(log, rid)[i] : i \in 1 .. Len(GetEventsSince(log, rid))}
<1>1. /\ Store!IsFiniteSet(log)
      /\ Store!GetEventsSince(log, rid) = GetEventsSince(log, rid)
  BY DEF Store!IsFiniteSet, IsFiniteSet, Store!GetEventsSince, GetEventsSince, Store!Turn, Turn,
         Store!Visit, Visit, Store!Precedes, Precedes, Store!RedfishEventId, RedfishEventId,
         Store!Cardinality, Cardinality
<1>2. QED BY <1>1, StoreSizeAssumption, Store!SinceReturns

\* The requests whose subscription is not complete: nothing was replayed ...
Pending(r) == create[r] = "new" \/ async[r].pending # {} \/ async[r].at = "replay"
\* ... or not stored yet.
Incomplete(r) == Pending(r) \/ async[r].at = "add"

\* The event sources of resource u are known.
Subscribed(r, u) == SourcesOfUri[u] \X {u} \subseteq async[r].origins

\* The loop, the backend and AsyncSubscribeResponse share out the resources of
\* a request; a completed response has the sources of all of them.
ResponseInv(r) ==
  /\ async[r].pending \subseteq UrisOf[r]
  /\ async[r].pending # {} => r \notin Invalid
  /\ loop[r] \subseteq async[r].pending /\ calls[r] \subseteq async[r].pending
  /\ loop[r] \cap calls[r] = {}
  /\ create[r] = "new" => async[r] = NoAsync
  /\ create[r] # "new" /\ r \notin Invalid /\ async[r].status = "ok" =>
       \A u \in UrisOf[r] \ async[r].pending : Subscribed(r, u)
  /\ async[r].at # "idle" => create[r] # "new" /\ r \notin Invalid /\ async[r].status = "ok"
  /\ async[r].at # "idle" \/ r \in stored =>
       create[r] # "new" /\ async[r].pending = {} /\ \A u \in UrisOf[r] : Subscribed(r, u)
  /\ r \in stored => async[r].at = "idle"
  /\ async[r].origins \subseteq {x \in Sources \X Uris : x[2] \in UrisOf[r] /\ x[1] \in SourcesOfUri[x[2]]}

\* An answer is given once the outcome is known.
Undecided(r) ==
  \/ create[r] = "new"
  \/ async[r].status = "ok" /\ async[r].pending # {}
  \/ async[r].at # "idle"
AnswerInv(r) ==
  create[r] # "refused" =>
    /\ Undecided(r) => answers[r] = <<>>
    /\ Len(answers[r]) <= 1
    /\ r \in stored => answers[r] = <<"ok">>

\* Resources of request r that source src stands for.
Owned(r, src) == {u \in UrisOf[r] : src \in SourcesOfUri[u]}

\* The AggregatedQueryResponse of Notify call n and request r.
AggregateInv(n, r) ==
  LET g == agg[<<n, r>>]
  IN  /\ notify[n].at = "new" => g = NoAgg /\ notify[n].todo = {} /\ notify[n].queries = {}
      /\ notify[n].at # "new" => notify[n].src \in Sources
      /\ r \in notify[n].todo => g.at = "none"
      /\ g.pending \union g.got \subseteq Owned(r, notify[n].src)
      /\ g.calls \subseteq g.pending
      /\ \A u \in Uris : <<r, u>> \in notify[n].queries =>
           g.at = "waiting" /\ u \in g.pending \ g.calls
      /\ g.calls # {} => g.at = "waiting"
      /\ Handling(n, r) => g.got \cap EventUrisOf[r] # {}
      /\ g.at = "stored" => EventOf(n, r) \in added
      /\ g.at = "stamped" => g.ts < clock /\ \A e \in added : e.ts # g.ts
      /\ Incomplete(r) => g.at = "none" /\ r \notin notify[n].todo

\* No two batches carry the same stamp.
StampInv ==
  \A m, n \in Notifs : \A q, r \in Requests :
    agg[<<m, q>>].at = "stamped" /\ agg[<<n, r>>].at = "stamped" /\ agg[<<m, q>>].ts = agg[<<n, r>>].ts
      => m = n /\ q = r

\* Stamps are unique, and so order the event store.
LogInv ==
  /\ log \subseteq added /\ IsFiniteSet(log)
  /\ \A e \in added : e.seq = e.ts /\ e.ts < clock
  /\ \A e, f \in added : e.seq = f.seq => e = f
  /\ \A e \in added : e.uris # {} /\ e.uris \subseteq Owned(e.sub, e.src)

InboxInv(r) ==
  /\ Pending(r) => inbox[r] = <<>>
  /\ \A i \in 1 .. Len(inbox[r]) : inbox[r][i] \in added

IInv ==
  /\ TypeOK
  /\ \A r \in Requests : ResponseInv(r) /\ AnswerInv(r) /\ InboxInv(r)
  /\ \A n \in Notifs, r \in Requests : AggregateInv(n, r)
  /\ StampInv
  /\ LogInv
  /\ ReplayIsOrderedTail

-----------------------------------------------------------------------------
(* What a step leaves alone.                                                 *)

LEMMA SameRequest ==
  ASSUME NEW q \in Requests, ResponseInv(q), create'[q] = create[q], loop'[q] = loop[q],
         calls'[q] = calls[q], async'[q] = async[q], q \in stored' => q \in stored
  PROVE  ResponseInv(q)' /\ (Incomplete(q)' <=> Incomplete(q)) /\ (Pending(q)' <=> Pending(q))
BY DEF ResponseInv, Incomplete, Pending, Subscribed

LEMMA SameAnswers ==
  ASSUME NEW q \in Requests, AnswerInv(q), create'[q] = create[q], async'[q] = async[q],
         answers'[q] = answers[q], q \in stored' => q \in stored
  PROVE  AnswerInv(q)'
BY DEF AnswerInv, Undecided

LEMMA SameInbox ==
  ASSUME NEW q \in Requests, InboxInv(q), Pending(q)' => Pending(q),
         inbox'[q] = inbox[q], added \subseteq added'
  PROVE  InboxInv(q)'
BY DEF InboxInv

LEMMA SameAggregate ==
  ASSUME TypeOK, NEW m \in Notifs, NEW q \in Requests, AggregateInv(m, q),
         agg'[<<m, q>>] = agg[<<m, q>>], notify'[m] = notify[m], clock' \in Nat, clock' >= clock,
         added' = added, Incomplete(q)' => Incomplete(q)
  PROVE  AggregateInv(m, q)'
<1>1. agg[<<m, q>>].ts \in Nat /\ clock \in Nat
  BY DEF TypeOK
<1>2. agg[<<m, q>>].ts < clock => agg[<<m, q>>].ts < clock'
  BY <1>1
<1>3. QED BY <1>2 DEF AggregateInv, Handling, EventOf

LEMMA SameLog ==
  ASSUME TypeOK, LogInv, log' = log, added' = added, clock' \in Nat, clock' >= clock
  PROVE  LogInv'
<1>1. \A e \in added : e.ts \in Nat /\ clock \in Nat
  BY DEF TypeOK, Events
<1>2. \A e \in added : e.ts < clock => e.ts < clock'
  BY <1>1
<1>3. QED BY <1>2 DEF LogInv

\* A step of CreateSubscription or of a response for r touches only what
\* belongs to r, and cannot make its subscription incomplete again.
LEMMA RequestStepIInv ==
  ASSUME IInv, NEW r \in Requests, TypeOK',
         UNCHANGED <<log, clock, added, notify, agg>>,
         \A q \in Requests : q # r =>
           /\ create'[q] = create[q] /\ loop'[q] = loop[q] /\ calls'[q] = calls[q]
           /\ async'[q] = async[q] /\ answers'[q] = answers[q] /\ inbox'[q] = inbox[q]
           /\ q \in stored' => q \in stored,
         ResponseInv(r)', AnswerInv(r)', InboxInv(r)', Incomplete(r)' => Incomplete(r),
         ReplayIsOrderedTail'
  PROVE  IInv'
<1>1. \A q \in Requests : q # r =>
        ResponseInv(q)' /\ AnswerInv(q)' /\ InboxInv(q)' /\ (Incomplete(q)' <=> Incomplete(q))
  <2> SUFFICES ASSUME NEW q \in Requests, q # r
               PROVE  ResponseInv(q)' /\ AnswerInv(q)' /\ InboxInv(q)' /\ (Incomplete(q)' <=> Incomplete(q))
    OBVIOUS
  <2>1. ResponseInv(q) /\ AnswerInv(q) /\ InboxInv(q) /\ added \subseteq added'
    BY DEF IInv
  <2>2. ResponseInv(q)' /\ (Incomplete(q)' <=> Incomplete(q)) /\ (Pending(q)' <=> Pending(q))
    BY <2>1, SameRequest
  <2>3. AnswerInv(q)'
    BY <2>1, SameAnswers
  <2>4. InboxInv(q)'
    BY <2>1, <2>2, SameInbox
  <2>5. QED BY <2>2, <2>3, <2>4
<1>2. clock' \in Nat /\ clock' >= clock
  BY DEF IInv, TypeOK
<1>3. \A m \in Notifs, q \in Requests : AggregateInv(m, q)'
  <2> TAKE m \in Notifs, q \in Requests
  <2>1. Incomplete(q)' => Incomplete(q)
    BY <1>1
  <2>2. QED BY <1>2, <2>1, SameAggregate DEF IInv
<1>4. StampInv' /\ LogInv'
  BY <1>2, SameLog DEF IInv, StampInv
<1>5. QED BY <1>1, <1>3, <1>4 DEF IInv

\* A step of Notify call n or of one of its aggregates leaves the requests alone.
LEMMA NotifyStepIInv ==
  ASSUME IInv, NEW n \in Notifs, TypeOK', UNCHANGED <<createVars, stored>>,
         clock' >= clock, added' = added, log' = log, inbox' = inbox,
         \A m \in Notifs : m # n =>
           notify'[m] = notify[m] /\ \A q \in Requests : agg'[<<m, q>>] = agg[<<m, q>>],
         \A q \in Requests : AggregateInv(n, q)',
         StampInv'
  PROVE  IInv'
<1>1. UNCHANGED <<create, loop, calls, async, answers, last>>
  BY DEF createVars
<1>2. \A q \in Requests : ResponseInv(q)' /\ AnswerInv(q)' /\ InboxInv(q)' /\ (Incomplete(q)' <=> Incomplete(q))
  <2> TAKE q \in Requests
  <2>1. ResponseInv(q) /\ AnswerInv(q) /\ InboxInv(q) /\ added \subseteq added'
    BY DEF IInv
  <2>2. ResponseInv(q)' /\ (Incomplete(q)' <=> Incomplete(q)) /\ (Pending(q)' <=> Pending(q))
    BY <1>1, <2>1, SameRequest
  <2>3. AnswerInv(q)'
    BY <1>1, <2>1, SameAnswers
  <2>4. InboxInv(q)'
    BY <2>1, <2>2, SameInbox
  <2>5. QED BY <2>2, <2>3, <2>4
<1>3. \A m \in Notifs, q \in Requests : m # n => AggregateInv(m, q)'
  <2> SUFFICES ASSUME NEW m \in Notifs, NEW q \in Requests, m # n PROVE AggregateInv(m, q)'
    OBVIOUS
  <2>1. clock' \in Nat /\ AggregateInv(m, q) /\ TypeOK
    BY DEF IInv, TypeOK
  <2>2. QED BY <1>2, <2>1, SameAggregate
<1>4. LogInv'
  <2>1. clock' \in Nat /\ LogInv /\ TypeOK
    BY DEF IInv, TypeOK
  <2>2. QED BY <2>1, SameLog
<1>5. ReplayIsOrderedTail'
  BY <1>1 DEF IInv, ReplayIsOrderedTail
<1>6. QED BY <1>2, <1>3, <1>4, <1>5 DEF IInv

-----------------------------------------------------------------------------
(* CreateSubscription.                                                       *)

LEMMA InitIInv == Init => IInv
<1> SUFFICES ASSUME Init PROVE IInv
  OBVIOUS
<1>1. TypeOK
  BY RequestsAssumption DEF Init, TypeOK, NoAsync, NoAgg, Statuses
<1>2. \A r \in Requests : ResponseInv(r) /\ AnswerInv(r) /\ InboxInv(r)
  BY RequestsAssumption DEF Init, ResponseInv, AnswerInv, InboxInv, Undecided, Pending, NoAsync
<1>3. \A n \in Notifs, r \in Requests : AggregateInv(n, r)
  BY DEF Init, AggregateInv, Handling, NoAgg
<1>4. StampInv
  BY DEF Init, StampInv, NoAgg
<1>5. LogInv
  BY FS_EmptySet DEF Init, LogInv
<1>6. ReplayIsOrderedTail
  BY DEF Init, ReplayIsOrderedTail
<1>7. QED BY <1>1, <1>2, <1>3, <1>4, <1>5, <1>6 DEF IInv

LEMMA CreateRejectedIInv ==
  ASSUME IInv, NEW r \in Requests, CreateRejected(r)
  PROVE  IInv'
<1>1. TypeOK /\ ResponseInv(r) /\ AnswerInv(r) /\ InboxInv(r) /\ ReplayIsOrderedTail
  BY DEF IInv
<1>2. answers' = [answers EXCEPT ![r] = Append(@, "error")]
  BY DEF CreateRejected, Answer
<1>3. answers[r] \in Seq(Statuses) /\ Append(answers[r], "error") \in Seq(Statuses)
  BY <1>1 DEF TypeOK, Statuses
<1>4. TypeOK'
  BY <1>1, <1>2, <1>3 DEF TypeOK, CreateRejected, notifyVars
<1>5. ResponseInv(r)'
  BY <1>1 DEF CreateRejected, TypeOK, ResponseInv, Subscribed, NoAsync
<1>6. AnswerInv(r)'
  <2>1. answers[r] = <<>> /\ answers'[r] = <<"error">>
    BY <1>1, <1>2 DEF AnswerInv, Undecided, CreateRejected, TypeOK
  <2>2. r \notin stored'
    BY <1>1 DEF CreateRejected, ResponseInv
  <2>3. ~ Undecided(r)'
    BY <1>1 DEF Undecided, CreateRejected, TypeOK, ResponseInv, NoAsync
  <2>4. QED BY <2>1, <2>2, <2>3 DEF AnswerInv
<1>7. InboxInv(r)' /\ (Incomplete(r)' => Incomplete(r)) /\ ReplayIsOrderedTail'
  BY <1>1 DEF InboxInv, Incomplete, Pending, CreateRejected, ReplayIsOrderedTail, TypeOK
<1>8. \A q \in Requests : q # r =>
           /\ create'[q] = create[q] /\ loop'[q] = loop[q] /\ calls'[q] = calls[q]
           /\ async'[q] = async[q] /\ answers'[q] = answers[q] /\ inbox'[q] = inbox[q]
           /\ q \in stored' => q \in stored
  BY <1>1, <1>2 DEF CreateRejected, TypeOK
<1>9. UNCHANGED <<log, clock, added, notify, agg>>
  BY DEF CreateRejected, notifyVars
<1>10. QED BY <1>4, <1>5, <1>6, <1>7, <1>8, <1>9, RequestStepIInv

LEMMA CreateAcceptedIInv ==
  ASSUME IInv, NEW r \in Requests, CreateAccepted(r)
  PROVE  IInv'
<1> DEFINE a == [NoAsync EXCEPT !.pending = UrisOf[r]]
<1>1. TypeOK /\ ResponseInv(r) /\ AnswerInv(r) /\ InboxInv(r) /\ ReplayIsOrderedTail
  BY DEF IInv
<1>2. /\ create[r] = "new" /\ r \notin Invalid /\ async[r] = NoAsync /\ inbox[r] = <<>>
      /\ calls[r] = {} /\ answers[r] = <<>> /\ r \notin stored
  BY <1>1 DEF CreateAccepted, ResponseInv, InboxInv, Pending, AnswerInv, Undecided, NoAsync
<1>3. /\ create' = [create EXCEPT ![r] = "loop"]
      /\ loop' = [loop EXCEPT ![r] = UrisOf[r]]
      /\ async' = [async EXCEPT ![r] = a]
      /\ UNCHANGED <<calls, answers, stored, inbox, log, clock, added, notify, agg>>
  BY DEF CreateAccepted, notifyVars
<1>4. UrisOf[r] \in SUBSET Uris
  BY RequestsAssumption
<1>5. a.pending = UrisOf[r] /\ a.status = "ok" /\ a.origins = {} /\ a.at = "idle"
      /\ a \in [pending : SUBSET Uris, status : Statuses,
                origins : SUBSET (Sources \X Uris), at : {"idle", "replay", "add"}]
  BY <1>4 DEF NoAsync, Statuses
<1> HIDE DEF a
<1>6. /\ create'[r] = "loop" /\ loop'[r] = UrisOf[r] /\ async'[r] = a
      /\ \A q \in Requests : q # r =>
           create'[q] = create[q] /\ loop'[q] = loop[q] /\ async'[q] = async[q]
  BY <1>1, <1>3 DEF TypeOK
<1>7. /\ last' \in [Requests -> EventRefs \union {NoEvent}]
      /\ \A q \in Requests : q # r => last'[q] = last[q]
  <2>1. PICK id \in {NoEvent} \union UNION {{RedfishEventId(inbox[o][i]) :
                   i \in DOMAIN inbox[o]} : o \in Requests} :
           last' = [last EXCEPT ![r] = id]
    BY DEF CreateAccepted
  <2>2. id \in EventRefs \union {NoEvent}
    <3>1. CASE id = NoEvent
      BY <3>1
    <3>2. CASE id # NoEvent
      <4>1. PICK o \in Requests : \E i \in DOMAIN inbox[o] : id = RedfishEventId(inbox[o][i])
        BY <2>1, <3>2
      <4>2. PICK i \in DOMAIN inbox[o] : id = RedfishEventId(inbox[o][i])
        BY <4>1
      <4>3. inbox[o] \in Seq(Events) /\ inbox[o][i] \in Events
        BY <1>1, <4>2 DEF TypeOK
      <4>4. QED BY <4>2, <4>3 DEF Events, EventRefs, RedfishEventId
    <3>3. QED BY <3>1, <3>2
  <2>3. QED BY <1>1, <2>1, <2>2 DEF TypeOK
<1>8. TypeOK'
  <2>1. create' \in [Requests -> {"new", "loop", "refused", "returned"}]
        /\ loop' \in [Requests -> SUBSET Uris]
    BY <1>1, <1>3, <1>4 DEF TypeOK
  <2>2. \A q \in Requests : create'[q] # "loop" => loop'[q] = {}
    BY <1>1, <1>6 DEF TypeOK
  <2>3. async' \in [Requests -> [pending : SUBSET Uris, status : Statuses,
                             origins : SUBSET (Sources \X Uris),
                             at : {"idle", "replay", "add"}]]
    BY <1>1, <1>3, <1>5 DEF TypeOK
  <2>4. QED BY <1>1, <1>3, <1>7, <2>1, <2>2, <2>3 DEF TypeOK
<1>9. ResponseInv(r)'
  BY <1>2, <1>3, <1>5, <1>6 DEF ResponseInv, Subscribed
<1>10. AnswerInv(r)' /\ InboxInv(r)'
  BY <1>1, <1>2, <1>3 DEF AnswerInv, InboxInv
<1>11. Incomplete(r)' => Incomplete(r)
  BY <1>2 DEF Incomplete, Pending
<1>12. ReplayIsOrderedTail'
  BY <1>1, <1>2, <1>3, <1>7 DEF ReplayIsOrderedTail
<1>13. QED BY <1>3, <1>6, <1>8, <1>9, <1>10, <1>11, <1>12, RequestStepIInv

LEMMA SubscribeAcceptedIInv ==
  ASSUME IInv, NEW r \in Requests, NEW u \in Uris, SubscribeAccepted(r, u)
  PROVE  IInv'
<1>1. TypeOK /\ ResponseInv(r) /\ AnswerInv(r) /\ InboxInv(r) /\ ReplayIsOrderedTail
  BY DEF IInv
<1>2. /\ loop' = [loop EXCEPT ![r] = @ \ {u}]
      /\ calls' = [calls EXCEPT ![r] = @ \union {u}]
      /\ UNCHANGED <<create, async, answers, last, stored, inbox, log, clock, added, notify, agg>>
      /\ create[r] = "loop" /\ u \in loop[r]
  BY DEF SubscribeAccepted, notifyVars
<1>3. /\ loop'[r] = loop[r] \ {u} /\ calls'[r] = calls[r] \union {u}
      /\ \A q \in Requests : q # r => loop'[q] = loop[q] /\ calls'[q] = calls[q]
  BY <1>1, <1>2 DEF TypeOK
<1>4. TypeOK'
  BY <1>1, <1>2, <1>3 DEF TypeOK
<1>5. ResponseInv(r)'
  BY <1>1, <1>2, <1>3 DEF ResponseInv, Subscribed
<1>6. AnswerInv(r)' /\ InboxInv(r)' /\ (Incomplete(r)' => Incomplete(r)) /\ ReplayIsOrderedTail'
  BY <1>1, <1>2 DEF AnswerInv, Undecided, InboxInv, Incomplete, Pending, ReplayIsOrderedTail
<1>7. QED BY <1>2, <1>3, <1>4, <1>5, <1>6, RequestStepIInv

LEMMA SubscribeRefusedIInv ==
  ASSUME IInv, NEW r \in Requests, NEW u \in Uris, SubscribeRefused(r, u)
  PROVE  IInv'
<1>1. TypeOK /\ ResponseInv(r) /\ InboxInv(r) /\ ReplayIsOrderedTail
  BY DEF IInv
<1>2. /\ loop' = [loop EXCEPT ![r] = {}]
      /\ create' = [create EXCEPT ![r] = "refused"]
      /\ answers' = [answers EXCEPT ![r] = Append(@, "error")]
      /\ UNCHANGED <<calls, async, last, stored, inbox, log, clock, added, notify, agg>>
      /\ create[r] = "loop"
  BY DEF SubscribeRefused, Answer, notifyVars
<1>3. answers[r] \in Seq(Statuses) /\ Append(answers[r], "error") \in Seq(Statuses)
  BY <1>1 DEF TypeOK, Statuses
<1>4. /\ loop'[r] = {} /\ create'[r] = "refused"
      /\ \A q \in Requests : q # r =>
           loop'[q] = loop[q] /\ create'[q] = create[q] /\ answers'[q] = answers[q]
  BY <1>1, <1>2 DEF TypeOK
<1>5. TypeOK'
  BY <1>1, <1>2, <1>3, <1>4 DEF TypeOK
<1>6. ResponseInv(r)'
  BY <1>1, <1>2, <1>4 DEF ResponseInv, Subscribed
<1>7. AnswerInv(r)' /\ InboxInv(r)' /\ (Incomplete(r)' => Incomplete(r)) /\ ReplayIsOrderedTail'
  BY <1>1, <1>2, <1>4 DEF AnswerInv, InboxInv, Incomplete, Pending, ReplayIsOrderedTail
<1>8. QED BY <1>2, <1>4, <1>5, <1>6, <1>7, RequestStepIInv

LEMMA CreateReturnsIInv ==
  ASSUME IInv, NEW r \in Requests, CreateReturns(r)
  PROVE  IInv'
<1>1. TypeOK /\ ResponseInv(r) /\ AnswerInv(r) /\ InboxInv(r) /\ ReplayIsOrderedTail
  BY DEF IInv
<1>2. /\ create' = [create EXCEPT ![r] = "returned"]
      /\ UNCHANGED <<loop, calls, async, answers, last, stored, inbox, log, clock, added, notify, agg>>
      /\ create[r] = "loop" /\ loop[r] = {}
  BY DEF CreateReturns, notifyVars
<1>3. create'[r] = "returned" /\ \A q \in Requests : q # r => create'[q] = create[q]
  BY <1>1, <1>2 DEF TypeOK
<1>4. TypeOK'
  BY <1>1, <1>2, <1>3 DEF TypeOK
<1>5. ResponseInv(r)'
  BY <1>1, <1>2, <1>3 DEF ResponseInv, Subscribed
<1>6. AnswerInv(r)' /\ InboxInv(r)' /\ (Incomplete(r)' => Incomplete(r)) /\ ReplayIsOrderedTail'
  BY <1>1, <1>2, <1>3 DEF AnswerInv, Undecided, InboxInv, Incomplete, Pending, ReplayIsOrderedTail
<1>7. QED BY <1>2, <1>3, <1>4, <1>5, <1>6, RequestStepIInv

-----------------------------------------------------------------------------
(* AsyncSubscribeResponse.                                                   *)

\* A response only changes the AsyncSubscribeResponse of r, the calls the
\* backend owes and what the client was answered.
LEMMA ResponseIInv ==
  ASSUME IInv, NEW r \in Requests,
         NEW a \in [pending : SUBSET Uris, status : Statuses,
                    origins : SUBSET (Sources \X Uris), at : {"idle", "replay", "add"}],
         NEW c \in SUBSET Uris, NEW s \in Seq(Statuses), NEW st \in SUBSET Requests,
         async' = [async EXCEPT ![r] = a], calls' = [calls EXCEPT ![r] = c],
         answers' = [answers EXCEPT ![r] = s],
         stored' = st, \A q \in st : q # r => q \in stored,
         UNCHANGED <<create, loop, last, inbox, log, clock, added, notify, agg>>,
         a.at # "replay" => (a.pending # {} => async[r].pending # {}),
         a.at = "replay" => async[r].pending # {},
         a.at = "add" => async[r].at # "idle",
         ResponseInv(r)', AnswerInv(r)'
  PROVE  IInv'
<1>1. TypeOK /\ ResponseInv(r) /\ InboxInv(r) /\ ReplayIsOrderedTail
  BY DEF IInv
<1>2. /\ async'[r] = a /\ calls'[r] = c /\ answers'[r] = s
      /\ \A q \in Requests : q # r =>
           async'[q] = async[q] /\ calls'[q] = calls[q] /\ answers'[q] = answers[q]
  BY <1>1 DEF TypeOK
<1>3. TypeOK'
  BY <1>1 DEF TypeOK
<1>4. async[r].at \in {"idle", "replay", "add"} /\ a.at \in {"idle", "replay", "add"}
  BY <1>1 DEF TypeOK
<1>5. (Incomplete(r)' => Incomplete(r)) /\ (Pending(r)' => Pending(r))
  BY <1>2, <1>4 DEF Incomplete, Pending
<1>6. InboxInv(r)'
  BY <1>1, <1>5, SameInbox
<1>7. ReplayIsOrderedTail'
  BY <1>1 DEF ReplayIsOrderedTail
<1>8. QED BY <1>2, <1>3, <1>5, <1>6, <1>7, RequestStepIInv

\* What is known of r before a response.
LEMMA ResponseBegins ==
  ASSUME IInv, NEW r \in Requests
  PROVE  /\ async \in [Requests -> [pending : SUBSET Uris, status : Statuses,
                             origins : SUBSET (Sources \X Uris), at : {"idle", "replay", "add"}]]
         /\ async[r].pending \in SUBSET Uris /\ async[r].status \in Statuses
         /\ async[r].origins \in SUBSET (Sources \X Uris)
         /\ calls \in [Requests -> SUBSET Uris] /\ answers \in [Requests -> Seq(Statuses)]
         /\ stored \in SUBSET Requests
         /\ Append(answers[r], "error") \in Seq(Statuses)
         /\ Append(answers[r], "ok") \in Seq(Statuses)
         /\ ResponseInv(r) /\ AnswerInv(r)
BY DEF IInv, TypeOK, Statuses

LEMMA ResponseUnexpectedIInv ==
  ASSUME IInv, NEW r \in Requests, NEW u \in Uris, ResponseUnexpected(r, u)
  PROVE  IInv'
<1> DEFINE a == [async[r] EXCEPT !.status = "error"]
<1>0. /\ ResponseInv(r) /\ AnswerInv(r)
      /\ async[r] \in [pending : SUBSET Uris, status : Statuses,
                       origins : SUBSET (Sources \X Uris), at : {"idle", "replay", "add"}]
      /\ async[r].pending \in SUBSET Uris /\ async[r].origins \in SUBSET (Sources \X Uris)
      /\ answers[r] \in Seq(Statuses) /\ calls[r] \in SUBSET Uris /\ stored \in SUBSET Requests
  BY ResponseBegins
<1>1. /\ async' = [async EXCEPT ![r] = a] /\ calls' = [calls EXCEPT ![r] = calls[r]]
      /\ answers' = [answers EXCEPT ![r] = answers[r]]
      /\ UNCHANGED <<create, loop, last, stored, inbox, log, clock, added, notify, agg>>
      /\ async[r].at = "idle" /\ create[r] # "new"
  BY ResponseBegins DEF ResponseUnexpected, Answered, notifyVars
<1>2. /\ a.pending = async[r].pending /\ a.status = "error" /\ a.at = "idle"
      /\ a.origins = async[r].origins
      /\ a \in [pending : SUBSET Uris, status : Statuses,
                origins : SUBSET (Sources \X Uris), at : {"idle", "replay", "add"}]
  BY <1>0, <1>1 DEF Statuses
<1> HIDE DEF a
<1>3. async'[r] = a /\ calls'[r] = calls[r] /\ answers'[r] = answers[r]
  BY <1>1, ResponseBegins
<1>4. ResponseInv(r)'
  BY <1>0, <1>1, <1>2, <1>3 DEF ResponseInv, Subscribed
<1>5. AnswerInv(r)'
  BY <1>0, <1>1, <1>2, <1>3 DEF AnswerInv, Undecided
<1>6. QED BY <1>0, <1>1, <1>2, <1>4, <1>5, ResponseIInv

LEMMA ResponseIgnoredIInv ==
  ASSUME IInv, NEW r \in Requests, NEW u \in Uris, ResponseIgnored(r, u)
  PROVE  IInv'
<1> DEFINE a == [async[r] EXCEPT !.pending = @ \ {u}]
<1>0. /\ ResponseInv(r) /\ AnswerInv(r)
      /\ async[r] \in [pending : SUBSET Uris, status : Statuses,
                       origins : SUBSET (Sources \X Uris), at : {"idle", "replay", "add"}]
      /\ async[r].pending \in SUBSET Uris /\ async[r].origins \in SUBSET (Sources \X Uris)
      /\ answers[r] \in Seq(Statuses) /\ calls[r] \ {u} \in SUBSET Uris /\ stored \in SUBSET Requests
  BY ResponseBegins
<1>1. /\ async' = [async EXCEPT ![r] = a] /\ calls' = [calls EXCEPT ![r] = calls[r] \ {u}]
      /\ answers' = [answers EXCEPT ![r] = answers[r]]
      /\ UNCHANGED <<create, loop, last, stored, inbox, log, clock, added, notify, agg>>
      /\ async[r].at = "idle" /\ async[r].status = "error" /\ u \in calls[r]
  BY ResponseBegins DEF ResponseIgnored, notifyVars
<1>2. /\ a.pending = async[r].pending \ {u} /\ a.status = "error" /\ a.at = "idle"
      /\ a.origins = async[r].origins
      /\ a \in [pending : SUBSET Uris, status : Statuses,
                origins : SUBSET (Sources \X Uris), at : {"idle", "replay", "add"}]
  BY <1>0, <1>1 DEF Statuses
<1> HIDE DEF a
<1>3. async'[r] = a /\ calls'[r] = calls[r] \ {u} /\ answers'[r] = answers[r]
  BY <1>1, ResponseBegins
<1>4. create[r] # "new" /\ r \notin stored
  BY <1>0, <1>1 DEF ResponseInv, NoAsync
<1>5. ResponseInv(r)'
  BY <1>0, <1>1, <1>2, <1>3, <1>4 DEF ResponseInv, Subscribed
<1>6. AnswerInv(r)'
  BY <1>0, <1>1, <1>2, <1>3, <1>4 DEF AnswerInv, Undecided
<1>7. QED BY <1>0, <1>1, <1>2, <1>5, <1>6, ResponseIInv

LEMMA ResponseFailedIInv ==
  ASSUME IInv, NEW r \in Requests, NEW u \in Uris, ResponseFailed(r, u)
  PROVE  IInv'
<1> DEFINE a == [async[r] EXCEPT !.pending = @ \ {u}, !.status = "error"]
<1>0. /\ ResponseInv(r) /\ AnswerInv(r)
      /\ async[r] \in [pending : SUBSET Uris, status : Statuses,
                       origins : SUBSET (Sources \X Uris), at : {"idle", "replay", "add"}]
      /\ async[r].pending \in SUBSET Uris /\ async[r].origins \in SUBSET (Sources \X Uris)
      /\ Append(answers[r], "error") \in Seq(Statuses)
      /\ calls[r] \ {u} \in SUBSET Uris /\ stored \in SUBSET Requests
  BY ResponseBegins
<1>1. /\ async' = [async EXCEPT ![r] = a] /\ calls' = [calls EXCEPT ![r] = calls[r] \ {u}]
      /\ answers' = [answers EXCEPT ![r] = Append(answers[r], "error")]
      /\ UNCHANGED <<create, loop, last, stored, inbox, log, clock, added, notify, agg>>
      /\ async[r].at = "idle" /\ async[r].status = "ok" /\ u \in calls[r]
  BY ResponseBegins DEF ResponseFailed, Answer, notifyVars
<1>2. /\ a.pending = async[r].pending \ {u} /\ a.status = "error" /\ a.at = "idle"
      /\ a.origins = async[r].origins
      /\ a \in [pending : SUBSET Uris, status : Statuses,
                origins : SUBSET (Sources \X Uris), at : {"idle", "replay", "add"}]
  BY <1>0, <1>1 DEF Statuses
<1> HIDE DEF a
<1>3. async'[r] = a /\ calls'[r] = calls[r] \ {u} /\ answers'[r] = Append(answers[r], "error")
  BY <1>1, ResponseBegins
<1>4. create[r] # "new" /\ r \notin stored /\ u \in async[r].pending
  BY <1>0, <1>1 DEF ResponseInv, NoAsync
<1>5. ResponseInv(r)'
  BY <1>0, <1>1, <1>2, <1>3, <1>4 DEF ResponseInv, Subscribed
<1>6. AnswerInv(r)'
  <2> SUFFICES ASSUME create[r] # "refused" PROVE Len(answers'[r]) <= 1 /\ ~ Undecided(r)'
    BY <1>1, <1>4 DEF AnswerInv
  <2>1. answers[r] = <<>>
    BY <1>0, <1>1, <1>4 DEF AnswerInv, Undecided
  <2>2. QED BY <1>1, <1>2, <1>3, <1>4, <2>1 DEF Undecided
<1>7. QED BY <1>0, <1>1, <1>2, <1>5, <1>6, ResponseIInv

\* The last good response completes a subscription, which then has the event
\* sources of all its resources.
LEMMA ResponseOkIInv ==
  ASSUME IInv, NEW r \in Requests, NEW u \in Uris, ResponseOk(r, u)
  PROVE  IInv'
<1>0. /\ ResponseInv(r) /\ AnswerInv(r)
      /\ async[r] \in [pending : SUBSET Uris, status : Statuses,
                       origins : SUBSET (Sources \X Uris), at : {"idle", "replay", "add"}]
      /\ async[r].pending \in SUBSET Uris /\ async[r].origins \in SUBSET (Sources \X Uris)
      /\ answers[r] \in Seq(Statuses) /\ calls[r] \ {u} \in SUBSET Uris /\ stored \in SUBSET Requests
  BY ResponseBegins
<1> DEFINE a == [pending |-> async[r].pending \ {u}, status |-> "ok",
                 origins |-> async[r].origins \union (SourcesOfUri[u] \X {u}),
                 at |-> IF async[r].pending = {u} THEN "replay" ELSE "idle"]
<1>1. PICK at \in {"idle", "replay"} :
        (at = "replay" <=> async[r].pending = {u}) /\ a.at = at
  BY Zenon
<1>2. /\ async' = [async EXCEPT ![r] = a] /\ calls' = [calls EXCEPT ![r] = calls[r] \ {u}]
      /\ answers' = [answers EXCEPT ![r] = answers[r]]
      /\ UNCHANGED <<create, loop, last, stored, inbox, log, clock, added, notify, agg>>
      /\ async[r].at = "idle" /\ async[r].status = "ok" /\ u \in calls[r]
  BY <1>1, ResponseBegins DEF ResponseOk, notifyVars
<1>3. SourcesOfUri[u] \X {u} \in SUBSET (Sources \X Uris)
  BY RequestsAssumption
<1>4. /\ a.pending = async[r].pending \ {u} /\ a.status = "ok" /\ a.at = at
      /\ a.origins = async[r].origins \union (SourcesOfUri[u] \X {u})
      /\ a \in [pending : SUBSET Uris, status : Statuses,
                origins : SUBSET (Sources \X Uris), at : {"idle", "replay", "add"}]
  BY <1>0, <1>1, <1>2, <1>3 DEF Statuses
<1> HIDE DEF a
<1>5. async'[r] = a /\ calls'[r] = calls[r] \ {u} /\ answers'[r] = answers[r]
  BY <1>2, ResponseBegins
<1>6. create[r] # "new" /\ r \notin stored /\ u \in async[r].pending /\ u \in UrisOf[r]
  BY <1>0, <1>2 DEF ResponseInv, NoAsync
<1>7. r \notin Invalid
  BY <1>0, <1>6 DEF ResponseInv
<1>8. ResponseInv(r)'
  <2>1. \A w \in UrisOf[r] \ a.pending : Subscribed(r, w)'
    <3> TAKE w \in UrisOf[r] \ a.pending
    <3>1. CASE w = u
      BY <1>4, <1>5, <3>1 DEF Subscribed
    <3>2. CASE w # u
      BY <1>0, <1>2, <1>4, <1>5, <1>6, <1>7, <3>2 DEF Subscribed, ResponseInv
    <3>3. QED BY <3>1, <3>2
  <2>2. a.origins \subseteq {x \in Sources \X Uris : x[2] \in UrisOf[r] /\ x[1] \in SourcesOfUri[x[2]]}
    BY <1>0, <1>3, <1>4, <1>6 DEF ResponseInv
  <2>3. at # "idle" => a.pending = {}
    BY <1>1, <1>4
  <2>4. /\ a.pending \subseteq UrisOf[r] /\ r \notin Invalid
        /\ loop[r] \subseteq a.pending /\ calls[r] \ {u} \subseteq a.pending
        /\ loop[r] \cap (calls[r] \ {u}) = {}
    BY <1>0, <1>2, <1>4, <1>7 DEF ResponseInv
  <2>5. QED BY <1>2, <1>4, <1>5, <1>6, <1>7, <2>1, <2>2, <2>3, <2>4 DEF ResponseInv
<1>9. AnswerInv(r)'
  BY <1>0, <1>1, <1>2, <1>4, <1>5, <1>6 DEF AnswerInv, Undecided
<1>10. QED BY <1>0, <1>1, <1>2, <1>4, <1>6, <1>8, <1>9, ResponseIInv

\* The store is ordered by timestamp, and the timestamps are unique.
LEMMA LogOrdered ==
  ASSUME IInv
  PROVE  /\ Store!Ordered(log) /\ IsFiniteSet(log) /\ log \subseteq Events /\ log \subseteq added
         /\ \A e, f \in log : Precedes(e, f) => e.ts < f.ts
<1>1. /\ log \subseteq Events /\ log \subseteq added /\ IsFiniteSet(log)
      /\ \A e \in added : e.seq = e.ts
      /\ \A e, f \in added : e.seq = f.seq => e = f
  BY DEF IInv, TypeOK, LogInv
<1>2. \A e \in log : e.ts \in Nat /\ e.seq \in Nat /\ e.seq = e.ts
  BY <1>1 DEF Events
<1>3. QED BY <1>1, <1>2 DEF Store!Ordered, Store!DistinctSeq, Store!Precedes, Precedes

\* The first events a subscriber gets are those of the replay.
LEMMA ReplayIInv ==
  ASSUME IInv, NEW r \in Requests, Replay(r)
  PROVE  IInv'
<1> DEFINE new == IF last[r] = NoEvent THEN <<>> ELSE GetEventsSince(log, last[r])
<1>1. TypeOK /\ ResponseInv(r) /\ AnswerInv(r) /\ InboxInv(r) /\ ReplayIsOrderedTail
  BY DEF IInv
<1>2. /\ inbox' = [inbox EXCEPT ![r] = inbox[r] \o new]
      /\ async' = [async EXCEPT ![r].at = "add"]
      /\ async[r].at = "replay"
      /\ UNCHANGED <<create, loop, calls, answers, last, stored, log, clock, added, notify, agg>>
  BY DEF Replay, notifyVars
<1>3. inbox[r] = <<>>
  BY <1>1, <1>2 DEF InboxInv, Pending
<1>4. /\ new \in Seq(log) /\ Store!InOrder(new)
      /\ \A i \in 1 .. Len(new) : last[r] # NoEvent /\ new[i] \in Store!Since(log, last[r])
  <2>1. CASE last[r] = NoEvent
    <3>1. new = <<>> /\ Len(<<>>) = 0 /\ DOMAIN <<>> = {} /\ <<>> \in Seq(log)
      BY <2>1
    <3> HIDE DEF new
    <3>2. QED BY <3>1 DEF Store!InOrder, Store!Precedes, Precedes
  <2>2. CASE last[r] # NoEvent
    <3>1. new = GetEventsSince(log, last[r])
      BY <2>2
    <3> HIDE DEF new
    <3>2. /\ new \in Seq(log) /\ Store!InOrder(new)
          /\ Store!Since(log, last[r]) = {new[i] : i \in 1 .. Len(new)}
      BY <3>1, LogOrdered, SinceReturns
    <3>3. QED BY <2>2, <3>2
  <2>3. QED BY <2>1, <2>2
<1> HIDE DEF new
<1>5. /\ log \subseteq Events /\ log \subseteq added
      /\ \A e, f \in log : Precedes(e, f) => e.ts < f.ts
  BY LogOrdered
<1>6. new \in Seq(Events) /\ Len(new) \in Nat /\ DOMAIN new = 1 .. Len(new)
      /\ \A i \in 1 .. Len(new) : new[i] \in log
  BY <1>4, <1>5, SeqMonotonic, LenProperties, ElementOfSeq
<1>7. inbox' = [inbox EXCEPT ![r] = new]
  BY <1>2, <1>3, <1>6, ConcatEmptySeq
<1>8. /\ inbox'[r] = new /\ async'[r] = [async[r] EXCEPT !.at = "add"]
      /\ \A q \in Requests : q # r => inbox'[q] = inbox[q] /\ async'[q] = async[q]
  BY <1>1, <1>2, <1>7 DEF TypeOK
<1>9. TypeOK'
  <2>1. inbox' \in [Requests -> Seq(Events)]
    BY <1>1, <1>6, <1>7 DEF TypeOK
  <2>2. async' \in [Requests -> [pending : SUBSET Uris, status : Statuses,
                              origins : SUBSET (Sources \X Uris), at : {"idle", "replay", "add"}]]
    <3> DEFINE a == [async[r] EXCEPT !.at = "add"]
    <3>1. a \in [pending : SUBSET Uris, status : Statuses,
                 origins : SUBSET (Sources \X Uris), at : {"idle", "replay", "add"}]
      <4>1. async[r] \in [pending : SUBSET Uris, status : Statuses,
                          origins : SUBSET (Sources \X Uris), at : {"idle", "replay", "add"}]
        BY <1>1 DEF TypeOK
      <4>2. QED BY <4>1
    <3>2. async' = [async EXCEPT ![r] = a]
      BY <1>1, <1>2 DEF TypeOK
    <3> HIDE DEF a
    <3>3. QED BY <1>1, <3>1, <3>2 DEF TypeOK
  <2>3. QED BY <1>1, <1>2, <2>1, <2>2 DEF TypeOK
<1>10. /\ async'[r].at = "add" /\ async'[r].pending = async[r].pending
       /\ async'[r].status = async[r].status /\ async'[r].origins = async[r].origins
  BY <1>1, <1>8 DEF TypeOK
<1>11. ResponseInv(r)'
  BY <1>1, <1>2, <1>10 DEF ResponseInv, Subscribed
<1>12. AnswerInv(r)'
  BY <1>1, <1>2, <1>10 DEF AnswerInv, Undecided
<1>13. InboxInv(r)' /\ (Incomplete(r)' => Incomplete(r))
  <2>1. create[r] # "new" /\ async[r].pending = {}
    BY <1>1, <1>2 DEF ResponseInv
  <2>2. ~ Pending(r)' /\ Incomplete(r)
    BY <1>2, <1>10, <2>1 DEF Pending, Incomplete
  <2>3. QED BY <1>2, <1>5, <1>6, <1>8, <2>2 DEF InboxInv
<1>14. ReplayIsOrderedTail'
  <2>1. \A j \in DOMAIN new : new[j].sub # r =>
          /\ last[r] # NoEvent
          /\ new[j].sub = last[r][1] /\ new[j].ts > last[r][3]
          /\ \A i \in 1 .. j - 1 : new[i].sub # r /\ new[i].ts < new[j].ts
    <3> SUFFICES ASSUME NEW j \in 1 .. Len(new), new[j].sub # r
                 PROVE  /\ last[r] # NoEvent
                        /\ new[j].sub = last[r][1] /\ new[j].ts > last[r][3]
                        /\ \A i \in 1 .. j - 1 : new[i].sub # r /\ new[i].ts < new[j].ts
      BY <1>6
    <3>1. /\ last[r] # NoEvent /\ new[j] \in log /\ new[j].sub = last[r][1]
          /\ \E b \in log : RedfishEventId(b) = last[r] /\ Precedes(b, new[j])
      BY <1>4 DEF Store!Since, Store!Precedes, Precedes, Store!RedfishEventId, RedfishEventId
    <3>2. PICK b \in log : RedfishEventId(b) = last[r] /\ Precedes(b, new[j])
      BY <3>1
    <3>3. b.ts < new[j].ts /\ b.ts = last[r][3]
      BY <1>5, <3>1, <3>2 DEF RedfishEventId
    <3>4. new[j].ts > last[r][3]
      <4>1. new[j].ts \in Nat /\ b.ts \in Nat
        BY <1>5, <3>1, <3>2 DEF Events
      <4>2. QED BY <3>3, <4>1
    <3>5. ASSUME NEW i \in 1 .. j - 1
          PROVE  new[i].sub # r /\ new[i].ts < new[j].ts
      <4>1. i \in 1 .. Len(new) /\ i < j
        BY <1>6
      <4>2. new[i].sub = last[r][1]
        BY <1>4, <4>1 DEF Store!Since, Store!Precedes, Precedes, Store!RedfishEventId, RedfishEventId
      <4>3. Precedes(new[i], new[j])
        BY <1>4, <1>6, <4>1 DEF Store!InOrder, Store!Precedes, Precedes
      <4>4. QED BY <1>5, <1>6, <3>1, <4>1, <4>2, <4>3
    <3>6. QED BY <3>1, <3>4, <3>5
  <2>2. QED BY <1>1, <1>2, <1>8, <2>1 DEF ReplayIsOrderedTail
<1>15. QED BY <1>2, <1>8, <1>9, <1>11, <1>12, <1>13, <1>14, RequestStepIInv

LEMMA AddSubscriptionIInv ==
  ASSUME IInv, NEW r \in Requests, AddSubscription(r)
  PROVE  IInv'
<1> DEFINE a == [async[r] EXCEPT !.at = "idle"]
<1>1. /\ ResponseInv(r) /\ AnswerInv(r)
      /\ async[r] \in [pending : SUBSET Uris, status : Statuses,
                       origins : SUBSET (Sources \X Uris), at : {"idle", "replay", "add"}]
      /\ calls[r] \in SUBSET Uris /\ answers \in [Requests -> Seq(Statuses)]
      /\ stored \in SUBSET Requests
  BY ResponseBegins
<1>2. PICK s \in Statuses :
        /\ answers' = [answers EXCEPT ![r] = Append(answers[r], s)]
        /\ stored' = IF s = "ok" THEN stored \union {r} ELSE stored
  <2>1. CASE async[r].origins = {}
    BY <2>1 DEF AddSubscription, Answer, Statuses
  <2>2. CASE async[r].origins # {}
    BY <2>2 DEF AddSubscription, Answer, Statuses
  <2>3. QED BY <2>1, <2>2
<1>3. /\ async' = [async EXCEPT ![r] = a] /\ calls' = [calls EXCEPT ![r] = calls[r]]
      /\ UNCHANGED <<create, loop, last, inbox, log, clock, added, notify, agg>>
      /\ async[r].at = "add"
  BY ResponseBegins DEF AddSubscription, notifyVars
<1>4. /\ a.pending = async[r].pending /\ a.status = async[r].status /\ a.at = "idle"
      /\ a.origins = async[r].origins
      /\ a \in [pending : SUBSET Uris, status : Statuses,
                origins : SUBSET (Sources \X Uris), at : {"idle", "replay", "add"}]
  BY <1>1
<1> HIDE DEF a
<1>5. async'[r] = a /\ calls'[r] = calls[r] /\ answers'[r] = Append(answers[r], s)
  BY <1>1, <1>2, <1>3, ResponseBegins
<1>6. Append(answers[r], s) \in Seq(Statuses)
  BY <1>1, <1>2
<1>7. /\ create[r] # "new" /\ async[r].pending = {} /\ async[r].status = "ok"
      /\ \A u \in UrisOf[r] : Subscribed(r, u)
  BY <1>1, <1>3 DEF ResponseInv
<1>8. ResponseInv(r)'
  BY <1>1, <1>3, <1>4, <1>5, <1>7 DEF ResponseInv, Subscribed
<1>9. AnswerInv(r)'
  <2> SUFFICES ASSUME create[r] # "refused"
               PROVE  /\ ~ Undecided(r)' /\ Len(answers'[r]) <= 1
                      /\ r \in stored' => answers'[r] = <<"ok">>
    BY <1>3 DEF AnswerInv
  <2>1. answers[r] = <<>> /\ r \notin stored
    BY <1>1, <1>3 DEF AnswerInv, Undecided, ResponseInv
  <2>2. answers'[r] = <<s>>
    BY <1>5, <2>1
  <2>3. r \in stored' => s = "ok"
    BY <1>2, <2>1
  <2>4. ~ Undecided(r)'
    BY <1>3, <1>4, <1>5, <1>7 DEF Undecided
  <2>5. QED BY <2>2, <2>3, <2>4
<1>10. stored' \in SUBSET Requests /\ \A q \in stored' : q # r => q \in stored
  BY <1>1, <1>2
<1>11. QED
  BY <1>2, <1>3, <1>4, <1>5, <1>6, <1>7, <1>8, <1>9, <1>10, <1>1, ResponseIInv

LEMMA DeleteSubscriptionIInv ==
  ASSUME IInv, NEW r \in Requests, DeleteSubscription(r)
  PROVE  IInv'
<1>1. TypeOK /\ ResponseInv(r) /\ AnswerInv(r) /\ InboxInv(r) /\ ReplayIsOrderedTail
  BY DEF IInv
<1>2. /\ stored' = stored \ {r}
      /\ UNCHANGED <<create, loop, calls, async, answers, last, inbox, log, clock, added, notify, agg>>
  BY DEF DeleteSubscription, createVars, notifyVars
<1>3. TypeOK'
  BY <1>1, <1>2 DEF TypeOK
<1>4. ResponseInv(r)' /\ AnswerInv(r)' /\ (Incomplete(r)' => Incomplete(r))
  BY <1>1, <1>2, SameRequest, SameAnswers
<1>5. InboxInv(r)' /\ ReplayIsOrderedTail'
  BY <1>1, <1>2 DEF InboxInv, Pending, ReplayIsOrderedTail
<1>6. \A q \in Requests : q # r => (q \in stored' => q \in stored)
  BY <1>2
<1>7. QED BY <1>2, <1>3, <1>4, <1>5, <1>6, RequestStepIInv

-----------------------------------------------------------------------------
(* Notify and the event store.                                               *)

LEMMA ClearEventStoreIInv ==
  ASSUME IInv, ClearEventStore
  PROVE  IInv'
<1>1. /\ log' = {}
      /\ UNCHANGED <<create, loop, calls, async, answers, last, stored, inbox, clock, added, notify, agg>>
  BY DEF ClearEventStore, createVars, notifyVars
<1>2. TypeOK /\ LogInv /\ StampInv /\ ReplayIsOrderedTail
  BY DEF IInv
<1>3. TypeOK'
  BY <1>1, <1>2 DEF TypeOK
<1>4. LogInv'
  BY <1>1, <1>2, FS_EmptySet DEF LogInv
<1>5. \A q \in Requests : ResponseInv(q)' /\ AnswerInv(q)' /\ InboxInv(q)'
                          /\ (Incomplete(q)' <=> Incomplete(q))
  <2> TAKE q \in Requests
  <2>1. ResponseInv(q) /\ AnswerInv(q) /\ InboxInv(q) /\ added \subseteq added'
    BY <1>1 DEF IInv
  <2>2. ResponseInv(q)' /\ (Incomplete(q)' <=> Incomplete(q)) /\ (Pending(q)' <=> Pending(q))
    BY <1>1, <2>1, SameRequest
  <2>3. AnswerInv(q)' /\ InboxInv(q)'
    BY <1>1, <2>1, <2>2, SameAnswers, SameInbox
  <2>4. QED BY <2>2, <2>3
<1>6. \A m \in Notifs, q \in Requests : AggregateInv(m, q)'
  <2> TAKE m \in Notifs, q \in Requests
  <2>1. AggregateInv(m, q) /\ clock' \in Nat /\ clock' >= clock
    BY <1>1, <1>2 DEF IInv, TypeOK
  <2>2. QED BY <1>1, <1>2, <1>5, <2>1, SameAggregate
<1>7. StampInv' /\ ReplayIsOrderedTail'
  BY <1>1, <1>2 DEF StampInv, ReplayIsOrderedTail
<1>8. QED BY <1>3, <1>4, <1>5, <1>6, <1>7 DEF IInv

\* What is known of the aggregates of Notify call n.
LEMMA NotifyBegins ==
  ASSUME IInv, NEW n \in Notifs
  PROVE  /\ notify[n] \in [at : {"new", "loop", "ok", "error", "notfound"},
                           src : Sources \union {NoEvent}, todo : SUBSET Requests,
                           queries : SUBSET (Requests \X Uris)]
         /\ \A q \in Requests :
              /\ agg[<<n, q>>] \in [at : {"none", "waiting", "stamped", "stored", "dispatching", "done"},
                                    pending : SUBSET Uris, got : SUBSET Uris,
                                    calls : SUBSET Uris, ts : Nat]
              /\ AggregateInv(n, q)
BY DEF IInv, TypeOK

LEMMA NotifyTyped ==
  ASSUME IInv
  PROVE  /\ notify \in [Notifs -> [at : {"new", "loop", "ok", "error", "notfound"},
                                  src : Sources \union {NoEvent}, todo : SUBSET Requests,
                                  queries : SUBSET (Requests \X Uris)]]
         /\ agg \in [Notifs \X Requests ->
                      [at : {"none", "waiting", "stamped", "stored", "dispatching", "done"},
                       pending : SUBSET Uris, got : SUBSET Uris, calls : SUBSET Uris, ts : Nat]]
BY DEF IInv, TypeOK

\* A step that changes nothing but the loop of Notify call n.
LEMMA LoopIInv ==
  ASSUME IInv, NEW n \in Notifs,
         NEW f \in [at : {"new", "loop", "ok", "error", "notfound"},
                    src : Sources \union {NoEvent}, todo : SUBSET Requests,
                    queries : SUBSET (Requests \X Uris)],
         notify' = [notify EXCEPT ![n] = f],
         UNCHANGED <<createVars, stored, inbox, log, clock, added, agg>>,
         \A q \in Requests : AggregateInv(n, q)'
  PROVE  IInv'
<1>1. TypeOK /\ StampInv
  BY DEF IInv
<1>2. UNCHANGED <<create, loop, calls, async, answers, last, stored, inbox, log, clock, added, agg>>
  BY DEF createVars
<1>3. TypeOK'
  BY <1>1, <1>2 DEF TypeOK
<1>4. \A m \in Notifs : m # n => notify'[m] = notify[m] /\ \A q \in Requests : agg'[<<m, q>>] = agg[<<m, q>>]
  BY <1>1, <1>2 DEF TypeOK
<1>5. StampInv' /\ clock' >= clock
  BY <1>1, <1>2 DEF StampInv, TypeOK
<1>6. QED BY <1>2, <1>3, <1>4, <1>5, NotifyStepIInv

LEMMA NotifyBeginIInv ==
  ASSUME IInv, NEW n \in Notifs, NEW src \in Sources, NotifyBegin(n, src)
  PROVE  IInv'
<1> DEFINE contexts == {r \in stored : UrisAt(r, src) # {}}
           at == IF contexts = {} THEN "notfound" ELSE "loop"
           f == [at |-> at, src |-> src, todo |-> contexts, queries |-> {}]
<1>1. /\ notify[n].at = "new" /\ notify' = [notify EXCEPT ![n] = f]
      /\ UNCHANGED <<createVars, stored, inbox, log, clock, added, agg>>
  BY DEF NotifyBegin
<1>2. at \in {"notfound", "loop"} /\ contexts \in SUBSET Requests /\ contexts \subseteq stored
  BY DEF IInv, TypeOK
<1> HIDE DEF at, contexts
<1>3. /\ f \in [at : {"new", "loop", "ok", "error", "notfound"},
                src : Sources \union {NoEvent}, todo : SUBSET Requests,
                queries : SUBSET (Requests \X Uris)]
      /\ f.at # "new" /\ f.src = src /\ f.todo = contexts /\ f.queries = {}
  BY <1>2
<1> HIDE DEF f
<1>4. notify'[n] = f
  BY <1>1 DEF IInv, TypeOK
<1>5. \A q \in Requests : AggregateInv(n, q)'
  <2> TAKE q \in Requests
  <2>1. agg[<<n, q>>] = NoAgg /\ agg'[<<n, q>>] = NoAgg
    BY <1>1, NotifyBegins DEF AggregateInv
  <2>2. Incomplete(q)' => q \notin contexts
    <3>1. Incomplete(q)' <=> Incomplete(q)
      BY <1>1 DEF createVars, Incomplete, Pending
    <3>2. q \in stored => ~ Incomplete(q)
      BY DEF IInv, ResponseInv, Incomplete, Pending
    <3>3. QED BY <1>2, <3>1, <3>2
  <2>3. QED BY <1>3, <1>4, <2>1, <2>2 DEF AggregateInv, NoAgg, Handling
<1>6. QED BY <1>1, <1>3, <1>5, LoopIInv

LEMMA NotifyReturnsIInv ==
  ASSUME IInv, NEW n \in Notifs, NotifyReturns(n)
  PROVE  IInv'
<1> DEFINE f == [notify[n] EXCEPT !.at = "ok"]
<1>1. /\ notify[n].at = "loop" /\ notify' = [notify EXCEPT ![n] = f]
      /\ UNCHANGED <<createVars, stored, inbox, log, clock, added, agg>>
  BY DEF NotifyReturns, IInv, TypeOK
<1>2. /\ f \in [at : {"new", "loop", "ok", "error", "notfound"},
                src : Sources \union {NoEvent}, todo : SUBSET Requests,
                queries : SUBSET (Requests \X Uris)]
      /\ f.at # "new" /\ f.src = notify[n].src /\ f.todo = notify[n].todo
      /\ f.queries = notify[n].queries
  BY NotifyBegins
<1> HIDE DEF f
<1>3. notify'[n] = f
  BY <1>1 DEF IInv, TypeOK
<1>4. \A q \in Requests : AggregateInv(n, q)'
  <2> TAKE q \in Requests
  <2>1. AggregateInv(n, q) /\ (Incomplete(q)' <=> Incomplete(q))
    BY <1>1, NotifyBegins DEF createVars, Incomplete, Pending
  <2>2. /\ agg'[<<n, q>>] = agg[<<n, q>>] /\ added' = added /\ clock' = clock
        /\ EventOf(n, q)' = EventOf(n, q) /\ (Handling(n, q)' <=> Handling(n, q))
    BY <1>1, <1>2, <1>3, <2>1 DEF EventOf, Handling
  <2>3. QED BY <1>1, <1>2, <1>3, <2>1, <2>2 DEF AggregateInv
<1>5. QED BY <1>1, <1>2, <1>4, LoopIInv

LEMMA QueryRefusedIInv ==
  ASSUME IInv, NEW n \in Notifs, NEW r \in Requests, NEW u \in Uris, QueryRefused(n, r, u)
  PROVE  IInv'
<1> DEFINE f == [notify[n] EXCEPT !.at = "error", !.todo = {}, !.queries = {}]
<1>1. /\ <<r, u>> \in notify[n].queries /\ notify' = [notify EXCEPT ![n] = f]
      /\ UNCHANGED <<createVars, stored, inbox, log, clock, added, agg>>
  BY DEF QueryRefused, IInv, TypeOK
<1>2. notify[n].at # "new"
  BY <1>1, NotifyBegins DEF AggregateInv
<1>3. /\ f \in [at : {"new", "loop", "ok", "error", "notfound"},
                src : Sources \union {NoEvent}, todo : SUBSET Requests,
                queries : SUBSET (Requests \X Uris)]
      /\ f.at # "new" /\ f.src = notify[n].src /\ f.todo = {} /\ f.queries = {}
  BY NotifyBegins
<1> HIDE DEF f
<1>4. notify'[n] = f
  BY <1>1 DEF IInv, TypeOK
<1>5. \A q \in Requests : AggregateInv(n, q)'
  <2> TAKE q \in Requests
  <2>1. AggregateInv(n, q) /\ (Incomplete(q)' <=> Incomplete(q))
    BY <1>1, NotifyBegins DEF createVars, Incomplete, Pending
  <2>2. /\ agg'[<<n, q>>] = agg[<<n, q>>] /\ added' = added /\ clock' = clock
        /\ EventOf(n, q)' = EventOf(n, q) /\ (Handling(n, q)' <=> Handling(n, q))
    BY <1>1, <1>2, <1>3, <1>4, <2>1 DEF EventOf, Handling
  <2>3. QED BY <1>1, <1>2, <1>3, <1>4, <2>1, <2>2 DEF AggregateInv
<1>6. QED BY <1>1, <1>3, <1>5, LoopIInv

\* A step that changes the aggregate of Notify call n and request r to g.
LEMMA AggregateIInv ==
  ASSUME IInv, NEW n \in Notifs, NEW r \in Requests,
         NEW g \in [at : {"none", "waiting", "stamped", "stored", "dispatching", "done"},
                    pending : SUBSET Uris, got : SUBSET Uris, calls : SUBSET Uris, ts : Nat],
         NEW f \in [at : {"new", "loop", "ok", "error", "notfound"},
                    src : Sources \union {NoEvent}, todo : SUBSET Requests,
                    queries : SUBSET (Requests \X Uris)],
         agg' = [agg EXCEPT ![<<n, r>>] = g], notify' = [notify EXCEPT ![n] = f],
         f.at = notify[n].at, f.src = notify[n].src, f.todo \subseteq notify[n].todo,
         \A q \in Requests, u \in Uris : q # r /\ <<q, u>> \in f.queries =>
           <<q, u>> \in notify[n].queries,
         UNCHANGED <<createVars, stored, inbox, log, added>>,
         clock' \in Nat, clock' >= clock,
         AggregateInv(n, r)',
         g.at = "stamped" =>
           \A m \in Notifs, q \in Requests :
             <<m, q>> # <<n, r>> /\ agg[<<m, q>>].at = "stamped" => agg[<<m, q>>].ts # g.ts
  PROVE  IInv'
<1>1. TypeOK /\ StampInv
  BY DEF IInv
<1>2. UNCHANGED <<create, loop, calls, async, answers, last, stored, inbox, log, added>>
  BY DEF createVars
<1>3. /\ agg'[<<n, r>>] = g /\ notify'[n] = f
      /\ \A m \in Notifs, q \in Requests : <<m, q>> # <<n, r>> => agg'[<<m, q>>] = agg[<<m, q>>]
      /\ \A m \in Notifs : m # n => notify'[m] = notify[m]
  BY <1>1 DEF TypeOK
<1>4. TypeOK'
  BY <1>1, <1>2 DEF TypeOK
<1>5. ASSUME NEW q \in Requests, q # r PROVE AggregateInv(n, q)'
  <2>1. AggregateInv(n, q) /\ (Incomplete(q)' <=> Incomplete(q))
    BY <1>2, NotifyBegins DEF Incomplete, Pending
  <2>2. /\ agg'[<<n, q>>] = agg[<<n, q>>] /\ added' = added
        /\ EventOf(n, q)' = EventOf(n, q) /\ (Handling(n, q)' <=> Handling(n, q))
    BY <1>2, <1>3, <1>5 DEF EventOf, Handling
  <2>3. agg[<<n, q>>].ts < clock => agg[<<n, q>>].ts < clock'
    BY <1>1 DEF TypeOK
  <2>4. /\ notify'[n].at = notify[n].at /\ notify'[n].src = notify[n].src
        /\ notify'[n].todo \subseteq notify[n].todo
        /\ \A u \in Uris : <<q, u>> \in notify'[n].queries => <<q, u>> \in notify[n].queries
        /\ notify[n].at = "new" => notify'[n].queries = {}
    <3>1. notify[n].at = "new" => f.queries = {}
      <4>1. notify[n].at = "new" => \A p \in Requests, u \in Uris : <<p, u>> \notin f.queries
        <5> SUFFICES ASSUME notify[n].at = "new", NEW p \in Requests, NEW u \in Uris
                     PROVE  <<p, u>> \notin f.queries
          OBVIOUS
        <5>1. p = r => <<p, u>> \notin f.queries
          <6>1. notify'[n].at = "new"
            BY <1>3
          <6>2. QED BY <1>3, <6>1 DEF AggregateInv
        <5>2. p # r => <<p, u>> \notin f.queries
          BY NotifyBegins DEF AggregateInv
        <5>3. QED BY <5>1, <5>2
      <4>2. f.queries \subseteq Requests \X Uris
        OBVIOUS
      <4>3. QED BY <4>1, <4>2
    <3>2. QED BY <1>3, <1>5, <3>1
  <2>5. QED BY <2>1, <2>2, <2>3, <2>4 DEF AggregateInv
<1>6. \A q \in Requests : AggregateInv(n, q)'
  BY <1>5
<1>7. StampInv'
  BY <1>1, <1>3 DEF StampInv
<1>8. \A m \in Notifs : m # n => notify'[m] = notify[m] /\ \A q \in Requests : agg'[<<m, q>>] = agg[<<m, q>>]
  BY <1>3
<1>9. QED BY <1>2, <1>4, <1>6, <1>7, <1>8, NotifyStepIInv

LEMMA NotifyContextIInv ==
  ASSUME IInv, NEW n \in Notifs, NEW r \in Requests, NotifyContext(n, r)
  PROVE  IInv'
<1> DEFINE uris == UrisAt(r, notify[n].src)
           g == [NoAgg EXCEPT !.at = "waiting", !.pending = uris]
           f == [notify[n] EXCEPT !.todo = @ \ {r}, !.queries = {r} \X uris]
<1>1. /\ notify[n].at = "loop" /\ r \in notify[n].todo
      /\ agg' = [agg EXCEPT ![<<n, r>>] = g] /\ notify' = [notify EXCEPT ![n] = f]
      /\ UNCHANGED <<createVars, stored, inbox, log, clock, added>>
  BY NotifyTyped DEF NotifyContext
<1>2. notify[n] \in [at : {"new", "loop", "ok", "error", "notfound"},
                     src : Sources \union {NoEvent}, todo : SUBSET Requests,
                     queries : SUBSET (Requests \X Uris)]
      /\ AggregateInv(n, r)
  BY NotifyBegins
<1>3. uris \in SUBSET Uris /\ uris \subseteq Owned(r, notify[n].src)
  <2>1. async[r].origins \subseteq {x \in Sources \X Uris : x[2] \in UrisOf[r] /\ x[1] \in SourcesOfUri[x[2]]}
    BY DEF IInv, ResponseInv
  <2>2. QED BY <2>1 DEF UrisAt, Owned
<1> HIDE DEF uris
<1>4. /\ g \in [at : {"none", "waiting", "stamped", "stored", "dispatching", "done"},
                pending : SUBSET Uris, got : SUBSET Uris, calls : SUBSET Uris, ts : Nat]
      /\ g.at = "waiting" /\ g.pending = uris /\ g.got = {} /\ g.calls = {}
  BY <1>3 DEF NoAgg
<1>5. /\ f \in [at : {"new", "loop", "ok", "error", "notfound"},
                src : Sources \union {NoEvent}, todo : SUBSET Requests,
                queries : SUBSET (Requests \X Uris)]
      /\ f.at = "loop" /\ f.src = notify[n].src /\ f.todo = notify[n].todo \ {r}
      /\ f.queries = {r} \X uris
  BY <1>1, <1>2, <1>3
<1> HIDE DEF f, g
<1>6. agg'[<<n, r>>] = g /\ notify'[n] = f
  BY <1>1 DEF IInv, TypeOK
<1>7. AggregateInv(n, r)'
  <2>1. ~ Incomplete(r)' /\ notify[n].src \in Sources
    <3>1. Incomplete(r)' <=> Incomplete(r)
      BY <1>1 DEF createVars, Incomplete, Pending
    <3>2. QED BY <1>1, <1>2, <3>1 DEF AggregateInv
  <2>2. \A u \in Uris : <<r, u>> \in f.queries => u \in uris
    BY <1>5
  <2>3. ~ Handling(n, r)'
    BY <1>4, <1>6 DEF Handling
  <2>4. QED BY <1>3, <1>4, <1>5, <1>6, <2>1, <2>2, <2>3 DEF AggregateInv
<1>8. clock' \in Nat /\ clock' >= clock
  BY <1>1 DEF IInv, TypeOK
<1>9. QED BY <1>1, <1>4, <1>5, <1>7, <1>8, AggregateIInv

LEMMA QueryAcceptedIInv ==
  ASSUME IInv, NEW n \in Notifs, NEW r \in Requests, NEW u \in Uris, QueryAccepted(n, r, u)
  PROVE  IInv'
<1> DEFINE g == [agg[<<n, r>>] EXCEPT !.calls = @ \union {u}]
           f == [notify[n] EXCEPT !.queries = @ \ {<<r, u>>}]
<1>1. /\ <<r, u>> \in notify[n].queries
      /\ agg' = [agg EXCEPT ![<<n, r>>] = g] /\ notify' = [notify EXCEPT ![n] = f]
      /\ UNCHANGED <<createVars, stored, inbox, log, clock, added>>
  BY DEF QueryAccepted, IInv, TypeOK
<1>2. /\ notify[n] \in [at : {"new", "loop", "ok", "error", "notfound"},
                     src : Sources \union {NoEvent}, todo : SUBSET Requests,
                     queries : SUBSET (Requests \X Uris)]
      /\ agg[<<n, r>>] \in [at : {"none", "waiting", "stamped", "stored", "dispatching", "done"},
                            pending : SUBSET Uris, got : SUBSET Uris, calls : SUBSET Uris, ts : Nat]
      /\ AggregateInv(n, r)
  BY NotifyBegins
<1>3. /\ g \in [at : {"none", "waiting", "stamped", "stored", "dispatching", "done"},
                pending : SUBSET Uris, got : SUBSET Uris, calls : SUBSET Uris, ts : Nat]
      /\ g.at = agg[<<n, r>>].at /\ g.pending = agg[<<n, r>>].pending /\ g.got = agg[<<n, r>>].got
      /\ g.calls = agg[<<n, r>>].calls \union {u} /\ g.ts = agg[<<n, r>>].ts
  BY <1>2
<1>4. /\ f \in [at : {"new", "loop", "ok", "error", "notfound"},
                src : Sources \union {NoEvent}, todo : SUBSET Requests,
                queries : SUBSET (Requests \X Uris)]
      /\ f.at = notify[n].at /\ f.src = notify[n].src /\ f.todo = notify[n].todo
      /\ f.queries = notify[n].queries \ {<<r, u>>}
  BY <1>2
<1> HIDE DEF f, g
<1>5. agg'[<<n, r>>] = g /\ notify'[n] = f
  BY <1>1 DEF IInv, TypeOK
<1>6. agg[<<n, r>>].at = "waiting" /\ u \in agg[<<n, r>>].pending /\ notify[n].at # "new"
  BY <1>1, <1>2 DEF AggregateInv
<1>7. AggregateInv(n, r)'
  <2>1. Incomplete(r)' <=> Incomplete(r)
    BY <1>1 DEF createVars, Incomplete, Pending
  <2>2. ~ Handling(n, r)'
    BY <1>3, <1>5, <1>6 DEF Handling
  <2>3. \A w \in Uris : <<r, w>> \in f.queries => g.at = "waiting" /\ w \in g.pending \ g.calls
    BY <1>2, <1>3, <1>4 DEF AggregateInv
  <2>4. QED BY <1>2, <1>3, <1>4, <1>5, <1>6, <2>1, <2>2, <2>3 DEF AggregateInv
<1>8. clock' \in Nat /\ clock' >= clock
  BY <1>1 DEF IInv, TypeOK
<1>9. QED BY <1>1, <1>3, <1>4, <1>6, <1>7, <1>8, AggregateIInv

LEMMA QueryFailedIInv ==
  ASSUME IInv, NEW n \in Notifs, NEW r \in Requests, NEW u \in Uris, QueryFailed(n, r, u)
  PROVE  IInv'
<1> DEFINE g == [agg[<<n, r>>] EXCEPT !.calls = @ \ {u}, !.pending = @ \ {u}]
           f == notify[n]
<1>1. /\ u \in agg[<<n, r>>].calls
      /\ agg' = [agg EXCEPT ![<<n, r>>] = g] /\ notify' = [notify EXCEPT ![n] = f]
      /\ UNCHANGED <<createVars, stored, inbox, log, clock, added>>
  BY NotifyTyped DEF QueryFailed
<1>2. /\ f \in [at : {"new", "loop", "ok", "error", "notfound"},
                src : Sources \union {NoEvent}, todo : SUBSET Requests,
                queries : SUBSET (Requests \X Uris)]
      /\ agg[<<n, r>>] \in [at : {"none", "waiting", "stamped", "stored", "dispatching", "done"},
                            pending : SUBSET Uris, got : SUBSET Uris, calls : SUBSET Uris, ts : Nat]
      /\ AggregateInv(n, r)
  BY NotifyBegins
<1>3. /\ g \in [at : {"none", "waiting", "stamped", "stored", "dispatching", "done"},
                pending : SUBSET Uris, got : SUBSET Uris, calls : SUBSET Uris, ts : Nat]
      /\ g.at = agg[<<n, r>>].at /\ g.pending = agg[<<n, r>>].pending \ {u}
      /\ g.got = agg[<<n, r>>].got /\ g.calls = agg[<<n, r>>].calls \ {u}
  BY <1>2
<1> HIDE DEF g
<1>4. agg'[<<n, r>>] = g /\ notify'[n] = notify[n]
  BY <1>1 DEF IInv, TypeOK
<1>5. agg[<<n, r>>].at = "waiting" /\ notify[n].at # "new"
  BY <1>1, <1>2 DEF AggregateInv, NoAgg
<1>6. AggregateInv(n, r)'
  <2>1. Incomplete(r)' <=> Incomplete(r)
    BY <1>1 DEF createVars, Incomplete, Pending
  <2>2. ~ Handling(n, r)'
    BY <1>3, <1>4, <1>5 DEF Handling
  <2>3. \A w \in Uris : <<r, w>> \in notify[n].queries => g.at = "waiting" /\ w \in g.pending \ g.calls
    BY <1>1, <1>2, <1>3 DEF AggregateInv
  <2>4. QED BY <1>2, <1>3, <1>4, <1>5, <2>1, <2>2, <2>3 DEF AggregateInv
<1>7. clock' \in Nat /\ clock' >= clock
  BY <1>1 DEF IInv, TypeOK
<1>8. QED BY <1>1, <1>2, <1>3, <1>5, <1>6, <1>7, AggregateIInv

\* The last answer stamps the batch with a time nobody else has.
LEMMA QueryAnsweredIInv ==
  ASSUME IInv, NEW n \in Notifs, NEW r \in Requests, NEW u \in Uris, QueryAnswered(n, r, u)
  PROVE  IInv'
<1> DEFINE o == agg[<<n, r>>]
           complete == o.pending = {u}
           got == o.got \union {u}
           at == IF ~ complete THEN "waiting"
                 ELSE IF got \cap EventUrisOf[r] = {} THEN "done" ELSE "stamped"
           ts == IF complete THEN clock ELSE 0
           g == [at |-> at, pending |-> o.pending \ {u}, calls |-> o.calls \ {u}, got |-> got, ts |-> ts]
           f == notify[n]
<1>1. /\ u \in o.calls
      /\ agg' = [agg EXCEPT ![<<n, r>>] = g] /\ notify' = [notify EXCEPT ![n] = f]
      /\ clock' = IF complete THEN clock + 1 ELSE clock
      /\ UNCHANGED <<createVars, stored, inbox, log, added>>
  BY DEF QueryAnswered, IInv, TypeOK
<1>2. /\ f \in [at : {"new", "loop", "ok", "error", "notfound"},
                src : Sources \union {NoEvent}, todo : SUBSET Requests,
                queries : SUBSET (Requests \X Uris)]
      /\ o \in [at : {"none", "waiting", "stamped", "stored", "dispatching", "done"},
                pending : SUBSET Uris, got : SUBSET Uris, calls : SUBSET Uris, ts : Nat]
      /\ AggregateInv(n, r) /\ clock \in Nat
  BY NotifyBegins DEF IInv, TypeOK
<1>3. /\ at \in {"waiting", "done", "stamped"} /\ ts \in Nat
      /\ at # "waiting" => complete
      /\ at = "stamped" => got \cap EventUrisOf[r] # {} /\ ts = clock /\ clock' = clock + 1
      /\ clock' \in Nat /\ clock' >= clock
  <2>1. CASE complete
    BY <1>1, <1>2, <2>1
  <2>2. CASE ~ complete
    BY <1>1, <1>2, <2>2
  <2>3. QED BY <2>1, <2>2
<1> HIDE DEF at, ts
<1>4. /\ g \in [at : {"none", "waiting", "stamped", "stored", "dispatching", "done"},
                pending : SUBSET Uris, got : SUBSET Uris, calls : SUBSET Uris, ts : Nat]
      /\ g.at = at /\ g.pending = o.pending \ {u} /\ g.got = got /\ g.calls = o.calls \ {u}
      /\ g.ts = ts
  BY <1>2, <1>3
<1> HIDE DEF g, got
<1>5. agg'[<<n, r>>] = g /\ notify'[n] = notify[n]
  BY <1>1 DEF IInv, TypeOK
<1>6. o.at = "waiting" /\ notify[n].at # "new" /\ u \in o.pending
  BY <1>1, <1>2 DEF AggregateInv, NoAgg
<1>7. AggregateInv(n, r)'
  <2>1. Incomplete(r)' <=> Incomplete(r)
    BY <1>1 DEF createVars, Incomplete, Pending
  <2>2. Handling(n, r)' => at = "stamped"
    BY <1>3, <1>4, <1>5 DEF Handling
  <2>3. \A w \in Uris : <<r, w>> \in notify[n].queries => g.at = "waiting" /\ w \in g.pending \ g.calls
    BY <1>1, <1>2, <1>3, <1>4 DEF AggregateInv
  <2>4. g.calls # {} => at = "waiting"
    BY <1>2, <1>3, <1>4 DEF AggregateInv
  <2>5. g.pending \union g.got \subseteq Owned(r, notify[n].src) /\ g.calls \subseteq g.pending
    BY <1>2, <1>4, <1>6 DEF AggregateInv, got
  <2>6. at = "stamped" => ts < clock' /\ \A e \in added' : e.ts # ts
    <3> SUFFICES ASSUME at = "stamped" PROVE ts < clock' /\ \A e \in added : e.ts # ts
      BY <1>1
    <3>1. \A e \in added : e.ts < clock /\ e.ts \in Nat
      BY DEF IInv, LogInv, TypeOK, Events
    <3>2. QED BY <1>2, <1>3, <3>1
  <2>7. at = "stamped" => g.got \cap EventUrisOf[r] # {}
    BY <1>3, <1>4
  <2>8. r \notin notify[n].todo /\ ~ Incomplete(r) /\ notify[n].src \in Sources
    BY <1>2, <1>6 DEF AggregateInv
  <2>9. QED BY <1>3, <1>4, <1>5, <1>6, <2>1, <2>2, <2>3, <2>4, <2>5, <2>6, <2>7, <2>8 DEF AggregateInv
<1>8. g.at = "stamped" =>
        \A m \in Notifs, q \in Requests :
          <<m, q>> # <<n, r>> /\ agg[<<m, q>>].at = "stamped" => agg[<<m, q>>].ts # g.ts
  <2> SUFFICES ASSUME g.at = "stamped", NEW m \in Notifs, NEW q \in Requests,
                      agg[<<m, q>>].at = "stamped"
               PROVE  agg[<<m, q>>].ts # g.ts
    OBVIOUS
  <2>1. agg[<<m, q>>].ts < clock /\ agg[<<m, q>>].ts \in Nat
    BY DEF IInv, AggregateInv, TypeOK
  <2>2. QED BY <1>2, <1>3, <1>4, <2>1
<1>9. QED BY <1>1, <1>2, <1>3, <1>4, <1>7, <1>8, AggregateIInv

LEMMA DispatchEndIInv ==
  ASSUME IInv, NEW n \in Notifs, NEW r \in Requests, DispatchEnd(n, r)
  PROVE  IInv'
<1> DEFINE g == [agg[<<n, r>>] EXCEPT !.at = "done"]
           f == notify[n]
<1>1. /\ agg[<<n, r>>].at = "dispatching"
      /\ agg' = [agg EXCEPT ![<<n, r>>] = g] /\ notify' = [notify EXCEPT ![n] = f]
      /\ UNCHANGED <<createVars, stored, inbox, log, clock, added>>
  BY DEF DispatchEnd, IInv, TypeOK
<1>2. /\ f \in [at : {"new", "loop", "ok", "error", "notfound"},
                src : Sources \union {NoEvent}, todo : SUBSET Requests,
                queries : SUBSET (Requests \X Uris)]
      /\ agg[<<n, r>>] \in [at : {"none", "waiting", "stamped", "stored", "dispatching", "done"},
                            pending : SUBSET Uris, got : SUBSET Uris, calls : SUBSET Uris, ts : Nat]
      /\ AggregateInv(n, r)
  BY NotifyBegins
<1>3. /\ g \in [at : {"none", "waiting", "stamped", "stored", "dispatching", "done"},
                pending : SUBSET Uris, got : SUBSET Uris, calls : SUBSET Uris, ts : Nat]
      /\ g.at = "done" /\ g.pending = agg[<<n, r>>].pending
      /\ g.got = agg[<<n, r>>].got /\ g.calls = agg[<<n, r>>].calls
  BY <1>2
<1> HIDE DEF g
<1>4. agg'[<<n, r>>] = g /\ notify'[n] = notify[n]
  BY <1>1 DEF IInv, TypeOK
<1>5. AggregateInv(n, r)'
  <2>1. Incomplete(r)' <=> Incomplete(r)
    BY <1>1 DEF createVars, Incomplete, Pending
  <2>2. ~ Handling(n, r)'
    BY <1>3, <1>4 DEF Handling
  <2>3. notify[n].at # "new"
    BY <1>1, <1>2 DEF AggregateInv, NoAgg
  <2>4. QED BY <1>1, <1>2, <1>3, <1>4, <2>1, <2>2, <2>3 DEF AggregateInv
<1>6. clock' \in Nat /\ clock' >= clock
  BY <1>1 DEF IInv, TypeOK
<1>7. QED BY <1>1, <1>2, <1>3, <1>5, <1>6, AggregateIInv

\* An aggregate that is being handled yields an event of its own source.
LEMMA EventIsOwn ==
  ASSUME IInv, NEW n \in Notifs, NEW r \in Requests, Handling(n, r)
  PROVE  LET e == EventOf(n, r)
         IN  /\ e \in Events /\ e.sub = r /\ e.seq = e.ts /\ e.ts = agg[<<n, r>>].ts
             /\ e.uris # {} /\ e.uris \subseteq Owned(r, e.src)
<1> DEFINE e == EventOf(n, r)
           g == agg[<<n, r>>]
<1>1. /\ g \in [at : {"none", "waiting", "stamped", "stored", "dispatching", "done"},
                pending : SUBSET Uris, got : SUBSET Uris, calls : SUBSET Uris, ts : Nat]
      /\ g.got \subseteq Owned(r, notify[n].src) /\ g.got \cap EventUrisOf[r] # {}
      /\ notify[n].src \in Sources
  <2>1. /\ AggregateInv(n, r)
        /\ g \in [at : {"none", "waiting", "stamped", "stored", "dispatching", "done"},
                  pending : SUBSET Uris, got : SUBSET Uris, calls : SUBSET Uris, ts : Nat]
    BY NotifyBegins
  <2>2. g.at # "none"
    BY DEF Handling
  <2>3. notify[n].at # "new"
    BY <2>1, <2>2 DEF AggregateInv, NoAgg
  <2>4. g.got \subseteq Owned(r, notify[n].src)
    BY <2>1 DEF AggregateInv
  <2>5. g.got \cap EventUrisOf[r] # {} /\ notify[n].src \in Sources
    BY <2>1, <2>3 DEF AggregateInv
  <2>6. QED BY <2>1, <2>4, <2>5
<1>2. /\ e.sub = r /\ e.src = notify[n].src /\ e.ts = g.ts /\ e.seq = g.ts
      /\ e.uris = g.got \cap EventUrisOf[r]
      /\ e = [sub |-> r, src |-> notify[n].src, ts |-> g.ts, seq |-> g.ts,
              uris |-> g.got \cap EventUrisOf[r]]
  BY DEF EventOf
<1>3. e \in Events
  BY <1>1, <1>2 DEF Events
<1> HIDE DEF e, g
<1>4. QED BY <1>1, <1>2, <1>3 DEF e, g

LEMMA StoreEventIInv ==
  ASSUME IInv, NEW n \in Notifs, NEW r \in Requests, StoreEvent(n, r)
  PROVE  IInv'
<1> DEFINE e == EventOf(n, r)
           g == [agg[<<n, r>>] EXCEPT !.at = "stored"]
<1>1. /\ agg[<<n, r>>].at = "stamped"
      /\ log' = Insert(log, StoreSize, e) /\ added' = added \union {e}
      /\ agg' = [agg EXCEPT ![<<n, r>>] = g]
      /\ UNCHANGED <<create, loop, calls, async, answers, last, stored, inbox, clock, notify>>
  BY NotifyTyped DEF StoreEvent, createVars
<1>2. /\ e \in Events /\ e.sub = r /\ e.seq = e.ts /\ e.ts = agg[<<n, r>>].ts
      /\ e.uris # {} /\ e.uris \subseteq Owned(r, e.src)
  BY <1>1, EventIsOwn DEF Handling
<1>3. /\ TypeOK /\ LogInv /\ StampInv /\ ReplayIsOrderedTail /\ clock \in Nat
      /\ AggregateInv(n, r)
      /\ agg[<<n, r>>] \in [at : {"none", "waiting", "stamped", "stored", "dispatching", "done"},
                            pending : SUBSET Uris, got : SUBSET Uris, calls : SUBSET Uris, ts : Nat]
  BY NotifyBegins DEF IInv, TypeOK
<1>4. /\ g \in [at : {"none", "waiting", "stamped", "stored", "dispatching", "done"},
                pending : SUBSET Uris, got : SUBSET Uris, calls : SUBSET Uris, ts : Nat]
      /\ g.at = "stored" /\ g.pending = agg[<<n, r>>].pending /\ g.got = agg[<<n, r>>].got
      /\ g.calls = agg[<<n, r>>].calls /\ g.ts = agg[<<n, r>>].ts
  BY <1>3
<1> HIDE DEF g
<1>5. /\ agg'[<<n, r>>] = g
      /\ \A m \in Notifs, q \in Requests : <<m, q>> # <<n, r>> => agg'[<<m, q>>] = agg[<<m, q>>]
  BY <1>1, <1>3 DEF TypeOK
<1>6. EventOf(n, r)' = e
  BY <1>1, <1>4, <1>5 DEF EventOf
<1> HIDE DEF e
<1>7. log' \subseteq log \union {e} /\ IsFiniteSet(log')
  <2>1. IsFiniteSet(log) /\ IsFiniteSet(log \ {Oldest(log)})
    BY <1>3, FS_RemoveElement DEF LogInv
  <2>2. CASE Cardinality(log) = StoreSize
    BY <1>1, <2>1, <2>2, FS_AddElement DEF Insert
  <2>3. CASE Cardinality(log) # StoreSize
    BY <1>1, <2>1, <2>3, FS_AddElement DEF Insert
  <2>4. QED BY <2>2, <2>3
<1>8. TypeOK'
  <2>1. log' \subseteq Events /\ added' \subseteq Events
    BY <1>1, <1>2, <1>3, <1>7 DEF TypeOK
  <2>2. agg' \in [Notifs \X Requests ->
                      [at : {"none", "waiting", "stamped", "stored", "dispatching", "done"},
                       pending : SUBSET Uris, got : SUBSET Uris, calls : SUBSET Uris, ts : Nat]]
    BY <1>1, <1>4, NotifyTyped
  <2>3. QED BY <1>1, <1>3, <2>1, <2>2 DEF TypeOK
<1>9. \A x \in added : x.ts # e.ts /\ x.seq # e.seq
  BY <1>1, <1>2, <1>3 DEF AggregateInv, LogInv
<1>10. LogInv'
  <2>1. e.ts < clock
    BY <1>1, <1>2, <1>3 DEF AggregateInv
  <2>2. log' \subseteq added' /\ \A x \in added' : x.seq = x.ts /\ x.ts < clock
    BY <1>1, <1>2, <1>3, <1>7, <2>1 DEF LogInv
  <2>3. \A x, y \in added' : x.seq = y.seq => x = y
    BY <1>1, <1>3, <1>9 DEF LogInv
  <2>4. \A x \in added' : x.uris # {} /\ x.uris \subseteq Owned(x.sub, x.src)
    BY <1>1, <1>2, <1>3 DEF LogInv
  <2>5. QED BY <1>1, <1>7, <2>2, <2>3, <2>4 DEF LogInv
<1>11. StampInv'
  BY <1>3, <1>4, <1>5 DEF StampInv
<1>12. \A q \in Requests : ResponseInv(q)' /\ AnswerInv(q)' /\ InboxInv(q)'
                           /\ (Incomplete(q)' <=> Incomplete(q))
  <2> TAKE q \in Requests
  <2>1. ResponseInv(q) /\ AnswerInv(q) /\ InboxInv(q) /\ added \subseteq added'
    BY <1>1 DEF IInv
  <2>2. ResponseInv(q)' /\ (Incomplete(q)' <=> Incomplete(q)) /\ (Pending(q)' <=> Pending(q))
    BY <1>1, <2>1, SameRequest
  <2>3. AnswerInv(q)' /\ InboxInv(q)'
    BY <1>1, <2>1, <2>2, SameAnswers, SameInbox
  <2>4. QED BY <2>2, <2>3
<1>13. ASSUME NEW m \in Notifs, NEW q \in Requests PROVE AggregateInv(m, q)'
  <2>1. AggregateInv(m, q) /\ (Incomplete(q)' <=> Incomplete(q))
    BY <1>12 DEF IInv
  <2>2. CASE <<m, q>> = <<n, r>>
    <3>1. m = n /\ q = r
      BY <2>2
    <3>2. EventOf(n, r)' \in added'
      BY <1>1, <1>6
    <3>3. notify[n].at # "new" /\ g.got \cap EventUrisOf[r] # {}
      BY <1>1, <1>3, <1>4 DEF AggregateInv, NoAgg, Handling
    <3>4. AggregateInv(n, r)'
      BY <1>1, <1>3, <1>4, <1>5, <1>12, <3>2, <3>3 DEF AggregateInv
    <3>5. QED BY <3>1, <3>4
  <2>3. CASE <<m, q>> # <<n, r>>
    <3>1. /\ agg'[<<m, q>>] = agg[<<m, q>>] /\ EventOf(m, q)' = EventOf(m, q)
          /\ (Handling(m, q)' <=> Handling(m, q)) /\ added \subseteq added'
      BY <1>1, <1>5, <2>3 DEF EventOf, Handling
    <3>2. agg[<<m, q>>].at = "stamped" => \A x \in added' : x.ts # agg[<<m, q>>].ts
      <4> SUFFICES ASSUME agg[<<m, q>>].at = "stamped", NEW x \in added'
                   PROVE  x.ts # agg[<<m, q>>].ts
        OBVIOUS
      <4>1. CASE x \in added
        BY <2>1, <4>1 DEF AggregateInv
      <4>2. CASE x = e
        BY <1>1, <1>2, <1>3, <2>3, <4>2 DEF StampInv
      <4>3. QED BY <1>1, <4>1, <4>2
    <3>3. QED BY <1>1, <2>1, <3>1, <3>2 DEF AggregateInv
  <2>4. QED BY <2>2, <2>3
<1>14. ReplayIsOrderedTail'
  BY <1>1, <1>3 DEF ReplayIsOrderedTail
<1>15. QED BY <1>8, <1>10, <1>11, <1>12, <1>13, <1>14 DEF IInv

LEMMA DispatchBeginIInv ==
  ASSUME IInv, NEW n \in Notifs, NEW r \in Requests, DispatchBegin(n, r)
  PROVE  IInv'
<1> DEFINE e == EventOf(n, r)
           g == [agg[<<n, r>>] EXCEPT !.at = "dispatching"]
<1>1. /\ agg[<<n, r>>].at = "stored"
      /\ inbox' = [inbox EXCEPT ![r] = Append(inbox[r], e)]
      /\ agg' = [agg EXCEPT ![<<n, r>>] = g]
      /\ UNCHANGED <<create, loop, calls, async, answers, last, stored, log, clock, added, notify>>
  BY NotifyTyped DEF DispatchBegin, createVars
<1>2. e \in Events /\ e.sub = r
  BY <1>1, EventIsOwn DEF Handling
<1>3. /\ TypeOK /\ LogInv /\ StampInv /\ ReplayIsOrderedTail /\ InboxInv(r)
      /\ AggregateInv(n, r) /\ inbox[r] \in Seq(Events) /\ inbox \in [Requests -> Seq(Events)]
      /\ agg[<<n, r>>] \in [at : {"none", "waiting", "stamped", "stored", "dispatching", "done"},
                            pending : SUBSET Uris, got : SUBSET Uris, calls : SUBSET Uris, ts : Nat]
  BY NotifyBegins DEF IInv, TypeOK
<1>4. /\ g \in [at : {"none", "waiting", "stamped", "stored", "dispatching", "done"},
                pending : SUBSET Uris, got : SUBSET Uris, calls : SUBSET Uris, ts : Nat]
      /\ g.at = "dispatching" /\ g.pending = agg[<<n, r>>].pending /\ g.got = agg[<<n, r>>].got
      /\ g.calls = agg[<<n, r>>].calls
  BY <1>3
<1>5. e \in added /\ ~ Incomplete(r) /\ notify[n].at # "new" /\ g.got \cap EventUrisOf[r] # {}
  <2>1. Handling(n, r) /\ agg[<<n, r>>].at # "none"
    BY <1>1 DEF Handling
  <2>2. notify[n].at # "new"
    BY <1>3, <2>1 DEF AggregateInv, NoAgg
  <2>3. e \in added /\ ~ Incomplete(r)
    BY <1>1, <1>3, <2>1 DEF AggregateInv
  <2>4. agg[<<n, r>>].got \cap EventUrisOf[r] # {}
    BY <1>3, <2>1 DEF AggregateInv
  <2>5. QED BY <1>4, <2>2, <2>3, <2>4
<1> HIDE DEF g, e
<1>6. /\ agg'[<<n, r>>] = g
      /\ \A m \in Notifs, q \in Requests : <<m, q>> # <<n, r>> => agg'[<<m, q>>] = agg[<<m, q>>]
  BY <1>1, <1>3 DEF TypeOK
<1> DEFINE old == inbox[r]
           new == Append(old, e)
<1>7. /\ new \in Seq(Events) /\ Len(old) \in Nat /\ Len(new) = Len(old) + 1
      /\ DOMAIN new = 1 .. Len(old) + 1 /\ DOMAIN old = 1 .. Len(old)
      /\ \A i \in 1 .. Len(old) : new[i] = old[i]
      /\ new[Len(old) + 1] = e
  BY <1>2, <1>3, AppendProperties, LenProperties
<1>8. inbox' \in [Requests -> Seq(Events)] /\ inbox'[r] = new
      /\ \A q \in Requests : q # r => inbox'[q] = inbox[q]
  BY <1>1, <1>3, <1>7
<1> HIDE DEF new
<1>9. TypeOK'
  <2>1. agg' \in [Notifs \X Requests ->
                      [at : {"none", "waiting", "stamped", "stored", "dispatching", "done"},
                       pending : SUBSET Uris, got : SUBSET Uris, calls : SUBSET Uris, ts : Nat]]
    BY <1>1, <1>4, NotifyTyped
  <2>2. QED BY <1>1, <1>3, <1>8, <2>1 DEF TypeOK
<1>10. \A q \in Requests : ResponseInv(q)' /\ AnswerInv(q)' /\ InboxInv(q)'
                           /\ (Incomplete(q)' <=> Incomplete(q))
  <2> TAKE q \in Requests
  <2>1. ResponseInv(q) /\ AnswerInv(q) /\ InboxInv(q) /\ added \subseteq added'
    BY <1>1 DEF IInv
  <2>2. ResponseInv(q)' /\ (Incomplete(q)' <=> Incomplete(q)) /\ (Pending(q)' <=> Pending(q))
    BY <1>1, <2>1, SameRequest
  <2>3. AnswerInv(q)'
    BY <1>1, <2>1, SameAnswers
  <2>4. InboxInv(q)'
    <3>1. CASE q = r
      <4>1. ~ Pending(r)'
        BY <1>5, <2>2, <3>1 DEF Incomplete
      <4>2. \A i \in 1 .. Len(new) : new[i] \in added
        <5> TAKE i \in 1 .. Len(new)
        <5>1. CASE i = Len(old) + 1
          BY <1>5, <1>7, <5>1
        <5>2. CASE i # Len(old) + 1
          <6>1. i \in 1 .. Len(old) /\ new[i] = old[i]
            BY <1>7, <5>2
          <6>2. QED BY <1>3, <6>1 DEF InboxInv
        <5>3. QED BY <5>1, <5>2
      <4>3. QED BY <1>1, <1>8, <3>1, <4>1, <4>2 DEF InboxInv
    <3>2. CASE q # r
      BY <1>8, <2>1, <2>2, <3>2, SameInbox
    <3>3. QED BY <3>1, <3>2
  <2>5. QED BY <2>2, <2>3, <2>4
<1>11. ASSUME NEW m \in Notifs, NEW q \in Requests PROVE AggregateInv(m, q)'
  <2>1. AggregateInv(m, q) /\ (Incomplete(q)' <=> Incomplete(q))
    BY <1>10 DEF IInv
  <2>2. CASE <<m, q>> = <<n, r>>
    <3>1. m = n /\ q = r
      BY <2>2
    <3>2. AggregateInv(n, r)'
      BY <1>1, <1>3, <1>4, <1>5, <1>6, <1>10 DEF AggregateInv
    <3>3. QED BY <3>1, <3>2
  <2>3. CASE <<m, q>> # <<n, r>>
    <3>1. agg'[<<m, q>>] = agg[<<m, q>>] /\ clock' \in Nat /\ clock' >= clock
      BY <1>1, <1>3, <1>6, <2>3 DEF TypeOK
    <3>2. QED BY <1>1, <1>3, <2>1, <3>1, SameAggregate
  <2>4. QED BY <2>2, <2>3
<1>12. StampInv' /\ LogInv'
  BY <1>1, <1>3, <1>4, <1>6 DEF StampInv, LogInv
\* A live event is appended: it has the subscriber's own id, and what came
\* before stays where it was.
<1>13. ReplayIsOrderedTail'
  <2> SUFFICES ASSUME NEW q \in Requests, NEW j \in DOMAIN inbox'[q], inbox'[q][j].sub # q
               PROVE  /\ last[q] # NoEvent
                      /\ inbox'[q][j].sub = last[q][1] /\ inbox'[q][j].ts > last[q][3]
                      /\ \A i \in 1 .. j - 1 :
                           inbox'[q][i].sub # q /\ inbox'[q][i].ts < inbox'[q][j].ts
    BY <1>1 DEF ReplayIsOrderedTail
  <2>1. CASE q # r
    BY <1>3, <1>8, <2>1 DEF ReplayIsOrderedTail
  <2>2. CASE q = r
    <3>1. j \in 1 .. Len(old) /\ new[j] = old[j]
      BY <1>2, <1>7, <1>8, <2>2
    <3>2. \A i \in 1 .. j - 1 : new[i] = old[i]
      BY <1>7, <3>1
    <3>3. j \in DOMAIN inbox[r] /\ inbox[r][j].sub # r
      BY <1>7, <1>8, <2>2, <3>1
    <3>4. /\ last[r] # NoEvent
          /\ old[j].sub = last[r][1] /\ old[j].ts > last[r][3]
          /\ \A i \in 1 .. j - 1 : old[i].sub # r /\ old[i].ts < old[j].ts
      BY <1>3, <3>3 DEF ReplayIsOrderedTail
    <3>5. QED BY <1>8, <2>2, <3>1, <3>2, <3>4
  <2>3. QED BY <2>1, <2>2
<1>14. QED BY <1>9, <1>10, <1>11, <1>12, <1>13 DEF IInv

-----------------------------------------------------------------------------
(* The theorems.                                                             *)

LEMMA NextIInv == IInv /\ [Next]_vars => IInv'
<1> SUFFICES ASSUME IInv, [Next]_vars PROVE IInv'
  OBVIOUS
<1>1. CASE UNCHANGED vars
  <2>1. UNCHANGED <<create, loop, calls, async, answers, last, stored, inbox, log, clock,
                    added, notify, agg>>
    BY <1>1 DEF vars
  <2>2. TypeOK /\ TypeOK' /\ LogInv' /\ StampInv' /\ ReplayIsOrderedTail'
    BY <2>1 DEF IInv, TypeOK, LogInv, StampInv, ReplayIsOrderedTail
  <2>3. \A q \in Requests : ResponseInv(q)' /\ AnswerInv(q)' /\ InboxInv(q)' /\ (Incomplete(q)' <=> Incomplete(q))
    <3> TAKE q \in Requests
    <3>1. ResponseInv(q) /\ AnswerInv(q) /\ InboxInv(q) /\ added \subseteq added'
      BY <2>1 DEF IInv
    <3>2. ResponseInv(q)' /\ (Incomplete(q)' <=> Incomplete(q)) /\ (Pending(q)' <=> Pending(q))
      BY <2>1, <3>1, SameRequest
    <3>3. QED BY <2>1, <3>1, <3>2, SameAnswers, SameInbox
  <2>4. \A m \in Notifs, q \in Requests : AggregateInv(m, q)'
    <3> TAKE m \in Notifs, q \in Requests
    <3>1. AggregateInv(m, q) /\ clock' \in Nat /\ clock' >= clock
      BY <2>1, <2>2 DEF IInv, TypeOK
    <3>2. QED BY <2>1, <2>2, <2>3, <3>1, SameAggregate
  <2>5. QED BY <2>2, <2>3, <2>4 DEF IInv
<1>2. ASSUME NEW r \in Requests, RequestStep(r) PROVE IInv'
  BY <1>2, CreateRejectedIInv, CreateAcceptedIInv, CreateReturnsIInv, SubscribeAcceptedIInv,
     SubscribeRefusedIInv, ReplayIInv, AddSubscriptionIInv DEF RequestStep
<1>3. ASSUME NEW r \in Requests, ResponseStep(r) PROVE IInv'
  BY <1>3, ResponseUnexpectedIInv, ResponseIgnoredIInv, ResponseFailedIInv, ResponseOkIInv
     DEF ResponseStep
<1>4. ASSUME NEW r \in Requests, DeleteSubscription(r) PROVE IInv'
  BY <1>4, DeleteSubscriptionIInv
<1>5. ASSUME NEW n \in Notifs, NEW src \in Sources, NotifyBegin(n, src) PROVE IInv'
  BY <1>5, NotifyBeginIInv
<1>6. ASSUME NEW n \in Notifs, NotifyStep(n) PROVE IInv'
  BY <1>6, NotifyContextIInv, QueryAcceptedIInv, QueryRefusedIInv, NotifyReturnsIInv DEF NotifyStep
<1>7. ASSUME NEW n \in Notifs, NEW r \in Requests, AggregateStep(n, r) PROVE IInv'
  BY <1>7, QueryFailedIInv, QueryAnsweredIInv, StoreEventIInv, DispatchBeginIInv, DispatchEndIInv
     DEF AggregateStep
<1>8. CASE ClearEventStore
  BY <1>8, ClearEventStoreIInv
<1>9. QED BY <1>1, <1>2, <1>3, <1>4, <1>5, <1>6, <1>7, <1>8 DEF Next

LEMMA SpecIInv == Spec => []IInv
  BY InitIInv, NextIInv, PTL DEF Spec

LEMMA IInvNoPartial ==
  ASSUME IInv
  PROVE  NoPartialSubscription
<1>1. \A r \in stored : r \in Requests /\ ResponseInv(r)
  BY DEF IInv, TypeOK
<1>2. \A r \in stored : \A u \in UrisOf[r] : SourcesOfUri[u] \X {u} \subseteq async[r].origins
  BY <1>1 DEF ResponseInv, Subscribed
<1>3. QED BY <1>2 DEF IInv, AnswerInv, NoPartialSubscription

LEMMA IInvDelivered ==
  ASSUME IInv
  PROVE  DeliveredIsOwn
<1> SUFFICES ASSUME NEW r \in Requests, NEW e \in ToSet(inbox[r])
             PROVE  /\ e \in added
                    /\ e.sub = r => e.uris # {} /\ e.uris \subseteq Owned(r, e.src)
  BY DEF DeliveredIsOwn, Owned
<1>1. inbox[r] \in Seq(Events) /\ DOMAIN inbox[r] = 1 .. Len(inbox[r])
  BY LenProperties DEF IInv, TypeOK
<1>2. PICK i \in 1 .. Len(inbox[r]) : e = inbox[r][i]
  BY <1>1 DEF ToSet
<1>3. e \in added
  BY <1>2 DEF IInv, InboxInv
<1>4. QED BY <1>3 DEF IInv, LogInv

\* The service's state is well typed, whatever the backend does.
THEOREM TypeCorrect == Spec => []TypeOK
  BY SpecIInv, PTL DEF IInv

\* CreateSubscription stores a subscription with the event sources of all its
\* resources or not at all, and answers its client at most once, for every
\* number of resources and every order of accepted, refused, failed, repeated
\* and late backend responses.
THEOREM SubscriptionsAreWhole == Spec => []NoPartialSubscription
  BY SpecIInv, IInvNoPartial, PTL

\* on_event_callback only gets events that are or were in the event store, and
\* a live event carries resources its subscriber asked for and that belong to
\* the source that fired.
THEOREM DeliveryIsOwn == Spec => []DeliveredIsOwn
  BY SpecIInv, IInvDelivered, PTL

\* A subscriber that reconnects with LastEventId gets the later events of the
\* subscription it names, in chronological order and before any live event.
THEOREM ReplayPrecedesLive == Spec => []ReplayIsOrderedTail
  BY SpecIInv, PTL DEF IInv
==============================================================================
