----------------------------- MODULE EventStore -----------------------------
(***************************************************************************)
(* The event store of the Redfish subscription service under concurrent    *)
(* publishers.  SubscriptionServiceImpl::HandleEventsForSubscription first *)
(* stamps the EventId with absl::Now() and only later, after building the  *)
(* JSON, takes the store's mutex in AddNewEvent: two publishers may insert *)
(* in the opposite order of their timestamps.                              *)
(***************************************************************************)
EXTENDS EventLog

CONSTANTS
  Publishers,       \* threads running HandleEventsForSubscription
  Subs,             \* SubscriptionIds
  Sources,          \* EventSourceIds
  StoreSize,        \* store_size_
  MaxTime,          \* bound: absl::Now() ranges over 0 .. MaxTime
  MaxEvents,        \* bound: insertions
  ClockMayStepBack  \* whether the wall clock may be set back

\* An empty container has no begin() to erase: a store of size 0 is undefined.
ASSUME StoreSizeAssumption == StoreSize \in Nat \ {0}
ASSUME BoundsAssumption == MaxTime \in Nat /\ MaxEvents \in Nat
ASSUME ClockAssumption == ClockMayStepBack \in BOOLEAN

VARIABLES
  event_contexts,   \* event_contexts_, a log
  clock,            \* absl::Now()
  pending,          \* publisher -> {} or the one EventId it has stamped
  inserts,          \* history: number of insertions
  added             \* history: the contexts inserted since the last Clear

vars == <<event_contexts, clock, pending, inserts, added>>

EventIds == [sub : Subs, src : Sources, ts : 0 .. MaxTime]
Contexts == [sub : Subs, src : Sources, ts : 0 .. MaxTime, seq : Nat]

TypeOK ==
  /\ event_contexts \subseteq Contexts
  /\ added \subseteq Contexts
  /\ clock \in 0 .. MaxTime
  /\ pending \in [Publishers -> SUBSET EventIds]
  /\ inserts \in Nat

Init ==
  /\ event_contexts = {}
  /\ clock = 0
  /\ pending = [p \in Publishers |-> {}]
  /\ inserts = 0
  /\ added = {}

\* The wall clock moves.
Tick ==
  /\ \E t \in 0 .. MaxTime :
       /\ t > clock \/ (ClockMayStepBack /\ t < clock)
       /\ clock' = t
  /\ UNCHANGED <<event_contexts, pending, inserts, added>>

\* HandleEventsForSubscription creates the EventId of a non-empty batch.
StampEvent(p, s, src) ==
  /\ pending[p] = {}
  /\ pending' = [pending EXCEPT ![p] = {[sub |-> s, src |-> src, ts |-> clock]}]
  /\ UNCHANGED <<event_contexts, clock, inserts, added>>

\* EventContext(event_id, event); seq numbers the insertion.
Context(id) == [sub |-> id.sub, src |-> id.src, ts |-> id.ts, seq |-> inserts]

AddNewEvent(p) ==
  /\ inserts < MaxEvents
  /\ \E id \in pending[p] :
       /\ event_contexts' = Insert(event_contexts, StoreSize, Context(id))
       /\ added' = added \union {Context(id)}
  /\ inserts' = inserts + 1
  /\ pending' = [pending EXCEPT ![p] = {}]
  /\ UNCHANGED clock

Clear ==
  /\ event_contexts' = {}
  /\ added' = {}
  /\ UNCHANGED <<clock, pending, inserts>>

Next ==
  \/ Tick
  \/ \E p \in Publishers, s \in Subs, src \in Sources : StampEvent(p, s, src)
  \/ \E p \in Publishers : AddNewEvent(p)
  \/ Clear

Spec == Init /\ [][Next]_vars

-----------------------------------------------------------------------------
(* Properties *)

\* The store never outgrows store_size_, whatever the interleaving of
\* AddNewEvent calls and Clear.
StoreBounded == IsFiniteSet(event_contexts) /\ Cardinality(event_contexts) <= StoreSize

\* Eviction never opens a gap behind a surviving event: if b is still stored,
\* every event that was added after b and does not carry an earlier timestamp
\* is stored too.  This is what makes GetEventsSince(b) a complete replay for
\* events added in timestamp order, even when the wall clock steps back or
\* two events share a timestamp.
LaterEventsSurvive ==
  \A b \in event_contexts, e \in added :
    e.seq > b.seq /\ e.ts >= b.ts => e \in event_contexts

\* The loop of GetEventsSince returns, in chronological order, exactly the
\* stored events of the subscription that owns the given id and that come
\* after the (first) event with that id; nothing when the id is not stored.
ReplayMatchesReference ==
  \A id \in EventIds :
    LET rid == RedfishEventId(id)
        After(e) == \E b \in event_contexts :
                      RedfishEventId(b) = rid /\ Precedes(b, e)
    IN  GetEventsSince(event_contexts, rid)
          = Visit({e \in event_contexts : e.sub = id.sub /\ After(e)})
=============================================================================
