------------------------------ MODULE EventLog ------------------------------
(***************************************************************************)
(* The container behind EventStoreImpl (event_store.cc): an                *)
(* absl::btree_multiset of EventContexts ordered by timestamp, written as  *)
(* operators on its value so that the store on its own (EventStore) and    *)
(* the service that owns one (SubscriptionService) share them.             *)
(*                                                                         *)
(* A context is a record [sub, src, ts, seq].  sub, src and ts are the     *)
(* EventId; seq is the position of the insertion in the store's history.   *)
(* A btree_multiset inserts behind the elements that compare equal, so     *)
(* iterating over it visits contexts in the order (ts, seq), and a log is  *)
(* the SET of its contexts.  The JSON payload is not modelled: the context *)
(* stands for it.                                                          *)
(***************************************************************************)
EXTENDS Integers, FiniteSets, FiniteSetsExt, SequencesExt

\* EventId::EventId: redfish_event_id is absl::HashOf(timestamp, source,
\* subscription), taken to be injective.
RedfishEventId(e) == <<e.sub, e.src, e.ts>>

\* TimestampComparator, with the insertion order between equal timestamps.
Precedes(a, b) == a.ts < b.ts \/ (a.ts = b.ts /\ a.seq < b.seq)

\* event_contexts_.begin()
Oldest(log) == CHOOSE e \in log : \A f \in log \ {e} : Precedes(e, f)

\* Mutant of Insert: the newest context is dropped instead of the oldest.
InsertDropsNewest(log, size, e) ==
  (IF Cardinality(log) = size
     THEN log \ {CHOOSE f \in log : \A g \in log \ {f} : Precedes(g, f)}
     ELSE log) \union {e}

\* Mutant of Insert: the bound is tested with > instead of =.
InsertOffByOne(log, size, e) ==
  (IF Cardinality(log) > size THEN log \ {Oldest(log)} ELSE log) \union {e}

\* AddNewEvent: a full store first drops its oldest context.
Insert(log, size, e) ==
  (IF Cardinality(log) = size THEN log \ {Oldest(log)} ELSE log) \union {e}

\* The order in which iterators visit the contexts.
Visit(log) ==
  CHOOSE s \in [1 .. Cardinality(log) -> log] :
    \A i, j \in DOMAIN s : i < j => Precedes(s[i], s[j])

\* Mutant of Turn: the context with the given id is returned too.
TurnInclusive(acc, e, rid) ==
  LET owner == IF RedfishEventId(e) = rid THEN {e.sub} ELSE acc.owner
  IN  [out |-> IF e.sub \in owner THEN Append(acc.out, e) ELSE acc.out, owner |-> owner]

\* One turn of the loop of GetEventsSince: out is events_to_return, owner the
\* optional subscription_id (a set of at most one).
Turn(acc, e, rid) ==
  [out |-> IF e.sub \in acc.owner THEN Append(acc.out, e) ELSE acc.out,
   owner |-> IF RedfishEventId(e) = rid THEN {e.sub} ELSE acc.owner]

\* GetEventsSince when an id is given: until the context with that id is met
\* nothing is returned, from then on the contexts of the subscription that
\* owns it.
GetEventsSince(log, rid) ==
  LET visit == Visit(log)
      loop[k \in 0 .. Cardinality(log)] ==
        IF k = 0 THEN [out |-> <<>>, owner |-> {}]
        ELSE Turn(loop[k - 1], visit[k], rid)
  IN  loop[Cardinality(log)].out

\* GetEventsSince(std::nullopt), and the contexts listed by ToJSON.
GetAllEvents(log) == Visit(log)

GetEventsBySubscriptionId(log, s) ==
  SelectSeq(Visit(log), LAMBDA e : e.sub = s)

\* GetEvent compares whole EventIds and returns the first match.
GetEvent(log, rid) ==
  LET hits == {e \in log : RedfishEventId(e) = rid}
  IN  IF hits = {} THEN {} ELSE {Oldest(hits)}
=============================================================================
