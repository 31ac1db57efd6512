-------------------------- MODULE SubscriptionStore --------------------------
(***************************************************************************)
(* SubscriptionStoreImpl (subscription_store_impl.cc).  Three maps are     *)
(* guarded by three mutexes; an operation passes through several critical  *)
(* sections, each a step that locks and a step that works and unlocks, so  *)
(* other threads see it half done.  A SubscriptionContext is identified    *)
(* with the call of AddNewSubscription that brings it: Contexts are both   *)
(* the objects and the calls (threads) that add them.                      *)
(***************************************************************************)
EXTENDS Integers, FiniteSets

CONSTANTS
  Contexts,     \* SubscriptionContext objects, one AddNewSubscription call each
  Ids,          \* SubscriptionIds
  Sources,      \* EventSourceIds
  Deleters,     \* DeleteSubscription calls
  Notifiers,    \* threads calling Notify
  IdOf,         \* context -> its subscription_id
  SourcesOf,    \* context -> the keys of its event_source_to_uri
  InvalidIds,   \* ids that Id() <= 0 rejects
  OverlapPerId, \* whether calls for one id may overlap (see MayDelete)
  NoId,         \* not an id: the delete is not in progress
  NoThread      \* not a thread: the mutex is free

ASSUME IdsAssumption == IdOf \in [Contexts -> Ids] /\ InvalidIds \subseteq Ids
ASSUME SourcesAssumption == SourcesOf \in [Contexts -> SUBSET Sources]
ASSUME NullAssumption ==
  /\ NoId \notin Ids \union Sources
  /\ NoThread \notin Contexts \union Deleters
  /\ Contexts \cap Deleters = {}
ASSUME OverlapAssumption == OverlapPerId \in BOOLEAN

\* subscriptions_mutex_, subscriptions_by_event_sources_mutex_ and
\* event_sources_by_subscription_mutex_.
Mutexes == {"subscriptions", "by_source", "sources_by_sub"}

VARIABLES
  subscriptions,    \* subscriptions_: the contexts it owns
  by_source,        \* subscriptions_by_event_sources_: pairs <<source, context>>
  source_keys,      \* the keys of subscriptions_by_event_sources_
  sources_by_sub,   \* event_sources_by_subscription_: id -> sources, {} if absent
  holder,           \* mutex -> the thread that holds it
  add_pc,           \* context -> progress of its AddNewSubscription call
  del_pc, del_id,   \* deleter -> progress, and the id it deletes
  add_todo, del_todo, \* sources left in a call's loop
  span              \* notifier -> the Span it was handed: its source, the
                    \* pointers left, whether the vector has changed since

vars == <<subscriptions, by_source, source_keys, sources_by_sub, holder,
          add_pc, del_pc, del_id, add_todo, del_todo, span>>
maps == <<subscriptions, by_source, source_keys, sources_by_sub>>

NoSpan == [source |-> NoId, left |-> {}, changed |-> FALSE]

TypeOK ==
  /\ subscriptions \subseteq Contexts
  /\ by_source \subseteq Sources \X Contexts
  /\ source_keys \subseteq Sources
  /\ sources_by_sub \in [Ids -> SUBSET Sources]
  /\ holder \in [Mutexes -> Contexts \union Deleters \union {NoThread}]
  /\ add_pc \in [Contexts ->
       {"new", "insert", "publish", "register", "ok", "exists", "invalid"}]
  /\ del_pc \in [Deleters -> {"new", "lookup", "unlink", "erase", "done"}]
  /\ del_id \in [Deleters -> Ids \union {NoId}]
  /\ add_todo \in [Contexts -> SUBSET Sources]
  /\ del_todo \in [Deleters -> SUBSET Sources]
  /\ span \in [Notifiers -> [source : Sources \union {NoId},
                             left : SUBSET Contexts, changed : BOOLEAN]]
  /\ \A d \in Deleters :
       /\ del_pc[d] \in {"new", "done"} <=> del_id[d] = NoId
       /\ del_pc[d] = "unlink" => holder["sources_by_sub"] = d

Init ==
  /\ subscriptions = {} /\ by_source = {} /\ source_keys = {}
  /\ sources_by_sub = [i \in Ids |-> {}]
  /\ holder = [m \in Mutexes |-> NoThread]
  /\ add_pc = [c \in Contexts |-> "new"]
  /\ del_pc = [d \in Deleters |-> "new"]
  /\ del_id = [d \in Deleters |-> NoId]
  /\ add_todo = [c \in Contexts |-> {}]
  /\ del_todo = [d \in Deleters |-> {}]
  /\ span = [n \in Notifiers |-> NoSpan]

Lock(t, m) == holder[m] = NoThread /\ holder' = [holder EXCEPT ![m] = t]
Unlock(m) == holder' = [holder EXCEPT ![m] = NoThread]

\* The end of a call's scope releases what its MutexLocks still hold.
Return(t) == holder' = [m \in Mutexes |-> IF holder[m] = t THEN NoThread ELSE holder[m]]

\* The vector of source s grows, shrinks or goes: a Span into it no longer
\* shows what it was handed out with.
ChangeVector(s) ==
  span' = [n \in Notifiers |->
             IF span[n].source = s THEN [span[n] EXCEPT !.changed = TRUE] ELSE span[n]]

-----------------------------------------------------------------------------
(* AddNewSubscription *)

\* Without OverlapPerId no add and delete of one id overlap: a new id is
\* unique, and a client deletes the id that its on_subscribe callback has
\* returned.  With it, the client may also have the id from
\* GetSubscriptionsToJSON, which lists a subscription from its insertion on.
Adding(i) ==
  \E c \in Contexts : IdOf[c] = i /\ add_pc[c] \in {"insert", "publish", "register"}
Deleting(i) == \E d \in Deleters : del_id[d] = i
MayDelete(i) ==
  \/ OverlapPerId /\ \E c \in subscriptions : IdOf[c] = i
  \/ ~ Adding(i) /\ \E c \in Contexts : IdOf[c] = i /\ add_pc[c] = "ok"

AddBegin(c) ==
  /\ add_pc[c] = "new"
  /\ IF IdOf[c] \in InvalidIds \/ SourcesOf[c] = {}
       THEN add_pc' = [add_pc EXCEPT ![c] = "invalid"]
       ELSE /\ OverlapPerId \/ ~ Deleting(IdOf[c])
            /\ add_pc' = [add_pc EXCEPT ![c] = "insert"]
  /\ UNCHANGED <<maps, holder, del_pc, del_id, add_todo, del_todo, span>>

\* The mutex of the call's next critical section.
AddMutex(c) ==
  CASE add_pc[c] = "insert" -> "subscriptions"
    [] add_pc[c] = "publish" -> "by_source"
    [] add_pc[c] = "register" -> "sources_by_sub"

AddLock(c) ==
  /\ add_pc[c] \in {"insert", "publish", "register"}
  /\ Lock(c, AddMutex(c))
  /\ UNCHANGED <<maps, add_pc, del_pc, del_id, add_todo, del_todo, span>>

\* First critical section: subscriptions_mutex_.
AddInsert(c) ==
  /\ add_pc[c] = "insert" /\ holder["subscriptions"] = c
  /\ Unlock("subscriptions")
  /\ IF \E o \in subscriptions : IdOf[o] = IdOf[c]
       THEN /\ add_pc' = [add_pc EXCEPT ![c] = "exists"]
            /\ UNCHANGED <<subscriptions, add_todo>>
       ELSE /\ add_pc' = [add_pc EXCEPT ![c] = "publish"]
            /\ subscriptions' = subscriptions \union {c}
            /\ add_todo' = [add_todo EXCEPT ![c] = SourcesOf[c]]
  /\ UNCHANGED <<by_source, source_keys, sources_by_sub, del_pc, del_id, del_todo, span>>

\* Mutant of AddPublish: the loop stops after its first source.
AddPublishStops(c, s) ==
  /\ add_pc[c] = "publish" /\ holder["by_source"] = c
  /\ s \in add_todo[c]
  /\ by_source' = by_source \union {<<s, c>>}
  /\ source_keys' = source_keys \union {s}
  /\ add_todo' = [add_todo EXCEPT ![c] = {}]
  /\ add_pc' = [add_pc EXCEPT ![c] = "register"]
  /\ Unlock("by_source") /\ ChangeVector(s)
  /\ UNCHANGED <<subscriptions, sources_by_sub, del_pc, del_id, del_todo>>

\* Mutant of AddPublish: the lock is taken once, in front of the loop, and so
\* held to the end of the function.
AddPublishKeepsLock(c, s) ==
  /\ add_pc[c] = "publish" /\ holder["by_source"] = c
  /\ s \in add_todo[c]
  /\ by_source' = by_source \union {<<s, c>>}
  /\ source_keys' = source_keys \union {s}
  /\ add_todo' = [add_todo EXCEPT ![c] = @ \ {s}]
  /\ add_pc' = [add_pc EXCEPT ![c] = IF add_todo[c] = {s} THEN "register" ELSE @]
  /\ ChangeVector(s)
  /\ UNCHANGED <<subscriptions, sources_by_sub, holder, del_pc, del_id, del_todo>>

\* One iteration of the loop over event_source_to_uri, which locks
\* subscriptions_by_event_sources_mutex_: the raw pointer is appended.
AddPublish(c, s) ==
  /\ add_pc[c] = "publish" /\ holder["by_source"] = c
  /\ s \in add_todo[c]
  /\ by_source' = by_source \union {<<s, c>>}
  /\ source_keys' = source_keys \union {s}
  /\ add_todo' = [add_todo EXCEPT ![c] = @ \ {s}]
  /\ add_pc' = [add_pc EXCEPT ![c] = IF add_todo[c] = {s} THEN "register" ELSE @]
  /\ Unlock("by_source") /\ ChangeVector(s)
  /\ UNCHANGED <<subscriptions, sources_by_sub, del_pc, del_id, del_todo>>

\* Last critical section: event_sources_by_subscription_mutex_; insert keeps
\* an entry that is already there.
AddRegister(c) ==
  /\ add_pc[c] = "register" /\ holder["sources_by_sub"] = c
  /\ sources_by_sub' = [sources_by_sub EXCEPT ![IdOf[c]] =
                          IF @ = {} THEN SourcesOf[c] ELSE @]
  /\ add_pc' = [add_pc EXCEPT ![c] = "ok"]
  /\ Return(c)
  /\ UNCHANGED <<subscriptions, by_source, source_keys, del_pc, del_id, add_todo, del_todo, span>>

-----------------------------------------------------------------------------
(* DeleteSubscription *)

DeleteBegin(d, i) ==
  /\ del_pc[d] = "new"
  /\ MayDelete(i)
  /\ del_id' = [del_id EXCEPT ![d] = i]
  /\ del_pc' = [del_pc EXCEPT ![d] = "lookup"]
  /\ UNCHANGED <<maps, holder, add_pc, add_todo, del_todo, span>>

\* event_sources_by_subscription_mutex_ is held throughout the loop, in which
\* subscriptions_by_event_sources_mutex_ is taken for each source.
DeleteMutex(d) ==
  CASE del_pc[d] = "lookup" -> "sources_by_sub"
    [] del_pc[d] = "unlink" -> "by_source"
    [] del_pc[d] = "erase" -> "subscriptions"

DeleteLock(d) ==
  /\ del_pc[d] \in {"lookup", "unlink", "erase"}
  /\ del_pc[d] = "unlink" => del_todo[d] # {}
  /\ Lock(d, DeleteMutex(d))
  /\ UNCHANGED <<maps, add_pc, del_pc, del_id, add_todo, del_todo, span>>

\* Mutant of DeleteLookup: the owner is erased before the pointers to it.
DeleteLookupErasesOwner(d) ==
  /\ del_pc[d] = "lookup" /\ holder["sources_by_sub"] = d
  /\ IF sources_by_sub[del_id[d]] # {}
       THEN /\ del_pc' = [del_pc EXCEPT ![d] = "unlink"]
            /\ del_todo' = [del_todo EXCEPT ![d] = sources_by_sub[del_id[d]]]
            /\ UNCHANGED holder
       ELSE /\ del_pc' = [del_pc EXCEPT ![d] = "erase"]
            /\ Unlock("sources_by_sub")
            /\ UNCHANGED del_todo
  /\ subscriptions' = {c \in subscriptions : IdOf[c] # del_id[d]}
  /\ UNCHANGED <<by_source, source_keys, sources_by_sub, del_id, add_pc, add_todo, span>>

\* The id is looked up; the mutex is kept if there is an entry.
DeleteLookup(d) ==
  /\ del_pc[d] = "lookup" /\ holder["sources_by_sub"] = d
  /\ IF sources_by_sub[del_id[d]] # {}
       THEN /\ del_pc' = [del_pc EXCEPT ![d] = "unlink"]
            /\ del_todo' = [del_todo EXCEPT ![d] = sources_by_sub[del_id[d]]]
            /\ UNCHANGED holder
       ELSE /\ del_pc' = [del_pc EXCEPT ![d] = "erase"]
            /\ Unlock("sources_by_sub")
            /\ UNCHANGED del_todo
  /\ UNCHANGED <<maps, del_id, add_pc, add_todo, span>>

\* Mutant of DeleteUnlink: the emptied vector stays under its key.
DeleteUnlinkKeepsKey(d, s) ==
  /\ del_pc[d] = "unlink" /\ holder["by_source"] = d
  /\ s \in del_todo[d]
  /\ by_source' = {p \in by_source : ~ (p[1] = s /\ IdOf[p[2]] = del_id[d])}
  /\ source_keys' = source_keys \union {s}
  /\ del_todo' = [del_todo EXCEPT ![d] = @ \ {s}]
  /\ Unlock("by_source") /\ ChangeVector(s)
  /\ UNCHANGED <<subscriptions, sources_by_sub, add_pc, del_pc, del_id, add_todo>>

\* DeleteSubscriptionFromEventSources: operator[] creates a missing vector,
\* the first context with the id is erased, an emptied vector is dropped.
DeleteUnlink(d, s) ==
  /\ del_pc[d] = "unlink" /\ holder["by_source"] = d
  /\ s \in del_todo[d]
  /\ LET hits == {c \in Contexts : <<s, c>> \in by_source /\ IdOf[c] = del_id[d]}
     IN  IF hits = {}
           THEN /\ source_keys' = source_keys \union {s}
                /\ UNCHANGED <<by_source, span>>
           ELSE /\ ChangeVector(s)
                /\ \E c \in hits :
                     /\ by_source' = by_source \ {<<s, c>>}
                     /\ source_keys' = IF \E o \in Contexts : <<s, o>> \in by_source'
                                         THEN source_keys ELSE source_keys \ {s}
  /\ del_todo' = [del_todo EXCEPT ![d] = @ \ {s}]
  /\ Unlock("by_source")
  /\ UNCHANGED <<subscriptions, sources_by_sub, add_pc, del_pc, del_id, add_todo>>

\* The loop is over: the entry is erased and the outer mutex released.
DeleteUnregister(d) ==
  /\ del_pc[d] = "unlink"
  /\ del_todo[d] = {}
  /\ sources_by_sub' = [sources_by_sub EXCEPT ![del_id[d]] = {}]
  /\ Unlock("sources_by_sub")
  /\ del_pc' = [del_pc EXCEPT ![d] = "erase"]
  /\ UNCHANGED <<subscriptions, by_source, source_keys, add_pc, del_id, add_todo, del_todo, span>>

\* subscriptions_mutex_: erasing the owner destroys the context.
DeleteErase(d) ==
  /\ del_pc[d] = "erase" /\ holder["subscriptions"] = d
  /\ subscriptions' = {c \in subscriptions : IdOf[c] # del_id[d]}
  /\ del_pc' = [del_pc EXCEPT ![d] = "done"]
  /\ del_id' = [del_id EXCEPT ![d] = NoId]
  /\ Return(d)
  /\ UNCHANGED <<by_source, source_keys, sources_by_sub, add_pc, add_todo, del_todo, span>>

-----------------------------------------------------------------------------
(* GetSubscriptionsByEventSourceId, and the use Notify makes of its result *)

\* The lookup holds its mutex for one step.  The Span it returns refers to the
\* map's vector and is used after the mutex is released: left is what the
\* vector held then.
GetSubscriptionsByEventSourceId(n, s) ==
  /\ span[n] = NoSpan
  /\ holder["by_source"] = NoThread
  /\ s \in source_keys
  /\ span' = [span EXCEPT ![n] =
       [source |-> s, left |-> {c \in Contexts : <<s, c>> \in by_source}, changed |-> FALSE]]
  /\ UNCHANGED <<maps, holder, add_pc, del_pc, del_id, add_todo, del_todo>>

\* Notify dereferences the next pointer.  What it reads once the vector has
\* changed is undefined; it writes nothing into the store.
VisitContext(n, c) ==
  /\ c \in span[n].left
  /\ span' = [span EXCEPT ![n].left = @ \ {c}]
  /\ UNCHANGED <<maps, holder, add_pc, del_pc, del_id, add_todo, del_todo>>

NotifyEnds(n) ==
  /\ span[n] # NoSpan /\ span[n].left = {}
  /\ span' = [span EXCEPT ![n] = NoSpan]
  /\ UNCHANGED <<maps, holder, add_pc, del_pc, del_id, add_todo, del_todo>>

-----------------------------------------------------------------------------
AddStep(c) ==
  \/ AddInsert(c) \/ AddRegister(c)
  \/ \E s \in Sources : AddPublish(c, s)

DeleteStep(d) ==
  \/ DeleteLookup(d) \/ DeleteUnregister(d) \/ DeleteErase(d)
  \/ \E s \in Sources : DeleteUnlink(d, s)

Next ==
  \/ \E c \in Contexts : AddBegin(c) \/ AddLock(c) \/ AddStep(c)
  \/ \E d \in Deleters, i \in Ids : DeleteBegin(d, i)
  \/ \E d \in Deleters : DeleteLock(d) \/ DeleteStep(d)
  \/ \E n \in Notifiers, s \in Sources : GetSubscriptionsByEventSourceId(n, s)
  \/ \E n \in Notifiers, c \in Contexts : VisitContext(n, c)
  \/ \E n \in Notifiers : NotifyEnds(n)

\* Every call that has begun goes on while it can: it is in a critical section,
\* or the mutex it waits for is free.
Fairness ==
  /\ \A c \in Contexts : WF_vars(AddLock(c) \/ AddStep(c))
  /\ \A d \in Deleters : WF_vars(DeleteLock(d) \/ DeleteStep(d))

Spec == Init /\ [][Next]_vars /\ Fairness

-----------------------------------------------------------------------------
(* Properties *)

\* subscriptions_by_event_sources_ holds raw pointers into subscriptions_
\* ("Must be the last one to cleanup"): every one of them points at a context
\* that is still owned, in the middle of any add or delete too.  It needs
\* ~ OverlapPerId: a delete of an id whose add is between its insertion and its
\* registration erases the owner and the add then links the pointer.
PointersAreLive == \A p \in by_source : p[2] \in subscriptions

\* A source is a key exactly while some context listens to it: no call leaves
\* an empty vector behind, so Notify answers NotFound, and the event source
\* disables its listener, as soon as the last subscription is gone.  Stated of
\* calls that do not overlap on an id (~ OverlapPerId).
KeysAreSubscribed ==
  source_keys = {s \in Sources : \E c \in Contexts : <<s, c>> \in by_source}

\* A subscription whose AddNewSubscription has returned OK and that nobody is
\* deleting is found under every one of its sources, and can be unlinked from
\* every one of them.  Stated of calls that do not overlap on an id
\* (~ OverlapPerId).
AddedIsReachable ==
  \A c \in subscriptions :
    add_pc[c] = "ok" /\ ~ Deleting(IdOf[c]) =>
      /\ SourcesOf[c] \X {c} \subseteq by_source
      /\ sources_by_sub[IdOf[c]] = SourcesOf[c]

\* Deletion leaves nothing: an id that no stored context has, has no entry in
\* event_sources_by_subscription_ unless its deletion is still running.
DeletedIsForgotten ==
  \A i \in Ids : sources_by_sub[i] # {} =>
    \E c \in subscriptions : IdOf[c] = i /\ sources_by_sub[i] = SourcesOf[c]

\* Every AddNewSubscription and DeleteSubscription call that has begun returns:
\* DeleteSubscription takes a second mutex while it holds the first, and no
\* call takes the two in the other order.
CallsReturn ==
  /\ \A c \in Contexts : add_pc[c] = "insert" ~> add_pc[c] \in {"ok", "exists"}
  /\ \A d \in Deleters : del_pc[d] = "lookup" ~> del_pc[d] = "done"

\* "Thread safe" (the comment on the class) would need that no vector changes
\* while a caller walks the Span it was handed.  It does not hold, whether
\* calls for one id overlap or not.
SpansAreStable == \A n \in Notifiers : span[n].left # {} => ~ span[n].changed
=============================================================================
