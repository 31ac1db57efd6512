----------------------- MODULE SubscriptionStoreProofs -----------------------
(***************************************************************************)
(* The three maps of the subscription store stay consistent for every set  *)
(* of contexts, ids, sources and threads, provided adds and deletes of one *)
(* id do not overlap.                                                      *)
(***************************************************************************)
EXTENDS SubscriptionStore, TLAPS

Linked(s, c) == <<s, c>> \in by_source

\* Two contexts with one id are never both stored.
UniqueIds == \A c, o \in subscriptions : IdOf[c] = IdOf[o] => c = o

\* Only a call that has got past its first critical section has a stored
\* context; only stored contexts are linked.
StoredInv ==
  /\ \A c \in subscriptions : /\ add_pc[c] \in {"publish", "register", "ok"}
                              /\ SourcesOf[c] # {}
  /\ \A s \in Sources, c \in Contexts : Linked(s, c) => c \in subscriptions

\* While a context is being added nobody deletes its id.  Once it is stored
\* its id has no entry yet, and it is linked under the sources its loop has
\* passed.
BeginInv ==
  \A c \in Contexts : add_pc[c] \in {"insert", "publish", "register"} =>
    SourcesOf[c] # {} /\ ~ Deleting(IdOf[c])

AddingInv ==
  \A c \in Contexts : add_pc[c] \in {"publish", "register"} =>
    /\ c \in subscriptions
    /\ sources_by_sub[IdOf[c]] = {}
    /\ add_pc[c] = "publish" =>
         \A s \in Sources : Linked(s, c) <=> s \in SourcesOf[c] /\ s \notin add_todo[c]
    /\ add_pc[c] = "register" =>
         \A s \in Sources : Linked(s, c) <=> s \in SourcesOf[c]

\* The loop of an add only visits sources of its context.
TodoInv == \A c \in Contexts : add_todo[c] \subseteq SourcesOf[c]

\* A delete of the id has found its entry, or found none.
Unlinking(i) == \E d \in Deleters : del_id[d] = i /\ del_pc[d] \in {"unlink", "erase"}

\* A settled context is linked under all of its sources.
SettledInv ==
  \A c \in subscriptions : add_pc[c] = "ok" /\ ~ Unlinking(IdOf[c]) =>
    /\ sources_by_sub[IdOf[c]] = SourcesOf[c]
    /\ \A s \in Sources : Linked(s, c) <=> s \in SourcesOf[c]

\* A deleter inside its loop works on a stored context, linked under the
\* sources that are left; past the loop nothing with its id is linked.
UnlinkInv ==
  \A d \in Deleters : del_pc[d] = "unlink" =>
    \E c \in subscriptions :
      /\ IdOf[c] = del_id[d] /\ add_pc[c] = "ok"
      /\ sources_by_sub[del_id[d]] = SourcesOf[c]
      /\ \A s \in Sources : Linked(s, c) <=> s \in del_todo[d]

EraseInv ==
  \A d \in Deleters : del_pc[d] = "erase" =>
    /\ sources_by_sub[del_id[d]] = {}
    /\ \A c \in Contexts : IdOf[c] = del_id[d] => \A s \in Sources : ~ Linked(s, c)

\* An entry belongs to a stored context whose add has returned.
EntryInv ==
  \A i \in Ids : sources_by_sub[i] # {} =>
    \E c \in subscriptions :
      IdOf[c] = i /\ add_pc[c] = "ok" /\ sources_by_sub[i] = SourcesOf[c]

IInv ==
  /\ TypeOK /\ UniqueIds /\ StoredInv /\ BeginInv /\ AddingInv /\ SettledInv
  /\ UnlinkInv /\ EraseInv /\ EntryInv /\ KeysAreSubscribed /\ TodoInv

-----------------------------------------------------------------------------
(* Every action preserves the invariant, one conjunct at a time *)

\* A delete has an id exactly while it is in progress, and holds the outer
\* mutex while it is in its loop.
LEMMA DeleterState ==
  ASSUME TypeOK, NEW e \in Deleters
  PROVE  /\ del_pc[e] \in {"new", "lookup", "unlink", "erase", "done"}
         /\ del_pc[e] \in {"new", "done"} <=> del_id[e] = NoId
         /\ del_pc[e] \notin {"new", "done"} => del_id[e] \in Ids
         /\ del_pc[e] = "unlink" => holder["sources_by_sub"] = e
<1>1. /\ del_pc[e] \in {"new", "done"} <=> del_id[e] = NoId
      /\ del_pc[e] = "unlink" => holder["sources_by_sub"] = e
  BY DEF TypeOK
<1>2. /\ del_pc[e] \in {"new", "lookup", "unlink", "erase", "done"}
      /\ del_id[e] \in Ids \union {NoId}
  BY DEF TypeOK
<1>3. QED BY <1>1, <1>2

\* Taking a mutex, looking up and visiting change none of the maps.
LEMMA SameIInv ==
  ASSUME IInv, TypeOK',
         UNCHANGED <<maps, add_pc, del_pc, del_id, add_todo, del_todo>>
  PROVE  IInv'
<1>1. (UniqueIds /\ StoredInv /\ BeginInv /\ AddingInv /\ SettledInv)'
  BY DEF IInv, UniqueIds, StoredInv, BeginInv, AddingInv, SettledInv, Linked, Deleting,
         Unlinking, maps
<1>2. (UnlinkInv /\ EraseInv /\ EntryInv /\ KeysAreSubscribed /\ TodoInv)'
  BY DEF IInv, UnlinkInv, EraseInv, EntryInv, KeysAreSubscribed, TodoInv, Linked, maps
<1>3. QED BY <1>1, <1>2 DEF IInv

LEMMA AddLockIInv ==
  ASSUME IInv, NEW c \in Contexts, AddLock(c)
  PROVE  IInv'
<1>1. AddMutex(c) \in Mutexes
  BY DEF AddLock, AddMutex, Mutexes
<1>2. TypeOK'
  BY <1>1, NullAssumption DEF AddLock, Lock, IInv, TypeOK, maps, Mutexes
<1>3. QED BY <1>2, SameIInv DEF AddLock

LEMMA DeleteLockIInv ==
  ASSUME IInv, NEW d \in Deleters, DeleteLock(d)
  PROVE  IInv'
<1>1. DeleteMutex(d) \in Mutexes
  BY DEF DeleteLock, DeleteMutex, Mutexes
<1>2. TypeOK'
  BY <1>1, NullAssumption DEF DeleteLock, Lock, IInv, TypeOK, maps, Mutexes
<1>3. QED BY <1>2, SameIInv DEF DeleteLock

LEMMA ChangeVectorType ==
  ASSUME TypeOK, NEW s \in Sources, ChangeVector(s)
  PROVE  span' \in [Notifiers -> [source : Sources \union {NoId},
                                  left : SUBSET Contexts, changed : BOOLEAN]]
BY DEF TypeOK, ChangeVector

LEMMA AddBeginIInv ==
  ASSUME ~ OverlapPerId, IInv, NEW c \in Contexts, AddBegin(c)
  PROVE  IInv'
<1> USE IdsAssumption, SourcesAssumption, NullAssumption DEF IInv, maps, Mutexes, Unlock, Return
<1>1. TypeOK'
  BY DEF AddBegin, TypeOK
<1>2. UniqueIds'
  BY DEF AddBegin, UniqueIds, TypeOK
<1>3. StoredInv'
  BY DEF AddBegin, StoredInv, Linked, TypeOK
<1>4. AddingInv'
  BY DEF AddBegin, AddingInv, StoredInv, Linked, Deleting, TypeOK
<1>4a. BeginInv'
  BY DEF AddBegin, BeginInv, Deleting, TypeOK
<1>5. SettledInv'
  BY DEF AddBegin, SettledInv, Linked, Unlinking, TypeOK
<1>6. UnlinkInv'
  BY DEF AddBegin, UnlinkInv, Linked, TypeOK
<1>7. EraseInv'
  BY DEF AddBegin, EraseInv, Linked, TypeOK
<1>8. EntryInv'
  BY DEF AddBegin, EntryInv, TypeOK
<1>9. KeysAreSubscribed'
  BY DEF AddBegin, KeysAreSubscribed, TypeOK
<1>10. TodoInv'
  BY DEF AddBegin, TodoInv, TypeOK
<1>11. QED BY <1>1, <1>2, <1>3, <1>4, <1>4a, <1>5, <1>6, <1>7, <1>8, <1>9, <1>10

LEMMA AddInsertIInv ==
  ASSUME IInv, NEW c \in Contexts, AddInsert(c)
  PROVE  IInv'
<1> USE IdsAssumption, SourcesAssumption, NullAssumption DEF IInv, maps, Mutexes, Unlock, Return
<1>1. TypeOK'
  BY DEF AddInsert, TypeOK
<1>2. UniqueIds'
  BY DEF AddInsert, UniqueIds, TypeOK
<1>3. StoredInv'
  <2>1. c \notin subscriptions
    BY DEF AddInsert, StoredInv
  <2>2. CASE \E o \in subscriptions : IdOf[o] = IdOf[c]
    BY <2>1, <2>2 DEF AddInsert, StoredInv, Linked, TypeOK
  <2>3. CASE ~ \E o \in subscriptions : IdOf[o] = IdOf[c]
    <3>1. /\ add_pc' = [add_pc EXCEPT ![c] = "publish"] /\ SourcesOf[c] # {}
          /\ subscriptions' = subscriptions \union {c} /\ by_source' = by_source
      BY <2>3 DEF AddInsert, BeginInv
    <3>2. QED BY <2>1, <3>1 DEF StoredInv, Linked, TypeOK
  <2>4. QED BY <2>2, <2>3
<1>4. AddingInv'
  <2>1. CASE \E o \in subscriptions : IdOf[o] = IdOf[c]
    <3>1. /\ add_pc' = [add_pc EXCEPT ![c] = "exists"]
          /\ UNCHANGED <<subscriptions, add_todo, by_source, sources_by_sub, del_id>>
      BY <2>1 DEF AddInsert
    <3>2. QED BY <3>1 DEF AddingInv, Linked, Deleting, TypeOK
  <2>2. CASE ~ \E o \in subscriptions : IdOf[o] = IdOf[c]
    <3>1. /\ add_pc' = [add_pc EXCEPT ![c] = "publish"]
          /\ add_todo' = [add_todo EXCEPT ![c] = SourcesOf[c]]
          /\ subscriptions' = subscriptions \union {c}
          /\ UNCHANGED <<by_source, sources_by_sub, del_id>>
      BY <2>2 DEF AddInsert
    <3>2. sources_by_sub[IdOf[c]] = {}
      BY <2>2 DEF AddInsert, EntryInv
    <3>3. \A s \in Sources : ~ Linked(s, c)
      BY <2>2 DEF StoredInv
    <3>4. QED BY <3>1, <3>2, <3>3 DEF AddingInv, Linked, Deleting, TypeOK
  <2>3. QED BY <2>1, <2>2
<1>4a. BeginInv'
  BY DEF AddInsert, BeginInv, Deleting, TypeOK
<1>5. SettledInv'
  BY DEF AddInsert, SettledInv, Linked, Unlinking, TypeOK
<1>6. UnlinkInv'
  BY DEF AddInsert, UnlinkInv, Linked, TypeOK
<1>7. EraseInv'
  BY DEF AddInsert, EraseInv, Linked, TypeOK
<1>8. EntryInv'
  BY DEF AddInsert, EntryInv, TypeOK
<1>9. KeysAreSubscribed'
  BY DEF AddInsert, KeysAreSubscribed, TypeOK
<1>10. TodoInv'
  BY DEF AddInsert, TodoInv, TypeOK
<1>11. QED BY <1>1, <1>2, <1>3, <1>4, <1>4a, <1>5, <1>6, <1>7, <1>8, <1>9, <1>10

LEMMA AddPublishIInv ==
  ASSUME IInv, NEW c \in Contexts, NEW s \in Sources, AddPublish(c, s)
  PROVE  IInv'
<1> USE IdsAssumption, SourcesAssumption, NullAssumption DEF IInv, maps, Mutexes, Unlock, Return
<1>1. TypeOK'
  BY ChangeVectorType DEF AddPublish, TypeOK
<1>2. UniqueIds'
  BY DEF AddPublish, UniqueIds, TypeOK
<1>3. StoredInv'
  BY DEF AddPublish, StoredInv, AddingInv, Linked, TypeOK
<1>4. AddingInv'
  <2> SUFFICES ASSUME NEW x \in Contexts, add_pc'[x] \in {"publish", "register"}
               PROVE  /\ x \in subscriptions'
                      /\ sources_by_sub'[IdOf[x]] = {}
                      /\ add_pc'[x] = "publish" =>
                           \A t \in Sources : Linked(t, x)' <=>
                             t \in SourcesOf[x] /\ t \notin add_todo'[x]
                      /\ add_pc'[x] = "register" =>
                           \A t \in Sources : Linked(t, x)' <=> t \in SourcesOf[x]
    BY DEF AddingInv
  <2>1. add_pc[x] \in {"publish", "register"}
    BY DEF AddPublish, TypeOK
  <2>2. x \in subscriptions' /\ sources_by_sub'[IdOf[x]] = {}
    BY <2>1 DEF AddPublish, AddingInv
  <2>3. CASE x # c
    BY <2>1, <2>2, <2>3 DEF AddPublish, AddingInv, Linked, TypeOK
  <2>4. CASE x = c
    <3>1. /\ add_todo' = [add_todo EXCEPT ![c] = @ \ {s}]
          /\ add_pc' = [add_pc EXCEPT ![c] = IF add_todo[c] = {s} THEN "register" ELSE @]
          /\ by_source' = by_source \union {<<s, c>>}
          /\ s \in add_todo[c] /\ add_pc[c] = "publish"
      BY DEF AddPublish
    <3>2. \A t \in Sources : Linked(t, c) <=> t \in SourcesOf[c] /\ t \notin add_todo[c]
      BY <3>1 DEF AddingInv
    <3>3. s \in SourcesOf[c]
      BY <3>1 DEF TodoInv
    <3>4. \A t \in Sources : Linked(t, c)' <=> Linked(t, c) \/ t = s
      BY <3>1 DEF Linked
    <3>5. CASE add_todo[c] = {s}
      BY <3>1, <3>2, <3>3, <3>4, <3>5, <2>2, <2>4 DEF TypeOK
    <3>6. CASE add_todo[c] # {s}
      BY <3>1, <3>2, <3>3, <3>4, <3>6, <2>2, <2>4 DEF TypeOK
    <3>7. QED BY <3>5, <3>6
  <2>5. QED BY <2>3, <2>4
<1>4a. BeginInv'
  BY DEF AddPublish, BeginInv, Deleting, TypeOK
<1>5. SettledInv'
  BY DEF AddPublish, SettledInv, Linked, Unlinking, TypeOK
<1>6. UnlinkInv'
  BY DEF AddPublish, UnlinkInv, Linked, TypeOK
<1>7. EraseInv'
  <2>1. ~ Deleting(IdOf[c])
    BY DEF AddPublish, BeginInv
  <2>2. QED BY <2>1 DEF AddPublish, EraseInv, Linked, TypeOK, Deleting
<1>8. EntryInv'
  BY DEF AddPublish, EntryInv, TypeOK
<1>9. KeysAreSubscribed'
  BY DEF AddPublish, KeysAreSubscribed, TypeOK
<1>10. TodoInv'
  BY DEF AddPublish, TodoInv, TypeOK
<1>11. QED BY <1>1, <1>2, <1>3, <1>4, <1>4a, <1>5, <1>6, <1>7, <1>8, <1>9, <1>10

LEMMA AddRegisterIInv ==
  ASSUME IInv, NEW c \in Contexts, AddRegister(c)
  PROVE  IInv'
<1> USE IdsAssumption, SourcesAssumption, NullAssumption DEF IInv, maps, Mutexes, Unlock, Return
<1>1. TypeOK'
  BY DEF AddRegister, TypeOK
<1>2. UniqueIds'
  BY DEF AddRegister, UniqueIds, TypeOK
<1>3. StoredInv'
  BY DEF AddRegister, StoredInv, Linked, TypeOK
<1>4. AddingInv'
  <2>1. c \in subscriptions /\ sources_by_sub[IdOf[c]] = {} /\ ~ Deleting(IdOf[c])
    BY DEF AddRegister, AddingInv, BeginInv
  <2>2. \A x \in Contexts : add_pc'[x] \in {"publish", "register"} => IdOf[x] # IdOf[c]
    BY <2>1 DEF AddRegister, AddingInv, UniqueIds, TypeOK
  <2>3. QED BY <2>1, <2>2 DEF AddRegister, AddingInv, Linked, Deleting, TypeOK
<1>4a. BeginInv'
  BY DEF AddRegister, BeginInv, Deleting, TypeOK
<1>5. SettledInv'
  <2>1. c \in subscriptions /\ sources_by_sub[IdOf[c]] = {} /\ ~ Deleting(IdOf[c])
    BY DEF AddRegister, AddingInv, BeginInv
  <2>2. \A x \in subscriptions : x # c => IdOf[x] # IdOf[c]
    BY <2>1 DEF UniqueIds
  <2>3. sources_by_sub' = [sources_by_sub EXCEPT ![IdOf[c]] = SourcesOf[c]]
    BY <2>1 DEF AddRegister, TypeOK
  <2>4. \A s \in Sources : Linked(s, c)' <=> s \in SourcesOf[c]
    BY DEF AddRegister, AddingInv, Linked
  <2>5. /\ add_pc' = [add_pc EXCEPT ![c] = "ok"]
        /\ UNCHANGED <<subscriptions, by_source, del_id, del_pc>>
    BY DEF AddRegister
  <2>6. \A x \in subscriptions : Unlinking(IdOf[x])' <=> Unlinking(IdOf[x])
    BY <2>5 DEF Unlinking
  <2>7. \A x \in subscriptions \ {c} :
          /\ add_pc'[x] = add_pc[x]
          /\ sources_by_sub'[IdOf[x]] = sources_by_sub[IdOf[x]]
          /\ \A s \in Sources : Linked(s, x)' <=> Linked(s, x)
    BY <2>2, <2>3, <2>5 DEF TypeOK, Linked
  <2>8. sources_by_sub'[IdOf[c]] = SourcesOf[c]
    BY <2>1, <2>3 DEF TypeOK
  <2>9. QED BY <2>4, <2>5, <2>6, <2>7, <2>8 DEF SettledInv
<1>6. UnlinkInv'
  BY DEF AddRegister, UnlinkInv, Linked, TypeOK
<1>7. EraseInv'
  <2>1. c \in subscriptions /\ sources_by_sub[IdOf[c]] = {} /\ ~ Deleting(IdOf[c])
    BY DEF AddRegister, AddingInv, BeginInv
  <2>2. QED BY <2>1 DEF AddRegister, EraseInv, Linked, TypeOK, Deleting
<1>8. EntryInv'
  <2>1. c \in subscriptions /\ sources_by_sub[IdOf[c]] = {} /\ ~ Deleting(IdOf[c])
    BY DEF AddRegister, AddingInv, BeginInv
  <2>2. sources_by_sub' = [sources_by_sub EXCEPT ![IdOf[c]] = SourcesOf[c]]
    BY <2>1 DEF AddRegister, TypeOK
  <2>3. add_pc' = [add_pc EXCEPT ![c] = "ok"] /\ subscriptions' = subscriptions
    BY DEF AddRegister
  <2>4. QED BY <2>1, <2>2, <2>3 DEF EntryInv, TypeOK
<1>9. KeysAreSubscribed'
  BY DEF AddRegister, KeysAreSubscribed, TypeOK
<1>10. TodoInv'
  BY DEF AddRegister, TodoInv, TypeOK
<1>11. QED BY <1>1, <1>2, <1>3, <1>4, <1>4a, <1>5, <1>6, <1>7, <1>8, <1>9, <1>10

LEMMA DeleteBeginIInv ==
  ASSUME ~ OverlapPerId, IInv, NEW d \in Deleters, NEW i \in Ids, DeleteBegin(d, i)
  PROVE  IInv'
<1> USE IdsAssumption, SourcesAssumption, NullAssumption DEF IInv, maps
<1>1. TypeOK'
  BY DEF DeleteBegin, TypeOK
<1>2. (UniqueIds /\ StoredInv /\ AddingInv /\ EntryInv /\ KeysAreSubscribed /\ TodoInv)'
  BY DEF DeleteBegin, UniqueIds, StoredInv, AddingInv, EntryInv, KeysAreSubscribed, TodoInv, Linked
<1>3. BeginInv'
  <2>1. \A x \in Contexts : add_pc[x] \in {"insert", "publish", "register"} => IdOf[x] # i
    BY DEF DeleteBegin, MayDelete, Adding
  <2>2. QED BY <2>1 DEF DeleteBegin, BeginInv, Deleting, TypeOK
<1>4. \A e \in Deleters : del_pc'[e] \in {"unlink", "erase"} =>
        e # d /\ del_pc[e] = del_pc'[e] /\ del_id[e] = del_id'[e]
  BY DEF DeleteBegin, TypeOK
<1>5. SettledInv'
  <2>1. \A x \in Contexts : Unlinking(IdOf[x]) => Unlinking(IdOf[x])'
    <3> SUFFICES ASSUME NEW x \in Contexts, NEW e \in Deleters, del_id[e] = IdOf[x],
                        del_pc[e] \in {"unlink", "erase"}
                 PROVE  del_id'[e] = IdOf[x] /\ del_pc'[e] = del_pc[e]
      BY DEF Unlinking
    <3>1. e # d
      BY DEF DeleteBegin
    <3>2. QED BY <3>1 DEF DeleteBegin, TypeOK
  <2>2. UNCHANGED <<subscriptions, add_pc, sources_by_sub, by_source>>
    BY DEF DeleteBegin
  <2>3. subscriptions \subseteq Contexts
    BY DEF TypeOK
  <2>4. QED BY <2>1, <2>2, <2>3 DEF SettledInv, Linked
<1>6. UnlinkInv'
  BY <1>4 DEF DeleteBegin, UnlinkInv, Linked
<1>7. EraseInv'
  BY <1>4 DEF DeleteBegin, EraseInv, Linked
<1>8. QED BY <1>1, <1>2, <1>3, <1>5, <1>6, <1>7

LEMMA DeleteLookupIInv ==
  ASSUME IInv, NEW d \in Deleters, DeleteLookup(d)
  PROVE  IInv'
<1> USE IdsAssumption, SourcesAssumption, NullAssumption DEF IInv, maps, Mutexes, Unlock
<1> DEFINE i == del_id[d]
<1>0. i \in Ids /\ \A e \in Deleters : del_pc[e] # "unlink"
  BY DeleterState DEF DeleteLookup
<1>1. TypeOK'
  BY <1>0 DEF DeleteLookup, TypeOK
<1>2. (UniqueIds /\ StoredInv /\ AddingInv /\ EntryInv /\ KeysAreSubscribed /\ TodoInv)'
  BY DEF DeleteLookup, UniqueIds, StoredInv, AddingInv, EntryInv, KeysAreSubscribed, TodoInv, Linked
<1>3. BeginInv'
  BY DEF DeleteLookup, BeginInv, Deleting
<1>4. \A e \in Deleters : e # d => del_pc'[e] = del_pc[e]
  BY DEF DeleteLookup, TypeOK
<1>5. SettledInv'
  <2>1. \A x \in Contexts : Unlinking(IdOf[x]) => Unlinking(IdOf[x])'
    BY <1>4 DEF Unlinking, DeleteLookup
  <2>2. UNCHANGED <<subscriptions, add_pc, sources_by_sub, by_source>>
    BY DEF DeleteLookup
  <2>3. subscriptions \subseteq Contexts
    BY DEF TypeOK
  <2>4. QED BY <2>1, <2>2, <2>3 DEF SettledInv, Linked
<1>6. UnlinkInv'
  <2>1. CASE sources_by_sub[i] # {}
    <3>1. PICK c \in subscriptions :
            IdOf[c] = i /\ add_pc[c] = "ok" /\ sources_by_sub[i] = SourcesOf[c]
      BY <1>0, <2>1 DEF EntryInv
    <3>2. ~ Unlinking(i)
      BY <1>0, <2>1 DEF EraseInv, Unlinking
    <3>3. \A s \in Sources : Linked(s, c) <=> s \in SourcesOf[c]
      BY <3>1, <3>2 DEF SettledInv
    <3>4. QED BY <1>0, <1>4, <2>1, <3>1, <3>3 DEF DeleteLookup, UnlinkInv, Linked, TypeOK
  <2>2. CASE sources_by_sub[i] = {}
    BY <1>0, <1>4, <2>2 DEF DeleteLookup, UnlinkInv, Linked, TypeOK
  <2>3. QED BY <2>1, <2>2
<1>7. EraseInv'
  <2>1. CASE sources_by_sub[i] # {}
    BY <1>4, <2>1 DEF DeleteLookup, EraseInv, Linked, TypeOK
  <2>2. CASE sources_by_sub[i] = {}
    <3>1. ASSUME NEW c \in Contexts, IdOf[c] = i, NEW s \in Sources, Linked(s, c)
          PROVE  FALSE
      <4>1. c \in subscriptions /\ SourcesOf[c] # {} /\ add_pc[c] = "ok"
        BY <3>1 DEF StoredInv, BeginInv, Deleting
      <4>2. PICK e \in Deleters : del_id[e] = i /\ del_pc[e] \in {"unlink", "erase"}
        BY <4>1, <3>1, <2>2 DEF SettledInv, Unlinking
      <4>3. QED BY <1>0, <4>2, <3>1 DEF EraseInv
    <3>2. QED BY <1>4, <2>2, <3>1 DEF DeleteLookup, EraseInv, Linked, TypeOK
  <2>3. QED BY <2>1, <2>2
<1>8. QED BY <1>1, <1>2, <1>3, <1>5, <1>6, <1>7

LEMMA DeleteUnlinkIInv ==
  ASSUME IInv, NEW d \in Deleters, NEW s \in Sources, DeleteUnlink(d, s)
  PROVE  IInv'
<1> USE IdsAssumption, SourcesAssumption, NullAssumption DEF IInv, maps, Mutexes, Unlock, Return
<1>0. PICK c \in subscriptions :
        /\ IdOf[c] = del_id[d] /\ add_pc[c] = "ok"
        /\ sources_by_sub[del_id[d]] = SourcesOf[c]
        /\ \A t \in Sources : Linked(t, c) <=> t \in del_todo[d]
        /\ by_source' = by_source \ {<<s, c>>}
        /\ source_keys' = IF \E o \in Contexts : <<s, o>> \in by_source'
                            THEN source_keys ELSE source_keys \ {s}
  <2>1. PICK c \in subscriptions :
          /\ IdOf[c] = del_id[d] /\ add_pc[c] = "ok"
          /\ sources_by_sub[del_id[d]] = SourcesOf[c]
          /\ \A t \in Sources : Linked(t, c) <=> t \in del_todo[d]
    BY DEF DeleteUnlink, UnlinkInv
  <2>2. {o \in Contexts : <<s, o>> \in by_source /\ IdOf[o] = del_id[d]} = {c}
    BY <2>1 DEF DeleteUnlink, StoredInv, UniqueIds, Linked, TypeOK
  <2>3. QED BY <2>1, <2>2 DEF DeleteUnlink
<1>1. TypeOK'
  <2>1. span' \in [Notifiers -> [source : Sources \union {NoId},
                                 left : SUBSET Contexts, changed : BOOLEAN]]
    BY ChangeVectorType DEF DeleteUnlink, TypeOK
  <2>2. by_source' \subseteq by_source /\ source_keys' \subseteq source_keys
    BY <1>0
  <2>3. QED BY <2>1, <2>2 DEF DeleteUnlink, TypeOK
<1>2. UniqueIds'
  BY DEF DeleteUnlink, UniqueIds, TypeOK
<1>3. StoredInv'
  BY <1>0 DEF DeleteUnlink, StoredInv, Linked, TypeOK
<1>4. AddingInv'
  BY <1>0 DEF DeleteUnlink, AddingInv, Linked, Deleting, TypeOK
<1>4a. BeginInv'
  BY DEF DeleteUnlink, BeginInv, Deleting, TypeOK
<1>5. SettledInv'
  <2>1. Unlinking(IdOf[c])'
    BY <1>0 DEF DeleteUnlink, Unlinking
  <2>2. \A x \in Contexts \ {c}, t \in Sources : Linked(t, x)' <=> Linked(t, x)
    BY <1>0 DEF Linked
  <2>3. \A x \in Contexts : Unlinking(IdOf[x])' <=> Unlinking(IdOf[x])
    BY DEF DeleteUnlink, Unlinking
  <2>4. UNCHANGED <<subscriptions, add_pc, sources_by_sub>> /\ subscriptions \subseteq Contexts
    BY DEF DeleteUnlink, TypeOK
  <2>5. QED BY <2>1, <2>2, <2>3, <2>4 DEF SettledInv
<1>6. UnlinkInv'
  <2>1. \A e \in Deleters : del_pc[e] = "unlink" => e = d
    BY DeleterState DEF DeleteUnlink
  <2>2. \A t \in Sources : Linked(t, c)' <=> t \in del_todo'[d]
    BY <1>0 DEF DeleteUnlink, Linked, TypeOK
  <2>3. UNCHANGED <<del_pc, del_id, add_pc, subscriptions, sources_by_sub>>
    BY DEF DeleteUnlink
  <2>4. QED BY <1>0, <2>1, <2>2, <2>3 DEF UnlinkInv
<1>7. EraseInv'
  BY DEF DeleteUnlink, EraseInv, Linked, TypeOK
<1>8. EntryInv'
  BY DEF DeleteUnlink, EntryInv, TypeOK
<1>9. KeysAreSubscribed'
  <2>1. \A t \in Sources \ {s}, o \in Contexts :
          <<t, o>> \in by_source' <=> <<t, o>> \in by_source
    BY <1>0
  <2>2. s \in source_keys
    BY <1>0 DEF DeleteUnlink, Linked, KeysAreSubscribed, TypeOK
  <2>3. QED BY <1>0, <2>1, <2>2 DEF KeysAreSubscribed, TypeOK
<1>10. TodoInv'
  BY DEF DeleteUnlink, TodoInv, TypeOK
<1>11. QED BY <1>1, <1>2, <1>3, <1>4, <1>4a, <1>5, <1>6, <1>7, <1>8, <1>9, <1>10

LEMMA DeleteUnregisterIInv ==
  ASSUME IInv, NEW d \in Deleters, DeleteUnregister(d)
  PROVE  IInv'
<1> USE IdsAssumption, SourcesAssumption, NullAssumption DEF IInv, maps, Mutexes, Unlock, Return
<1>1. TypeOK'
  <2>1. del_id[d] \in Ids /\ \A e \in Deleters : del_pc[e] = "unlink" => e = d
    BY DeleterState DEF DeleteUnregister
  <2>2. QED BY <2>1 DEF DeleteUnregister, TypeOK
<1>2. UniqueIds'
  BY DEF DeleteUnregister, UniqueIds, TypeOK
<1>3. StoredInv'
  BY DEF DeleteUnregister, StoredInv, Linked, TypeOK
<1>4. AddingInv'
  BY DEF DeleteUnregister, AddingInv, StoredInv, Linked, Deleting, TypeOK
<1>4a. BeginInv'
  BY DEF DeleteUnregister, BeginInv, Deleting, TypeOK
<1>5. SettledInv'
  BY DEF DeleteUnregister, SettledInv, Linked, Unlinking, TypeOK
<1>6. UnlinkInv'
  BY DEF DeleteUnregister, UnlinkInv, Linked, TypeOK
<1>7. EraseInv'
  <2>1. PICK c \in subscriptions :
          /\ IdOf[c] = del_id[d]
          /\ \A t \in Sources : ~ Linked(t, c)
    BY DEF DeleteUnregister, UnlinkInv
  <2>2. \A o \in Contexts, t \in Sources : IdOf[o] = del_id[d] => ~ Linked(t, o)
    BY <2>1 DEF StoredInv, UniqueIds
  <2>3. del_id[d] \in Ids
    BY DeleterState DEF DeleteUnregister
  <2>4. sources_by_sub' = [sources_by_sub EXCEPT ![del_id[d]] = {}]
    BY DEF DeleteUnregister
  <2>5. \A i \in Ids : sources_by_sub[i] = {} \/ i = del_id[d] => sources_by_sub'[i] = {}
    BY <2>3, <2>4 DEF TypeOK
  <2>6. \A e \in Deleters : del_pc'[e] = "erase" => e = d \/ del_pc[e] = "erase"
    BY DEF DeleteUnregister, TypeOK
  <2>7. \A e \in Deleters : del_pc[e] = "erase" => del_id[e] \in Ids
    BY DeleterState
  <2>8. UNCHANGED <<del_id, by_source>>
    BY DEF DeleteUnregister
  <2>9. QED BY <2>2, <2>3, <2>5, <2>6, <2>7, <2>8 DEF EraseInv, Linked
<1>8. EntryInv'
  BY DEF DeleteUnregister, EntryInv, TypeOK
<1>9. KeysAreSubscribed'
  BY DEF DeleteUnregister, KeysAreSubscribed, TypeOK
<1>10. TodoInv'
  BY DEF DeleteUnregister, TodoInv, TypeOK
<1>11. QED BY <1>1, <1>2, <1>3, <1>4, <1>4a, <1>5, <1>6, <1>7, <1>8, <1>9, <1>10

LEMMA DeleteEraseIInv ==
  ASSUME IInv, NEW d \in Deleters, DeleteErase(d)
  PROVE  IInv'
<1> USE IdsAssumption, SourcesAssumption, NullAssumption DEF IInv, maps, Mutexes, Unlock, Return
<1>1. TypeOK'
  BY DEF DeleteErase, TypeOK
<1>2. UniqueIds'
  BY DEF DeleteErase, UniqueIds, TypeOK
<1>3. StoredInv'
  BY DEF DeleteErase, StoredInv, EraseInv, Linked, TypeOK
<1>4. AddingInv'
  <2>1. \A x \in Contexts : add_pc[x] \in {"publish", "register"} => IdOf[x] # del_id[d]
    BY DEF BeginInv, Deleting
  <2>2. QED BY <2>1 DEF DeleteErase, AddingInv, Linked, TypeOK
<1>4a. BeginInv'
  BY DEF DeleteErase, BeginInv, Deleting, TypeOK
<1>5. SettledInv'
  BY DEF DeleteErase, SettledInv, Linked, Unlinking, TypeOK
<1>6. UnlinkInv'
  <2>1. \A e \in Deleters : del_pc[e] = "unlink" => del_id[e] # del_id[d]
    BY DEF DeleteErase, UnlinkInv, EraseInv, StoredInv
  <2>2. QED BY <2>1 DEF DeleteErase, UnlinkInv, Linked, TypeOK
<1>7. EraseInv'
  BY DEF DeleteErase, EraseInv, Linked, TypeOK
<1>8. EntryInv'
  BY DEF DeleteErase, EntryInv, EraseInv, TypeOK
<1>9. KeysAreSubscribed'
  BY DEF DeleteErase, KeysAreSubscribed, TypeOK
<1>10. TodoInv'
  BY DEF DeleteErase, TodoInv, TypeOK
<1>11. QED BY <1>1, <1>2, <1>3, <1>4, <1>4a, <1>5, <1>6, <1>7, <1>8, <1>9, <1>10

LEMMA InitIInv == Init => IInv
<1> SUFFICES ASSUME Init PROVE IInv
  OBVIOUS
<1> USE IdsAssumption, SourcesAssumption, NullAssumption DEF Init
<1>1. TypeOK
  BY DEF TypeOK, NoSpan, Mutexes
<1>2. UniqueIds /\ StoredInv /\ BeginInv /\ AddingInv /\ SettledInv
  BY DEF UniqueIds, StoredInv, BeginInv, AddingInv, SettledInv, Linked, Deleting
<1>3. UnlinkInv /\ EraseInv /\ EntryInv /\ KeysAreSubscribed /\ TodoInv
  BY DEF UnlinkInv, EraseInv, EntryInv, KeysAreSubscribed, TodoInv
<1>4. QED BY <1>1, <1>2, <1>3 DEF IInv

LEMMA NextIInv ==
  ASSUME ~ OverlapPerId, IInv, [Next]_vars
  PROVE  IInv'
<1>1. CASE UNCHANGED vars
  <2>1. TypeOK'
    BY <1>1 DEF IInv, TypeOK, vars
  <2>2. QED BY <1>1, <2>1, SameIInv DEF vars, maps
<1>2. ASSUME NEW c \in Contexts, AddBegin(c) \/ AddLock(c) \/ AddStep(c)
      PROVE  IInv'
  BY <1>2, AddBeginIInv, AddLockIInv, AddInsertIInv, AddPublishIInv, AddRegisterIInv DEF AddStep
<1>3. ASSUME NEW d \in Deleters, NEW i \in Ids, DeleteBegin(d, i) PROVE IInv'
  BY <1>3, DeleteBeginIInv
<1>4. ASSUME NEW d \in Deleters, DeleteLock(d) \/ DeleteStep(d) PROVE IInv'
  BY <1>4, DeleteLockIInv, DeleteLookupIInv, DeleteUnlinkIInv, DeleteUnregisterIInv,
     DeleteEraseIInv DEF DeleteStep
<1>5. ASSUME NEW n \in Notifiers, NEW s \in Sources, GetSubscriptionsByEventSourceId(n, s)
      PROVE  IInv'
  <2>1. TypeOK'
    BY <1>5 DEF GetSubscriptionsByEventSourceId, IInv, TypeOK, maps
  <2>2. QED BY <1>5, <2>1, SameIInv DEF GetSubscriptionsByEventSourceId
<1>6. ASSUME NEW n \in Notifiers, NEW c \in Contexts, VisitContext(n, c) PROVE IInv'
  <2>1. TypeOK'
    BY <1>6 DEF VisitContext, IInv, TypeOK, maps
  <2>2. QED BY <1>6, <2>1, SameIInv DEF VisitContext
<1>7. ASSUME NEW n \in Notifiers, NotifyEnds(n) PROVE IInv'
  <2>1. TypeOK'
    BY <1>7 DEF NotifyEnds, IInv, TypeOK, maps, NoSpan
  <2>2. QED BY <1>7, <2>1, SameIInv DEF NotifyEnds
<1>8. QED BY <1>1, <1>2, <1>3, <1>4, <1>5, <1>6, <1>7 DEF Next

\* What the invariant says of the store.
LEMMA IInvImplies ==
  ASSUME IInv
  PROVE  /\ TypeOK /\ PointersAreLive /\ KeysAreSubscribed
         /\ AddedIsReachable /\ DeletedIsForgotten
<1>1. PointersAreLive
  <2> SUFFICES ASSUME NEW p \in by_source PROVE p[2] \in subscriptions
    BY DEF PointersAreLive
  <2>1. p \in Sources \X Contexts
    BY DEF IInv, TypeOK
  <2>2. Linked(p[1], p[2])
    BY <2>1 DEF Linked
  <2>3. QED BY <2>1, <2>2 DEF IInv, StoredInv
<1>2. AddedIsReachable
  <2> SUFFICES ASSUME NEW c \in subscriptions, add_pc[c] = "ok", ~ Deleting(IdOf[c])
               PROVE  /\ SourcesOf[c] \X {c} \subseteq by_source
                      /\ sources_by_sub[IdOf[c]] = SourcesOf[c]
    BY DEF AddedIsReachable
  <2>1. SourcesOf[c] \subseteq Sources
    BY SourcesAssumption DEF IInv, TypeOK
  <2>2. c \in Contexts /\ ~ Unlinking(IdOf[c])
    BY DEF IInv, TypeOK, Unlinking, Deleting
  <2>3. QED BY <2>1, <2>2 DEF IInv, SettledInv, Linked
<1>3. DeletedIsForgotten
  BY DEF IInv, EntryInv, DeletedIsForgotten
<1>4. QED BY <1>1, <1>2, <1>3 DEF IInv

LEMMA SpecIInv ==
  ASSUME ~ OverlapPerId
  PROVE  Spec => []IInv
<1>1. Init => IInv
  BY InitIInv
<1>2. IInv /\ [Next]_vars => IInv'
  BY NextIInv
<1>3. QED BY <1>1, <1>2, PTL DEF Spec

\* The store's maps, program counters and mutex are well typed throughout.
THEOREM TypeCorrect ==
  ASSUME ~ OverlapPerId
  PROVE  Spec => []TypeOK
<1>1. IInv => TypeOK
  BY DEF IInv
<1>2. QED BY <1>1, SpecIInv, PTL

\* DeleteSubscription destroys a context only after every raw pointer to it is
\* gone from subscriptions_by_event_sources_.
THEOREM NoDanglingPointer ==
  ASSUME ~ OverlapPerId
  PROVE  Spec => []PointersAreLive
<1>1. IInv => PointersAreLive
  BY IInvImplies
<1>2. QED BY <1>1, SpecIInv, PTL

\* No vector of subscriptions_by_event_sources_ is ever left empty, although
\* DeleteSubscriptionFromEventSources creates a missing one.
THEOREM NoEmptyVector ==
  ASSUME ~ OverlapPerId
  PROVE  Spec => []KeysAreSubscribed
<1>1. IInv => KeysAreSubscribed
  BY IInvImplies
<1>2. QED BY <1>1, SpecIInv, PTL

\* A subscription whose add has returned and that is not being deleted is
\* reachable from all of its sources, and no deleted id leaves an entry.
THEOREM MapsAgree ==
  ASSUME ~ OverlapPerId
  PROVE  Spec => [](AddedIsReachable /\ DeletedIsForgotten)
<1>1. IInv => AddedIsReachable /\ DeletedIsForgotten
  BY IInvImplies
<1>2. QED BY <1>1, SpecIInv, PTL

-----------------------------------------------------------------------------
(* What a lookup returns *)

Subscribed(s) == {c \in subscriptions : s \in SourcesOf[c]}
Settled(s) == {c \in Subscribed(s) : add_pc[c] = "ok" /\ ~ Deleting(IdOf[c])}

\* GetSubscriptionsByEventSourceId finds every subscription to the source whose
\* add has returned and whose delete has not begun, and nothing but live
\* subscriptions to that source; it answers NotFound only if there is none of
\* the former.  SubscriptionService relies on this when it treats the store as
\* one set.
LookupFindsSubscribers ==
  \A n \in Notifiers, s \in Sources :
    /\ GetSubscriptionsByEventSourceId(n, s) =>
         Settled(s) \subseteq span'[n].left /\ span'[n].left \subseteq Subscribed(s)
    /\ s \notin source_keys => Settled(s) = {}

\* A context is only linked under its own sources.
OwnSources == \A s \in Sources, c \in Contexts : Linked(s, c) => s \in SourcesOf[c]

LEMMA NextOwnSources == ASSUME IInv, OwnSources, [Next]_vars PROVE OwnSources'
<1>1. ASSUME NEW c \in Contexts, NEW s \in Sources, AddPublish(c, s) PROVE OwnSources'
  <2>1. s \in SourcesOf[c] /\ by_source' = by_source \union {<<s, c>>}
    BY <1>1 DEF AddPublish, IInv, TodoInv
  <2>2. QED BY <2>1 DEF OwnSources, Linked
<1>2. ASSUME NEW d \in Deleters, NEW s \in Sources, DeleteUnlink(d, s) PROVE OwnSources'
  <2>1. by_source' \subseteq by_source
    BY <1>2 DEF DeleteUnlink
  <2>2. QED BY <2>1 DEF OwnSources, Linked
<1>3. CASE UNCHANGED by_source
  BY <1>3 DEF OwnSources, Linked
<1>4. \/ \E c \in Contexts, s \in Sources : AddPublish(c, s)
      \/ \E d \in Deleters, s \in Sources : DeleteUnlink(d, s)
      \/ UNCHANGED by_source
  BY DEF Next, vars, maps, AddBegin, AddLock, AddStep, AddInsert, AddRegister, DeleteBegin,
         DeleteLock, DeleteStep, DeleteLookup, DeleteUnregister, DeleteErase,
         GetSubscriptionsByEventSourceId, VisitContext, NotifyEnds
<1>5. QED BY <1>1, <1>2, <1>3, <1>4

LEMMA LookupReturns == ASSUME IInv, OwnSources PROVE LookupFindsSubscribers
<1>1. \A s \in Sources : \A c \in Settled(s) : Linked(s, c) /\ c \in Contexts
  BY DEF IInv, TypeOK, SettledInv, Settled, Subscribed, Deleting, Unlinking
<1>2. \A s \in Sources, c \in Contexts : Linked(s, c) => c \in Subscribed(s)
  BY DEF IInv, StoredInv, OwnSources, Subscribed
<1>3. ASSUME NEW n \in Notifiers, NEW s \in Sources, GetSubscriptionsByEventSourceId(n, s)
      PROVE  Settled(s) \subseteq span'[n].left /\ span'[n].left \subseteq Subscribed(s)
  <2>1. span'[n].left = {c \in Contexts : <<s, c>> \in by_source}
    BY <1>3 DEF GetSubscriptionsByEventSourceId, IInv, TypeOK
  <2>2. QED BY <1>1, <1>2, <2>1 DEF Linked
<1>4. ASSUME NEW s \in Sources, s \notin source_keys PROVE Settled(s) = {}
  BY <1>1, <1>4 DEF IInv, KeysAreSubscribed, Linked
<1>5. QED BY <1>3, <1>4 DEF LookupFindsSubscribers

\* Although adds and deletes are half done in between, a lookup misses no
\* subscription that is there and returns none that is not, or is another
\* source's.
THEOREM LookupsFindSubscribers ==
  ASSUME ~ OverlapPerId
  PROVE  Spec => [][LookupFindsSubscribers]_vars
<1>1. Init => OwnSources
  BY DEF Init, OwnSources, Linked
<1>2. IInv /\ OwnSources /\ [Next]_vars => OwnSources'
  BY NextOwnSources
<1>3. IInv /\ OwnSources => LookupFindsSubscribers
  BY LookupReturns
<1>4. QED BY <1>1, <1>2, <1>3, SpecIInv, PTL DEF Spec
=============================================================================
