------------------------ MODULE RedfishClientProofs ------------------------
(***************************************************************************)
(* For any number of threads, requests, authentications and replacements   *)
(* of the transport: a request never sees two endpoints, the override      *)
(* policy of a transport is decided once, and sessions are released.       *)
(***************************************************************************)
EXTENDS RedfishClient, FiniteSetTheorems, TLAPS

\* The reader lock and the writer lock exclude each other.
LockInv ==
  /\ \A t \in Threads : frame[t].pc \in InRequest => t \in lock.readers
  /\ lock.writer # None => lock.readers = {}
  /\ frame[Admin].pc \in {"exchange", "newcache"} => lock.writer = Admin

\* The cache reads the transport in use and holds answers of it, except while
\* UpdateTransport is between its two assignments.
EndpointInv ==
  /\ transport \in alive /\ trusted = transport
  /\ frame[Admin].pc # "newcache" => cache.of = transport
  /\ cache.held # NoAnswer => cache.held.gen = cache.of
  /\ frame[Admin].pc \in {"writelock", "exchange"} =>
       frame[Admin].gen = transport + 1 /\ transport + 1 \in alive

\* A request works on the transport in use and its answer is from there.
RequestInv(t) ==
  /\ frame[t].pc \in {"validate", "enter", "http"} => frame[t].answer = NoAnswer
  /\ frame[t].pc \in InRequest => frame[t].gen = transport /\ frame[t].gen = cache.of
  /\ frame[t].pc \in InRequest \ {"http"} => frame[t].answer.gen = frame[t].gen

\* An answer that was edited was edited with the context of its transport,
\* which is then there for good.
EditedWell(a, o) ==
  a.policy # NoPolicy =>
    /\ a.gen \in Transports
    /\ o[a.gen].notified
    /\ a.policy = o[a.gen].context

OverrideInv ==
  /\ \A g \in Transports :
       /\ override[g].once = "unset" => ~override[g].notified
       /\ edited[g] \subseteq {override[g].context}
       /\ edited[g] # {} => override[g].notified
  /\ EditedWell(cache.held, override)

\* What a request owes to the answers that came back before it was sent.
OwedInv(t) ==
  /\ EditedWell(frame[t].answer, override)
  /\ frame[t].pc \in {"validate", "enter"} => frame[t].owed = {}
  /\ frame[t].pc \in InRequest \ {"http", "leave"} => frame[t].owed \subseteq edited[frame[t].gen]
  /\ frame[t].pc = "leave" => frame[t].owed \subseteq {frame[t].answer.policy}

SessionSets == [opened : SUBSET Sessions, unnamed : SUBSET Sessions, ended : SUBSET Sessions]
USE DEF SessionSets

\* Sessions that no transport may use any more.
Gone == sessions.ended \union sessions.unnamed

\* Sessions are numbered by the authentication that opened them.
SessionInv ==
  /\ sessions.unnamed \subseteq sessions.opened
  /\ \A g \in Transports :
       /\ http[g].session # NoSession =>
            http[g].session[1] = g /\ http[g].session \in sessions.opened
       /\ g > transport => http[g].session = NoSession
  /\ \A s \in sessions.opened \union sessions.ended :
       /\ s[2] <= frame[Admin].ops
       /\ frame[Admin].pc = "auth" => s[2] < frame[Admin].ops
  /\ frame[Admin].pc = "auth" =>
       frame[Admin].gen = transport /\ http[transport].session = NoSession

IInv ==
  /\ TypeOK
  /\ LockInv
  /\ EndpointInv
  /\ OverrideInv
  /\ \A t \in Threads : RequestInv(t) /\ OwedInv(t)
  /\ SessionInv
  /\ SessionsAreReleased

-----------------------------------------------------------------------------
LEMMA IdleFacts ==
  ASSUME NEW n \in Nat
  PROVE  /\ Idle(n) \in Frames
         /\ Idle(n).pc = "idle" /\ Idle(n).op = None /\ Idle(n).ops = n /\ Idle(n).gen = 0
         /\ Idle(n).answer = NoAnswer /\ Idle(n).owed = {} /\ Idle(n).nested = FALSE
BY ClientAssumption
   DEF Idle, Frames, ThreadSteps, AdminSteps, NoAnswer, Answers, NoPolicy, Operations

LEMMA InitIInv == Init => IInv
<1> SUFFICES ASSUME Init PROVE IInv
  OBVIOUS
<1>1. 1 \in Transports /\ NoAnswer \in Answers /\ <<1, 0>> \in Sessions
  BY ClientAssumption DEF Transports, NoAnswer, Answers, NoPolicy, Sessions
<1>2. \A t \in Users : frame[t] = Idle(0)
  BY DEF Init
<1>3. \A t \in Users : frame[t] \in Frames /\ frame[t].pc = "idle"
                       /\ frame[t].answer = NoAnswer /\ frame[t].ops = 0
  BY <1>2, IdleFacts
<1>4. \A g \in Transports :
        /\ override[g] \in [once : {"unset", "running", "done"}, notified : BOOLEAN,
                            context : Nat]
        /\ override[g].once = "unset" => ~override[g].notified
  <2>1. PICK p \in {NoPolicy, 1} :
          override = [g \in Transports |-> NewOverride(IF g = 1 THEN p ELSE NoPolicy)]
    BY DEF Init
  <2>2. ASSUME NEW q \in {NoPolicy, 1}
        PROVE  /\ NewOverride(q) \in [once : {"unset", "running", "done"},
                                      notified : BOOLEAN, context : Nat]
               /\ NewOverride(q).once = "unset" => ~NewOverride(q).notified
    <3>1. CASE q = NoPolicy
      <4>1. NewOverride(q) = [once |-> "unset", notified |-> FALSE, context |-> 0]
        BY <3>1 DEF NewOverride, NoPolicy
      <4>2. QED BY <4>1
    <3>2. CASE q # NoPolicy
      <4>1. NewOverride(q) = [once |-> "done", notified |-> TRUE, context |-> 1]
        BY <3>2 DEF NewOverride, NoPolicy
      <4>2. QED BY <4>1
    <3>3. QED BY <3>1, <3>2
  <2>3. QED BY <2>1, <2>2
<1>5. TypeOK
  <2>1. override \in [Transports -> [once : {"unset", "running", "done"},
                                     notified : BOOLEAN, context : Nat]]
    BY <1>4 DEF Init
  <2>2. frame \in [Users -> Frames]
    BY <1>3 DEF Init
  <2>3. http \in [Transports -> [holder : {Admin, None},
                                 session : Sessions \union {NoSession}]]
    BY <1>1 DEF Init
  <2>4. QED
    BY <1>1, <1>3, <2>1, <2>2, <2>3
    DEF Init, TypeOK, Users, ThreadSteps, AdminSteps, NoPolicy
<1>6. LockInv /\ EndpointInv
  BY <1>3 DEF Init, LockInv, EndpointInv, InRequest, Users, NoAnswer
<1>7. OverrideInv
  BY <1>4 DEF Init, OverrideInv, EditedWell, NoAnswer
<1>8. \A t \in Threads : RequestInv(t) /\ OwedInv(t)
  BY <1>3 DEF RequestInv, OwedInv, EditedWell, InRequest, Users, NoAnswer
<1>9. SessionInv /\ SessionsAreReleased
  <2>1. \A g \in Transports : http[g].session = IF g = 1 THEN <<1, 0>> ELSE NoSession
    BY DEF Init
  <2>2. SessionInv
    BY <1>1, <1>3, <2>1 DEF Init, SessionInv, Users, Transports
  <2>3. SessionsAreReleased
    BY <1>1, <2>1 DEF Init, SessionsAreReleased
  <2>4. QED BY <2>2, <2>3
<1>10. QED BY <1>5, <1>6, <1>7, <1>8, <1>9 DEF IInv

-----------------------------------------------------------------------------
(* The steps of a thread that makes requests. *)

\* Once an override transport has its context, it keeps it.
OverrideKept ==
  \A g \in Transports : override[g].notified =>
    override'[g].notified /\ override'[g].context = override[g].context

LEMMA EditedKept ==
  ASSUME OverrideKept, NEW a, EditedWell(a, override)
  PROVE  EditedWell(a, override')
BY DEF OverrideKept, EditedWell

LEMMA UsersFacts ==
  /\ Admin \in Users /\ Admin # None
  /\ \A t \in Threads : t \in Users /\ t # Admin /\ t # None
BY ClientAssumption DEF Users

\* What a step of thread t must show: the rest of the invariant is about what
\* the thread leaves alone.
LEMMA ThreadStepIInv ==
  ASSUME IInv, NEW t \in Threads,
         frame' \in [Users -> Frames], frame'[t].pc \in ThreadSteps,
         \A u \in Users : u # t => frame'[u] = frame[u],
         UNCHANGED <<transport, alive, trusted, http, sessions>>,
         lock' \in [readers : SUBSET Users, writer : {Admin, None}, waiting : SUBSET {Admin}],
         lock'.writer = lock.writer,
         lock.writer # None => lock'.readers = {},
         \A u \in Threads : u # t /\ u \in lock.readers => u \in lock'.readers,
         frame'[t].pc \in InRequest => t \in lock'.readers,
         cache' \in [of : Transports, held : Answers],
         cache'.of = cache.of,
         cache'.held # NoAnswer => cache'.held.gen = cache.of,
         features' \in [holder : Threads \union {None}, known : BOOLEAN, expand : BOOLEAN],
         override' \in [Transports -> [once : {"unset", "running", "done"},
                                       notified : BOOLEAN, context : Nat]],
         fetched' \in Nat,
         edited' \in [Transports -> SUBSET Nat],
         OverrideKept, \A g \in Transports : edited[g] \subseteq edited'[g],
         OverrideInv', RequestInv(t)', OwedInv(t)'
  PROVE  IInv'
<1> USE UsersFacts
<1>1. frame'[Admin] = frame[Admin]
  OBVIOUS
<1>2. TypeOK'
  BY <1>1 DEF IInv, TypeOK
<1>3. LockInv'
  BY <1>1 DEF IInv, LockInv
<1>4. EndpointInv'
  BY <1>1 DEF IInv, EndpointInv
<1>5. ASSUME NEW u \in Threads, u # t PROVE RequestInv(u)' /\ OwedInv(u)'
  <2>1. frame'[u] = frame[u] /\ RequestInv(u) /\ OwedInv(u)
    BY <1>5 DEF IInv
  <2>2. RequestInv(u)'
    BY <2>1 DEF RequestInv
  <2>3. EditedWell(frame'[u].answer, override')
    BY <2>1, EditedKept DEF OwedInv
  <2>4. frame[u].pc \in InRequest => frame[u].gen \in Transports
    BY <2>1 DEF RequestInv, IInv, TypeOK
  <2>5. OwedInv(u)'
    BY <2>1, <2>3, <2>4 DEF OwedInv
  <2>6. QED BY <2>2, <2>5
<1>6. SessionInv' /\ SessionsAreReleased'
  BY <1>1 DEF IInv, SessionInv, SessionsAreReleased
<1>7. QED BY <1>2, <1>3, <1>4, <1>5, <1>6 DEF IInv

\* A step that leaves the shared state alone.
LEMMA LocalStepIInv ==
  ASSUME IInv, NEW t \in Threads,
         frame' \in [Users -> Frames], frame'[t].pc \in ThreadSteps,
         \A u \in Users : u # t => frame'[u] = frame[u],
         UNCHANGED <<transport, alive, cache, trusted, override, http, sessions, edited>>,
         lock' = lock \/ (lock.writer = None /\ ReadLock(t)),
         frame'[t].pc \in InRequest => t \in lock'.readers,
         features' \in [holder : Threads \union {None}, known : BOOLEAN, expand : BOOLEAN],
         fetched' \in Nat,
         RequestInv(t)', OwedInv(t)'
  PROVE  IInv'
<1> USE UsersFacts
<1>1. /\ lock' \in [readers : SUBSET Users, writer : {Admin, None}, waiting : SUBSET {Admin}]
      /\ lock'.writer = lock.writer
      /\ lock.writer # None => lock'.readers = {}
      /\ \A u \in Threads : u \in lock.readers => u \in lock'.readers
  BY DEF IInv, TypeOK, LockInv, ReadLock
<1>2. /\ cache' \in [of : Transports, held : Answers]
      /\ cache'.of = cache.of
      /\ cache'.held # NoAnswer => cache'.held.gen = cache.of
      /\ override' \in [Transports -> [once : {"unset", "running", "done"},
                                       notified : BOOLEAN, context : Nat]]
      /\ edited' \in [Transports -> SUBSET Nat]
      /\ OverrideKept /\ \A g \in Transports : edited[g] \subseteq edited'[g]
  BY DEF IInv, TypeOK, EndpointInv, OverrideKept
<1>3. OverrideInv'
  BY DEF IInv, OverrideInv
<1>4. QED BY <1>1, <1>2, <1>3, ThreadStepIInv

LEMMA CallIInv ==
  ASSUME IInv, NEW t \in Threads, Call(t)
  PROVE  IInv'
<1> USE UsersFacts
<1>1. PICK r \in Requests :
        frame' = [frame EXCEPT ![t] =
          [Idle(frame[t].ops + 1) EXCEPT
             !.pc = IF r.expand THEN "validate" ELSE "enter",
             !.op = r.op, !.expand = r.expand, !.timed = r.timed]]
  BY DEF Call
<1>2. /\ r.op \in Operations /\ r.expand \in BOOLEAN /\ r.timed \in BOOLEAN
      /\ frame[t].ops + 1 \in Nat /\ frame \in [Users -> Frames]
  BY ClientAssumption DEF IInv, TypeOK, Frames
<1>3. /\ frame'[t] \in Frames /\ frame'[t].pc \in {"validate", "enter"}
      /\ frame'[t].answer = NoAnswer /\ frame'[t].owed = {}
  <2>1. PICK pc \in {"validate", "enter"} :
          frame'[t] = [Idle(frame[t].ops + 1) EXCEPT
                         !.pc = pc, !.op = r.op, !.expand = r.expand, !.timed = r.timed]
    BY <1>1, <1>2
  <2>2. Idle(frame[t].ops + 1) \in Frames
    BY <1>2, IdleFacts
  <2>3. frame'[t] \in Frames /\ frame'[t].pc = pc
    BY <1>2, <2>1, <2>2 DEF Frames, ThreadSteps
  <2>4. /\ frame'[t].answer = Idle(frame[t].ops + 1).answer
        /\ frame'[t].owed = Idle(frame[t].ops + 1).owed
    BY <2>1, <2>2 DEF Frames
  <2>5. QED BY <1>2, <2>3, <2>4, IdleFacts
<1>4. /\ frame' \in [Users -> Frames]
      /\ \A u \in Users : u # t => frame'[u] = frame[u]
  BY <1>1, <1>2, <1>3
<1>5. RequestInv(t)' /\ OwedInv(t)'
  BY <1>3 DEF RequestInv, OwedInv, EditedWell, NoAnswer, InRequest
<1>6. QED
  BY <1>3, <1>4, <1>5, LocalStepIInv DEF Call, IInv, TypeOK, InRequest, ThreadSteps

LEMMA ValidateIInv ==
  ASSUME IInv, NEW t \in Threads, Validate(t)
  PROVE  IInv'
<1> USE UsersFacts
<1>1. frame \in [Users -> Frames] /\ frame[t].pc = "validate"
  BY DEF IInv, TypeOK, Validate, At
<1>2. PICK b \in BOOLEAN : frame' = [frame EXCEPT ![t].pc = "enter", ![t].expand = b]
  BY DEF Validate
<1>3. /\ frame'[t] \in Frames /\ frame'[t].pc = "enter"
      /\ frame'[t].answer = frame[t].answer /\ frame'[t].owed = frame[t].owed
  BY <1>1, <1>2 DEF Frames, ThreadSteps
<1>4. /\ frame' \in [Users -> Frames]
      /\ \A u \in Users : u # t => frame'[u] = frame[u]
  BY <1>1, <1>2, <1>3
<1>5. RequestInv(t)' /\ OwedInv(t)'
  BY <1>1, <1>3 DEF IInv, Validate, RequestInv, OwedInv, EditedWell, NoAnswer, InRequest
<1>6. QED
  BY <1>3, <1>4, <1>5, LocalStepIInv DEF Validate, IInv, TypeOK, InRequest, ThreadSteps

\* What becomes of a frame whose request has returned.
LEMMA ReturnedFacts ==
  ASSUME NEW f \in Frames
  PROVE  /\ Returned(f) \in Frames
         /\ Returned(f).pc \in {"setfeatures", "features", "idle"}
         /\ Returned(f).answer \in {f.answer, NoAnswer}
<1>1. Idle(f.ops) \in Frames /\ Idle(f.ops).pc = "idle" /\ Idle(f.ops).answer = NoAnswer
  BY IdleFacts DEF Frames
<1>2. QED BY <1>1 DEF Returned, Frames, ThreadSteps

LEMMA EnterIInv ==
  ASSUME IInv, NEW t \in Threads, Enter(t)
  PROVE  IInv'
<1> USE UsersFacts
<1>1. /\ frame \in [Users -> Frames] /\ frame[t] \in Frames /\ frame[t].pc = "enter"
      /\ cache \in [of : Transports, held : Answers] /\ transport \in Transports
      /\ lock.writer = None
  BY DEF IInv, TypeOK, Enter, At, CanRead
<1>2. /\ frame[t].answer = NoAnswer /\ frame[t].owed = {}
      /\ cache.of = transport
      /\ cache.held # NoAnswer => cache.held.gen = cache.of
      /\ EditedWell(cache.held, override)
  BY <1>1 DEF IInv, TypeOK, RequestInv, OwedInv, EndpointInv, LockInv, OverrideInv
<1>3. /\ UNCHANGED <<transport, alive, cache, trusted, features, override, http, sessions,
                     fetched, edited>>
  BY DEF Enter
<1>4. CASE frame' = [frame EXCEPT ![t] = Returned([frame[t] EXCEPT !.ok = FALSE])] /\ lock' = lock
  <2>1. [frame[t] EXCEPT !.ok = FALSE] \in Frames
        /\ [frame[t] EXCEPT !.ok = FALSE].answer = NoAnswer
    BY <1>1, <1>2 DEF Frames
  <2>2. /\ frame'[t] \in Frames /\ frame'[t].pc \in {"setfeatures", "features", "idle"}
        /\ frame'[t].answer = NoAnswer
        /\ frame' \in [Users -> Frames]
        /\ \A u \in Users : u # t => frame'[u] = frame[u]
    BY <1>1, <1>4, <2>1, ReturnedFacts
  <2>3. RequestInv(t)' /\ OwedInv(t)'
    BY <2>2 DEF RequestInv, OwedInv, EditedWell, NoAnswer, InRequest
  <2>4. QED
    BY <1>3, <1>4, <2>2, <2>3, LocalStepIInv DEF IInv, TypeOK, InRequest, ThreadSteps
<1>5. CASE /\ cache.held # NoAnswer /\ ReadLock(t)
           /\ frame' = [frame EXCEPT ![t].pc = "leave", ![t].gen = cache.held.gen,
                                     ![t].ok = TRUE, ![t].answer = cache.held]
  <2>1. /\ frame'[t] \in Frames /\ frame'[t].pc = "leave"
        /\ frame'[t].answer = cache.held /\ frame'[t].gen = transport
        /\ frame'[t].owed = {}
    BY <1>1, <1>2, <1>5 DEF Frames, Answers, ThreadSteps, InRequest
  <2>2. /\ frame' \in [Users -> Frames]
        /\ \A u \in Users : u # t => frame'[u] = frame[u]
    BY <1>1, <1>5, <2>1
  <2>3. RequestInv(t)' /\ OwedInv(t)'
    BY <1>2, <1>3, <1>5, <2>1 DEF RequestInv, OwedInv, InRequest
  <2>4. t \in lock'.readers
    BY <1>5 DEF ReadLock, IInv, TypeOK
  <2>5. QED
    BY <1>1, <1>3, <1>5, <2>1, <2>2, <2>3, <2>4, LocalStepIInv
    DEF IInv, TypeOK, InRequest, ThreadSteps
<1>6. CASE /\ ReadLock(t)
           /\ frame' = [frame EXCEPT ![t].pc = "http",
                          ![t].gen = IF frame[t].op = "post" THEN transport ELSE cache.of]
  <2>1. /\ frame'[t] \in Frames /\ frame'[t].pc = "http"
        /\ frame'[t].answer = NoAnswer /\ frame'[t].gen = transport
    <3>1. frame' = [frame EXCEPT ![t].pc = "http", ![t].gen = transport]
      BY <1>2, <1>6
    <3>2. transport \in 0 .. MaxTransports
      BY <1>1 DEF Transports
    <3>3. QED BY <1>1, <1>2, <3>1, <3>2 DEF Frames, ThreadSteps, InRequest
  <2>2. /\ frame' \in [Users -> Frames]
        /\ \A u \in Users : u # t => frame'[u] = frame[u]
    BY <1>1, <1>6, <2>1
  <2>3. RequestInv(t)' /\ OwedInv(t)'
    BY <1>2, <1>3, <2>1 DEF RequestInv, OwedInv, EditedWell, NoAnswer, InRequest
  <2>4. t \in lock'.readers
    BY <1>6 DEF ReadLock, IInv, TypeOK
  <2>5. QED
    BY <1>1, <1>3, <1>6, <2>1, <2>2, <2>3, <2>4, LocalStepIInv
    DEF IInv, TypeOK, InRequest, ThreadSteps
<1>7. QED BY <1>4, <1>5, <1>6 DEF Enter

LEMMA RestIInv ==
  ASSUME IInv, NEW t \in Threads, Rest(t)
  PROVE  IInv'
<1> USE UsersFacts
<1> DEFINE g == frame[t].gen
<1>1. /\ frame \in [Users -> Frames] /\ frame[t] \in Frames /\ frame[t].pc = "http"
      /\ edited \in [Transports -> SUBSET Nat]
      /\ g = transport /\ g = cache.of /\ g \in Transports /\ t \in lock.readers
  BY DEF IInv, TypeOK, Rest, At, RequestInv, LockInv, InRequest
<1>2. PICK pc \in {"override", "leave"}, ok \in BOOLEAN, owed \in SUBSET Nat :
        /\ frame' = [frame EXCEPT ![t].pc = pc, ![t].ok = ok,
                       ![t].answer = [gen |-> g, policy |-> NoPolicy], ![t].owed = owed]
        /\ owed = IF pc = "override" THEN edited[g] ELSE {}
  <2>1. PICK body \in RestHelper :
          LET edits == body = "json" /\ frame[t].op # "post" IN
          frame' = [frame EXCEPT ![t].pc = IF edits THEN "override" ELSE "leave",
                      ![t].ok = body # "failed",
                      ![t].answer = [gen |-> g, policy |-> NoPolicy],
                      ![t].owed = IF edits THEN edited[g] ELSE {}]
    BY DEF Rest
  <2>2. (body # "failed") \in BOOLEAN /\ edited[g] \in SUBSET Nat /\ {} \in SUBSET Nat
    BY <1>1
  <2>3. CASE body = "json" /\ frame[t].op # "post"
    BY <2>1, <2>2, <2>3
  <2>4. CASE ~(body = "json" /\ frame[t].op # "post")
    BY <2>1, <2>2, <2>4
  <2>5. QED BY <2>3, <2>4
<1>3. [gen |-> g, policy |-> NoPolicy] \in Answers
  BY <1>1 DEF Answers, NoPolicy, Transports
<1>4. /\ frame'[t] \in Frames
      /\ frame'[t].gen = g /\ frame'[t].answer = [gen |-> g, policy |-> NoPolicy]
      /\ frame'[t].pc = pc /\ frame'[t].owed = owed
  BY <1>1, <1>2, <1>3 DEF Frames, ThreadSteps, InRequest
<1>5. /\ frame' \in [Users -> Frames]
      /\ \A u \in Users : u # t => frame'[u] = frame[u]
  BY <1>1, <1>2, <1>4
<1>6. RequestInv(t)' /\ OwedInv(t)'
  BY <1>1, <1>2, <1>4 DEF Rest, RequestInv, OwedInv, EditedWell, InRequest
<1>7. /\ frame'[t].pc \in ThreadSteps /\ t \in lock'.readers
      /\ UNCHANGED <<transport, alive, cache, trusted, override, http, sessions, edited,
                     lock, features, fetched>>
  BY <1>1, <1>4 DEF Rest, ThreadSteps, InRequest
<1>8. QED
  BY <1>5, <1>6, <1>7, LocalStepIInv DEF IInv, TypeOK

\* The cache and the record of edited answers gain what the request got.
LEMMA LeaveIInv ==
  ASSUME IInv, NEW t \in Threads, Leave(t)
  PROVE  IInv'
<1> USE UsersFacts
<1> DEFINE f == frame[t]
<1>1. /\ frame \in [Users -> Frames] /\ f \in Frames /\ f.pc = "leave"
      /\ f.gen = transport /\ f.gen = cache.of /\ f.gen \in Transports /\ f.answer.gen = f.gen
      /\ EditedWell(f.answer, override) /\ f.answer \in Answers
      /\ cache \in [of : Transports, held : Answers]
      /\ edited \in [Transports -> SUBSET Nat]
  BY DEF IInv, TypeOK, Frames, Leave, At, RequestInv, OwedInv, InRequest
<1>2. /\ Returned(f) \in Frames /\ Returned(f).pc \in {"setfeatures", "features", "idle"}
      /\ Returned(f).answer \in {f.answer, NoAnswer}
  BY <1>1, ReturnedFacts
<1>3. /\ frame'[t] = Returned(f)
      /\ frame' \in [Users -> Frames]
      /\ \A u \in Users : u # t => frame'[u] = frame[u]
  BY <1>1, <1>2 DEF Leave
<1>4. /\ UNCHANGED <<transport, alive, trusted, features, override, http, sessions, fetched>>
      /\ OverrideKept
  BY DEF Leave, OverrideKept
<1>5. /\ lock' \in [readers : SUBSET Users, writer : {Admin, None}, waiting : SUBSET {Admin}]
      /\ lock'.writer = lock.writer
      /\ lock.writer # None => lock'.readers = {}
      /\ \A u \in Threads : u # t /\ u \in lock.readers => u \in lock'.readers
  BY DEF IInv, TypeOK, LockInv, Leave, ReadUnlock
<1>6. /\ cache' \in [of : Transports, held : Answers]
      /\ cache'.of = cache.of
      /\ cache'.held = cache.held \/ cache'.held = f.answer
  BY <1>1 DEF Leave
<1>7. /\ cache'.held # NoAnswer => cache'.held.gen = cache.of
      /\ EditedWell(cache'.held, override')
  BY <1>1, <1>4, <1>6 DEF IInv, EndpointInv, OverrideInv
<1>8. /\ edited' \in [Transports -> SUBSET Nat]
      /\ \A g \in Transports :
           /\ edited[g] \subseteq edited'[g]
           /\ \/ edited'[g] = edited[g]
              \/ /\ g = f.gen /\ f.answer.policy # NoPolicy
                 /\ edited'[g] = edited[g] \union {f.answer.policy}
  <2>1. CASE f.ok /\ f.answer.policy # NoPolicy
    <3>1. edited' = [edited EXCEPT ![f.gen] = edited[f.gen] \union {f.answer.policy}]
      BY <2>1 DEF Leave
    <3>2. f.answer.policy \in Nat
      BY <1>1 DEF Answers
    <3>3. QED BY <1>1, <2>1, <3>1, <3>2
  <2>2. CASE ~(f.ok /\ f.answer.policy # NoPolicy)
    <3>1. edited' = [edited EXCEPT ![f.gen] = edited[f.gen]]
      BY <2>2 DEF Leave
    <3>2. QED BY <1>1, <3>1
  <2>3. QED BY <2>1, <2>2
<1>9. OverrideInv'
  <2> SUFFICES ASSUME NEW g \in Transports
               PROVE  /\ override[g].once = "unset" => ~override[g].notified
                      /\ edited'[g] \subseteq {override[g].context}
                      /\ edited'[g] # {} => override[g].notified
    BY <1>4, <1>7 DEF OverrideInv
  <2>1. /\ override[g].once = "unset" => ~override[g].notified
        /\ edited[g] \subseteq {override[g].context}
        /\ edited[g] # {} => override[g].notified
    BY DEF IInv, OverrideInv
  <2>2. CASE edited'[g] = edited[g]
    BY <2>1, <2>2
  <2>3. CASE /\ g = f.gen /\ f.answer.policy # NoPolicy
             /\ edited'[g] = edited[g] \union {f.answer.policy}
    <3>1. override[g].notified /\ f.answer.policy = override[g].context
      BY <1>1, <2>3 DEF EditedWell
    <3>2. QED BY <2>1, <2>3, <3>1
  <2>4. QED BY <1>8, <2>2, <2>3
<1>10. RequestInv(t)' /\ OwedInv(t)'
  <2>1. EditedWell(frame'[t].answer, override')
    BY <1>1, <1>2, <1>3, <1>4 DEF EditedWell, NoAnswer
  <2>2. QED BY <1>2, <1>3, <2>1 DEF RequestInv, OwedInv, InRequest
<1>11. frame'[t].pc \in ThreadSteps \ InRequest
  BY <1>2, <1>3 DEF ThreadSteps, InRequest
<1>12. /\ features' \in [holder : Threads \union {None}, known : BOOLEAN, expand : BOOLEAN]
       /\ override' \in [Transports -> [once : {"unset", "running", "done"},
                                        notified : BOOLEAN, context : Nat]]
       /\ fetched' \in Nat
  BY <1>4 DEF IInv, TypeOK
<1>13. QED
  BY <1>3, <1>4, <1>5, <1>6, <1>7, <1>8, <1>9, <1>10, <1>11, <1>12, ThreadStepIInv

LEMMA TestInitializedIInv ==
  ASSUME IInv, NEW t \in Threads, TestInitialized(t)
  PROVE  IInv'
<1> USE UsersFacts
<1> DEFINE g == frame[t].gen
<1>1. /\ frame \in [Users -> Frames] /\ frame[t] \in Frames /\ frame[t].pc = "override"
      /\ g = transport /\ g = cache.of /\ g \in Transports /\ t \in lock.readers
      /\ frame[t].answer.gen = g
      /\ frame[t].owed \subseteq edited[g] /\ EditedWell(frame[t].answer, override)
      /\ ~override[g].notified => edited[g] = {}
  BY DEF IInv, TypeOK, TestInitialized, At, RequestInv, LockInv, OwedInv, OverrideInv, InRequest
<1>2. fetched \in Nat
  BY DEF IInv, TypeOK
<1>3. PICK pc \in {"apply", "leave", "once"}, p \in Nat :
        /\ frame' = [frame EXCEPT ![t].pc = pc, ![t].policy = p]
        /\ pc = "leave" => ~override[g].notified
        /\ fetched' \in {fetched, fetched + 1}
  <2>1. frame[t].policy \in Nat /\ frame[t].policy = frame[t].policy
    BY <1>1 DEF Frames
  <2>2. ASSUME NEW pc \in {"apply", "leave"}, Goto(t, pc)
        PROVE  frame' = [frame EXCEPT ![t].pc = pc, ![t].policy = frame[t].policy]
    BY <1>1, <2>2 DEF Goto, Frames
  <2>3. CASE override[g].notified /\ Goto(t, "apply") /\ UNCHANGED fetched
    BY <2>1, <2>2, <2>3
  <2>4. CASE ~override[g].notified /\ Goto(t, "leave") /\ UNCHANGED fetched
    BY <2>1, <2>2, <2>4
  <2>5. CASE /\ fetched' = fetched + 1
             /\ frame' = [frame EXCEPT ![t].pc = "once", ![t].policy = fetched + 1]
    <3>1. fetched + 1 \in Nat /\ "once" # "leave"
      BY <1>2
    <3>2. QED BY <2>5, <3>1
  <2>6. QED BY <2>3, <2>4, <2>5 DEF TestInitialized
<1>4. /\ frame'[t] \in Frames /\ frame'[t].pc = pc /\ frame'[t].gen = g
      /\ frame'[t].answer = frame[t].answer /\ frame'[t].owed = frame[t].owed
  BY <1>1, <1>3 DEF Frames, ThreadSteps, InRequest
<1>5. /\ frame' \in [Users -> Frames]
      /\ \A u \in Users : u # t => frame'[u] = frame[u]
  BY <1>1, <1>3, <1>4
<1>6. /\ frame'[t].pc \in ThreadSteps /\ t \in lock'.readers /\ fetched' \in Nat
      /\ UNCHANGED <<transport, alive, cache, trusted, override, http, sessions, edited,
                     lock, features>>
  BY <1>1, <1>2, <1>3, <1>4 DEF TestInitialized, ThreadSteps, InRequest
<1>7. RequestInv(t)' /\ OwedInv(t)'
  BY <1>1, <1>3, <1>4, <1>6 DEF RequestInv, OwedInv, InRequest
<1>8. QED
  BY <1>5, <1>6, <1>7, LocalStepIInv DEF IInv, TypeOK

\* The only step that changes a context, and nothing was edited with it before.
LEMMA CallOnceIInv ==
  ASSUME IInv, NEW t \in Threads, CallOnce(t)
  PROVE  IInv'
<1> USE UsersFacts
<1> DEFINE g == frame[t].gen
<1>1. /\ frame \in [Users -> Frames] /\ frame[t] \in Frames /\ frame[t].pc = "once"
      /\ g = transport /\ g = cache.of /\ g \in Transports /\ t \in lock.readers
      /\ frame[t].answer.gen = g
      /\ frame[t].owed \subseteq edited[g] /\ EditedWell(frame[t].answer, override)
      /\ override[g].once = "unset" => ~override[g].notified
      /\ ~override[g].notified => edited[g] = {}
  BY DEF IInv, TypeOK, CallOnce, At, RequestInv, LockInv, OwedInv, OverrideInv, InRequest
<1>2. PICK pc \in {"apply", "notify"} :
        /\ frame' = [frame EXCEPT ![t].pc = pc]
        /\ \/ override' = override
           \/ /\ override[g].once = "unset"
              /\ override' = [override EXCEPT ![g].once = "running",
                                              ![g].context = frame[t].policy]
  BY DEF CallOnce, Goto
<1>3. /\ frame'[t] \in Frames /\ frame'[t].pc = pc /\ frame'[t].gen = g
      /\ frame'[t].answer = frame[t].answer /\ frame'[t].owed = frame[t].owed
  BY <1>1, <1>2 DEF Frames, ThreadSteps, InRequest
<1>4. /\ frame' \in [Users -> Frames]
      /\ \A u \in Users : u # t => frame'[u] = frame[u]
  BY <1>1, <1>2, <1>3
<1>5. /\ frame'[t].pc \in ThreadSteps /\ t \in lock'.readers
      /\ UNCHANGED <<transport, alive, cache, trusted, http, sessions, edited,
                     lock, features, fetched>>
  BY <1>1, <1>2, <1>3 DEF CallOnce, ThreadSteps, InRequest
<1>6. frame[t].policy \in Nat /\ override \in [Transports -> [once : {"unset", "running", "done"},
                                      notified : BOOLEAN, context : Nat]]
  BY <1>1 DEF IInv, TypeOK, Frames
<1>7. override' \in [Transports -> [once : {"unset", "running", "done"},
                                    notified : BOOLEAN, context : Nat]]
  BY <1>2, <1>6
<1>8. \A h \in Transports :
        \/ override'[h] = override[h]
        \/ /\ ~override[h].notified /\ ~override'[h].notified
           /\ override'[h].once = "running"
  BY <1>1, <1>2, <1>6
<1>9. OverrideKept
  BY <1>8 DEF OverrideKept
<1>10. OverrideInv'
  <2>1. EditedWell(cache'.held, override')
    BY <1>5, <1>9, EditedKept DEF IInv, OverrideInv
  <2>2. QED BY <1>5, <1>8, <2>1 DEF IInv, OverrideInv
<1>11. RequestInv(t)' /\ OwedInv(t)'
  <2>1. EditedWell(frame'[t].answer, override')
    BY <1>1, <1>3, <1>9, EditedKept
  <2>2. QED BY <1>1, <1>2, <1>3, <1>5, <2>1 DEF RequestInv, OwedInv, InRequest
<1>12. /\ lock.writer # None => lock'.readers = {}
       /\ cache'.held # NoAnswer => cache'.held.gen = cache.of
  BY <1>5 DEF IInv, LockInv, EndpointInv
<1>13. QED
  BY <1>4, <1>5, <1>7, <1>9, <1>10, <1>11, <1>12, ThreadStepIInv DEF IInv, TypeOK

LEMMA NotifyInitializedIInv ==
  ASSUME IInv, NEW t \in Threads, NotifyInitialized(t)
  PROVE  IInv'
<1> USE UsersFacts
<1> DEFINE g == frame[t].gen
<1>1. /\ frame \in [Users -> Frames] /\ frame[t] \in Frames /\ frame[t].pc = "notify"
      /\ g = transport /\ g = cache.of /\ g \in Transports /\ t \in lock.readers
      /\ frame[t].answer.gen = g
      /\ frame[t].owed \subseteq edited[g] /\ EditedWell(frame[t].answer, override)
  BY DEF IInv, TypeOK, NotifyInitialized, At, RequestInv, LockInv, OwedInv, InRequest
<1>2. /\ frame' = [frame EXCEPT ![t].pc = "apply"]
      /\ override' = [override EXCEPT ![g].notified = TRUE, ![g].once = "done"]
  BY DEF NotifyInitialized, Goto
<1>3. /\ frame'[t] \in Frames /\ frame'[t].pc = "apply" /\ frame'[t].gen = g
      /\ frame'[t].answer = frame[t].answer /\ frame'[t].owed = frame[t].owed
  BY <1>1, <1>2 DEF Frames, ThreadSteps, InRequest
<1>4. /\ frame' \in [Users -> Frames]
      /\ \A u \in Users : u # t => frame'[u] = frame[u]
  BY <1>1, <1>2, <1>3
<1>5. /\ frame'[t].pc \in ThreadSteps /\ t \in lock'.readers
      /\ UNCHANGED <<transport, alive, cache, trusted, http, sessions, edited,
                     lock, features, fetched>>
  BY <1>1, <1>2, <1>3 DEF NotifyInitialized, ThreadSteps, InRequest
<1>6. override \in [Transports -> [once : {"unset", "running", "done"},
                                   notified : BOOLEAN, context : Nat]]
  BY DEF IInv, TypeOK
<1>7. override' \in [Transports -> [once : {"unset", "running", "done"},
                                    notified : BOOLEAN, context : Nat]]
  BY <1>2, <1>6
<1>8. \A h \in Transports :
        /\ override'[h].context = override[h].context
        /\ \/ override'[h] = override[h]
           \/ override'[h].notified /\ override'[h].once = "done"
  BY <1>1, <1>2, <1>6
<1>9. OverrideKept
  BY <1>8 DEF OverrideKept
<1>10. OverrideInv'
  <2>1. EditedWell(cache'.held, override')
    BY <1>5, <1>9, EditedKept DEF IInv, OverrideInv
  <2>2. QED BY <1>5, <1>8, <2>1 DEF IInv, OverrideInv
<1>11. RequestInv(t)' /\ OwedInv(t)'
  <2>1. EditedWell(frame'[t].answer, override')
    BY <1>1, <1>3, <1>9, EditedKept
  <2>2. QED BY <1>1, <1>3, <1>5, <2>1 DEF RequestInv, OwedInv, InRequest
<1>12. /\ lock.writer # None => lock'.readers = {}
       /\ cache'.held # NoAnswer => cache'.held.gen = cache.of
  BY <1>5 DEF IInv, LockInv, EndpointInv
<1>13. QED
  BY <1>4, <1>5, <1>7, <1>9, <1>10, <1>11, <1>12, ThreadStepIInv DEF IInv, TypeOK

LEMMA ApplyIInv ==
  ASSUME IInv, NEW t \in Threads, Apply(t)
  PROVE  IInv'
<1> USE UsersFacts
<1> DEFINE g == frame[t].gen
           p == IF override[g].notified THEN override[g].context ELSE NoPolicy
<1>1. /\ frame \in [Users -> Frames] /\ frame[t] \in Frames /\ frame[t].pc = "apply"
      /\ g = transport /\ g = cache.of /\ g \in Transports /\ t \in lock.readers
      /\ frame[t].answer.gen = g
      /\ frame[t].owed \subseteq edited[g]
      /\ edited[g] \subseteq {override[g].context}
      /\ edited[g] # {} => override[g].notified
  BY DEF IInv, TypeOK, Apply, At, RequestInv, LockInv, OwedInv, OverrideInv, InRequest
<1>2. p \in Nat
  BY <1>1 DEF IInv, TypeOK, NoPolicy
<1>3. frame' = [frame EXCEPT ![t].pc = "leave", ![t].answer.policy = p]
  BY DEF Apply
<1>4. frame[t].owed \subseteq {p}
  BY <1>1
<1>5. p # NoPolicy => override[g].notified /\ p = override[g].context
  OBVIOUS
<1> HIDE DEF p
<1>6. /\ frame'[t] \in Frames /\ frame'[t].pc = "leave" /\ frame'[t].gen = g
      /\ frame'[t].answer.gen = g /\ frame'[t].answer.policy = p
      /\ frame'[t].owed = frame[t].owed
  BY <1>1, <1>2, <1>3 DEF Frames, Answers, ThreadSteps, InRequest
<1>7. /\ frame' \in [Users -> Frames]
      /\ \A u \in Users : u # t => frame'[u] = frame[u]
  BY <1>1, <1>3, <1>6
<1>8. /\ frame'[t].pc \in ThreadSteps /\ t \in lock'.readers
      /\ UNCHANGED <<transport, alive, cache, trusted, override, http, sessions, edited,
                     lock, features, fetched>>
  BY <1>1, <1>6 DEF Apply, ThreadSteps, InRequest
<1>9. RequestInv(t)' /\ OwedInv(t)'
  BY <1>1, <1>4, <1>5, <1>6, <1>8 DEF RequestInv, OwedInv, EditedWell, InRequest
<1>10. QED
  BY <1>7, <1>8, <1>9, LocalStepIInv DEF IInv, TypeOK

LEMMA LockFeaturesIInv ==
  ASSUME IInv, NEW t \in Threads, LockFeatures(t)
  PROVE  IInv'
<1> USE UsersFacts
<1>1. /\ frame \in [Users -> Frames] /\ frame[t] \in Frames /\ frame[t].pc = "features"
      /\ EditedWell(frame[t].answer, override)
      /\ features \in [holder : Threads \union {None}, known : BOOLEAN, expand : BOOLEAN]
  BY DEF IInv, TypeOK, LockFeatures, At, OwedInv
<1>2. /\ UNCHANGED <<lock, transport, alive, cache, trusted, override, http, sessions,
                     fetched, edited>>
      /\ features' \in [holder : Threads \union {None}, known : BOOLEAN, expand : BOOLEAN]
  BY <1>1 DEF LockFeatures
<1>3. \/ frame' = [frame EXCEPT ![t] = Idle(frame[t].ops)]
      \/ frame' = [frame EXCEPT ![t].pc = "setfeatures"]
      \/ frame' = [frame EXCEPT ![t].pc = "enter", ![t].op = "cached", ![t].nested = TRUE,
                                ![t].answer = NoAnswer, ![t].owed = {}]
  BY DEF LockFeatures, Goto
<1>4. /\ frame'[t] \in Frames
      /\ \/ frame'[t].pc = "idle" /\ frame'[t].answer = NoAnswer
         \/ frame'[t].pc = "setfeatures" /\ frame'[t].answer = frame[t].answer
         \/ frame'[t].pc = "enter" /\ frame'[t].answer = NoAnswer /\ frame'[t].owed = {}
  <2>1. CASE frame' = [frame EXCEPT ![t] = Idle(frame[t].ops)]
    BY <1>1, <2>1, IdleFacts DEF Frames
  <2>2. CASE frame' = [frame EXCEPT ![t].pc = "setfeatures"]
    BY <1>1, <2>2 DEF Frames, ThreadSteps
  <2>3. CASE frame' = [frame EXCEPT ![t].pc = "enter", ![t].op = "cached", ![t].nested = TRUE,
                                    ![t].answer = NoAnswer, ![t].owed = {}]
    <3>1. NoAnswer \in Answers
      BY ClientAssumption DEF NoAnswer, Answers, NoPolicy
    <3>2. QED BY <1>1, <2>3, <3>1 DEF Frames, ThreadSteps, Operations
  <2>4. QED BY <1>3, <2>1, <2>2, <2>3
<1>5. /\ frame' \in [Users -> Frames]
      /\ \A u \in Users : u # t => frame'[u] = frame[u]
  BY <1>1, <1>3, <1>4
<1>6. frame'[t].pc \in ThreadSteps \ InRequest
  BY <1>4 DEF ThreadSteps, InRequest
<1>7. RequestInv(t)' /\ OwedInv(t)'
  <2>1. EditedWell(frame'[t].answer, override')
    BY <1>1, <1>2, <1>4 DEF EditedWell, NoAnswer
  <2>2. QED BY <1>4, <1>6, <2>1 DEF RequestInv, OwedInv, InRequest
<1>8. QED
  BY <1>2, <1>5, <1>6, <1>7, LocalStepIInv DEF IInv, TypeOK

LEMMA SetFeaturesIInv ==
  ASSUME IInv, NEW t \in Threads, SetFeatures(t)
  PROVE  IInv'
<1> USE UsersFacts
<1>1. /\ frame \in [Users -> Frames] /\ frame[t].ops \in Nat
      /\ frame' = [frame EXCEPT ![t] = Idle(frame[t].ops)]
      /\ UNCHANGED <<lock, transport, alive, cache, trusted, override, http, sessions,
                     fetched, edited>>
  BY DEF IInv, TypeOK, Frames, SetFeatures
<1>2. features' \in [holder : Threads \union {None}, known : BOOLEAN, expand : BOOLEAN]
  <2>1. PICK b \in BOOLEAN :
          features' = [holder |-> None, known |-> TRUE, expand |-> b /\ frame[t].ok]
    BY DEF SetFeatures
  <2>2. (b /\ frame[t].ok) \in BOOLEAN
    OBVIOUS
  <2>3. QED BY <2>1, <2>2
<1>3. /\ frame'[t] \in Frames /\ frame'[t].pc = "idle" /\ frame'[t].answer = NoAnswer
      /\ frame' \in [Users -> Frames]
      /\ \A u \in Users : u # t => frame'[u] = frame[u]
  BY <1>1, IdleFacts
<1>4. frame'[t].pc \in ThreadSteps \ InRequest
  BY <1>3 DEF ThreadSteps, InRequest
<1>5. RequestInv(t)' /\ OwedInv(t)'
  BY <1>3 DEF RequestInv, OwedInv, EditedWell, NoAnswer, InRequest
<1>6. QED
  BY <1>1, <1>2, <1>3, <1>4, <1>5, LocalStepIInv DEF IInv, TypeOK

-----------------------------------------------------------------------------
(* The steps of the thread that authenticates and replaces the transport. *)

\* Such a step leaves the threads' requests alone; it exchanges the transport
\* and the cache only when there is none.
LEMMA RequestsKept ==
  ASSUME IInv, \A u \in Threads : frame'[u] = frame[u], UNCHANGED <<override, edited>>,
         \/ transport' = transport /\ cache'.of = cache.of
         \/ \A u \in Threads : frame[u].pc \notin InRequest
  PROVE  \A u \in Threads : RequestInv(u)' /\ OwedInv(u)'
<1> SUFFICES ASSUME NEW u \in Threads PROVE RequestInv(u)' /\ OwedInv(u)'
  OBVIOUS
<1>1. frame'[u] = frame[u] /\ RequestInv(u) /\ OwedInv(u)
  BY DEF IInv
<1>2. RequestInv(u)'
  BY <1>1 DEF RequestInv, InRequest
<1>3. OwedInv(u)'
  BY <1>1 DEF OwedInv
<1>4. QED BY <1>2, <1>3

\* The frame of Admin after a step.
LEMMA AdminFrame ==
  ASSUME frame \in [Users -> Frames], NEW f \in Frames,
         frame' = [frame EXCEPT ![Admin] = f]
  PROVE  /\ frame' \in [Users -> Frames] /\ frame'[Admin] = f
         /\ \A u \in Threads : frame'[u] = frame[u]
BY UsersFacts

LEMMA AdminBegins ==
  ASSUME NEW n \in Nat, NEW g \in Transports, NEW pc \in AdminSteps, NEW op \in {"auth", "update"}
  PROVE  LET f == [Idle(n) EXCEPT !.pc = pc, !.op = op, !.gen = g]
         IN  f \in Frames /\ f.pc = pc /\ f.gen = g /\ f.ops = n
<1>1. Idle(n) \in Frames /\ Idle(n).ops = n
  BY IdleFacts
<1>2. g \in 0 .. MaxTransports
  BY ClientAssumption DEF Transports
<1>3. QED BY <1>1, <1>2 DEF Frames

\* EndCurrentSession moves the session of g from those in use to those ended.
LEMMA EndSession ==
  ASSUME IInv, NEW g \in alive, EndCurrentSession(g),
         http'[g].session = NoSession,
         \A k \in Transports : k # g => http'[k].session = http[k].session
  PROVE  /\ sessions' \in SessionSets
         /\ \A s \in sessions'.opened : s \notin Gone' =>
              \E k \in alive \ {g} : s = http'[k].session
         /\ \A k \in alive : http'[k].session \notin Gone'
         /\ sessions'.opened = sessions.opened /\ sessions'.unnamed = sessions.unnamed
         /\ sessions'.ended \subseteq sessions.ended \union {http[g].session}
         /\ NoSession \notin Gone'
<1>1. /\ alive \subseteq Transports /\ g \in Transports
      /\ sessions \in SessionSets
      /\ \A k \in Transports : http[k].session \in Sessions \union {NoSession}
  BY DEF IInv, TypeOK
<1>2. NoSession \notin Sessions
  BY DEF NoSession, Sessions
<1>3. /\ sessions'.opened = sessions.opened /\ sessions'.unnamed = sessions.unnamed
      /\ sessions'.ended = sessions.ended \union ({http[g].session} \ {NoSession})
      /\ sessions' \in SessionSets
  BY <1>1 DEF EndCurrentSession
<1>4. \A k \in alive : k # g /\ http[k].session # NoSession => http[k].session # http[g].session
  BY <1>1 DEF IInv, SessionInv
<1>5. \A k \in alive : http'[k].session \notin Gone'
  <2> SUFFICES ASSUME NEW k \in alive PROVE http'[k].session \notin Gone'
    OBVIOUS
  <2>1. CASE k = g
    BY <1>1, <1>2, <1>3, <2>1 DEF Gone
  <2>2. CASE k # g
    <3>1. http'[k].session = http[k].session /\ http[k].session \notin Gone
      BY <1>1, <2>2 DEF IInv, SessionsAreReleased, Gone
    <3>2. QED BY <1>3, <1>4, <2>2, <3>1 DEF Gone
  <2>3. QED BY <2>1, <2>2
<1>6. \A s \in sessions'.opened : s \notin Gone' =>
        \E k \in alive \ {g} : s = http'[k].session
  <2> SUFFICES ASSUME NEW s \in sessions.opened, s \notin Gone'
               PROVE  \E k \in alive \ {g} : s = http'[k].session
    BY <1>3
  <2>1. PICK k \in alive : s = http[k].session
    BY <1>3 DEF IInv, SessionsAreReleased, Gone
  <2>2. s \in Sessions
    BY <1>1
  <2>3. k # g
    BY <1>2, <1>3, <2>1, <2>2 DEF Gone
  <2>4. QED BY <1>1, <2>1, <2>3
<1>7. QED BY <1>1, <1>2, <1>3, <1>5, <1>6 DEF Gone

LEMMA AuthBeginsIInv ==
  ASSUME IInv, AuthBegins
  PROVE  IInv'
<1> USE UsersFacts
<1> DEFINE f == [Idle(frame[Admin].ops + 1) EXCEPT !.pc = "auth", !.op = "auth", !.gen = transport]
<1>1. /\ frame \in [Users -> Frames] /\ frame[Admin].pc = "idle" /\ frame[Admin].ops \in Nat
      /\ transport \in Transports /\ transport \in alive
      /\ http \in [Transports -> [holder : {Admin, None}, session : Sessions \union {NoSession}]]
  BY DEF IInv, TypeOK, Frames, EndpointInv, AuthBegins, At
<1>2. /\ UNCHANGED <<lock, transport, alive, cache, trusted, features, override, fetched, edited>>
      /\ EndCurrentSession(transport)
      /\ http' = [http EXCEPT ![transport] = [holder |-> Admin, session |-> NoSession]]
      /\ frame' = [frame EXCEPT ![Admin] = f]
  BY DEF AuthBegins
<1>3. /\ f \in Frames /\ f.pc = "auth" /\ f.gen = transport /\ f.ops = frame[Admin].ops + 1
  <2>1. frame[Admin].ops + 1 \in Nat /\ "auth" \in AdminSteps
    BY <1>1 DEF AdminSteps
  <2>2. QED BY <1>1, <2>1, AdminBegins
<1> HIDE DEF f
<1>4. /\ frame' \in [Users -> Frames] /\ frame'[Admin] = f
      /\ \A u \in Threads : frame'[u] = frame[u]
  BY <1>1, <1>2, <1>3, AdminFrame
<1>5. /\ http' \in [Transports -> [holder : {Admin, None}, session : Sessions \union {NoSession}]]
      /\ http'[transport].session = NoSession
      /\ \A k \in Transports : k # transport => http'[k].session = http[k].session
  BY <1>1, <1>2
<1>6. /\ sessions' \in SessionSets
      /\ \A s \in sessions'.opened : s \notin Gone' =>
           \E k \in alive \ {transport} : s = http'[k].session
      /\ \A k \in alive : http'[k].session \notin Gone'
      /\ sessions'.opened = sessions.opened /\ sessions'.unnamed = sessions.unnamed
      /\ sessions'.ended \subseteq sessions.ended \union {http[transport].session}
      /\ NoSession \notin Gone'
  BY <1>1, <1>2, <1>5, EndSession
<1>7. TypeOK'
  BY <1>2, <1>3, <1>4, <1>5, <1>6 DEF IInv, TypeOK, AdminSteps
<1>8. LockInv' /\ EndpointInv' /\ OverrideInv'
  BY <1>1, <1>2, <1>3, <1>4 DEF IInv, LockInv, EndpointInv, OverrideInv, InRequest
<1>9. \A u \in Threads : RequestInv(u)' /\ OwedInv(u)'
  BY <1>2, <1>4, RequestsKept
<1>10. SessionsAreReleased'
  BY <1>2, <1>6 DEF SessionsAreReleased, Gone
<1>11. SessionInv'
  <2>1. \A s \in sessions'.opened \union sessions'.ended : s[2] < f.ops
    <3> SUFFICES ASSUME NEW s \in sessions'.opened \union sessions'.ended
                 PROVE  s[2] < frame[Admin].ops + 1
      BY <1>3
    <3>1. s \in Sessions /\ s[2] \in Nat
      BY <1>6 DEF Sessions
    <3>2. s \in sessions.opened \union sessions.ended
      <4>1. CASE s \in sessions.opened \union sessions.ended
        BY <4>1
      <4>2. CASE s = http[transport].session /\ s \in sessions'.ended
        <5>1. s # NoSession
          BY <1>6, <4>2 DEF Gone
        <5>2. QED BY <1>1, <4>2, <5>1 DEF IInv, SessionInv
      <4>3. QED BY <1>6, <4>1, <4>2
    <3>3. s[2] <= frame[Admin].ops
      BY <3>2 DEF IInv, SessionInv
    <3>4. QED BY <1>1, <3>1, <3>3
  <2>2. \A s \in sessions'.opened \union sessions'.ended : s[2] \in Nat
    BY <1>6 DEF Sessions
  <2>3. \A g \in Transports :
          /\ http'[g].session # NoSession =>
               http'[g].session[1] = g /\ http'[g].session \in sessions'.opened
          /\ g > transport => http'[g].session = NoSession
    BY <1>1, <1>5, <1>6 DEF IInv, SessionInv
  <2>4. f.ops \in Nat
    BY <1>1, <1>3
  <2>5. \A s \in sessions'.opened \union sessions'.ended : s[2] <= f.ops
    BY <2>1, <2>2, <2>4
  <2>6. frame'[Admin].gen = transport' /\ http'[transport'].session = NoSession
    BY <1>2, <1>3, <1>4, <1>5
  <2>7. \A s \in sessions'.opened \union sessions'.ended :
          s[2] <= frame'[Admin].ops /\ s[2] < frame'[Admin].ops
    BY <1>4, <2>1, <2>5
  <2>8. sessions'.unnamed \subseteq sessions'.opened
    BY <1>6 DEF IInv, SessionInv
  <2>9. QED BY <1>2, <2>3, <2>6, <2>7, <2>8 DEF SessionInv
<1>12. QED BY <1>7, <1>8, <1>9, <1>10, <1>11 DEF IInv

LEMMA AuthEndsIInv ==
  ASSUME IInv, AuthEnds
  PROVE  IInv'
<1> USE UsersFacts
<1> DEFINE n == frame[Admin].ops
           s == <<transport, n>>
<1>1. /\ frame \in [Users -> Frames] /\ frame[Admin].pc = "auth" /\ n \in Nat
      /\ transport \in Transports /\ transport \in alive /\ alive \subseteq Transports
      /\ frame[Admin].gen = transport /\ http[transport].session = NoSession
      /\ http \in [Transports -> [holder : {Admin, None}, session : Sessions \union {NoSession}]]
      /\ sessions \in SessionSets
  BY DEF IInv, TypeOK, Frames, EndpointInv, SessionInv, AuthEnds, At
<1>2. /\ UNCHANGED <<lock, transport, alive, cache, trusted, features, override, fetched, edited>>
      /\ frame' = [frame EXCEPT ![Admin] = Idle(n)]
      /\ \/ http' = [http EXCEPT ![transport].holder = None] /\ sessions' = sessions
         \/ /\ http' = [http EXCEPT ![transport].holder = None]
            /\ sessions' = [sessions EXCEPT !.opened = sessions.opened \union {s},
                                            !.unnamed = sessions.unnamed \union {s}]
         \/ /\ http' = [http EXCEPT ![transport] = [holder |-> None, session |-> s]]
            /\ sessions' = [sessions EXCEPT !.opened = sessions.opened \union {s}]
  BY <1>1 DEF AuthEnds
<1>3. /\ Idle(n) \in Frames /\ Idle(n).pc = "idle" /\ Idle(n).ops = n
  BY <1>1, IdleFacts
<1>4. /\ frame' \in [Users -> Frames] /\ frame'[Admin] = Idle(n)
      /\ \A u \in Threads : frame'[u] = frame[u]
  BY <1>1, <1>2, <1>3, AdminFrame
<1>5. s \in Sessions /\ s # NoSession /\ s[1] = transport /\ s[2] = n
  BY <1>1 DEF Sessions, NoSession
<1> HIDE DEF s
<1>6. /\ sessions'.ended = sessions.ended /\ sessions.opened \subseteq sessions'.opened
      /\ sessions' \in SessionSets
      /\ http' \in [Transports -> [holder : {Admin, None}, session : Sessions \union {NoSession}]]
      /\ \A k \in Transports : k # transport => http'[k].session = http[k].session
      /\ \/ /\ http'[transport].session = NoSession
            /\ sessions'.opened = sessions.opened /\ sessions'.unnamed = sessions.unnamed
         \/ /\ http'[transport].session = NoSession
            /\ sessions'.opened = sessions.opened \union {s}
            /\ sessions'.unnamed = sessions.unnamed \union {s}
         \/ /\ http'[transport].session = s
            /\ sessions'.opened = sessions.opened \union {s}
            /\ sessions'.unnamed = sessions.unnamed
  <2>1. CASE http' = [http EXCEPT ![transport].holder = None] /\ sessions' = sessions
    BY <1>1, <2>1
  <2>2. CASE /\ http' = [http EXCEPT ![transport].holder = None]
             /\ sessions' = [sessions EXCEPT !.opened = sessions.opened \union {s},
                                             !.unnamed = sessions.unnamed \union {s}]
    BY <1>1, <1>5, <2>2
  <2>3. CASE /\ http' = [http EXCEPT ![transport] = [holder |-> None, session |-> s]]
             /\ sessions' = [sessions EXCEPT !.opened = sessions.opened \union {s}]
    BY <1>1, <1>5, <2>3
  <2>4. QED BY <1>2, <2>1, <2>2, <2>3
<1>7. TypeOK'
  BY <1>2, <1>3, <1>4, <1>6 DEF IInv, TypeOK, AdminSteps
<1>8. LockInv' /\ EndpointInv' /\ OverrideInv'
  BY <1>1, <1>2, <1>3, <1>4 DEF IInv, LockInv, EndpointInv, OverrideInv, InRequest
<1>9. \A u \in Threads : RequestInv(u)' /\ OwedInv(u)'
  BY <1>2, <1>4, RequestsKept
<1>10. s \notin sessions.opened /\ s \notin Gone
  <2>1. \A x \in sessions.opened \union sessions.ended : x[2] < n
    BY <1>1 DEF IInv, SessionInv
  <2>2. s \notin sessions.opened \union sessions.ended
    BY <1>1, <1>5, <2>1
  <2>3. QED BY <2>2 DEF Gone, IInv, SessionInv
<1>11. SessionsAreReleased'
  <2>1. \A k \in alive : http'[k].session \notin Gone'
    <3> SUFFICES ASSUME NEW k \in alive PROVE http'[k].session \notin Gone'
      OBVIOUS
    <3>1. NoSession \notin Gone'
      BY <1>6 DEF Gone, Sessions, NoSession
    <3>2. CASE k = transport
      BY <1>6, <1>10, <3>1, <3>2 DEF Gone
    <3>3. CASE k # transport
      <4>1. http'[k].session = http[k].session /\ http[k].session \notin Gone
        BY <1>1, <1>6, <3>3 DEF IInv, SessionsAreReleased, Gone
      <4>2. http[k].session # s
        BY <1>1, <1>5, <3>3 DEF IInv, SessionInv
      <4>3. QED BY <1>6, <4>1, <4>2 DEF Gone
    <3>4. QED BY <3>2, <3>3
  <2>2. ASSUME NEW x \in sessions'.opened, x \notin Gone'
        PROVE  \E k \in alive : x = http'[k].session
    <3>1. CASE x \in sessions.opened
      <4>1. x \notin Gone
        BY <1>6, <2>2 DEF Gone
      <4>2. PICK k \in alive : x = http[k].session
        BY <3>1, <4>1 DEF IInv, SessionsAreReleased, Gone
      <4>3. k # transport
        BY <1>1, <3>1, <4>2 DEF Sessions, NoSession
      <4>4. QED BY <1>1, <1>6, <4>2, <4>3
    <3>2. CASE x \notin sessions.opened
      <4>1. x = s /\ s \notin sessions'.unnamed
        BY <1>6, <2>2, <3>2 DEF Gone
      <4>2. QED BY <1>1, <1>6, <3>2, <4>1
    <3>3. QED BY <3>1, <3>2
  <2>3. QED BY <1>2, <2>1, <2>2 DEF SessionsAreReleased, Gone
<1>12. SessionInv'
  <2>1. \A g \in Transports :
          /\ http'[g].session # NoSession =>
               http'[g].session[1] = g /\ http'[g].session \in sessions'.opened
          /\ g > transport => http'[g].session = NoSession
    <3> SUFFICES ASSUME NEW g \in Transports
                 PROVE  /\ http'[g].session # NoSession =>
                             http'[g].session[1] = g /\ http'[g].session \in sessions'.opened
                        /\ g > transport => http'[g].session = NoSession
      OBVIOUS
    <3>1. CASE g = transport
      <4>1. ~(g > transport)
        BY <3>1 DEF Transports
      <4>2. QED BY <1>5, <1>6, <3>1, <4>1
    <3>2. CASE g # transport
      BY <1>6, <3>2 DEF IInv, SessionInv
    <3>3. QED BY <3>1, <3>2
  <2>2. \A x \in sessions'.opened \union sessions'.ended : x[2] <= n
    <3>1. \A x \in sessions.opened \union sessions.ended : x[2] <= n
      BY DEF IInv, SessionInv
    <3>2. s[2] <= n
      BY <1>1, <1>5
    <3>3. QED BY <1>6, <3>1, <3>2
  <2>3. sessions'.unnamed \subseteq sessions'.opened
    BY <1>6 DEF IInv, SessionInv
  <2>4. QED BY <1>2, <1>3, <1>4, <2>1, <2>2, <2>3 DEF SessionInv
<1>13. QED BY <1>7, <1>8, <1>9, <1>11, <1>12 DEF IInv

LEMMA UpdateBeginsIInv ==
  ASSUME IInv, UpdateBegins
  PROVE  IInv'
<1> USE UsersFacts
<1> DEFINE f == [Idle(frame[Admin].ops + 1) EXCEPT !.pc = "writelock", !.op = "update",
                                                   !.gen = transport + 1]
<1>1. /\ frame \in [Users -> Frames] /\ frame[Admin].pc = "idle" /\ frame[Admin].ops \in Nat
      /\ transport \in Transports /\ transport + 1 \in Transports
      /\ transport \in alive /\ alive \subseteq Transports
      /\ sessions \in SessionSets
  BY DEF IInv, TypeOK, Frames, EndpointInv, UpdateBegins, At
<1>2. /\ UNCHANGED <<transport, cache, trusted, features, override, http, sessions,
                     fetched, edited>>
      /\ alive' = alive \union {transport + 1}
      /\ lock' = [lock EXCEPT !.waiting = {Admin}]
      /\ frame' = [frame EXCEPT ![Admin] = f]
  BY DEF UpdateBegins
<1>3. f \in Frames /\ f.pc = "writelock" /\ f.gen = transport + 1 /\ f.ops = frame[Admin].ops + 1
  <2>1. frame[Admin].ops + 1 \in Nat /\ "writelock" \in AdminSteps
    BY <1>1 DEF AdminSteps
  <2>2. QED BY <1>1, <2>1, AdminBegins
<1> HIDE DEF f
<1>4. /\ frame' \in [Users -> Frames] /\ frame'[Admin] = f
      /\ \A u \in Threads : frame'[u] = frame[u]
  BY <1>1, <1>2, <1>3, AdminFrame
<1>5. /\ lock' \in [readers : SUBSET Users, writer : {Admin, None}, waiting : SUBSET {Admin}]
      /\ lock'.readers = lock.readers /\ lock'.writer = lock.writer
  BY <1>2 DEF IInv, TypeOK
<1>6. TypeOK'
  BY <1>1, <1>2, <1>3, <1>4, <1>5 DEF IInv, TypeOK, AdminSteps
<1>7. LockInv' /\ OverrideInv'
  BY <1>2, <1>3, <1>4, <1>5 DEF IInv, LockInv, OverrideInv, InRequest
<1>8. EndpointInv'
  BY <1>1, <1>2, <1>3, <1>4 DEF IInv, EndpointInv
<1>9. \A u \in Threads : RequestInv(u)' /\ OwedInv(u)'
  BY <1>2, <1>4, RequestsKept
<1>10. SessionsAreReleased'
  <2>1. http[transport + 1].session = NoSession
    BY <1>1 DEF IInv, SessionInv, Transports
  <2>2. NoSession \notin sessions.ended \union sessions.unnamed
    BY <1>1 DEF Sessions, NoSession
  <2>3. QED BY <1>2, <2>1, <2>2 DEF IInv, SessionsAreReleased
<1>11. SessionInv'
  <2>1. \A x \in sessions.opened \union sessions.ended : x[2] <= frame[Admin].ops + 1
    <3>1. \A x \in sessions.opened \union sessions.ended : x[2] \in Nat /\ x[2] <= frame[Admin].ops
      BY <1>1 DEF IInv, SessionInv, Sessions
    <3>2. QED BY <1>1, <3>1
  <2>2. QED BY <1>2, <1>3, <1>4, <2>1 DEF IInv, SessionInv
<1>12. QED BY <1>6, <1>7, <1>8, <1>9, <1>10, <1>11 DEF IInv

LEMMA WriteLockIInv ==
  ASSUME IInv, WriteLock
  PROVE  IInv'
<1> USE UsersFacts
<1> DEFINE f == [frame[Admin] EXCEPT !.pc = "exchange"]
<1>1. /\ frame \in [Users -> Frames] /\ frame[Admin].pc = "writelock"
      /\ frame[Admin] \in Frames /\ lock.readers = {}
  BY DEF IInv, TypeOK, WriteLock, At
<1>2. /\ UNCHANGED <<transport, alive, cache, trusted, features, override, http, sessions,
                     fetched, edited>>
      /\ lock' = [lock EXCEPT !.waiting = {}, !.writer = Admin]
      /\ frame' = [frame EXCEPT ![Admin] = f]
  BY <1>1 DEF WriteLock, Goto
<1>3. /\ f \in Frames /\ f.pc = "exchange" /\ f.gen = frame[Admin].gen
      /\ f.ops = frame[Admin].ops
  BY <1>1 DEF Frames, AdminSteps
<1> HIDE DEF f
<1>4. /\ frame' \in [Users -> Frames] /\ frame'[Admin] = f
      /\ \A u \in Threads : frame'[u] = frame[u]
  BY <1>1, <1>2, <1>3, AdminFrame
<1>5. /\ lock' \in [readers : SUBSET Users, writer : {Admin, None}, waiting : SUBSET {Admin}]
      /\ lock'.readers = {} /\ lock'.writer = Admin
  BY <1>1, <1>2 DEF IInv, TypeOK
<1>6. TypeOK'
  BY <1>2, <1>3, <1>4, <1>5 DEF IInv, TypeOK, AdminSteps
<1>7. LockInv' /\ EndpointInv' /\ OverrideInv'
  BY <1>1, <1>2, <1>3, <1>4, <1>5 DEF IInv, LockInv, EndpointInv, OverrideInv
<1>8. \A u \in Threads : RequestInv(u)' /\ OwedInv(u)'
  BY <1>2, <1>4, RequestsKept
<1>9. SessionInv' /\ SessionsAreReleased'
  BY <1>1, <1>2, <1>3, <1>4 DEF IInv, SessionInv, SessionsAreReleased
<1>10. QED BY <1>6, <1>7, <1>8, <1>9 DEF IInv

\* No thread is in a request here, because the writer lock is held.
LEMMA ExchangeIInv ==
  ASSUME IInv, Exchange
  PROVE  IInv'
<1> USE UsersFacts
<1> DEFINE f == [frame[Admin] EXCEPT !.pc = "newcache"]
<1>1. /\ frame \in [Users -> Frames] /\ frame[Admin].pc = "exchange"
      /\ frame[Admin] \in Frames /\ frame[Admin].gen = transport + 1
      /\ transport \in Transports /\ transport + 1 \in alive /\ alive \subseteq Transports
      /\ transport \in alive
      /\ http \in [Transports -> [holder : {Admin, None}, session : Sessions \union {NoSession}]]
      /\ sessions \in SessionSets
      /\ lock.writer = Admin /\ lock.readers = {}
  BY DEF IInv, TypeOK, EndpointInv, LockInv, Exchange, At
<1>2. /\ UNCHANGED <<lock, cache, features, override, fetched, edited>>
      /\ transport' = transport + 1 /\ trusted' = transport + 1
      /\ alive' = alive \ {transport}
      /\ EndCurrentSession(transport)
      /\ http' = [http EXCEPT ![transport].session = NoSession]
      /\ frame' = [frame EXCEPT ![Admin] = f]
  BY <1>1 DEF Exchange, Goto
<1>3. /\ f \in Frames /\ f.pc = "newcache" /\ f.ops = frame[Admin].ops
  BY <1>1 DEF Frames, AdminSteps
<1> HIDE DEF f
<1>4. /\ frame' \in [Users -> Frames] /\ frame'[Admin] = f
      /\ \A u \in Threads : frame'[u] = frame[u]
  BY <1>1, <1>2, <1>3, AdminFrame
<1>5. \A u \in Threads : frame[u].pc \notin InRequest
  BY <1>1 DEF IInv, LockInv
<1>6. /\ http' \in [Transports -> [holder : {Admin, None}, session : Sessions \union {NoSession}]]
      /\ http'[transport].session = NoSession
      /\ \A k \in Transports : k # transport => http'[k].session = http[k].session
  BY <1>1, <1>2
<1>7. /\ sessions' \in SessionSets
      /\ \A s \in sessions'.opened : s \notin Gone' =>
           \E k \in alive \ {transport} : s = http'[k].session
      /\ \A k \in alive : http'[k].session \notin Gone'
      /\ sessions'.opened = sessions.opened /\ sessions'.unnamed = sessions.unnamed
      /\ sessions'.ended \subseteq sessions.ended \union {http[transport].session}
      /\ NoSession \notin Gone'
  BY <1>1, <1>2, <1>6, EndSession
<1>8. TypeOK'
  BY <1>1, <1>2, <1>3, <1>4, <1>6, <1>7 DEF IInv, TypeOK, AdminSteps
<1>9. LockInv' /\ OverrideInv'
  BY <1>1, <1>2, <1>3, <1>4 DEF IInv, LockInv, OverrideInv
<1>10. EndpointInv'
  <2>1. transport + 1 # transport
    BY <1>1 DEF Transports
  <2>2. QED BY <1>1, <1>2, <1>3, <1>4, <2>1 DEF IInv, EndpointInv
<1>11. \A u \in Threads : RequestInv(u)' /\ OwedInv(u)'
  BY <1>2, <1>4, <1>5, RequestsKept
<1>12. SessionsAreReleased'
  BY <1>2, <1>7 DEF SessionsAreReleased, Gone
<1>13. SessionInv'
  <2>1. \A g \in Transports :
          /\ http'[g].session # NoSession =>
               http'[g].session[1] = g /\ http'[g].session \in sessions'.opened
          /\ g > transport + 1 => http'[g].session = NoSession
    <3> SUFFICES ASSUME NEW g \in Transports
                 PROVE  /\ http'[g].session # NoSession =>
                             http'[g].session[1] = g /\ http'[g].session \in sessions'.opened
                        /\ g > transport + 1 => http'[g].session = NoSession
      OBVIOUS
    <3>1. CASE g = transport
      BY <1>6, <3>1
    <3>2. CASE g # transport
      <4>1. g > transport + 1 => g > transport
        BY <1>1 DEF Transports
      <4>2. QED BY <1>6, <1>7, <3>2, <4>1 DEF IInv, SessionInv
    <3>3. QED BY <3>1, <3>2
  <2>2. \A x \in sessions'.opened \union sessions'.ended : x[2] <= f.ops
    <3> SUFFICES ASSUME NEW x \in sessions'.opened \union sessions'.ended
                 PROVE  x[2] <= frame[Admin].ops
      BY <1>3
    <3>1. x \in sessions.opened \union sessions.ended
      <4>1. CASE x = http[transport].session /\ x \in sessions'.ended
        <5>1. x # NoSession
          BY <1>7, <4>1 DEF Gone
        <5>2. QED BY <1>1, <4>1, <5>1 DEF IInv, SessionInv
      <4>2. QED BY <1>7, <4>1
    <3>2. QED BY <3>1 DEF IInv, SessionInv
  <2>3. sessions'.unnamed \subseteq sessions'.opened
    BY <1>7 DEF IInv, SessionInv
  <2>4. QED BY <1>2, <1>3, <1>4, <2>1, <2>2, <2>3 DEF SessionInv
<1>14. QED BY <1>8, <1>9, <1>10, <1>11, <1>12, <1>13 DEF IInv

LEMMA NewCacheIInv ==
  ASSUME IInv, NewCache
  PROVE  IInv'
<1> USE UsersFacts
<1> DEFINE n == frame[Admin].ops
<1>1. /\ frame \in [Users -> Frames] /\ frame[Admin].pc = "newcache" /\ n \in Nat
      /\ transport \in Transports /\ lock.writer = Admin /\ lock.readers = {}
  BY DEF IInv, TypeOK, Frames, LockInv, NewCache, At
<1>2. /\ UNCHANGED <<transport, alive, trusted, features, override, http, sessions,
                     fetched, edited>>
      /\ cache' = [of |-> transport, held |-> NoAnswer]
      /\ lock' = [lock EXCEPT !.writer = None, !.readers = lock.readers \ {Admin}]
      /\ frame' = [frame EXCEPT ![Admin] = Idle(n)]
  BY DEF NewCache
<1>3. /\ Idle(n) \in Frames /\ Idle(n).pc = "idle" /\ Idle(n).ops = n
  BY <1>1, IdleFacts
<1>4. /\ frame' \in [Users -> Frames] /\ frame'[Admin] = Idle(n)
      /\ \A u \in Threads : frame'[u] = frame[u]
  BY <1>1, <1>2, <1>3, AdminFrame
<1>5. \A u \in Threads : frame[u].pc \notin InRequest
  BY <1>1 DEF IInv, LockInv
<1>6. /\ lock' \in [readers : SUBSET Users, writer : {Admin, None}, waiting : SUBSET {Admin}]
      /\ lock'.readers = {} /\ lock'.writer = None
  BY <1>1, <1>2 DEF IInv, TypeOK
<1>7. NoAnswer \in Answers
  BY ClientAssumption DEF NoAnswer, Answers, NoPolicy
<1>8. TypeOK'
  BY <1>1, <1>2, <1>3, <1>4, <1>6, <1>7 DEF IInv, TypeOK, AdminSteps
<1>9. LockInv' /\ EndpointInv'
  BY <1>2, <1>3, <1>4, <1>5, <1>6 DEF IInv, LockInv, EndpointInv
<1>10. OverrideInv'
  BY <1>2 DEF IInv, OverrideInv, EditedWell, NoAnswer
<1>11. \A u \in Threads : RequestInv(u)' /\ OwedInv(u)'
  BY <1>2, <1>4, <1>5, RequestsKept
<1>12. SessionInv' /\ SessionsAreReleased'
  BY <1>2, <1>3, <1>4 DEF IInv, SessionInv, SessionsAreReleased
<1>13. QED BY <1>8, <1>9, <1>10, <1>11, <1>12 DEF IInv

-----------------------------------------------------------------------------
LEMMA NextIInv ==
  ASSUME IInv, [Next]_vars
  PROVE  IInv'
<1>1. CASE UNCHANGED vars
  BY <1>1 DEF vars, IInv, TypeOK, LockInv, EndpointInv, OverrideInv, RequestInv, OwedInv,
     SessionInv, SessionsAreReleased
<1>2. ASSUME NEW t \in Threads, Call(t) \/ Step(t) PROVE IInv'
  BY <1>2, CallIInv, ValidateIInv, EnterIInv, RestIInv, LeaveIInv, TestInitializedIInv,
     CallOnceIInv, NotifyInitializedIInv, ApplyIInv, LockFeaturesIInv, SetFeaturesIInv
  DEF Step
<1>3. CASE AuthBegins \/ UpdateBegins \/ AdminStep
  BY <1>3, AuthBeginsIInv, UpdateBeginsIInv, AuthEndsIInv, WriteLockIInv, ExchangeIInv,
     NewCacheIInv DEF AdminStep
<1>4. QED BY <1>1, <1>2, <1>3 DEF Next

\* The state of the client is well typed, whatever its threads do.
THEOREM TypeCorrect == Spec => []TypeOK
<1>1. IInv => TypeOK
  BY DEF IInv
<1>2. QED BY InitIInv, NextIInv, <1>1, PTL DEF Spec

\* A request sees one endpoint from the moment it holds the reader lock: the
\* transport it works on is alive, the cache reads it, trusted_ belongs to it.
THEOREM OneEndpoint == Spec => []ReadersSeeOneEndpoint
<1>1. IInv => ReadersSeeOneEndpoint
  <2> SUFFICES ASSUME IInv, NEW t \in Threads, frame[t].pc \in InRequest
               PROVE  /\ frame[t].gen \in alive
                      /\ transport = frame[t].gen /\ cache.of = transport /\ trusted = transport
                      /\ frame[t].answer.gen \in {0, transport}
    BY DEF ReadersSeeOneEndpoint
  <2>1. RequestInv(t) /\ transport \in alive /\ trusted = transport
    BY DEF IInv, EndpointInv
  <2>2. QED BY <2>1 DEF RequestInv, NoAnswer, InRequest
<1>2. QED BY InitIInv, NextIInv, <1>1, PTL DEF Spec

\* All edited answers of a transport are edited with one policy, and a request
\* sent after one of them came back is edited too.
THEOREM OverrideStable == Spec => []OverrideIsStable
<1>1. IInv => OverrideIsStable
  <2> SUFFICES ASSUME IInv PROVE OverrideIsStable
    OBVIOUS
  <2>1. ASSUME NEW g \in Transports PROVE Cardinality(edited[g]) <= 1
    <3>1. edited[g] = {} \/ edited[g] = {override[g].context}
      BY DEF IInv, OverrideInv
    <3>2. Cardinality({}) = 0 /\ Cardinality({override[g].context}) = 1
      BY FS_EmptySet, FS_Singleton
    <3>3. QED BY <3>1, <3>2
  <2>2. ASSUME NEW t \in Threads, At(t, "leave")
        PROVE  frame[t].owed \subseteq {frame[t].answer.policy}
    BY <2>2 DEF IInv, OwedInv, At
  <2>3. QED BY <2>1, <2>2 DEF OverrideIsStable
<1>2. QED BY InitIInv, NextIInv, <1>1, PTL DEF Spec

\* A session the service has opened is in use by a living transport, or its
\* deletion has been asked for, or the reply that opened it did not name it
\* whole; and no session of the last two kinds is in use.
THEOREM SessionsReleased == Spec => []SessionsAreReleased
<1>1. IInv => SessionsAreReleased
  BY DEF IInv
<1>2. QED BY InitIInv, NextIInv, <1>1, PTL DEF Spec

=============================================================================
