---------------------------- MODULE RedfishClient ----------------------------
(***************************************************************************)
(* One HttpRedfishInterface shared by several threads, over a transport    *)
(* that edits its answers (RedfishTransportWithOverride) and itself uses   *)
(* an HttpRedfishTransport with session authentication.                    *)
(*                                                                         *)
(* Three locks meet here: transport_mutex_ of the interface, held for      *)
(* reading during a whole request and for writing by UpdateTransport;      *)
(* supported_features_mutex_, held while the features are read off the     *)
(* service root, which may itself take a request; and mutex_ of the HTTP   *)
(* transport.  An absl::Mutex is not reentrant, and a waiting writer keeps *)
(* new readers out.                                                        *)
(*                                                                         *)
(* Transports are numbered in the order in which they are made.  A payload *)
(* is abstracted to the transport it came from and the override policy it  *)
(* was edited with; a policy is the number of the fetch that returned it,  *)
(* because the file or service behind override_policy_cb_ may change.      *)
(***************************************************************************)
EXTENDS Integers, FiniteSets, Sequences

CONSTANTS
  Threads,        \* threads that issue requests
  Admin,          \* the thread that authenticates and replaces the transport
  MaxTransports,  \* transports that may be made
  Requests,       \* the requests made: [op, expand, timed]
  MaxCalls,       \* requests per thread
  MaxUpdates,     \* authentications and updates of the transport
  MaxFetches      \* policies that may be fetched

Transports == 1 .. MaxTransports
None == "none"
Operations == {"root", "cached", "uncached", "post"}

ASSUME ClientAssumption ==
  /\ Admin \notin Threads /\ None \notin Threads \union {Admin}
  /\ Requests \subseteq [op : Operations, expand : BOOLEAN, timed : BOOLEAN]
  /\ MaxTransports \in Nat \ {0} /\ MaxCalls \in Nat /\ MaxUpdates \in Nat /\ MaxFetches \in Nat

\* A choice of Requests: one of each kind, with and without a parameter that
\* depends on the features and a timeout manager that may be spent.
OneOfEach ==
  {[op |-> "root", expand |-> FALSE, timed |-> FALSE],
   [op |-> "cached", expand |-> TRUE, timed |-> FALSE],
   [op |-> "uncached", expand |-> FALSE, timed |-> TRUE],
   [op |-> "post", expand |-> FALSE, timed |-> FALSE]}

VARIABLES
  lock,      \* transport_mutex_: [readers, writer, waiting]
  transport, \* transport_, a number
  alive,     \* transports that are not destroyed
  cache,     \* cache_: [of |-> the transport it reads, held |-> what it holds]
  trusted,   \* trusted_, by the transport it was given with
  features,  \* supported_features_ and its mutex: [holder, known, expand]
  override,  \* transport -> [once, notified, context] of the override transport
  http,      \* transport -> [holder, session] of the HTTP transport
  sessions,  \* sessions the service has opened, those of them whose reply did
             \* not name them whole, and those it was asked to delete
  fetched,   \* policies fetched so far
  edited,    \* transport -> policies the answers given so far were edited with
  frame      \* what each thread is doing

vars == <<lock, transport, alive, cache, trusted, features, override, http, sessions,
          fetched, edited, frame>>

NoPolicy == 0
NoSession == <<>>
Users == Threads \union {Admin}
NoAnswer == [gen |-> 0, policy |-> NoPolicy]

Idle(ops) == [pc |-> "idle", op |-> None, expand |-> FALSE, timed |-> FALSE, nested |-> FALSE, gen |-> 0,
              ok |-> FALSE, answer |-> NoAnswer, policy |-> NoPolicy, owed |-> {}, ops |-> ops]

At(t, pc) == frame[t].pc = pc
Goto(t, pc) == frame' = [frame EXCEPT ![t].pc = pc]

NewOverride(policy) ==
  [once |-> IF policy = NoPolicy THEN "unset" ELSE "done",
   notified |-> policy # NoPolicy, context |-> policy]

\* NewHttpInterface over the first transport, whose constructor may have
\* obtained the policy already and which has a session.
Init ==
  /\ lock = [readers |-> {}, writer |-> None, waiting |-> {}]
  /\ transport = 1 /\ alive = {1} /\ trusted = 1
  /\ cache = [of |-> 1, held |-> NoAnswer]
  /\ features = [holder |-> None, known |-> FALSE, expand |-> FALSE]
  /\ \E p \in {NoPolicy, 1} :
       /\ override = [g \in Transports |-> NewOverride(IF g = 1 THEN p ELSE NoPolicy)]
       /\ fetched = p
  /\ http = [g \in Transports |->
               [holder |-> None, session |-> IF g = 1 THEN <<1, 0>> ELSE NoSession]]
  /\ sessions = [opened |-> {<<1, 0>>}, unnamed |-> {}, ended |-> {}]
  /\ edited = [g \in Transports |-> {}]
  /\ frame = [t \in Users |-> Idle(0)]

-----------------------------------------------------------------------------
(* Requests: CachedGetUri, UncachedGetUri, GetRoot, PostUri and its like.   *)

CanRead == lock.writer = None /\ lock.waiting = {}
ReadLock(t) == lock' = [lock EXCEPT !.readers = @ \union {t}]
ReadUnlock(t) == lock' = [lock EXCEPT !.readers = @ \ {t}]

Call(t) ==
  /\ At(t, "idle") /\ frame[t].ops < MaxCalls
  /\ \E r \in Requests :
       frame' = [frame EXCEPT ![t] =
         [Idle(frame[t].ops + 1) EXCEPT
            !.pc = IF r.expand THEN "validate" ELSE "enter",
            !.op = r.op, !.expand = r.expand, !.timed = r.timed]]
  /\ UNCHANGED <<lock, transport, alive, cache, trusted, features, override, http, sessions,
                 fetched, edited>>

\* Mutant of Validate: the parameters are validated inside the request.
ValidateLocked(t) ==
  \/ /\ At(t, "validate") /\ t \notin lock.readers /\ CanRead
     /\ ReadLock(t)
     /\ UNCHANGED <<transport, alive, cache, trusted, features, override, http, sessions,
                    fetched, edited, frame>>
  \/ /\ At(t, "validate") /\ t \in lock.readers
     /\ features.holder = None
     /\ frame' = [frame EXCEPT ![t].pc = "http", ![t].gen = cache.of,
                               ![t].expand = features.known => features.expand]
     /\ UNCHANGED <<lock, transport, alive, cache, trusted, features, override, http, sessions,
                    fetched, edited>>

\* ValidateAndAdjustParams, which does nothing unless a parameter depends on
\* the features: they are looked at under their mutex, and before the transport
\* lock is taken.
Validate(t) ==
  /\ At(t, "validate")
  /\ features.holder = None
  /\ frame' = [frame EXCEPT ![t].pc = "enter",
                            ![t].expand = features.known => features.expand]
  /\ UNCHANGED <<lock, transport, alive, cache, trusted, features, override, http, sessions,
                 fetched, edited>>

\* What the caller does with its answer: GetRoot goes on with the features of
\* the root, PopulateSupportedFeatures with what the reference held.
Returned(f) ==
  IF f.nested THEN [f EXCEPT !.pc = "setfeatures"]
  ELSE IF f.op = "root" THEN [f EXCEPT !.pc = "features"]
  ELSE Idle(f.ops)

\* The reader lock is taken.  A spent timeout manager ends the request at once;
\* the cache answers from what it holds, or asks the transport it was made
\* over; every other operation goes to the transport.
Enter(t) ==
  LET f == frame[t]
  IN  /\ At(t, "enter") /\ CanRead
      /\ \/ /\ f.op # "post" /\ f.timed
            /\ frame' = [frame EXCEPT ![t] = Returned([f EXCEPT !.ok = FALSE])]
            /\ UNCHANGED lock
         \/ /\ f.op \in {"root", "cached"} /\ cache.held # NoAnswer
            /\ ReadLock(t)
            /\ frame' = [frame EXCEPT ![t].pc = "leave", ![t].gen = cache.held.gen,
                                      ![t].ok = TRUE, ![t].answer = cache.held]
         \/ /\ ReadLock(t)
            /\ frame' = [frame EXCEPT ![t].pc = "http",
                           ![t].gen = IF f.op = "post" THEN transport ELSE cache.of]
      /\ UNCHANGED <<transport, alive, cache, trusted, features, override, http, sessions,
                     fetched, edited>>

\* RestHelper: the operation fails, or its answer is JSON or, judged by its
\* headers, bytes.
RestHelper == {"failed", "json", "bytes"}

\* One REST operation under mutex_ of the HTTP transport.  Get of the override
\* transport goes on to edit a JSON answer; its other operations pass it on.
Rest(t) ==
  LET g == frame[t].gen
  IN  /\ At(t, "http") /\ http[g].holder = None
      /\ \E body \in RestHelper :
           LET edits == body = "json" /\ frame[t].op # "post" IN
           frame' = [frame EXCEPT ![t].pc = IF edits THEN "override" ELSE "leave",
                       ![t].ok = body # "failed",
                       ![t].answer = [gen |-> g, policy |-> NoPolicy],
                       ![t].owed = IF edits THEN edited[g] ELSE {}]
      /\ UNCHANGED <<lock, transport, alive, cache, trusted, features, override, http, sessions,
                     fetched, edited>>

\* The request is over: GetUriHelper wraps the payload, the lock is released,
\* and the cache keeps what a transport has just answered.
Leave(t) ==
  LET f == frame[t]
  IN  /\ At(t, "leave")
      /\ ReadUnlock(t)
      /\ cache' = IF f.ok /\ f.op # "post" THEN [cache EXCEPT !.held = f.answer] ELSE cache
      /\ edited' = [edited EXCEPT ![f.gen] =
                      IF f.ok /\ f.answer.policy # NoPolicy THEN @ \union {f.answer.policy} ELSE @]
      /\ frame' = [frame EXCEPT ![t] = Returned(@)]
      /\ UNCHANGED <<transport, alive, trusted, features, override, http, sessions, fetched>>

-----------------------------------------------------------------------------
(* TryApplyingOverride of the override transport. *)

\* The flag is tested; where it is not set the callback is asked for a policy.
TestInitialized(t) ==
  /\ At(t, "override")
  /\ \/ override[frame[t].gen].notified /\ Goto(t, "apply") /\ UNCHANGED fetched
     \/ /\ ~override[frame[t].gen].notified
        /\ \/ Goto(t, "leave") /\ UNCHANGED fetched
           \/ /\ fetched < MaxFetches
              /\ fetched' = fetched + 1
              /\ frame' = [frame EXCEPT ![t].pc = "once", ![t].policy = fetched + 1]
  /\ UNCHANGED <<lock, transport, alive, cache, trusted, features, override, http, sessions,
                 edited>>

\* Mutant of CallOnce: every caller stores the policy it has fetched.
CallEveryTime(t) ==
  /\ At(t, "once")
  /\ override' = [override EXCEPT ![frame[t].gen].once = "running",
                                  ![frame[t].gen].context = frame[t].policy]
  /\ Goto(t, "notify")
  /\ UNCHANGED <<lock, transport, alive, cache, trusted, features, http, sessions,
                 fetched, edited>>

\* call_once of SetOverridePolicyOnce: the first caller compiles and stores the
\* context, the others wait for it and drop the policy they have fetched.
CallOnce(t) ==
  LET g == frame[t].gen
  IN  /\ At(t, "once")
      /\ \/ /\ override[g].once = "unset"
            /\ override' = [override EXCEPT ![g].once = "running", ![g].context = frame[t].policy]
            /\ Goto(t, "notify")
         \/ override[g].once = "done" /\ Goto(t, "apply") /\ UNCHANGED override
      /\ UNCHANGED <<lock, transport, alive, cache, trusted, features, http, sessions,
                     fetched, edited>>

NotifyInitialized(t) ==
  /\ At(t, "notify")
  /\ override' = [override EXCEPT ![frame[t].gen].notified = TRUE, ![frame[t].gen].once = "done"]
  /\ Goto(t, "apply")
  /\ UNCHANGED <<lock, transport, alive, cache, trusted, features, http, sessions,
                 fetched, edited>>

Apply(t) ==
  LET o == override[frame[t].gen]
  IN  /\ At(t, "apply")
      /\ frame' = [frame EXCEPT ![t].pc = "leave",
                     ![t].answer.policy = IF o.notified THEN o.context ELSE NoPolicy]
      /\ UNCHANGED <<lock, transport, alive, cache, trusted, features, override, http, sessions,
                     fetched, edited>>

-----------------------------------------------------------------------------
(* PopulateSupportedFeatures, called by GetRoot. *)

\* Nothing is done if the features are known, the root could not be read, or it
\* is not an object.  Otherwise a root that has ProtocolFeaturesSupported inline
\* is read at once; one that only refers to it is followed by a request under
\* the features mutex.
LockFeatures(t) ==
  /\ At(t, "features") /\ features.holder = None
  /\ \/ /\ frame' = [frame EXCEPT ![t] = Idle(@.ops)]
        /\ UNCHANGED features
     \/ /\ ~features.known /\ frame[t].ok
        /\ features' = [features EXCEPT !.holder = t]
        /\ \/ Goto(t, "setfeatures")
           \/ frame' = [frame EXCEPT ![t].pc = "enter", ![t].op = "cached", ![t].nested = TRUE,
                                     ![t].answer = NoAnswer, ![t].owed = {}]
  /\ UNCHANGED <<lock, transport, alive, cache, trusted, override, http, sessions,
                 fetched, edited>>

SetFeatures(t) ==
  /\ At(t, "setfeatures")
  /\ \E expand \in BOOLEAN :
       features' = [holder |-> None, known |-> TRUE, expand |-> expand /\ frame[t].ok]
  /\ frame' = [frame EXCEPT ![t] = Idle(@.ops)]
  /\ UNCHANGED <<lock, transport, alive, cache, trusted, override, http, sessions,
                 fetched, edited>>

-----------------------------------------------------------------------------
(* DoSessionAuth of the HTTP transport. *)

\* EndCurrentSession: DELETE of the session, whatever it answers.
EndCurrentSession(g) ==
  /\ sessions' = [sessions EXCEPT !.ended = @ \union ({http[g].session} \ {NoSession})]

\* Mutant of AuthBegins: the session in use is not ended.
AuthBeginsAgain ==
  LET g == transport
  IN  /\ At(Admin, "idle") /\ frame[Admin].ops < MaxUpdates
      /\ http[g].holder = None
      /\ http' = [http EXCEPT ![g].holder = Admin]
      /\ frame' = [frame EXCEPT ![Admin] =
           [Idle(@.ops + 1) EXCEPT !.pc = "auth", !.op = "auth", !.gen = g]]
      /\ UNCHANGED <<lock, transport, alive, cache, trusted, features, override, sessions,
                     fetched, edited>>

AuthBegins ==
  LET g == transport
  IN  /\ At(Admin, "idle") /\ frame[Admin].ops < MaxUpdates
      /\ http[g].holder = None
      /\ EndCurrentSession(g)
      /\ http' = [http EXCEPT ![g] = [holder |-> Admin, session |-> NoSession]]
      /\ frame' = [frame EXCEPT ![Admin] =
           [Idle(@.ops + 1) EXCEPT !.pc = "auth", !.op = "auth", !.gen = g]]
      /\ UNCHANGED <<lock, transport, alive, cache, trusted, features, override, fetched, edited>>

\* LockedDoSessionAuth: GET of the root, POST to the session service.  A step
\* fails before a session is opened; or the POST opens one, but its reply is
\* lost or lacks X-Auth-Token or Location, and nothing of it is kept; or the
\* session is kept.
AuthEnds ==
  LET g == frame[Admin].gen
      s == <<g, frame[Admin].ops>>
  IN  /\ At(Admin, "auth")
      /\ \/ /\ http' = [http EXCEPT ![g].holder = None]
            /\ UNCHANGED sessions
         \/ /\ http' = [http EXCEPT ![g].holder = None]
            /\ sessions' = [sessions EXCEPT !.opened = @ \union {s}, !.unnamed = @ \union {s}]
         \/ /\ http' = [http EXCEPT ![g] = [holder |-> None, session |-> s]]
            /\ sessions' = [sessions EXCEPT !.opened = @ \union {s}]
      /\ frame' = [frame EXCEPT ![Admin] = Idle(@.ops)]
      /\ UNCHANGED <<lock, transport, alive, cache, trusted, features, override, fetched, edited>>

-----------------------------------------------------------------------------
(* UpdateTransport. *)

\* A new transport is made, and UpdateTransport waits for the readers.
UpdateBegins ==
  /\ At(Admin, "idle") /\ frame[Admin].ops < MaxUpdates
  /\ transport + 1 \in Transports
  /\ frame' = [frame EXCEPT ![Admin] =
       [Idle(@.ops + 1) EXCEPT !.pc = "writelock", !.op = "update", !.gen = transport + 1]]
  /\ alive' = alive \union {transport + 1}
  /\ lock' = [lock EXCEPT !.waiting = {Admin}]
  /\ UNCHANGED <<transport, cache, trusted, features, override, http, sessions, fetched, edited>>

\* Mutant of WriteLock: the transport is exchanged under the reader lock.
WriteLockShared ==
  /\ At(Admin, "writelock")
  /\ lock' = [lock EXCEPT !.waiting = {}, !.readers = @ \union {Admin}]
  /\ Goto(Admin, "exchange")
  /\ UNCHANGED <<transport, alive, cache, trusted, features, override, http, sessions,
                 fetched, edited>>

WriteLock ==
  /\ At(Admin, "writelock") /\ lock.readers = {}
  /\ lock' = [lock EXCEPT !.waiting = {}, !.writer = Admin]
  /\ Goto(Admin, "exchange")
  /\ UNCHANGED <<transport, alive, cache, trusted, features, override, http, sessions,
                 fetched, edited>>

\* trusted_ and transport_ are assigned; the old transport is destroyed and
\* ends its session.  The old cache still points to it.
Exchange ==
  /\ At(Admin, "exchange") /\ http[transport].holder = None
  /\ trusted' = frame[Admin].gen
  /\ transport' = frame[Admin].gen
  /\ alive' = alive \ {transport}
  /\ EndCurrentSession(transport)
  /\ http' = [http EXCEPT ![transport].session = NoSession]
  /\ Goto(Admin, "newcache")
  /\ UNCHANGED <<lock, cache, features, override, fetched, edited>>

\* cache_factory_ makes an empty cache over the new transport.
NewCache ==
  /\ At(Admin, "newcache")
  /\ cache' = [of |-> transport, held |-> NoAnswer]
  /\ lock' = [lock EXCEPT !.writer = None, !.readers = @ \ {Admin}]
  /\ frame' = [frame EXCEPT ![Admin] = Idle(@.ops)]
  /\ UNCHANGED <<transport, alive, trusted, features, override, http, sessions, fetched, edited>>

-----------------------------------------------------------------------------

Step(t) ==
  \/ Validate(t) \/ Enter(t) \/ Rest(t) \/ Leave(t)
  \/ TestInitialized(t) \/ CallOnce(t) \/ NotifyInitialized(t) \/ Apply(t)
  \/ LockFeatures(t) \/ SetFeatures(t)

AdminStep == AuthEnds \/ WriteLock \/ Exchange \/ NewCache

Next ==
  \/ \E t \in Threads : Call(t) \/ Step(t)
  \/ AuthBegins \/ UpdateBegins \/ AdminStep

\* A thread that has entered an operation is scheduled until it returns, and
\* absl::Mutex hands itself over to a thread that keeps waiting.
Fairness == (\A t \in Threads : SF_vars(Step(t))) /\ SF_vars(AdminStep)

Spec == Init /\ [][Next]_vars /\ Fairness

-----------------------------------------------------------------------------
(* Properties *)

Sessions == Transports \X Nat
Answers == [gen : 0 .. MaxTransports, policy : Nat]
\* Under the reader lock, elsewhere in a request, and in what Admin does.
InRequest == {"http", "override", "once", "notify", "apply", "leave"}
ThreadSteps == InRequest \union {"idle", "validate", "enter", "features", "setfeatures"}
AdminSteps == {"idle", "auth", "writelock", "exchange", "newcache"}

Frames == [pc : ThreadSteps \union AdminSteps, op : Operations \union {None, "auth", "update"},
           expand : BOOLEAN, timed : BOOLEAN, nested : BOOLEAN, gen : 0 .. MaxTransports,
           ok : BOOLEAN, answer : Answers, policy : Nat, owed : SUBSET Nat, ops : Nat]

TypeOK ==
  /\ lock \in [readers : SUBSET Users, writer : {Admin, None}, waiting : SUBSET {Admin}]
  /\ transport \in Transports /\ trusted \in Transports /\ alive \subseteq Transports
  /\ cache \in [of : Transports, held : Answers]
  /\ features \in [holder : Threads \union {None}, known : BOOLEAN, expand : BOOLEAN]
  /\ override \in [Transports -> [once : {"unset", "running", "done"}, notified : BOOLEAN,
                                  context : Nat]]
  /\ http \in [Transports -> [holder : {Admin, None}, session : Sessions \union {NoSession}]]
  /\ sessions \in [opened : SUBSET Sessions, unnamed : SUBSET Sessions,
                   ended : SUBSET Sessions]
  /\ fetched \in Nat
  /\ edited \in [Transports -> SUBSET Nat]
  /\ frame \in [Users -> Frames]
  /\ \A t \in Threads : frame[t].pc \in ThreadSteps
  /\ frame[Admin].pc \in AdminSteps

\* Whoever is inside a request (CachedGetUri and the others, under the reader
\* lock) sees one endpoint: the transport it works on is alive, it is the one
\* the cache reads, and trusted_ is the one given with it.
ReadersSeeOneEndpoint ==
  \A t \in Threads :
    frame[t].pc \in InRequest =>
      /\ frame[t].gen \in alive
      /\ transport = frame[t].gen /\ cache.of = transport /\ trusted = transport
      /\ frame[t].answer.gen \in {0, transport}

\* TryApplyingOverride: all edited answers of a transport are edited with the
\* same policy, and a request sent after one of them came back is edited too;
\* an answer is never edited with a context that is not there.
OverrideIsStable ==
  /\ \A g \in Transports : Cardinality(edited[g]) <= 1
  /\ \A t \in Threads :
       At(t, "leave") /\ frame[t].ok /\ frame[t].op # "post" =>
         frame[t].owed \subseteq {frame[t].answer.policy}

\* ~HttpRedfishTransport and DoSessionAuth: a session that the service has
\* opened for the client is in use by a living transport, or the client has
\* asked the service to delete it, or the reply that opened it was lost or
\* lacked its token or its URI: only those the client leaves open, and it never
\* uses one of them.  No session in use has been deleted.
SessionsAreReleased ==
  /\ sessions.opened \ (sessions.ended \union sessions.unnamed)
       \subseteq {http[g].session : g \in alive}
  /\ \A g \in alive : http[g].session \notin sessions.ended \union sessions.unnamed

\* No cycle among transport_mutex_, supported_features_mutex_, the once flag
\* and mutex_: whatever was called returns.
CallsReturn == \A t \in Users : [](frame[t].pc # "idle" => <>(frame[t].pc = "idle"))
=============================================================================
