---------------------------- MODULE QueryRouter ----------------------------
(***************************************************************************)
(* QueryRouter (query_router.cc) over its query engines: ExecuteQuery in   *)
(* its three patterns, serially or on a thread pool (thread_pool.h), and   *)
(* CancelQueryExecution, which cancels all engines and waits.              *)
(*                                                                         *)
(* Worker <<c, i>> is thread i of the pool of call c; in the serial        *)
(* pattern worker <<c, 1>> is the calling thread itself.                   *)
(***************************************************************************)
EXTENDS QueryEngine

CONSTANTS
  Calls,            \* ExecuteQuery calls
  RoutingTable,     \* the engines, in order
  Routed,           \* engine -> query ids of its routing entry
  Incompatible,     \* <<engine, id>> pairs that CanIncludeQuery rejects
  Inputs,           \* choices of the calls made, with their options.query_ids,
                    \* of the cancellations and of the query pattern
  MaxThreads        \* max_concurrent_threads_

\* An entry of the routing table owns its engine.  A call is taken to name a query
\* once: one that names it twice asks for two reports of it.
Distinct(s) == \A i, j \in 1 .. Len(s) : s[i] = s[j] => i = j

ASSUME RouterAssumption ==
  /\ Workers = Calls \X (1 .. MaxThreads)
  /\ MaxThreads \in Nat \ {0}
  /\ RoutingTable \in Seq(Engines) /\ Distinct(RoutingTable)
  /\ \A i \in Inputs :
       /\ DOMAIN i.calls \subseteq Calls /\ i.cancels \subseteq Cancels
       /\ \A c \in DOMAIN i.calls :
            i.calls[c] \in Seq(QueryIds) /\ Distinct(i.calls[c])
       /\ i.patterns \subseteq {"serial_all", "serial_agent", "parallel_all"}
  /\ Routed \in [Engines -> SUBSET QueryIds]

VARIABLES
  pattern,          \* execute_function_, fixed at construction
  input,            \* the calls and cancellations made, one of Inputs
  ref_count,        \* execute_ref_count_
  cancelling,       \* query_cancellation_state_
  mutex,            \* holder of query_cancellation_state_mutex_
  call,             \* call -> its ExecuteQuery
  queue,            \* call -> queue of its thread pool
  delivered,        \* call, engine, id -> what the callback got
  cancel,           \* cancel -> progress of CancelQueryExecution
  exposed           \* history: calls that overlapped a cancellation

routerVars == <<pattern, input, ref_count, cancelling, mutex, call, queue, delivered,
                cancel, exposed>>
vars == <<engineVars, routerVars>>
inputs == <<pattern, input>>

Batches == [eng : Engines, queries : Seq(QueryIds)]
Items == [eng : Engines, queries : Seq(QueryIds), cancelled : BOOLEAN]
CallAt == {"new", "schedule", "serial", "join", "done"}
CancelAt == {"new", "lock", "towait", "wait", "woken", "join", "done"}
Shutdown == <<>>        \* the nullptr that ends a pool thread

TypeOK ==
  /\ EngineTypeOK
  /\ input \in Inputs /\ pattern \in input.patterns
  /\ ref_count \in Nat
  /\ cancelling \in BOOLEAN
  /\ mutex \in Cancels \union {NoThread}
  /\ call \in [Calls -> [at : CallAt, todo : Seq(Batches), cancelled : BOOLEAN]]
  /\ queue \in [Calls -> Seq(Items \union {Shutdown})]
  /\ delivered \in [Calls \X Engines \X QueryIds -> Statuses \union {"none", "twice"}]
  /\ cancel \in [Cancels -> CancelAt]
  /\ exposed \subseteq Calls

Init ==
  /\ EngineInit
  /\ input \in Inputs /\ pattern \in input.patterns
  /\ ref_count = 0
  /\ cancelling = FALSE
  /\ mutex = NoThread
  /\ call = [c \in Calls |-> [at |-> "new", todo |-> <<>>, cancelled |-> FALSE]]
  /\ queue = [c \in Calls |-> <<>>]
  /\ delivered = [x \in Calls \X Engines \X QueryIds |-> "none"]
  /\ cancel = [k \in Cancels |-> "new"]
  /\ exposed = {}

-----------------------------------------------------------------------------
(* ExecuteQuery *)

\* The requested queries that are routed to engine e and pass CanIncludeQuery.
QueriesFor(c, e) ==
  LET ids == input.calls[c]
  IN  FlattenSeq([i \in DOMAIN ids |->
        IF ids[i] \in Routed[e] /\ <<e, ids[i]>> \notin Incompatible
          THEN <<ids[i]>> ELSE <<>>])

\* One batch for each engine, without the empty ones on a thread pool, or one
\* for each engine and query.
AgentBatches(c) ==
  [i \in DOMAIN RoutingTable |->
    [eng |-> RoutingTable[i], queries |-> QueriesFor(c, RoutingTable[i])]]
NonEmpty(b) == b.queries # <<>>
AgentBatch(b) == IF NonEmpty(b) THEN <<b>> ELSE <<>>
SplitBatch(b) == [j \in DOMAIN b.queries |-> [eng |-> b.eng, queries |-> <<b.queries[j]>>]]
BatchesOf(c) ==
  CASE pattern = "serial_all" -> AgentBatches(c)
    [] pattern = "serial_agent" ->
         FlattenSeq([i \in DOMAIN RoutingTable |-> AgentBatch(AgentBatches(c)[i])])
    [] pattern = "parallel_all" ->
         FlattenSeq([i \in DOMAIN RoutingTable |-> SplitBatch(AgentBatches(c)[i])])

PoolSize(c) ==
  IF pattern = "serial_all" THEN 0
  ELSE IF Len(BatchesOf(c)) < MaxThreads THEN Len(BatchesOf(c)) ELSE MaxThreads
Pool(c) == {c} \X (1 .. PoolSize(c))
Serial(c) == <<c, 1>>

ActiveCalls == {c \in Calls : call[c].at \notin {"new", "done"}}
ActiveCancels == {k \in Cancels : cancel[k] \notin {"new", "done"}}

\* The call is counted and, with it, its pool started.
CallBegin(c) ==
  /\ call[c].at = "new" /\ c \in DOMAIN input.calls
  /\ ref_count' = ref_count + 1
  /\ call' = [call EXCEPT ![c].at = "schedule", ![c].todo = BatchesOf(c)]
  /\ frame' = [w \in Workers |-> IF w \in Pool(c) THEN Idle
                                 ELSE frame[w]]
  /\ exposed' = IF ActiveCancels = {} THEN exposed ELSE exposed \union {c}
  /\ UNCHANGED <<inputs, cancelling, mutex, queue, delivered, cancel,
                 execute_ref_count, cancellation_state, state_mutex, planner_state,
                 in_progress, task>>

\* IsQueryExecutionCancelled, read before the first batch and after each one
\* until it is set: a thread waits for the mutex unless it has seen the flag.
MayRead(c) == call[c].cancelled \/ mutex = NoThread
Cancelled(c) == call[c].cancelled \/ cancelling

AtBatch(c) == call[c].at = "schedule" /\ call[c].todo # <<>> /\ MayRead(c)
AtEnd(c) == call[c].at = "schedule" /\ call[c].todo = <<>> /\ MayRead(c)
Batch(c) == Head(call[c].todo)
NextBatch(c, at) ==
  call' = [call EXCEPT ![c] = [at |-> at, todo |-> Tail(call[c].todo),
                                cancelled |-> Cancelled(c)]]

\* The callback gets the results of a batch, under the call's callback_mutex.
Deliver(c, e, results) ==
  delivered' = [x \in DOMAIN delivered |->
    LET got == {s \in Statuses : <<x[3], s>> \in results}
    IN  IF x[1] # c \/ x[2] # e \/ got = {} THEN delivered[x]
        ELSE IF delivered[x] # "none" \/ Cardinality(got) > 1 THEN "twice"
        ELSE CHOOSE s \in got : TRUE]

\* ExecuteQueries: a cancelled batch is reported, another one executed.
Start(w, b, cancelled) ==
  IF cancelled
    THEN /\ Deliver(w[1], b.eng, ToSet(b.queries) \X {"cancelled"})
         /\ frame' = [frame EXCEPT ![w] = Idle]
    ELSE /\ UNCHANGED delivered
         /\ frame' = [frame EXCEPT ![w] = [at |-> "enter", eng |-> b.eng,
                                           todo |-> b.queries, results |-> {}]]

\* ExecuteQuerySerialAll: the calling thread runs the next entry,
CallRun(c) ==
  /\ pattern = "serial_all" /\ AtBatch(c) /\ NonEmpty(Batch(c))
  /\ Start(Serial(c), Batch(c), Cancelled(c))
  /\ NextBatch(c, "serial")
  /\ UNCHANGED <<inputs, ref_count, cancelling, mutex, queue, cancel, exposed,
                 execute_ref_count, cancellation_state, state_mutex, planner_state,
                 in_progress, task>>

\* skips one without queries,
CallSkip(c) ==
  /\ pattern = "serial_all" /\ AtBatch(c) /\ ~ NonEmpty(Batch(c))
  /\ NextBatch(c, "schedule")
  /\ UNCHANGED <<inputs, ref_count, cancelling, mutex, queue, delivered, cancel,
                 exposed, engineVars>>

\* and goes on when the entry is done.
CallContinue(c) ==
  /\ call[c].at = "serial" /\ frame[Serial(c)].at = "idle"
  /\ call' = [call EXCEPT ![c].at = "schedule"]
  /\ UNCHANGED <<inputs, ref_count, cancelling, mutex, queue, delivered, cancel,
                 exposed, engineVars>>

\* ExecuteQueryBatches: ScheduleWork of the next batch, with the flag as read.
CallSchedule(c) ==
  /\ pattern # "serial_all" /\ AtBatch(c)
  /\ queue' = [queue EXCEPT ![c] = Append(@,
       [eng |-> Batch(c).eng, queries |-> Batch(c).queries, cancelled |-> Cancelled(c)])]
  /\ NextBatch(c, "schedule")
  /\ UNCHANGED <<inputs, ref_count, cancelling, mutex, delivered, cancel, exposed, engineVars>>

\* ~ThreadPool: a shutdown signal for every thread, then join.
CallShutdown(c) ==
  /\ pattern # "serial_all" /\ AtEnd(c)
  /\ queue' = [queue EXCEPT ![c] = @ \o [i \in 1 .. PoolSize(c) |-> Shutdown]]
  /\ call' = [call EXCEPT ![c].at = "join"]
  /\ UNCHANGED <<inputs, ref_count, cancelling, mutex, delivered, cancel, exposed, engineVars>>

\* The count is dropped and the last call signals, in one critical section.
Leave(c) ==
  /\ ref_count' = ref_count - 1
  /\ call' = [call EXCEPT ![c].at = "done", ![c].cancelled = FALSE]
  /\ cancel' = IF ref_count # 1 THEN cancel
               ELSE [k \in Cancels |-> IF cancel[k] = "wait" THEN "woken" ELSE cancel[k]]
  /\ UNCHANGED <<inputs, cancelling, mutex, queue, delivered, exposed, engineVars>>

\* Mutant of CallLeave: the pool is not joined.
CallLeaveUnjoined(c) ==
  /\ \/ pattern = "serial_all" /\ AtEnd(c)
     \/ call[c].at = "join"
  /\ Leave(c)

CallLeave(c) ==
  /\ \/ pattern = "serial_all" /\ AtEnd(c)
     \/ call[c].at = "join" /\ \A w \in Pool(c) : frame[w].at = "exited"
  /\ Leave(c)

\* ThreadPool::WorkLoop: the next work item or shutdown signal.
WorkerPop(w) ==
  LET c == w[1] IN
  /\ pattern # "serial_all" /\ frame[w].at = "idle" /\ queue[c] # <<>>
  /\ queue' = [queue EXCEPT ![c] = Tail(@)]
  /\ IF Head(queue[c]) = Shutdown
       THEN frame' = [frame EXCEPT ![w].at = "exited"] /\ UNCHANGED delivered
       ELSE Start(w, Head(queue[c]), Head(queue[c]).cancelled)
  /\ UNCHANGED <<inputs, ref_count, cancelling, mutex, call, cancel, exposed,
                 execute_ref_count, cancellation_state, state_mutex, planner_state,
                 in_progress, task>>

\* ExecuteRedpathQuery signals, returns, and its results are delivered.
WorkerReturn(w) ==
  /\ SignalCompletion(w)
  /\ Deliver(w[1], Eng(w), frame[w].results)
  /\ UNCHANGED <<inputs, ref_count, cancelling, mutex, call, queue, cancel, exposed>>

-----------------------------------------------------------------------------
(* CancelQueryExecution *)

CancelCheck(k) ==
  /\ cancel[k] = "new" /\ k \in input.cancels
  /\ cancel' = [cancel EXCEPT ![k] = IF ref_count = 0 THEN "done" ELSE "lock"]
  /\ exposed' = exposed \union ActiveCalls
  /\ UNCHANGED <<inputs, ref_count, cancelling, mutex, call, queue, delivered, engineVars>>

CancelRefused(k) ==
  /\ cancel[k] = "lock" /\ mutex = NoThread /\ cancelling
  /\ cancel' = [cancel EXCEPT ![k] = "done"]
  /\ UNCHANGED <<inputs, ref_count, cancelling, mutex, call, queue, delivered, exposed,
                 engineVars>>

\* The flag is set and a thread cancels each engine; the mutex is held.
CancelLock(k) ==
  /\ cancel[k] = "lock" /\ mutex = NoThread /\ ~ cancelling
  /\ cancelling' = TRUE
  /\ mutex' = k
  /\ task' = [x \in DOMAIN task |->
       IF x[1] = k /\ x[2] \in ToSet(RoutingTable) THEN "check" ELSE task[x]]
  /\ cancel' = [cancel EXCEPT ![k] = "towait"]
  /\ UNCHANGED <<inputs, ref_count, call, queue, delivered, exposed,
                 execute_ref_count, cancellation_state, state_mutex, planner_state,
                 in_progress, frame>>

CancelWait(k) ==
  /\ cancel[k] = "towait"
  /\ mutex' = NoThread
  /\ cancel' = [cancel EXCEPT ![k] = "wait"]
  /\ UNCHANGED <<inputs, ref_count, cancelling, call, queue, delivered, exposed, engineVars>>

\* Mutant of CancelResume: the flag is not reset.
CancelResumeKeepsFlag(k) ==
  /\ cancel[k] = "woken" /\ mutex = NoThread
  /\ mutex' = k
  /\ cancel' = [cancel EXCEPT ![k] = "join"]
  /\ UNCHANGED <<inputs, ref_count, cancelling, call, queue, delivered, exposed, engineVars>>

\* Wait has reacquired the mutex, and ~ThreadPool joins before it is released.
CancelResume(k) ==
  /\ cancel[k] = "woken" /\ mutex = NoThread
  /\ mutex' = k
  /\ cancelling' = FALSE
  /\ cancel' = [cancel EXCEPT ![k] = "join"]
  /\ UNCHANGED <<inputs, ref_count, call, queue, delivered, exposed, engineVars>>

CancelReturn(k) ==
  /\ cancel[k] = "join"
  /\ \A e \in ToSet(RoutingTable) : task[<<k, e>>] = "done"
  /\ mutex' = NoThread
  /\ cancel' = [cancel EXCEPT ![k] = "done"]
  /\ UNCHANGED <<inputs, ref_count, cancelling, call, queue, delivered, exposed, engineVars>>

-----------------------------------------------------------------------------
CallStep(c) ==
  \/ CallRun(c) \/ CallSkip(c) \/ CallContinue(c) \/ CallSchedule(c)
  \/ CallShutdown(c) \/ CallLeave(c)

WorkerStep(w) ==
  \/ WorkerPop(w) \/ WorkerReturn(w)
  \/ RunStep(w) /\ UNCHANGED routerVars

CancelStep(k) ==
  \/ CancelRefused(k) \/ CancelLock(k) \/ CancelWait(k) \/ CancelResume(k) \/ CancelReturn(k)

CancelTaskStep(k, e) == TaskStep(k, e) /\ UNCHANGED routerVars

\* What goes on by itself once it has begun.
Progress ==
  \/ \E c \in Calls : CallStep(c)
  \/ \E w \in Workers : WorkerStep(w)
  \/ \E k \in Cancels : CancelStep(k)
  \/ \E k \in Cancels, e \in Engines : CancelTaskStep(k, e)

Next ==
  \/ \E c \in Calls : CallBegin(c)
  \/ \E k \in Cancels : CancelCheck(k)
  \/ Progress

\* The machine does not stop while some thread can move; nobody has to execute
\* or to cancel.  Every call is made once and takes finitely many steps, so
\* this weak assumption gives every thread its turn.
Fairness == WF_vars(Progress)

Spec == Init /\ [][Next]_vars /\ Fairness

-----------------------------------------------------------------------------
(* Properties *)

\* execute_ref_count_ is what cancellation decides on: it counts exactly the
\* calls in progress, in the router and in every engine.
RefCountsAreExact ==
  /\ ref_count = Cardinality(ActiveCalls)
  /\ \A e \in Engines : execute_ref_count[e] =
       Cardinality({w \in Workers : frame[w].eng = e /\ frame[w].at \in InCall})

\* When ExecuteQuery returns, the callback has got exactly one result for
\* every query of every batch that has a plan, whatever the pattern, however
\* many threads, and wherever a cancellation fell; a query without a plan is
\* reported at most as cancelled, and nothing else is reported.
EveryQueryIsReported ==
  \A c \in Calls : call[c].at = "done" =>
    \A e \in Engines, q \in QueryIds :
      LET asked == e \in ToSet(RoutingTable) /\ q \in ToSet(QueriesFor(c, e))
      IN  delivered[<<c, e, q>>] \in IF ~ asked THEN {"none"}
                                ELSE IF q \in PlansOf[e] THEN Statuses
                                ELSE {"none", "cancelled"}

\* A cancellation leaves no trace: a cancellation flag of the router, an
\* engine or a planner is set only while the thread that will reset it is in
\* its CancelQueryExecution, and only a call that overlaps a cancellation gets
\* "cancelled" results.
CancellationLeavesNoTrace ==
  /\ cancelling => \E k \in Cancels : cancel[k] \in {"towait", "wait", "woken"}
  /\ \A e \in Engines :
       cancellation_state[e] \/ (\E q \in QueryIds : planner_state[<<e, q>>]) =>
         \E k \in Cancels : task[<<k, e>>] \in {"towait", "wait", "woken"}
  /\ \A c \in Calls, e \in Engines, q \in QueryIds :
       delivered[<<c, e, q>>] = "cancelled" => c \in exposed

\* No thread is left behind.  A cancellation that waits while a query is still
\* executing is woken up (WaitForCompletion, in the router and in the engines);
\* and every ExecuteQuery returns, whatever is cancelled under it, unless a
\* cancelling thread has missed its wakeup.
RouterWaits == \E k \in Cancels : cancel[k] = "wait"
EngineWaits(e) == \E k \in Cancels : task[<<k, e>>] = "wait"
ThreadsGoOn ==
  /\ RouterWaits /\ ref_count > 0 ~> ~ RouterWaits
  /\ \A e \in Engines : EngineWaits(e) /\ execute_ref_count[e] > 0 ~> ~ EngineWaits(e)
  /\ ActiveCalls # {} ~>
       \/ ActiveCalls = {}
       \/ \E e \in Engines : EngineWaits(e) /\ execute_ref_count[e] = 0

\* query_router.cc: "If query cancellation is initiated and all query
\* executions are completed/terminated, notify waiting cancellation thread to
\* reset query cancellation state indicating that query cancellation is
\* completed."
CancelReturns == \A k \in Cancels : cancel[k] # "new" ~> cancel[k] = "done"

\* query_planner_impl.cc: "We are returning an error at this point, so end the
\* timing session, regardless of its status": a planner's timing session is
\* open only while a thread runs the planner.
SessionIsEnded ==
  \A e \in Engines, q \in QueryIds : in_progress[<<e, q>>] =>
    \E w \in Workers : frame[w].at \in {"root", "fetch"} /\ Plan(w) = <<e, q>>
=============================================================================
