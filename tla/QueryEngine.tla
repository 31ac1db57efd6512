---------------------------- MODULE QueryEngine ----------------------------
(***************************************************************************)
(* QueryEngine (dellicius/engine/query_engine.cc): the threads that run    *)
(* ExecuteRedpathQuery, the planner runs they make one query at a time,    *)
(* with the timing session of each planner (query_timeout_manager.h), and  *)
(* the threads that run CancelQueryExecution.  QueryRouter decides who     *)
(* calls what.                                                             *)
(*                                                                         *)
(* A planner is reduced to what cancellation and timing see of it: it      *)
(* reads its cancellation flag before the service root and before every    *)
(* other resource, and it opens and closes its timing session.             *)
(***************************************************************************)
EXTENDS Integers, SequencesExt

CONSTANTS
  Engines,          \* query engines, one for each server
  QueryIds,
  Workers,          \* threads that call ExecuteRedpathQuery
  Cancels,          \* CancelQueryExecution calls, of the router
  PlansOf,          \* engine -> ids it has a query plan for
  Timed,            \* ids whose planner has a timeout manager
  NoThread          \* holder of a free mutex

ASSUME PlansAssumption == PlansOf \in [Engines -> SUBSET QueryIds]
ASSUME NoThreadAssumption == NoThread \notin Cancels

VARIABLES
  execute_ref_count,    \* engine -> threads in ExecuteRedpathQuery
  cancellation_state,   \* engine -> query_cancellation_state_
  state_mutex,          \* engine -> holder of query_cancellation_state_mutex_
  planner_state,        \* engine, id -> query_cancellation_state_ of the planner
  in_progress,          \* engine, id -> in_progress_ of its timeout manager
  frame,                \* worker -> its ExecuteRedpathQuery call
  task                  \* cancel, engine -> progress of CancelQueryExecution

engineVars == <<execute_ref_count, cancellation_state, state_mutex, planner_state,
                in_progress, frame, task>>

Statuses == {"done", "cancelled"}
InCall == {"snap", "start", "root", "fetch", "leave"}
Leaving == {"signal", "wake", "return"}
FrameAt == {"none", "idle", "enter", "exited"} \union InCall \union Leaving
TaskAt == {"none", "check", "lock", "towait", "wait", "woken", "done"}

NoFrame == [at |-> "none", eng |-> CHOOSE e \in Engines : TRUE, todo |-> <<>>,
            results |-> {}]

Idle == [at |-> "idle", eng |-> NoFrame.eng, todo |-> <<>>, results |-> {}]

EngineTypeOK ==
  /\ execute_ref_count \in [Engines -> Nat]
  /\ cancellation_state \in [Engines -> BOOLEAN]
  /\ state_mutex \in [Engines -> Cancels \union {NoThread}]
  /\ planner_state \in [Engines \X QueryIds -> BOOLEAN]
  /\ in_progress \in [Engines \X QueryIds -> BOOLEAN]
  /\ frame \in [Workers -> [at : FrameAt, eng : Engines \union {NoFrame.eng},
                            todo : Seq(QueryIds),
                            results : SUBSET (QueryIds \X Statuses)]]
  /\ task \in [Cancels \X Engines -> TaskAt]

EngineInit ==
  /\ execute_ref_count = [e \in Engines |-> 0]
  /\ cancellation_state = [e \in Engines |-> FALSE]
  /\ state_mutex = [e \in Engines |-> NoThread]
  /\ planner_state = [x \in Engines \X QueryIds |-> FALSE]
  /\ in_progress = [x \in Engines \X QueryIds |-> FALSE]
  /\ frame = [w \in Workers |-> NoFrame]
  /\ task = [x \in Cancels \X Engines |-> "none"]

-----------------------------------------------------------------------------
(* ExecuteRedpathQuery *)

Eng(w) == frame[w].eng
Query(w) == Head(frame[w].todo)
Plan(w) == <<Eng(w), Query(w)>>

\* The run of the current query is over.
Finish(w, status) ==
  frame' = [frame EXCEPT ![w] =
    [at |-> "snap", eng |-> Eng(w), todo |-> Tail(frame[w].todo),
     results |-> frame[w].results \union {<<Query(w), status>>}]]

ExecEnter(w) ==
  /\ frame[w].at = "enter"
  /\ execute_ref_count' = [execute_ref_count EXCEPT ![Eng(w)] = @ + 1]
  /\ frame' = [frame EXCEPT ![w].at = "snap"]
  /\ UNCHANGED <<cancellation_state, state_mutex, planner_state, in_progress, task>>

\* The queries left when those without a plan are skipped.
FromKnown(e, qs) ==
  LET known == {i \in DOMAIN qs : qs[i] \in PlansOf[e]}
  IN  IF known = {} THEN <<>> ELSE SubSeq(qs, Min(known), Len(qs))

\* IsQueryExecutionCancelled, before the first and after every executed query;
\* then every query left is reported as cancelled, or the next one is run.
ReadCancelled(w) ==
  /\ frame[w].at = "snap" /\ state_mutex[Eng(w)] = NoThread
  /\ LET f == frame[w]
         todo == IF cancellation_state[Eng(w)] THEN <<>> ELSE FromKnown(Eng(w), f.todo)
         skipped == IF cancellation_state[Eng(w)] THEN ToSet(f.todo) ELSE {}
     IN  frame' = [frame EXCEPT ![w] =
           [at |-> IF todo = <<>> THEN "leave" ELSE "start", eng |-> Eng(w), todo |-> todo,
            results |-> f.results \union (skipped \X {"cancelled"})]]
  /\ UNCHANGED <<execute_ref_count, cancellation_state, state_mutex, planner_state,
                 in_progress, task>>

\* Run: StartTiming waits for a session in progress ...
StartTiming(w) ==
  /\ frame[w].at = "start" /\ ~ in_progress[Plan(w)]
  /\ in_progress' = [in_progress EXCEPT ![Plan(w)] = Query(w) \in Timed]
  /\ frame' = [frame EXCEPT ![w].at = "root"]
  /\ UNCHANGED <<execute_ref_count, cancellation_state, state_mutex, planner_state,
                 task>>

\* ... but no longer than the timeout.
StartTimingExpires(w) ==
  /\ frame[w].at = "start" /\ in_progress[Plan(w)]
  /\ Finish(w, "done")
  /\ UNCHANGED <<execute_ref_count, cancellation_state, state_mutex, planner_state,
                 in_progress, task>>

\* Run gives up on cancellation; the timing session stays open.
RunCancelled(w) ==
  /\ frame[w].at \in {"root", "fetch"} /\ planner_state[Plan(w)]
  /\ Finish(w, "cancelled")
  /\ UNCHANGED <<execute_ref_count, cancellation_state, state_mutex, planner_state,
                 in_progress, task>>

\* Run gives up on a service root it cannot fetch or normalize, likewise.
RunRootFails(w) ==
  /\ frame[w].at = "root" /\ ~ planner_state[Plan(w)]
  /\ Finish(w, "done")
  /\ UNCHANGED <<execute_ref_count, cancellation_state, state_mutex, planner_state,
                 in_progress, task>>

RunRootFetched(w) ==
  /\ frame[w].at = "root" /\ ~ planner_state[Plan(w)]
  /\ frame' = [frame EXCEPT ![w].at = "fetch"]
  /\ UNCHANGED <<execute_ref_count, cancellation_state, state_mutex, planner_state,
                 in_progress, task>>

\* The traversal is over: EndTiming.  The flag may have been set since the
\* last time the planner read it.
RunEnds(w) ==
  /\ frame[w].at = "fetch"
  /\ Finish(w, "done")
  /\ in_progress' = [in_progress EXCEPT ![Plan(w)] = FALSE]
  /\ UNCHANGED <<execute_ref_count, cancellation_state, state_mutex, planner_state,
                 task>>

\* Mutant of ExecLeave: the call stays counted.
ExecLeaveCounted(w) ==
  /\ frame[w].at = "leave"
  /\ frame' = [frame EXCEPT ![w].at = "signal"]
  /\ UNCHANGED <<execute_ref_count, cancellation_state, state_mutex, planner_state,
                 in_progress, task>>

ExecLeave(w) ==
  /\ frame[w].at = "leave"
  /\ execute_ref_count' = [execute_ref_count EXCEPT ![Eng(w)] = @ - 1]
  /\ frame' = [frame EXCEPT ![w].at = "signal"]
  /\ UNCHANGED <<cancellation_state, state_mutex, planner_state, in_progress, task>>

\* GetExecuteRefCount() once more: the count may have changed by now.
ReadRefCount(w) ==
  /\ frame[w].at = "signal"
  /\ frame' = [frame EXCEPT ![w].at =
       IF execute_ref_count[Eng(w)] = 0 THEN "wake" ELSE "return"]
  /\ UNCHANGED <<execute_ref_count, cancellation_state, state_mutex, planner_state,
                 in_progress, task>>

\* Mutant of SignalCompletion: no signal.
SignalCompletionForgets(w) ==
  /\ frame[w].at \in {"wake", "return"}
  /\ frame' = [frame EXCEPT ![w] = Idle]
  /\ UNCHANGED <<execute_ref_count, cancellation_state, state_mutex, planner_state,
                 in_progress, task>>

\* cancel_completion_cond_.Signal() by a thread that has seen the count at zero,
\* with no mutex held: another call may have entered the engine since.
\* At most one thread waits on it: the others find cancellation_state set.
SignalCompletion(w) ==
  /\ frame[w].at \in {"wake", "return"}
  /\ frame' = [frame EXCEPT ![w] = Idle]
  /\ task' = IF frame[w].at = "return" THEN task
             ELSE [x \in DOMAIN task |->
                    IF x[2] = Eng(w) /\ task[x] = "wait" THEN "woken" ELSE task[x]]
  /\ UNCHANGED <<execute_ref_count, cancellation_state, state_mutex, planner_state,
                 in_progress>>

-----------------------------------------------------------------------------
(* CancelQueryExecution *)

Goto(k, e, at) == task' = [task EXCEPT ![<<k, e>>] = at]
SetPlanners(e, b) ==
  planner_state' = [x \in DOMAIN planner_state |->
                      IF x[1] = e THEN b /\ x[2] \in PlansOf[e] ELSE planner_state[x]]

\* Nothing to cancel: return at once.
TaskCheck(k, e) ==
  /\ task[<<k, e>>] = "check"
  /\ Goto(k, e, IF execute_ref_count[e] = 0 THEN "done" ELSE "lock")
  /\ UNCHANGED <<execute_ref_count, cancellation_state, state_mutex, planner_state,
                 in_progress, frame>>

\* If another cancellation is in progress: return.  Otherwise the engine and
\* its planners are told (and the caller's notification, which nothing in the
\* program waits for).
TaskLock(k, e) ==
  /\ task[<<k, e>>] = "lock" /\ state_mutex[e] = NoThread
  /\ IF cancellation_state[e]
       THEN /\ Goto(k, e, "done")
            /\ UNCHANGED <<state_mutex, cancellation_state, planner_state>>
       ELSE /\ state_mutex' = [state_mutex EXCEPT ![e] = k]
            /\ cancellation_state' = [cancellation_state EXCEPT ![e] = TRUE]
            /\ SetPlanners(e, TRUE)
            /\ Goto(k, e, "towait")
  /\ UNCHANGED <<execute_ref_count, in_progress, frame>>

\* Wait releases the mutex; it does not look at the reference count.
TaskWait(k, e) ==
  /\ task[<<k, e>>] = "towait"
  /\ state_mutex' = [state_mutex EXCEPT ![e] = NoThread]
  /\ Goto(k, e, "wait")
  /\ UNCHANGED <<execute_ref_count, cancellation_state, planner_state, in_progress,
                 frame>>

TaskResume(k, e) ==
  /\ task[<<k, e>>] = "woken" /\ state_mutex[e] = NoThread
  /\ SetPlanners(e, FALSE)
  /\ cancellation_state' = [cancellation_state EXCEPT ![e] = FALSE]
  /\ Goto(k, e, "done")
  /\ UNCHANGED <<execute_ref_count, state_mutex, in_progress, frame>>

-----------------------------------------------------------------------------
RunStep(w) ==
  \/ ExecEnter(w) \/ ReadCancelled(w) \/ StartTiming(w) \/ StartTimingExpires(w)
  \/ RunCancelled(w) \/ RunRootFails(w) \/ RunRootFetched(w) \/ RunEnds(w)
  \/ ExecLeave(w)
  \/ ReadRefCount(w)

TaskStep(k, e) ==
  \/ TaskCheck(k, e) \/ TaskLock(k, e) \/ TaskWait(k, e) \/ TaskResume(k, e)
=============================================================================
