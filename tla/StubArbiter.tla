---------------------------- MODULE StubArbiter ----------------------------
(***************************************************************************)
(* StubArbiter<T>::Execute, under both of its policies, called by several  *)
(* threads.  The stub mutex is held only to look at and to change the      *)
(* active stub: in Failover the factory and the callback run without it,   *)
(* so a call may work with a stub that another one has replaced or found   *)
(* to fail.                                                                *)
(*                                                                         *)
(* A stub is told apart by the order of its creation; a status by whether  *)
(* its code is one of failover_codes_.                                     *)
(***************************************************************************)
EXTENDS Naturals, Sequences, FiniteSets, TLC

CONSTANTS
  Threads,   \* callers of Execute
  Refresh,   \* refresh_
  MaxTime,   \* bound: the clock ranges over 0 .. MaxTime
  MaxCalls   \* bound: calls of Execute

ASSUME BoundsAssumption == Refresh \in Nat /\ MaxTime \in Nat /\ MaxCalls \in Nat

\* The callers are alike.
ThreadSymmetry == Permutations(Threads)

VARIABLES
  policy,             \* "manual" or "failover"
  now,                \* clock_.Now()
  active_stub, active_stub_label, freshness_time,
  pc,
  initial_stub,       \* thread -> the label the caller asks for
  local_stub,         \* thread -> its reference to the active stub
  local_stub_label,   \* thread -> and the label read with it
  attempted,          \* thread -> attempted_stub_label
  label,              \* thread -> the loop's label
  stub,               \* thread -> the stub the loop has made
  overall_status,     \* thread -> metrics.overall_status
  endpoint_metrics,   \* thread -> label -> status, or "none"
  made,               \* history: stubs made so far
  adopted,            \* history: when the active stub was stored
  retired,            \* history: stubs that failed and were given up
  sticky,             \* history: thread -> the secondary it reused was fresh
  ran,                \* history: thread -> callback invocations of this call
  calls               \* history: calls of Execute so far

arbiter == <<active_stub, active_stub_label, freshness_time, adopted>>
locals == <<initial_stub, local_stub, local_stub_label, attempted, label, stub,
            overall_status, endpoint_metrics, sticky, ran>>
vars == <<policy, now, arbiter, pc, locals, made, retired, calls>>

\* PriorityLabel, in the order of the enumeration.
Primary == 0
Secondary == 1
Unknown == 2
Labels == {Primary, Secondary}

Stubs == [id : Nat \ {0}, label : Labels]
NoStub == [id |-> 0, label |-> Unknown]
Statuses == {"ok", "failover", "other"}
Failures == {"failover", "other"}

Steps == {"idle", "manual", "run_manual", "snapshot", "run_local", "clear",
          "loop", "run", "publish", "return"}

TypeOK ==
  /\ policy \in {"manual", "failover"}
  /\ now \in 0 .. MaxTime
  /\ active_stub \in Stubs \union {NoStub}
  /\ active_stub_label \in Labels \union {Unknown}
  /\ freshness_time \in 0 .. MaxTime
  /\ adopted \in 0 .. MaxTime
  /\ pc \in [Threads -> Steps]
  /\ initial_stub \in [Threads -> Labels]
  /\ local_stub \in [Threads -> Stubs \union {NoStub}]
  /\ local_stub_label \in [Threads -> Labels \union {Unknown}]
  /\ attempted \in [Threads -> Labels \union {Unknown}]
  /\ label \in [Threads -> Labels \union {Unknown}]
  /\ stub \in [Threads -> Stubs \union {NoStub}]
  /\ overall_status \in [Threads -> Statuses]
  /\ endpoint_metrics \in [Threads -> [Labels -> Statuses \union {"none"}]]
  /\ made \in Nat
  /\ retired \subseteq Stubs
  /\ sticky \in [Threads -> BOOLEAN]
  /\ ran \in [Threads -> Seq([label : Labels, stub : Stubs])]
  /\ calls \in 0 .. MaxCalls

NoMetrics == [l \in Labels |-> "none"]

NewStub(l) == [id |-> made + 1, label |-> l]

\* The constructor asks the factory for a primary stub, which may fail.
Init ==
  /\ policy \in {"manual", "failover"}
  /\ now = 0
  /\ made \in {0, 1}
  /\ active_stub = IF made = 1 THEN [id |-> 1, label |-> Primary] ELSE NoStub
  /\ active_stub_label = IF made = 1 THEN Primary ELSE Unknown
  /\ freshness_time = 0
  /\ adopted = 0
  /\ pc = [t \in Threads |-> "idle"]
  /\ initial_stub = [t \in Threads |-> Primary]
  /\ local_stub = [t \in Threads |-> NoStub]
  /\ local_stub_label = [t \in Threads |-> Unknown]
  /\ attempted = [t \in Threads |-> Unknown]
  /\ label = [t \in Threads |-> Unknown]
  /\ stub = [t \in Threads |-> NoStub]
  /\ overall_status = [t \in Threads |-> "ok"]
  /\ endpoint_metrics = [t \in Threads |-> NoMetrics]
  /\ retired = {}
  /\ sticky = [t \in Threads |-> FALSE]
  /\ ran = [t \in Threads |-> <<>>]
  /\ calls = 0

Tick ==
  /\ now < MaxTime
  /\ now' = now + 1
  /\ UNCHANGED <<policy, arbiter, pc, locals, made, retired, calls>>

\* Callers pass a label other than kUnknown: ExecuteRedpathQuery and
\* ExecuteOnRedfishInterface turn kUnknown into kPrimary.
Execute(t, l) ==
  /\ pc[t] = "idle"
  /\ calls < MaxCalls
  /\ calls' = calls + 1
  /\ initial_stub' = [initial_stub EXCEPT ![t] = l]
  /\ pc' = [pc EXCEPT ![t] = IF policy = "manual" THEN "manual" ELSE "snapshot"]
  /\ UNCHANGED <<policy, now, arbiter, local_stub, local_stub_label, attempted,
                 label, stub, overall_status, endpoint_metrics, sticky, ran,
                 made, retired>>

\* func(stub, label): the callback runs with no lock held and its status is
\* recorded.
Invoke(t, s, l, status) ==
  /\ ran' = [ran EXCEPT ![t] = Append(@, [label |-> l, stub |-> s])]
  /\ endpoint_metrics' = [endpoint_metrics EXCEPT ![t][l] = status]
  /\ overall_status' = [overall_status EXCEPT ![t] = status]

\* The active stub, its label and its freshness are stored together.
Store(s, l) ==
  /\ active_stub' = s
  /\ active_stub_label' = l
  /\ freshness_time' = now
  /\ adopted' = now

-----------------------------------------------------------------------------
(* Manual.                                                                 *)

\* The active stub is the one asked for.
ManualReuse(t) ==
  /\ pc[t] = "manual"
  /\ active_stub_label = initial_stub[t]
  /\ local_stub' = [local_stub EXCEPT ![t] = active_stub]
  /\ pc' = [pc EXCEPT ![t] = "run_manual"]
  /\ UNCHANGED <<policy, now, arbiter, initial_stub, local_stub_label, attempted,
                 label, stub, overall_status, endpoint_metrics, sticky, ran, made,
                 retired, calls>>

\* Otherwise it is replaced, the factory being called under the mutex.
ManualReplace(t) ==
  LET l == initial_stub[t] IN
  /\ pc[t] = "manual"
  /\ active_stub_label # l
  /\ Store(NewStub(l), l)
  /\ made' = made + 1
  /\ local_stub' = [local_stub EXCEPT ![t] = NewStub(l)]
  /\ pc' = [pc EXCEPT ![t] = "run_manual"]
  /\ UNCHANGED <<policy, now, initial_stub, local_stub_label, attempted, label,
                 stub, overall_status, endpoint_metrics, sticky, ran, retired,
                 calls>>

\* The factory fails: the old stub is gone and the call returns.
ManualFails(t) ==
  /\ pc[t] = "manual"
  /\ active_stub_label # initial_stub[t]
  /\ active_stub' = NoStub
  /\ active_stub_label' = Unknown
  /\ \E status \in Failures :
       overall_status' = [overall_status EXCEPT ![t] = status]
  /\ pc' = [pc EXCEPT ![t] = "return"]
  /\ UNCHANGED <<policy, now, freshness_time, adopted, initial_stub, local_stub,
                 local_stub_label, attempted, label, stub, endpoint_metrics,
                 sticky, ran, made, retired, calls>>

RunManual(t) ==
  /\ pc[t] = "run_manual"
  /\ \E status \in Statuses :
       Invoke(t, local_stub[t], initial_stub[t], status)
  /\ pc' = [pc EXCEPT ![t] = "return"]
  /\ UNCHANGED <<policy, now, arbiter, initial_stub, local_stub, local_stub_label,
                 attempted, label, stub, sticky, made, retired, calls>>

-----------------------------------------------------------------------------
(* Failover.                                                               *)

\* The active stub is tried first if it is the primary, or still fresh.
Usable ==
  /\ active_stub # NoStub
  /\ now < freshness_time + Refresh \/ active_stub_label = Primary

Snapshot(t) ==
  /\ pc[t] = "snapshot"
  /\ Usable
  /\ local_stub' = [local_stub EXCEPT ![t] = active_stub]
  /\ local_stub_label' = [local_stub_label EXCEPT ![t] = active_stub_label]
  /\ sticky' = [sticky EXCEPT ![t] = now < adopted + Refresh]
  /\ pc' = [pc EXCEPT ![t] = "run_local"]
  /\ UNCHANGED <<policy, now, arbiter, initial_stub, attempted, label, stub,
                 overall_status, endpoint_metrics, ran, made, retired, calls>>

\* Without a usable stub the call goes straight to the loop.
SnapshotNone(t) ==
  /\ pc[t] = "snapshot"
  /\ ~Usable
  /\ label' = [label EXCEPT ![t] = initial_stub[t]]
  /\ pc' = [pc EXCEPT ![t] = "loop"]
  /\ UNCHANGED <<policy, now, arbiter, initial_stub, local_stub, local_stub_label,
                 attempted, stub, overall_status, endpoint_metrics, sticky, ran,
                 made, retired, calls>>

\* The callback on the shared stub; a failover code is not final.
RunLocal(t) ==
  /\ pc[t] = "run_local"
  /\ \E status \in Statuses :
       /\ Invoke(t, local_stub[t], local_stub_label[t], status)
       /\ IF status = "failover"
          THEN /\ attempted' = [attempted EXCEPT ![t] = local_stub_label[t]]
               /\ pc' = [pc EXCEPT ![t] = "clear"]
          ELSE /\ pc' = [pc EXCEPT ![t] = "return"]
               /\ UNCHANGED attempted
  /\ UNCHANGED <<policy, now, arbiter, initial_stub, local_stub, local_stub_label,
                 label, stub, sticky, made, retired, calls>>

\* Mutant of StillActive: the comparison is the wrong way round.
StillActiveInverted(t) == active_stub # local_stub[t]

\* The active stub has not changed since the call started.
StillActive(t) == active_stub = local_stub[t]

Clear(t) ==
  /\ pc[t] = "clear"
  /\ IF StillActive(t)
     THEN active_stub' = NoStub /\ active_stub_label' = Unknown
     ELSE UNCHANGED <<active_stub, active_stub_label>>
  /\ retired' = retired \union {local_stub[t]}
  /\ label' = [label EXCEPT ![t] = initial_stub[t]]
  /\ pc' = [pc EXCEPT ![t] = "loop"]
  /\ UNCHANGED <<policy, now, freshness_time, adopted, initial_stub, local_stub,
                 local_stub_label, attempted, stub, overall_status,
                 endpoint_metrics, sticky, ran, made, calls>>

\* The loop skips the label of the stub that has been tried already.
SkipAttempted(t) ==
  /\ pc[t] = "loop"
  /\ label[t] \in Labels
  /\ label[t] = attempted[t]
  /\ label' = [label EXCEPT ![t] = @ + 1]
  /\ UNCHANGED <<policy, now, arbiter, pc, initial_stub, local_stub,
                 local_stub_label, attempted, stub, overall_status,
                 endpoint_metrics, sticky, ran, made, retired, calls>>

Untried(t) ==
  /\ pc[t] = "loop"
  /\ label[t] \in Labels
  /\ label[t] # attempted[t]

\* stub_factory_(label) succeeds; it is called without the mutex.
CreateStub(t) ==
  /\ Untried(t)
  /\ stub' = [stub EXCEPT ![t] = NewStub(label[t])]
  /\ made' = made + 1
  /\ pc' = [pc EXCEPT ![t] = "run"]
  /\ UNCHANGED <<policy, now, arbiter, initial_stub, local_stub, local_stub_label,
                 attempted, label, overall_status, endpoint_metrics, sticky, ran,
                 retired, calls>>

\* Mutant of CreateFails: the factory's status is only put in the metrics.
CreateFailsSilently(t) ==
  /\ Untried(t)
  /\ \E status \in Failures :
       /\ endpoint_metrics' = [endpoint_metrics EXCEPT ![t][label[t]] = status]
       /\ IF status = "failover"
          THEN /\ label' = [label EXCEPT ![t] = @ + 1]
               /\ UNCHANGED pc
          ELSE /\ pc' = [pc EXCEPT ![t] = "return"]
               /\ UNCHANGED label
  /\ UNCHANGED <<policy, now, arbiter, initial_stub, local_stub, local_stub_label,
                 attempted, stub, overall_status, sticky, ran, made, retired, calls>>

\* The factory fails: the next label is tried if the code allows it.
CreateFails(t) ==
  /\ Untried(t)
  /\ \E status \in Failures :
       /\ endpoint_metrics' = [endpoint_metrics EXCEPT ![t][label[t]] = status]
       /\ overall_status' = [overall_status EXCEPT ![t] = status]
       /\ IF status = "failover"
          THEN /\ label' = [label EXCEPT ![t] = @ + 1]
               /\ UNCHANGED pc
          ELSE /\ pc' = [pc EXCEPT ![t] = "return"]
               /\ UNCHANGED label
  /\ UNCHANGED <<policy, now, arbiter, initial_stub, local_stub, local_stub_label,
                 attempted, stub, sticky, ran, made, retired, calls>>

\* The callback on the new stub: unless the code is a failover one, the stub
\* is kept.
Run(t) ==
  /\ pc[t] = "run"
  /\ \E status \in Statuses :
       /\ Invoke(t, stub[t], label[t], status)
       /\ IF status = "failover"
          THEN /\ retired' = retired \union {stub[t]}
               /\ stub' = [stub EXCEPT ![t] = NoStub]
               /\ label' = [label EXCEPT ![t] = @ + 1]
               /\ pc' = [pc EXCEPT ![t] = "loop"]
          ELSE /\ pc' = [pc EXCEPT ![t] = "publish"]
               /\ UNCHANGED <<retired, stub, label>>
  /\ UNCHANGED <<policy, now, arbiter, initial_stub, local_stub, local_stub_label,
                 attempted, sticky, made, calls>>

\* Under the mutex the new stub becomes the active one, whatever is active.
Publish(t) ==
  /\ pc[t] = "publish"
  /\ Store(stub[t], label[t])
  /\ stub' = [stub EXCEPT ![t] = NoStub]
  /\ pc' = [pc EXCEPT ![t] = "return"]
  /\ UNCHANGED <<policy, now, initial_stub, local_stub, local_stub_label, attempted,
                 label, overall_status, endpoint_metrics, sticky, ran, made,
                 retired, calls>>

\* Every label has been gone through.
Exhausted(t) ==
  /\ pc[t] = "loop"
  /\ label[t] = Unknown
  /\ pc' = [pc EXCEPT ![t] = "return"]
  /\ UNCHANGED <<policy, now, arbiter, locals, made, retired, calls>>

-----------------------------------------------------------------------------
\* Execute returns its metrics; its locals go out of scope.
Return(t) ==
  /\ pc[t] = "return"
  /\ pc' = [pc EXCEPT ![t] = "idle"]
  /\ initial_stub' = [initial_stub EXCEPT ![t] = Primary]
  /\ local_stub' = [local_stub EXCEPT ![t] = NoStub]
  /\ local_stub_label' = [local_stub_label EXCEPT ![t] = Unknown]
  /\ attempted' = [attempted EXCEPT ![t] = Unknown]
  /\ label' = [label EXCEPT ![t] = Unknown]
  /\ overall_status' = [overall_status EXCEPT ![t] = "ok"]
  /\ endpoint_metrics' = [endpoint_metrics EXCEPT ![t] = NoMetrics]
  /\ sticky' = [sticky EXCEPT ![t] = FALSE]
  /\ ran' = [ran EXCEPT ![t] = <<>>]
  /\ UNCHANGED <<policy, now, arbiter, stub, made, retired, calls>>

\* The bound on the calls is reached with every call returned: with this step,
\* TLC reports as a deadlock any state in which a call is stuck.
Finished ==
  /\ calls = MaxCalls
  /\ \A t \in Threads : pc[t] = "idle"
  /\ UNCHANGED vars

Next ==
  \/ Tick
  \/ \E t \in Threads :
       \/ \E l \in Labels : Execute(t, l)
       \/ ManualReuse(t)
       \/ ManualReplace(t)
       \/ ManualFails(t)
       \/ RunManual(t)
       \/ Snapshot(t)
       \/ SnapshotNone(t)
       \/ RunLocal(t)
       \/ Clear(t)
       \/ SkipAttempted(t)
       \/ CreateStub(t)
       \/ CreateFails(t)
       \/ Run(t)
       \/ Publish(t)
       \/ Exhausted(t)
       \/ Return(t)
  \/ Finished

Spec == Init /\ [][Next]_vars

-----------------------------------------------------------------------------
\* The active stub is one that was made for active_stub_label_.
ActiveLabelMatches == active_stub.label = active_stub_label

\* A stub on which a call got a failover code, and which that call gave up, is
\* not active then and never becomes active again, however the other calls
\* that still use it end.
FailedStubStaysRetired == active_stub \notin retired

\* The callback is always given a stub that was made for the label it is told.
CallbackGetsStubOfItsLabel ==
  \A t \in Threads : \A i \in DOMAIN ran[t] : ran[t][i].stub.label = ran[t][i].label

\* One call of Execute runs the callback at most once per endpoint.
EachEndpointOnce ==
  \A t \in Threads : \A i, j \in DOMAIN ran[t] :
    ran[t][i].label = ran[t][j].label => i = j

\* The overall status a failover call returns was earned: success by the last
\* callback, a failover code by every endpoint from the initial one on, any
\* other code by some endpoint.
StatusIsEarned ==
  \A t \in Threads : pc[t] = "return" /\ policy = "failover" =>
    CASE overall_status[t] = "ok" ->
           /\ ran[t] # <<>>
           /\ endpoint_metrics[t][ran[t][Len(ran[t])].label] = "ok"
      [] overall_status[t] = "failover" ->
           \A l \in Labels : l >= initial_stub[t] =>
             endpoint_metrics[t][l] = "failover"
      [] overall_status[t] = "other" ->
           \E l \in Labels : endpoint_metrics[t][l] = "other"

\* A failover call that asks for the primary uses the secondary only after the
\* primary gave it a failover code, or as the active stub adopted less than
\* Refresh ago.
PrimaryFirst ==
  \A t \in Threads :
    /\ policy = "failover" /\ initial_stub[t] = Primary
    /\ \E i \in DOMAIN ran[t] : ran[t][i].label = Secondary
    => \/ endpoint_metrics[t][Primary] = "failover"
       \/ ran[t][1].label = Secondary /\ sticky[t]

\* Execute fails over soundly: it runs the callback at most once per endpoint
\* however often stubs fail under it, returns a status that was earned, and
\* prefers the primary.
FailoverIsSound == EachEndpointOnce /\ StatusIsEarned /\ PrimaryFirst

\* Under failover the active stub is dropped without a successor only by a call
\* that has just seen that very stub fail.
OnlyFailedStubIsCleared ==
  [][policy = "failover" /\ active_stub # NoStub /\ active_stub' = NoStub
       => \E t \in Threads :
            /\ pc[t] = "clear" /\ pc'[t] = "loop"
            /\ ran[t][Len(ran[t])].stub = active_stub]_vars

=============================================================================
