------------------------- MODULE StubArbiterProofs -------------------------
(***************************************************************************)
(* The active stub always has the label it is stored under, a stub given   *)
(* up after a failover code never becomes active again, and the callback   *)
(* only ever sees a stub of its label: for any number of threads and       *)
(* calls, any refresh time and both policies.  On top of that, a call fails*)
(* over soundly: what it has done at each of its steps justifies what it   *)
(* returns.                                                                *)
(***************************************************************************)
EXTENDS StubArbiter, SequenceTheorems, TLAPS

\* What a thread knows of the stub it is about to use.
LocalInv ==
  \A t \in Threads :
    /\ pc[t] \in {"run_local", "clear"} =>
         local_stub[t] \in Stubs /\ local_stub_label[t] = local_stub[t].label
    /\ pc[t] = "run_manual" =>
         local_stub[t] \in Stubs /\ initial_stub[t] = local_stub[t].label
    /\ pc[t] \in {"run", "publish"} =>
         stub[t] \in Stubs /\ label[t] = stub[t].label

\* Stubs are numbered as they are made, so a new one is nobody's.
NumberInv ==
  /\ active_stub.id <= made
  /\ \A s \in retired : s.id <= made
  /\ \A t \in Threads : local_stub[t].id <= made /\ stub[t].id <= made

\* The stub a failover loop has made is its own until it is published.
OwnerInv ==
  \A t \in Threads : pc[t] \in {"run", "publish"} =>
    /\ stub[t] # active_stub
    /\ stub[t] \notin retired
    /\ \A u \in Threads : /\ local_stub[u] # stub[t]
                          /\ u # t => stub[u] # stub[t]

\* FailedStubStaysRetired is not inductive by itself: a published stub must be
\* known to be unused by, and unknown to, every other call.
IInv ==
  /\ TypeOK
  /\ ActiveLabelMatches
  /\ LocalInv
  /\ NumberInv
  /\ OwnerInv
  /\ FailedStubStaysRetired
  /\ CallbackGetsStubOfItsLabel

LEMMA StubFacts ==
  /\ NoStub \notin Stubs
  /\ NoStub.id = 0 /\ NoStub.label = Unknown
  /\ \A s \in Stubs : s.id \in Nat /\ s.id # 0 /\ s.label \in Labels
  /\ \A s \in Stubs \union {NoStub} : s.id \in Nat
  /\ \A l \in Labels : l + 1 \in Labels \union {Unknown}
  /\ Unknown \notin Labels
BY DEF NoStub, Stubs, Labels, Primary, Secondary, Unknown

LEMMA NewStubFacts ==
  ASSUME made \in Nat, NEW l \in Labels
  PROVE  /\ NewStub(l) \in Stubs
         /\ NewStub(l).id = made + 1
         /\ NewStub(l).label = l
BY DEF NewStub, Stubs

LEMMA InitIInv == Init => IInv
<1> SUFFICES ASSUME Init PROVE IInv
  OBVIOUS
<1>1. made \in Nat /\ active_stub \in Stubs \union {NoStub}
  BY DEF Init, Stubs, Labels, Primary
<1>2. TypeOK
  <2>1. ran \in [Threads -> Seq([label : Labels, stub : Stubs])]
    BY EmptySeq DEF Init
  <2>2. endpoint_metrics \in [Threads -> [Labels -> Statuses \union {"none"}]]
    BY DEF Init, NoMetrics
  <2>3. sticky \in [Threads -> BOOLEAN]
    BY DEF Init
  <2>4. /\ now \in 0 .. MaxTime /\ freshness_time \in 0 .. MaxTime
        /\ adopted \in 0 .. MaxTime /\ calls \in 0 .. MaxCalls
    BY BoundsAssumption DEF Init
  <2>5. pc \in [Threads -> Steps] /\ overall_status \in [Threads -> Statuses]
    BY DEF Init, Steps, Statuses
  <2>6. /\ initial_stub \in [Threads -> Labels]
        /\ active_stub_label \in Labels \union {Unknown}
    BY DEF Init, Labels
  <2>7. QED BY <1>1, <2>1, <2>2, <2>3, <2>4, <2>5, <2>6 DEF Init, TypeOK
<1>3. ActiveLabelMatches /\ NumberInv
  BY DEF Init, ActiveLabelMatches, NumberInv, NoStub
<1>4. LocalInv /\ OwnerInv /\ FailedStubStaysRetired /\ CallbackGetsStubOfItsLabel
  BY DEF Init, LocalInv, OwnerInv, FailedStubStaysRetired,
         CallbackGetsStubOfItsLabel
<1>5. QED BY <1>2, <1>3, <1>4 DEF IInv

\* One callback: the metrics stay well typed and the history gains an entry
\* whose stub has its label.
LEMMA InvokeFacts ==
  ASSUME TypeOK, CallbackGetsStubOfItsLabel,
         NEW t \in Threads, NEW s \in Stubs, NEW status \in Statuses,
         Invoke(t, s, s.label, status)
  PROVE  /\ ran' \in [Threads -> Seq([label : Labels, stub : Stubs])]
         /\ endpoint_metrics' \in [Threads -> [Labels -> Statuses \union {"none"}]]
         /\ overall_status' \in [Threads -> Statuses]
         /\ CallbackGetsStubOfItsLabel'
<1> DEFINE e == [label |-> s.label, stub |-> s]
           Entries == [label : Labels, stub : Stubs]
<1>1. e \in Entries /\ e.stub.label = e.label
  BY StubFacts
<1>2. ran[t] \in Seq(Entries)
  BY DEF TypeOK
<1>3. Append(ran[t], e) \in Seq(Entries)
  BY <1>1, <1>2
<1>4. \A u \in Threads : ran'[u] = IF u = t THEN Append(ran[t], e) ELSE ran[u]
  BY DEF Invoke, TypeOK
<1>5. ran' \in [Threads -> Seq(Entries)]
  BY <1>3 DEF Invoke, TypeOK
<1>6. endpoint_metrics' \in [Threads -> [Labels -> Statuses \union {"none"}]]
  BY DEF Invoke, TypeOK
<1>7. overall_status' \in [Threads -> Statuses]
  BY DEF Invoke, TypeOK
<1>8. CallbackGetsStubOfItsLabel'
  <2> HIDE DEF e, Entries
  <2> SUFFICES ASSUME NEW u \in Threads, NEW i \in DOMAIN ran'[u]
               PROVE  ran'[u][i].stub.label = ran'[u][i].label
    BY DEF CallbackGetsStubOfItsLabel
  <2>1. CASE u # t
    BY <2>1, <1>4 DEF CallbackGetsStubOfItsLabel
  <2>2. CASE u = t
    <3>1. /\ Len(Append(ran[t], e)) = Len(ran[t]) + 1
          /\ Append(ran[t], e)[Len(ran[t]) + 1] = e
          /\ \A j \in 1 .. Len(ran[t]) : Append(ran[t], e)[j] = ran[t][j]
          /\ Len(ran[t]) \in Nat
      BY <1>1, <1>2, AppendProperties, LenProperties
    <3>2. /\ DOMAIN ran[t] = 1 .. Len(ran[t])
          /\ DOMAIN ran'[u] = 1 .. Len(ran[t]) + 1
      BY <1>2, <1>3, <1>4, <2>2, <3>1, LenProperties
    <3>3. CASE i = Len(ran[t]) + 1
      BY <3>1, <3>3, <2>2, <1>1, <1>4
    <3>4. CASE i \in DOMAIN ran[t]
      <4>1. ran'[u][i] = ran[t][i]
        BY <3>1, <3>2, <3>4, <2>2, <1>4
      <4>2. QED BY <4>1, <3>4 DEF CallbackGetsStubOfItsLabel
    <3>5. QED BY <3>1, <3>2, <3>3, <3>4
  <2>3. QED BY <2>1, <2>2
<1>9. QED BY <1>5, <1>6, <1>7, <1>8

LEMMA NextIInv ==
  ASSUME IInv, [Next]_vars
  PROVE  IInv'
<1> USE DEF IInv
<1> SUFFICES ASSUME Next PROVE IInv'
  <2>1. CASE UNCHANGED vars
    BY <2>1 DEF vars, arbiter, locals, TypeOK, ActiveLabelMatches, LocalInv,
         NumberInv, OwnerInv, FailedStubStaysRetired, CallbackGetsStubOfItsLabel
  <2>2. QED BY <2>1
<1>1. CASE Tick
  <2>1. now' \in 0 .. MaxTime
    BY <1>1, BoundsAssumption DEF Tick, TypeOK
  <2>2. TypeOK'
    BY <1>1, <2>1 DEF Tick, arbiter, locals, TypeOK
  <2>3. QED
    BY <1>1, <2>2 DEF Tick, arbiter, locals, ActiveLabelMatches, LocalInv, NumberInv,
       OwnerInv, FailedStubStaysRetired, CallbackGetsStubOfItsLabel
<1>2. CASE Finished
  BY <1>2 DEF Finished, vars, arbiter, locals, TypeOK, ActiveLabelMatches, LocalInv,
         NumberInv, OwnerInv, FailedStubStaysRetired, CallbackGetsStubOfItsLabel
<1>3. ASSUME NEW t \in Threads, NEW l \in Labels, Execute(t, l) PROVE IInv'
  <2>1. TypeOK'
    <3>1. calls' \in 0 .. MaxCalls
      BY <1>3, BoundsAssumption DEF Execute, TypeOK
    <3>2. pc' \in [Threads -> Steps]
      BY <1>3 DEF Execute, TypeOK, Steps
    <3>3. initial_stub' \in [Threads -> Labels]
      BY <1>3 DEF Execute, TypeOK
    <3>4. QED BY <3>1, <3>2, <3>3, <1>3 DEF Execute, arbiter, locals, TypeOK
  <2>2. ActiveLabelMatches' /\ FailedStubStaysRetired'
    BY <1>3, StubFacts DEF Execute, arbiter, locals, TypeOK, LocalInv, NumberInv,
       OwnerInv, ActiveLabelMatches, FailedStubStaysRetired
  <2>3. LocalInv'
    BY <1>3, StubFacts DEF Execute, arbiter, locals, TypeOK, LocalInv,
       ActiveLabelMatches
  <2>4. NumberInv'
    BY <1>3, StubFacts DEF Execute, arbiter, locals, TypeOK, NumberInv
  <2>5. OwnerInv'
    BY <1>3, StubFacts DEF Execute, arbiter, locals, TypeOK, LocalInv, NumberInv,
       OwnerInv
  <2>6. CallbackGetsStubOfItsLabel'
    BY <1>3 DEF Execute, arbiter, locals, TypeOK, CallbackGetsStubOfItsLabel
  <2>7. QED BY <2>1, <2>2, <2>3, <2>4, <2>5, <2>6
<1>4. ASSUME NEW t \in Threads, ManualReuse(t) PROVE IInv'
  <2>0. active_stub \in Stubs
    <3>1. active_stub.label \in Labels
      BY <1>4 DEF ManualReuse, TypeOK, ActiveLabelMatches
    <3>2. QED BY <3>1, StubFacts DEF TypeOK
  <2>1. TypeOK'
    BY <1>4, BoundsAssumption DEF ManualReuse, arbiter, locals, TypeOK, Steps, Labels,
       Primary, Secondary, Unknown
  <2>2. ActiveLabelMatches' /\ FailedStubStaysRetired'
    BY <1>4, StubFacts DEF ManualReuse, arbiter, locals, TypeOK, LocalInv, NumberInv,
       OwnerInv, ActiveLabelMatches, FailedStubStaysRetired
  <2>3. LocalInv'
    BY <2>0, <1>4, StubFacts DEF ManualReuse, arbiter, locals, TypeOK, LocalInv,
       ActiveLabelMatches
  <2>4. NumberInv'
    BY <1>4, StubFacts DEF ManualReuse, arbiter, locals, TypeOK, NumberInv
  <2>5. OwnerInv'
    BY <1>4, StubFacts DEF ManualReuse, arbiter, locals, TypeOK, LocalInv, NumberInv,
       OwnerInv
  <2>6. CallbackGetsStubOfItsLabel'
    BY <1>4 DEF ManualReuse, arbiter, locals, TypeOK, CallbackGetsStubOfItsLabel
  <2>7. QED BY <2>1, <2>2, <2>3, <2>4, <2>5, <2>6
<1>5. ASSUME NEW t \in Threads, ManualReplace(t) PROVE IInv'
  <2>0. /\ NewStub(initial_stub[t]) \in Stubs
        /\ NewStub(initial_stub[t]).id = made + 1
        /\ NewStub(initial_stub[t]).label = initial_stub[t]
        /\ initial_stub[t] \in Labels
    BY <1>5, NewStubFacts DEF ManualReplace, TypeOK
  <2>1. TypeOK'
    <3>1. pc' \in [Threads -> Steps] /\ made' \in Nat
      BY <1>5 DEF ManualReplace, TypeOK, Steps
    <3>2. local_stub' \in [Threads -> Stubs \union {NoStub}]
      BY <1>5, <2>0 DEF ManualReplace, TypeOK
    <3>3. QED BY <3>1, <3>2, <1>5, <2>0 DEF ManualReplace, Store, arbiter, locals, TypeOK
  <2>2. ActiveLabelMatches' /\ FailedStubStaysRetired'
    BY <1>5, StubFacts, <2>0 DEF ManualReplace, Store, arbiter, locals, TypeOK, LocalInv, NumberInv,
       OwnerInv, ActiveLabelMatches, FailedStubStaysRetired
  <2>3. LocalInv'
    BY <1>5, StubFacts, <2>0 DEF ManualReplace, Store, arbiter, locals, TypeOK, LocalInv,
       ActiveLabelMatches
  <2>4. NumberInv'
    <3>1. /\ active_stub.id \in Nat /\ made \in Nat
          /\ \A s \in retired : s.id \in Nat
          /\ \A u \in Threads : local_stub[u].id \in Nat /\ stub[u].id \in Nat
      BY StubFacts DEF TypeOK
    <3>2. active_stub'.id <= made' /\ \A s \in retired' : s.id <= made'
      BY <1>5, <2>0, <3>1 DEF ManualReplace, Store, arbiter, locals, NumberInv
    <3>3. \A u \in Threads : local_stub'[u].id <= made' /\ stub'[u].id <= made'
      BY <1>5, <2>0, <3>1, StubFacts DEF ManualReplace, Store, arbiter, locals, TypeOK, NumberInv
    <3>4. QED BY <3>2, <3>3 DEF NumberInv
  <2>5. OwnerInv'
    BY <1>5, StubFacts, <2>0 DEF ManualReplace, Store, arbiter, locals, TypeOK, LocalInv, NumberInv,
       OwnerInv
  <2>6. CallbackGetsStubOfItsLabel'
    BY <1>5 DEF ManualReplace, Store, arbiter, locals, TypeOK, CallbackGetsStubOfItsLabel
  <2>7. QED BY <2>1, <2>2, <2>3, <2>4, <2>5, <2>6
<1>6. ASSUME NEW t \in Threads, ManualFails(t) PROVE IInv'
  <2>1. TypeOK'
    <3>1. overall_status' \in [Threads -> Statuses]
      BY <1>6 DEF ManualFails, TypeOK, Failures, Statuses
    <3>2. QED BY <3>1, <1>6, StubFacts DEF ManualFails, arbiter, locals, TypeOK, Steps
  <2>2. ActiveLabelMatches' /\ FailedStubStaysRetired'
    BY <1>6, StubFacts DEF ManualFails, arbiter, locals, TypeOK, LocalInv, NumberInv,
       OwnerInv, ActiveLabelMatches, FailedStubStaysRetired
  <2>3. LocalInv'
    BY <1>6, StubFacts DEF ManualFails, arbiter, locals, TypeOK, LocalInv,
       ActiveLabelMatches
  <2>4. NumberInv'
    BY <1>6, StubFacts DEF ManualFails, arbiter, locals, TypeOK, NumberInv
  <2>5. OwnerInv'
    BY <1>6, StubFacts DEF ManualFails, arbiter, locals, TypeOK, LocalInv, NumberInv,
       OwnerInv
  <2>6. CallbackGetsStubOfItsLabel'
    BY <1>6 DEF ManualFails, arbiter, locals, TypeOK, CallbackGetsStubOfItsLabel
  <2>7. QED BY <2>1, <2>2, <2>3, <2>4, <2>5, <2>6
<1>7. ASSUME NEW t \in Threads, RunManual(t) PROVE IInv'
  <2>1. PICK status \in Statuses : Invoke(t, local_stub[t], initial_stub[t], status)
    BY <1>7 DEF RunManual
  <2>2. local_stub[t] \in Stubs /\ initial_stub[t] = local_stub[t].label
    BY <1>7 DEF RunManual, LocalInv
  <2>3. /\ ran' \in [Threads -> Seq([label : Labels, stub : Stubs])]
        /\ endpoint_metrics' \in [Threads -> [Labels -> Statuses \union {"none"}]]
        /\ overall_status' \in [Threads -> Statuses]
        /\ CallbackGetsStubOfItsLabel'
    BY <2>1, <2>2, InvokeFacts
  <2>4. TypeOK'
    BY <1>7, <2>2, <2>3, BoundsAssumption DEF RunManual, arbiter, locals, TypeOK, Steps, Labels,
       Primary, Secondary, Unknown
  <2>5. ActiveLabelMatches' /\ FailedStubStaysRetired'
    BY <1>7, <2>2, <2>3, StubFacts DEF RunManual, arbiter, locals, TypeOK, LocalInv, NumberInv,
       OwnerInv, ActiveLabelMatches, FailedStubStaysRetired
  <2>6. LocalInv'
    BY <1>7, <2>2, <2>3, StubFacts DEF RunManual, arbiter, locals, TypeOK, LocalInv,
       ActiveLabelMatches
  <2>7. NumberInv'
    BY <1>7, <2>2, <2>3, StubFacts DEF RunManual, arbiter, locals, TypeOK, NumberInv
  <2>8. OwnerInv'
    BY <1>7, <2>2, <2>3, StubFacts DEF RunManual, arbiter, locals, TypeOK, LocalInv, NumberInv,
       OwnerInv
  <2>9. CallbackGetsStubOfItsLabel'
    BY <1>7, <2>2, <2>3 DEF RunManual, arbiter, locals, TypeOK, CallbackGetsStubOfItsLabel
  <2>10. QED BY <2>4, <2>5, <2>6, <2>7, <2>8, <2>9
<1>8. ASSUME NEW t \in Threads, Snapshot(t) PROVE IInv'
  <2>1. TypeOK'
    <3>1. sticky' \in [Threads -> BOOLEAN]
      BY <1>8 DEF Snapshot, TypeOK
    <3>2. pc' \in [Threads -> Steps]
      BY <1>8 DEF Snapshot, TypeOK, Steps
    <3>3. QED BY <3>1, <3>2, <1>8 DEF Snapshot, Usable, arbiter, locals, TypeOK
  <2>2. ActiveLabelMatches' /\ FailedStubStaysRetired'
    BY <1>8, StubFacts DEF Snapshot, Usable, arbiter, locals, TypeOK, LocalInv, NumberInv,
       OwnerInv, ActiveLabelMatches, FailedStubStaysRetired
  <2>3. LocalInv'
    BY <1>8, StubFacts DEF Snapshot, Usable, arbiter, locals, TypeOK, LocalInv,
       ActiveLabelMatches
  <2>4. NumberInv'
    BY <1>8, StubFacts DEF Snapshot, Usable, arbiter, locals, TypeOK, NumberInv
  <2>5. OwnerInv'
    BY <1>8, StubFacts DEF Snapshot, Usable, arbiter, locals, TypeOK, LocalInv, NumberInv,
       OwnerInv
  <2>6. CallbackGetsStubOfItsLabel'
    BY <1>8 DEF Snapshot, Usable, arbiter, locals, TypeOK, CallbackGetsStubOfItsLabel
  <2>7. QED BY <2>1, <2>2, <2>3, <2>4, <2>5, <2>6
<1>9. ASSUME NEW t \in Threads, SnapshotNone(t) PROVE IInv'
  <2>1. TypeOK'
    BY <1>9, BoundsAssumption DEF SnapshotNone, arbiter, locals, TypeOK, Steps, Labels,
       Primary, Secondary, Unknown
  <2>2. ActiveLabelMatches' /\ FailedStubStaysRetired'
    BY <1>9, StubFacts DEF SnapshotNone, arbiter, locals, TypeOK, LocalInv, NumberInv,
       OwnerInv, ActiveLabelMatches, FailedStubStaysRetired
  <2>3. LocalInv'
    BY <1>9, StubFacts DEF SnapshotNone, arbiter, locals, TypeOK, LocalInv,
       ActiveLabelMatches
  <2>4. NumberInv'
    BY <1>9, StubFacts DEF SnapshotNone, arbiter, locals, TypeOK, NumberInv
  <2>5. OwnerInv'
    BY <1>9, StubFacts DEF SnapshotNone, arbiter, locals, TypeOK, LocalInv, NumberInv,
       OwnerInv
  <2>6. CallbackGetsStubOfItsLabel'
    BY <1>9 DEF SnapshotNone, arbiter, locals, TypeOK, CallbackGetsStubOfItsLabel
  <2>7. QED BY <2>1, <2>2, <2>3, <2>4, <2>5, <2>6
<1>10. ASSUME NEW t \in Threads, RunLocal(t) PROVE IInv'
  <2>1. PICK status \in Statuses : Invoke(t, local_stub[t], local_stub_label[t], status)
    BY <1>10 DEF RunLocal
  <2>2. local_stub[t] \in Stubs /\ local_stub_label[t] = local_stub[t].label
    BY <1>10 DEF RunLocal, LocalInv
  <2>3. /\ ran' \in [Threads -> Seq([label : Labels, stub : Stubs])]
        /\ endpoint_metrics' \in [Threads -> [Labels -> Statuses \union {"none"}]]
        /\ overall_status' \in [Threads -> Statuses]
        /\ CallbackGetsStubOfItsLabel'
    BY <2>1, <2>2, InvokeFacts
  <2>4. TypeOK'
    BY <1>10, <2>2, <2>3, BoundsAssumption DEF RunLocal, arbiter, locals, TypeOK, Steps, Labels,
       Primary, Secondary, Unknown
  <2>5. ActiveLabelMatches' /\ FailedStubStaysRetired'
    BY <1>10, <2>2, <2>3, StubFacts DEF RunLocal, arbiter, locals, TypeOK, LocalInv, NumberInv,
       OwnerInv, ActiveLabelMatches, FailedStubStaysRetired
  <2>6. LocalInv'
    BY <1>10, <2>2, <2>3, StubFacts DEF RunLocal, arbiter, locals, TypeOK, LocalInv,
       ActiveLabelMatches
  <2>7. NumberInv'
    BY <1>10, <2>2, <2>3, StubFacts DEF RunLocal, arbiter, locals, TypeOK, NumberInv
  <2>8. OwnerInv'
    BY <1>10, <2>2, <2>3, StubFacts DEF RunLocal, arbiter, locals, TypeOK, LocalInv, NumberInv,
       OwnerInv
  <2>9. CallbackGetsStubOfItsLabel'
    BY <1>10, <2>2, <2>3 DEF RunLocal, arbiter, locals, TypeOK, CallbackGetsStubOfItsLabel
  <2>10. QED BY <2>4, <2>5, <2>6, <2>7, <2>8, <2>9
<1>11. ASSUME NEW t \in Threads, Clear(t) PROVE IInv'
  <2>1. TypeOK'
    <3>1. retired' \subseteq Stubs
      BY <1>11 DEF Clear, StillActive, TypeOK, LocalInv
    <3>2. QED BY <3>1, <1>11, StubFacts DEF Clear, StillActive, arbiter, locals, TypeOK, Steps
  <2>2. ActiveLabelMatches' /\ FailedStubStaysRetired'
    BY <1>11, StubFacts DEF Clear, StillActive, arbiter, locals, TypeOK, LocalInv, NumberInv,
       OwnerInv, ActiveLabelMatches, FailedStubStaysRetired
  <2>3. LocalInv'
    BY <1>11, StubFacts DEF Clear, StillActive, arbiter, locals, TypeOK, LocalInv,
       ActiveLabelMatches
  <2>4. NumberInv'
    BY <1>11, StubFacts DEF Clear, StillActive, arbiter, locals, TypeOK, NumberInv
  <2>5. OwnerInv'
    BY <1>11, StubFacts DEF Clear, StillActive, arbiter, locals, TypeOK, LocalInv, NumberInv,
       OwnerInv
  <2>6. CallbackGetsStubOfItsLabel'
    BY <1>11 DEF Clear, StillActive, arbiter, locals, TypeOK, CallbackGetsStubOfItsLabel
  <2>7. QED BY <2>1, <2>2, <2>3, <2>4, <2>5, <2>6
<1>12. ASSUME NEW t \in Threads, SkipAttempted(t) PROVE IInv'
  <2>1. TypeOK'
    <3>1. label' \in [Threads -> Labels \union {Unknown}]
      BY <1>12 DEF SkipAttempted, TypeOK, Labels, Primary, Secondary, Unknown
    <3>2. QED BY <3>1, <1>12, StubFacts DEF SkipAttempted, arbiter, locals, TypeOK, Steps
  <2>2. ActiveLabelMatches' /\ FailedStubStaysRetired'
    BY <1>12, StubFacts DEF SkipAttempted, arbiter, locals, TypeOK, LocalInv, NumberInv,
       OwnerInv, ActiveLabelMatches, FailedStubStaysRetired
  <2>3. LocalInv'
    BY <1>12, StubFacts DEF SkipAttempted, arbiter, locals, TypeOK, LocalInv,
       ActiveLabelMatches
  <2>4. NumberInv'
    BY <1>12, StubFacts DEF SkipAttempted, arbiter, locals, TypeOK, NumberInv
  <2>5. OwnerInv'
    BY <1>12, StubFacts DEF SkipAttempted, arbiter, locals, TypeOK, LocalInv, NumberInv,
       OwnerInv
  <2>6. CallbackGetsStubOfItsLabel'
    BY <1>12 DEF SkipAttempted, arbiter, locals, TypeOK, CallbackGetsStubOfItsLabel
  <2>7. QED BY <2>1, <2>2, <2>3, <2>4, <2>5, <2>6
<1>13. ASSUME NEW t \in Threads, CreateStub(t) PROVE IInv'
  <2>0. /\ NewStub(label[t]) \in Stubs
        /\ NewStub(label[t]).id = made + 1
        /\ NewStub(label[t]).label = label[t]
        /\ label[t] \in Labels
    BY <1>13, NewStubFacts DEF CreateStub, Untried, TypeOK
  <2>1. TypeOK'
    <3>1. pc' \in [Threads -> Steps] /\ made' \in Nat
      BY <1>13 DEF CreateStub, TypeOK, Steps
    <3>2. stub' \in [Threads -> Stubs \union {NoStub}]
      BY <1>13, <2>0 DEF CreateStub, TypeOK
    <3>3. QED BY <3>1, <3>2, <1>13, <2>0 DEF CreateStub, Untried, arbiter, locals, TypeOK
  <2>2. ActiveLabelMatches' /\ FailedStubStaysRetired'
    BY <1>13, <2>0, StubFacts DEF CreateStub, Untried, arbiter, locals, TypeOK, LocalInv, NumberInv,
       OwnerInv, ActiveLabelMatches, FailedStubStaysRetired
  <2>3. LocalInv'
    BY <1>13, <2>0, StubFacts DEF CreateStub, Untried, arbiter, locals, TypeOK, LocalInv,
       ActiveLabelMatches
  <2>4. NumberInv'
    <3>1. /\ active_stub.id \in Nat /\ made \in Nat
          /\ \A s \in retired : s.id \in Nat
          /\ \A u \in Threads : local_stub[u].id \in Nat /\ stub[u].id \in Nat
      BY StubFacts DEF TypeOK
    <3>2. active_stub'.id <= made' /\ \A s \in retired' : s.id <= made'
      BY <1>13, <2>0, <3>1 DEF CreateStub, arbiter, locals, NumberInv
    <3>3. \A u \in Threads : local_stub'[u].id <= made' /\ stub'[u].id <= made'
      BY <1>13, <2>0, <3>1, StubFacts DEF CreateStub, arbiter, locals, TypeOK, NumberInv
    <3>4. QED BY <3>2, <3>3 DEF NumberInv
  <2>5. OwnerInv'
    BY <1>13, <2>0, StubFacts DEF CreateStub, Untried, arbiter, locals, TypeOK, LocalInv, NumberInv,
       OwnerInv
  <2>6. CallbackGetsStubOfItsLabel'
    BY <1>13 DEF CreateStub, Untried, arbiter, locals, TypeOK, CallbackGetsStubOfItsLabel
  <2>7. QED BY <2>1, <2>2, <2>3, <2>4, <2>5, <2>6
<1>14. ASSUME NEW t \in Threads, CreateFails(t) PROVE IInv'
  <2>1. TypeOK'
    <3>1. overall_status' \in [Threads -> Statuses]
      BY <1>14 DEF CreateFails, TypeOK, Failures, Statuses
    <3>2. label[t] \in Labels
      BY <1>14 DEF CreateFails, Untried
    <3>3. endpoint_metrics' \in [Threads -> [Labels -> Statuses \union {"none"}]]
      BY <1>14, <3>2 DEF CreateFails, TypeOK, Failures, Statuses
    <3>4. pc' \in [Threads -> Steps]
      BY <1>14 DEF CreateFails, TypeOK, Steps
    <3>5. label' \in [Threads -> Labels \union {Unknown}]
      <4>1. label[t] + 1 \in Labels \union {Unknown}
        BY <3>2, StubFacts
      <4>2. label' = [label EXCEPT ![t] = label[t] + 1] \/ label' = label
        BY <1>14 DEF CreateFails
      <4>3. QED BY <4>1, <4>2 DEF TypeOK
    <3>6. QED BY <3>1, <3>2, <3>3, <3>4, <3>5, <1>14 DEF CreateFails, Untried, arbiter, locals, TypeOK
  <2>2. ActiveLabelMatches' /\ FailedStubStaysRetired'
    BY <1>14, StubFacts DEF CreateFails, Untried, arbiter, locals, TypeOK, LocalInv, NumberInv,
       OwnerInv, ActiveLabelMatches, FailedStubStaysRetired
  <2>3. LocalInv'
    BY <1>14, StubFacts DEF CreateFails, Untried, arbiter, locals, TypeOK, LocalInv,
       ActiveLabelMatches
  <2>4. NumberInv'
    BY <1>14, StubFacts DEF CreateFails, Untried, arbiter, locals, TypeOK, NumberInv
  <2>5. OwnerInv'
    BY <1>14, StubFacts DEF CreateFails, Untried, arbiter, locals, TypeOK, LocalInv, NumberInv,
       OwnerInv
  <2>6. CallbackGetsStubOfItsLabel'
    BY <1>14 DEF CreateFails, Untried, arbiter, locals, TypeOK, CallbackGetsStubOfItsLabel
  <2>7. QED BY <2>1, <2>2, <2>3, <2>4, <2>5, <2>6
<1>15. ASSUME NEW t \in Threads, Run(t) PROVE IInv'
  <2>1. PICK status \in Statuses : Invoke(t, stub[t], label[t], status)
    BY <1>15 DEF Run
  <2>2. stub[t] \in Stubs /\ label[t] = stub[t].label
    BY <1>15 DEF Run, LocalInv
  <2>3. /\ ran' \in [Threads -> Seq([label : Labels, stub : Stubs])]
        /\ endpoint_metrics' \in [Threads -> [Labels -> Statuses \union {"none"}]]
        /\ overall_status' \in [Threads -> Statuses]
        /\ CallbackGetsStubOfItsLabel'
    BY <2>1, <2>2, InvokeFacts
  <2>4. \/ /\ retired' = retired \union {stub[t]}
           /\ stub' = [stub EXCEPT ![t] = NoStub]
           /\ label' = [label EXCEPT ![t] = @ + 1]
           /\ pc' = [pc EXCEPT ![t] = "loop"]
        \/ /\ pc' = [pc EXCEPT ![t] = "publish"]
           /\ UNCHANGED <<retired, stub, label>>
    BY <1>15 DEF Run
  <2>5. /\ pc[t] = "run"
        /\ UNCHANGED <<policy, now, arbiter, initial_stub, local_stub,
                       local_stub_label, attempted, sticky, made, calls>>
    BY <1>15 DEF Run
  <2>6. TypeOK'
    <3>1. label' \in [Threads -> Labels \union {Unknown}]
      <4>1. label[t] + 1 \in Labels \union {Unknown}
        BY <2>2, StubFacts
      <4>2. label' = [label EXCEPT ![t] = label[t] + 1] \/ label' = label
        BY <2>4
      <4>3. QED BY <4>1, <4>2 DEF TypeOK
    <3>2. pc' \in [Threads -> Steps]
      BY <2>4 DEF TypeOK, Steps
    <3>3. retired' \subseteq Stubs /\ stub' \in [Threads -> Stubs \union {NoStub}]
      BY <2>2, <2>4 DEF TypeOK
    <3>4. QED BY <2>3, <2>5, <3>1, <3>2, <3>3 DEF TypeOK, arbiter
  <2>7. ActiveLabelMatches' /\ FailedStubStaysRetired'
    BY <2>4, <2>5 DEF arbiter, TypeOK, OwnerInv, ActiveLabelMatches,
       FailedStubStaysRetired
  <2>8. LocalInv'
    BY <2>2, <2>4, <2>5 DEF TypeOK, LocalInv
  <2>9. NumberInv'
    <3>1. /\ active_stub.id \in Nat /\ made \in Nat
          /\ \A s \in retired : s.id \in Nat
          /\ \A u \in Threads : local_stub[u].id \in Nat /\ stub[u].id \in Nat
      BY StubFacts DEF TypeOK
    <3>2. active_stub'.id <= made' /\ \A s \in retired' : s.id <= made'
      BY <2>2, <2>4, <2>5, <3>1 DEF arbiter, NumberInv
    <3>3. \A u \in Threads : local_stub'[u].id <= made' /\ stub'[u].id <= made'
      <4>1. \A u \in Threads : stub'[u] = stub[u] \/ stub'[u] = NoStub
        BY <2>4 DEF TypeOK
      <4>2. NoStub.id <= made
        BY <3>1, StubFacts
      <4>3. QED BY <2>5, <4>1, <4>2 DEF NumberInv
    <3>4. QED BY <3>2, <3>3 DEF NumberInv
  <2>10. OwnerInv'
    <3> SUFFICES ASSUME NEW u \in Threads, pc'[u] \in {"run", "publish"}
                 PROVE  /\ stub'[u] # active_stub'
                        /\ stub'[u] \notin retired'
                        /\ \A v \in Threads : /\ local_stub'[v] # stub'[u]
                                              /\ v # u => stub'[v] # stub'[u]
      BY DEF OwnerInv
    <3>1. /\ pc[u] \in {"run", "publish"}
          /\ stub'[u] = stub[u] /\ stub[u] \in Stubs
      BY <2>2, <2>4, <2>5 DEF TypeOK, LocalInv
    <3>2. stub'[u] \notin retired'
      BY <2>4, <2>5, <3>1 DEF TypeOK, OwnerInv
    <3>3. \A v \in Threads : stub'[v] = stub[v] \/ stub'[v] = NoStub
      BY <2>4 DEF TypeOK
    <3>4. QED BY <2>5, <3>1, <3>2, <3>3, StubFacts DEF arbiter, OwnerInv
  <2>11. QED BY <2>3, <2>6, <2>7, <2>8, <2>9, <2>10
<1>16. ASSUME NEW t \in Threads, Publish(t) PROVE IInv'
  <2>1. TypeOK'
    BY <1>16, BoundsAssumption DEF Publish, Store, arbiter, locals, TypeOK, Steps, Labels,
       Primary, Secondary, Unknown
  <2>2. ActiveLabelMatches' /\ FailedStubStaysRetired'
    BY <1>16, StubFacts DEF Publish, Store, arbiter, locals, TypeOK, LocalInv, NumberInv,
       OwnerInv, ActiveLabelMatches, FailedStubStaysRetired
  <2>3. LocalInv'
    BY <1>16, StubFacts DEF Publish, Store, arbiter, locals, TypeOK, LocalInv,
       ActiveLabelMatches
  <2>4. NumberInv'
    BY <1>16, StubFacts DEF Publish, Store, arbiter, locals, TypeOK, NumberInv
  <2>5. OwnerInv'
    BY <1>16, StubFacts DEF Publish, Store, arbiter, locals, TypeOK, LocalInv, NumberInv,
       OwnerInv
  <2>6. CallbackGetsStubOfItsLabel'
    BY <1>16 DEF Publish, Store, arbiter, locals, TypeOK, CallbackGetsStubOfItsLabel
  <2>7. QED BY <2>1, <2>2, <2>3, <2>4, <2>5, <2>6
<1>17. ASSUME NEW t \in Threads, Exhausted(t) PROVE IInv'
  <2>1. TypeOK'
    BY <1>17, BoundsAssumption DEF Exhausted, arbiter, locals, TypeOK, Steps, Labels,
       Primary, Secondary, Unknown
  <2>2. ActiveLabelMatches' /\ FailedStubStaysRetired'
    BY <1>17, StubFacts DEF Exhausted, arbiter, locals, TypeOK, LocalInv, NumberInv,
       OwnerInv, ActiveLabelMatches, FailedStubStaysRetired
  <2>3. LocalInv'
    BY <1>17, StubFacts DEF Exhausted, arbiter, locals, TypeOK, LocalInv,
       ActiveLabelMatches
  <2>4. NumberInv'
    BY <1>17, StubFacts DEF Exhausted, arbiter, locals, TypeOK, NumberInv
  <2>5. OwnerInv'
    BY <1>17, StubFacts DEF Exhausted, arbiter, locals, TypeOK, LocalInv, NumberInv,
       OwnerInv
  <2>6. CallbackGetsStubOfItsLabel'
    BY <1>17 DEF Exhausted, arbiter, locals, TypeOK, CallbackGetsStubOfItsLabel
  <2>7. QED BY <2>1, <2>2, <2>3, <2>4, <2>5, <2>6
<1>18. ASSUME NEW t \in Threads, Return(t) PROVE IInv'
  <2>1. TypeOK'
    <3>1. pc' \in [Threads -> Steps]
      BY <1>18 DEF Return, TypeOK, Steps
    <3>2. overall_status' \in [Threads -> Statuses]
      BY <1>18 DEF Return, TypeOK, Statuses
    <3>3. endpoint_metrics' \in [Threads -> [Labels -> Statuses \union {"none"}]]
      BY <1>18 DEF Return, TypeOK, NoMetrics
    <3>4. ran' \in [Threads -> Seq([label : Labels, stub : Stubs])]
      BY <1>18, EmptySeq DEF Return, TypeOK
    <3>5. sticky' \in [Threads -> BOOLEAN]
      BY <1>18 DEF Return, TypeOK
    <3>6. initial_stub' \in [Threads -> Labels]
      BY <1>18 DEF Return, TypeOK, Labels
    <3>7. QED BY <3>1, <3>2, <3>3, <3>4, <3>5, <3>6, <1>18 DEF Return, arbiter, locals, TypeOK
  <2>2. ActiveLabelMatches' /\ FailedStubStaysRetired'
    BY <1>18, StubFacts DEF Return, arbiter, locals, TypeOK, LocalInv, NumberInv,
       OwnerInv, ActiveLabelMatches, FailedStubStaysRetired
  <2>3. LocalInv'
    BY <1>18, StubFacts DEF Return, arbiter, locals, TypeOK, LocalInv,
       ActiveLabelMatches
  <2>4. NumberInv'
    BY <1>18, StubFacts DEF Return, arbiter, locals, TypeOK, NumberInv
  <2>5. OwnerInv'
    BY <1>18, StubFacts DEF Return, arbiter, locals, TypeOK, LocalInv, NumberInv,
       OwnerInv
  <2>6. CallbackGetsStubOfItsLabel'
    BY <1>18 DEF Return, arbiter, locals, TypeOK, CallbackGetsStubOfItsLabel
  <2>7. QED BY <2>1, <2>2, <2>3, <2>4, <2>5, <2>6
<1>19. QED BY <1>1, <1>2, <1>3, <1>4, <1>5, <1>6, <1>7, <1>8, <1>9, <1>10, <1>11, <1>12, <1>13, <1>14, <1>15, <1>16, <1>17, <1>18 DEF Next

-----------------------------------------------------------------------------
(* What a call has done so far.                                            *)

\* The call has run the callback on endpoint l.
HasRun(t, l) == \E i \in DOMAIN ran[t] : ran[t][i].label = l

LastRun(t) == ran[t][Len(ran[t])]

\* The parts of FailoverIsSound, for one call.
OnceEach(t) ==
  \A i, j \in DOMAIN ran[t] : ran[t][i].label = ran[t][j].label => i = j

StatusEarned(t) ==
  pc[t] = "return" /\ policy = "failover" =>
    /\ overall_status[t] = "ok" =>
         ran[t] # <<>> /\ endpoint_metrics[t][LastRun(t).label] = "ok"
    /\ overall_status[t] = "failover" =>
         \A l \in Labels : l >= initial_stub[t] => endpoint_metrics[t][l] = "failover"
    /\ overall_status[t] = "other" => \E l \in Labels : endpoint_metrics[t][l] = "other"

PrimaryPreferred(t) ==
  policy = "failover" /\ initial_stub[t] = Primary /\ HasRun(t, Secondary) =>
    \/ endpoint_metrics[t][Primary] = "failover"
    \/ ran[t][1].label = Secondary /\ sticky[t]

\* A call follows the arbiter's policy.
FollowsPolicy(t) ==
  /\ policy = "manual" => pc[t] \in {"idle", "manual", "run_manual", "return"}
  /\ policy = "failover" => pc[t] \notin {"manual", "run_manual"}

\* Before its first callback a call has no history; the secondary is reused
\* only while it is fresh.
NothingRun(t) ==
  pc[t] \in {"idle", "manual", "run_manual", "snapshot", "run_local"} =>
    /\ ran[t] = <<>> /\ attempted[t] = Unknown
    /\ pc[t] = "run_local" /\ local_stub_label[t] = Secondary => sticky[t]

\* The callback on the shared stub has failed over.
SharedFailed(t) ==
  pc[t] = "clear" =>
    /\ attempted[t] = local_stub_label[t]
    /\ ran[t] # <<>> /\ LastRun(t).stub = local_stub[t]
    /\ \A l \in Labels : HasRun(t, l) => l = attempted[t]

\* An endpoint that a failover call has left behind gave it a failover code.
Behind(t, l) == l = attempted[t] \/ (initial_stub[t] <= l /\ l < label[t])

LeftBehind(t) ==
  /\ pc[t] \in {"clear", "loop", "run"} /\ attempted[t] # Unknown =>
       /\ overall_status[t] = "failover"
       /\ endpoint_metrics[t][attempted[t]] = "failover"
       /\ attempted[t] = Secondary =>
            ran[t] # <<>> /\ ran[t][1].label = Secondary /\ sticky[t]
  /\ pc[t] \in {"loop", "run"} =>
       /\ initial_stub[t] <= label[t]
       /\ initial_stub[t] < label[t] => overall_status[t] = "failover"
       /\ \A l \in Labels : Behind(t, l) => endpoint_metrics[t][l] = "failover"
       /\ \A l \in Labels : HasRun(t, l) => Behind(t, l)
  /\ pc[t] = "run" => label[t] \in Labels /\ label[t] # attempted[t]

\* A stub is published after a callback that was the last one.
Settled(t) ==
  pc[t] = "publish" =>
    /\ ran[t] # <<>> /\ LastRun(t).label = label[t]
    /\ overall_status[t] # "failover"
    /\ endpoint_metrics[t][label[t]] = overall_status[t]

Call(t) ==
  /\ FollowsPolicy(t)
  /\ NothingRun(t)
  /\ SharedFailed(t)
  /\ LeftBehind(t)
  /\ Settled(t)
  /\ OnceEach(t)
  /\ StatusEarned(t)
  /\ PrimaryPreferred(t)

\* FailoverIsSound is about what a call returns: inductive only with what the
\* call knows at each of its earlier steps.
CallInv == adopted = freshness_time /\ \A t \in Threads : Call(t)

LEMMA LabelOrder ==
  /\ Labels = {0, 1} /\ Primary = 0 /\ Secondary = 1 /\ Unknown = 2
  /\ \A l \in Labels : l \in Nat
BY DEF Labels, Primary, Secondary, Unknown

\* A call is not disturbed by a step that leaves its locals alone.
LEMMA SameCall ==
  ASSUME NEW u \in Threads, Call(u), policy' = policy, pc'[u] = pc[u],
         initial_stub'[u] = initial_stub[u], local_stub'[u] = local_stub[u],
         local_stub_label'[u] = local_stub_label[u],
         attempted'[u] = attempted[u], label'[u] = label[u],
         overall_status'[u] = overall_status[u],
         endpoint_metrics'[u] = endpoint_metrics[u],
         sticky'[u] = sticky[u], ran'[u] = ran[u]
  PROVE  Call(u)'
<1>1. FollowsPolicy(u)' /\ NothingRun(u)' /\ SharedFailed(u)'
  BY DEF Call, FollowsPolicy, NothingRun, SharedFailed, HasRun, LastRun
<1>2. LeftBehind(u)'
  BY DEF Call, LeftBehind, Behind, HasRun
<1>3. Settled(u)' /\ OnceEach(u)'
  BY DEF Call, Settled, OnceEach, LastRun
<1>4. StatusEarned(u)'
  BY DEF Call, StatusEarned, LastRun
<1>5. PrimaryPreferred(u)'
  BY DEF Call, PrimaryPreferred, HasRun
<1>6. QED BY <1>1, <1>2, <1>3, <1>4, <1>5 DEF Call

\* The steps of one call.
CallStep(t) ==
  \/ \E l \in Labels : Execute(t, l)
  \/ ManualReuse(t) \/ ManualReplace(t) \/ ManualFails(t) \/ RunManual(t)
  \/ Snapshot(t) \/ SnapshotNone(t) \/ RunLocal(t) \/ Clear(t)
  \/ SkipAttempted(t) \/ CreateStub(t) \/ CreateFails(t) \/ Run(t)
  \/ Publish(t) \/ Exhausted(t) \/ Return(t)

\* A step of one call leaves the locals of the others alone.
LEMMA OtherCalls ==
  ASSUME TypeOK, NEW t \in Threads, CallStep(t),
         NEW u \in Threads, u # t, Call(u)
  PROVE  Call(u)'
<1> DEFINE Same ==
      /\ policy' = policy /\ pc'[u] = pc[u] /\ initial_stub'[u] = initial_stub[u]
      /\ local_stub'[u] = local_stub[u]
      /\ local_stub_label'[u] = local_stub_label[u]
      /\ attempted'[u] = attempted[u] /\ label'[u] = label[u]
      /\ overall_status'[u] = overall_status[u]
      /\ endpoint_metrics'[u] = endpoint_metrics[u]
      /\ sticky'[u] = sticky[u] /\ ran'[u] = ran[u]
<1> SUFFICES Same
  BY SameCall
<1>1. ASSUME NEW l \in Labels, Execute(t, l) PROVE Same
  BY <1>1 DEF Execute, TypeOK
<1>2. CASE ManualReuse(t) \/ ManualReplace(t) \/ ManualFails(t)
  BY <1>2 DEF ManualReuse, ManualReplace, ManualFails, TypeOK
<1>3. CASE RunManual(t)
  BY <1>3 DEF RunManual, Invoke, TypeOK
<1>4. CASE Snapshot(t) \/ SnapshotNone(t)
  BY <1>4 DEF Snapshot, SnapshotNone, TypeOK
<1>5. CASE RunLocal(t)
  BY <1>5 DEF RunLocal, Invoke, TypeOK
<1>6. CASE Clear(t) \/ SkipAttempted(t) \/ CreateStub(t)
  BY <1>6 DEF Clear, SkipAttempted, CreateStub, TypeOK
<1>7. CASE CreateFails(t)
  BY <1>7 DEF CreateFails, TypeOK
<1>8. CASE Run(t)
  BY <1>8 DEF Run, Invoke, TypeOK
<1>9. CASE Publish(t) \/ Exhausted(t)
  BY <1>9 DEF Publish, Exhausted, locals, TypeOK
<1>10. CASE Return(t)
  BY <1>10 DEF Return, TypeOK
<1>11. QED
  BY <1>1, <1>2, <1>3, <1>4, <1>5, <1>6, <1>7, <1>8, <1>9, <1>10 DEF CallStep

\* One callback, on an endpoint the call has not run yet.
LEMMA InvokeHistory ==
  ASSUME TypeOK, NEW t \in Threads, NEW s \in Stubs, NEW status \in Statuses,
         Invoke(t, s, s.label, status), OnceEach(t), ~HasRun(t, s.label)
  PROVE  /\ OnceEach(t)'
         /\ ran'[t] # <<>>
         /\ LastRun(t)' = [label |-> s.label, stub |-> s]
         /\ \A k \in Labels : HasRun(t, k)' => HasRun(t, k) \/ k = s.label
         /\ ran[t] = <<>> => ran'[t][1].label = s.label
         /\ ran[t] # <<>> => ran'[t][1] = ran[t][1]
         /\ \A k \in Labels : endpoint_metrics'[t][k] =
                                IF k = s.label THEN status ELSE endpoint_metrics[t][k]
         /\ overall_status'[t] = status
<1> DEFINE e == [label |-> s.label, stub |-> s]
           Entries == [label : Labels, stub : Stubs]
           n == Len(ran[t])
<1>1. e \in Entries /\ e.label = s.label /\ s.label \in Labels
  BY StubFacts
<1>2. ran[t] \in Seq(Entries) /\ n \in Nat /\ DOMAIN ran[t] = 1 .. n
  BY LenProperties DEF TypeOK
<1>3. ran'[t] = Append(ran[t], e)
  BY DEF Invoke, TypeOK
<1> HIDE DEF e, Entries
<1>4. /\ Len(ran'[t]) = n + 1 /\ DOMAIN ran'[t] = 1 .. n + 1
      /\ ran'[t][n + 1] = e
      /\ \A j \in 1 .. n : ran'[t][j] = ran[t][j]
      /\ ran'[t] \in Seq(Entries)
  BY <1>1, <1>2, <1>3, AppendProperties, LenProperties
<1>5. \A j \in 1 .. n : ran[t][j].label # s.label
  BY <1>2 DEF HasRun
<1> HIDE DEF n
<1>6. OnceEach(t)'
  <2> SUFFICES ASSUME NEW i \in 1 .. n + 1, NEW j \in 1 .. n + 1,
                      ran'[t][i].label = ran'[t][j].label
               PROVE  i = j
    BY <1>4 DEF OnceEach
  <2>1. CASE i \in 1 .. n /\ j \in 1 .. n
    BY <2>1, <1>2, <1>4 DEF OnceEach
  <2>2. CASE i = n + 1 \/ j = n + 1
    BY <2>2, <1>1, <1>2, <1>4, <1>5
  <2>3. QED BY <2>1, <2>2, <1>2
<1>7. ran'[t] # <<>> /\ LastRun(t)' = e
  BY <1>2, <1>4, EmptySeq DEF LastRun
<1>8. ASSUME NEW k \in Labels, HasRun(t, k)' PROVE HasRun(t, k) \/ k = s.label
  <2>1. PICK i \in 1 .. n + 1 : ran'[t][i].label = k
    BY <1>8, <1>4 DEF HasRun
  <2>2. QED BY <2>1, <1>1, <1>2, <1>4 DEF HasRun
<1>9. ran[t] = <<>> => ran'[t][1].label = s.label
  BY <1>1, <1>2, <1>4, EmptySeq DEF n
<1>10. ran[t] # <<>> => ran'[t][1] = ran[t][1]
  <2>1. ran[t] # <<>> => n # 0
    BY <1>2, EmptySeq DEF n
  <2>2. QED BY <2>1, <1>2, <1>4
<1>11. /\ \A k \in Labels : endpoint_metrics'[t][k] =
                              IF k = s.label THEN status ELSE endpoint_metrics[t][k]
       /\ overall_status'[t] = status
  BY <1>1 DEF Invoke, TypeOK
<1>12. QED BY <1>6, <1>7, <1>8, <1>9, <1>10, <1>11 DEF e

LEMMA InitCallInv == Init => CallInv
<1> SUFFICES ASSUME Init, NEW t \in Threads PROVE Call(t)
  BY DEF CallInv, Init
<1>1. /\ pc[t] = "idle" /\ ran[t] = <<>> /\ attempted[t] = Unknown
  BY DEF Init
<1>2. DOMAIN ran[t] = {}
  BY <1>1
<1>3. QED
  BY <1>1, <1>2 DEF Call, FollowsPolicy, NothingRun, SharedFailed, LeftBehind, Settled,
     OnceEach, StatusEarned, PrimaryPreferred, HasRun, Init

\* What a call must know at its next step, one action at a time.
LEMMA NextCallInv ==
  ASSUME IInv, CallInv, [Next]_vars
  PROVE  CallInv'
<1> SUFFICES ASSUME Next PROVE CallInv'
  <2>1. CASE UNCHANGED vars
    <3>1. ASSUME NEW u \in Threads PROVE Call(u)'
      BY <2>1, SameCall DEF CallInv, vars, arbiter, locals
    <3>2. QED BY <2>1, <3>1 DEF CallInv, vars, arbiter
  <2>2. QED BY <2>1
<1> USE LabelOrder DEF IInv
<1>1. CASE Tick \/ Finished
  <2>1. ASSUME NEW u \in Threads PROVE Call(u)'
    BY <1>1, SameCall DEF CallInv, Tick, Finished, vars, arbiter, locals
  <2>2. QED BY <1>1, <2>1 DEF CallInv, Tick, Finished, vars, arbiter
<1> SUFFICES ASSUME NEW t \in Threads, CallStep(t) PROVE CallInv'
  BY <1>1 DEF Next, CallStep
<1>2. adopted' = freshness_time'
  BY DEF CallInv, CallStep, Execute, ManualReuse, ManualReplace, ManualFails,
     RunManual, Snapshot, SnapshotNone, RunLocal, Clear, SkipAttempted, CreateStub,
     CreateFails, Run, Publish, Exhausted, Return, Store, arbiter
<1> SUFFICES Call(t)'
  BY <1>2, OtherCalls DEF CallInv
<1>3. /\ FollowsPolicy(t) /\ NothingRun(t) /\ SharedFailed(t) /\ LeftBehind(t)
      /\ Settled(t) /\ OnceEach(t) /\ StatusEarned(t) /\ PrimaryPreferred(t)
      /\ adopted = freshness_time
  BY DEF CallInv, Call
<1>4. /\ initial_stub[t] \in Labels /\ label[t] \in {0, 1, 2}
      /\ attempted[t] \in {0, 1, 2} /\ overall_status[t] \in Statuses
  BY DEF TypeOK
<1>5. ASSUME NEW l \in Labels, Execute(t, l) PROVE Call(t)'
  <2>1. /\ ran'[t] = <<>> /\ attempted'[t] = Unknown
        /\ pc'[t] = IF policy = "manual" THEN "manual" ELSE "snapshot"
        /\ policy' = policy
    BY <1>3, <1>5 DEF Execute, TypeOK, NothingRun
  <2>2. DOMAIN ran'[t] = {}
    BY <2>1
  <2>3. QED
    BY <2>1, <2>2 DEF TypeOK, Call, FollowsPolicy, NothingRun, SharedFailed, LeftBehind,
       Settled, OnceEach, StatusEarned, PrimaryPreferred, HasRun
<1>6. CASE ManualReuse(t) \/ ManualReplace(t)
  <2>1. /\ ran'[t] = <<>> /\ attempted'[t] = Unknown
        /\ pc'[t] = "run_manual" /\ policy' = policy /\ policy = "manual"
    BY <1>3, <1>6 DEF ManualReuse, ManualReplace, TypeOK, NothingRun, FollowsPolicy
  <2>2. DOMAIN ran'[t] = {}
    BY <2>1
  <2>3. QED
    BY <2>1, <2>2 DEF Call, FollowsPolicy, NothingRun, SharedFailed, LeftBehind,
       Settled, OnceEach, StatusEarned, PrimaryPreferred, HasRun
<1>7. CASE ManualFails(t)
  <2>1. /\ ran'[t] = <<>> /\ pc'[t] = "return" /\ policy' = policy
        /\ policy = "manual"
    BY <1>3, <1>7 DEF ManualFails, TypeOK, NothingRun, FollowsPolicy
  <2>2. DOMAIN ran'[t] = {}
    BY <2>1
  <2>3. QED
    BY <2>1, <2>2 DEF Call, FollowsPolicy, NothingRun, SharedFailed, LeftBehind,
       Settled, OnceEach, StatusEarned, PrimaryPreferred, HasRun
<1>8. CASE RunManual(t)
  <2>1. PICK status \in Statuses : Invoke(t, local_stub[t], initial_stub[t], status)
    BY <1>8 DEF RunManual
  <2>2. /\ local_stub[t] \in Stubs /\ initial_stub[t] = local_stub[t].label
        /\ ~HasRun(t, initial_stub[t])
    BY <1>3, <1>8 DEF RunManual, LocalInv, NothingRun, HasRun
  <2>3. OnceEach(t)'
    BY <1>3, <2>1, <2>2, InvokeHistory
  <2>4. pc'[t] = "return" /\ policy' = policy /\ policy = "manual"
    BY <1>3, <1>8 DEF RunManual, TypeOK, FollowsPolicy
  <2>5. QED
    BY <2>3, <2>4 DEF Call, FollowsPolicy, NothingRun, SharedFailed, LeftBehind,
       Settled, StatusEarned, PrimaryPreferred
<1>9. CASE Snapshot(t)
  <2>1. /\ ran'[t] = <<>> /\ attempted'[t] = Unknown
        /\ pc'[t] = "run_local" /\ policy' = policy /\ policy = "failover"
    BY <1>3, <1>9 DEF Snapshot, TypeOK, NothingRun, FollowsPolicy
  <2>2. local_stub_label'[t] = Secondary => sticky'[t]
    <3>1. local_stub_label'[t] = Secondary => now < adopted + Refresh
      BY <1>3, <1>9 DEF Snapshot, Usable, TypeOK
    <3>2. sticky'[t] = (now < adopted + Refresh)
      BY <1>9 DEF Snapshot, TypeOK
    <3>3. QED BY <3>1, <3>2
  <2>3. DOMAIN ran'[t] = {}
    BY <2>1
  <2>4. QED
    BY <2>1, <2>2, <2>3 DEF Call, FollowsPolicy, NothingRun, SharedFailed, LeftBehind,
       Settled, OnceEach, StatusEarned, PrimaryPreferred, HasRun
<1>10. CASE SnapshotNone(t)
  <2>1. /\ ran'[t] = <<>> /\ attempted'[t] = Unknown
        /\ label'[t] = initial_stub'[t] /\ initial_stub'[t] = initial_stub[t]
        /\ pc'[t] = "loop" /\ policy' = policy /\ policy = "failover"
    BY <1>3, <1>10 DEF SnapshotNone, TypeOK, NothingRun, FollowsPolicy
  <2>2. DOMAIN ran'[t] = {}
    BY <2>1
  <2>3. LeftBehind(t)'
    BY <2>1, <2>2, <1>4 DEF LeftBehind, Behind, HasRun
  <2>4. QED
    BY <2>1, <2>2, <2>3 DEF Call, FollowsPolicy, NothingRun, SharedFailed,
       Settled, OnceEach, StatusEarned, PrimaryPreferred, HasRun
<1>11. CASE RunLocal(t)
  <2>1. PICK status \in Statuses :
          /\ Invoke(t, local_stub[t], local_stub_label[t], status)
          /\ IF status = "failover"
             THEN /\ attempted' = [attempted EXCEPT ![t] = local_stub_label[t]]
                  /\ pc' = [pc EXCEPT ![t] = "clear"]
             ELSE /\ pc' = [pc EXCEPT ![t] = "return"]
                  /\ UNCHANGED attempted
    BY <1>11 DEF RunLocal
  <2>2. /\ local_stub[t] \in Stubs /\ local_stub_label[t] = local_stub[t].label
        /\ local_stub_label[t] \in Labels
    BY <1>11, StubFacts DEF RunLocal, LocalInv
  <2>3. /\ ran[t] = <<>> /\ \A l \in Labels : ~HasRun(t, l)
        /\ local_stub_label[t] = Secondary => sticky[t]
    BY <1>3, <1>11 DEF RunLocal, NothingRun, HasRun
  <2>4. /\ OnceEach(t)' /\ ran'[t] # <<>>
        /\ LastRun(t)' = [label |-> local_stub_label[t], stub |-> local_stub[t]]
        /\ \A k \in Labels : HasRun(t, k)' => k = local_stub_label[t]
        /\ ran'[t][1].label = local_stub_label[t]
        /\ endpoint_metrics'[t][local_stub_label[t]] = status
        /\ overall_status'[t] = status
    BY <1>3, <2>1, <2>2, <2>3, InvokeHistory
  <2>5. /\ policy' = policy /\ policy = "failover"
        /\ UNCHANGED <<initial_stub, local_stub, local_stub_label, sticky, label>>
    BY <1>3, <1>11 DEF RunLocal, FollowsPolicy, TypeOK
  <2>6. PrimaryPreferred(t)'
    BY <2>3, <2>4, <2>5 DEF PrimaryPreferred
  <2>7. CASE status = "failover"
    <3>1. pc'[t] = "clear" /\ attempted'[t] = local_stub_label[t]
      BY <2>1, <2>7 DEF TypeOK
    <3>2. SharedFailed(t)'
      BY <2>4, <2>5, <3>1 DEF SharedFailed
    <3>3. LeftBehind(t)'
      BY <2>3, <2>4, <2>5, <2>7, <3>1 DEF LeftBehind
    <3>4. QED
      BY <2>4, <2>5, <2>6, <3>1, <3>2, <3>3 DEF Call, FollowsPolicy, NothingRun,
         Settled, StatusEarned
  <2>8. CASE status # "failover"
    <3>1. pc'[t] = "return"
      BY <2>1, <2>8 DEF TypeOK
    <3>2. StatusEarned(t)'
      BY <2>2, <2>4, <2>8 DEF StatusEarned, Statuses
    <3>3. QED
      BY <2>4, <2>5, <2>6, <3>1, <3>2 DEF Call, FollowsPolicy, NothingRun,
         SharedFailed, LeftBehind, Settled
  <2>9. QED BY <2>7, <2>8
<1>12. CASE Clear(t)
  <2>1. /\ pc[t] = "clear" /\ pc'[t] = "loop" /\ label'[t] = initial_stub[t]
        /\ UNCHANGED <<policy, initial_stub, attempted, overall_status,
                       endpoint_metrics, sticky, ran>>
    BY <1>12 DEF Clear, TypeOK
  <2>2. attempted[t] \in Labels
    BY <1>3, <2>1, StubFacts DEF SharedFailed, LocalInv
  <2>3. LeftBehind(t)'
    <3>1. \A l \in Labels : HasRun(t, l)' => HasRun(t, l)
      BY <2>1 DEF HasRun
    <3>2. QED BY <1>3, <1>4, <2>1, <2>2, <3>1 DEF LeftBehind, Behind, SharedFailed
  <2>4. OnceEach(t)' /\ PrimaryPreferred(t)'
    BY <1>3, <2>1 DEF OnceEach, PrimaryPreferred, HasRun
  <2>5. QED
    BY <1>3, <2>1, <2>3, <2>4 DEF Call, FollowsPolicy, NothingRun, SharedFailed,
       Settled, StatusEarned
<1>13. CASE SkipAttempted(t)
  <2>1. /\ pc[t] = "loop" /\ pc'[t] = "loop" /\ label'[t] = label[t] + 1
        /\ label[t] \in Labels /\ label[t] = attempted[t]
        /\ UNCHANGED <<policy, initial_stub, attempted, overall_status,
                       endpoint_metrics, sticky, ran>>
    BY <1>13 DEF SkipAttempted, TypeOK
  <2>2. LeftBehind(t)'
    <3>1. \A l \in Labels : HasRun(t, l)' => HasRun(t, l)
      BY <2>1 DEF HasRun
    <3>2. QED BY <1>3, <1>4, <2>1, <3>1 DEF LeftBehind, Behind
  <2>3. OnceEach(t)' /\ PrimaryPreferred(t)'
    BY <1>3, <2>1 DEF OnceEach, PrimaryPreferred, HasRun
  <2>4. QED
    BY <1>3, <2>1, <2>2, <2>3 DEF Call, FollowsPolicy, NothingRun, SharedFailed,
       Settled, StatusEarned
<1>14. CASE CreateStub(t)
  <2>1. /\ pc[t] = "loop" /\ pc'[t] = "run"
        /\ label[t] \in Labels /\ label[t] # attempted[t]
        /\ UNCHANGED <<policy, initial_stub, attempted, label, overall_status,
                       endpoint_metrics, sticky, ran>>
    BY <1>14 DEF CreateStub, Untried, TypeOK
  <2>2. LeftBehind(t)'
    BY <1>3, <2>1 DEF LeftBehind, Behind, HasRun
  <2>3. OnceEach(t)' /\ PrimaryPreferred(t)'
    BY <1>3, <2>1 DEF OnceEach, PrimaryPreferred, HasRun
  <2>4. QED
    BY <1>3, <2>1, <2>2, <2>3 DEF Call, FollowsPolicy, NothingRun, SharedFailed,
       Settled, StatusEarned
<1>15. CASE CreateFails(t)
  <2>1. PICK status \in Failures :
          /\ endpoint_metrics' = [endpoint_metrics EXCEPT ![t][label[t]] = status]
          /\ overall_status' = [overall_status EXCEPT ![t] = status]
          /\ IF status = "failover"
             THEN /\ label' = [label EXCEPT ![t] = @ + 1]
                  /\ UNCHANGED pc
             ELSE /\ pc' = [pc EXCEPT ![t] = "return"]
                  /\ UNCHANGED label
    BY <1>15 DEF CreateFails
  <2>2. /\ pc[t] = "loop" /\ label[t] \in Labels /\ label[t] # attempted[t]
        /\ UNCHANGED <<policy, initial_stub, attempted, sticky, ran>>
    BY <1>15 DEF CreateFails, Untried
  <2>3. /\ overall_status'[t] = status
        /\ \A k \in Labels : endpoint_metrics'[t][k] =
             IF k = label[t] THEN status ELSE endpoint_metrics[t][k]
    BY <2>1, <2>2 DEF TypeOK
  <2>4. \A l \in Labels : HasRun(t, l)' <=> HasRun(t, l)
    BY <2>2 DEF HasRun
  <2>5. OnceEach(t)'
    BY <1>3, <2>2 DEF OnceEach
  <2>6. PrimaryPreferred(t)'
    <3> SUFFICES ASSUME initial_stub[t] = Primary, HasRun(t, Secondary)
                 PROVE  \/ endpoint_metrics'[t][Primary] = "failover"
                        \/ ran[t][1].label = Secondary /\ sticky[t]
      BY <2>2, <2>4 DEF PrimaryPreferred
    <3>1. Behind(t, Secondary)
      BY <1>3, <2>2 DEF LeftBehind
    <3>2. attempted[t] = Secondary
      BY <1>4, <2>2, <3>1 DEF Behind
    <3>3. QED BY <1>3, <2>2, <3>2 DEF LeftBehind
  <2>7. CASE status = "failover"
    <3>1. pc'[t] = "loop" /\ label'[t] = label[t] + 1
      BY <2>1, <2>2, <2>7 DEF TypeOK
    <3>2. LeftBehind(t)'
      <4>1. \A l \in Labels : Behind(t, l)' => Behind(t, l) \/ l = label[t]
        BY <1>4, <2>2, <3>1 DEF Behind
      <4>2. \A l \in Labels : Behind(t, l) => Behind(t, l)'
        BY <1>4, <2>2, <3>1 DEF Behind
      <4>3. \A l \in Labels : Behind(t, l)' => endpoint_metrics'[t][l] = "failover"
        BY <1>3, <2>2, <2>3, <2>7, <4>1 DEF LeftBehind
      <4>4. \A l \in Labels : HasRun(t, l)' => Behind(t, l)'
        BY <1>3, <2>2, <2>4, <4>2 DEF LeftBehind
      <4>5. initial_stub'[t] <= label'[t]
        BY <1>3, <1>4, <2>2, <3>1 DEF LeftBehind
      <4>6. attempted'[t] # Unknown => endpoint_metrics'[t][attempted'[t]] = "failover"
        BY <1>3, <1>4, <2>2, <2>3, <2>7 DEF LeftBehind
      <4>7. attempted'[t] = Secondary =>
              ran'[t] # <<>> /\ ran'[t][1].label = Secondary /\ sticky'[t]
        BY <1>3, <2>2 DEF LeftBehind
      <4>8. QED
        BY <2>3, <2>7, <3>1, <4>3, <4>4, <4>5, <4>6, <4>7 DEF LeftBehind
    <3>3. QED
      BY <1>3, <2>2, <2>5, <2>6, <3>1, <3>2 DEF Call, FollowsPolicy, NothingRun,
         SharedFailed, Settled, StatusEarned
  <2>8. CASE status # "failover"
    <3>1. pc'[t] = "return" /\ status = "other"
      BY <2>1, <2>2, <2>8 DEF TypeOK, Failures
    <3>2. StatusEarned(t)'
      BY <2>2, <2>3, <3>1 DEF StatusEarned
    <3>3. QED
      BY <1>3, <2>2, <2>5, <2>6, <3>1, <3>2 DEF Call, FollowsPolicy, NothingRun,
         SharedFailed, LeftBehind, Settled
  <2>9. QED BY <2>7, <2>8
<1>16. CASE Run(t)
  <2>1. PICK status \in Statuses :
          /\ Invoke(t, stub[t], label[t], status)
          /\ IF status = "failover"
             THEN /\ label' = [label EXCEPT ![t] = @ + 1]
                  /\ pc' = [pc EXCEPT ![t] = "loop"]
             ELSE /\ pc' = [pc EXCEPT ![t] = "publish"]
                  /\ UNCHANGED label
    BY <1>16 DEF Run
  <2>2. /\ pc[t] = "run"
        /\ UNCHANGED <<policy, initial_stub, attempted, sticky>>
    BY <1>16 DEF Run
  <2>3. /\ stub[t] \in Stubs /\ label[t] = stub[t].label
        /\ label[t] \in Labels /\ label[t] # attempted[t]
    BY <1>3, <2>2 DEF LocalInv, LeftBehind
  <2>4. ~HasRun(t, label[t])
    <3>1. ~Behind(t, label[t])
      BY <1>4, <2>3 DEF Behind
    <3>2. QED BY <1>3, <2>2, <2>3, <3>1 DEF LeftBehind
  <2>5. /\ OnceEach(t)' /\ ran'[t] # <<>> /\ LastRun(t)'.label = label[t]
        /\ \A k \in Labels : HasRun(t, k)' => HasRun(t, k) \/ k = label[t]
        /\ ran[t] # <<>> => ran'[t][1] = ran[t][1]
        /\ \A k \in Labels : endpoint_metrics'[t][k] =
                               IF k = label[t] THEN status ELSE endpoint_metrics[t][k]
        /\ overall_status'[t] = status
    <3>1. Invoke(t, stub[t], stub[t].label, status) /\ ~HasRun(t, stub[t].label)
      BY <2>1, <2>3, <2>4
    <3>2. LastRun(t)' = [label |-> label[t], stub |-> stub[t]]
      BY <1>3, <2>3, <3>1, InvokeHistory
    <3>3. QED BY <1>3, <2>3, <3>1, <3>2, InvokeHistory
  <2>6. PrimaryPreferred(t)'
    <3> SUFFICES ASSUME initial_stub[t] = Primary, HasRun(t, Secondary)'
                 PROVE  \/ endpoint_metrics'[t][Primary] = "failover"
                        \/ ran'[t][1].label = Secondary /\ sticky[t]
      BY <2>2 DEF PrimaryPreferred
    <3>1. CASE label[t] = Secondary
      <4>1. Behind(t, Primary)
        BY <3>1 DEF Behind
      <4>2. endpoint_metrics[t][Primary] = "failover"
        BY <1>3, <2>2, <4>1 DEF LeftBehind
      <4>3. QED BY <2>5, <3>1, <4>2
    <3>2. CASE label[t] # Secondary
      <4>1. Behind(t, Secondary)
        BY <1>3, <2>2, <2>5, <3>2 DEF LeftBehind
      <4>2. attempted[t] = Secondary
        BY <2>3, <3>2, <4>1 DEF Behind
      <4>3. QED BY <1>3, <2>2, <2>5, <4>2 DEF LeftBehind
    <3>3. QED BY <3>1, <3>2
  <2>7. CASE status = "failover"
    <3>1. pc'[t] = "loop" /\ label'[t] = label[t] + 1
      BY <2>1, <2>7 DEF TypeOK
    <3>2. LeftBehind(t)'
      <4>1. \A l \in Labels : Behind(t, l)' => Behind(t, l) \/ l = label[t]
        BY <1>4, <2>2, <2>3, <3>1 DEF Behind
      <4>2. \A l \in Labels : Behind(t, l) \/ l = label[t] => Behind(t, l)'
        BY <1>3, <1>4, <2>2, <2>3, <3>1 DEF Behind, LeftBehind
      <4>3. \A l \in Labels : Behind(t, l)' => endpoint_metrics'[t][l] = "failover"
        BY <1>3, <2>2, <2>5, <2>7, <4>1 DEF LeftBehind
      <4>4. \A l \in Labels : HasRun(t, l)' => Behind(t, l)'
        BY <1>3, <2>2, <2>5, <4>2 DEF LeftBehind
      <4>5. initial_stub'[t] <= label'[t]
        BY <1>3, <1>4, <2>2, <3>1 DEF LeftBehind
      <4>6. attempted'[t] # Unknown => endpoint_metrics'[t][attempted'[t]] = "failover"
        BY <1>3, <1>4, <2>2, <2>5, <2>7 DEF LeftBehind
      <4>7. attempted'[t] = Secondary =>
              ran'[t] # <<>> /\ ran'[t][1].label = Secondary /\ sticky'[t]
        BY <1>3, <2>2, <2>5 DEF LeftBehind
      <4>8. QED
        BY <2>5, <2>7, <3>1, <4>3, <4>4, <4>5, <4>6, <4>7 DEF LeftBehind
    <3>3. QED
      BY <1>3, <2>2, <2>5, <2>6, <3>1, <3>2 DEF Call, FollowsPolicy, NothingRun,
         SharedFailed, Settled, StatusEarned
  <2>8. CASE status # "failover"
    <3>1. pc'[t] = "publish" /\ label' = label
      BY <2>1, <2>8 DEF TypeOK
    <3>2. Settled(t)'
      BY <2>3, <2>5, <2>8, <3>1 DEF Settled
    <3>3. QED
      BY <1>3, <2>2, <2>5, <2>6, <3>1, <3>2 DEF Call, FollowsPolicy, NothingRun,
         SharedFailed, LeftBehind, StatusEarned
  <2>9. QED BY <2>7, <2>8
<1>17. CASE Publish(t)
  <2>1. /\ pc[t] = "publish" /\ pc'[t] = "return"
        /\ UNCHANGED <<policy, initial_stub, label, overall_status,
                       endpoint_metrics, sticky, ran>>
    BY <1>17 DEF Publish, TypeOK
  <2>2. label[t] \in Labels
    BY <2>1, StubFacts DEF LocalInv
  <2>3. StatusEarned(t)'
    BY <1>3, <1>4, <2>1, <2>2 DEF StatusEarned, Settled, LastRun
  <2>4. OnceEach(t)' /\ PrimaryPreferred(t)'
    BY <1>3, <2>1 DEF OnceEach, PrimaryPreferred, HasRun
  <2>5. QED
    BY <1>3, <2>1, <2>3, <2>4 DEF Call, FollowsPolicy, NothingRun, SharedFailed,
       LeftBehind, Settled
<1>18. CASE Exhausted(t)
  <2>1. /\ pc[t] = "loop" /\ pc'[t] = "return" /\ label[t] = Unknown
        /\ UNCHANGED <<policy, initial_stub, overall_status, endpoint_metrics,
                       sticky, ran>>
    BY <1>18 DEF Exhausted, locals, TypeOK
  <2>2. StatusEarned(t)'
    <3>1. overall_status[t] = "failover"
      BY <1>3, <1>4, <2>1 DEF LeftBehind
    <3>2. \A l \in Labels : l >= initial_stub[t] => Behind(t, l)
      BY <1>4, <2>1 DEF Behind
    <3>3. QED BY <1>3, <2>1, <3>1, <3>2 DEF StatusEarned, LeftBehind
  <2>3. OnceEach(t)' /\ PrimaryPreferred(t)'
    BY <1>3, <2>1 DEF OnceEach, PrimaryPreferred, HasRun
  <2>4. QED
    BY <1>3, <2>1, <2>2, <2>3 DEF Call, FollowsPolicy, NothingRun, SharedFailed,
       LeftBehind, Settled
<1>19. CASE Return(t)
  <2>1. /\ ran'[t] = <<>> /\ attempted'[t] = Unknown
        /\ pc'[t] = "idle" /\ policy' = policy
    BY <1>19 DEF Return, TypeOK
  <2>2. DOMAIN ran'[t] = {}
    BY <2>1
  <2>3. QED
    BY <2>1, <2>2 DEF Call, FollowsPolicy, NothingRun, SharedFailed, LeftBehind,
       Settled, OnceEach, StatusEarned, PrimaryPreferred, HasRun
<1>20. QED
  BY <1>5, <1>6, <1>7, <1>8, <1>9, <1>10, <1>11, <1>12, <1>13, <1>14, <1>15, <1>16,
     <1>17, <1>18, <1>19 DEF CallStep

LEMMA SoundFromCalls ==
  ASSUME IInv, CallInv
  PROVE  FailoverIsSound
<1>1. EachEndpointOnce /\ PrimaryFirst
  BY DEF CallInv, Call, OnceEach, PrimaryPreferred, HasRun, EachEndpointOnce,
     PrimaryFirst
<1>2. StatusIsEarned
  BY DEF IInv, TypeOK, Statuses, CallInv, Call, StatusEarned, LastRun, StatusIsEarned
<1>3. QED BY <1>1, <1>2 DEF FailoverIsSound

\* The state of the arbiter and of every call in progress is well typed.
THEOREM TypeCorrect == Spec => []TypeOK
<1>1. IInv => TypeOK
  BY DEF IInv
<1>2. QED BY InitIInv, NextIInv, <1>1, PTL DEF Spec

\* active_stub_label_ is the label the active stub was made for, whatever the
\* overlap of calls.
THEOREM ActiveLabelCorrect == Spec => []ActiveLabelMatches
<1>1. IInv => ActiveLabelMatches
  BY DEF IInv
<1>2. QED BY InitIInv, NextIInv, <1>1, PTL DEF Spec

\* A stub given up after a failover code is never active again.
THEOREM RetiredForGood == Spec => []FailedStubStaysRetired
<1>1. IInv => FailedStubStaysRetired
  BY DEF IInv
<1>2. QED BY InitIInv, NextIInv, <1>1, PTL DEF Spec

\* The callback is only ever given a stub made for the label it is told.
THEOREM CallbackLabelCorrect == Spec => []CallbackGetsStubOfItsLabel
<1>1. IInv => CallbackGetsStubOfItsLabel
  BY DEF IInv
<1>2. QED BY InitIInv, NextIInv, <1>1, PTL DEF Spec

\* Execute fails over soundly, for any number of overlapping calls: at most one
\* callback per endpoint, a status that was earned, the primary preferred.
THEOREM FailoverSound == Spec => []FailoverIsSound
<1>1. Init => IInv /\ CallInv
  BY InitIInv, InitCallInv
<1>2. IInv /\ CallInv /\ [Next]_vars => (IInv /\ CallInv)'
  BY NextIInv, NextCallInv
<1>3. QED BY <1>1, <1>2, SoundFromCalls, PTL DEF Spec

\* Under failover the active stub is dropped without a successor only by a call
\* that has just seen that very stub fail.
THEOREM OnlyFailedCleared == Spec => OnlyFailedStubIsCleared
<1> DEFINE Drop == policy = "failover" /\ active_stub # NoStub /\ active_stub' = NoStub
           Saw == \E t \in Threads :
                    /\ pc[t] = "clear" /\ pc'[t] = "loop"
                    /\ ran[t][Len(ran[t])].stub = active_stub
<1>1. Init => IInv /\ CallInv
  BY InitIInv, InitCallInv
<1>2. IInv /\ CallInv /\ [Next]_vars => (IInv /\ CallInv)'
  BY NextIInv, NextCallInv
<1>3. IInv /\ CallInv /\ [Next]_vars => [Drop => Saw]_vars
  <2> SUFFICES ASSUME IInv, CallInv, Next, Drop PROVE Saw
    OBVIOUS
  <2>1. PICK t \in Threads : CallStep(t)
    BY DEF Next, CallStep, Tick, Finished, vars, arbiter
  <2>2. pc[t] \notin {"manual", "run_manual"}
    BY DEF CallInv, Call, FollowsPolicy
  <2>3. ~Publish(t)
    BY StubFacts DEF Publish, Store, IInv, LocalInv
  <2>4. Clear(t) /\ active_stub = local_stub[t]
    BY <2>1, <2>2, <2>3 DEF CallStep, Execute, ManualReuse, ManualReplace, ManualFails,
       RunManual, Snapshot, SnapshotNone, RunLocal, Clear, StillActive, SkipAttempted,
       CreateStub, CreateFails, Run, Exhausted, Return, arbiter
  <2>5. pc[t] = "clear" /\ pc'[t] = "loop"
    BY <2>4 DEF Clear, IInv, TypeOK
  <2>6. QED BY <2>4, <2>5 DEF CallInv, Call, SharedFailed, LastRun
<1>4. QED BY <1>1, <1>2, <1>3, PTL DEF Spec, OnlyFailedStubIsCleared

=============================================================================
