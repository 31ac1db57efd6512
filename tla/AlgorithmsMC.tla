---------------------------- MODULE AlgorithmsMC ----------------------------
(***************************************************************************)
(* All the algorithms, for TLC.  The topics are taken one after the other, *)
(* so that the inputs of one are done before those of the next are picked. *)
(***************************************************************************)
EXTENDS NavigationChecks, TopologyChecks, ResultChecks, PredicateChecks, PlannerChecks

None(topic) == [kind |-> "none", topic |-> topic]
Init == input = None(1) /\ world = Pending /\ answer = Pending

Advance == input.topic < 13 /\ input' = None(input.topic + 1) /\ UNCHANGED world
Pick ==
  /\ input.kind = "none"
  /\ UNCHANGED answer
  /\ \/ Advance
     \/ input.topic = 1 /\ PickNavigation
     \/ input.topic = 2 /\ PickSysmodel
     \/ input.topic = 3 /\ PickOverride
     \/ input.topic = 4 /\ PickTopology
     \/ input.topic = 5 /\ PickHealth
     \/ input.topic = 6 /\ PickResult
     \/ input.topic = 7 /\ PickVerification
     \/ input.topic = 8 /\ PickPredicate
     \/ input.topic = 9 /\ PickNormalizer
     \/ input.topic = 10 /\ PickPlanner
     \/ input.topic = 11 /\ (PickTransfer \/ PickRpc)
     \/ input.topic = 12 /\ PickRouter
     \/ input.topic = 13 /\ PickQuery

Compute ==
  /\ answer = Pending
  /\ UNCHANGED <<input, world>>
  /\ \/ Navigate
     \/ QuerySysmodel
     \/ Override
     \/ BuildTopology
     \/ RollUp
     \/ UseResult
     \/ VerifyResult
     \/ UsePredicate
     \/ NormalizeObject
     \/ PlanQuery
     \/ Transfer
     \/ ConfigureRouter
     \/ CheckQuery

Next == Pick \/ Compute

Spec == Init /\ [][Next]_vars
=============================================================================
