---------------------------- MODULE QueryRouterMC ----------------------------
EXTENDS QueryRouter, TLC

CONSTANTS e1, e2, q1, q2, q3, c1, c2, k1, k2

MCWorkers == Calls \X (1 .. MaxThreads)

\* The first engine is asked for two queries but has no plan for the second.
MCRoutingTable == <<e1, e2>>
MCRouted == [e \in Engines |-> IF e = e1 THEN {q1, q2} ELSE {q2, q3}]
MCPlansOf == [e \in Engines |-> IF e = e1 THEN {q1} ELSE {q2, q3}]
MCIncompatible == {<<e2, q2>>}

\* Two calls for the same planner, one call over both engines, one with an
\* unknown query before a known one; one with two cancellations.
Choice(calls, cancels, patterns) == [calls |-> calls, cancels |-> cancels, patterns |-> patterns]
MCInputs ==
  {Choice(c1 :> <<q1>> @@ c2 :> <<q1>>, {k1}, {"serial_all"}),
   Choice(c1 :> <<q2, q3>>, {k1}, {"serial_agent", "parallel_all"}),
   Choice(c1 :> <<q2, q1>>, {k1}, {"serial_agent"}),
   Choice(c1 :> <<q1>>, {k1, k2}, {"parallel_all"})}

\* One call on one engine, and one cancellation.
OneCall == {Choice(c1 :> <<q1>>, {k1}, {"serial_all", "serial_agent", "parallel_all"})}
==============================================================================
