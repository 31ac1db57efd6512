-------------------------- MODULE TimeBasedCacheMC --------------------------
(* The instance of TimeBasedCache that TLC checks.                         *)
EXTENDS TimeBasedCache, TLC

CONSTANTS chassis, log

\* The chassis resource embeds a log entry's object; nothing is in the entry.
MCNested == [p \in Paths |-> IF p = chassis THEN {log} ELSE {}]

ThreadSymmetry == Permutations(Threads)

=============================================================================
