----------------------------- MODULE QueryAnswer -----------------------------
(***************************************************************************)
(* What one execution of a query plan promises, whatever the order in      *)
(* which it walks the Redfish tree: it only ever adds answers that the     *)
(* query has in the tree, and when it returns without an error it has      *)
(* added every one it owes.                                                *)
(***************************************************************************)
VARIABLES
  possible,   \* the answers the query has in the tree
  owed,       \* those of them that no permitted omission concerns
  answer,     \* the answers given so far
  error,      \* whether the result carries an error
  returned

vars == <<possible, owed, answer, error, returned>>

Init ==
  /\ answer = {}
  /\ error = FALSE
  /\ returned = FALSE
  /\ owed \subseteq possible

\* Part of the tree is visited: answers are added, or an error is met, or both.
Visit ==
  /\ ~returned
  /\ answer \subseteq answer' /\ answer' \subseteq possible
  /\ error => error'
  /\ UNCHANGED <<possible, owed, returned>>

Return ==
  /\ ~returned
  /\ returned' = TRUE
  /\ answer \subseteq answer' /\ answer' \subseteq possible
  /\ error => error'
  /\ ~error' => owed \subseteq answer'
  /\ UNCHANGED <<possible, owed>>

Next == Visit \/ Return

Spec == Init /\ [][Next]_vars
=============================================================================
