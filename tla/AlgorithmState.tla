--------------------------- MODULE AlgorithmState ---------------------------
(***************************************************************************)
(* The sequential algorithms of the library are each applied to a bounded  *)
(* set of inputs and compared with a reference definition.  A behaviour    *)
(* picks an input, builds the world it is about (a service, its documents, *)
(* a device), computes the answer and stops.                               *)
(***************************************************************************)
EXTENDS Integers, Sequences, FiniteSets, TLC

J == INSTANCE Json
Nav == INSTANCE RedfishNavigation

VARIABLES input, world, answer

vars == <<input, world, answer>>
Pending == <<>>
Done == answer # Pending

-----------------------------------------------------------------------------
(* What the documents of the inputs are made of. *)

One(name, j) == [n \in {name} |-> j]
Id(path) == One("@odata.id", J!Uri(path))
Ref(path) == J!Reference(J!Uri(path))

RootPath == <<"v1">>
ChassisPath == <<"v1", "Chassis">>
C1 == <<"v1", "Chassis", "1">>
C2 == <<"v1", "Chassis", "2">>
Text(name, value) == One(name, J!Str(value))
List(refs) == J!Arr(refs)
At(path) == [path |-> path, pointer |-> <<>>]
Prefix(s, t) == Len(s) <= Len(t) /\ SubSeq(t, 1, Len(s)) = s
=============================================================================
