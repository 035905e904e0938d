----------------------------- MODULE MCEndpoints -----------------------------
(* Endpoints with the column active and one that the body of a POST has to  *)
(* name; 2 is a value that validateEndpoint refuses.                        *)
EXTENDS Endpoints, TLC

Fields == {"active", "url"}
Defaults == [f \in Fields |-> IF f = "active" THEN 1 ELSE 2]
Symmetry == Permutations(Request)
==============================================================================
