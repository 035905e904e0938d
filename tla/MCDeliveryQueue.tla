--------------------------- MODULE MCDeliveryQueue ---------------------------
(***************************************************************************)
(* DeliveryQueue on a small instance.  Deliveries share nothing but their  *)
(* endpoint and the supply of tokens, so there is one delivery and several *)
(* claims on it.                                                           *)
(***************************************************************************)
EXTENDS DeliveryQueue, TLC

\* No answer, accepted, rejected for good, worth a retry.
Codes == {0, 200, 400, 503}

Symmetry == Permutations(Token)
==============================================================================
