------------------------- MODULE MCDeliveryProgress -------------------------
(* DeliveryProgress with one delivery: no symmetry, liveness is checked.    *)
EXTENDS DeliveryProgress

Codes == {0, 200, 400}
Tokens == 1..(MaxFaults + MaxAttempts * (MaxGeneration + 1))
=============================================================================
