----------------------------- MODULE MCExchange -----------------------------
(* Two deliveries, the second with a small budget, to a receiver that       *)
(* forgets when it knows both.  The window is 6 half seconds and a request  *)
(* has 2: clocks up to 3 apart one way and 6 the other must do.             *)
EXTENDS Exchange, TLC

Plain == [base |-> 1, failures |-> 2, sleep |-> 0, status |-> 200, skew |-> 0]

\* Base delays on both sides of the cap, and those whose doubling meets it.
Bases == {1, 3, 113, 225, 226, 1800, 1801, 3600}

Setups ==
    {[Plain EXCEPT !.base = b, !.failures = 10] : b \in Bases}
    \cup {[Plain EXCEPT !.failures = f] : f \in {-1, 2, 4, 9}}
    \cup {[Plain EXCEPT !.skew = k] : k \in {-7, -6, 3, 4}}
    \cup {[Plain EXCEPT !.status = c] : c \in {0, 302, 400, 429}}
    \cup {[Plain EXCEPT !.sleep = n] : n \in {1, 9}}

Symmetry == Permutations(Secret)

Budgets == [d \in Delivery |-> IF d = 1 THEN 10 ELSE 2]
==============================================================================
