----------------------------- MODULE MCIngestion -----------------------------
(* Ingestion on small sets.  Requests and contents are interchangeable, and *)
(* are named in the order in which they come: this does what a symmetry set *)
(* would do, and is sound for liveness too.  An invalid body has no         *)
(* content.                                                                 *)
EXTENDS Ingestion

Requests == 1..3
Contents == 1..2

Named ==
    /\ \A q, r \in Request : q < r /\ pc[r] # "idle" => pc[q] # "idle"
    /\ \A r \in Request : pc[r] # "idle" =>
         (r = 1 \/ ~input[r].valid => input[r].content = 1)

\* The third request adds waiting for rows and connections; the endpoints
\* change while the first two are on their way.
Settled == pc[3] # "idle" => live' = live

MCSpec == Init /\ [][Next /\ Named' /\ Settled]_vars /\ Fairness
==============================================================================
