-------------------------- MODULE MCDashboardCache --------------------------
(* Two overlapping requests; the life of an entry is shorter than the        *)
(* timeout, as in the program.                                               *)
EXTENDS DashboardCache
=============================================================================
