------------------------------- MODULE MCRedis -------------------------------
(***************************************************************************)
(* What the API keeps in Redis, on one small instance: a token bucket and  *)
(* the totals of a dashboard.  They have different keys, and neither reads *)
(* what the other writes; each property looks at one of the two.  It is    *)
(* therefore enough to let one run while the other is still untouched.     *)
(*                                                                         *)
(* The bucket has a capacity that the rate does not divide, two ticks to   *)
(* the second and no slack: the key lives four ticks, the least the        *)
(* ceiling gives, and can expire twice within the bound on the clock.  Two *)
(* requests overlap at the dashboard; the life of an entry is shorter than *)
(* the timeout, as in the program, and a SET may take effect a tick late.  *)
(***************************************************************************)
EXTENDS TokenBucket, DashboardCache

RedisInit == Init /\ CacheInit

RedisNext ==
    \/ Next /\ CacheInit /\ UNCHANGED cacheVars
    \/ CacheNext /\ Init /\ UNCHANGED vars

RedisSpec == RedisInit /\ [][RedisNext]_<<vars, cacheVars>>
==============================================================================
