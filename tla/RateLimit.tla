------------------------------ MODULE RateLimit ------------------------------
(***************************************************************************)
(* What a rate limit promises: a bucket that is refilled continuously and  *)
(* gives a token to a call whenever it holds one.                          *)
(*                                                                         *)
(* Time passes in ticks, TicksPerSecond to the second.  The level is       *)
(* counted in parts of a token so that one tick adds Rate parts.           *)
(***************************************************************************)
EXTENDS Naturals

CONSTANTS
    Rate,           \* tokens per second
    Capacity,       \* tokens that a full bucket holds
    TicksPerSecond, \* the grain of the clock
    MaxTime         \* bound on the clock

VARIABLES
    now,   \* the clock, in ticks
    level, \* what the bucket holds
    since  \* history: how many calls were allowed since each tick

rateVars == <<now, level, since>>

One == TicksPerSecond      \* a token
Full == Capacity * One     \* a full bucket

\* The bucket never holds more than its capacity.
Capped(n) == IF n > Full THEN Full ELSE n

RInit ==
    /\ now = 0
    /\ level = Full
    /\ since = [s \in 0..MaxTime |-> 0]

RTick ==
    /\ now < MaxTime
    /\ now' = now + 1
    /\ level' = Capped(level + Rate)
    /\ UNCHANGED since

RAllow ==
    /\ level >= One
    /\ level' = level - One
    /\ since' = [s \in 0..MaxTime |-> IF s <= now THEN since[s] + 1 ELSE since[s]]
    /\ UNCHANGED now

RNext == RTick \/ RAllow

RSpec == RInit /\ [][RNext]_rateVars
==============================================================================
