-------------------------------- MODULE MCSeed --------------------------------
(* Two seed commands on one account, with equal, different and weak          *)
(* passwords and different spellings of the address, or one of them beside a *)
(* browser on the same account or on another one.                            *)
EXTENDS Seed, TLC

Lower == [s \in Spelling |-> IF s = "Demo" THEN "demo" ELSE s]

Who(e, ps, n) == [email |-> e, passwords |-> ps, bound |-> n]

Case(a, b, w) == "a" :> a @@ "b" :> b @@ "w" :> w

Nobody == Who("demo", {}, 0)

Starts ==
    {Case(Who("Demo", {"long"}, 2), Who("demo", {p}, 1), Nobody) : p \in {"long", "longer"}}
    \cup {Case(Who("Demo", Password, 3), Nobody, Nobody)}
    \cup {Case(Who("Demo", {"long"}, 1), Nobody, Who(e, {"long"}, 3)) : e \in {"demo", "other"}}
==============================================================================
