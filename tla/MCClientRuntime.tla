-------------------------- MODULE MCClientRuntime --------------------------
(* Small instances of ClientRuntime.  The symmetry sets permute only        *)
(* callback workers, which the specification never tells apart.             *)
EXTENDS ClientRuntime, TLC

CONSTANTS r1, r2, r3, r4, none, c1, c2

Requests  == {r1, r2, r3}
Requests4 == {r1, r2, r3, r4}
Asyncs    == {r1, r2}
Asyncs3   == {r1, r2, r3}
OneCb     == {c1}
TwoCbs    == {c1, c2}

(* No callback executes anything                                            *)
Flat == [r \in Request |-> None]
(* The callbacks of r1 and r2 execute r3 and r4 and wait for them           *)
Nesting4 == (r1 :> r3) @@ (r2 :> r4) @@ [r \in Request |-> None]
(* The callback of r1 executes r2 and waits for it, that of r2 executes r3  *)
Chain    == (r1 :> r2) @@ (r2 :> r3) @@ [r \in Request |-> None]

CbSymmetry == Permutations(CbWorker)
=============================================================================
