-------------------------- MODULE MCConnectionPool --------------------------
(* Small instances of ConnectionPool.  Users and warm-up threads are        *)
(* interchangeable.                                                         *)
EXTENDS ConnectionPool, TLC

CONSTANTS u1, u2, u3, f1, f2, k1, k2, k3, k4, k5

TwoUsers   == {u1, u2}
ThreeUsers == {u1, u2, u3}
OneFiller  == {f1}
TwoFillers == {f1, f2}
NoFillers  == {}
FourConns  == {k1, k2, k3, k4}
FiveConns  == {k1, k2, k3, k4, k5}

PoolSymmetry == Permutations(User) \cup Permutations(Filler)
=============================================================================
