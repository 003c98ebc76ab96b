------------------------ MODULE MCTransactionSession ------------------------
(* Small instances of TransactionSession.                                   *)
EXTENDS TransactionSession, TLC

CONSTANTS t1, t2, s1, s2, s3, none

OneTxn   == {t1}
TwoTxns  == {t1, t2}
TwoStmts == {s1, s2}
ThreeStmts == {s1, s2, s3}

(* Two statements of one transaction                                        *)
Alone  == (s1 :> t1) @@ (s2 :> t1)
(* One statement of each transaction and one of none                        *)
Shared == (s1 :> t1) @@ (s2 :> t2) @@ (s3 :> None)
Fails2 == {s2}
Fails3 == {s3}
FailsNone == {}

(* The two transactions of Shared, each with its statement, are alike: they *)
(* may be exchanged together                                                *)
SessionSymmetry ==
    {f \in Permutations({t1, t2, s1, s2}) :
       /\ {f[t1], f[t2]} = {t1, t2}
       /\ f[s1] = IF f[t1] = t1 THEN s1 ELSE s2}
=============================================================================
