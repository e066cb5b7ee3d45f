---------------------------- MODULE MCAccountFlow ----------------------------
(***************************************************************************)
(* AccountFlow on two hosts: the same email may be the same user on both,  *)
(* or another one.                                                         *)
(***************************************************************************)
EXTENDS AccountFlow, TLC

CONSTANTS legacy, iqua2, f1, f2

TwoHosts == <<legacy, iqua2>>
SameOrOther == {[h \in {legacy, iqua2} |-> "u1"], (legacy :> "u1") @@ (iqua2 :> "u2")}
Signers == {f1, f2}
SymmetricFlows == Permutations(Signers)
=============================================================================
