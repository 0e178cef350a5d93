-------------------------- MODULE MCMessageManage ---------------------------
(* Small instances of MessageManage.                                       *)
EXTENDS MessageManage, TLC

InstanceSymmetry == Permutations(Instances)
=============================================================================
