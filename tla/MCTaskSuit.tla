----------------------------- MODULE MCTaskSuit -----------------------------
(* Small instances of TaskSuit.                                            *)
EXTENDS TaskSuit

MCKinds == {"update", "run"}
MCKind(r) == r
=============================================================================
