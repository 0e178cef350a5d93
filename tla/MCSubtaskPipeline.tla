-------------------------- MODULE MCSubtaskPipeline -------------------------
(* Small instances of SubtaskPipeline.                                     *)
EXTENDS SubtaskPipeline

AnyResult == {"ok", "fail"}
AsBuilt == {"fail"}
=============================================================================
