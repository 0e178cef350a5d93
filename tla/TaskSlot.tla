------------------------------ MODULE TaskSlot ------------------------------
(***************************************************************************)
(* What the main thread loop promises to a caller of post_task: a device   *)
(* works on one task at a time, a task is accepted only when the device    *)
(* holds none, every accepted task is started at most once, and tasks are  *)
(* started in the order in which they were accepted.                       *)
(***************************************************************************)
EXTENDS Naturals, Sequences

VARIABLES
  accepted,  (* how many tasks have been accepted; tasks are 1 .. accepted *)
  phase,     (* what the slot holds: nothing, a waiting or a running task  *)
  started    (* the tasks that were started, oldest first                  *)

vars == <<accepted, phase, started>>

Phases == {"empty", "held", "running"}

Init ==
  /\ accepted = 0
  /\ phase = "empty"
  /\ started = <<>>

Accept ==
  /\ phase = "empty"
  /\ accepted' = accepted + 1
  /\ phase' = "held"
  /\ UNCHANGED started

Start ==
  /\ phase = "held"
  /\ phase' = "running"
  /\ started' = Append(started, accepted)
  /\ UNCHANGED accepted

Finish ==
  /\ phase = "running"
  /\ phase' = "empty"
  /\ UNCHANGED <<accepted, started>>

Next == Accept \/ Start \/ Finish

Spec == Init /\ [][Next]_vars
=============================================================================
