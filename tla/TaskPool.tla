------------------------------ MODULE TaskPool ------------------------------
(***************************************************************************)
(* What the thread pool promises: a task that was accepted waits, is begun *)
(* once, and ends; at most as many tasks as there can be workers are       *)
(* running; a pool that has been closed accepts and begins nothing more.   *)
(***************************************************************************)
EXTENDS Naturals, FiniteSets

CONSTANTS
  Tasks,      (* the tasks that can be accepted                            *)
  MaxRunning  (* how many can be running at a time                         *)

VARIABLES
  waiting,    (* accepted and not begun                                    *)
  running,
  ended,
  open        (* has the pool not been closed?                             *)

vars == <<waiting, running, ended, open>>

Init ==
  /\ waiting = {}
  /\ running = {}
  /\ ended = {}
  /\ open = TRUE

Accept(n) ==
  /\ open
  /\ n \notin waiting \cup running \cup ended
  /\ waiting' = waiting \cup {n}
  /\ UNCHANGED <<running, ended, open>>

Begin(n) ==
  /\ open
  /\ n \in waiting
  /\ Cardinality(running) < MaxRunning
  /\ waiting' = waiting \ {n}
  /\ running' = running \cup {n}
  /\ UNCHANGED <<ended, open>>

End(n) ==
  /\ n \in running
  /\ running' = running \ {n}
  /\ ended' = ended \cup {n}
  /\ UNCHANGED <<waiting, open>>

Close ==
  /\ open' = FALSE
  /\ UNCHANGED <<waiting, running, ended>>

Next ==
  \/ \E n \in Tasks : Accept(n) \/ Begin(n) \/ End(n)
  \/ Close

Spec == Init /\ [][Next]_vars
=============================================================================
