--------------------------- MODULE MCInstallation ---------------------------
(* A small instance of Installation: an archive with a directory, one that *)
(* has a file fewer, one without a directory, and one with a file beside   *)
(* its directory.                                                          *)
EXTENDS Installation

SomeArchives ==
  {[rooted |-> TRUE,  inside |-> {"main", "lib"}, beside |-> {}],
   [rooted |-> TRUE,  inside |-> {"main"}, beside |-> {}],
   [rooted |-> FALSE, inside |-> {}, beside |-> {"main", "lib"}],
   [rooted |-> TRUE,  inside |-> {"main"}, beside |-> {"lib"}]}
=============================================================================
