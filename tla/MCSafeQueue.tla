---------------------------- MODULE MCSafeQueue -----------------------------
(* A small instance of SafeQueue: the pools' way to put, both ways to get, *)
(* and every control.                                                      *)
EXTENDS SafeQueue

PoolPuts == {"insert"}
BothGets == {"pop", "list"}
AllModes == {"sync", "try", "async"}
AllControls == {"stop", "clear", "reset"}
TwoPriorities == {0, 1}
=============================================================================
