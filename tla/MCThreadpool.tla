---------------------------- MODULE MCThreadpool ----------------------------
(* A small instance of Threadpool: a pool of one worker that can grow, and *)
(* two clients.  Its queue is used as the pool uses it.                    *)
EXTENDS Threadpool

PoolPuts == {"insert"}
PoolGets == {"pop"}
PoolModes == {"sync", "try"}
OnePriority == {0}
PoolControls == {"stop"}
OneMoreOrLess == {1, -1}
=============================================================================
