----------------------------- MODULE MCMonitors -----------------------------
(* Three monitors on two threads, so that checks queue.                    *)
EXTENDS Monitors

CONSTANTS m1, m2, m3, w1, w2
=============================================================================
