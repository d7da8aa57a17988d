---------------------------- MODULE MCWorkerIpc -----------------------------
(* The main thread, the compiler's and those of three monitors.            *)
EXTENDS WorkerIpc

CONSTANTS main, compiler, m1, m2, m3
=============================================================================
