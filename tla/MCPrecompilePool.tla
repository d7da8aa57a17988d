-------------------------- MODULE MCPrecompilePool --------------------------
(* A pool with two callers and three kernels.                              *)
EXTENDS PrecompilePool

CONSTANTS s, t
==============================================================================
