----------------------------- MODULE PoolState ------------------------------
(***************************************************************************)
(* What the background compiler keeps (precompile.py, PrecompilePool), and *)
(* what it promises about it.  PrecompilePool is how it gets there.        *)
(***************************************************************************)
EXTENDS Sequences, Naturals, FiniteSets

CONSTANTS
  Callers,  \* the threads that use the pool
  Worker,   \* the thread that compiles
  Keys      \* what can be seeded

ASSUME PoolAssumption == Worker \notin Callers /\ IsFiniteSet(Keys)

VARIABLES
  specs,     \* the keys of _specs, in the order they were seeded
  queue,     \* _queue
  results,   \* the keys of _results
  errors,    \* the keys of _errors
  shutdown,  \* _shutdown
  worker,    \* where the worker thread is
  job,       \* what it compiles, as a sequence of at most one key
  call,      \* what each caller is doing
  asleep     \* the threads waiting on _cv

finished == results \cup errors

-------------------------------------------------------------------------------

(* Every seeded kernel is compiled exactly once, in the order it was       *)
(* seeded: what is finished, what is being compiled and what is queued are *)
(* together the seeds, in that order.  The client relies on the order to   *)
(* have its main kernel ready first (client.py 530-537).                   *)
SeedOrder ==
  LET n == Cardinality(finished)
  IN /\ finished = {specs[i] : i \in 1..n}
     /\ job \o queue = SubSeq(specs, n + 1, Len(specs))
==============================================================================
