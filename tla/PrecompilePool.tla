--------------------------- MODULE PrecompilePool ---------------------------
(***************************************************************************)
(* The background compiler of qbutler (precompile.py, PrecompilePool): one *)
(* worker thread, a queue of kernels to compile, and any number of threads *)
(* that seed kernels, wait for them, and shut the pool down.               *)
(*                                                                         *)
(* Everything happens under one condition variable, so a method is one     *)
(* step up to the point where it waits; a wait releases the lock and is    *)
(* ended by the next notify_all.  The compile itself runs unlocked.        *)
(***************************************************************************)
EXTENDS PoolState

vars == <<specs, queue, results, errors, shutdown, worker, job, call, asleep>>

Range(s) == {s[i] : i \in 1..Len(s)}

Calls == [op : {"idle", "drain", "join"}] \cup [op : {"get"}, key : Keys]

(* No key is ever seeded twice, or has two outcomes.                       *)
TypeOK ==
  /\ specs \in Seq(Keys) /\ \A i, j \in 1..Len(specs) : specs[i] = specs[j] => i = j
  /\ queue \in Seq(Keys)
  /\ results \subseteq Keys /\ errors \subseteq Keys /\ results \cap errors = {}
  /\ shutdown \in BOOLEAN
  /\ worker \in {"none", "loop", "compiling", "exited"}
  /\ job \in Seq(Keys) /\ (worker = "compiling" <=> Len(job) = 1) /\ Len(job) <= 1
  /\ call \in [Callers -> Calls]
  /\ asleep \subseteq Callers \cup {Worker}

Init ==
  /\ specs = <<>> /\ queue = <<>>
  /\ results = {} /\ errors = {}
  /\ shutdown = FALSE
  /\ worker = "none" /\ job = <<>>
  /\ call = [t \in Callers |-> [op |-> "idle"]]
  /\ asleep = {}

Idle(t) == call[t].op = "idle"
NotifyAll == asleep' = {}
Return(t) == call' = [call EXCEPT ![t] = [op |-> "idle"]]

(* seed: after shutdown it raises, and for a known key it does nothing;    *)
(* the first one starts the worker.                                        *)
Seed(t, k) ==
  /\ Idle(t) /\ ~shutdown /\ k \notin Range(specs)
  /\ specs' = Append(specs, k)
  /\ queue' = Append(queue, k)
  /\ worker' = IF worker = "none" THEN "loop" ELSE worker
  /\ NotifyAll
  /\ UNCHANGED <<results, errors, shutdown, job, call>>

(* get of a known key, and drain: come in ... *)
Get(t, k) ==
  /\ Idle(t) /\ k \in Range(specs)
  /\ call' = [call EXCEPT ![t] = [op |-> "get", key |-> k]]
  /\ UNCHANGED <<specs, queue, results, errors, shutdown, worker, job, asleep>>

Drain(t) ==
  /\ Idle(t)
  /\ call' = [call EXCEPT ![t] = [op |-> "drain"]]
  /\ UNCHANGED <<specs, queue, results, errors, shutdown, worker, job, asleep>>

(* What a waiting caller waits for. *)
Served(t) ==
  \/ call[t].op = "get" /\ call[t].key \in finished
  \/ call[t].op = "drain" /\ Cardinality(results) + Cardinality(errors) >= Len(specs)

(* ... and wait until they are served, looking again whenever notified.    *)
Look(t) ==
  /\ call[t].op \in {"get", "drain"} /\ t \notin asleep
  /\ IF Served(t)
     THEN Return(t) /\ UNCHANGED asleep
     ELSE asleep' = asleep \cup {t} /\ UNCHANGED call
  /\ UNCHANGED <<specs, queue, results, errors, shutdown, worker, job>>

(* A mutant: the flag is set, but nobody is told. *)
ShutdownSilently(t, wait) ==
  /\ Idle(t) /\ ~shutdown
  /\ shutdown' = TRUE
  /\ call' = [call EXCEPT ![t].op = IF wait /\ worker # "none" THEN "join" ELSE "idle"]
  /\ UNCHANGED <<specs, queue, results, errors, worker, job, asleep>>

(* shutdown: the first call stops the worker, and joins it if asked to;    *)
(* any other call returns at once, whatever it was asked.                  *)
Shutdown(t, wait) ==
  /\ Idle(t) /\ ~shutdown
  /\ shutdown' = TRUE
  /\ NotifyAll
  /\ call' = [call EXCEPT ![t].op = IF wait /\ worker # "none" THEN "join" ELSE "idle"]
  /\ UNCHANGED <<specs, queue, results, errors, worker, job>>

Joined(t) ==
  /\ call[t].op = "join" /\ worker = "exited"
  /\ Return(t)
  /\ UNCHANGED <<specs, queue, results, errors, shutdown, worker, job, asleep>>

(* A mutant: the youngest job is taken first. *)
TakeYoungest ==
  /\ worker = "loop" /\ Worker \notin asleep /\ queue # <<>>
  /\ worker' = "compiling"
  /\ job' = <<queue[Len(queue)]>>
  /\ queue' = SubSeq(queue, 1, Len(queue) - 1)
  /\ UNCHANGED <<specs, results, errors, shutdown, call, asleep>>

(* The worker's turn under the lock: take a job, or leave, or wait.        *)
TakeJob ==
  /\ worker = "loop" /\ Worker \notin asleep
  /\ \/ /\ queue # <<>>
        /\ worker' = "compiling" /\ job' = <<Head(queue)>> /\ queue' = Tail(queue)
        /\ UNCHANGED asleep
     \/ /\ queue = <<>> /\ shutdown
        /\ worker' = "exited"
        /\ UNCHANGED <<queue, job, asleep>>
     \/ /\ queue = <<>> /\ ~shutdown
        /\ asleep' = asleep \cup {Worker}
        /\ UNCHANGED <<worker, queue, job>>
  /\ UNCHANGED <<specs, results, errors, shutdown, call>>

(* A mutant: the outcome is stored, but nobody is told. *)
CompiledSilently ==
  /\ worker = "compiling"
  /\ \/ results' = results \cup Range(job) /\ UNCHANGED errors
     \/ errors' = errors \cup Range(job) /\ UNCHANGED results
  /\ worker' = "loop" /\ job' = <<>>
  /\ UNCHANGED <<specs, queue, shutdown, call, asleep>>

(* A compile ends, with a callable or with the exception it raised.        *)
Compiled ==
  /\ worker = "compiling"
  /\ \/ results' = results \cup Range(job) /\ UNCHANGED errors
     \/ errors' = errors \cup Range(job) /\ UNCHANGED results
  /\ worker' = "loop" /\ job' = <<>>
  /\ NotifyAll
  /\ UNCHANGED <<specs, queue, shutdown, call>>

Next ==
  \/ \E t \in Callers :
       \/ \E k \in Keys : Seed(t, k) \/ Get(t, k)
       \/ \E wait \in BOOLEAN : Shutdown(t, wait)
       \/ Drain(t) \/ Look(t) \/ Joined(t)
  \/ TakeJob \/ Compiled

Spec == Init /\ [][Next]_vars

(* The worker runs, compiles end, and a thread that is awake looks.        *)
FairSpec ==
  /\ Spec
  /\ WF_vars(TakeJob) /\ WF_vars(Compiled)
  /\ \A t \in Callers : WF_vars(Look(t)) /\ WF_vars(Joined(t))

-------------------------------------------------------------------------------

(* No wake-up is lost: a caller that waits for a seeded kernel gets its     *)
(* outcome, and one that waits for all of them comes back, even when the   *)
(* pool is shut down meanwhile (precompile.py 180-207, 213-223).           *)
GetReturns == \A t \in Callers : call[t].op \in {"get", "drain"} ~> Idle(t)

(* A caller that joins the worker comes back. *)
JoinReturns == \A t \in Callers : call[t].op = "join" ~> Idle(t)

(* shutdown lets "the in-flight compile finish" (precompile.py 213-214):   *)
(* it starts no other.                                                     *)
NothingStartedAfterShutdown ==
  [][shutdown => ~(worker = "loop" /\ worker' = "compiling")]_vars
==============================================================================
