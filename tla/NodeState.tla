------------------------------ MODULE NodeState ------------------------------
(***************************************************************************)
(* What qbutler remembers about each calibration node, and what it infers  *)
(* from that memory without measuring (qbutler/calibration.py).            *)
(*                                                                         *)
(* A node has a cached entry in the worker process that instantiated it    *)
(* and a row in the persistent status dataset "calibrations.status", keyed *)
(* by class name.  Both are modelled by the same record.  Wall-clock       *)
(* timestamps are abstracted to the only questions the code asks of them:  *)
(* has the check timeout lapsed since the last check ("stale"), and is the *)
(* last successful fix missing, recent, or older than the re-optimise      *)
(* timeout ("opt").                                                        *)
(***************************************************************************)
EXTENDS Naturals

CONSTANTS
  Nodes,     \* the calibrations of one DAG
  Deps,      \* Deps[n]: the direct dependencies of n (graph successors)
  Fixable,   \* the nodes for which is_fixable() holds
  Reopt      \* the nodes that called set_reoptimise_timeout()

(* Deps points from a calibration to what it depends on; a re-optimise     *)
(* timeout on a node that cannot be fixed is refused at build time.        *)
ASSUME GraphAssumption ==
  /\ Deps \in [Nodes -> SUBSET Nodes]
  /\ Fixable \subseteq Nodes
  /\ Reopt \subseteq Fixable
  /\ \A n \in Nodes : n \notin Deps[n]

(* All nodes reachable from n: dag.get_dependencies(n) without n itself.   *)
Below ==
  [n \in Nodes |->
     {m \in Nodes : \A S \in SUBSET Nodes :
                      (Deps[n] \subseteq S /\ \A k \in S : Deps[k] \subseteq S)
                        => m \in S}]

(* CalibrationResult, up to what the walk tells apart: OK, anything with   *)
(* the BAD_EXPIRED bit, any other bad flag (BAD_DATA, BAD_DEPS, INVALID).  *)
Results == {"OK", "EXPIRED", "BAD"}

Entry == [res   : Results \cup {"NONE"},  \* __most_recent_check_result
          stale : BOOLEAN,                \* now > timestamp + timeout
          susp  : SUBSET Nodes,           \* __suspected_by
          mark  : BOOLEAN,                \* __uncalibrated_mark
          opt   : {"never", "fresh", "due"},  \* __last_optimised
          trial : BOOLEAN]                \* recorded at a sweep's trial point

(* A node as its constructor leaves it. *)
Blank == [res |-> "NONE", stale |-> FALSE, susp |-> {}, mark |-> FALSE,
          opt |-> "never", trial |-> FALSE]

(* A row of the status dataset, or its absence. *)
Absent == [Blank EXCEPT !.res = "ABSENT"]
Row == Entry \cup {Absent}

(* The rows of n that any process may have left in the dataset: none, the  *)
(* minimal one that carries a mark, or the outcome of a check, at any age, *)
(* suspected along one edge.                                               *)
RowsOf(n) ==
  {Absent} \cup {[Blank EXCEPT !.mark = TRUE] : m \in Fixable \cap {n}}
    \cup [res : {"OK", "BAD"}, stale : BOOLEAN, susp : SUBSET {m \in Nodes : n \in Deps[m]},
          mark : {FALSE} \cup {TRUE : m \in Fixable \cap {n}},
          opt : {"never"} \cup {"fresh" : m \in Fixable \cap {n}}
                  \cup {"due" : m \in Reopt \cap {n}},
          trial : {FALSE}]

(* A mutant: the mark is read only from a row that records a check, so a   *)
(* mark on a node that never published is not seen by the next process.    *)
RecalledIfChecked(e, row) == IF row.res \in {"ABSENT", "NONE"} THEN e ELSE row

(* _recall_status: the mark and the stamp are read from any row, the check *)
(* state only from a row that records a check.                             *)
Recalled(e, row) ==
  IF row.res = "ABSENT" THEN e
  ELSE IF row.res = "NONE" THEN [e EXCEPT !.mark = row.mark, !.opt = row.opt]
  ELSE row

(* A mutant: the row is read whenever there is one. *)
HydratedAlways(e, row) == Recalled(e, row)

(* Both _needs_reoptimise and _guess_own_state recall only a node that has *)
(* no check result in memory.                                              *)
Hydrated(e, row) == IF e.res = "NONE" THEN Recalled(e, row) ELSE e

(* _guess_own_state's side effect: a lapsed timeout overwrites the cached  *)
(* result, whatever it was.                                                *)
Aged(e) ==
  IF e.res # "NONE" /\ e.stale THEN [e EXCEPT !.res = "EXPIRED"] ELSE e

(* A mutant: the guess forgets to ask whether the node is suspect. *)
GuessUnsuspecting(e) == IF e.res = "NONE" THEN "EXPIRED" ELSE e.res

(* _guess_own_state's answer for an entry already hydrated and aged.  A    *)
(* suspect OK answers "expired" and leaves the cached OK alone.            *)
Guess(e) ==
  IF e.res = "NONE" \/ (e.res = "OK" /\ e.susp # {}) THEN "EXPIRED" ELSE e.res

(* A mutant: a node never fixed is not due.                                *)
NeedsReoptimiseAgain(n, e) ==
  n \in Fixable /\ (e.mark \/ (n \in Reopt /\ e.opt = "due"))

(* _needs_reoptimise, for an entry already hydrated. *)
NeedsReoptimise(n, e) ==
  n \in Fixable /\ (e.mark \/ (n \in Reopt /\ e.opt # "fresh"))

(* Mutants: only good measurements are recorded; one that comes out OK     *)
(* also clears the mark.                                                   *)
RecordedIfGood(mem, n, r, trial) ==
  IF r # "OK" THEN mem
  ELSE [mem EXCEPT ![n].res = r, ![n].stale = FALSE, ![n].susp = {}, ![n].trial = trial]

RecordedClearsMark(mem, n, r, trial) ==
  [mem EXCEPT ![n].res = r, ![n].stale = FALSE, ![n].susp = {}, ![n].trial = trial,
              ![n].mark = @ /\ r # "OK"]

(* _record_own_check in memory: the measurement answers every suspicion of *)
(* n, and an OK also withdraws the suspicions n cast on what it reaches.   *)
Recorded(mem, n, r, trial) ==
  [m \in Nodes |->
     IF m = n
     THEN [mem[n] EXCEPT !.res = r, !.stale = FALSE, !.susp = {}, !.trial = trial]
     ELSE IF r = "OK" /\ m \in Below[n]
     THEN [mem[m] EXCEPT !.susp = @ \ {n}]
     ELSE mem[m]]

(* _publish_status for the nodes in S: each row is overwritten whole from  *)
(* memory, and the names of those that are OK are pruned from the other    *)
(* rows' suspicions.                                                       *)
Published(table, mem, S) ==
  [m \in Nodes |->
     IF m \in S THEN mem[m]
     ELSE IF table[m].res = "ABSENT" THEN table[m]
     ELSE [table[m] EXCEPT !.susp = @ \ {n \in S : mem[n].res = "OK"}]]

(* _mark_uncalibrated, memory half (_set_uncalibrated_mark). *)
Marked(mem) ==
  [m \in Nodes |-> IF m \in Fixable THEN [mem[m] EXCEPT !.mark = TRUE] ELSE mem[m]]

(* _mark_uncalibrated, dataset half (_publish_uncalibrated_marks): one     *)
(* batched write, with a minimal row for a node that never published.      *)
MarkedRows(table) ==
  [m \in Nodes |->
     IF m \notin Fixable THEN table[m]
     ELSE IF table[m].res = "ABSENT" THEN [Blank EXCEPT !.mark = TRUE]
     ELSE [table[m] EXCEPT !.mark = TRUE]]

(* _suspect_dependencies_of(n): the direct dependencies that still guess   *)
(* OK become suspect; guessing hydrates and ages every one of them.        *)
Reviewed(mem, table, n) ==
  [m \in Nodes |->
     IF m \in Deps[n] THEN Aged(Hydrated(mem[m], table[m])) ELSE mem[m]]
NewlySuspect(mem, n) == {d \in Deps[n] : Guess(mem[d]) = "OK"}
Suspected(mem, n) ==
  [m \in Nodes |->
     IF m \in NewlySuspect(mem, n) THEN [mem[m] EXCEPT !.susp = @ \cup {n}]
     ELSE mem[m]]
==============================================================================
