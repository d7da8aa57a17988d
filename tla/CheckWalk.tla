------------------------------ MODULE CheckWalk ------------------------------
(***************************************************************************)
(* The check walk of qbutler (calibration.py: check_state, check_targets): *)
(* one pass over the DAG, furthest dependency first, that measures what    *)
(* does not look good and fixes nothing.  A worker process starts with     *)
(* nothing in memory and any status dataset an earlier one has left, and   *)
(* other workers write that dataset meanwhile.                             *)
(***************************************************************************)
EXTENDS NodeState, Sequences

CONSTANTS
  Order,    \* the walk order of the target's DAG, the target last
  Scanned,  \* calibrations that are also run as fragments (run_once)
  None      \* no data

ASSUME CheckAssumption ==
  /\ Order \in Seq(Nodes) /\ Order # <<>> /\ None \notin Nodes
  /\ \A n \in Nodes : \E i \in 1..Len(Order) : Order[i] = n
  /\ \A i, j \in 1..Len(Order) : Order[i] = Order[j] => i = j
  /\ \A i \in 1..Len(Order) : Deps[Order[i]] \subseteq {Order[j] : j \in 1..(i-1)}
  /\ Scanned \subseteq Nodes

VARIABLES
  mem,      \* the calibrations' own attributes
  table,    \* the status dataset
  pc,       \* "idle", "look" at a node, "measure" it, "publish" the outcome,
            \* "returned"; "guessed"; "once": publish the outcome of run_once
  pos,      \* position in Order
  args,     \* force and continue_on_fail
  verdict,  \* r: the bad results so far, or returned
  data,     \* whose measurement the data is from
  copy,     \* the dataset as _publish_status has read it; the row that it
            \* is about to replace does not matter, nor does any other time
  firstBad, \* history: the first bad result of the walk, or "OK"
  late      \* history: the nodes that others have marked since this process
            \* last read their rows

vars == <<mem, table, pc, pos, args, verdict, data, copy, firstBad, late>>

Bad == {"EXPIRED", "BAD", "BAD_DEPS"}

TypeOK ==
  /\ mem \in [Nodes -> Entry] /\ table \in [Nodes -> Row]
  /\ pc \in {"idle", "look", "measure", "publish", "returned", "guessed", "once"}
  /\ pos \in 1..(Len(Order) + 1)
  /\ pc \in {"measure", "publish", "once"} => pos <= Len(Order)
  /\ args \in [force : BOOLEAN, goOn : BOOLEAN]
  /\ verdict \subseteq Bad /\ data \in Nodes \cup {None}
  /\ copy \in [Nodes -> Row] /\ firstBad \in Results /\ late \subseteq Nodes

(* What other processes may have left of n.  The stamp of its last fix     *)
(* plays no part in a check walk, and a check ages by itself.              *)
Left(n) == {row \in RowsOf(n) : row.opt = "never" /\ ~row.stale}

NoCopy == [n \in Nodes |-> Absent]

Init ==
  /\ mem = [n \in Nodes |-> Blank]
  /\ table \in [Nodes -> UNION {Left(n) : n \in Nodes}]
  /\ \A n \in Nodes : table[n] \in Left(n)
  /\ pc = "idle" /\ pos = 1
  /\ args = [force |-> FALSE, goOn |-> FALSE]
  /\ verdict = {} /\ data = None
  /\ copy = NoCopy /\ firstBad = "OK" /\ late = {}

cur == Order[pos]

StartWalk ==
  /\ pc \in {"idle", "returned", "guessed"} /\ pc' = "look" /\ pos' = 1
  /\ args' \in [force : BOOLEAN, goOn : BOOLEAN]
  /\ verdict' = {} /\ data' = None /\ firstBad' = "OK"
  /\ UNCHANGED <<mem, table, copy, late>>

(* Nothing remains of a walk that was cut short but what it has recorded.  *)
EndWalk ==
  /\ pc' = "idle" /\ pos' = 1
  /\ args' = [force |-> FALSE, goOn |-> FALSE]
  /\ verdict' = {} /\ data' = None
  /\ copy' = NoCopy /\ firstBad' = "OK"

(* A node with no check in memory has its row read, and the mark with it.  *)
Read(n) == late' = IF mem[n].res = "NONE" THEN late \ {n} ELSE late

(* A mutant: a forced walk does not guess, and so recalls nothing. *)
LookUnlessForced ==
  /\ pc = "look" /\ pos <= Len(Order)
  /\ LET e == IF args.force THEN mem[cur] ELSE Aged(Hydrated(mem[cur], table[cur]))
     IN /\ mem' = [mem EXCEPT ![cur] = e]
        /\ IF args.force \/ Guess(e) # "OK"
           THEN pc' = "measure" /\ UNCHANGED pos
           ELSE pc' = "look" /\ pos' = pos + 1
  /\ IF args.force THEN UNCHANGED late ELSE Read(cur)
  /\ UNCHANGED <<table, args, verdict, data, copy, firstBad>>

(* What is known of a node decides whether it is measured. *)
Look ==
  /\ pc = "look" /\ pos <= Len(Order)
  /\ LET e == Aged(Hydrated(mem[cur], table[cur]))
     IN /\ mem' = [mem EXCEPT ![cur] = e]
        /\ IF args.force \/ Guess(e) # "OK"
           THEN pc' = "measure" /\ UNCHANGED pos
           ELSE pc' = "look" /\ pos' = pos + 1
  /\ Read(cur)
  /\ UNCHANGED <<table, args, verdict, data, copy, firstBad>>

(* _record_own_check updates memory; _publish_status then reads the whole  *)
(* dataset.                                                                *)
Record(n, r) ==
  /\ mem' = Recorded(mem, n, r, FALSE)
  /\ copy' = [table EXCEPT ![n] = Absent]
  /\ late' = {m \in late : mem'[m].res # "NONE"}

(* Where a walk goes after a measurement: a bad one ends it, unless it was *)
(* told to go on.  A bad dependency is returned as BAD_DEPS, with no data. *)
Proceed(r) ==
  IF r # "OK" /\ ~args.goOn
  THEN /\ pc' = "returned" /\ UNCHANGED pos
       /\ verdict' = {IF pos = Len(Order) THEN r ELSE "BAD_DEPS"}
       /\ data' = (IF pos = Len(Order) THEN cur ELSE None)
  ELSE /\ pc' = "look" /\ pos' = pos + 1
       /\ verdict' = verdict \cup ({r} \ {"OK"})
       /\ data' = cur

Measure ==
  /\ pc = "measure" /\ pc' = "publish"
  /\ \E r \in Results :
       Record(cur, r) /\ firstBad' = (IF firstBad = "OK" THEN r ELSE firstBad)
  /\ UNCHANGED <<table, pos, args, verdict, data>>

(* It writes all of it back, whatever has been written in between.         *)
Publish ==
  /\ pc \in {"publish", "once"}
  /\ table' = Published(copy, mem, {cur})
  /\ IF pc = "publish"
     THEN Proceed(mem[cur].res) /\ copy' = NoCopy /\ UNCHANGED <<args, firstBad>>
     ELSE EndWalk
  /\ UNCHANGED <<mem, late>>

(* A measurement raises: nothing is recorded, the walk is over. *)
Raise ==
  /\ pc = "measure" /\ EndWalk
  /\ UNCHANGED <<mem, table, late>>

Finish ==
  /\ pc = "look" /\ pos > Len(Order) /\ pc' = "returned"
  /\ UNCHANGED <<mem, table, pos, args, verdict, data, copy, firstBad, late>>

(* guess_state looks at the first node of the walk only: no result has a   *)
(* bit in common with OK, which is zero, so "not (state & OK)" holds of    *)
(* every state and the loop returns the first.                             *)
GuessState ==
  /\ pc \in {"idle", "returned"} /\ pc' = "guessed" /\ pos' = 1
  /\ LET n == Head(Order)
         e == Aged(Hydrated(mem[n], table[n]))
     IN mem' = [mem EXCEPT ![n] = e] /\ verdict' = {Guess(e)} \ {"OK"} /\ Read(n)
  /\ args' = [force |-> FALSE, goOn |-> FALSE] /\ data' = None /\ firstBad' = "OK"
  /\ UNCHANGED <<table, copy>>

(* run_once: the calibration measures itself, whatever is known of it.     *)
RunOnce(n) ==
  /\ pc = "idle" /\ n \in Scanned
  /\ \E r \in Results : Record(n, r)
  /\ pc' = "once" /\ pos' \in 1..Len(Order) /\ cur' = n
  /\ UNCHANGED <<table, args, verdict, data, firstBad>>

(* The process ends, and another takes over. *)
Restart ==
  /\ EndWalk
  /\ mem' = [n \in Nodes |-> Blank] /\ late' = {}
  /\ UNCHANGED table

(* A check timeout lapses, for all who remember that check. *)
Lapse(n) ==
  /\ LET Old(e) == IF e.res \in {"NONE", "ABSENT"} THEN e
                   ELSE [e EXCEPT !.stale = TRUE]
     IN /\ mem' = [mem EXCEPT ![n] = Old(@)]
        /\ table' = [table EXCEPT ![n] = Old(@)]
        /\ copy' = [copy EXCEPT ![n] = Old(@)]
  /\ UNCHANGED <<pc, pos, args, verdict, data, firstBad, late>>

(* Others write the dataset: another worker's fix or forced walk, its      *)
(* checks, a write of its that puts an old row back.                       *)
OthersWrite(n) ==
  /\ \E row \in Left(n) :
       /\ table' = [table EXCEPT ![n] = row]
       /\ late' = IF row.mark /\ ~table[n].mark THEN late \cup {n} ELSE late
  /\ UNCHANGED <<mem, pc, pos, args, verdict, data, copy, firstBad>>

Next ==
  \/ StartWalk \/ Look \/ Measure \/ Publish \/ Raise \/ Finish \/ GuessState \/ Restart
  \/ \E n \in Nodes : RunOnce(n) \/ Lapse(n) \/ OthersWrite(n)

Spec == Init /\ [][Next]_vars

-------------------------------------------------------------------------------

(* A walk that returns OK has found every calibration good, by a cached    *)
(* check that nobody doubts or by measuring it (1092-1110).                *)
OkMeansGood ==
  pc = "returned" /\ verdict = {} =>
    \A n \in Nodes : mem[n].res = "OK" /\ mem[n].susp = {}

(* Only a fix that succeeds clears an UNCALIBRATED mark; checks leave      *)
(* "last_optimised" and the mark alone (1064-1067, 1500-1501), whatever is *)
(* cached, stale or not yet recalled, in whatever process: none takes away *)
(* a mark but one that another worker has set since this one last read it. *)
ChecksKeepMarks ==
  [][\A n \in Nodes : table[n].mark /\ ~table'[n].mark => n \in late \/ OthersWrite(n)]_vars

(* The same with no exception: "a check alone never clears either of       *)
(* these" (1500-1501).                                                     *)
ChecksKeepAllMarks ==
  [][\A n \in Nodes : table[n].mark /\ ~table'[n].mark => OthersWrite(n)]_vars

(* check_state returns, with the state, "data from the final layer of the  *)
(* check, i.e. from this Calibration, or None" (1086-1089).                *)
DataIsOwn == pc = "returned" => data \in {Order[Len(Order)], None}

(* guess_state guesses from "the status of all dependent Calibrations"     *)
(* (1034-1038): an OK speaks for every one of them.                        *)
GuessCoversAll ==
  pc = "guessed" /\ verdict = {} =>
    \A n \in Nodes : mem[n].res = "OK" /\ mem[n].susp = {}

(* Unless told to go on, it returns "the first bad result, or OK"          *)
(* (1082-1084).                                                            *)
FirstBadReturned ==
  pc = "returned" /\ ~args.goOn => verdict = {firstBad} \ {"OK"}
==============================================================================
