-------------------------- MODULE NodeStateProofs ---------------------------
(***************************************************************************)
(* Lemmas about the operators of NodeState: what each returns, and what it *)
(* leaves alone.  They hold for every DAG.                                 *)
(***************************************************************************)
EXTENDS NodeState, TLAPS

Memory == [Nodes -> Entry]
Table  == [Nodes -> Row]

(* A calibration as its constructor leaves it is a legal entry. *)
LEMMA BlankIsEntry == Blank \in Entry /\ Absent \in Row
BY DEF Blank, Absent, Entry, Row, Results

(* A row is either absent or a legal entry. *)
LEMMA RowCases ==
  ASSUME NEW row \in Row
  PROVE  IF row.res = "ABSENT" THEN row = Absent ELSE row \in Entry
<1>1. CASE row \in Entry
  BY <1>1 DEF Entry, Results
<1>2. CASE row = Absent
  BY <1>2 DEF Absent, Blank
<1> QED BY <1>1, <1>2 DEF Row

(* What any process may leave in the dataset is a legal row. *)
LEMMA RowsAreRows == ASSUME NEW n \in Nodes PROVE RowsOf(n) \subseteq Row
<1> SUFFICES ASSUME NEW row \in RowsOf(n) PROVE row \in Row
  OBVIOUS
<1>1. CASE row \in {Absent} \cup {[Blank EXCEPT !.mark = TRUE] : m \in Fixable \cap {n}}
  <2>1. [Blank EXCEPT !.mark = TRUE] \in Entry
    BY DEF Blank, Entry, Results
  <2> QED BY <1>1, <2>1 DEF Row
<1>2. CASE row \in [res : {"OK", "BAD"}, stale : BOOLEAN, susp : SUBSET {m \in Nodes : n \in Deps[m]},
                    mark : {FALSE} \cup {TRUE : m \in Fixable \cap {n}},
                    opt : {"never"} \cup {"fresh" : m \in Fixable \cap {n}}
                            \cup {"due" : m \in Reopt \cap {n}},
                    trial : {FALSE}]
  <2>1. row.mark \in BOOLEAN /\ row.opt \in {"never", "fresh", "due"}
    BY <1>2
  <2>2. row = [res |-> row.res, stale |-> row.stale, susp |-> row.susp, mark |-> row.mark,
               opt |-> row.opt, trial |-> row.trial]
    BY <1>2
  <2> QED BY <1>2, <2>1, <2>2 DEF Row, Entry, Results
<1> QED BY <1>1, <1>2 DEF RowsOf

(* Recalling from the dataset yields a legal entry, and one that carries   *)
(* the mark of the row it came from.                                       *)
LEMMA HydratedProperties ==
  ASSUME NEW e \in Entry, NEW row \in Row
  PROVE  /\ Hydrated(e, row) \in Entry
         /\ e.res # "NONE" => Hydrated(e, row) = e
         /\ e.res = "NONE" /\ row.res # "ABSENT" => Hydrated(e, row).mark = row.mark
<1>1. CASE e.res # "NONE"
  BY <1>1 DEF Hydrated
<1>2. CASE e.res = "NONE"
  <2>1. CASE row.res = "ABSENT"
    BY <1>2, <2>1 DEF Hydrated, Recalled
  <2>2. CASE row.res = "NONE"
    <3>1. row \in Entry
      BY <2>2, RowCases
    <3>2. Hydrated(e, row) = [e EXCEPT !.mark = row.mark, !.opt = row.opt]
      BY <1>2, <2>2 DEF Hydrated, Recalled
    <3> QED BY <1>2, <3>1, <3>2 DEF Entry
  <2>3. CASE row.res \notin {"ABSENT", "NONE"}
    <3>1. row \in Entry
      BY <2>3, RowCases
    <3>2. Hydrated(e, row) = row
      BY <1>2, <2>3 DEF Hydrated, Recalled
    <3> QED BY <1>2, <3>1, <3>2
  <2> QED BY <2>1, <2>2, <2>3
<1> QED BY <1>1, <1>2

(* Ageing only ever turns a cached result into "expired". *)
LEMMA AgedProperties ==
  ASSUME NEW e \in Entry
  PROVE  /\ Aged(e) \in Entry
         /\ Aged(e).mark = e.mark /\ Aged(e).susp = e.susp /\ Aged(e).opt = e.opt
         /\ Aged(e).res = "NONE" <=> e.res = "NONE"
         /\ Guess(Aged(e)) \in Results
         /\ Guess(Aged(e)) = "OK" <=> Aged(e).res = "OK" /\ e.susp = {}
BY DEF Aged, Guess, Entry, Results

(* Recording a check of n, whatever came out. *)
LEMMA RecordedAny ==
  ASSUME NEW mem \in Memory, NEW n \in Nodes,
         NEW r \in Results, NEW trial \in BOOLEAN
  PROVE  /\ Recorded(mem, n, r, trial) \in Memory
         /\ Recorded(mem, n, r, trial)[n].res = r
         /\ Recorded(mem, n, r, trial)[n].susp = {}
         /\ \A m \in Nodes :
              /\ Recorded(mem, n, r, trial)[m].mark = mem[m].mark
              /\ Recorded(mem, n, r, trial)[m].opt = mem[m].opt
              /\ Recorded(mem, n, r, trial)[m].susp \subseteq mem[m].susp
              /\ m # n => Recorded(mem, n, r, trial)[m].res = mem[m].res
<1> DEFINE R == Recorded(mem, n, r, trial)
<1>1. ASSUME NEW m \in Nodes
      PROVE  /\ R[m] \in Entry
             /\ R[m].mark = mem[m].mark
             /\ R[m].opt = mem[m].opt
             /\ R[m].susp \subseteq mem[m].susp
             /\ m # n => R[m].res = mem[m].res
             /\ m = n => R[m].res = r /\ R[m].susp = {}
  <2>1. mem[m] \in Entry /\ mem[n] \in Entry
    BY DEF Memory
  <2>2. CASE m = n
    <3>1. R[m] = [mem[n] EXCEPT !.res = r, !.stale = FALSE, !.susp = {}, !.trial = trial]
      BY <2>2 DEF Recorded
    <3> QED BY <2>1, <2>2, <3>1 DEF Entry, Results
  <2>3. CASE m # n /\ r = "OK" /\ m \in Below[n]
    <3>1. R[m] = [mem[m] EXCEPT !.susp = @ \ {n}]
      BY <2>3 DEF Recorded
    <3> QED BY <2>1, <2>3, <3>1 DEF Entry
  <2>4. CASE m # n /\ ~(r = "OK" /\ m \in Below[n])
    <3>1. R[m] = mem[m]
      BY <2>4 DEF Recorded
    <3> QED BY <2>1, <2>4, <3>1
  <2> QED BY <2>2, <2>3, <2>4
<1>2. R \in Memory
  <2>1. R = [m \in Nodes |-> R[m]]
    BY DEF Recorded
  <2> QED BY <1>1, <2>1 DEF Memory
<1> QED BY <1>1, <1>2

(* ... and what a measurement records. *)
LEMMA RecordedProperties ==
  ASSUME NEW mem \in Memory, NEW n \in Nodes,
         NEW r \in {"OK", "BAD"}, NEW trial \in BOOLEAN
  PROVE  /\ Recorded(mem, n, r, trial) \in Memory
         /\ Recorded(mem, n, r, trial)[n].res = r
         /\ Recorded(mem, n, r, trial)[n].susp = {}
         /\ \A m \in Nodes :
              /\ Recorded(mem, n, r, trial)[m].mark = mem[m].mark
              /\ Recorded(mem, n, r, trial)[m].opt = mem[m].opt
              /\ Recorded(mem, n, r, trial)[m].susp \subseteq mem[m].susp
              /\ m # n => Recorded(mem, n, r, trial)[m].res = mem[m].res
<1>1. r \in Results
  BY DEF Results
<1> QED BY <1>1, RecordedAny

(* Publishing the entries of S rewrites their rows from memory; on every   *)
(* other row it can only take away suspicions.                             *)
LEMMA PublishedProperties ==
  ASSUME NEW table \in Table, NEW mem \in Memory, NEW S \in SUBSET Nodes
  PROVE  /\ Published(table, mem, S) \in Table
         /\ \A m \in S : Published(table, mem, S)[m] = mem[m]
         /\ \A m \in Nodes \ S :
              /\ Published(table, mem, S)[m].mark = table[m].mark
              /\ Published(table, mem, S)[m].res = table[m].res
<1> DEFINE P == Published(table, mem, S)
           OKs == {n \in S : mem[n].res = "OK"}
<1>1. ASSUME NEW m \in Nodes
      PROVE  /\ P[m] \in Row
             /\ m \in S => P[m] = mem[m]
             /\ m \notin S => P[m].mark = table[m].mark /\ P[m].res = table[m].res
  <2>1. mem[m] \in Entry /\ table[m] \in Row
    BY DEF Memory, Table
  <2>2. CASE m \in S
    <3>1. P[m] = mem[m]
      BY <2>2 DEF Published
    <3> QED BY <2>1, <2>2, <3>1 DEF Row
  <2>3. CASE m \notin S /\ table[m].res = "ABSENT"
    <3>1. P[m] = table[m]
      BY <2>3 DEF Published
    <3> QED BY <2>1, <2>3, <3>1
  <2>4. CASE m \notin S /\ table[m].res # "ABSENT"
    <3>1. P[m] = [table[m] EXCEPT !.susp = @ \ OKs]
      BY <2>4 DEF Published
    <3>2. table[m] \in Entry
      BY <2>1, <2>4, RowCases
    <3>3. P[m] \in Entry /\ P[m].mark = table[m].mark /\ P[m].res = table[m].res
      BY <3>1, <3>2 DEF Entry
    <3> QED BY <2>4, <3>3 DEF Row
  <2> QED BY <2>2, <2>3, <2>4
<1>2. P \in Table
  <2>1. P = [m \in Nodes |-> P[m]]
    BY DEF Published
  <2> QED BY <1>1, <2>1 DEF Table
<1> QED BY <1>1, <1>2

(* Marking for a forced walk touches the marks of the fixable nodes only,  *)
(* and leaves a row behind for each of them.                               *)
LEMMA MarkedProperties ==
  ASSUME NEW mem \in Memory, NEW table \in Table
  PROVE  /\ Marked(mem) \in Memory
         /\ MarkedRows(table) \in Table
         /\ \A m \in Fixable : /\ Marked(mem)[m].mark
                               /\ MarkedRows(table)[m].mark
                               /\ MarkedRows(table)[m].res # "ABSENT"
         /\ \A m \in Nodes \ Fixable : /\ Marked(mem)[m] = mem[m]
                                       /\ MarkedRows(table)[m] = table[m]
<1>1. Fixable \subseteq Nodes
  BY GraphAssumption
<1>2. ASSUME NEW m \in Nodes
      PROVE  /\ Marked(mem)[m] \in Entry
             /\ m \in Fixable => Marked(mem)[m].mark
             /\ m \notin Fixable => Marked(mem)[m] = mem[m]
  <2>1. mem[m] \in Entry
    BY DEF Memory
  <2>2. CASE m \in Fixable
    <3>1. Marked(mem)[m] = [mem[m] EXCEPT !.mark = TRUE]
      BY <2>2 DEF Marked
    <3> QED BY <2>1, <2>2, <3>1 DEF Entry
  <2>3. CASE m \notin Fixable
    BY <2>1, <2>3 DEF Marked
  <2> QED BY <2>2, <2>3
<1>3. ASSUME NEW m \in Nodes
      PROVE  /\ MarkedRows(table)[m] \in Row
             /\ m \in Fixable => MarkedRows(table)[m].mark
             /\ m \in Fixable => MarkedRows(table)[m].res # "ABSENT"
             /\ m \notin Fixable => MarkedRows(table)[m] = table[m]
  <2>1. table[m] \in Row
    BY DEF Table
  <2>2. CASE m \notin Fixable
    BY <2>1, <2>2 DEF MarkedRows
  <2>3. CASE m \in Fixable /\ table[m].res = "ABSENT"
    <3>1. MarkedRows(table)[m] = [Blank EXCEPT !.mark = TRUE]
      BY <2>3 DEF MarkedRows
    <3> QED BY <2>3, <3>1 DEF Blank, Row, Entry, Results
  <2>4. CASE m \in Fixable /\ table[m].res # "ABSENT"
    <3>1. MarkedRows(table)[m] = [table[m] EXCEPT !.mark = TRUE]
      BY <2>4 DEF MarkedRows
    <3>2. table[m] \in Entry
      BY <2>1, <2>4, RowCases
    <3>3. MarkedRows(table)[m] \in Entry /\ MarkedRows(table)[m].mark
          /\ MarkedRows(table)[m].res # "ABSENT"
      BY <3>1, <3>2 DEF Entry, Results
    <3> QED BY <2>4, <3>3 DEF Row
  <2> QED BY <2>2, <2>3, <2>4
<1>4. Marked(mem) \in Memory
  <2>1. Marked(mem) = [m \in Nodes |-> Marked(mem)[m]]
    BY DEF Marked
  <2> QED BY <1>2, <2>1 DEF Memory
<1>5. MarkedRows(table) \in Table
  <2>1. MarkedRows(table) = [m \in Nodes |-> MarkedRows(table)[m]]
    BY DEF MarkedRows
  <2> QED BY <1>3, <2>1 DEF Table
<1> QED BY <1>1, <1>2, <1>3, <1>4, <1>5

(* A failed fix of n re-examines n's direct dependencies, and then marks   *)
(* as suspect, among them, exactly those that guessed OK.                  *)
LEMMA ReviewedProperties ==
  ASSUME NEW mem \in Memory, NEW table \in Table, NEW n \in Nodes
  PROVE  /\ Reviewed(mem, table, n) \in Memory
         /\ \A m \in Nodes :
              Reviewed(mem, table, n)[m] =
                IF m \in Deps[n] THEN Aged(Hydrated(mem[m], table[m])) ELSE mem[m]
<1>1. ASSUME NEW m \in Nodes
      PROVE  Aged(Hydrated(mem[m], table[m])) \in Entry /\ mem[m] \in Entry
  BY HydratedProperties, AgedProperties DEF Memory, Table
<1> QED BY <1>1 DEF Reviewed, Memory

LEMMA SuspectedProperties ==
  ASSUME NEW mem \in Memory, NEW n \in Nodes
  PROVE  /\ Suspected(mem, n) \in Memory
         /\ NewlySuspect(mem, n) \subseteq Deps[n]
         /\ \A m \in Nodes : /\ Suspected(mem, n)[m].mark = mem[m].mark
                             /\ Suspected(mem, n)[m].res = mem[m].res
                             /\ m \notin Deps[n] => Suspected(mem, n)[m] = mem[m]
<1> DEFINE T == Suspected(mem, n)
<1>1. ASSUME NEW m \in Nodes
      PROVE  /\ T[m] \in Entry
             /\ T[m].mark = mem[m].mark /\ T[m].res = mem[m].res
             /\ m \notin Deps[n] => T[m] = mem[m]
  <2>1. mem[m] \in Entry
    BY DEF Memory
  <2>2. CASE m \in NewlySuspect(mem, n)
    <3>1. T[m] = [mem[m] EXCEPT !.susp = @ \cup {n}]
      BY <2>2 DEF Suspected
    <3> QED BY <2>1, <2>2, <3>1 DEF Entry, NewlySuspect
  <2>3. CASE m \notin NewlySuspect(mem, n)
    BY <2>1, <2>3 DEF Suspected
  <2> QED BY <2>2, <2>3
<1>2. T \in Memory
  <2>1. T = [m \in Nodes |-> T[m]]
    BY DEF Suspected
  <2> QED BY <1>1, <2>1 DEF Memory
<1>3. NewlySuspect(mem, n) \subseteq Deps[n]
  BY DEF NewlySuspect
<1> QED BY <1>1, <1>2, <1>3

-------------------------------------------------------------------------------
(* Where suspicions and stamps come from.                                  *)

(* What a node is suspected by after a recall was in memory or in the row, *)
(* and so was its result; its mark and stamp are the row's, if it has one. *)
LEMMA HydratedOrigins ==
  ASSUME NEW e \in Entry, NEW row \in Row
  PROVE  /\ Hydrated(e, row).susp \subseteq e.susp \cup row.susp
         /\ Hydrated(e, row).res \in {e.res, row.res}
         /\ e.res # "NONE" \/ row.res = "ABSENT" => Hydrated(e, row) = e
         /\ e.res = "NONE" /\ row.res # "ABSENT" =>
              Hydrated(e, row).mark = row.mark /\ Hydrated(e, row).opt = row.opt
<1>1. CASE e.res # "NONE" \/ row.res = "ABSENT"
  BY <1>1 DEF Hydrated, Recalled
<1>2. CASE e.res = "NONE" /\ row.res = "NONE"
  <2>1. Hydrated(e, row) = [e EXCEPT !.mark = row.mark, !.opt = row.opt]
    BY <1>2 DEF Hydrated, Recalled
  <2> QED BY <1>2, <2>1 DEF Entry
<1>3. CASE e.res = "NONE" /\ row.res \notin {"ABSENT", "NONE"}
  BY <1>3 DEF Hydrated, Recalled
<1> QED BY <1>1, <1>2, <1>3

(* What a node depends on it reaches.                                      *)
LEMMA DepsBelow == ASSUME NEW n \in Nodes PROVE Deps[n] \subseteq Below[n]
BY GraphAssumption DEF Below

(* A good check of n withdraws what n suspected of its dependencies.       *)
LEMMA RecordedWithdraws ==
  ASSUME NEW mem \in Memory, NEW n \in Nodes, NEW trial \in BOOLEAN,
         NEW d \in Deps[n]
  PROVE  n \notin Recorded(mem, n, "OK", trial)[d].susp
<1>1. d \in Nodes /\ d # n /\ d \in Below[n] /\ mem[d] \in Entry
  BY DepsBelow, GraphAssumption DEF Memory
<1>2. Recorded(mem, n, "OK", trial)[d] = [mem[d] EXCEPT !.susp = @ \ {n}]
  BY <1>1 DEF Recorded
<1> QED BY <1>1, <1>2 DEF Entry

(* Publishing the entries of S casts no suspicion on any other row, takes  *)
(* away those of the good ones, and leaves the stamps alone.               *)
LEMMA PublishedOrigins ==
  ASSUME NEW table \in Table, NEW mem \in Memory, NEW S \in SUBSET Nodes,
         NEW m \in Nodes \ S
  PROVE  /\ Published(table, mem, S)[m].susp \subseteq table[m].susp
         /\ \A n \in S : mem[n].res = "OK" => n \notin Published(table, mem, S)[m].susp
         /\ Published(table, mem, S)[m].opt = table[m].opt
<1> DEFINE OKs == {n \in S : mem[n].res = "OK"}
<1>1. table[m] \in Row
  BY DEF Table
<1>2. CASE table[m].res = "ABSENT"
  <2>1. Published(table, mem, S)[m] = table[m] /\ table[m] = Absent
    BY <1>1, <1>2, RowCases DEF Published
  <2> QED BY <2>1 DEF Absent, Blank
<1>3. CASE table[m].res # "ABSENT"
  <2>1. Published(table, mem, S)[m] = [table[m] EXCEPT !.susp = @ \ OKs]
    BY <1>3 DEF Published
  <2>2. table[m] \in Entry
    BY <1>1, <1>3, RowCases
  <2> QED BY <2>1, <2>2 DEF Entry
<1> QED BY <1>2, <1>3

(* Marking changes the marks, and nothing else that a guess would read.    *)
LEMMA MarkedOrigins ==
  ASSUME NEW mem \in Memory, NEW table \in Table, NEW m \in Nodes
  PROVE  /\ Marked(mem)[m].susp = mem[m].susp
         /\ Marked(mem)[m].res = mem[m].res
         /\ Marked(mem)[m].opt = mem[m].opt
         /\ MarkedRows(table)[m].susp = table[m].susp
         /\ MarkedRows(table)[m].opt = table[m].opt
         /\ \/ MarkedRows(table)[m].res = table[m].res
            \/ table[m].res = "ABSENT" /\ MarkedRows(table)[m].res = "NONE"
<1>1. mem[m] \in Entry /\ table[m] \in Row
  BY DEF Memory, Table
<1>2. /\ Marked(mem)[m].susp = mem[m].susp
      /\ Marked(mem)[m].res = mem[m].res
      /\ Marked(mem)[m].opt = mem[m].opt
  <2>1. CASE m \in Fixable
    <3>1. Marked(mem)[m] = [mem[m] EXCEPT !.mark = TRUE]
      BY <2>1 DEF Marked
    <3> QED BY <1>1, <3>1 DEF Entry
  <2>2. CASE m \notin Fixable
    BY <2>2 DEF Marked
  <2> QED BY <2>1, <2>2
<1>3. CASE m \notin Fixable
  <2>1. MarkedRows(table)[m] = table[m]
    BY <1>3 DEF MarkedRows
  <2> QED BY <1>2, <2>1
<1>4. CASE m \in Fixable /\ table[m].res = "ABSENT"
  <2>1. table[m] = Absent
    BY <1>1, <1>4, RowCases
  <2>2. MarkedRows(table)[m] = [Blank EXCEPT !.mark = TRUE]
    BY <1>4 DEF MarkedRows
  <2> QED BY <1>2, <1>4, <2>1, <2>2 DEF Absent, Blank
<1>5. CASE m \in Fixable /\ table[m].res # "ABSENT"
  <2>1. table[m] \in Entry
    BY <1>1, <1>5, RowCases
  <2>2. MarkedRows(table)[m] = [table[m] EXCEPT !.mark = TRUE]
    BY <1>5 DEF MarkedRows
  <2>3. /\ MarkedRows(table)[m].susp = table[m].susp
        /\ MarkedRows(table)[m].opt = table[m].opt
        /\ MarkedRows(table)[m].res = table[m].res
    BY <2>1, <2>2 DEF Entry
  <2> QED BY <1>2, <2>3
<1> QED BY <1>3, <1>4, <1>5

(* A failed fix of n adds n's own suspicion, of n's direct dependencies.   *)
LEMMA SuspectedOrigins ==
  ASSUME NEW mem \in Memory, NEW n \in Nodes, NEW m \in Nodes
  PROVE  /\ Suspected(mem, n)[m].susp \subseteq mem[m].susp \cup {n}
         /\ m \notin Deps[n] => Suspected(mem, n)[m].susp = mem[m].susp
         /\ Suspected(mem, n)[m].opt = mem[m].opt
<1>1. mem[m] \in Entry
  BY DEF Memory
<1>2. CASE m \in NewlySuspect(mem, n)
  <2>1. Suspected(mem, n)[m] = [mem[m] EXCEPT !.susp = @ \cup {n}]
    BY <1>2 DEF Suspected
  <2> QED BY <1>1, <1>2, <2>1 DEF Entry, NewlySuspect
<1>3. CASE m \notin NewlySuspect(mem, n)
  BY <1>3 DEF Suspected
<1> QED BY <1>2, <1>3
==============================================================================
