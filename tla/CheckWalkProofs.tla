--------------------------- MODULE CheckWalkProofs ----------------------------
(***************************************************************************)
(* What a check walk's OK is worth, and what it does to the marks of those *)
(* that must be fixed, for every DAG, scan order and initial dataset.      *)
(***************************************************************************)
EXTENDS CheckWalk, NodeStateProofs

(* The part of TypeOK that the argument needs. *)
Types ==
  /\ mem \in Memory /\ table \in Table /\ copy \in Table /\ late \in SUBSET Nodes
  /\ pos \in 1..(Len(Order) + 1)
  /\ pc \in {"idle", "look", "measure", "publish", "returned", "guessed", "once"}
  /\ pc \in {"measure", "publish", "once"} => pos <= Len(Order)

Good(n) == mem[n].res = "OK" /\ mem[n].susp = {}

(* What is about to be published has been recorded. *)
Measured == pc \in {"publish", "once"} => mem[cur].res \in Results /\ mem[cur].susp = {}

(* Unless the verdict is bad already, all that the walk has passed is good.*)
PassedGood ==
  /\ pc \in {"look", "measure", "publish"} /\ verdict = {} =>
       \A i \in 1..Len(Order) : i < pos => Good(Order[i])
  /\ pc = "returned" /\ verdict = {} => \A i \in 1..Len(Order) : Good(Order[i])

(* What memory says of the mark of n will do as the mark of its row.       *)
Known(n, row) == row.mark /\ n \notin late => mem[n].mark

(* A mark in the dataset is in memory too, unless memory would be read     *)
(* from the dataset first, or others have set it since; of the node in     *)
(* hand it has been.  Between reading the dataset and writing it back, the *)
(* copy has the marks as well.                                             *)
MarksRecalled ==
  /\ \A n \in Nodes : mem[n].mark \/ table[n].mark \/ copy[n].mark => n \in Fixable
  /\ \A n \in Nodes : mem[n].res # "NONE" => Known(n, table[n])
  /\ pc = "measure" => Known(cur, table[cur])
  /\ pc \in {"publish", "once"} =>
       \A n \in Nodes : /\ n # cur /\ table[n].mark /\ n \notin late => copy[n].mark
                        /\ mem[n].res # "NONE" => Known(n, copy[n])

WalkInv == Types /\ Measured /\ PassedGood
IInv == WalkInv /\ MarksRecalled

(* What a step may do to the marks.                                        *)
Spared == \A n \in Nodes : table[n].mark /\ ~table'[n].mark => n \in late \/ OthersWrite(n)

LEMMA CurIsNode ==
  ASSUME Types, pos <= Len(Order)
  PROVE  /\ pos \in 1..Len(Order) /\ cur \in Nodes
         /\ \A i \in 1..Len(Order) : Order[i] \in Nodes /\ (Order[i] = cur => i = pos)
<1>1. Order \in Seq(Nodes) /\ Len(Order) \in Nat
  BY CheckAssumption
<1>2. pos \in 1..Len(Order)
  BY <1>1 DEF Types
<1>3. \A i \in 1..Len(Order) : Order[i] \in Nodes
  BY <1>1
<1>4. \A i, j \in 1..Len(Order) : Order[i] = Order[j] => i = j
  BY CheckAssumption
<1> QED BY <1>2, <1>3, <1>4 DEF cur

(* No row, no mark. *)
LEMMA NoCopyFacts == NoCopy \in Table /\ \A n \in Nodes : ~NoCopy[n].mark
BY BlankIsEntry DEF NoCopy, Table, Absent, Blank

(* A measurement of n is recorded, and the dataset read: n is good if it   *)
(* was OK, nothing else is spoilt, and the copy has the marks of the rest. *)
LEMMA RecordKeeps ==
  ASSUME Types, NEW n \in Nodes, NEW r \in Results, Record(n, r)
  PROVE  /\ mem' \in Memory /\ copy' \in Table /\ late' \in SUBSET Nodes
         /\ mem'[n].res = r /\ mem'[n].susp = {}
         /\ \A m \in Nodes : mem'[m].mark = mem[m].mark
         /\ \A m \in Nodes : m # n /\ Good(m) => Good(m)'
         /\ \A m \in Nodes : m # n => mem'[m].res = mem[m].res
         /\ ~copy'[n].mark /\ \A m \in Nodes : m # n => copy'[m] = table[m]
         /\ \A m \in Nodes : m \in late' <=> m \in late /\ mem'[m].res # "NONE"
<1>1. /\ mem' = Recorded(mem, n, r, FALSE)
      /\ copy' = [table EXCEPT ![n] = Absent]
      /\ late' = {m \in late : mem'[m].res # "NONE"}
  BY DEF Record
<1>2. /\ mem' \in Memory /\ mem'[n].res = r /\ mem'[n].susp = {}
      /\ \A m \in Nodes : /\ mem'[m].mark = mem[m].mark
                          /\ mem'[m].susp \subseteq mem[m].susp
                          /\ m # n => mem'[m].res = mem[m].res
  <2>0. PICK t \in BOOLEAN : t = FALSE
    OBVIOUS
  <2>1. mem \in Memory /\ mem' = Recorded(mem, n, r, t)
    BY <1>1, <2>0 DEF Types
  <2> QED BY <2>1, RecordedAny
<1>3. /\ copy' \in Table /\ ~copy'[n].mark
      /\ \A m \in Nodes : m # n => copy'[m] = table[m]
  BY <1>1, BlankIsEntry DEF Types, Table, Absent, Blank
<1>4. late' \in SUBSET Nodes
  BY <1>1 DEF Types
<1> QED BY <1>1, <1>2, <1>3, <1>4 DEF Good

(* What others may have left of n is a row, and marked only if n can be    *)
(* fixed.                                                                  *)
LEMMA LeftFacts ==
  ASSUME NEW n \in Nodes, NEW row \in Left(n)
  PROVE  row \in Row /\ (row.mark => n \in Fixable)
<1>1. row \in RowsOf(n)
  BY DEF Left
<1>2. row \in Row
  BY <1>1, RowsAreRows
<1>3. row.mark => n \in Fixable
  BY <1>1 DEF RowsOf, Absent, Blank
<1> QED BY <1>2, <1>3

LEMMA IInvInit == Init => IInv
<1> SUFFICES ASSUME Init PROVE IInv
  OBVIOUS
<1>1. mem \in Memory
  BY BlankIsEntry DEF Init, Memory
<1>2. ASSUME NEW n \in Nodes PROVE table[n] \in Row /\ (table[n].mark => n \in Fixable)
  BY LeftFacts DEF Init
<1>3. table \in Table
  <2>1. table = [n \in Nodes |-> table[n]]
    BY DEF Init
  <2> QED BY <1>2, <2>1 DEF Table
<1>4. Types
  BY <1>1, <1>3, NoCopyFacts, CheckAssumption DEF Types, Init
<1>5. MarksRecalled
  BY <1>2, NoCopyFacts DEF Init, MarksRecalled, Blank
<1> QED BY <1>4, <1>5 DEF IInv, WalkInv, Measured, PassedGood, Init

-------------------------------------------------------------------------------
(* The steps. *)

LEMMA LookStep ==
  ASSUME WalkInv, Look
  PROVE  WalkInv' /\ (MarksRecalled => MarksRecalled')
<1>1. Types /\ pos <= Len(Order) /\ Len(Order) \in Nat
  BY CheckAssumption DEF WalkInv, Look
<1>2. /\ pos \in 1..Len(Order) /\ cur \in Nodes
      /\ \A i \in 1..Len(Order) : Order[i] \in Nodes /\ (Order[i] = cur => i = pos)
  BY <1>1, CurIsNode
<1>3. PICK h : h = Hydrated(mem[cur], table[cur])
  OBVIOUS
<1>4. PICK e : e = Aged(h)
  OBVIOUS
<1>5. PICK k \in Nodes : k = cur
  BY <1>2
<1>6. mem[k] \in Entry /\ table[k] \in Row
  BY <1>1 DEF Types, Memory, Table
<1>7. /\ h \in Entry /\ h.res \in {mem[k].res, table[k].res}
      /\ mem[k].res # "NONE" \/ table[k].res = "ABSENT" => h = mem[k]
      /\ mem[k].res = "NONE" /\ table[k].res # "ABSENT" => h.mark = table[k].mark
  BY <1>3, <1>5, <1>6, HydratedProperties, HydratedOrigins
<1>8. /\ e \in Entry /\ e.mark = h.mark /\ e.susp = h.susp
      /\ e.res = "NONE" <=> h.res = "NONE"
      /\ Guess(e) = "OK" <=> e.res = "OK" /\ e.susp = {}
  BY <1>4, <1>7, AgedProperties
<1>9. /\ mem' = [mem EXCEPT ![k] = e] /\ table' = table /\ verdict' = verdict
      /\ \/ pc' = "measure" /\ pos' = pos
         \/ Guess(e) = "OK" /\ pc' = "look" /\ pos' = pos + 1
  BY <1>3, <1>4, <1>5 DEF Look
<1>10. mem' \in Memory /\ mem'[k] = e /\ \A n \in Nodes : n # k => mem'[n] = mem[n]
  BY <1>1, <1>8, <1>9 DEF Types, Memory
<1>11. /\ copy' = copy
       /\ k \in late' => mem[k].res # "NONE" /\ k \in late
       /\ k \in late /\ mem[k].res # "NONE" => k \in late'
       /\ late' \in SUBSET Nodes /\ \A n \in Nodes : n # k => (n \in late' <=> n \in late)
  <2>1. copy' = copy /\ late' = IF mem[k].res = "NONE" THEN late \ {k} ELSE late
    BY <1>5 DEF Look, Read
  <2> QED BY <1>1, <2>1 DEF Types
<1>15. Types' /\ Measured'
  <2>1. pos' \in 1..(Len(Order) + 1) /\ pc' \in {"look", "measure"}
        /\ (pc' = "measure" => pos' <= Len(Order))
    BY <1>1, <1>2, <1>9
  <2>2. table' \in Table /\ copy' \in Table
    BY <1>1, <1>9, <1>11 DEF Types
  <2> QED BY <1>10, <1>11, <2>1, <2>2 DEF Types, Measured
<1>12. PassedGood'
  <2> SUFFICES ASSUME verdict = {}, NEW i \in 1..Len(Order), i < pos'
               PROVE  Good(Order[i])'
    BY <1>9 DEF PassedGood
  <2>1. CASE i < pos
    <3>1. Good(Order[i]) /\ Order[i] # k /\ Order[i] \in Nodes
      BY <1>2, <1>5, <2>1 DEF WalkInv, PassedGood, Look
    <3> QED BY <1>10, <3>1 DEF Good
  <2>2. CASE i = pos
    <3>1. Guess(e) = "OK" /\ Order[i] = k
      BY <1>2, <1>5, <1>9, <2>2 DEF cur
    <3> QED BY <1>8, <1>10, <3>1 DEF Good
  <2> QED BY <1>2, <1>9, <2>1, <2>2
<1>13. ASSUME MarksRecalled
       PROVE  (table[k].mark /\ k \notin late' => e.mark) /\ (e.mark => k \in Fixable)
  <2>1. table[k].mark => table[k].res # "ABSENT"
    BY <1>6, RowCases DEF Absent, Blank
  <2> QED BY <1>7, <1>8, <1>11, <1>13, <2>1 DEF MarksRecalled, Known
<1>14. ASSUME MarksRecalled PROVE MarksRecalled'
  <2>1. \A n \in Nodes : mem'[n].mark \/ table'[n].mark \/ copy'[n].mark => n \in Fixable
    <3>1. \A n \in Nodes : mem[n].mark \/ table[n].mark \/ copy[n].mark => n \in Fixable
      BY <1>14 DEF MarksRecalled
    <3>2. table' = table /\ copy' = copy
      BY <1>9, <1>11
    <3>3. e.mark => k \in Fixable
      BY <1>13, <1>14
    <3> QED BY <1>10, <3>1, <3>2, <3>3
  <2>2. \A n \in Nodes : mem'[n].res # "NONE" => Known(n, table[n])'
    BY <1>9, <1>10, <1>11, <1>13, <1>14 DEF MarksRecalled, Known
  <2>3. pc' = "measure" => Known(cur, table[cur])'
    <3> SUFFICES ASSUME pc' = "measure" PROVE Known(cur, table[cur])'
      OBVIOUS
    <3>1. cur' = k /\ table' = table
      BY <1>5, <1>9 DEF cur
    <3>2. table[k].mark /\ k \notin late' => mem'[k].mark
      BY <1>10, <1>13, <1>14
    <3> QED BY <3>1, <3>2 DEF Known
  <2> QED BY <1>9, <2>1, <2>2, <2>3 DEF MarksRecalled
<1> QED BY <1>12, <1>14, <1>15 DEF WalkInv

LEMMA MeasureStep ==
  ASSUME WalkInv, Measure
  PROVE  WalkInv' /\ (MarksRecalled => MarksRecalled')
<1>1. Types /\ pos <= Len(Order) /\ pc = "measure"
  BY DEF WalkInv, Measure, Types
<1>2. /\ pos \in 1..Len(Order) /\ cur \in Nodes
      /\ \A i \in 1..Len(Order) : Order[i] \in Nodes /\ (Order[i] = cur => i = pos)
  BY <1>1, CurIsNode
<1>3. PICK r \in Results : Record(cur, r)
  BY DEF Measure
<1>4. PICK k \in Nodes : k = cur
  BY <1>2
<1>5. /\ mem' \in Memory /\ copy' \in Table /\ late' \in SUBSET Nodes
      /\ mem'[k].res = r /\ mem'[k].susp = {}
      /\ \A m \in Nodes : mem'[m].mark = mem[m].mark
      /\ \A m \in Nodes : m # k /\ Good(m) => Good(m)'
      /\ \A m \in Nodes : m # k => mem'[m].res = mem[m].res
      /\ ~copy'[k].mark /\ \A m \in Nodes : m # k => copy'[m] = table[m]
      /\ \A m \in Nodes : m \in late' <=> m \in late /\ mem'[m].res # "NONE"
  BY <1>1, <1>3, <1>4, RecordKeeps
<1>6. pc' = "publish" /\ UNCHANGED <<table, pos, verdict>>
  BY DEF Measure
<1>7. cur' = k
  BY <1>4, <1>6 DEF cur
<1>8. Types' /\ Measured'
  <2>1. Measured'
    BY <1>5, <1>7 DEF Measured
  <2>2. table' \in Table /\ pos' \in 1..(Len(Order) + 1) /\ pos' <= Len(Order)
    BY <1>1, <1>6 DEF Types
  <2> QED BY <1>5, <1>6, <2>1, <2>2 DEF Types
<1>9. PassedGood'
  <2> SUFFICES ASSUME verdict = {}, NEW i \in 1..Len(Order), i < pos PROVE Good(Order[i])'
    BY <1>6 DEF PassedGood
  <2>1. Good(Order[i]) /\ Order[i] # k /\ Order[i] \in Nodes
    BY <1>1, <1>2, <1>4 DEF WalkInv, PassedGood
  <2>2. PICK m \in Nodes : m = Order[i]
    BY <2>1
  <2>3. Good(m)'
    BY <1>5, <2>1, <2>2
  <2> QED BY <2>2, <2>3
<1>10. ASSUME MarksRecalled PROVE MarksRecalled'
  <2>1. \A n \in Nodes : mem'[n].mark \/ table'[n].mark \/ copy'[n].mark => n \in Fixable
    BY <1>5, <1>6, <1>10 DEF MarksRecalled
  <2>2. \A n \in Nodes : mem'[n].res # "NONE" => Known(n, table[n])'
    BY <1>1, <1>4, <1>5, <1>6, <1>10 DEF MarksRecalled, Known
  <2>3. \A n \in Nodes : /\ n # k /\ table'[n].mark /\ n \notin late' => copy'[n].mark
                         /\ mem'[n].res # "NONE" => Known(n, copy[n])'
    <3> SUFFICES ASSUME NEW n \in Nodes
                 PROVE  /\ n # k /\ table'[n].mark /\ n \notin late' => copy'[n].mark
                        /\ mem'[n].res # "NONE" => Known(n, copy[n])'
      OBVIOUS
    <3>1. CASE n = k
      BY <1>5, <3>1 DEF Known
    <3>2. CASE n # k
      <4>1. copy'[n] = table[n]
        BY <1>5, <3>2
      <4> QED BY <1>6, <2>2, <3>2, <4>1 DEF Known
    <3> QED BY <3>1, <3>2
  <2> QED BY <1>6, <1>7, <2>1, <2>2, <2>3 DEF MarksRecalled
<1> QED BY <1>8, <1>9, <1>10 DEF WalkInv

(* Only here is the dataset written.                                       *)
LEMMA PublishStep ==
  ASSUME WalkInv, Publish
  PROVE  WalkInv' /\ (MarksRecalled => MarksRecalled' /\ Spared)
<1>1. Types /\ Measured /\ pos <= Len(Order) /\ pc \in {"publish", "once"}
  BY DEF WalkInv, Publish, Types
<1>2. /\ pos \in 1..Len(Order) /\ cur \in Nodes
      /\ \A i \in 1..Len(Order) : Order[i] \in Nodes /\ (Order[i] = cur => i = pos)
  BY <1>1, CurIsNode
<1>3. PICK k \in Nodes : k = cur
  BY <1>2
<1>4. mem' = mem /\ late' = late /\ table' = Published(copy, mem, {k})
  BY <1>3 DEF Publish
<1>5. mem[k].res \in Results /\ mem[k].susp = {}
  BY <1>1, <1>3 DEF Measured
<1>6. /\ table' \in Table /\ table'[k] = mem[k]
      /\ \A m \in Nodes : m # k => table'[m].mark = copy[m].mark
  <2>1. copy \in Table /\ mem \in Memory /\ {k} \in SUBSET Nodes
    BY <1>1 DEF Types
  <2> QED BY <1>4, <2>1, PublishedProperties
<1>7. \/ /\ mem[k].res # "OK" /\ pc' = "returned" /\ pos' = pos /\ verdict' # {}
      \/ /\ pc = "publish" /\ pc' = "look" /\ pos' = pos + 1
         /\ verdict' = verdict \cup ({mem[k].res} \ {"OK"})
      \/ pc' = "idle" /\ pos' = 1
  BY <1>3 DEF Publish, Proceed, EndWalk
<1>8. copy' = NoCopy
  BY DEF Publish, EndWalk
<1>9. Types' /\ Measured'
  <2>1. pc' \in {"returned", "look", "idle"} /\ pos' \in 1..(Len(Order) + 1)
    <3>1. Len(Order) \in Nat /\ Len(Order) > 0
      BY CheckAssumption
    <3> QED BY <1>2, <1>7, <3>1
  <2>2. mem' \in Memory /\ table' \in Table /\ copy' \in Table /\ late' \in SUBSET Nodes
    BY <1>1, <1>4, <1>6, <1>8, NoCopyFacts DEF Types
  <2> QED BY <2>1, <2>2 DEF Types, Measured
<1>10. PassedGood'
  <2> SUFFICES ASSUME verdict' = {}, pc' = "look", NEW i \in 1..Len(Order), i < pos'
               PROVE  Good(Order[i])
    BY <1>4, <1>7 DEF PassedGood, Good
  <2>1. verdict = {} /\ mem[k].res = "OK" /\ pos' = pos + 1 /\ pc = "publish"
    BY <1>7
  <2>2. CASE i < pos
    BY <2>1, <2>2 DEF WalkInv, PassedGood
  <2>3. CASE i = pos
    <3>1. Order[i] = k
      BY <1>3, <2>3 DEF cur
    <3> QED BY <1>5, <2>1, <3>1 DEF Good
  <2> QED BY <1>2, <2>1, <2>2, <2>3
<1>11. ASSUME MarksRecalled PROVE MarksRecalled'
  <2>1. \A n \in Nodes : mem'[n].mark \/ table'[n].mark \/ copy'[n].mark => n \in Fixable
    BY <1>4, <1>6, <1>8, <1>11, NoCopyFacts DEF MarksRecalled
  <2>2. ASSUME NEW n \in Nodes, mem'[n].res # "NONE" PROVE Known(n, table[n])'
    <3>1. CASE n = k
      BY <1>4, <1>6, <3>1 DEF Known
    <3>2. CASE n # k
      <4>1. Known(n, copy[n])
        BY <1>1, <1>4, <1>11, <2>2 DEF MarksRecalled
      <4> QED BY <1>4, <1>6, <3>2, <4>1 DEF Known
    <3> QED BY <3>1, <3>2
  <2> QED BY <1>7, <2>1, <2>2 DEF MarksRecalled
<1>12. ASSUME MarksRecalled PROVE Spared
  <2> SUFFICES ASSUME NEW n \in Nodes, table[n].mark, ~table'[n].mark PROVE n \in late
    BY DEF Spared
  <2>1. CASE n = k
    <3>1. Known(n, table[n])
      BY <1>5, <1>12, <2>1 DEF MarksRecalled, Results
    <3> QED BY <1>6, <2>1, <3>1 DEF Known
  <2>2. CASE n # k
    BY <1>1, <1>3, <1>6, <1>12, <2>2 DEF MarksRecalled
  <2> QED BY <2>1, <2>2
<1> QED BY <1>9, <1>10, <1>11, <1>12 DEF WalkInv

LEMMA RunOnceStep ==
  ASSUME WalkInv, NEW n \in Nodes, RunOnce(n)
  PROVE  WalkInv' /\ (MarksRecalled /\ Scanned \cap Fixable = {} => MarksRecalled')
<1>1. PICK r \in Results : Record(n, r)
  BY DEF RunOnce
<1>2. /\ Types /\ n \in Scanned /\ pc' = "once" /\ table' = table
      /\ pos' \in 1..Len(Order) /\ cur' = n
  BY DEF WalkInv, RunOnce
<1>3. /\ mem' \in Memory /\ copy' \in Table /\ late' \in SUBSET Nodes
      /\ mem'[n].res = r /\ mem'[n].susp = {}
      /\ \A m \in Nodes : mem'[m].mark = mem[m].mark
      /\ \A m \in Nodes : m # n => mem'[m].res = mem[m].res
      /\ ~copy'[n].mark /\ \A m \in Nodes : m # n => copy'[m] = table[m]
      /\ \A m \in Nodes : m \in late' <=> m \in late /\ mem'[m].res # "NONE"
  BY <1>1, <1>2, RecordKeeps
<1>4. Types' /\ Measured' /\ PassedGood'
  BY <1>2, <1>3, CheckAssumption DEF Types, Measured, PassedGood
<1>5. ASSUME MarksRecalled, Scanned \cap Fixable = {} PROVE MarksRecalled'
  <2>1. n \notin Fixable
    BY <1>2, <1>5
  <2>2. ASSUME NEW m \in Nodes
        PROVE  /\ mem'[m].mark \/ table'[m].mark \/ copy'[m].mark => m \in Fixable
               /\ mem'[m].res # "NONE" => Known(m, table[m])' /\ Known(m, copy[m])'
               /\ m # n /\ table'[m].mark /\ m \notin late' => copy'[m].mark
    <3>1. /\ mem[m].mark \/ table[m].mark => m \in Fixable
          /\ mem[m].res # "NONE" => Known(m, table[m])
      BY <1>5 DEF MarksRecalled
    <3>2. CASE m = n
      BY <1>2, <1>3, <2>1, <3>1, <3>2 DEF Known
    <3>3. CASE m # n
      <4>1. copy'[m] = table[m] /\ mem'[m].mark = mem[m].mark /\ mem'[m].res = mem[m].res
            /\ (m \in late' <=> m \in late /\ mem'[m].res # "NONE")
        BY <1>3, <3>3
      <4> QED BY <1>2, <3>1, <4>1 DEF Known
    <3> QED BY <3>2, <3>3
  <2> QED BY <1>2, <2>2 DEF MarksRecalled
<1> QED BY <1>4, <1>5 DEF WalkInv

LEMMA LapseStep ==
  ASSUME WalkInv, NEW n \in Nodes, Lapse(n)
  PROVE  WalkInv' /\ (MarksRecalled => MarksRecalled' /\ Spared)
<1> DEFINE Old(e) == IF e.res \in {"NONE", "ABSENT"} THEN e ELSE [e EXCEPT !.stale = TRUE]
<1>1. /\ Types /\ UNCHANGED <<pc, pos, verdict, late>>
      /\ mem' = [mem EXCEPT ![n] = Old(mem[n])]
      /\ table' = [table EXCEPT ![n] = Old(table[n])]
      /\ copy' = [copy EXCEPT ![n] = Old(copy[n])]
  BY DEF WalkInv, Lapse
<1>2. ASSUME NEW e \in Entry
      PROVE  Old(e) \in Entry /\ Old(e).mark = e.mark /\ Old(e).res = e.res /\ Old(e).susp = e.susp
  BY DEF Entry
<1>3. ASSUME NEW row \in Row PROVE Old(row) \in Row /\ Old(row).mark = row.mark
  <2>1. CASE row \in Entry
    BY <1>2, <2>1 DEF Row
  <2>2. CASE row = Absent
    BY <2>2 DEF Absent, Blank
  <2> QED BY <2>1, <2>2 DEF Row
<1> HIDE DEF Old
<1>4. mem' \in Memory /\ \A m \in Nodes : /\ mem'[m].mark = mem[m].mark
                                          /\ mem'[m].res = mem[m].res
                                          /\ mem'[m].susp = mem[m].susp
  BY <1>1, <1>2 DEF Types, Memory
<1>5. table' \in Table /\ \A m \in Nodes : table'[m].mark = table[m].mark
  BY <1>1, <1>3 DEF Types, Table
<1>6. copy' \in Table /\ \A m \in Nodes : copy'[m].mark = copy[m].mark
  BY <1>1, <1>3 DEF Types, Table
<1>7. pc \in {"measure", "publish", "once"} => cur \in Nodes
  BY <1>1, CurIsNode DEF Types
<1>8. cur' = cur
  BY <1>1 DEF cur
<1>9. Types' /\ Measured'
  BY <1>1, <1>4, <1>5, <1>6, <1>7, <1>8 DEF WalkInv, Types, Measured
<1>10. PassedGood'
  <2>1. \A m \in Nodes : Good(m) => Good(m)'
    BY <1>4 DEF Good
  <2>2. \A i \in 1..Len(Order) : Order[i] \in Nodes
    BY CheckAssumption
  <2>3. \A i \in 1..Len(Order) : Good(Order[i]) => Good(Order[i])'
    BY <2>1, <2>2
  <2> QED BY <1>1, <2>3 DEF WalkInv, PassedGood
<1>11. ASSUME MarksRecalled PROVE MarksRecalled'
  BY <1>1, <1>4, <1>5, <1>6, <1>7, <1>8, <1>11 DEF MarksRecalled, Known
<1>12. Spared
  BY <1>5 DEF Spared
<1> QED BY <1>9, <1>10, <1>11, <1>12 DEF WalkInv

LEMMA OthersWriteStep ==
  ASSUME WalkInv, NEW n \in Nodes, OthersWrite(n)
  PROVE  WalkInv' /\ (MarksRecalled => MarksRecalled' /\ Spared)
<1>1. PICK row \in Left(n) :
        /\ table' = [table EXCEPT ![n] = row]
        /\ late' = IF row.mark /\ ~table[n].mark THEN late \cup {n} ELSE late
  BY DEF OthersWrite
<1>2. Types /\ UNCHANGED <<mem, pc, pos, verdict, copy>>
  BY DEF WalkInv, OthersWrite
<1>3. row \in Row /\ (row.mark => n \in Fixable)
  BY LeftFacts
<1>4. table' \in Table /\ table'[n] = row /\ \A m \in Nodes : m # n => table'[m] = table[m]
  BY <1>1, <1>2, <1>3 DEF Types, Table
<1>5. /\ late' \in SUBSET Nodes /\ late \subseteq late'
      /\ \A m \in Nodes : m \in late' => m \in late \/ m = n
      /\ row.mark /\ n \notin late' => table[n].mark
  BY <1>1, <1>2 DEF Types
<1>6. Types' /\ Measured' /\ PassedGood'
  <2>1. cur' = cur
    BY <1>2 DEF cur
  <2> QED BY <1>2, <1>4, <1>5, <2>1 DEF WalkInv, Types, Measured, PassedGood, Good
<1>7. ASSUME MarksRecalled PROVE MarksRecalled'
  <2>1. \A m \in Nodes : mem'[m].mark \/ table'[m].mark \/ copy'[m].mark => m \in Fixable
    BY <1>2, <1>3, <1>4, <1>7 DEF MarksRecalled
  <2>2. \A m \in Nodes : table'[m].mark /\ m \notin late' => table[m].mark /\ m \notin late
    BY <1>4, <1>5
  <2>3. /\ \A m \in Nodes : mem[m].res # "NONE" => Known(m, table[m])
        /\ pc = "measure" => cur \in Nodes /\ Known(cur, table[cur])
        /\ pc \in {"publish", "once"} =>
             \A m \in Nodes : /\ m # cur /\ table[m].mark /\ m \notin late => copy[m].mark
                              /\ mem[m].res # "NONE" => Known(m, copy[m])
    BY <1>2, <1>7, CurIsNode DEF MarksRecalled, Types
  <2>4. cur' = cur /\ late \subseteq late'
    BY <1>2, <1>5 DEF cur
  <2> QED BY <1>2, <2>1, <2>2, <2>3, <2>4 DEF MarksRecalled, Known
<1>8. Spared
  <2> SUFFICES ASSUME NEW m \in Nodes, table[m].mark, ~table'[m].mark PROVE OthersWrite(m)
    BY DEF Spared
  <2>1. m = n
    BY <1>4
  <2> QED BY <2>1
<1> QED BY <1>6, <1>7, <1>8 DEF WalkInv

LEMMA GuessStep ==
  ASSUME WalkInv, GuessState
  PROVE  WalkInv' /\ (MarksRecalled => MarksRecalled')
<1>1. Types /\ Order # <<>> /\ Order \in Seq(Nodes) /\ Len(Order) \in Nat
  BY CheckAssumption DEF WalkInv
<1>2. PICK k \in Nodes : k = Head(Order)
  BY <1>1
<1>3. PICK h : h = Hydrated(mem[k], table[k])
  OBVIOUS
<1>4. mem[k] \in Entry /\ table[k] \in Row
  BY <1>1 DEF Types, Memory, Table
<1>5. /\ h \in Entry
      /\ mem[k].res # "NONE" \/ table[k].res = "ABSENT" => h = mem[k]
      /\ mem[k].res = "NONE" /\ table[k].res # "ABSENT" => h.mark = table[k].mark
  BY <1>3, <1>4, HydratedProperties, HydratedOrigins
<1>6. Aged(h) \in Entry /\ Aged(h).mark = h.mark
  BY <1>5, AgedProperties
<1>7. /\ mem' = [mem EXCEPT ![k] = Aged(h)] /\ table' = table /\ copy' = copy
      /\ pc' = "guessed" /\ pos' = 1
      /\ late' = IF mem[k].res = "NONE" THEN late \ {k} ELSE late
  BY <1>2, <1>3 DEF GuessState, Read
<1>8. mem' \in Memory /\ mem'[k] = Aged(h) /\ \A n \in Nodes : n # k => mem'[n] = mem[n]
  BY <1>1, <1>6, <1>7 DEF Types, Memory
<1>9. Types' /\ Measured' /\ PassedGood'
  BY <1>1, <1>7, <1>8 DEF Types, Measured, PassedGood
<1>10. table[k].mark => table[k].res # "ABSENT"
  BY <1>4, RowCases DEF Absent, Blank
<1>11. ASSUME MarksRecalled PROVE MarksRecalled'
  <2>1. (table[k].mark /\ k \notin late' => Aged(h).mark) /\ (Aged(h).mark => k \in Fixable)
    BY <1>5, <1>6, <1>7, <1>10, <1>11 DEF MarksRecalled, Known
  <2>2. \A n \in Nodes : n # k => (n \in late' <=> n \in late)
    BY <1>7
  <2> QED BY <1>7, <1>8, <1>11, <2>1, <2>2 DEF MarksRecalled, Known
<1> QED BY <1>9, <1>11 DEF WalkInv

(* All other steps. *)
LEMMA OtherStep ==
  ASSUME WalkInv, StartWalk \/ Raise \/ Finish \/ Restart \/ UNCHANGED vars
  PROVE  WalkInv' /\ table' = table /\ (MarksRecalled => MarksRecalled')
<1>0. Len(Order) \in Nat /\ Order # <<>> /\ Order \in Seq(Nodes)
  BY CheckAssumption
<1>1. CASE StartWalk \/ Raise \/ Finish
  <2>1. UNCHANGED <<mem, table, late>> /\ copy' \in {copy, NoCopy}
    BY <1>1 DEF StartWalk, Raise, Finish, EndWalk
  <2>2. pc' \notin {"measure", "publish", "once"} /\ pos' \in {pos, 1}
        /\ pc' \in {"look", "idle", "returned"}
    BY <1>1 DEF StartWalk, Raise, Finish, EndWalk
  <2>3. Types' /\ Measured'
    BY <1>0, <2>1, <2>2, NoCopyFacts DEF WalkInv, Types, Measured
  <2>4. ASSUME StartWalk PROVE PassedGood'
    <3>1. pc' = "look" /\ \A i \in 1..Len(Order) : ~(i < pos')
      BY <1>0, <2>4 DEF StartWalk
    <3> QED BY <3>1, <2>1 DEF PassedGood
  <2>5. ASSUME Raise PROVE PassedGood'
    BY <2>5 DEF Raise, EndWalk, PassedGood
  <2>6. ASSUME Finish PROVE PassedGood'
    <3>1. /\ pc = "look" /\ pc' = "returned" /\ verdict' = verdict
          /\ \A i \in 1..Len(Order) : i < pos
      BY <1>0, <2>6 DEF Finish, WalkInv, Types
    <3>2. verdict = {} => \A i \in 1..Len(Order) : Good(Order[i])
      BY <3>1 DEF WalkInv, PassedGood
    <3>3. \A n : Good(n)' <=> Good(n)
      BY <2>1 DEF Good
    <3> QED BY <3>1, <3>2, <2>1 DEF PassedGood, Good
  <2>7. PassedGood'
    BY <1>1, <2>4, <2>5, <2>6
  <2>8. MarksRecalled => MarksRecalled'
    BY <2>1, <2>2, NoCopyFacts DEF MarksRecalled, Known
  <2> QED BY <2>1, <2>3, <2>7, <2>8 DEF WalkInv
<1>2. CASE Restart
  <2>1. /\ mem' = [n \in Nodes |-> Blank] /\ late' = {} /\ table' = table
        /\ copy' = NoCopy /\ pc' = "idle" /\ pos' = 1
    BY <1>2 DEF Restart, EndWalk
  <2>2. mem' \in Memory
    BY <2>1, BlankIsEntry DEF Memory
  <2>3. WalkInv'
    BY <1>0, <2>1, <2>2, NoCopyFacts DEF WalkInv, Types, Measured, PassedGood
  <2>4. MarksRecalled => MarksRecalled'
    BY <2>1, NoCopyFacts DEF MarksRecalled, Blank
  <2> QED BY <2>1, <2>3, <2>4
<1>3. CASE UNCHANGED vars
  <2>1. UNCHANGED <<mem, table, pc, pos, verdict, copy, late>> /\ cur' = cur
    BY <1>3 DEF vars, cur
  <2> QED BY <2>1 DEF WalkInv, Types, Measured, PassedGood, Good, MarksRecalled, Known
<1> QED BY <1>1, <1>2, <1>3

LEMMA WalkInvStep == WalkInv /\ [Next]_vars => WalkInv'
BY LookStep, MeasureStep, PublishStep, RunOnceStep, LapseStep, OthersWriteStep, GuessStep,
   OtherStep DEF Next

LEMMA IInvStep ==
  ASSUME Scanned \cap Fixable = {}
  PROVE  IInv /\ [Next]_vars => IInv' /\ Spared
<1> SUFFICES ASSUME IInv, [Next]_vars PROVE IInv' /\ Spared
  OBVIOUS
<1> USE DEF IInv
<1>1. CASE Publish \/ \E n \in Nodes : Lapse(n) \/ OthersWrite(n)
  BY <1>1, PublishStep, LapseStep, OthersWriteStep
<1>2. CASE Look \/ Measure \/ GuessState \/ \E n \in Nodes : RunOnce(n)
  <2>1. table' = table
    BY <1>2 DEF Look, Measure, GuessState, RunOnce
  <2>2. Spared
    BY <2>1 DEF Spared
  <2> QED BY <1>2, <2>2, LookStep, MeasureStep, GuessStep, RunOnceStep
<1>3. CASE StartWalk \/ Raise \/ Finish \/ Restart \/ UNCHANGED vars
  BY <1>3, OtherStep DEF Spared
<1> QED BY <1>1, <1>2, <1>3 DEF Next

-------------------------------------------------------------------------------

(* A check walk's OK is backed by every node below it, by a cached check   *)
(* that nobody doubts or by a measurement (calibration.py 1092-1110).      *)
THEOREM OkMeansGoodHolds == Spec => []OkMeansGood
<1>1. Init => WalkInv
  BY IInvInit DEF IInv
<1>2. WalkInv => OkMeansGood
  <2> SUFFICES ASSUME WalkInv, pc = "returned", verdict = {}, NEW n \in Nodes PROVE Good(n)
    BY DEF OkMeansGood, Good
  <2>1. PICK i \in 1..Len(Order) : Order[i] = n
    BY CheckAssumption
  <2> QED BY <2>1 DEF WalkInv, PassedGood
<1> QED BY <1>1, <1>2, WalkInvStep, PTL DEF Spec

(* No check takes an UNCALIBRATED mark from the dataset, in whatever       *)
(* process, after whatever restarts and whatever others write meanwhile,   *)
(* but one that they have set since this process last read the row; if no  *)
(* calibration that can be fixed is also scanned as an experiment          *)
(* (1064-1067, 1500-1501, 1548-1581).                                      *)
THEOREM ChecksKeepMarksHolds ==
  ASSUME Scanned \cap Fixable = {}
  PROVE  Spec => ChecksKeepMarks
<1>1. IInv /\ [Next]_vars =>
        [\A n \in Nodes : table[n].mark /\ ~table'[n].mark => n \in late \/ OthersWrite(n)]_vars
  BY IInvStep DEF Spared
<1> QED BY <1>1, IInvInit, IInvStep, PTL DEF Spec, ChecksKeepMarks
==============================================================================
