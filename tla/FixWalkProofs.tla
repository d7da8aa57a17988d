---------------------------- MODULE FixWalkProofs ----------------------------
(***************************************************************************)
(* Theorems about the fix walk, for every DAG, scan order and budget: that *)
(* its walks end settled and honour orders to re-fix, and what they leave  *)
(* in memory and in the status dataset (whose suspicions, whose marks and  *)
(* stamps), as far as nobody else writes the dataset, and what is left of  *)
(* that if others do; and that a walk keeps the contract, step by step.    *)
(***************************************************************************)
EXTENDS WalkRefinement, NodeStateProofs

(* Every position of the scan order holds a node, and no two the same.     *)
LEMMA OrderFacts ==
  /\ Len(Order) \in Nat
  /\ \A i \in 1..Len(Order) : Order[i] \in Nodes
  /\ \A i, j \in 1..Len(Order) : Order[i] = Order[j] => i = j
  /\ \A n \in Nodes : \E i \in 1..Len(Order) : Order[i] = n
BY OrderAssumption

-------------------------------------------------------------------------------
(* Type correctness. *)

LEMMA TypeInit == Init => TypeOK
<1> SUFFICES ASSUME Init PROVE TypeOK
  OBVIOUS
<1>1. mem \in [Nodes -> Entry] /\ table \in [Nodes -> Row]
  BY BlankIsEntry DEF Init
<1>2. pos \in 1..(Len(Order) + 1)
  BY OrderFacts DEF Init
<1> QED BY <1>1, <1>2 DEF Init, TypeOK, Walking, Stopped

(* Where the walk has a current node, it is a node. *)
LEMMA CurIsNode == TypeOK /\ pos <= Len(Order) => cur \in Nodes
BY OrderFacts DEF TypeOK, cur

(* Recording a check keeps memory and table well-formed. *)
LEMMA RecordCheckType ==
  ASSUME TypeOK, NEW n \in Nodes, NEW r \in {"OK", "BAD"}, NEW t \in BOOLEAN,
         RecordCheck(n, r, t)
  PROVE  mem' \in [Nodes -> Entry] /\ table' \in [Nodes -> Row]
<1>1. mem \in Memory /\ table \in Table
  BY DEF TypeOK, Memory, Table
<1>2. mem' \in Memory
  BY <1>1, RecordedProperties DEF RecordCheck
<1>3. Published(table, mem', {n}) \in Table
  BY <1>1, <1>2, PublishedProperties
<1> QED BY <1>1, <1>2, <1>3 DEF RecordCheck, WriteTable, Memory, Table

LEMMA FailedAttemptType ==
  ASSUME TypeOK, NEW n \in Nodes, pos <= Len(Order), FailedAttempt(n)
  PROVE  TypeOK'
<1> DEFINE m1 == Recorded(mem, n, "BAD", FALSE)
           m2 == Reviewed(m1, table, n)
           m3 == Suspected(m2, n)
           newly == NewlySuspect(m2, n)
           t1 == Published(table, m1, {n})
           t2 == Published(t1, m3, newly)
<1>1. mem \in Memory /\ table \in Table
  BY DEF TypeOK, Memory, Table
<1>2. m1 \in Memory
  BY <1>1, RecordedProperties
<1>3. m2 \in Memory
  BY <1>1, <1>2, ReviewedProperties
<1>4. m3 \in Memory /\ newly \in SUBSET Nodes
  BY <1>3, SuspectedProperties, GraphAssumption
<1>5. t1 \in Table
  BY <1>1, <1>2, PublishedProperties
<1>6. t2 \in Table
  BY <1>4, <1>5, PublishedProperties
<1>7. table' \in [Nodes -> Row]
  BY <1>1, <1>6 DEF FailedAttempt, WriteTable, Table
<1>8. attempts' \in [Nodes -> Nat]
  BY WalkAssumption DEF FailedAttempt, CountAttempt, TypeOK
<1>9. /\ mem' \in [Nodes -> Entry]
      /\ pc' \in {"scan", "failed"}
      /\ pos' \in 1..(Len(Order) + 1)
      /\ blamed' \subseteq Nodes
  <2>1. CASE mem' = m3 /\ Restarted /\ blamed' \in {blamed, blamed \cup {n}}
    <3>1. mem' \in [Nodes -> Entry]
      BY <1>4, <2>1 DEF Memory
    <3>2. pc' = "scan" /\ pos' = 1 /\ 1 \in 1..(Len(Order) + 1)
      BY <2>1, OrderFacts DEF Restarted
    <3>3. blamed' \subseteq Nodes
      BY <2>1 DEF TypeOK
    <3> QED BY <3>1, <3>2, <3>3
  <2>2. CASE GiveUp(m3)
    <3>1. [m3 EXCEPT ![Target].res = "BAD", ![Target].stale = FALSE,
                     ![Target].trial = FALSE] \in Memory
      <4>1. m3[Target] \in Entry
        BY <1>4, WalkAssumption DEF Memory
      <4>2. [m3[Target] EXCEPT !.res = "BAD", !.stale = FALSE, !.trial = FALSE] \in Entry
        BY <4>1 DEF Entry, Results
      <4> QED BY <1>4, <4>2, WalkAssumption DEF Memory
    <3> QED BY <1>4, <2>2, <3>1 DEF GiveUp, TypeOK, Memory
  <2> QED BY <2>1, <2>2 DEF FailedAttempt
<1> QED BY <1>7, <1>8, <1>9 DEF FailedAttempt, TypeOK, Walking, Stopped

(* Whatever others write, the dataset stays well-formed; and that is all   *)
(* they touch.                                                             *)
LEMMA OthersWriteType ==
  ASSUME table \in Table, NEW n \in Nodes, OthersWrite(n)
  PROVE  table' \in Table /\ UNCHANGED <<mem, pc, pos, attempts, blamed, owed, forced>>
<1>1. PICK row \in RowsOf(n) : table' = [table EXCEPT ![n] = row]
  BY DEF OthersWrite
<1>2. row \in Row
  BY RowsAreRows
<1> QED BY <1>1, <1>2 DEF OthersWrite, Table

(* Every step keeps the types. *)
LEMMA TypeStep == TypeOK /\ [Next]_vars => TypeOK'
<1> SUFFICES ASSUME TypeOK, [Next]_vars PROVE TypeOK'
  OBVIOUS
<1>0. mem \in Memory /\ table \in Table
  BY DEF TypeOK, Memory, Table
<1>a. Len(Order) \in Nat /\ 1 \in 1..(Len(Order) + 1)
  BY OrderFacts
<1>b. pc \in Walking \ {"scan"} => cur \in Nodes
  BY CurIsNode DEF TypeOK
<1>1. ASSUME NEW force \in BOOLEAN, StartWalk(force) PROVE TypeOK'
  <2>1. Marked(mem) \in Memory /\ MarkedRows(table) \in Table
    BY <1>0, MarkedProperties
  <2>2. mem' \in [Nodes -> Entry] /\ table' \in [Nodes -> Row]
    BY <1>0, <1>1, <2>1 DEF StartWalk, WriteTable, Memory, Table
  <2>3. owed' \subseteq Nodes /\ forced' \subseteq owed'
    <3>1. CASE force
      <4>1. owed' = owed \cup Fixable
            /\ forced' = forced \cup {n \in Fixable : mem[n].res # "NONE"}
        BY <1>1, <3>1 DEF StartWalk
      <4> QED BY <4>1, GraphAssumption DEF TypeOK
    <3>2. CASE ~force
      BY <1>1, <3>2 DEF StartWalk, TypeOK
    <3> QED BY <3>1, <3>2
  <2>4. attempts' \in [Nodes -> Nat] /\ blamed' \subseteq Nodes
    BY <1>1 DEF StartWalk
  <2>5. pc' = "scan" /\ pos' = 1
    BY <1>1 DEF StartWalk, Restarted
  <2> QED BY <1>a, <2>2, <2>3, <2>4, <2>5 DEF TypeOK, Walking
<1>2. CASE ScanNode
  <2>1. cur \in Nodes
    BY <1>2, CurIsNode DEF ScanNode
  <2>2. mem[cur] \in Entry /\ table[cur] \in Row
    BY <1>0, <2>1 DEF Memory, Table
  <2> DEFINE e == Hydrated(mem[cur], table[cur])
  <2>3. e \in Entry /\ Aged(e) \in Entry
    BY <2>2, HydratedProperties, AgedProperties
  <2> HIDE DEF e
  <2>4. mem' \in {[mem EXCEPT ![cur] = e], [mem EXCEPT ![cur] = Aged(e)]}
    BY <1>2 DEF ScanNode, e
  <2>5. mem' \in [Nodes -> Entry]
    BY <2>1, <2>3, <2>4 DEF TypeOK
  <2>6. pc' \in {"scan", "check", "fix"} /\ pos' \in {pos, pos + 1}
        /\ (pc' # "scan" => pos' = pos) /\ pos <= Len(Order)
    BY <1>2 DEF ScanNode
  <2> QED BY <1>2, <1>a, <2>5, <2>6 DEF ScanNode, TypeOK, Walking, Stopped
<1>3. CASE Finish
  BY <1>3 DEF Finish, TypeOK, Walking, Stopped
<1>4. CASE CheckPasses \/ CheckFails
  <2>1. pc = "check" /\ cur \in Nodes /\ pos <= Len(Order)
    BY <1>4, <1>b DEF CheckPasses, CheckFails, Walking, TypeOK
  <2>2. mem' \in [Nodes -> Entry] /\ table' \in [Nodes -> Row]
    BY <1>4, <2>1, RecordCheckType DEF CheckPasses, CheckFails
  <2>3. pos' \in {pos, pos + 1} /\ pc' \in {"scan", "fix"} /\ (pc' = "fix" => pos' = pos)
    BY <1>4 DEF CheckPasses, CheckFails
  <2>4. UNCHANGED <<attempts, blamed, owed, forced>>
    BY <1>4 DEF CheckPasses, CheckFails
  <2>5. pos' \in 1..(Len(Order) + 1) /\ (pc' = "fix" => pos' <= Len(Order))
    BY <1>a, <2>1, <2>3 DEF TypeOK
  <2> QED BY <2>2, <2>3, <2>4, <2>5 DEF TypeOK, Walking, Stopped
<1>5. CASE SweepPoint
  <2>1. cur \in Nodes
    BY <1>5, <1>b DEF SweepPoint, Walking
  <2>2. mem' \in [Nodes -> Entry] /\ table' \in [Nodes -> Row]
    BY <1>5, <2>1, RecordCheckType DEF SweepPoint
  <2> QED BY <1>5, <2>2 DEF SweepPoint, TypeOK
<1>6. CASE FixReturns
  <2>1. cur \in Nodes /\ pos <= Len(Order)
    BY <1>6, <1>b DEF FixReturns, Walking, TypeOK
  <2>2. mem' \in [Nodes -> Entry] /\ table' \in [Nodes -> Row]
    BY <1>6, <2>1, RecordCheckType DEF FixReturns, TypeOK
  <2> QED BY <1>6, <2>1, <2>2 DEF FixReturns, TypeOK, Walking, Stopped
<1>7. CASE FixGivesUp \/ RecheckFails
  <2>1. cur \in Nodes /\ pos <= Len(Order) /\ FailedAttempt(cur)
    BY <1>7, <1>b DEF FixGivesUp, RecheckFails, Walking, TypeOK
  <2> QED BY <2>1, FailedAttemptType
<1>8. CASE RecheckPasses
  <2>1. cur \in Nodes /\ pos <= Len(Order)
    BY <1>8, <1>b DEF RecheckPasses, Walking, TypeOK
  <2>2. mem' \in [Nodes -> Entry] /\ table' \in [Nodes -> Row]
    BY <1>8, <2>1, RecordCheckType DEF RecheckPasses
  <2>3. attempts' \in [Nodes -> Nat]
    BY <1>8, <2>1, WalkAssumption DEF RecheckPasses, CountAttempt, TypeOK
  <2> QED BY <1>8, <2>1, <2>2, <2>3 DEF RecheckPasses, TypeOK, Walking, Stopped
<1>9. CASE StampFix
  <2>1. cur \in Nodes
    BY <1>9, <1>b DEF StampFix, Walking
  <2>2. mem[cur] \in Entry
    BY <1>0, <2>1 DEF Memory
  <2>3. [mem[cur] EXCEPT !.opt = "fresh", !.mark = FALSE] \in Entry
    BY <2>2 DEF Entry
  <2>4. mem' \in Memory
    BY <1>0, <1>9, <2>1, <2>3 DEF StampFix, Memory
  <2>5. Published(table, mem', {cur}) \in Table
    BY <1>0, <2>1, <2>4, PublishedProperties
  <2>6. table' \in [Nodes -> Row]
    BY <1>0, <1>9, <2>5 DEF StampFix, WriteTable, Table
  <2>7. pc' = "scan" /\ pos' = 1
    BY <1>9 DEF StampFix, Restarted
  <2> QED BY <1>9, <1>a, <2>4, <2>6, <2>7 DEF StampFix, TypeOK, Walking, Memory
<1>10. CASE CannotFix \/ Raise \/ Terminate
  BY <1>10 DEF CannotFix, Raise, Terminate, TypeOK, Walking, Stopped
<1>11. CASE Restart
  <2>1. mem' \in [Nodes -> Entry]
    BY <1>11, BlankIsEntry DEF Restart
  <2> QED BY <1>11, <1>a, <2>1 DEF Restart, TypeOK, Walking, Stopped
<1>12. ASSUME NEW n \in Nodes, Lapse(n) \/ FallDue(n) PROVE TypeOK'
  <2> DEFINE Stale(e) == IF e.res \in {"NONE", "ABSENT"} THEN e
                         ELSE [e EXCEPT !.stale = TRUE]
             Due(e) == IF e.opt = "fresh" THEN [e EXCEPT !.opt = "due"] ELSE e
  <2>1. mem[n] \in Entry /\ table[n] \in Row
    BY <1>0 DEF Memory, Table
  <2>2. Stale(mem[n]) \in Entry /\ Due(mem[n]) \in Entry
    BY <2>1 DEF Entry
  <2>3. Stale(table[n]) \in Row /\ Due(table[n]) \in Row
    BY <2>1 DEF Row, Entry, Absent, Blank
  <2>4. /\ mem' \in {[mem EXCEPT ![n] = Stale(mem[n])], [mem EXCEPT ![n] = Due(mem[n])]}
        /\ table' \in {[table EXCEPT ![n] = Stale(table[n])],
                       [table EXCEPT ![n] = Due(table[n])]}
    BY <1>12 DEF Lapse, FallDue
  <2> HIDE DEF Stale, Due
  <2>5. mem' \in [Nodes -> Entry] /\ table' \in [Nodes -> Row]
    BY <2>2, <2>3, <2>4 DEF TypeOK
  <2> QED BY <1>12, <2>5 DEF Lapse, FallDue, TypeOK
<1>13. CASE UNCHANGED vars
  BY <1>13 DEF vars, TypeOK
<1>14. ASSUME NEW n \in Nodes, OthersWrite(n) PROVE TypeOK'
  <2>1. table' \in [Nodes -> Row]
    BY <1>0, <1>14, OthersWriteType DEF Table
  <2> QED BY <1>14, <2>1 DEF OthersWrite, TypeOK
<1> QED
  BY <1>1, <1>2, <1>3, <1>4, <1>5, <1>6, <1>7, <1>8, <1>9, <1>10, <1>11, <1>12, <1>13, <1>14
  DEF Next, WalkStep

(* The state of the walk, its memory and the dataset keep their types.     *)
THEOREM TypeCorrect == Spec => []TypeOK
BY TypeInit, TypeStep, PTL DEF Spec

-------------------------------------------------------------------------------
(* Most basic first.                                                       *)
(*                                                                         *)
(* MostBasicFirst is not inductive alone.  A node that is being measured   *)
(* joins the settled ones if it passes, so it must already be known not to *)
(* be due a fix; and the last step of a walk turns "every node before pos" *)
(* into "every node".                                                      *)

NotDue(n) ==
  /\ n \in Fixable => ~mem[n].mark
  /\ n \in Reopt => mem[n].opt # "never"

CheckedNotDue == pc = "check" => NotDue(cur)

IInv == TypeOK /\ MostBasicFirst /\ DoneMeansSettled /\ CheckedNotDue

(* Recording a check of one node leaves the others settled. *)
LEMMA RecordCheckSettled ==
  ASSUME TypeOK, NEW n \in Nodes, NEW r \in {"OK", "BAD"}, NEW t \in BOOLEAN,
         RecordCheck(n, r, t)
  PROVE  /\ \A m \in Nodes : m # n /\ Settled(m) => Settled(m)'
         /\ r = "OK" /\ NotDue(n) => Settled(n)'
<1>1. mem \in Memory /\ mem' = Recorded(mem, n, r, t)
  BY DEF TypeOK, Memory, RecordCheck
<1>2. /\ mem'[n].res = r /\ mem'[n].susp = {}
      /\ \A m \in Nodes : /\ mem'[m].mark = mem[m].mark
                          /\ mem'[m].opt = mem[m].opt
                          /\ mem'[m].susp \subseteq mem[m].susp
                          /\ m # n => mem'[m].res = mem[m].res
  BY <1>1, RecordedProperties
<1> QED BY <1>2 DEF Settled, NotDue

(* What stays of the nodes before the current one, when a check of it is   *)
(* recorded and the scan does not go back.                                 *)
LEMMA RecordCheckPrefix ==
  ASSUME IInv, pc \in Walking, pos <= Len(Order),
         NEW r \in {"OK", "BAD"}, NEW t \in BOOLEAN, RecordCheck(cur, r, t)
  PROVE  \A i \in 1..(pos - 1) : Settled(Order[i])'
<1>1. TypeOK /\ cur \in Nodes /\ pos \in 1..Len(Order)
  BY CurIsNode, OrderFacts DEF IInv, TypeOK
<1>2. ASSUME NEW i \in 1..(pos - 1) PROVE Settled(Order[i])'
  <2>1. i \in 1..Len(Order) /\ i # pos
    BY <1>1, OrderFacts
  <2>2. Order[i] \in Nodes /\ Order[i] # cur
    BY <1>1, <2>1, OrderFacts DEF cur
  <2>3. Settled(Order[i])
    BY DEF IInv, MostBasicFirst
  <2> QED BY <1>1, <2>2, <2>3, RecordCheckSettled
<1> QED BY <1>2

(* A step after which the walk is at the first node again, or has stopped  *)
(* short, has nothing to show.                                             *)
LEMMA NothingBefore ==
  ASSUME TypeOK', \/ pc' = "scan" /\ pos' = 1
                  \/ pc' \in Stopped \ {"done"}
  PROVE  IInv'
<1>1. CASE pc' = "scan" /\ pos' = 1
  <2>1. MostBasicFirst'
    BY <1>1 DEF MostBasicFirst
  <2> QED BY <1>1, <2>1 DEF IInv, DoneMeansSettled, CheckedNotDue
<1>2. CASE pc' \in Stopped \ {"done"}
  BY <1>2 DEF IInv, MostBasicFirst, DoneMeansSettled, CheckedNotDue, Walking, Stopped
<1> QED BY <1>1, <1>2

LEMMA IInvInit == Init => IInv
<1> SUFFICES ASSUME Init PROVE IInv
  OBVIOUS
<1>1. pc = "idle"
  BY DEF Init
<1> QED BY <1>1, TypeInit
     DEF IInv, MostBasicFirst, DoneMeansSettled, CheckedNotDue, Walking

LEMMA ScanKeepsIInv == ASSUME IInv, ScanNode, TypeOK' PROVE IInv'
<1>1. TypeOK /\ cur \in Nodes /\ pos \in 1..Len(Order) /\ pc = "scan"
  BY CurIsNode, OrderFacts DEF IInv, ScanNode, TypeOK
<1>2. mem \in Memory /\ table \in Table /\ mem[cur] \in Entry /\ table[cur] \in Row
  BY <1>1 DEF TypeOK, Memory, Table
<1> DEFINE e == Hydrated(mem[cur], table[cur])
<1>3. e \in Entry
  BY <1>2, HydratedProperties
<1>4. /\ Aged(e).mark = e.mark /\ Aged(e).susp = e.susp /\ Aged(e).opt = e.opt
      /\ Guess(Aged(e)) = "OK" => Aged(e).res = "OK" /\ e.susp = {}
      /\ ~NeedsReoptimise(cur, e) =>
           /\ cur \in Fixable => ~e.mark
           /\ cur \in Reopt => e.opt # "never"
  BY <1>3, AgedProperties, GraphAssumption DEF NeedsReoptimise
<1> HIDE DEF e
<1>5. ASSUME NEW i \in 1..(pos - 1) PROVE Settled(Order[i])'
  <2>1. i \in 1..Len(Order) /\ i # pos
    BY <1>1, OrderFacts
  <2>2. Order[i] \in Nodes /\ Order[i] # cur
    BY <1>1, <2>1, OrderFacts DEF cur
  <2>3. Settled(Order[i])
    BY <1>1 DEF IInv, MostBasicFirst, Walking
  <2>4. mem'[Order[i]] = mem[Order[i]]
    BY <1>1, <2>2 DEF ScanNode, TypeOK
  <2> QED BY <2>3, <2>4 DEF Settled
<1>6. CASE NeedsReoptimise(cur, e)
  <2>1. pc' = "fix" /\ pos' = pos
    BY <1>6 DEF ScanNode, e
  <2> QED BY <1>5, <2>1 DEF IInv, MostBasicFirst, DoneMeansSettled, CheckedNotDue
<1>7. CASE ~NeedsReoptimise(cur, e)
  <2>1. /\ mem' = [mem EXCEPT ![cur] = Aged(e)]
        /\ \/ Guess(Aged(e)) = "OK" /\ pc' = "scan" /\ pos' = pos + 1
           \/ Guess(Aged(e)) = "EXPIRED" /\ pc' = "check" /\ pos' = pos
           \/ Guess(Aged(e)) = "BAD" /\ pc' = "fix" /\ pos' = pos
    BY <1>7 DEF ScanNode, e
  <2>2. mem'[cur] = Aged(e)
    BY <1>1, <2>1 DEF TypeOK
  <2>3. CASE Guess(Aged(e)) = "OK" /\ pc' = "scan" /\ pos' = pos + 1
    <3>1. ASSUME NEW i \in 1..pos PROVE Settled(Order[i])'
      <4>1. CASE i = pos
        <5>1. Order[i] = cur /\ mem'[Order[i]] = Aged(e)
          BY <2>2, <4>1 DEF cur
        <5> QED BY <1>4, <1>7, <2>3, <5>1 DEF Settled
      <4>2. CASE i # pos
        BY <1>1, <1>5, <4>2
      <4> QED BY <4>1, <4>2
    <3>2. \A i \in 1..(pos' - 1) : i \in 1..pos
      BY <1>1, <2>3
    <3>3. MostBasicFirst'
      BY <3>1, <3>2 DEF MostBasicFirst
    <3> QED BY <2>3, <3>3 DEF IInv, DoneMeansSettled, CheckedNotDue
  <2>4. CASE Guess(Aged(e)) = "EXPIRED" /\ pc' = "check" /\ pos' = pos
    <3>1. cur' = cur
      BY <2>4 DEF cur
    <3>2. NotDue(cur)'
      BY <1>4, <1>7, <2>2, <3>1 DEF NotDue
    <3> QED BY <1>5, <2>4, <3>2
         DEF IInv, MostBasicFirst, DoneMeansSettled, CheckedNotDue
  <2>5. CASE Guess(Aged(e)) = "BAD" /\ pc' = "fix" /\ pos' = pos
    BY <1>5, <2>5 DEF IInv, MostBasicFirst, DoneMeansSettled, CheckedNotDue
  <2> QED BY <2>1, <2>3, <2>4, <2>5
<1> QED BY <1>6, <1>7

LEMMA CheckKeepsIInv == ASSUME IInv, CheckPasses \/ CheckFails, TypeOK' PROVE IInv'
<1>1. /\ TypeOK /\ pc = "check" /\ pc \in Walking
      /\ pos \in 1..Len(Order) /\ pos <= Len(Order) /\ cur \in Nodes
  <2>1. TypeOK /\ pc = "check" /\ pc \in Walking
    BY DEF IInv, CheckPasses, CheckFails, Walking
  <2>2. pos \in 1..Len(Order) /\ pos <= Len(Order)
    BY <2>1, OrderFacts DEF TypeOK, Walking
  <2> QED BY <2>1, <2>2, CurIsNode
<1>2. NotDue(cur)
  BY <1>1 DEF IInv, CheckedNotDue
<1>3. CASE CheckPasses
  <2>1. RecordCheck(cur, "OK", FALSE) /\ pc' = "scan" /\ pos' = pos + 1
    BY <1>3 DEF CheckPasses
  <2>2. ASSUME NEW i \in 1..pos PROVE Settled(Order[i])'
    <3>1. CASE i = pos
      <4>1. Order[i] = cur /\ Order[i] \in Nodes
        BY <1>1, <3>1 DEF cur
      <4>2. RecordCheck(Order[i], "OK", FALSE) /\ NotDue(Order[i])
        BY <1>2, <2>1, <4>1
      <4> QED BY <1>1, <4>1, <4>2, RecordCheckSettled
    <3>2. CASE i # pos
      <4>1. i \in 1..(pos - 1)
        BY <1>1, <3>2
      <4> QED BY <1>1, <2>1, <4>1, RecordCheckPrefix
    <3> QED BY <3>1, <3>2
  <2>3. \A i \in 1..(pos' - 1) : i \in 1..pos
    BY <1>1, <2>1
  <2>4. MostBasicFirst'
    BY <2>2, <2>3 DEF MostBasicFirst
  <2> QED BY <2>1, <2>4 DEF IInv, DoneMeansSettled, CheckedNotDue
<1>4. CASE CheckFails
  <2>1. RecordCheck(cur, "BAD", FALSE) /\ pc' = "fix" /\ pos' = pos
    BY <1>4 DEF CheckFails
  <2>2. MostBasicFirst'
    BY <1>1, <2>1, RecordCheckPrefix DEF MostBasicFirst
  <2> QED BY <2>1, <2>2 DEF IInv, DoneMeansSettled, CheckedNotDue
<1> QED BY <1>3, <1>4

(* The steps of a fix that do not re-plan. *)
LEMMA FixKeepsIInv ==
  ASSUME IInv, SweepPoint \/ FixReturns \/ RecheckPasses, TypeOK'
  PROVE  IInv'
<1>1. TypeOK /\ pc \in Walking /\ pos <= Len(Order) /\ cur \in Nodes
  BY CurIsNode DEF IInv, SweepPoint, FixReturns, RecheckPasses, TypeOK, Walking
<1>2. /\ pc' \in {"fix", "recheck", "stamp"} /\ pos' = pos
      /\ \/ \E r \in {"OK", "BAD"}, t \in BOOLEAN : RecordCheck(cur, r, t)
         \/ mem' = mem
  BY DEF SweepPoint, FixReturns, RecheckPasses
<1>3. \A i \in 1..(pos - 1) : Settled(Order[i])'
  <2>1. CASE mem' = mem
    BY <1>1, <2>1 DEF IInv, MostBasicFirst, Settled
  <2>2. CASE \E r \in {"OK", "BAD"}, t \in BOOLEAN : RecordCheck(cur, r, t)
    BY <1>1, <2>2, RecordCheckPrefix
  <2> QED BY <1>2, <2>1, <2>2
<1>4. MostBasicFirst'
  BY <1>2, <1>3 DEF MostBasicFirst
<1> QED BY <1>2, <1>4 DEF IInv, DoneMeansSettled, CheckedNotDue

(* Time passing settles nothing and unsettles nothing.                     *)
LEMMA TimeChangesNoNeed ==
  ASSUME TypeOK, NEW n \in Nodes, Lapse(n) \/ FallDue(n), NEW m \in Nodes
  PROVE  /\ mem'[m].res = mem[m].res /\ mem'[m].susp = mem[m].susp
         /\ mem'[m].mark = mem[m].mark
         /\ mem'[m].opt = "never" <=> mem[m].opt = "never"
<1>1. mem[m] \in Entry /\ mem[n] \in Entry /\ mem \in [Nodes -> Entry]
  BY DEF TypeOK
<1>2. CASE m # n
  BY <1>1, <1>2 DEF Lapse, FallDue
<1>3. CASE m = n
  <2>1. \/ mem'[n] = mem[n]
        \/ mem'[n] = [mem[n] EXCEPT !.stale = TRUE]
        \/ mem'[n] = [mem[n] EXCEPT !.opt = "due"] /\ mem[n].opt = "fresh"
    BY <1>1 DEF Lapse, FallDue
  <2> QED BY <1>1, <1>3, <2>1 DEF Entry
<1> QED BY <1>2, <1>3

(* Time passing changes neither a result, nor a suspicion, nor a mark, and *)
(* turns no stamp into "never".                                            *)
LEMMA TimeKeepsIInv ==
  ASSUME IInv, NEW n \in Nodes, Lapse(n) \/ FallDue(n), TypeOK'
  PROVE  IInv'
<1>1. ASSUME NEW m \in Nodes
      PROVE  /\ mem'[m].res = mem[m].res /\ mem'[m].susp = mem[m].susp
             /\ mem'[m].mark = mem[m].mark
             /\ mem'[m].opt = "never" => mem[m].opt = "never"
  <2>1. mem[m] \in Entry /\ mem[n] \in Entry /\ mem \in [Nodes -> Entry]
    BY DEF IInv, TypeOK
  <2>2. CASE m # n
    BY <2>1, <2>2 DEF Lapse, FallDue
  <2>3. CASE m = n
    <3>1. mem'[n] \in {mem[n], [mem[n] EXCEPT !.stale = TRUE],
                       [mem[n] EXCEPT !.opt = "due"]}
      BY <2>1 DEF Lapse, FallDue
    <3> QED BY <2>1, <2>3, <3>1 DEF Entry
  <2> QED BY <2>2, <2>3
<1>2. \A m \in Nodes : Settled(m) => Settled(m)'
  BY <1>1 DEF Settled
<1>3. \A m \in Nodes : NotDue(m) => NotDue(m)'
  BY <1>1 DEF NotDue
<1>4. pc' = pc /\ pos' = pos /\ cur' = cur
  BY DEF Lapse, FallDue, cur
<1>5. MostBasicFirst'
  <2>1. \A i \in 1..(pos - 1) : Order[i] \in Nodes
    <3>1. \A i \in 1..(pos - 1) : i \in 1..Len(Order)
      BY OrderFacts DEF IInv, TypeOK
    <3> QED BY <3>1, OrderFacts
  <2> QED BY <1>2, <1>4, <2>1 DEF IInv, MostBasicFirst
<1>6. DoneMeansSettled'
  BY <1>2, <1>4 DEF IInv, DoneMeansSettled
<1>7. CheckedNotDue'
  <2>1. pc = "check" => cur \in Nodes
    BY CurIsNode DEF IInv, TypeOK, Walking
  <2>2. pc' = "check" => NotDue(cur)'
    BY <1>3, <1>4, <2>1 DEF IInv, CheckedNotDue, NotDue
  <2> QED BY <2>2 DEF CheckedNotDue
<1> QED BY <1>5, <1>6, <1>7 DEF IInv

LEMMA IInvStep == IInv /\ [Next]_vars => IInv'
<1> SUFFICES ASSUME IInv, [Next]_vars PROVE IInv'
  OBVIOUS
<1>0. TypeOK'
  BY TypeStep DEF IInv
<1>1. ASSUME NEW force \in BOOLEAN, StartWalk(force) PROVE IInv'
  BY <1>0, <1>1, NothingBefore DEF StartWalk, Restarted
<1>2. CASE ScanNode
  BY <1>0, <1>2, ScanKeepsIInv
<1>3. CASE Finish
  <2>1. ASSUME NEW n \in Nodes PROVE Settled(n)'
    <3>1. PICK i \in 1..Len(Order) : Order[i] = n
      BY OrderFacts
    <3>2. i \in 1..(pos - 1)
      BY <1>3, OrderFacts DEF Finish, IInv, TypeOK
    <3>3. Settled(n)
      BY <1>3, <3>1, <3>2 DEF Finish, IInv, MostBasicFirst, Walking
    <3> QED BY <1>3, <3>3 DEF Finish, Settled
  <2> QED BY <1>0, <1>3, <2>1
       DEF Finish, IInv, MostBasicFirst, DoneMeansSettled, CheckedNotDue, Walking
<1>4. CASE CheckPasses \/ CheckFails
  BY <1>0, <1>4, CheckKeepsIInv
<1>5. CASE SweepPoint \/ FixReturns \/ RecheckPasses
  BY <1>0, <1>5, FixKeepsIInv
<1>6. CASE FixGivesUp \/ RecheckFails
  <2>1. \/ pc' = "scan" /\ pos' = 1
        \/ pc' = "failed"
    BY <1>6 DEF FixGivesUp, RecheckFails, FailedAttempt, GiveUp, Restarted
  <2> QED BY <1>0, <2>1, NothingBefore DEF Stopped
<1>7. CASE StampFix
  BY <1>0, <1>7, NothingBefore DEF StampFix, Restarted
<1>8. CASE CannotFix \/ Raise \/ Terminate \/ Restart
  <2>1. pc' \in Stopped \ {"done"}
    BY <1>8 DEF CannotFix, Raise, Terminate, Restart, Stopped
  <2> QED BY <1>0, <2>1, NothingBefore
<1>9. ASSUME NEW n \in Nodes, Lapse(n) \/ FallDue(n) PROVE IInv'
  BY <1>0, <1>9, TimeKeepsIInv
<1>10. CASE UNCHANGED vars
  BY <1>0, <1>10
  DEF vars, IInv, MostBasicFirst, DoneMeansSettled, CheckedNotDue, Settled, NotDue, cur
<1>11. ASSUME NEW n \in Nodes, OthersWrite(n) PROVE IInv'
  BY <1>0, <1>11
  DEF OthersWrite, IInv, MostBasicFirst, DoneMeansSettled, CheckedNotDue, Settled, NotDue, cur
<1> QED
  BY <1>1, <1>2, <1>3, <1>4, <1>5, <1>6, <1>7, <1>8, <1>9, <1>10, <1>11 DEF Next, WalkStep

(* Whenever a node is measured or fixed, every node before it in the scan  *)
(* order is settled (calibration.py 198-203).                              *)
THEOREM MostBasicFirstHolds == Spec => []MostBasicFirst
BY IInvInit, IInvStep, PTL DEF Spec, IInv

(* A walk that returns leaves every node settled (calibration.py 1174).    *)
THEOREM DoneMeansSettledHolds == Spec => []DoneMeansSettled
BY IInvInit, IInvStep, PTL DEF Spec, IInv

-------------------------------------------------------------------------------
(* Forced walks are honoured.                                              *)
(*                                                                         *)
(* A node that is owed a fix is marked in the dataset, as long as nobody   *)
(* else writes it, and in memory too wherever memory is what the walk will *)
(* look at: memory with no check result is read from the dataset first.    *)
(* A settled node is not marked, so a walk that returns owes nothing.      *)

(* The orders that only this process can carry out, or lose.               *)
Debt == IF Others THEN {} ELSE owed

MarkedAt(n, e, row) ==
  n \in Fixable /\ row.res # "ABSENT" /\ row.mark /\ (e.res # "NONE" => e.mark)

OwedMarked == \A n \in Debt : MarkedAt(n, mem[n], table[n])

CurMarked ==
  pc \in Walking \ {"scan"} /\ cur \in Debt => mem[cur].mark

MarkInv == IInv /\ OwedMarked /\ CurMarked

(* Recording a check of a node keeps the marks, in memory and dataset.     *)
LEMMA RecordCheckMarks ==
  ASSUME TypeOK, OwedMarked, ~LossyTable,
         NEW n \in Nodes, n \in Debt => mem[n].mark,
         NEW r \in {"OK", "BAD"}, NEW t \in BOOLEAN, RecordCheck(n, r, t)
  PROVE  /\ \A m \in Debt : MarkedAt(m, mem'[m], table'[m])
         /\ mem'[n].mark = mem[n].mark
<1>1. /\ mem \in Memory /\ table \in Table /\ Debt \subseteq Nodes
      /\ mem' = Recorded(mem, n, r, t)
      /\ table' = Published(table, mem', {n})
  BY DEF Debt, TypeOK, Memory, Table, RecordCheck, WriteTable
<1>2. /\ mem' \in Memory /\ mem'[n].res = r
      /\ \A m \in Nodes : /\ mem'[m].mark = mem[m].mark
                          /\ m # n => mem'[m].res = mem[m].res
  BY <1>1, RecordedProperties
<1>3. /\ table'[n] = mem'[n]
      /\ \A m \in Nodes \ {n} : table'[m].mark = table[m].mark /\ table'[m].res = table[m].res
  BY <1>1, <1>2, PublishedProperties
<1>4. ASSUME NEW m \in Debt PROVE MarkedAt(m, mem'[m], table'[m])
  <2>1. m \in Nodes /\ MarkedAt(m, mem[m], table[m])
    BY <1>1 DEF OwedMarked
  <2>2. CASE m = n
    BY <1>2, <1>3, <2>1, <2>2 DEF MarkedAt
  <2>3. CASE m # n
    BY <1>2, <1>3, <2>1, <2>3 DEF MarkedAt
  <2> QED BY <2>2, <2>3
<1> QED BY <1>2, <1>4

(* So does a failed attempt, with all the rows it writes. *)
LEMMA FailedAttemptMarks ==
  ASSUME TypeOK, OwedMarked, ~LossyTable, ~FixState,
         NEW n \in Nodes, n \in Debt => mem[n].mark, FailedAttempt(n)
  PROVE  \A m \in Debt : MarkedAt(m, mem'[m], table'[m])
<1> DEFINE m1 == Recorded(mem, n, "BAD", FALSE)
           m2 == Reviewed(m1, table, n)
           m3 == Suspected(m2, n)
           newly == NewlySuspect(m2, n)
           t1 == Published(table, m1, {n})
           t2 == Published(t1, m3, newly)
<1>1. mem \in Memory /\ table \in Table /\ Debt \subseteq Nodes
  BY DEF Debt, TypeOK, Memory, Table
<1>2. mem' = m3 /\ table' = t2
  BY DEF FailedAttempt, WriteTable, GiveUp
<1>3. /\ m1 \in Memory /\ m1[n].res = "BAD"
      /\ \A m \in Nodes : /\ m1[m].mark = mem[m].mark
                          /\ m # n => m1[m].res = mem[m].res
  <2>1. \A t \in BOOLEAN :
          /\ Recorded(mem, n, "BAD", t) \in Memory
          /\ Recorded(mem, n, "BAD", t)[n].res = "BAD"
          /\ \A m \in Nodes :
               /\ Recorded(mem, n, "BAD", t)[m].mark = mem[m].mark
               /\ m # n => Recorded(mem, n, "BAD", t)[m].res = mem[m].res
    BY <1>1, RecordedProperties
  <2> QED BY <2>1
<1>4. /\ m2 \in Memory
      /\ \A m \in Nodes : m2[m] = IF m \in Deps[n]
                                  THEN Aged(Hydrated(m1[m], table[m])) ELSE m1[m]
  BY <1>1, <1>3, ReviewedProperties
<1>5. /\ m3 \in Memory /\ newly \subseteq Deps[n] /\ newly \in SUBSET Nodes
      /\ \A m \in Nodes : m3[m].mark = m2[m].mark /\ m3[m].res = m2[m].res
  <2>1. m3 \in Memory /\ newly \subseteq Deps[n]
    BY <1>4, SuspectedProperties
  <2>2. newly \in SUBSET Nodes
    BY <2>1, GraphAssumption
  <2>3. ASSUME NEW m \in Nodes
        PROVE  m3[m].mark = m2[m].mark /\ m3[m].res = m2[m].res
    BY <1>4, SuspectedProperties
  <2> QED BY <2>1, <2>2, <2>3
<1> HIDE DEF m1, m2, m3, newly
<1>6. /\ t1 \in Table /\ t1[n] = m1[n]
      /\ \A m \in Nodes \ {n} : t1[m].mark = table[m].mark /\ t1[m].res = table[m].res
  BY <1>1, <1>3, PublishedProperties
<1>7. /\ \A m \in newly : t2[m] = m3[m]
      /\ \A m \in Nodes \ newly : t2[m].mark = t1[m].mark /\ t2[m].res = t1[m].res
  BY <1>5, <1>6, PublishedProperties
<1>8. n \notin Deps[n]
  BY GraphAssumption
<1>9. ASSUME NEW m \in newly PROVE m2[m].res = "OK"
  BY <1>9 DEF NewlySuspect, Guess, newly
<1> HIDE DEF t1, t2
<1>10. ASSUME NEW m \in Debt PROVE MarkedAt(m, m3[m], t2[m])
  <2>1. m \in Nodes /\ MarkedAt(m, mem[m], table[m])
    BY <1>1 DEF OwedMarked
  <2>2. m1[m] \in Entry /\ m2[m] \in Entry /\ m3[m] \in Entry /\ table[m] \in Row
    BY <1>1, <1>3, <1>4, <1>5, <2>1 DEF Memory, Table
  <2>3. m1[m].res # "NONE" => m1[m].mark
    BY <1>3, <2>1 DEF MarkedAt
  <2>4. m2[m].res # "NONE" => m2[m].mark
    <3>1. CASE m \in Deps[n]
      <4>1. Hydrated(m1[m], table[m]) \in Entry
            /\ (Hydrated(m1[m], table[m]).res # "NONE" => Hydrated(m1[m], table[m]).mark)
        BY <2>1, <2>2, <2>3, HydratedProperties DEF MarkedAt
      <4>2. m2[m] = Aged(Hydrated(m1[m], table[m]))
        BY <1>4, <2>1, <3>1
      <4> QED BY <4>1, <4>2, AgedProperties
    <3>2. CASE m \notin Deps[n]
      BY <1>4, <2>1, <2>3, <3>2
    <3> QED BY <3>1, <3>2
  <2>5. m3[m].res # "NONE" => m3[m].mark
    BY <1>5, <2>1, <2>4
  <2>6. t1[m].mark /\ t1[m].res # "ABSENT"
    <3>1. CASE m = n
      BY <1>3, <1>6, <2>1, <2>3, <3>1
    <3>2. CASE m # n
      BY <1>6, <2>1, <3>2 DEF MarkedAt
    <3> QED BY <3>1, <3>2
  <2>7. t2[m].mark /\ t2[m].res # "ABSENT"
    <3>1. CASE m \in newly
      BY <1>5, <1>7, <1>9, <2>1, <2>4, <3>1
    <3>2. CASE m \notin newly
      BY <1>7, <2>1, <2>6, <3>2
    <3> QED BY <3>1, <3>2
  <2> QED BY <2>1, <2>5, <2>7 DEF MarkedAt
<1> QED BY <1>2, <1>10

(* A node that is owed a fix is never passed over by the scan: whatever    *)
(* memory holds of it, once hydrated, is marked.                           *)
LEMMA ScanMarks ==
  ASSUME TypeOK, OwedMarked, ScanNode
  PROVE  /\ \A m \in Debt : MarkedAt(m, mem'[m], table'[m])
         /\ pc' # "scan" /\ cur \in Debt => mem'[cur].mark
<1>1. cur \in Nodes /\ Debt \subseteq Nodes /\ mem \in [Nodes -> Entry] /\ table' = table
  BY CurIsNode DEF Debt, ScanNode, TypeOK
<1>2. mem[cur] \in Entry /\ table[cur] \in Row
  BY <1>1 DEF TypeOK
<1> DEFINE e == Hydrated(mem[cur], table[cur])
<1>3. e \in Entry /\ (mem[cur].res # "NONE" => e = mem[cur])
      /\ (mem[cur].res = "NONE" /\ table[cur].res # "ABSENT" => e.mark = table[cur].mark)
  BY <1>2, HydratedProperties
<1>4. Aged(e).mark = e.mark
  BY <1>3, AgedProperties
<1>5. mem' \in {[mem EXCEPT ![cur] = e], [mem EXCEPT ![cur] = Aged(e)]}
  BY DEF ScanNode
<1> HIDE DEF e
<1>6. cur \in Debt => e.mark
  <2>1. cur \in Debt => MarkedAt(cur, mem[cur], table[cur])
    BY DEF OwedMarked
  <2>2. CASE mem[cur].res = "NONE"
    BY <1>3, <2>1, <2>2 DEF MarkedAt
  <2>3. CASE mem[cur].res # "NONE"
    BY <1>3, <2>1, <2>3 DEF MarkedAt
  <2> QED BY <2>2, <2>3
<1>7. cur \in Debt => mem'[cur].mark
  BY <1>1, <1>4, <1>5, <1>6
<1>8. ASSUME NEW m \in Debt PROVE MarkedAt(m, mem'[m], table'[m])
  <2>1. MarkedAt(m, mem[m], table[m])
    BY DEF OwedMarked
  <2>2. CASE m = cur
    BY <1>1, <1>7, <2>1, <2>2 DEF MarkedAt
  <2>3. CASE m # cur
    <3>1. mem'[m] = mem[m]
      BY <1>1, <1>5, <2>3
    <3> QED BY <1>1, <2>1, <3>1 DEF MarkedAt
  <2> QED BY <2>2, <2>3
<1> QED BY <1>7, <1>8

LEMMA StartMarks ==
  ASSUME TypeOK, OwedMarked, ~LossyTable, NEW force \in BOOLEAN, StartWalk(force)
  PROVE  \A m \in Debt' : MarkedAt(m, mem'[m], table'[m])
<1>1. mem \in Memory /\ table \in Table /\ Debt \subseteq Nodes
  BY DEF Debt, TypeOK, Memory, Table
<1>2. CASE ~force
  BY <1>2 DEF StartWalk, Debt, OwedMarked
<1>3. CASE force
  <2>1. mem' = Marked(mem) /\ table' = MarkedRows(table) /\ Debt' = IF Others THEN {} ELSE Debt \cup Fixable
    BY <1>3 DEF Debt, StartWalk, WriteTable
  <2>2. ASSUME NEW m \in Debt' PROVE m \in Fixable
    BY <2>1, <2>2 DEF OwedMarked, MarkedAt
  <2>3. ASSUME NEW m \in Fixable PROVE MarkedAt(m, mem'[m], table'[m])
    BY <1>1, <2>1, MarkedProperties DEF MarkedAt
  <2> QED BY <2>2, <2>3
<1> QED BY <1>2, <1>3

LEMMA StampMarks ==
  ASSUME TypeOK, OwedMarked, ~LossyTable, StampFix
  PROVE  \A m \in Debt' : MarkedAt(m, mem'[m], table'[m])
<1>1. cur \in Nodes /\ Debt \subseteq Nodes /\ mem \in Memory /\ table \in Table
  BY CurIsNode DEF Debt, StampFix, TypeOK, Memory, Table, Walking
<1>2. mem[cur] \in Entry
  BY <1>1 DEF Memory
<1>3. mem' = [mem EXCEPT ![cur].opt = "fresh", ![cur].mark = FALSE]
      /\ table' = Published(table, mem', {cur}) /\ Debt' = Debt \ {cur}
  BY DEF Debt, StampFix, WriteTable
<1>4. mem' \in Memory
  <2>1. [mem[cur] EXCEPT !.opt = "fresh", !.mark = FALSE] \in Entry
    BY <1>2 DEF Entry
  <2> QED BY <1>1, <1>3, <2>1 DEF Memory
<1>5. \A m \in Nodes \ {cur} : /\ table'[m].mark = table[m].mark
                               /\ table'[m].res = table[m].res
  BY <1>1, <1>3, <1>4, PublishedProperties
<1>6. ASSUME NEW m \in Debt' PROVE MarkedAt(m, mem'[m], table'[m])
  <2>1. m \in Nodes /\ m # cur /\ MarkedAt(m, mem[m], table[m])
    BY <1>1, <1>3 DEF OwedMarked
  <2>2. mem'[m] = mem[m]
    BY <1>1, <1>3, <2>1 DEF Memory
  <2> QED BY <1>5, <2>1, <2>2 DEF MarkedAt
<1> QED BY <1>6

LEMMA TimeMarks ==
  ASSUME TypeOK, OwedMarked, NEW n \in Nodes, Lapse(n) \/ FallDue(n)
  PROVE  /\ \A m \in Debt' : MarkedAt(m, mem'[m], table'[m])
         /\ \A m \in Nodes : mem'[m].mark = mem[m].mark
<1>1. Debt' = Debt /\ Debt \subseteq Nodes
      /\ mem \in [Nodes -> Entry] /\ table \in [Nodes -> Row]
  BY DEF Debt, Lapse, FallDue, TypeOK
<1>2. mem[n] \in Entry /\ table[n] \in Row
  BY <1>1
<1>3. ASSUME NEW m \in Nodes
      PROVE  /\ mem'[m].mark = mem[m].mark /\ mem'[m].res = mem[m].res
             /\ table'[m].mark = table[m].mark /\ table'[m].res = table[m].res
  <2>1. CASE m # n
    BY <1>1, <2>1 DEF Lapse, FallDue
  <2>2. CASE m = n
    <3>1. /\ mem'[n] \in {mem[n], [mem[n] EXCEPT !.stale = TRUE],
                          [mem[n] EXCEPT !.opt = "due"]}
          /\ table'[n] \in {table[n], [table[n] EXCEPT !.stale = TRUE],
                            [table[n] EXCEPT !.opt = "due"]}
      BY <1>1 DEF Lapse, FallDue
    <3> QED BY <1>2, <2>2, <3>1 DEF Row, Entry, Absent, Blank
  <2> QED BY <2>1, <2>2
<1> QED BY <1>1, <1>3 DEF OwedMarked, MarkedAt

LEMMA MarkInvInit == Init => MarkInv
BY IInvInit DEF Init, Debt, MarkInv, OwedMarked, CurMarked, Walking

LEMMA MarkInvStep ==
  ASSUME ~LossyTable, ~FixState
  PROVE  MarkInv /\ [Next]_vars => MarkInv'
<1> SUFFICES ASSUME MarkInv, [Next]_vars PROVE MarkInv'
  OBVIOUS
<1>0. IInv' /\ TypeOK /\ OwedMarked /\ Debt \subseteq Nodes
  BY IInvStep DEF Debt, MarkInv, IInv, TypeOK
<1>a. pc \in Walking \ {"scan"} => cur \in Nodes /\ (cur \in Debt => mem[cur].mark)
  BY <1>0, CurIsNode DEF MarkInv, CurMarked, TypeOK
<1>1. ASSUME NEW force \in BOOLEAN, StartWalk(force) PROVE MarkInv'
  <2>1. pc' = "scan"
    BY <1>1 DEF StartWalk, Restarted
  <2> QED BY <1>0, <1>1, <2>1, StartMarks DEF MarkInv, OwedMarked, CurMarked
<1>2. CASE ScanNode
  <2>1. Debt' = Debt /\ (pc' # "scan" => cur' = cur)
    BY <1>2 DEF Debt, ScanNode, cur
  <2>2. OwedMarked'
    BY <1>0, <1>2, <2>1, ScanMarks DEF OwedMarked
  <2>3. CurMarked'
    BY <1>0, <1>2, <2>1, ScanMarks DEF CurMarked
  <2> QED BY <1>0, <2>2, <2>3 DEF MarkInv
<1>3. CASE Finish
  BY <1>0, <1>3 DEF Finish, Debt, MarkInv, OwedMarked, CurMarked, Walking
<1>4. CASE CheckPasses \/ CheckFails \/ SweepPoint \/ RecheckPasses
           \/ (FixReturns /\ mem' # mem)
  <2>1. /\ pc \in Walking \ {"scan"} /\ Debt' = Debt
        /\ \E r \in {"OK", "BAD"}, t \in BOOLEAN : RecordCheck(cur, r, t)
        /\ pc' # "scan" => cur' = cur
    BY <1>4 DEF Debt, CheckPasses, CheckFails, SweepPoint, RecheckPasses, FixReturns, Walking, cur
  <2>2. (\A m \in Debt : MarkedAt(m, mem'[m], table'[m])) /\ mem'[cur].mark = mem[cur].mark
    BY <1>0, <1>a, <2>1, RecordCheckMarks
  <2>3. OwedMarked'
    BY <2>1, <2>2 DEF OwedMarked
  <2>4. CurMarked'
    BY <1>a, <2>1, <2>2 DEF CurMarked
  <2> QED BY <1>0, <2>3, <2>4 DEF MarkInv
<1>5. CASE FixReturns /\ mem' = mem
  <2>1. /\ pc \in Walking \ {"scan"} /\ Debt' = Debt /\ cur' = cur
        /\ (\E t \in BOOLEAN : RecordCheck(cur, "OK", t)) \/ UNCHANGED <<mem, table>>
    BY <1>5 DEF Debt, FixReturns, Walking, cur
  <2>2. \A m \in Debt : MarkedAt(m, mem'[m], table'[m])
    <3>1. CASE \E t \in BOOLEAN : RecordCheck(cur, "OK", t)
      BY <1>0, <1>a, <2>1, <3>1, RecordCheckMarks
    <3>2. CASE UNCHANGED <<mem, table>>
      BY <1>0, <3>2 DEF OwedMarked
    <3> QED BY <2>1, <3>1, <3>2
  <2>3. OwedMarked'
    BY <2>1, <2>2 DEF OwedMarked
  <2>4. CurMarked'
    BY <1>5, <1>a, <2>1 DEF CurMarked
  <2> QED BY <1>0, <2>3, <2>4 DEF MarkInv
<1>6. CASE FixGivesUp \/ RecheckFails
  <2>1. pc \in Walking \ {"scan"} /\ FailedAttempt(cur)
    BY <1>6 DEF FixGivesUp, RecheckFails, Walking
  <2>2. pc' \in {"scan", "failed"} /\ Debt' = Debt
    BY <2>1 DEF Debt, FailedAttempt, GiveUp, Restarted
  <2>3. \A m \in Debt : MarkedAt(m, mem'[m], table'[m])
    BY <1>0, <1>a, <2>1, FailedAttemptMarks
  <2> QED BY <1>0, <2>2, <2>3 DEF MarkInv, OwedMarked, CurMarked, Walking
<1>7. CASE StampFix
  <2>1. pc' = "scan"
    BY <1>7 DEF StampFix, Restarted
  <2> QED BY <1>0, <1>7, <2>1, StampMarks DEF MarkInv, OwedMarked, CurMarked
<1>8. CASE CannotFix \/ Raise \/ Terminate
  BY <1>0, <1>8 DEF CannotFix, Raise, Terminate, Debt, MarkInv, OwedMarked, CurMarked, Walking
<1>9. CASE Restart
  <2>1. ASSUME NEW m \in Debt' PROVE MarkedAt(m, mem'[m], table'[m])
    <3>1. m \in Debt /\ m \in Nodes /\ mem'[m] = Blank /\ table' = table
      BY <1>0, <1>9, <2>1 DEF Restart, Debt
    <3>2. MarkedAt(m, mem[m], table[m])
      BY <1>0, <3>1 DEF OwedMarked
    <3> QED BY <3>1, <3>2 DEF MarkedAt, Blank
  <2> QED BY <1>0, <1>9, <2>1 DEF Restart, MarkInv, OwedMarked, CurMarked, Walking
<1>10. ASSUME NEW n \in Nodes, Lapse(n) \/ FallDue(n) PROVE MarkInv'
  <2>1. pc' = pc /\ Debt' = Debt /\ cur' = cur
    BY <1>10 DEF Debt, Lapse, FallDue, cur
  <2>2. OwedMarked'
    BY <1>0, <1>10, TimeMarks DEF OwedMarked
  <2>3. CurMarked'
    BY <1>0, <1>a, <1>10, <2>1, TimeMarks DEF CurMarked
  <2> QED BY <1>0, <2>2, <2>3 DEF MarkInv
<1>11. CASE UNCHANGED vars
  BY <1>0, <1>11 DEF vars, Debt, MarkInv, OwedMarked, CurMarked, cur
<1>12. ASSUME NEW n \in Nodes, OthersWrite(n) PROVE MarkInv'
  <2>1. Debt' = {}
    BY <1>12 DEF OthersWrite, Debt
  <2> QED BY <1>0, <2>1 DEF MarkInv, OwedMarked, CurMarked
<1> QED
  BY <1>1, <1>2, <1>3, <1>4, <1>5, <1>6, <1>7, <1>8, <1>9, <1>10, <1>11, <1>12
  DEF Next, WalkStep

(* Walks entered by fix_targets, with a status dataset that takes every    *)
(* write: whenever one returns, in whatever process and after whatever     *)
(* interruptions, every node ever ordered to be re-fixed has been fixed    *)
(* successfully since (calibration.py 229-232, 417-424).  If others write  *)
(* the dataset too they may undo the marks, and the orders with them.      *)
THEOREM ForceHonouredHolds ==
  ASSUME ~LossyTable, ~FixState, ~Others
  PROVE  Spec => []ForceHonoured
<1>1. MarkInv => ForceHonoured
  <2> SUFFICES ASSUME MarkInv, pc = "done", NEW n \in Debt PROVE FALSE
    BY DEF ForceHonoured, Debt
  <2>1. n \in Nodes /\ Settled(n)
    BY DEF MarkInv, IInv, DoneMeansSettled, TypeOK, Debt
  <2>2. MarkedAt(n, mem[n], table[n])
    BY DEF MarkInv, OwedMarked
  <2> QED BY <2>1, <2>2 DEF Settled, MarkedAt
<1> QED BY <1>1, MarkInvInit, MarkInvStep, PTL DEF Spec

-------------------------------------------------------------------------------
(* Suspicion.                                                              *)
(*                                                                         *)
(* Every suspicion, in memory or in the dataset, was cast on a direct      *)
(* dependency by a node whose row does not say OK; and nothing is OK in    *)
(* memory that is not in the dataset.                                      *)

Justified(m, t) ==
  \A x, d \in Nodes :
    x \in m[d].susp \cup t[d].susp => d \in Deps[x] /\ t[x].res # "OK"

Backed(m, t) == \A x \in Nodes : m[x].res = "OK" => t[x].res = "OK"

Sound(m, t) == Justified(m, t) /\ Backed(m, t)

SuspInv == TypeOK /\ Sound(mem, table)

LEMMA SoundImplies == SuspInv => SuspicionHasCause
BY DEF SuspInv, Sound, Justified, Backed, SuspicionHasCause

(* What publishing does to results and suspicions. *)
LEMMA PublishedEffect ==
  ASSUME NEW m \in Memory, NEW t \in Table, NEW S \in SUBSET Nodes
  PROVE  /\ \A x \in S : Published(t, m, S)[x] = m[x]
         /\ \A x \in Nodes \ S : /\ Published(t, m, S)[x].res = t[x].res
                                  /\ Published(t, m, S)[x].susp \subseteq t[x].susp
         /\ \A d \in Nodes \ S : \A x \in S :
              m[x].res = "OK" => x \notin Published(t, m, S)[d].susp
<1>1. \A x \in S : Published(t, m, S)[x] = m[x]
  BY PublishedProperties
<1>2. \A x \in Nodes \ S : Published(t, m, S)[x].res = t[x].res
  BY PublishedProperties
<1>3. \A d \in Nodes \ S :
        /\ Published(t, m, S)[d].susp \subseteq t[d].susp
        /\ \A x \in S : m[x].res = "OK" => x \notin Published(t, m, S)[d].susp
  BY PublishedOrigins
<1> QED BY <1>1, <1>2, <1>3

(* Publishing keeps the two sound, if whoever publishes an OK is no longer *)
(* a suspector in memory.                                                  *)
LEMMA PublishedSound ==
  ASSUME NEW m \in Memory, NEW t \in Table, NEW S \in SUBSET Nodes,
         \A x, d \in Nodes :
           x \in m[d].susp =>
             d \in Deps[x] /\ (IF x \in S THEN m[x].res ELSE t[x].res) # "OK",
         \A x, d \in Nodes :
           x \in t[d].susp => d \in Deps[x] /\ (x \notin S => t[x].res # "OK"),
         \A x \in Nodes \ S : m[x].res = "OK" => t[x].res = "OK"
  PROVE  Sound(m, Published(t, m, S))
<1> DEFINE p == Published(t, m, S)
<1>0. /\ \A x \in S : p[x] = m[x]
      /\ \A x \in Nodes \ S : p[x].res = t[x].res /\ p[x].susp \subseteq t[x].susp
      /\ \A d \in Nodes \ S : \A x \in S : m[x].res = "OK" => x \notin p[d].susp
  BY ONLY PublishedEffect, m \in Memory, t \in Table, S \in SUBSET Nodes
<1>1. \A x \in S : p[x] = m[x]
  BY <1>0
<1>2. \A x \in Nodes \ S : p[x].res = t[x].res /\ p[x].susp \subseteq t[x].susp
  BY <1>0
<1>3. \A d \in Nodes \ S : \A x \in S : m[x].res = "OK" => x \notin p[d].susp
  BY <1>0
<1> HIDE DEF p
<1>4. ASSUME NEW x \in Nodes, NEW d \in Nodes, x \in m[d].susp \cup p[d].susp
      PROVE  d \in Deps[x] /\ p[x].res # "OK"
  <2>1. CASE x \in m[d].susp
    BY <1>1, <1>2, <2>1
  <2>2. CASE x \in p[d].susp /\ d \in S
    BY <1>1, <1>2, <2>2
  <2>3. CASE x \in p[d].susp /\ d \notin S
    <3>1. x \in t[d].susp
      BY <1>2, <2>3
    <3>2. CASE x \in S
      BY <1>1, <1>3, <2>3, <3>1, <3>2
    <3>3. CASE x \notin S
      BY <1>2, <3>1, <3>3
    <3> QED BY <3>2, <3>3
  <2> QED BY <1>4, <2>1, <2>2, <2>3
<1>5. Backed(m, p)
  BY <1>1, <1>2 DEF Backed
<1> QED BY <1>4, <1>5 DEF Sound, Justified, p

(* Recording a check and publishing it. *)
LEMMA RecordedSound ==
  ASSUME NEW m \in Memory, NEW t \in Table, Sound(m, t), NEW n \in Nodes,
         NEW r \in {"OK", "BAD"}, NEW trial \in BOOLEAN
  PROVE  Sound(Recorded(m, n, r, trial), Published(t, Recorded(m, n, r, trial), {n}))
<1> DEFINE q == Recorded(m, n, r, trial)
<1>1. /\ q \in Memory /\ q[n].res = r /\ q[n].susp = {}
      /\ \A x \in Nodes : /\ q[x].susp \subseteq m[x].susp
                          /\ x # n => q[x].res = m[x].res
  BY RecordedProperties
<1>2. r = "OK" => \A d \in Deps[n] : n \notin q[d].susp
  BY RecordedWithdraws
<1> HIDE DEF q
<1>3. ASSUME NEW x \in Nodes, NEW d \in Nodes, x \in q[d].susp
      PROVE  d \in Deps[x] /\ (IF x \in {n} THEN q[x].res ELSE t[x].res) # "OK"
  <2>1. d \in Deps[x] /\ t[x].res # "OK"
    BY <1>1, <1>3 DEF Sound, Justified
  <2> QED BY <1>1, <1>2, <1>3, <2>1
<1>4. \A x, d \in Nodes : x \in t[d].susp => d \in Deps[x] /\ t[x].res # "OK"
  BY DEF Sound, Justified
<1>5. \A x \in Nodes \ {n} : q[x].res = "OK" => t[x].res = "OK"
  BY <1>1 DEF Sound, Backed
<1>6. {n} \in SUBSET Nodes
  OBVIOUS
<1>7. Sound(q, Published(t, q, {n}))
  BY <1>1, <1>3, <1>4, <1>5, <1>6, PublishedSound
<1> QED BY <1>7 DEF q

(* Hydrating and ageing memory entries. *)
LEMMA RecalledSound ==
  ASSUME NEW m \in Memory, NEW t \in Table, Sound(m, t), NEW q,
         \A x \in Nodes : \/ q[x] = m[x]
                          \/ q[x] = Hydrated(m[x], t[x])
                          \/ q[x] = Aged(Hydrated(m[x], t[x]))
  PROVE  Sound(q, t)
<1>1. ASSUME NEW x \in Nodes
      PROVE  /\ q[x].susp \subseteq m[x].susp \cup t[x].susp
             /\ q[x].res = "OK" => t[x].res = "OK"
  <2>1. m[x] \in Entry /\ t[x] \in Row
    BY DEF Memory, Table
  <2> DEFINE e == Hydrated(m[x], t[x])
  <2>2. e \in Entry /\ e.susp \subseteq m[x].susp \cup t[x].susp /\ e.res \in {m[x].res, t[x].res}
    BY <2>1, HydratedProperties, HydratedOrigins
  <2>3. Aged(e).susp = e.susp /\ (Aged(e).res = "OK" => e.res = "OK")
    BY <2>2 DEF Aged, Entry
  <2>4. m[x].res = "OK" => t[x].res = "OK"
    BY DEF Sound, Backed
  <2> QED BY <2>2, <2>3, <2>4
<1> QED BY <1>1 DEF Sound, Justified, Backed

(* A failed attempt at n: record, review the dependencies, suspect those   *)
(* that still look good, publish them.                                     *)
LEMMA FailedSound ==
  ASSUME TypeOK, Sound(mem, table), ~LossyTable, NEW n \in Nodes, FailedAttempt(n)
  PROVE  Sound(mem', table')
<1> DEFINE m1 == Recorded(mem, n, "BAD", FALSE)
           m2 == Reviewed(m1, table, n)
           m3 == Suspected(m2, n)
           newly == NewlySuspect(m2, n)
           t1 == Published(table, m1, {n})
           t2 == Published(t1, m3, newly)
<1>1. mem \in Memory /\ table \in Table
  BY DEF TypeOK, Memory, Table
<1>2. table' = t2
  BY DEF FailedAttempt, WriteTable
<1>3. m1 \in Memory /\ m1[n].res = "BAD"
  <2>1. \A t \in BOOLEAN : /\ Recorded(mem, n, "BAD", t) \in Memory
                           /\ Recorded(mem, n, "BAD", t)[n].res = "BAD"
    BY <1>1, RecordedProperties
  <2> QED BY <2>1
<1>4. Sound(m1, t1)
  <2>1. \A t \in BOOLEAN : Sound(Recorded(mem, n, "BAD", t),
                                 Published(table, Recorded(mem, n, "BAD", t), {n}))
    BY <1>1, RecordedSound
  <2> QED BY <2>1
<1>5. n \notin Deps[n] /\ Deps[n] \subseteq Nodes
  BY GraphAssumption
<1>6. /\ t1 \in Table /\ t1[n] = m1[n]
      /\ \A x \in Nodes \ {n} : t1[x].res = table[x].res
  <2>1. {n} \in SUBSET Nodes
    OBVIOUS
  <2> HIDE DEF m1
  <2> QED BY <1>1, <1>3, <2>1, PublishedProperties
<1>7. /\ m2 \in Memory
      /\ \A x \in Nodes : m2[x] = IF x \in Deps[n]
                                  THEN Aged(Hydrated(m1[x], table[x])) ELSE m1[x]
  BY <1>1, <1>3, ReviewedProperties
<1>8. /\ m3 \in Memory /\ newly \subseteq Deps[n]
      /\ \A x \in Nodes : /\ m3[x].res = m2[x].res
                          /\ m3[x].susp \subseteq m2[x].susp \cup {n}
                          /\ x \notin Deps[n] => m3[x].susp = m2[x].susp
  <2>1. m3 \in Memory /\ newly \subseteq Deps[n]
    BY <1>7, SuspectedProperties
  <2>2. ASSUME NEW x \in Nodes
        PROVE  /\ m3[x].res = m2[x].res
               /\ m3[x].susp \subseteq m2[x].susp \cup {n}
               /\ x \notin Deps[n] => m3[x].susp = m2[x].susp
    <3> HIDE DEF m2
    <3>1. m3[x].res = m2[x].res
      BY <1>7, SuspectedProperties
    <3>2. /\ m3[x].susp \subseteq m2[x].susp \cup {n}
          /\ x \notin Deps[n] => m3[x].susp = m2[x].susp
      BY <1>7, SuspectedOrigins
    <3> QED BY <3>1, <3>2
  <2> QED BY <2>1, <2>2
<1>9. ASSUME NEW x \in newly PROVE m2[x].res = "OK"
  BY <1>9 DEF NewlySuspect, Guess
<1> HIDE DEF m1, m2, m3, newly, t1, t2
(* What is recalled is what the row said before, which only differs from   *)
(* the row now where it is n's, or where suspicions have been taken away.  *)
<1>10. ASSUME NEW x \in Nodes
       PROVE  /\ \A y \in Nodes : y \in m2[x].susp => x \in Deps[y] /\ t1[y].res # "OK"
              /\ m2[x].res = "OK" => t1[x].res = "OK"
  <2>1. CASE x \notin Deps[n]
    BY <1>4, <1>7, <2>1 DEF Sound, Justified, Backed
  <2>2. CASE x \in Deps[n]
    <3>1. m1[x] \in Entry /\ table[x] \in Row
      BY <1>1, <1>3 DEF Memory, Table
    <3> DEFINE e == Hydrated(m1[x], table[x])
    <3>2. e \in Entry /\ e.susp \subseteq m1[x].susp \cup table[x].susp
          /\ e.res \in {m1[x].res, table[x].res}
      BY <3>1, HydratedProperties, HydratedOrigins
    <3>3. Aged(e).susp = e.susp /\ (Aged(e).res = "OK" => e.res = "OK")
      BY <3>2 DEF Aged, Entry
    <3>4. m2[x] = Aged(e)
      BY <1>7, <2>2
    <3> HIDE DEF e
    <3>5. ASSUME NEW y \in Nodes, y \in m2[x].susp PROVE x \in Deps[y] /\ t1[y].res # "OK"
      <4>1. CASE y \in m1[x].susp
        BY <1>4, <4>1 DEF Sound, Justified
      <4>2. CASE y \in table[x].susp
        <5>1. x \in Deps[y] /\ table[y].res # "OK"
          BY <4>2 DEF Sound, Justified
        <5> QED BY <1>3, <1>6, <5>1
      <4> QED BY <3>2, <3>3, <3>4, <3>5, <4>1, <4>2
    <3>6. m2[x].res = "OK" => t1[x].res = "OK"
      <4>1. m1[x].res = "OK" => t1[x].res = "OK"
        BY <1>4 DEF Sound, Backed
      <4>2. t1[x].res = table[x].res
        BY <1>5, <1>6, <2>2
      <4> QED BY <3>2, <3>3, <3>4, <4>1, <4>2
    <3> QED BY <3>5, <3>6
  <2> QED BY <2>1, <2>2
<1>11. Sound(m3, t2)
  <2>1. ASSUME NEW x \in Nodes, NEW d \in Nodes, x \in m3[d].susp
        PROVE  d \in Deps[x] /\ (IF x \in newly THEN m3[x].res ELSE t1[x].res) # "OK"
    <3>1. CASE x \in m2[d].susp
      <4>1. d \in Deps[x] /\ t1[x].res # "OK"
        BY <1>10, <3>1
      <4>2. x \notin newly
        BY <1>9, <1>10, <4>1
      <4> QED BY <4>1, <4>2
    <3>2. CASE x \notin m2[d].susp
      <4>1. x = n /\ d \in Deps[n]
        BY <1>8, <2>1, <3>2
      <4> QED BY <1>3, <1>5, <1>6, <1>8, <4>1
    <3> QED BY <3>1, <3>2
  <2>2. \A x, d \in Nodes : x \in t1[d].susp => d \in Deps[x] /\ t1[x].res # "OK"
    BY <1>4 DEF Sound, Justified
  <2>3. \A x \in Nodes \ newly : m3[x].res = "OK" => t1[x].res = "OK"
    BY <1>8, <1>10
  <2>4. newly \in SUBSET Nodes
    BY <1>5, <1>8
  <2>5. Sound(m3, Published(t1, m3, newly))
    BY <1>6, <1>8, <2>1, <2>2, <2>3, <2>4, PublishedSound
  <2> QED BY <2>5 DEF t2
<1>12. \A x \in Nodes : mem'[x].susp = m3[x].susp /\ (mem'[x].res = "OK" => m3[x].res = "OK")
  <2>1. mem' = m3 \/ mem' = [m3 EXCEPT ![Target].res = "BAD", ![Target].stale = FALSE,
                                       ![Target].trial = FALSE]
    BY DEF FailedAttempt, GiveUp, m1, m2, m3, newly
  <2>2. m3[Target] \in Entry
    BY <1>8, WalkAssumption DEF Memory
  <2>3. ASSUME NEW x \in Nodes
        PROVE  mem'[x].susp = m3[x].susp /\ (mem'[x].res = "OK" => m3[x].res = "OK")
    <3>1. m3[x] \in Entry
      BY <1>8 DEF Memory
    <3> QED BY <1>8, <2>1, <2>2, <3>1, WalkAssumption DEF Memory, Entry
  <2> QED BY <2>3
<1> QED BY <1>2, <1>11, <1>12 DEF Sound, Justified, Backed

(* Stamping a fix publishes the node as it is in memory.                   *)
LEMMA StampSound ==
  ASSUME TypeOK, Sound(mem, table), ~LossyTable, StampFix
  PROVE  Sound(mem', table')
<1>1. cur \in Nodes /\ mem \in Memory /\ table \in Table
  BY CurIsNode DEF TypeOK, Memory, Table, StampFix, Walking
<1>2. mem' = [mem EXCEPT ![cur].opt = "fresh", ![cur].mark = FALSE]
  BY DEF StampFix
<1>3. table' = Published(table, mem', {cur})
  BY DEF StampFix, WriteTable
<1>4. \A x \in Nodes : mem[x] \in Entry
  BY <1>1 DEF Memory
<1>5. [mem[cur] EXCEPT !.opt = "fresh", !.mark = FALSE] \in Entry
  <2>1. mem[cur] \in Entry
    BY <1>1, <1>4
  <2> QED BY <2>1 DEF Entry
<1>6. mem' \in Memory
  BY <1>1, <1>2, <1>5 DEF Memory
<1>7. \A x \in Nodes : mem'[x].susp = mem[x].susp /\ mem'[x].res = mem[x].res
  BY <1>1, <1>2, <1>4 DEF Memory, Entry
<1>8. {cur} \in SUBSET Nodes
  BY <1>1
<1>9. ASSUME NEW x \in Nodes, NEW d \in Nodes, x \in mem'[d].susp
      PROVE  d \in Deps[x] /\ (IF x \in {cur} THEN mem'[x].res ELSE table[x].res) # "OK"
  <2>1. d \in Deps[x] /\ table[x].res # "OK"
    BY <1>7, <1>9 DEF Sound, Justified
  <2>2. mem'[x].res # "OK"
    BY <1>7, <2>1 DEF Sound, Backed
  <2> QED BY <2>1, <2>2
<1>10. \A x, d \in Nodes : x \in table[d].susp => d \in Deps[x] /\ table[x].res # "OK"
  BY DEF Sound, Justified
<1>11. \A x \in Nodes \ {cur} : mem'[x].res = "OK" => table[x].res = "OK"
  BY <1>7 DEF Sound, Backed
<1>12. Sound(mem', Published(table, mem', {cur}))
  BY <1>1, <1>6, <1>8, <1>9, <1>10, <1>11, PublishedSound
<1> QED BY <1>3, <1>12

(* The passage of time touches neither results nor suspicions. *)
LEMMA TimeSound ==
  ASSUME TypeOK, Sound(mem, table), NEW n \in Nodes, Lapse(n) \/ FallDue(n)
  PROVE  Sound(mem', table')
<1> DEFINE Stale(e) == IF e.res \in {"NONE", "ABSENT"} THEN e
                       ELSE [e EXCEPT !.stale = TRUE]
           Due(e) == IF e.opt = "fresh" THEN [e EXCEPT !.opt = "due"] ELSE e
<1>1. mem \in Memory /\ table \in Table /\ mem[n] \in Entry /\ table[n] \in Row
  BY DEF TypeOK, Memory, Table
<1>2. \A e \in Entry \cup Row : /\ Stale(e).susp = e.susp /\ Stale(e).res = e.res
                                 /\ Due(e).susp = e.susp /\ Due(e).res = e.res
  BY DEF Row, Entry, Absent, Blank
<1>3. /\ mem' \in {[mem EXCEPT ![n] = Stale(mem[n])], [mem EXCEPT ![n] = Due(mem[n])]}
      /\ table' \in {[table EXCEPT ![n] = Stale(table[n])],
                     [table EXCEPT ![n] = Due(table[n])]}
  BY DEF Lapse, FallDue
<1> HIDE DEF Stale, Due
<1>4. \A x \in Nodes : /\ mem'[x].susp = mem[x].susp /\ mem'[x].res = mem[x].res
                       /\ table'[x].susp = table[x].susp /\ table'[x].res = table[x].res
  BY <1>1, <1>2, <1>3 DEF Memory, Table
<1> QED BY <1>4 DEF Sound, Justified, Backed

LEMMA SuspInvInit == Init => SuspInv
<1> SUFFICES ASSUME Init PROVE SuspInv
  OBVIOUS
<1>1. \A x \in Nodes : mem[x] = Blank /\ table[x] = Absent
  BY DEF Init
<1>2. Blank.susp = {} /\ Blank.res = "NONE" /\ Absent.susp = {}
  BY DEF Blank, Absent
<1> QED BY <1>1, <1>2, TypeInit DEF SuspInv, Sound, Justified, Backed

LEMMA SuspInvStep ==
  ASSUME ~LossyTable, ~Others, SuspInv, [Next]_vars
  PROVE  SuspInv'
<1>0. /\ TypeOK /\ TypeOK' /\ Sound(mem, table)
      /\ mem \in Memory /\ table \in Table
  BY TypeStep DEF SuspInv, TypeOK, Memory, Table
<1>a. pc \in Walking \ {"scan"} => cur \in Nodes
  BY <1>0, CurIsNode DEF TypeOK
<1>1. SUFFICES Sound(mem', table')
  BY <1>0, <1>1 DEF SuspInv, Sound, Justified, Backed
<1>2. ASSUME NEW r \in {"OK", "BAD"}, NEW trial \in BOOLEAN, cur \in Nodes,
             RecordCheck(cur, r, trial)
      PROVE  Sound(mem', table')
  BY <1>0, <1>2, RecordedSound DEF RecordCheck, WriteTable
<1>3. CASE ScanNode
  <2>1. cur \in Nodes
    BY <1>0, <1>3, CurIsNode DEF ScanNode
  <2> DEFINE e == Hydrated(mem[cur], table[cur])
  <2>2. mem' \in {[mem EXCEPT ![cur] = e], [mem EXCEPT ![cur] = Aged(e)]} /\ table' = table
    BY <1>3 DEF ScanNode
  <2>3. \A x \in Nodes : \/ mem'[x] = mem[x]
                         \/ mem'[x] = Hydrated(mem[x], table[x])
                         \/ mem'[x] = Aged(Hydrated(mem[x], table[x]))
    BY <1>0, <2>1, <2>2 DEF Memory
  <2> QED BY <1>0, <2>2, <2>3, RecalledSound
<1>4. CASE CheckPasses \/ CheckFails
  BY <1>2, <1>4, <1>a DEF CheckPasses, CheckFails, Walking
<1>5. CASE SweepPoint
  BY <1>2, <1>5, <1>a DEF SweepPoint, Walking
<1>6. CASE FixReturns
  BY <1>0, <1>2, <1>6, <1>a DEF FixReturns, Walking
<1>7. CASE RecheckPasses
  BY <1>2, <1>7, <1>a DEF RecheckPasses, Walking
<1>8. CASE FixGivesUp \/ RecheckFails
  <2>1. cur \in Nodes /\ FailedAttempt(cur)
    BY <1>8, <1>a DEF FixGivesUp, RecheckFails, Walking
  <2> QED BY <1>0, <2>1, FailedSound
<1>9. CASE StampFix
  BY <1>0, <1>9, StampSound
<1>10. ASSUME NEW force \in BOOLEAN, StartWalk(force) PROVE Sound(mem', table')
  <2>1. CASE force
    <3>1. mem' = Marked(mem) /\ table' = MarkedRows(table)
      BY <1>10, <2>1 DEF StartWalk, WriteTable
    <3>2. ASSUME NEW x \in Nodes
          PROVE  /\ mem'[x].susp = mem[x].susp /\ mem'[x].res = mem[x].res
                 /\ table'[x].susp = table[x].susp
                 /\ table'[x].res = "OK" <=> table[x].res = "OK"
      BY <1>0, <3>1, MarkedOrigins
    <3> QED BY <1>0, <3>2 DEF Sound, Justified, Backed
  <2>2. CASE ~force
    BY <1>0, <1>10, <2>2 DEF StartWalk
  <2> QED BY <2>1, <2>2
<1>11. CASE Restart
  <2>1. table' = table /\ \A x \in Nodes : mem'[x] = Blank
    BY <1>11 DEF Restart
  <2>2. Blank.susp = {} /\ Blank.res = "NONE"
    BY DEF Blank
  <2> QED BY <1>0, <2>1, <2>2 DEF Sound, Justified, Backed
<1>12. ASSUME NEW n \in Nodes, Lapse(n) \/ FallDue(n) PROVE Sound(mem', table')
  BY <1>0, <1>12, TimeSound
<1>13. CASE Finish \/ CannotFix \/ Raise \/ Terminate \/ UNCHANGED vars
  BY <1>0, <1>13 DEF Finish, CannotFix, Raise, Terminate, vars
<1>14. \A n \in Nodes : ~OthersWrite(n)
  BY DEF OthersWrite
<1> QED
  BY <1>3, <1>4, <1>5, <1>6, <1>7, <1>8, <1>9, <1>10, <1>11, <1>12, <1>13, <1>14
  DEF Next, WalkStep

(* Suspicion has a cause and travels one hop (_suspect_dependencies_of,    *)
(* _record_own_check, _publish_status): in memory and in the dataset, a    *)
(* node is suspected by direct dependents alone, and by none whose own     *)
(* record is good; through failed attempts, trial points, restarts and     *)
(* walks of either kind, as long as no write of the dataset is lost and    *)
(* nobody else writes it.                                                  *)
THEOREM SuspicionHasCauseHolds ==
  ASSUME ~LossyTable, ~Others PROVE Spec => []SuspicionHasCause
<1>1. SuspInv /\ [Next]_vars => SuspInv'
  BY SuspInvStep
<1> QED BY <1>1, SuspInvInit, SoundImplies, PTL DEF Spec

-------------------------------------------------------------------------------
(* Marks and stamps.                                                       *)
(*                                                                         *)
(* Each publication overwrites a whole row from memory, mark and stamp     *)
(* included, so a node's memory must carry the row's before it is written. *)
(* It does when the entry holds a check result, since those are recalled   *)
(* together; when there is no row to contradict it; and for the node in    *)
(* hand, which the scan has just recalled, with a result or without.       *)

Same(e, row) == e.mark = row.mark /\ e.opt = row.opt

Agree(m, t) ==
  \A x \in Nodes : m[x].res # "NONE" \/ t[x].res = "ABSENT" => Same(m[x], t[x])

InHand == pc \in {"check", "fix", "recheck", "stamp"} =>
             Same(mem[cur], table[cur])

AgreeInv == TypeOK /\ Agree(mem, table) /\ InHand

(* What a step other than the stamp may do to the marks and the stamps.    *)
Kept(t, u) ==
  \A x \in Nodes : /\ t[x].mark => u[x].mark
                   /\ u[x].opt = t[x].opt \/ u[x].opt = "due"

(* Whatever is recalled from a row carries its mark and stamp. *)
LEMMA HydratedSame ==
  ASSUME NEW m \in Memory, NEW t \in Table, Agree(m, t), NEW x \in Nodes
  PROVE  /\ Same(Hydrated(m[x], t[x]), t[x])
         /\ Same(Aged(Hydrated(m[x], t[x])), t[x])
<1>1. m[x] \in Entry /\ t[x] \in Row
  BY DEF Memory, Table
<1>2. Hydrated(m[x], t[x]) \in Entry /\ Same(Hydrated(m[x], t[x]), t[x])
  BY <1>1, HydratedProperties, HydratedOrigins DEF Agree, Same
<1> QED BY <1>2, AgedProperties DEF Same

(* Publishing entries that agree with their rows changes no mark or stamp. *)
LEMMA PublishedSame ==
  ASSUME NEW m \in Memory, NEW t \in Table, NEW S \in SUBSET Nodes,
         \A x \in S : Same(m[x], t[x])
  PROVE  \A x \in Nodes : /\ Same(Published(t, m, S)[x], t[x])
                          /\ Published(t, m, S)[x].res = "ABSENT" => t[x].res = "ABSENT"
<1>1. ASSUME NEW x \in S
      PROVE  Published(t, m, S)[x] = m[x] /\ m[x].res # "ABSENT"
  <2>1. Published(t, m, S)[x] = m[x]
    BY ONLY PublishedProperties, m \in Memory, t \in Table, S \in SUBSET Nodes, x \in S
  <2> QED BY <2>1 DEF Memory, Entry, Results
<1>2. ASSUME NEW x \in Nodes \ S
      PROVE  Same(Published(t, m, S)[x], t[x]) /\ Published(t, m, S)[x].res = t[x].res
  <2>1. Published(t, m, S)[x].opt = t[x].opt
    BY PublishedOrigins
  <2>2. Published(t, m, S)[x].mark = t[x].mark /\ Published(t, m, S)[x].res = t[x].res
    BY PublishedProperties
  <2> QED BY <2>1, <2>2 DEF Same
<1> QED BY <1>1, <1>2

(* So recording a check of a node that agrees leaves everything agreeing.  *)
StillAgree(m, t, q, u, n) ==
  /\ q \in Memory /\ u \in Table
  /\ Agree(q, u) /\ Same(q[n], u[n])
  /\ \A x \in Nodes : Same(u[x], t[x]) /\ q[x].mark = m[x].mark /\ q[x].opt = m[x].opt
  /\ \A x \in Nodes \ {n} : q[x].res = m[x].res

LEMMA RecordedAgrees ==
  ASSUME NEW m \in Memory, NEW t \in Table, Agree(m, t), NEW n \in Nodes,
         Same(m[n], t[n]), NEW r \in {"OK", "BAD"}, NEW trial \in BOOLEAN
  PROVE  StillAgree(m, t, Recorded(m, n, r, trial),
                    Published(t, Recorded(m, n, r, trial), {n}), n)
<1> DEFINE q == Recorded(m, n, r, trial)
           u == Published(t, q, {n})
<1>1. /\ q \in Memory
      /\ \A x \in Nodes : q[x].mark = m[x].mark /\ q[x].opt = m[x].opt
      /\ \A x \in Nodes \ {n} : q[x].res = m[x].res
  BY RecordedProperties
<1> HIDE DEF q
<1>2. {n} \in SUBSET Nodes /\ \A x \in {n} : Same(q[x], t[x])
  BY <1>1 DEF Same
<1>3. \A x \in Nodes : Same(u[x], t[x]) /\ (u[x].res = "ABSENT" => t[x].res = "ABSENT")
  BY <1>1, <1>2, PublishedSame
<1>4. u \in Table
  BY <1>1, <1>2, PublishedProperties
<1> HIDE DEF u
<1>5. ASSUME NEW x \in Nodes, q[x].res # "NONE" \/ u[x].res = "ABSENT"
      PROVE  Same(q[x], u[x])
  <2>1. Same(m[x], t[x])
    BY <1>1, <1>3, <1>5 DEF Agree
  <2> QED BY <1>1, <1>3, <2>1 DEF Same
<1>6. Same(q[n], u[n])
  BY <1>1, <1>3 DEF Same
<1> QED BY <1>1, <1>3, <1>4, <1>5, <1>6 DEF Agree, StillAgree, q, u

(* A failed attempt at the node in hand changes no mark or stamp at all.   *)
LEMMA FailedAgrees ==
  ASSUME TypeOK, Agree(mem, table), ~LossyTable, ~FixState, NEW n \in Nodes,
         Same(mem[n], table[n]), FailedAttempt(n)
  PROVE  Agree(mem', table') /\ Kept(table, table')
<1> DEFINE m1 == Recorded(mem, n, "BAD", FALSE)
           m2 == Reviewed(m1, table, n)
           m3 == Suspected(m2, n)
           newly == NewlySuspect(m2, n)
           t1 == Published(table, m1, {n})
           t2 == Published(t1, m3, newly)
<1>1. mem \in Memory /\ table \in Table
  BY DEF TypeOK, Memory, Table
<1>2. table' = t2 /\ mem' = m3
  BY DEF FailedAttempt, WriteTable, GiveUp
<1>3. /\ m1 \in Memory /\ t1 \in Table /\ Agree(m1, t1) /\ Same(m1[n], t1[n])
      /\ \A x \in Nodes : Same(t1[x], table[x]) /\ m1[x].mark = mem[x].mark /\ m1[x].opt = mem[x].opt
      /\ \A x \in Nodes \ {n} : m1[x].res = mem[x].res
  <2>1. \A trial \in BOOLEAN :
          StillAgree(mem, table, Recorded(mem, n, "BAD", trial),
                     Published(table, Recorded(mem, n, "BAD", trial), {n}), n)
    BY <1>1, RecordedAgrees
  <2>2. StillAgree(mem, table, m1, t1, n)
    BY <2>1
  <2> QED BY <2>2 DEF StillAgree
<1>4. Deps[n] \subseteq Nodes /\ n \notin Deps[n]
  BY GraphAssumption
<1>5. /\ m2 \in Memory
      /\ \A x \in Nodes : m2[x] = IF x \in Deps[n]
                                  THEN Aged(Hydrated(m1[x], table[x])) ELSE m1[x]
  BY <1>1, <1>3, ReviewedProperties
<1> HIDE DEF m1, m2, t1
<1>6. /\ m3 \in Memory /\ newly \subseteq Deps[n]
      /\ \A x \in Nodes : /\ m3[x].res = m2[x].res
                          /\ m3[x].mark = m2[x].mark /\ m3[x].opt = m2[x].opt
  <2>1. m3 \in Memory /\ newly \subseteq Deps[n]
    BY <1>5, SuspectedProperties
  <2>2. ASSUME NEW x \in Nodes
        PROVE  /\ m3[x].res = m2[x].res
               /\ m3[x].mark = m2[x].mark /\ m3[x].opt = m2[x].opt
    <3>1. m3[x].res = m2[x].res /\ m3[x].mark = m2[x].mark
      BY <1>5, SuspectedProperties
    <3>2. m3[x].opt = m2[x].opt
      BY <1>5, SuspectedOrigins
    <3> QED BY <3>1, <3>2
  <2> QED BY <2>1, <2>2
<1> HIDE DEF m3, newly, t2
<1>7. ASSUME NEW x \in Deps[n] PROVE Same(m3[x], t1[x])
  <2>1. /\ x \in Nodes /\ x # n
        /\ m1[x] \in Entry /\ table[x] \in Row
    BY <1>1, <1>3, <1>4 DEF Memory, Table
  <2>2. m1[x].res # "NONE" \/ table[x].res = "ABSENT" => Same(m1[x], table[x])
    BY <1>3, <2>1 DEF Agree, Same
  <2> DEFINE e == Hydrated(m1[x], table[x])
  <2>3. e \in Entry /\ Same(e, table[x])
    BY <2>1, <2>2, HydratedProperties, HydratedOrigins DEF Same
  <2>4. Aged(e).mark = e.mark /\ Aged(e).opt = e.opt
    BY <2>3, AgedProperties
  <2>5. m2[x] = Aged(e)
    BY <1>5, <2>1
  <2> HIDE DEF e
  <2> QED BY <1>3, <1>6, <2>1, <2>3, <2>4, <2>5 DEF Same
<1>8. newly \in SUBSET Nodes /\ \A x \in newly : Same(m3[x], t1[x])
  BY <1>4, <1>6, <1>7
<1>9. \A x \in Nodes : Same(t2[x], t1[x]) /\ (t2[x].res = "ABSENT" => t1[x].res = "ABSENT")
  BY <1>3, <1>6, <1>8, PublishedSame DEF t2
<1>10. ASSUME NEW x \in Nodes, m3[x].res # "NONE" \/ t2[x].res = "ABSENT"
       PROVE  Same(m3[x], t2[x])
  <2>1. CASE x \in Deps[n]
    BY <1>7, <1>9, <2>1 DEF Same
  <2>2. CASE x \notin Deps[n]
    <3>1. m2[x] = m1[x]
      BY <1>5, <2>2
    <3>2. Same(m1[x], t1[x])
      BY <1>3, <1>6, <1>9, <1>10, <3>1 DEF Agree
    <3> QED BY <1>6, <1>9, <3>1, <3>2 DEF Same
  <2> QED BY <2>1, <2>2
<1>11. Kept(table, t2)
  BY <1>3, <1>9 DEF Kept, Same
<1> QED BY <1>2, <1>10, <1>11 DEF Agree

(* A stamp renews the stamp and clears the mark of the node in hand.       *)
LEMMA StampAgrees ==
  ASSUME TypeOK, Agree(mem, table), ~LossyTable, StampFix
  PROVE  /\ Agree(mem', table')
         /\ \A x \in Nodes \ {cur} : Same(table'[x], table[x])
<1>1. cur \in Nodes /\ mem \in Memory /\ table \in Table
  BY CurIsNode DEF TypeOK, Memory, Table, StampFix, Walking
<1>2. mem' = [mem EXCEPT ![cur].opt = "fresh", ![cur].mark = FALSE]
  BY DEF StampFix
<1>3. table' = Published(table, mem', {cur})
  BY DEF StampFix, WriteTable
<1>4. mem' \in Memory /\ \A x \in Nodes \ {cur} : mem'[x] = mem[x]
  <2>1. mem[cur] \in Entry
    BY <1>1 DEF Memory
  <2>2. [mem[cur] EXCEPT !.opt = "fresh", !.mark = FALSE] \in Entry
    BY <2>1 DEF Entry
  <2> QED BY <1>1, <1>2, <2>2 DEF Memory
<1>5. {cur} \in SUBSET Nodes
  BY <1>1
<1>6. table'[cur] = mem'[cur]
  BY <1>1, <1>3, <1>4, <1>5, PublishedProperties
<1>7. ASSUME NEW x \in Nodes \ {cur}
      PROVE  Same(table'[x], table[x]) /\ table'[x].res = table[x].res
  <2>1. table'[x].opt = table[x].opt
    BY <1>1, <1>3, <1>4, <1>5, PublishedOrigins
  <2>2. table'[x].mark = table[x].mark /\ table'[x].res = table[x].res
    BY <1>1, <1>3, <1>4, <1>5, PublishedProperties
  <2> QED BY <2>1, <2>2 DEF Same
<1>8. Agree(mem', table')
  BY <1>4, <1>6, <1>7 DEF Agree, Same
<1> QED BY <1>7, <1>8

(* Ordering a forced walk sets marks, in both places at once.              *)
LEMMA StartAgrees ==
  ASSUME TypeOK, Agree(mem, table), ~LossyTable, NEW force \in BOOLEAN, StartWalk(force)
  PROVE  Agree(mem', table') /\ Kept(table, table')
<1>1. CASE force
  <2>1. mem' = Marked(mem) /\ table' = MarkedRows(table)
    BY <1>1 DEF StartWalk, WriteTable
  <2>2. mem \in Memory /\ table \in Table
    BY DEF TypeOK, Memory, Table
  <2>3. ASSUME NEW x \in Nodes
        PROVE  /\ mem'[x].opt = mem[x].opt /\ table'[x].opt = table[x].opt
               /\ mem'[x].res = mem[x].res
               /\ table'[x].res = "ABSENT" => table[x].res = "ABSENT"
    BY <2>1, <2>2, MarkedOrigins
  <2>4. ASSUME NEW x \in Nodes
        PROVE  \/ mem'[x].mark = TRUE /\ table'[x].mark = TRUE
               \/ mem'[x].mark = mem[x].mark /\ table'[x].mark = table[x].mark
    <3>1. CASE x \in Fixable
      <4>1. Marked(mem)[x] = [mem[x] EXCEPT !.mark = TRUE] /\ mem[x] \in Entry
        BY <2>2, <3>1 DEF Marked, Memory
      <4>2. table'[x].mark = TRUE
        <5>1. CASE table[x].res = "ABSENT"
          BY <2>1, <3>1, <5>1 DEF MarkedRows, Blank
        <5>2. CASE table[x].res # "ABSENT"
          <6>1. table[x] \in Entry
            BY <2>2, <5>2, RowCases DEF Table
          <6>2. table'[x] = [table[x] EXCEPT !.mark = TRUE]
            BY <2>1, <3>1, <5>2 DEF MarkedRows
          <6> QED BY <6>1, <6>2 DEF Entry
        <5> QED BY <5>1, <5>2
      <4> QED BY <2>1, <4>1, <4>2 DEF Entry
    <3>2. CASE x \notin Fixable
      BY <2>1, <2>2, <3>2, MarkedProperties
    <3> QED BY <3>1, <3>2
  <2> QED BY <2>3, <2>4 DEF Agree, Same, Kept
<1>2. CASE ~force
  BY <1>2 DEF StartWalk, Kept
<1> QED BY <1>1, <1>2

(* Time makes a stamp fall due in memory and in the dataset alike.         *)
LEMMA TimeAgrees ==
  ASSUME TypeOK, NEW n \in Nodes, Lapse(n) \/ FallDue(n)
  PROVE  /\ \A x \in Nodes : Same(mem[x], table[x]) => Same(mem'[x], table'[x])
         /\ \A x \in Nodes : mem'[x].res = mem[x].res /\ table'[x].res = table[x].res
         /\ Kept(table, table')
<1> DEFINE Stale(e) == IF e.res \in {"NONE", "ABSENT"} THEN e
                       ELSE [e EXCEPT !.stale = TRUE]
           Due(e) == IF e.opt = "fresh" THEN [e EXCEPT !.opt = "due"] ELSE e
<1>1. mem \in Memory /\ table \in Table /\ mem[n] \in Entry /\ table[n] \in Row
  BY DEF TypeOK, Memory, Table
<1>2. \A e \in Entry \cup Row : /\ Same(Stale(e), e) /\ Stale(e).res = e.res
                                 /\ Due(e).mark = e.mark /\ Due(e).res = e.res
                                 /\ Due(e).opt = IF e.opt = "fresh" THEN "due" ELSE e.opt
  BY DEF Row, Entry, Absent, Blank, Same
<1> HIDE DEF Stale, Due
<1>3. CASE Lapse(n)
  <2>1. mem' = [mem EXCEPT ![n] = Stale(mem[n])] /\ table' = [table EXCEPT ![n] = Stale(table[n])]
    BY <1>3 DEF Lapse, Stale
  <2> QED BY <1>1, <1>2, <2>1 DEF Memory, Table, Same, Kept
<1>4. CASE FallDue(n)
  <2>1. mem' = [mem EXCEPT ![n] = Due(mem[n])] /\ table' = [table EXCEPT ![n] = Due(table[n])]
    BY <1>4 DEF FallDue, Due
  <2> QED BY <1>1, <1>2, <2>1 DEF Memory, Table, Same, Kept
<1> QED BY <1>3, <1>4

LEMMA AgreeInvInit == Init => AgreeInv
<1> SUFFICES ASSUME Init PROVE AgreeInv
  OBVIOUS
<1>1. \A x \in Nodes : mem[x] = Blank /\ table[x] = Absent
  BY DEF Init
<1>2. Same(Blank, Absent) /\ pc = "idle"
  BY DEF Blank, Absent, Same, Init
<1> QED BY <1>1, <1>2, TypeInit DEF AgreeInv, Agree, InHand

(* Every step keeps the agreement, and only the stamp is more than Kept.   *)
LEMMA AgreeInvStep ==
  ASSUME ~LossyTable, ~FixState, ~Others, AgreeInv, [Next]_vars
  PROVE  /\ AgreeInv'
         /\ Kept(table, table') \/ (StampFix /\ \A x \in Nodes \ {cur} : Same(table'[x], table[x]))
<1>0. /\ TypeOK /\ TypeOK' /\ Agree(mem, table) /\ InHand
      /\ mem \in Memory /\ table \in Table
  BY TypeStep DEF AgreeInv, TypeOK, Memory, Table
<1>a. pc \in Walking \ {"scan"} => cur \in Nodes /\ Same(mem[cur], table[cur])
  BY <1>0, CurIsNode DEF TypeOK, InHand, Walking
<1> DEFINE Goal == Agree(mem', table') /\ InHand' /\ Kept(table, table')
<1>b. ASSUME Agree(mem', table'), Kept(table, table'),
             pc' \in Stopped \cup {"scan"}
      PROVE  Goal
  BY <1>b DEF InHand, Stopped
<1>c. ASSUME UNCHANGED <<mem, table>> PROVE Agree(mem', table') /\ Kept(table, table')
  BY <1>0, <1>c DEF Kept
<1>1. ASSUME NEW r \in {"OK", "BAD"}, NEW trial \in BOOLEAN,
             pc \in Walking \ {"scan"}, RecordCheck(cur, r, trial)
      PROVE  Agree(mem', table') /\ Kept(table, table') /\ Same(mem'[cur], table'[cur])
  <2>1. StillAgree(mem, table, mem', table', cur)
    BY <1>0, <1>1, <1>a, RecordedAgrees DEF RecordCheck, WriteTable
  <2> QED BY <2>1 DEF StillAgree, Kept, Same
<1>2. ASSUME ScanNode PROVE Goal
  <2>1. cur \in Nodes /\ mem[cur] \in Entry /\ table[cur] \in Row
    BY <1>0, <1>2, CurIsNode DEF ScanNode, Memory, Table
  <2> DEFINE e == Hydrated(mem[cur], table[cur])
  <2>2. Same(e, table[cur]) /\ Same(Aged(e), table[cur])
    BY <1>0, <2>1, HydratedSame
  <2>3. /\ mem' \in {[mem EXCEPT ![cur] = e], [mem EXCEPT ![cur] = Aged(e)]}
        /\ table' = table
        /\ pc' # "scan" => pos' = pos
    BY <1>2 DEF ScanNode
  <2> HIDE DEF e
  <2>4. /\ Same(mem'[cur], table'[cur])
        /\ \A x \in Nodes \ {cur} : mem'[x] = mem[x]
    BY <1>0, <2>1, <2>2, <2>3 DEF Memory
  <2>5. Agree(mem', table') /\ Kept(table, table')
    BY <1>0, <2>3, <2>4 DEF Agree, Kept
  <2>6. InHand'
    BY <2>3, <2>4 DEF InHand, cur
  <2> QED BY <2>5, <2>6
<1>3. ASSUME CheckPasses \/ CheckFails \/ SweepPoint \/ FixReturns \/ RecheckPasses PROVE Goal
  <2>1. pc \in Walking \ {"scan"}
    BY <1>3 DEF CheckPasses, CheckFails, SweepPoint, FixReturns, RecheckPasses, Walking
  <2>2. \/ \E r \in {"OK", "BAD"}, trial \in BOOLEAN : RecordCheck(cur, r, trial)
        \/ UNCHANGED <<mem, table>>
    BY <1>3 DEF CheckPasses, CheckFails, SweepPoint, FixReturns, RecheckPasses
  <2>3. Agree(mem', table') /\ Kept(table, table') /\ Same(mem'[cur], table'[cur])
    BY <1>1, <1>a, <1>c, <2>1, <2>2
  <2>4. pc' = "scan" \/ pos' = pos
    BY <1>3 DEF CheckPasses, CheckFails, SweepPoint, FixReturns, RecheckPasses
  <2>5. InHand'
    BY <2>3, <2>4 DEF InHand, cur
  <2> QED BY <2>3, <2>5
<1>4. ASSUME FixGivesUp \/ RecheckFails PROVE Goal
  <2>1. cur \in Nodes /\ Same(mem[cur], table[cur]) /\ FailedAttempt(cur)
    BY <1>4, <1>a DEF FixGivesUp, RecheckFails, Walking
  <2>2. pc' \in {"scan", "failed"}
    BY <2>1 DEF FailedAttempt, GiveUp, Restarted
  <2> QED BY <1>0, <1>b, <2>1, <2>2, FailedAgrees DEF Stopped
<1>5. ASSUME NEW force \in BOOLEAN, StartWalk(force) PROVE Goal
  BY <1>0, <1>5, <1>b, StartAgrees DEF StartWalk, Restarted
<1>6. ASSUME Finish \/ CannotFix \/ Raise \/ Terminate PROVE Goal
  BY <1>6, <1>b, <1>c DEF Finish, CannotFix, Raise, Terminate, Stopped
<1>7. ASSUME Restart PROVE Goal
  <2>1. table' = table /\ pc' = "idle" /\ \A x \in Nodes : mem'[x] = Blank
    BY <1>7 DEF Restart
  <2>2. Blank.res = "NONE" /\ Same(Blank, Absent)
    BY DEF Blank, Absent, Same
  <2>3. \A x \in Nodes : table[x].res = "ABSENT" => table[x] = Absent
    BY <1>0, RowCases DEF Table
  <2>4. Agree(mem', table') /\ Kept(table, table')
    BY <2>1, <2>2, <2>3 DEF Agree, Kept
  <2> QED BY <1>b, <2>1, <2>4 DEF Stopped
<1>8. ASSUME NEW n \in Nodes, Lapse(n) \/ FallDue(n) PROVE Goal
  <2>1. /\ \A x \in Nodes : Same(mem[x], table[x]) => Same(mem'[x], table'[x])
        /\ \A x \in Nodes : mem'[x].res = mem[x].res /\ table'[x].res = table[x].res
        /\ Kept(table, table')
    BY <1>0, <1>8, TimeAgrees
  <2>2. pc' = pc /\ pos' = pos
    BY <1>8 DEF Lapse, FallDue
  <2>3. InHand'
    BY <1>a, <2>1, <2>2 DEF InHand, cur, Walking
  <2> QED BY <1>0, <2>1, <2>3 DEF Agree
<1>9. ASSUME UNCHANGED vars PROVE Goal
  BY <1>0, <1>9, <1>c DEF vars, InHand, cur
<1>10. CASE StampFix
  <2>1. pc' = "scan"
    BY <1>10 DEF StampFix, Restarted
  <2> QED BY <1>0, <1>10, <2>1, StampAgrees DEF AgreeInv, Agree, InHand
<1>12. \A n \in Nodes : ~OthersWrite(n)
  BY DEF OthersWrite
<1>11. CASE ~StampFix
  <2>1. Goal
    BY <1>2, <1>3, <1>4, <1>5, <1>6, <1>7, <1>8, <1>9, <1>11, <1>12 DEF Next, WalkStep
  <2> QED BY <1>0, <2>1 DEF AgreeInv, Agree
<1> QED BY <1>10, <1>11

(* "This is the ONLY way either is cleared" (_record_own_fix): whatever a  *)
(* walk measures, recalls and overwrites, only the stamp of a successful   *)
(* fix clears a mark or renews a stamp in the dataset, and only the fixed  *)
(* node's own; as long as no write of the dataset is lost, nobody else     *)
(* writes it, and the walks are entered by fix_targets (fix_state also     *)
(* writes a failure into memory that recalled nothing).                    *)
THEOREM OnlyFixClearsHolds ==
  ASSUME ~LossyTable, ~FixState, ~Others PROVE Spec => OnlyFixClears
<1>1. ASSUME AgreeInv, [Next]_vars
      PROVE  [\A n \in Nodes :
                \/ table[n].mark /\ ~table'[n].mark
                \/ table[n].opt # table'[n].opt /\ table'[n].opt # "due"
                => pc = "stamp" /\ cur = n]_vars
  <2>1. CASE Kept(table, table')
    BY <2>1 DEF Kept
  <2>2. CASE StampFix /\ \A x \in Nodes \ {cur} : Same(table'[x], table[x])
    BY <2>2 DEF StampFix, Same
  <2> QED BY <1>1, <2>1, <2>2, AgreeInvStep
<1>2. AgreeInv /\ [Next]_vars => AgreeInv'
  BY AgreeInvStep
<1> QED BY <1>1, <1>2, AgreeInvInit, PTL DEF Spec, OnlyFixClears

-------------------------------------------------------------------------------
(* What is left when others write.                                         *)
(*                                                                         *)
(* A check result in memory shields the mark beside it from the dataset:   *)
(* an entry that holds one is never read from its row again, and no step   *)
(* but the stamp takes either away while the process lives.                *)

Keeps(S, m) == \A n \in S : m[n].mark /\ m[n].res # "NONE"

ForcedMarked == forced \subseteq Fixable /\ Keeps(forced, mem)

RefixInv == IInv /\ ForcedMarked

LEMMA RecordedKeeps ==
  ASSUME NEW m \in Memory, NEW S \in SUBSET Nodes, Keeps(S, m), NEW n \in Nodes,
         NEW r \in {"OK", "BAD"}, NEW t \in BOOLEAN
  PROVE  Keeps(S, Recorded(m, n, r, t))
<1> DEFINE q == Recorded(m, n, r, t)
<1>1. /\ q[n].res = r
      /\ \A x \in Nodes : q[x].mark = m[x].mark /\ (x # n => q[x].res = m[x].res)
  BY RecordedProperties
<1> HIDE DEF q
<1>2. Keeps(S, q)
  BY <1>1 DEF Keeps
<1> QED BY <1>2 DEF q

(* Reading an entry of S again finds the result, and leaves the row alone. *)
LEMMA RecalledKeeps ==
  ASSUME NEW e \in Entry, NEW row \in Row, e.mark, e.res # "NONE"
  PROVE  \A q \in {Hydrated(e, row), Aged(Hydrated(e, row))} : q.mark /\ q.res # "NONE"
<1>1. Hydrated(e, row) = e
  BY HydratedProperties
<1>2. Aged(e).mark = e.mark /\ (Aged(e).res = "NONE" <=> e.res = "NONE")
  BY AgedProperties
<1> QED BY <1>1, <1>2

LEMMA FailedAttemptKeeps ==
  ASSUME TypeOK, Keeps(forced, mem), NEW n \in Nodes, FailedAttempt(n)
  PROVE  Keeps(forced, mem')
<1> DEFINE m1 == Recorded(mem, n, "BAD", FALSE)
           m2 == Reviewed(m1, table, n)
           m3 == Suspected(m2, n)
<1>1. mem \in Memory /\ table \in Table /\ forced \in SUBSET Nodes
  BY DEF TypeOK, Memory, Table
<1>2. m1 \in Memory /\ Keeps(forced, m1)
  <2>1. \A t \in BOOLEAN : Recorded(mem, n, "BAD", t) \in Memory
    BY <1>1, RecordedProperties
  <2>2. \A t \in BOOLEAN : Keeps(forced, Recorded(mem, n, "BAD", t))
    BY <1>1, RecordedKeeps
  <2> QED BY <2>1, <2>2
<1> HIDE DEF m1
<1>3. /\ m2 \in Memory
      /\ \A m \in Nodes : m2[m] = IF m \in Deps[n]
                                  THEN Aged(Hydrated(m1[m], table[m])) ELSE m1[m]
  BY <1>1, <1>2, ReviewedProperties
<1>4. Keeps(forced, m2)
  <2> SUFFICES ASSUME NEW m \in forced PROVE m2[m].mark /\ m2[m].res # "NONE"
    BY DEF Keeps
  <2>1. /\ m \in Nodes /\ m1[m] \in Entry /\ table[m] \in Row
        /\ m1[m].mark /\ m1[m].res # "NONE"
    BY <1>1, <1>2 DEF Keeps, Memory, Table
  <2> QED BY <1>3, <2>1, RecalledKeeps
<1> HIDE DEF m2
<1>5. m3 \in Memory /\ \A m \in Nodes : m3[m].mark = m2[m].mark /\ m3[m].res = m2[m].res
  BY <1>3, SuspectedProperties
<1> HIDE DEF m3
<1>6. mem' = m3 \/ mem' = [m3 EXCEPT ![Target].res = "BAD", ![Target].stale = FALSE,
                                     ![Target].trial = FALSE]
  BY DEF FailedAttempt, GiveUp, m1, m2, m3
<1>7. ASSUME NEW m \in forced PROVE mem'[m].mark /\ mem'[m].res # "NONE"
  <2>1. m \in Nodes /\ m3[m] \in Entry /\ m3[m].mark /\ m3[m].res # "NONE"
    BY <1>1, <1>4, <1>5 DEF Keeps, Memory
  <2>2. CASE mem' = m3
    BY <2>1, <2>2
  <2>3. CASE mem' = [m3 EXCEPT ![Target].res = "BAD", ![Target].stale = FALSE,
                               ![Target].trial = FALSE]
    <3>1. CASE m # Target
      BY <1>5, <2>1, <2>3, <3>1 DEF Memory
    <3>2. CASE m = Target
      <4>1. mem'[m] = [m3[m] EXCEPT !.res = "BAD", !.stale = FALSE, !.trial = FALSE]
        BY <1>5, <2>1, <2>3, <3>2 DEF Memory
      <4> QED BY <2>1, <4>1 DEF Entry
    <3> QED BY <3>1, <3>2
  <2> QED BY <1>6, <2>2, <2>3
<1> QED BY <1>7 DEF Keeps

LEMMA RefixInvStep == RefixInv /\ [Next]_vars => RefixInv'
<1> SUFFICES ASSUME RefixInv, [Next]_vars PROVE ForcedMarked'
  BY IInvStep DEF RefixInv
<1>0. /\ TypeOK /\ mem \in Memory /\ table \in Table
      /\ forced \in SUBSET Nodes /\ forced \subseteq Fixable /\ Keeps(forced, mem)
  BY DEF RefixInv, IInv, TypeOK, Memory, Table, ForcedMarked
<1>a. pc \in Walking \ {"scan"} => cur \in Nodes
  BY <1>0, CurIsNode DEF TypeOK
<1>b. ASSUME forced' = forced, Keeps(forced, mem') PROVE ForcedMarked'
  BY <1>0, <1>b DEF ForcedMarked, Keeps
<1>1. ASSUME NEW force \in BOOLEAN, StartWalk(force) PROVE ForcedMarked'
  <2>1. CASE force
    <3>1. mem' = Marked(mem) /\ forced' = forced \cup {n \in Fixable : mem[n].res # "NONE"}
      BY <1>1, <2>1 DEF StartWalk
    <3>2. ASSUME NEW n \in forced' PROVE mem'[n].mark /\ mem'[n].res # "NONE" /\ n \in Fixable
      <4>1. n \in Fixable /\ n \in Nodes /\ mem[n].res # "NONE"
        BY <1>0, <3>1, GraphAssumption DEF Keeps
      <4>2. mem'[n].mark
        BY <1>0, <3>1, <4>1, MarkedProperties
      <4>3. mem'[n].res = mem[n].res
        BY <1>0, <3>1, <4>1, MarkedOrigins
      <4> QED BY <4>1, <4>2, <4>3
    <3> QED BY <3>2 DEF ForcedMarked, Keeps
  <2>2. CASE ~force
    BY <1>0, <1>1, <1>b, <2>2 DEF StartWalk
  <2> QED BY <2>1, <2>2
<1>2. CASE ScanNode
  <2>1. cur \in Nodes /\ mem[cur] \in Entry /\ table[cur] \in Row
    BY <1>0, <1>2, CurIsNode DEF ScanNode, Memory, Table
  <2> DEFINE e == Hydrated(mem[cur], table[cur])
  <2>2. mem' \in {[mem EXCEPT ![cur] = e], [mem EXCEPT ![cur] = Aged(e)]}
    BY <1>2 DEF ScanNode
  <2>3. cur \in forced => \A q \in {e, Aged(e)} : q.mark /\ q.res # "NONE"
    BY <1>0, <2>1, RecalledKeeps DEF Keeps
  <2> HIDE DEF e
  <2>4. Keeps(forced, mem')
    BY <1>0, <2>1, <2>2, <2>3 DEF Keeps, Memory
  <2> QED BY <1>2, <1>b, <2>4 DEF ScanNode
<1>3. ASSUME CheckPasses \/ CheckFails \/ SweepPoint \/ FixReturns \/ RecheckPasses
      PROVE  ForcedMarked'
  <2>1. /\ pc \in Walking \ {"scan"} /\ forced' = forced
        /\ \/ \E r \in {"OK", "BAD"}, t \in BOOLEAN : mem' = Recorded(mem, cur, r, t)
           \/ mem' = mem
    BY <1>3 DEF CheckPasses, CheckFails, SweepPoint, FixReturns, RecheckPasses, RecordCheck,
       Walking
  <2>2. Keeps(forced, mem')
    BY <1>0, <1>a, <2>1, RecordedKeeps
  <2> QED BY <1>b, <2>1, <2>2
<1>4. CASE FixGivesUp \/ RecheckFails
  <2>1. cur \in Nodes /\ FailedAttempt(cur)
    BY <1>4, <1>a DEF FixGivesUp, RecheckFails, Walking
  <2>2. Keeps(forced, mem')
    BY <1>0, <2>1, FailedAttemptKeeps
  <2> QED BY <1>b, <2>1, <2>2 DEF FailedAttempt
<1>5. CASE StampFix
  <2>1. /\ forced' = forced \ {cur}
        /\ mem' = [mem EXCEPT ![cur] = [mem[cur] EXCEPT !.opt = "fresh", !.mark = FALSE]]
    BY <1>0, <1>5, <1>a DEF StampFix, Walking, Memory
  <2>2. \A n \in forced' : mem'[n] = mem[n]
    BY <1>0, <2>1 DEF Memory
  <2> QED BY <1>0, <2>1, <2>2 DEF ForcedMarked, Keeps
<1>6. CASE Finish \/ CannotFix \/ Raise \/ Terminate \/ UNCHANGED vars
           \/ \E n \in Nodes : OthersWrite(n)
  BY <1>0, <1>6, <1>b DEF Finish, CannotFix, Raise, Terminate, OthersWrite, vars
<1>7. CASE Restart
  BY <1>7 DEF Restart, ForcedMarked, Keeps
<1>8. ASSUME NEW n \in Nodes, Lapse(n) \/ FallDue(n) PROVE ForcedMarked'
  <2>1. \A m \in Nodes : mem'[m].mark = mem[m].mark /\ mem'[m].res = mem[m].res
    BY <1>0, <1>8, TimeChangesNoNeed
  <2>2. Keeps(forced, mem')
    BY <1>0, <2>1 DEF Keeps
  <2> QED BY <1>8, <1>b, <2>2 DEF Lapse, FallDue
<1> QED
  BY <1>1, <1>2, <1>3, <1>4, <1>5, <1>6, <1>7, <1>8 DEF Next, WalkStep

(* "The in-memory marks are what the walk itself consumes"                 *)
(* (_mark_uncalibrated, calibration.py 430): whatever others write into    *)
(* the dataset, and whatever writes of it are lost, a walk that returns    *)
(* has re-fixed all that forced walks of its process ordered, and of which *)
(* the process had a check in memory.                                      *)
THEOREM ForcedWalkRefixesHolds == Spec => []ForcedWalkRefixes
<1>1. Init => RefixInv
  BY IInvInit DEF Init, RefixInv, ForcedMarked, Keeps
<1>2. RefixInv => ForcedWalkRefixes
  <2> SUFFICES ASSUME RefixInv, pc = "done", NEW n \in forced PROVE FALSE
    BY DEF ForcedWalkRefixes
  <2>1. n \in Nodes /\ n \in Fixable /\ Settled(n) /\ mem[n].mark
    BY DEF RefixInv, IInv, DoneMeansSettled, TypeOK, ForcedMarked, Keeps
  <2> QED BY <2>1 DEF Settled
<1> QED BY <1>1, <1>2, RefixInvStep, PTL DEF Spec

-------------------------------------------------------------------------------
(* The contract.                                                           *)
(*                                                                         *)
(* The initial states of the walk are the contract's, and every step of it *)
(* is a step of the contract or none.                                      *)

(* What the walk is about to stamp it has just measured good. *)
StampedGood == pc = "stamp" => mem[cur].res = "OK" /\ mem[cur].susp = {}

ContractInv == MarkInv /\ StampedGood

LEMMA ContractInvInit == Init => ContractInv
BY MarkInvInit DEF Init, ContractInv, StampedGood

LEMMA ContractInvStep ==
  ASSUME ~LossyTable, ~FixState PROVE ContractInv /\ [Next]_vars => ContractInv'
<1> SUFFICES ASSUME ContractInv, [Next]_vars PROVE StampedGood'
  BY MarkInvStep DEF ContractInv
<1>0. TypeOK /\ mem \in Memory
  BY DEF ContractInv, MarkInv, IInv, TypeOK, Memory
<1>1. CASE RecheckPasses
  <2>1. cur \in Nodes /\ cur' = cur /\ mem' = Recorded(mem, cur, "OK", FALSE)
    BY <1>0, <1>1, CurIsNode DEF RecheckPasses, RecordCheck, TypeOK, Walking, cur
  <2>2. \A t \in BOOLEAN : /\ Recorded(mem, cur, "OK", t)[cur].res = "OK"
                          /\ Recorded(mem, cur, "OK", t)[cur].susp = {}
    BY <1>0, <2>1, RecordedProperties
  <2> QED BY <2>1, <2>2 DEF StampedGood
<1>2. ASSUME NEW n \in Nodes, Lapse(n) \/ FallDue(n) PROVE StampedGood'
  <2>1. pc' = pc /\ cur' = cur /\ (pc = "stamp" => cur \in Nodes)
    BY <1>0, <1>2, CurIsNode DEF Lapse, FallDue, TypeOK, Walking, cur
  <2>2. \A m \in Nodes : mem'[m].res = mem[m].res /\ mem'[m].susp = mem[m].susp
    BY <1>0, <1>2, TimeChangesNoNeed
  <2> QED BY <2>1, <2>2 DEF ContractInv, StampedGood
<1>3. ASSUME UNCHANGED vars \/ \E n \in Nodes : OthersWrite(n) PROVE StampedGood'
  BY <1>3 DEF OthersWrite, vars, ContractInv, StampedGood, cur
<1>4. ASSUME \/ ScanNode \/ Finish \/ CheckPasses \/ CheckFails \/ SweepPoint \/ FixReturns
             \/ FixGivesUp \/ CannotFix \/ RecheckFails \/ StampFix
             \/ \E force \in BOOLEAN : StartWalk(force)
             \/ Raise \/ Terminate \/ Restart
      PROVE  pc' # "stamp"
  BY <1>4 DEF ScanNode, Finish, CheckPasses, CheckFails, SweepPoint, FixReturns, FixGivesUp,
     CannotFix, RecheckFails, StampFix, StartWalk, Raise, Terminate, Restart,
     FailedAttempt, GiveUp, Restarted
<1> QED BY <1>1, <1>2, <1>3, <1>4 DEF Next, WalkStep, StampedGood

-------------------------------------------------------------------------------
(* Everything below the node in hand comes before it in the scan order,    *)
(* and so is settled.                                                      *)
LEMMA BelowIsSettled ==
  ASSUME IInv, pc \in Walking, pos <= Len(Order)
  PROVE  /\ cur \in Nodes /\ Deps[cur] \subseteq Below[cur] /\ cur \notin Deps[cur]
         /\ \A m \in Below[cur] : Settled(m)
<1>1. cur \in Nodes /\ pos \in 1..Len(Order) /\ Len(Order) \in Nat
  BY CurIsNode, OrderFacts DEF IInv, TypeOK
<1> DEFINE Before(i) == {Order[j] : j \in 1..(i - 1)}
<1>2. \A i \in 1..Len(Order) : Deps[Order[i]] \subseteq Before(i)
  BY OrderAssumption
<1>3. Before(pos) \in SUBSET Nodes
  BY <1>1, OrderFacts
<1>4. Deps[cur] \subseteq Before(pos)
  BY <1>1, <1>2 DEF cur
<1>5. ASSUME NEW k \in Before(pos) PROVE Deps[k] \subseteq Before(pos)
  <2>1. PICK j \in 1..(pos - 1) : k = Order[j]
    OBVIOUS
  <2>2. j \in 1..Len(Order) /\ Before(j) \subseteq Before(pos)
    BY <1>1
  <2> QED BY <1>2, <2>1, <2>2
<1>6. Below[cur] \subseteq Before(pos)
  BY <1>1, <1>3, <1>4, <1>5 DEF Below
<1>7. \A m \in Before(pos) : Settled(m)
  BY DEF IInv, MostBasicFirst
<1> QED BY <1>1, <1>6, <1>7, DepsBelow, GraphAssumption

(* A step that settles at most the node in hand, unsettles at most it and  *)
(* its direct dependencies, and waives an order only of a settled node, is *)
(* one the contract allows.                                                *)
LEMMA Touches ==
  ASSUME IInv, pc \in Walking, pos <= Len(Order),
         \A m \in Nodes \ {cur} : ~Settled(m) => ~Settled(m)',
         \A m \in Nodes \ ({cur} \cup Deps[cur]) : Settled(m) => Settled(m)',
         owed' = owed \/ (owed' = owed \ {cur} /\ mem'[cur].res = "OK" /\ mem'[cur].susp = {}
                           /\ ~mem'[cur].mark /\ mem'[cur].opt # "never")
  PROVE  cur \in Nodes /\ Contract!Touch(cur)
<1> DEFINE work == {n \in Nodes : ~Settled(n)}
<1>1. /\ cur \in Nodes /\ Deps[cur] \subseteq Below[cur] /\ cur \notin Deps[cur]
      /\ \A m \in Below[cur] : Settled(m)
  BY BelowIsSettled
<1>2. Below[cur] \cap work = {}
  BY <1>1
<1>3. work \ {cur} \subseteq work'
  OBVIOUS
<1>4. work' \subseteq work \cup {cur} \cup Deps[cur]
  OBVIOUS
<1>5. \/ Debt' = Debt
      \/ Debt' = Debt \ {cur} /\ cur \notin work'
  <2>1. CASE owed' = owed
    BY <2>1 DEF Debt
  <2>2. CASE /\ owed' = owed \ {cur} /\ mem'[cur].res = "OK" /\ mem'[cur].susp = {}
             /\ ~mem'[cur].mark /\ mem'[cur].opt # "never"
    <3>1. cur \notin work'
      BY <2>2 DEF Settled
    <3> QED BY <2>2, <3>1 DEF Debt
  <2> QED BY <2>1, <2>2
<1>6. Phase = "walking"
  BY DEF Phase
<1> QED BY <1>1, <1>2, <1>3, <1>4, <1>5, <1>6 DEF Contract!Touch, Debt

-------------------------------------------------------------------------------
(* A measurement of the node in hand is recorded.  A good one withdraws    *)
(* suspicions too, but only of nodes that are settled without that.        *)
LEMMA CheckTouches ==
  ASSUME IInv, pc \in Walking, pos <= Len(Order), UNCHANGED owed,
         NEW r \in {"OK", "BAD"}, NEW t \in BOOLEAN, RecordCheck(cur, r, t)
  PROVE  cur \in Nodes /\ Contract!Touch(cur)
<1>1. cur \in Nodes /\ TypeOK /\ \A m \in Below[cur] : Settled(m)
  BY BelowIsSettled DEF IInv
<1>2. ASSUME NEW m \in Nodes \ {cur}, ~Settled(m) PROVE ~Settled(m)'
  <2>1. m \notin Below[cur]
    BY <1>1, <1>2
  <2>2. mem'[m] = mem[m]
    BY <1>2, <2>1 DEF RecordCheck, Recorded
  <2> QED BY <1>2, <2>2 DEF Settled
<1>3. ASSUME NEW m \in Nodes \ {cur}, Settled(m) PROVE Settled(m)'
  BY <1>1, <1>3, RecordCheckSettled
<1> QED BY <1>2, <1>3, Touches

(* A failed attempt leaves the node in hand bad and may cast suspicion on  *)
(* its direct dependencies, which were settled, and on nothing else.       *)
LEMMA FailureTouches ==
  ASSUME IInv, ~FixState, pc \in Walking, pos <= Len(Order), FailedAttempt(cur)
  PROVE  /\ cur \in Nodes /\ Contract!Touch(cur)
         /\ mem'[cur].res = "BAD" /\ pc' \in {"scan", "failed"}
<1> DEFINE m1 == Recorded(mem, cur, "BAD", FALSE)
           m2 == Reviewed(m1, table, cur)
           m3 == Suspected(m2, cur)
<1>1. /\ cur \in Nodes /\ Deps[cur] \subseteq Below[cur] /\ cur \notin Deps[cur]
      /\ \A m \in Below[cur] : Settled(m)
  BY BelowIsSettled
<1>2. mem' = m3 /\ owed' = owed /\ pc' \in {"scan", "failed"}
  BY DEF FailedAttempt, GiveUp, Restarted
<1>3. mem \in Memory /\ table \in Table
  BY DEF IInv, TypeOK, Memory, Table
<1>4. m1 \in Memory /\ m1[cur].res = "BAD"
  <2>1. \A t \in BOOLEAN : Recorded(mem, cur, "BAD", t) \in Memory
                          /\ Recorded(mem, cur, "BAD", t)[cur].res = "BAD"
    BY <1>1, <1>3, RecordedProperties
  <2> QED BY <2>1
<1>5. \A m \in Nodes \ {cur} : m1[m] = mem[m]
  BY DEF Recorded
<1> HIDE DEF m1
<1>6. m2 \in Memory /\ \A m \in Nodes \ Deps[cur] : m2[m] = m1[m]
  BY <1>1, <1>3, <1>4, ReviewedProperties
<1> HIDE DEF m2
<1>7. \A m \in Nodes \ Deps[cur] : m3[m] = m2[m]
  BY <1>1, <1>6, SuspectedProperties
<1> HIDE DEF m3
<1>8. mem'[cur].res = "BAD"
  BY <1>1, <1>2, <1>4, <1>6, <1>7
<1>9. \A m \in Nodes \ ({cur} \cup Deps[cur]) : mem'[m] = mem[m]
  BY <1>2, <1>5, <1>6, <1>7
<1>10. \A m \in Nodes \ {cur} : ~Settled(m) => ~Settled(m)'
  <2> SUFFICES ASSUME NEW m \in Nodes \ {cur}, ~Settled(m) PROVE ~Settled(m)'
    OBVIOUS
  <2>1. m \notin Deps[cur]
    BY <1>1
  <2> QED BY <1>9, <2>1 DEF Settled
<1>11. \A m \in Nodes \ ({cur} \cup Deps[cur]) : Settled(m) => Settled(m)'
  BY <1>9 DEF Settled
<1> QED BY <1>1, <1>2, <1>8, <1>10, <1>11, Touches

(* The stamp settles the node in hand, and so carries out what was owed.   *)
LEMMA StampTouches ==
  ASSUME ContractInv, StampFix
  PROVE  cur \in Nodes /\ Contract!Touch(cur)
<1>1. /\ cur \in Nodes /\ IInv /\ pc \in Walking /\ pos <= Len(Order)
      /\ mem[cur] \in Entry /\ mem \in [Nodes -> Entry]
  BY CurIsNode DEF ContractInv, MarkInv, IInv, TypeOK, StampFix, Walking
<1>2. mem' = [mem EXCEPT ![cur] = [mem[cur] EXCEPT !.opt = "fresh", !.mark = FALSE]]
      /\ owed' = owed \ {cur}
  BY <1>1 DEF StampFix
<1>3. /\ \A m \in Nodes \ {cur} : mem'[m] = mem[m]
      /\ mem'[cur] = [mem[cur] EXCEPT !.opt = "fresh", !.mark = FALSE]
  BY <1>1, <1>2
<1>4. /\ mem'[cur].res = "OK" /\ mem'[cur].susp = {}
      /\ ~mem'[cur].mark /\ mem'[cur].opt # "never"
  BY <1>1, <1>3 DEF ContractInv, StampedGood, StampFix, Entry
<1>5. \A m \in Nodes \ {cur} : Settled(m)' <=> Settled(m)
  BY <1>3 DEF Settled
<1> QED BY <1>1, <1>2, <1>4, <1>5, Touches

(* The scan only ever looks at the node in hand. *)
LEMMA ScanTouches ==
  ASSUME IInv, ScanNode
  PROVE  cur \in Nodes /\ Contract!Touch(cur)
<1>1. cur \in Nodes /\ pc \in Walking /\ pos <= Len(Order) /\ owed' = owed
  BY CurIsNode DEF IInv, ScanNode, Walking
<1>2. \A m \in Nodes \ {cur} : mem'[m] = mem[m]
  BY DEF ScanNode, IInv, TypeOK
<1>3. \A m \in Nodes \ {cur} : Settled(m)' <=> Settled(m)
  BY <1>2 DEF Settled
<1> QED BY <1>1, <1>3, Touches

-------------------------------------------------------------------------------
Work == {n \in Nodes : ~Settled(n)}

LEMMA ContractInit == Init => Contract!Init
<1> SUFFICES ASSUME Init PROVE Contract!Init
  OBVIOUS
<1>1. \A n \in Nodes : ~Settled(n)
  BY DEF Init, Settled, Blank
<1> QED BY <1>1 DEF Init, Contract!Init, Phase, Walking

(* A call is a call. *)
LEMMA StartCalls ==
  ASSUME TypeOK, NEW force \in BOOLEAN, StartWalk(force) PROVE Contract!Call(force)
<1>1. Phase # "walking" /\ Phase' = "walking"
  BY DEF StartWalk, Restarted, Phase, Walking, Stopped
<1>2. CASE ~force
  <2>1. Work' = Work /\ owed' = owed
    BY <1>2 DEF StartWalk, Work, Settled
  <2> QED BY <1>1, <1>2, <2>1 DEF Contract!Call, Work
<1>3. CASE force
  <2>1. mem' = Marked(mem) /\ owed' = owed \cup Fixable
    BY <1>3 DEF StartWalk
  <2>2. mem \in Memory /\ table \in Table /\ Fixable \subseteq Nodes
    BY GraphAssumption DEF TypeOK, Memory, Table
  <2>3. \A m \in Nodes \ Fixable : mem'[m] = mem[m]
    BY <2>1, <2>2, MarkedProperties
  <2>4. \A m \in Fixable : mem'[m].mark
    BY <2>1, <2>2, MarkedProperties
  <2>5. \A m \in Nodes : ~Settled(m)' <=> ~Settled(m) \/ m \in Fixable
    BY <2>3, <2>4 DEF Settled
  <2>6. Work' = Work \cup Fixable
    BY <2>2, <2>5 DEF Work
  <2> QED BY <1>1, <1>3, <2>1, <2>6 DEF Contract!Call, Work
<1> QED BY <1>2, <1>3

(* A walk that returns has settled every node, and a settled node is not   *)
(* marked, so nothing is due.                                              *)
LEMMA FinishReturns ==
  ASSUME MarkInv, IInv', Finish PROVE Contract!Return
<1>1. \A n \in Nodes : Settled(n)'
  BY DEF Finish, IInv, DoneMeansSettled
<1>2. \A n \in Nodes : Settled(n)
  BY <1>1 DEF Finish, Settled
<1>3. Debt = {}
  <2> SUFFICES ASSUME NEW n \in Debt PROVE FALSE
    OBVIOUS
  <2>1. MarkedAt(n, mem[n], table[n]) /\ Settled(n)
    BY <1>2 DEF MarkInv, IInv, TypeOK, OwedMarked, Debt
  <2> QED BY <2>1 DEF MarkedAt, Settled
<1>4. Phase = "walking" /\ Phase' = "returned" /\ Work' = Work /\ owed' = owed
  BY DEF Finish, Phase, Walking, Work, Settled
<1> QED BY <1>2, <1>3, <1>4 DEF Contract!Return, Work, Debt

(* What leaves results, suspicions, marks and orders alone is no step of   *)
(* the contract's.                                                         *)
LEMMA Unnoticed ==
  ASSUME TypeOK, \/ UNCHANGED vars
                 \/ \E n \in Nodes : Lapse(n) \/ FallDue(n) \/ OthersWrite(n)
  PROVE  UNCHANGED <<Phase, Work, owed>>
<1>1. CASE \E n \in Nodes : Lapse(n) \/ FallDue(n)
  <2>1. pc' = pc /\ owed' = owed
    BY <1>1 DEF Lapse, FallDue
  <2>2. \A m \in Nodes : Settled(m)' <=> Settled(m)
    BY <1>1, TimeChangesNoNeed DEF Settled
  <2> QED BY <2>1, <2>2 DEF Phase, Work
<1>2. CASE UNCHANGED vars \/ \E n \in Nodes : OthersWrite(n)
  BY <1>2 DEF vars, OthersWrite, Phase, Work, Settled
<1> QED BY <1>1, <1>2

LEMMA ContractStep ==
  ASSUME ~LossyTable, ~FixState, ContractInv, [Next]_vars
  PROVE  Contract!Next \/ UNCHANGED <<Phase, Work, owed>>
<1>0. TypeOK /\ IInv /\ MarkInv /\ IInv'
  BY IInvStep DEF ContractInv, MarkInv, IInv
<1>1. ASSUME NEW force \in BOOLEAN, StartWalk(force) PROVE Contract!Next
  BY <1>0, <1>1, StartCalls DEF Contract!Next
<1>2. CASE ScanNode \/ CheckPasses \/ CheckFails \/ SweepPoint \/ FixReturns
           \/ RecheckPasses \/ StampFix
  <2>1. /\ pc \in Walking /\ pos <= Len(Order) /\ pc' \in Walking
    BY <1>0, <1>2 DEF ScanNode, CheckPasses, CheckFails, SweepPoint, FixReturns,
       RecheckPasses, StampFix, Restarted, Walking, TypeOK
  <2>2. cur \in Nodes /\ Contract!Touch(cur)
    <3>1. CASE ScanNode
      BY <1>0, <3>1, ScanTouches
    <3>2. CASE StampFix
      BY <3>2, StampTouches
    <3>3. CASE CheckPasses \/ CheckFails \/ SweepPoint \/ FixReturns \/ RecheckPasses
      <4>1. /\ UNCHANGED owed
            /\ \/ \E r \in {"OK", "BAD"}, t \in BOOLEAN : RecordCheck(cur, r, t)
               \/ mem' = mem
        BY <3>3 DEF CheckPasses, CheckFails, SweepPoint, FixReturns, RecheckPasses
      <4>2. CASE mem' = mem
        BY <1>0, <2>1, <4>1, <4>2, Touches DEF Settled
      <4>3. CASE \E r \in {"OK", "BAD"}, t \in BOOLEAN : RecordCheck(cur, r, t)
        BY <1>0, <2>1, <4>1, <4>3, CheckTouches
      <4> QED BY <4>1, <4>2, <4>3
    <3> QED BY <1>2, <3>1, <3>2, <3>3
  <2>3. Contract!Tend(cur)
    BY <2>1, <2>2 DEF Contract!Tend, Phase
  <2> QED BY <2>2, <2>3 DEF Contract!Next
<1>3. CASE FixGivesUp \/ RecheckFails
  <2>1. FailedAttempt(cur) /\ pc \in Walking /\ pos <= Len(Order)
    BY <1>0, <1>3 DEF FixGivesUp, RecheckFails, Walking, TypeOK
  <2>2. /\ cur \in Nodes /\ Contract!Touch(cur)
        /\ mem'[cur].res = "BAD" /\ pc' \in {"scan", "failed"}
    BY <1>0, <2>1, FailureTouches
  <2>3. CASE pc' = "scan"
    <3>1. Contract!Tend(cur)
      BY <2>2, <2>3 DEF Contract!Tend, Phase, Walking
    <3> QED BY <2>2, <3>1 DEF Contract!Next
  <2>4. CASE pc' = "failed"
    <3>1. Contract!GiveUp(cur)
      BY <2>2, <2>4 DEF Contract!GiveUp, Phase, Walking, Settled
    <3> QED BY <2>2, <3>1 DEF Contract!Next
  <2> QED BY <2>2, <2>3, <2>4
<1>4. CASE Finish
  BY <1>0, <1>4, FinishReturns DEF Contract!Next
<1>5. CASE CannotFix \/ Raise \/ Terminate
  <2>1. Phase = "walking" /\ Phase' = "stopped" /\ mem' = mem /\ owed' = owed
    BY <1>5 DEF CannotFix, Raise, Terminate, Phase, Walking
  <2> QED BY <2>1 DEF Contract!Next, Contract!Stop, Settled
<1>6. CASE Restart
  <2>1. Phase' = "stopped" /\ owed' = owed /\ \A n \in Nodes : mem'[n] = Blank
    BY <1>6 DEF Restart, Phase, Walking
  <2>2. \A n \in Nodes : ~Settled(n)'
    BY <2>1 DEF Settled, Blank
  <2> QED BY <2>1, <2>2 DEF Contract!Next, Contract!Die
<1>7. CASE UNCHANGED vars \/ \E n \in Nodes : Lapse(n) \/ FallDue(n) \/ OthersWrite(n)
  BY <1>0, <1>7, Unnoticed
<1> QED BY <1>1, <1>2, <1>3, <1>4, <1>5, <1>6, <1>7 DEF Next, WalkStep

(* Walks entered by fix_targets, with a status dataset that takes every    *)
(* write, do what the contract says and nothing else (calibration.py       *)
(* 195-244, 342-368), whatever interrupts them: fix_state also writes a    *)
(* failure into a node it did not touch.  If others write the dataset too, *)
(* whatever they write, all of it stays true but for the orders, which     *)
(* their writes may undo: of those the contract then says nothing.         *)
THEOREM WalkKeepsContract ==
  ASSUME ~LossyTable, ~FixState PROVE Spec => KeepsContract
<1>1. ContractInv /\ [Next]_vars => ContractInv'
  BY ContractInvStep
<1>2. ASSUME ContractInv, [Next]_vars
      PROVE  [Contract!Next]_<<Phase, {n \in Nodes : ~Settled(n)}, Debt>>
  BY <1>2, ContractStep DEF Work, Debt
<1> QED BY <1>1, <1>2, ContractInvInit, ContractInit, PTL
        DEF Spec, KeepsContract, Contract!Spec, Debt
===============================================================================
