-------------------------- MODULE EscapeLoopProofs --------------------------
(***************************************************************************)
(* Theorems about the escape and re-entry loop, for every set of           *)
(* calibrations, every walk order, every choice of fixable and zero        *)
(* timeout calibrations and every bound on the escapes.                    *)
(***************************************************************************)
EXTENDS EscapeLoop, TLAPS

(* While the last walk is trusted nothing has been found healthy since, so *)
(* what it measured is still what the kernel will be asked about.          *)
TrustIsPristine == trusting <=> pristine

(* Until a timeout lapses, a fresh walk leaves nothing to escape for.      *)
WalkSettles ==
  pristine /\ quiet => \A n \in Nodes : /\ cal[n].ok /\ ~cal[n].due
                                        /\ cal[n].stale => cal[n].since

(* An order to force is used up before the first walk, and nothing else    *)
(* is done until then; from then on, there is no kernel without a walk.    *)
ForceFirst ==
  args.force =>
    /\ ~consumed => pc \in {"enter", "kernel"} /\ ~pristine /\ ~settled
    /\ consumed /\ pc \in {"enter", "kernel", "point"} => fixes > 0
    /\ settled => fixes > 0

(* Only an escape takes the count past the bound, and there is none after. *)
CountInBound ==
  \/ pc \in {"enter", "kernel", "point", "escaped"}
  \/ pc = "fixing" /\ args.scanned
  => escapes <= MaxRecalibrations

IInv ==
  /\ TypeOK /\ TrustIsPristine /\ WalkSettles /\ ForceFirst /\ CountInBound
  /\ SettlesAfterFix

LEMMA CalChanged ==
  ASSUME NEW c \in Cal, NEW b \in BOOLEAN
  PROVE  [c EXCEPT !.ok = b] \in Cal /\ [c EXCEPT !.stale = b] \in Cal /\ [c EXCEPT !.due = b] \in Cal
BY DEF Cal

LEMMA IInvInit == Init => IInv
<1> SUFFICES ASSUME Init PROVE IInv
  OBVIOUS
<1> USE EscapeAssumption DEF Init
<1>1. TypeOK
  <2>1. cal \in [Nodes -> Cal]
    <3>1. [ok : BOOLEAN, stale : BOOLEAN, since : {FALSE}, due : BOOLEAN] \subseteq Cal
      BY DEF Cal
    <3> QED BY <3>1
  <2>2. /\ trusting \in BOOLEAN /\ consumed \in BOOLEAN
        /\ settled \in BOOLEAN /\ pristine \in BOOLEAN /\ quiet \in BOOLEAN
    OBVIOUS
  <2>3. pc \in Running /\ escapes \in 0..(MaxRecalibrations + 1) /\ fixes \in 0..(MaxRecalibrations + 1)
    BY DEF Running
  <2>4. args \in [scanned : BOOLEAN, force : BOOLEAN, zero : SUBSET Zero]
    OBVIOUS
  <2> QED BY ONLY <2>1, <2>2, <2>3, <2>4 DEF TypeOK
<1>2. TrustIsPristine /\ WalkSettles /\ ForceFirst /\ CountInBound /\ SettlesAfterFix
  BY DEF TrustIsPristine, WalkSettles, ForceFirst, CountInBound, SettlesAfterFix
<1> QED BY <1>1, <1>2 DEF IInv

(* The kernel consults: it escapes when forced or not healthy.             *)
LEMMA ConsultKeeps ==
  ASSUME IInv, ConsultForced \/ ConsultUnhealthy \/ ConsultHealthy PROVE IInv'
<1> USE EscapeAssumption
<1>0. /\ TypeOK /\ TrustIsPristine /\ WalkSettles /\ ForceFirst /\ CountInBound
      /\ cal \in [Nodes -> Cal]
  BY DEF IInv, TypeOK
<1>1. CASE ConsultForced
  <2> USE <1>0, <1>1 DEF ConsultForced, history
  <2>1. cal' \in [Nodes -> Cal]
    BY DEF Cal
  <2>2. TypeOK'
    BY <2>1 DEF TypeOK, Running
  <2>3. ~pristine'
    BY DEF ForceFirst
  <2>4. TrustIsPristine' /\ WalkSettles' /\ SettlesAfterFix'
    BY <2>3 DEF TrustIsPristine, WalkSettles, SettlesAfterFix
  <2>5. ForceFirst' /\ CountInBound'
    BY DEF ForceFirst, CountInBound
  <2> QED BY <2>2, <2>4, <2>5 DEF IInv
<1>2. CASE ConsultUnhealthy
  <2> USE <1>0, <1>2 DEF ConsultUnhealthy, history
  <2>1. PICK i \in 1..Len(Order) :
          Unhealthy(Order[i]) /\ cal' = [cal EXCEPT ![Order[i]].ok = @ /\ ~Expired(Order[i])]
    OBVIOUS
  <2>2. Order[i] \in Nodes
    BY <2>1
  <2>3. ~(pristine /\ quiet)
    BY <2>1, <2>2 DEF TrustIsPristine, WalkSettles, Unhealthy, Expired
  <2>4. cal' \in [Nodes -> Cal]
    <3> DEFINE ok == cal[Order[i]].ok /\ ~Expired(Order[i])
    <3>1. ok \in BOOLEAN
      OBVIOUS
    <3> HIDE DEF ok
    <3>2. [cal[Order[i]] EXCEPT !.ok = ok] \in Cal
      BY <2>2, <3>1, CalChanged
    <3>3. cal' = [cal EXCEPT ![Order[i]] = [cal[Order[i]] EXCEPT !.ok = ok]]
      BY <2>1 DEF ok
    <3> QED BY <2>2, <3>2, <3>3
  <2>5. TypeOK'
    BY <2>4 DEF TypeOK, Running
  <2>6. TrustIsPristine' /\ WalkSettles' /\ SettlesAfterFix'
    BY <2>3 DEF TrustIsPristine, WalkSettles, SettlesAfterFix
  <2>7. ForceFirst' /\ CountInBound'
    BY DEF ForceFirst, CountInBound
  <2> QED BY <2>5, <2>6, <2>7 DEF IInv
<1>3. CASE ConsultHealthy
  <2> USE <1>0, <1>3 DEF ConsultHealthy
  <2>1. TypeOK'
    BY DEF TypeOK, Running
  <2>2. TrustIsPristine' /\ WalkSettles' /\ SettlesAfterFix'
    BY DEF TrustIsPristine, WalkSettles, SettlesAfterFix
  <2>3. ForceFirst' /\ CountInBound'
    BY DEF ForceFirst, CountInBound
  <2> QED BY <2>1, <2>2, <2>3 DEF IInv
<1> QED BY <1>1, <1>2, <1>3

(* The host takes over: it counts the escape, and gives up past the bound. *)
LEMMA EscapeKeeps ==
  ASSUME IInv, EscapeScan \/ EscapeContinuous PROVE IInv'
<1> USE EscapeAssumption
<1>0. /\ TypeOK /\ TrustIsPristine /\ WalkSettles /\ ForceFirst /\ CountInBound
      /\ SettlesAfterFix
  BY DEF IInv
<1>1. /\ pc = "escaped" /\ escapes' = escapes + 1 /\ pc' \in {"gaveup", "fixing"}
      /\ pc' = "fixing" /\ args.scanned => escapes + 1 <= MaxRecalibrations
      /\ UNCHANGED <<cal, trusting, consumed, history>>
  <2>1. escapes \in Nat
    BY <1>0 DEF TypeOK
  <2>2. CASE EscapeScan
    BY <2>1, <2>2 DEF EscapeScan
  <2>3. CASE EscapeContinuous
    <3>1. args.scanned = FALSE
      BY <1>0, <2>3 DEF EscapeContinuous, TypeOK
    <3> QED BY <2>3, <3>1 DEF EscapeContinuous
  <2> QED BY <2>2, <2>3
<1> USE <1>0, <1>1 DEF history
<1>2. TypeOK'
  BY DEF TypeOK, CountInBound, Running, Over
<1>3. TrustIsPristine' /\ WalkSettles' /\ SettlesAfterFix'
  BY DEF TrustIsPristine, WalkSettles, SettlesAfterFix
<1>4. ForceFirst' /\ CountInBound'
  BY DEF ForceFirst, CountInBound
<1> QED BY <1>2, <1>3, <1>4 DEF IInv

(* A walk returns: every node was measured by it, or was good enough.      *)
LEMMA RecalibrateKeeps ==
  ASSUME IInv, Recalibrate PROVE IInv'
<1> USE EscapeAssumption
<1>0. /\ TypeOK /\ ForceFirst /\ CountInBound
      /\ cal \in [Nodes -> Cal]
  BY DEF IInv, TypeOK
<1> USE <1>0 DEF Recalibrate
<1>1. ASSUME NEW n \in Nodes
      PROVE  cal'[n].ok /\ ~cal'[n].due /\ (cal'[n].stale => cal'[n].since)
  <2>1. CASE cal'[n] \in Measured(n)
    BY <2>1 DEF Measured
  <2>2. CASE cal'[n] \in Untouched(n)
    BY <2>2 DEF Untouched, Cal
  <2> QED BY <2>1, <2>2
<1>2. fixes' \in 0..(MaxRecalibrations + 1) /\ fixes' > 0
  BY DEF TypeOK, CountFix
<1>3. pc' \in {"gaveup", "enter"} /\ (pc' = "enter" => escapes <= MaxRecalibrations)
  BY DEF GoOn, TypeOK, CountInBound
<1>4. TypeOK'
  <2>1. pc' \in Running \cup Over
    BY <1>3 DEF Running, Over
  <2>2. trusting' \in BOOLEAN /\ pristine' \in BOOLEAN /\ quiet' \in BOOLEAN
    OBVIOUS
  <2>3. cal' \in [Nodes -> Cal] /\ UNCHANGED <<consumed, escapes, args, settled>>
    OBVIOUS
  <2> QED BY ONLY TypeOK, <1>2, <2>1, <2>2, <2>3 DEF TypeOK
<1>5. TrustIsPristine' /\ WalkSettles' /\ SettlesAfterFix'
  BY <1>1, <1>3 DEF TrustIsPristine, WalkSettles, SettlesAfterFix
<1>6. ForceFirst'
  BY <1>2 DEF ForceFirst
<1>7. CountInBound'
  BY <1>3 DEF CountInBound
<1> QED BY <1>4, <1>5, <1>6, <1>7 DEF IInv

(* A timeout lapses. *)
LEMMA LapseKeeps ==
  ASSUME IInv, NEW n \in Nodes, Lapse(n) PROVE IInv'
<1> USE EscapeAssumption
<1>0. /\ TypeOK /\ TrustIsPristine /\ WalkSettles /\ ForceFirst /\ CountInBound
      /\ cal \in [Nodes -> Cal]
  BY DEF IInv, TypeOK
<1> USE <1>0 DEF Lapse
<1>1. cal' \in [Nodes -> Cal]
  <2>1. /\ [cal[n] EXCEPT !.stale = TRUE] \in Cal
        /\ [cal[n] EXCEPT !.due = TRUE] \in Cal
    BY CalChanged
  <2> QED BY <2>1
<1>2. TypeOK'
  BY <1>1 DEF TypeOK
<1>3. TrustIsPristine' /\ WalkSettles' /\ SettlesAfterFix'
  BY DEF TrustIsPristine, WalkSettles, SettlesAfterFix
<1>4. ForceFirst' /\ CountInBound'
  BY DEF ForceFirst, CountInBound
<1> QED BY <1>2, <1>3, <1>4 DEF IInv

(* Entering, points, a walk that raises, and steps of nobody. *)
LEMMA OthersKeep ==
  ASSUME IInv, Enter \/ Point \/ RecalibrateFails \/ UNCHANGED vars PROVE IInv'
<1> USE EscapeAssumption
<1>0. /\ TypeOK /\ TrustIsPristine /\ WalkSettles /\ ForceFirst /\ CountInBound
      /\ SettlesAfterFix
  BY DEF IInv
<1>1. /\ UNCHANGED <<cal, trusting, consumed, escapes, history>>
      /\ \/ pc = "enter" /\ pc' = "kernel"
         \/ pc = "point" /\ pc' \in {"kernel", "done", "enter"}
         \/ pc = "fixing" /\ pc' = "failed"
         \/ pc' = pc
  BY DEF Enter, Point, RecalibrateFails, vars, history
<1> USE <1>0, <1>1 DEF history
<1>2. TypeOK'
  BY DEF TypeOK, Running, Over
<1>3. TrustIsPristine' /\ WalkSettles' /\ SettlesAfterFix'
  BY DEF TrustIsPristine, WalkSettles, SettlesAfterFix
<1>4. ForceFirst' /\ CountInBound'
  BY DEF ForceFirst, CountInBound
<1> QED BY <1>2, <1>3, <1>4 DEF IInv

LEMMA IInvStep == IInv /\ [Next]_vars => IInv'
<1> SUFFICES ASSUME IInv, [Next]_vars PROVE IInv'
  OBVIOUS
<1>1. CASE ConsultForced \/ ConsultUnhealthy \/ ConsultHealthy
  BY <1>1, ConsultKeeps
<1>2. CASE EscapeScan \/ EscapeContinuous
  BY <1>2, EscapeKeeps
<1>3. CASE Recalibrate
  BY <1>3, RecalibrateKeeps
<1>4. ASSUME NEW n \in Nodes, Lapse(n) PROVE IInv'
  BY <1>4, LapseKeeps
<1>5. CASE Enter \/ Point \/ RecalibrateFails \/ UNCHANGED vars
  BY <1>5, OthersKeep
<1> QED BY <1>1, <1>2, <1>3, <1>4, <1>5 DEF Next, Step

LEMMA IInvHolds == Spec => []IInv
BY IInvInit, IInvStep, PTL DEF Spec

(* A walk is trusted once: with no timeout lapsed since it ended, the      *)
(* kernel finds the DAG healthy, whatever the check timeouts.              *)
THEOREM SettlesAfterFixHolds == Spec => []SettlesAfterFix
<1>1. IInv => SettlesAfterFix
  BY DEF IInv
<1> QED BY IInvHolds, <1>1, PTL

(* An experiment ordered to force a recalibration takes no point before a  *)
(* walk has returned.                                                      *)
THEOREM ForcedBeforeScienceHolds == Spec => []ForcedBeforeScience
<1>1. IInv => ForcedBeforeScience
  BY DEF IInv, ForceFirst, ForcedBeforeScience
<1> QED BY IInvHolds, <1>1, PTL

(* No point rests on a calibration that is bad, due, or out of time, unless *)
(* it is the first after the walk that measured it.                        *)
THEOREM NoStaleScienceHolds == Spec => NoStaleScience
<1> DEFINE Good == \A n \in Nodes : /\ cal[n].ok /\ ~cal[n].due
                                    /\ cal[n].stale => pristine /\ cal[n].since
           Science == pc = "kernel" /\ pc' = "point" => Good
<1>1. ASSUME IInv, Next PROVE Science
  <2>1. CASE ConsultHealthy
    BY <1>1, <2>1 DEF ConsultHealthy, Unhealthy, Expired, IInv, TrustIsPristine
  <2>2. CASE ~ConsultHealthy
    <3>1. ~(pc = "kernel" /\ pc' = "point")
      BY <1>1, <2>2 DEF Next, Step, Enter, ConsultForced, ConsultUnhealthy, Point, EscapeScan,
           EscapeContinuous, Recalibrate, RecalibrateFails, Lapse
    <3> QED BY <3>1
  <2> QED BY <2>1, <2>2
<1>2. IInv /\ [Next]_vars => [Science]_vars
  BY <1>1
<1>3. Spec => [][Science]_vars
  BY IInvHolds, <1>2, PTL DEF Spec
<1> QED BY <1>3 DEF NoStaleScience
==============================================================================
