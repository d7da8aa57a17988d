--------------------------- MODULE ActivationProofs ---------------------------
(***************************************************************************)
(* Theorems about the measurement hand-over, for every number of threads   *)
(* and of calibrations, whichever set-ups may raise.                       *)
(***************************************************************************)
EXTENDS Activation, TLAPS

(* The part of TypeOK that the arguments need. *)
Shape ==
  /\ active \in Kernel \cup {None}
  /\ at \in [Threads -> Nodes \cup {None}]
  /\ pc \in [Threads -> {"idle", "walking", "unset", "setup", "measuring", "unwinding"}]
  /\ scan \in SUBSET Threads
  /\ calm \in BOOLEAN

(* A host-mode set-up under way is that of a host-mode node. *)
SettingUpHost == \A t \in Threads : pc[t] \in {"unset", "setup"} => at[t] \in Host

(* While all is calm one walk runs, and the hardware is as the slot says. *)
OneWalk == calm => \A t, u \in Threads : pc[t] # "idle" /\ pc[u] # "idle" => t = u
InStep == calm => hardware = active

(* Whoever is flagged as set up has been, or has failed to be, or is being *)
(* set up just now.                                                        *)
FlagAccounted ==
  \A n \in ran : n \in prepared \/ n \in failed
                 \/ \E t \in Threads : pc[t] = "setup" /\ at[t] = n

(* The slot: what has to be true of it for its owner to be cleaned up; the *)
(* hardware is its owner's if anybody's; and outside walks its owner is    *)
(* whom run_once has left there.                                           *)
Owned == hardware \in {active, None}
OutsideWalks == Walking = {} => active \in {kept, None}
SlotInv == Shape /\ OneSetUp /\ Owned /\ OutsideWalks

IInv ==
  SlotInv /\ SettingUpHost /\ OneWalk /\ InStep /\ FlagAccounted
  /\ SetupHoldsWhenCalm /\ HostReadyWhenCalm

LEMMA IInvInit == Init => IInv
BY ActivationAssumption
   DEF Init, IInv, SlotInv, Shape, OneSetUp, Owned, OutsideWalks, SettingUpHost, OneWalk,
       InStep, FlagAccounted, SetupHoldsWhenCalm, SetupHolds, HostReadyWhenCalm

(* Nothing but its own step moves a thread. *)
LEMMA GoProperties ==
  ASSUME Shape, NEW t \in Threads, NEW w, Go(t, w)
  PROVE  pc'[t] = w /\ \A u \in Threads \ {t} : pc'[u] = pc[u]
BY DEF Shape, Go

(* Every step is some thread's, and moves it. *)
Step(t) ==
  \/ StartWalk(t) \/ RunOnce(t) \/ EndWalk(t) \/ Measured(t)
  \/ \E n \in Kernel :
       KeepActive(t, n) \/ HandOver(t, n) \/ SetUpRaises(t, n) \/ CleanUpRaises(t, n)
  \/ \E n \in Host : ReadFlag(t, n)
  \/ HostSetUp(t) \/ HostSetUpDone(t) \/ HostSetUpRaises(t)

LEMMA ShapeStep ==
  ASSUME Shape, NEW t \in Threads, Step(t)
  PROVE  Shape'
<1>1. \E w \in {"idle", "walking", "unset", "setup", "measuring", "unwinding"} : Go(t, w)
  BY DEF Step, StartWalk, RunOnce, EndWalk, Measured, KeepActive, HandOver, SetUpRaises,
         CleanUpRaises, ReadFlag, HostSetUp, HostSetUpDone, HostSetUpRaises, Thrown
<1>2. pc' \in [Threads -> {"idle", "walking", "unset", "setup", "measuring", "unwinding"}]
  BY <1>1 DEF Shape, Go
<1>3. at' \in [Threads -> Nodes \cup {None}]
  <2>1. at' = at \/ \E n \in Nodes \cup {None} : at' = [at EXCEPT ![t] = n]
    BY DEF Step, StartWalk, RunOnce, EndWalk, Measured, KeepActive, HandOver, SetUpRaises,
           CleanUpRaises, ReadFlag, HostSetUp, HostSetUpDone, HostSetUpRaises, Thrown, Nodes
  <2> QED BY <2>1 DEF Shape
<1>4. scan' \in SUBSET Threads /\ calm' \in BOOLEAN
  BY DEF Step, StartWalk, RunOnce, EndWalk, Measured, KeepActive, HandOver, SetUpRaises,
         CleanUpRaises, ReadFlag, HostSetUp, HostSetUpDone, HostSetUpRaises, Thrown, Shape,
         AllIdle
<1>5. active' \in Kernel \cup {None}
  BY DEF Step, StartWalk, RunOnce, EndWalk, Measured, KeepActive, HandOver, SetUpRaises,
         CleanUpRaises, ReadFlag, HostSetUp, HostSetUpDone, HostSetUpRaises, Shape, slot
<1> QED BY <1>2, <1>3, <1>4, <1>5 DEF Shape

(* A thread that is in a walk stays in it until it ends the walk.          *)
LEMMA StillWalking ==
  ASSUME Shape, NEW t \in Threads, Step(t), ~EndWalk(t)
  PROVE  Walking \subseteq Walking'
<1> SUFFICES ASSUME NEW u \in Walking PROVE u \in Walking'
  OBVIOUS
<1>1. u \in Threads /\ pc[u] # "idle" /\ u \notin scan
  BY DEF Walking
<1>2. CASE u = t
  <2>1. PICK w \in {"walking", "unset", "setup", "measuring", "unwinding"} : Go(t, w)
    BY <1>1, <1>2
       DEF Step, StartWalk, RunOnce, Measured, KeepActive, HandOver, SetUpRaises, CleanUpRaises,
           ReadFlag, HostSetUp, HostSetUpDone, HostSetUpRaises, Thrown
  <2>2. t \notin scan'
    BY <1>1, <1>2
       DEF Step, StartWalk, RunOnce, Measured, KeepActive, HandOver, SetUpRaises, CleanUpRaises,
           ReadFlag, HostSetUp, HostSetUpDone, HostSetUpRaises, Thrown
  <2> QED BY <1>2, <2>1, <2>2, GoProperties DEF Walking
<1>3. CASE u # t
  <2>1. \E w : Go(t, w)
    BY DEF Step, StartWalk, RunOnce, Measured, KeepActive, HandOver, SetUpRaises, CleanUpRaises,
           ReadFlag, HostSetUp, HostSetUpDone, HostSetUpRaises, Thrown
  <2>2. u \notin scan'
    BY <1>1, <1>3
       DEF Step, StartWalk, RunOnce, Measured, KeepActive, HandOver, SetUpRaises, CleanUpRaises,
           ReadFlag, HostSetUp, HostSetUpDone, HostSetUpRaises, Thrown
  <2> QED BY <1>1, <1>3, <2>1, <2>2, GoProperties DEF Walking
<1> QED BY <1>2, <1>3

LEMMA SlotInvStep == SlotInv /\ [Next]_vars => SlotInv'
<1> SUFFICES ASSUME SlotInv, [Next]_vars PROVE SlotInv'
  OBVIOUS
<1> USE DEF SlotInv
<1>1. CASE UNCHANGED vars
  BY <1>1 DEF vars, Shape, OneSetUp, Owned, OutsideWalks, Walking
<1>2. ASSUME NEW t \in Threads, Step(t) PROVE SlotInv'
  <2>1. Shape'
    BY <1>2, ShapeStep
  <2>2. CASE EndWalk(t)
    BY <2>1, <2>2 DEF EndWalk, Emptied, OneSetUp, Owned, OutsideWalks
  <2>3. CASE \/ StartWalk(t) \/ RunOnce(t) \/ Measured(t) \/ HostSetUp(t) \/ HostSetUpDone(t)
             \/ HostSetUpRaises(t) \/ \E n \in Host : ReadFlag(t, n)
    <3>1. UNCHANGED slot /\ ~EndWalk(t)
      BY <2>3 DEF StartWalk, RunOnce, Measured, HostSetUp, HostSetUpDone, HostSetUpRaises,
                  ReadFlag, EndWalk, Thrown, Go, Shape
    <3>2. Walking' = {} => Walking = {}
      BY <1>2, <3>1, StillWalking
    <3> QED BY <2>1, <3>1, <3>2 DEF slot, OneSetUp, Owned, OutsideWalks
  <2>4. ASSUME NEW n \in Kernel,
               KeepActive(t, n) \/ HandOver(t, n) \/ SetUpRaises(t, n) \/ CleanUpRaises(t, n)
        PROVE  SlotInv'
    <3>1. OneSetUp' /\ Owned'
      BY <2>4, ActivationAssumption
         DEF KeepActive, HandOver, SetUpRaises, CleanUpRaises, OneSetUp, Owned, Emptied
    <3>2. active' = None \/ (active' = n /\ (t \in scan => kept' = n))
      BY <2>4 DEF KeepActive, HandOver, SetUpRaises, CleanUpRaises, Keeps
    <3>3. t \notin scan => t \in Walking'
      <4>1. \E w \in {"walking", "measuring", "unwinding"} : t \notin scan => Go(t, w)
        BY <2>4 DEF KeepActive, HandOver, SetUpRaises, CleanUpRaises, Thrown
      <4>2. scan' \in {scan, scan \ {t}}
        BY <2>4 DEF KeepActive, HandOver, SetUpRaises, CleanUpRaises, Thrown
      <4> QED BY <4>1, <4>2, GoProperties DEF Walking
    <3>4. OutsideWalks'
      BY <3>2, <3>3 DEF OutsideWalks
    <3> QED BY <2>1, <3>1, <3>4
  <2> QED BY <1>2, <2>2, <2>3, <2>4 DEF Step
<1> QED BY <1>1, <1>2 DEF Next, Step

(* What a step does to the walks, whoever takes it: at most its own thread *)
(* is busy afterwards and was not before, and only when all were idle.     *)
LEMMA OneWalkStep ==
  ASSUME IInv, NEW t \in Threads, NEW w, Go(t, w),
         \/ calm' => calm /\ pc[t] # "idle"
         \/ calm' => \A u \in Threads : pc[u] = "idle"
  PROVE  OneWalk'
<1>1. pc'[t] = w /\ \A u \in Threads \ {t} : pc'[u] = pc[u]
  BY GoProperties DEF IInv, SlotInv
<1>2. ASSUME calm', NEW u \in Threads, pc'[u] # "idle" PROVE u = t
  BY <1>1, <1>2 DEF IInv, OneWalk
<1> QED BY <1>2 DEF OneWalk

(* Nobody else measures while all is calm and t walks. *)
LEMMA Alone ==
  ASSUME IInv, calm, NEW t \in Threads, pc[t] # "idle",
         NEW w, Go(t, w), NEW u \in Threads, pc'[u] = "measuring"
  PROVE  u = t
BY GoProperties DEF IInv, SlotInv, OneWalk

(* Taking, leaving and cleaning up the slot. *)
LEMMA SlotSteps ==
  ASSUME IInv, NEW t \in Threads,
         \/ EndWalk(t)
         \/ \E n \in Kernel :
              KeepActive(t, n) \/ HandOver(t, n) \/ SetUpRaises(t, n) \/ CleanUpRaises(t, n)
  PROVE  OneWalk' /\ InStep' /\ SettingUpHost' /\ FlagAccounted'
         /\ SetupHoldsWhenCalm' /\ HostReadyWhenCalm'
<1> USE DEF IInv, SlotInv
<1>0. PICK w \in {"idle", "walking", "measuring", "unwinding"} : Go(t, w)
  BY DEF EndWalk, KeepActive, HandOver, SetUpRaises, CleanUpRaises, Thrown
<1>1. pc[t] \in {"walking", "unwinding"} /\ (calm' => calm)
  BY DEF EndWalk, KeepActive, HandOver, SetUpRaises, CleanUpRaises
<1>2. pc'[t] = w /\ \A u \in Threads \ {t} : pc'[u] = pc[u]
  BY <1>0, GoProperties
<1>3. UNCHANGED once
  BY DEF EndWalk, KeepActive, HandOver, SetUpRaises, CleanUpRaises
<1>4. \A u \in Threads \ {t} : at'[u] = at[u]
  BY DEF EndWalk, KeepActive, HandOver, SetUpRaises, CleanUpRaises, Thrown, Shape
<1>5. OneWalk'
  BY <1>0, <1>1, OneWalkStep
<1>6. InStep'
  BY <1>1 DEF EndWalk, KeepActive, HandOver, SetUpRaises, CleanUpRaises, InStep, slot
<1>7. SettingUpHost'
  BY <1>2, <1>4 DEF SettingUpHost
<1>8. FlagAccounted'
  BY <1>1, <1>2, <1>3, <1>4 DEF FlagAccounted, once
<1>9. ASSUME calm', NEW u \in Threads, pc'[u] = "measuring"
      PROVE  u = t /\ at'[t] \in Kernel /\ hardware' = at'[t]
  <2>1. u = t /\ w = "measuring"
    BY <1>0, <1>1, <1>2, <1>9, Alone
  <2>2. PICK n \in Kernel : KeepActive(t, n) \/ HandOver(t, n)
    BY <1>2, <1>9, <2>1 DEF EndWalk, SetUpRaises, CleanUpRaises, Thrown, Go, Shape
  <2>3. at'[t] = n /\ active' = n
    BY <2>2 DEF KeepActive, HandOver, slot, Shape
  <2> QED BY <1>6, <1>9, <2>1, <2>3 DEF InStep
<1>10. SetupHoldsWhenCalm'
  BY <1>9 DEF SetupHoldsWhenCalm, SetupHolds
<1>11. HostReadyWhenCalm'
  BY <1>9, ActivationAssumption DEF HostReadyWhenCalm
<1> QED BY <1>5, <1>6, <1>7, <1>8, <1>10, <1>11

(* Walks, measurements and one-time set-ups leave the slot alone. *)
LEMMA OtherSteps ==
  ASSUME IInv, NEW t \in Threads,
         \/ StartWalk(t) \/ RunOnce(t) \/ Measured(t)
         \/ HostSetUp(t) \/ HostSetUpDone(t) \/ HostSetUpRaises(t)
         \/ \E n \in Host : ReadFlag(t, n)
  PROVE  OneWalk' /\ InStep' /\ SettingUpHost' /\ FlagAccounted'
         /\ SetupHoldsWhenCalm' /\ HostReadyWhenCalm'
<1> USE DEF IInv, SlotInv
<1>0. PICK w \in {"idle", "walking", "unset", "setup", "measuring", "unwinding"} : Go(t, w)
  BY DEF StartWalk, RunOnce, Measured, HostSetUp, HostSetUpDone, HostSetUpRaises, ReadFlag,
         Thrown
<1>1. \/ pc[t] # "idle" /\ calm' = calm
      \/ (StartWalk(t) \/ RunOnce(t))
         /\ (calm' => (calm \/ active = None) /\ \A u \in Threads : pc[u] = "idle")
  BY DEF StartWalk, RunOnce, Measured, HostSetUp, HostSetUpDone, HostSetUpRaises, ReadFlag,
         AllIdle
<1>2. pc'[t] = w /\ \A u \in Threads \ {t} : pc'[u] = pc[u]
  BY <1>0, GoProperties
<1>3. UNCHANGED slot
  BY DEF StartWalk, RunOnce, Measured, HostSetUp, HostSetUpDone, HostSetUpRaises, ReadFlag
<1>4. \A u \in Threads \ {t} : at'[u] = at[u]
  BY DEF StartWalk, RunOnce, Measured, HostSetUp, HostSetUpDone, HostSetUpRaises, ReadFlag,
         Thrown, Shape
<1>5. OneWalk'
  BY <1>0, <1>1, OneWalkStep
<1>6. InStep'
  <2>1. active = None => hardware = None
    BY DEF Owned
  <2> QED BY <1>1, <1>3, <2>1 DEF InStep, slot
<1>7. SettingUpHost'
  <2>1. w \in {"unset", "setup"} => at'[t] \in Host
    BY <1>2 DEF StartWalk, RunOnce, Measured, HostSetUp, HostSetUpDone, HostSetUpRaises,
                ReadFlag, Thrown, Go, SettingUpHost, Shape
  <2> QED BY <1>2, <1>4, <2>1 DEF SettingUpHost
<1>8. FlagAccounted'
  <2>1. CASE HostSetUp(t)
    <3>1. pc'[t] = "setup" /\ at' = at /\ ran' = ran \cup {at[t]}
          /\ UNCHANGED <<prepared, failed>> /\ pc[t] = "unset"
      BY <2>1 DEF HostSetUp, Go, Shape
    <3> QED BY <1>2, <3>1 DEF FlagAccounted
  <2>2. CASE HostSetUpDone(t)
    <3>1. at' = at /\ prepared' = prepared \cup {at[t]} /\ UNCHANGED <<ran, failed>>
      BY <2>2 DEF HostSetUpDone
    <3> QED BY <1>2, <3>1 DEF FlagAccounted
  <2>3. CASE HostSetUpRaises(t)
    <3>1. failed' = failed \cup {at[t]} /\ UNCHANGED <<ran, prepared>>
      BY <2>3 DEF HostSetUpRaises
    <3> QED BY <1>2, <1>4, <3>1 DEF FlagAccounted
  <2>4. CASE StartWalk(t) \/ RunOnce(t) \/ Measured(t) \/ \E n \in Host : ReadFlag(t, n)
    <3>1. pc[t] # "setup" /\ UNCHANGED once
      BY <2>4 DEF StartWalk, RunOnce, Measured, ReadFlag
    <3> QED BY <1>2, <1>4, <3>1 DEF FlagAccounted, once
  <2> QED BY <2>1, <2>2, <2>3, <2>4
<1>9. ASSUME calm', NEW u \in Threads, pc'[u] = "measuring"
      PROVE  u = t /\ at'[t] \in Host /\ at'[t] \in prepared' \cup failed'
  <2>1. u = t /\ w = "measuring"
    <3>1. CASE pc[t] # "idle" /\ calm
      BY <1>0, <1>2, <1>9, <3>1, Alone
    <3>2. CASE \A v \in Threads : pc[v] = "idle"
      BY <1>2, <1>9, <3>2
    <3> QED BY <1>1, <1>9, <3>1, <3>2
  <2>2. CASE HostSetUpDone(t)
    BY <2>1, <2>2 DEF HostSetUpDone, SettingUpHost
  <2>3. CASE \E n \in Host : ReadFlag(t, n)
    <3>1. PICK n \in Host : ReadFlag(t, n)
      BY <2>3
    <3>2. at'[t] = n /\ n \in ran /\ pc[t] = "walking" /\ calm /\ UNCHANGED once
      BY <1>2, <1>9, <2>1, <3>1 DEF ReadFlag, Go, Shape
    <3>3. \A v \in Threads : pc[v] # "setup"
      BY <3>2 DEF OneWalk
    <3> QED BY <2>1, <3>2, <3>3 DEF FlagAccounted, once
  <2> QED BY <1>2, <2>1, <2>2, <2>3
          DEF StartWalk, RunOnce, Measured, HostSetUp, HostSetUpRaises, Thrown, Go, Shape
<1>10. SetupHoldsWhenCalm'
  BY <1>9, ActivationAssumption DEF SetupHoldsWhenCalm, SetupHolds
<1>11. HostReadyWhenCalm'
  BY <1>9 DEF HostReadyWhenCalm
<1> QED BY <1>5, <1>6, <1>7, <1>8, <1>10, <1>11

LEMMA IInvStep == IInv /\ [Next]_vars => IInv'
<1> SUFFICES ASSUME IInv, [Next]_vars PROVE IInv'
  OBVIOUS
<1>1. SlotInv'
  BY SlotInvStep DEF IInv
<1>2. CASE UNCHANGED vars
  BY <1>1, <1>2 DEF vars, IInv, SettingUpHost, OneWalk, InStep, FlagAccounted,
                    SetupHoldsWhenCalm, SetupHolds, HostReadyWhenCalm
<1>3. CASE Next
  BY <1>1, <1>3, SlotSteps, OtherSteps DEF Next, IInv
<1> QED BY <1>2, <1>3

LEMMA Inductive == Spec => []IInv
BY IInvInit, IInvStep, PTL DEF Spec

-------------------------------------------------------------------------------

(* However many threads share the slot and wherever they raise: what is    *)
(* set up, or half set up, is the one node the slot names (calibration.py  *)
(* 1190-1193).                                                             *)
THEOREM OneSetUpHolds == Spec => []OneSetUp
<1>1. IInv => OneSetUp
  BY DEF IInv, SlotInv
<1> QED BY <1>1, Inductive, PTL

(* As long as no walk runs, however the last ones ended, every calibration *)
(* that was set up has been cleaned up, save the one that a run_once has   *)
(* made active since (calibration.py 153-165, 681-689).                    *)
THEOREM IdleMeansCleanHolds == Spec => []IdleMeansClean
<1>1. IInv => IdleMeansClean
  BY DEF IInv, SlotInv, OneSetUp, Owned, OutsideWalks, IdleMeansClean
<1> QED BY <1>1, Inductive, PTL

(* As long as walks and measurements do not overlap and set-ups have not   *)
(* raised, a kernel-mode calibration is measured with its own set-up in    *)
(* force, whatever was left set up (calibration.py 1184-1206, 1216-1246).  *)
THEOREM SetupHoldsWhenCalmHolds == Spec => []SetupHoldsWhenCalm
<1>1. IInv => SetupHoldsWhenCalm
  BY DEF IInv
<1> QED BY <1>1, Inductive, PTL

(* Then, too, a host-mode calibration whose one-time set-up has not        *)
(* raised is measured after that set-up has been through (calibration.py   *)
(* 1207-1215).                                                             *)
THEOREM HostReadyWhenCalmHolds == Spec => []HostReadyWhenCalm
<1>1. IInv => HostReadyWhenCalm
  BY DEF IInv
<1> QED BY <1>1, Inductive, PTL

===============================================================================
