----------------------------- MODULE Activation -----------------------------
(***************************************************************************)
(* The hand-over of the measurement hardware between calibrations          *)
(* (calibration.py: _active_node, _activate, deactivate_active_calibration)*)
(* when check and fix walks run on several threads of one process, as the  *)
(* checks of a monitor controller do, and when a calibration is run as an  *)
(* experiment of its own (run_once), outside any walk.                     *)
(*                                                                         *)
(* Calibrations that measure with a kernel take turns in one slot, which a *)
(* re-entrant lock guards: everything done under the lock is one step.     *)
(* Host-mode calibrations stay out of the slot, and are only set up once   *)
(* if nobody else has; that part runs without a lock.                      *)
(***************************************************************************)
EXTENDS Naturals, FiniteSets

CONSTANTS
  Threads,   \* the threads that run walks
  Kernel,    \* calibrations whose check or fix is a kernel
  Host,      \* the other calibrations
  Attached,  \* the host-mode ones that ndscan sets up, before any walk
  Fragile,   \* the nodes whose host_setup may raise
  None       \* no calibration

ASSUME ActivationAssumption ==
  Kernel \cap Host = {} /\ Attached \subseteq Host /\ Fragile \subseteq Kernel \cup Host
  /\ None \notin Kernel \cup Host /\ IsFiniteSet(Threads)

VARIABLES
  active,    \* _active_node
  unclean,   \* kernel nodes whose host_setup has begun, and no cleanup since
  hardware,  \* the kernel node the hardware is configured for
  ran,       \* host-mode nodes with _lifecycle_setup_ran
  prepared,  \* host-mode nodes whose host_setup has returned
  setups,    \* how often each host-mode node's host_setup was called by a walk
  at,        \* the node each thread is busy with
  pc,        \* where each thread is
  scan,      \* the threads that are in run_once, and not in a walk
  calm,      \* history: no walk or run_once has overlapped another, and no
             \* set-up of the slot has raised, since the slot was empty and
             \* all threads idle
  kept,      \* history: the node that a run_once has last made active, since
             \* the last walk ended
  failed     \* history: host-mode nodes whose host_setup has raised

vars == <<active, unclean, hardware, ran, prepared, setups, at, pc, scan, calm, kept, failed>>
slot == <<active, unclean, hardware, kept>>
once == <<ran, prepared, setups, failed>>

Nodes == Kernel \cup Host

TypeOK ==
  /\ active \in Kernel \cup {None}
  /\ unclean \subseteq Kernel
  /\ hardware \in Kernel \cup {None}
  /\ ran \subseteq Host /\ prepared \subseteq Host
  /\ setups \in [Host -> 0 .. Cardinality(Threads)]
  /\ at \in [Threads -> Nodes \cup {None}]
  /\ pc \in [Threads -> {"idle", "walking", "unset", "setup", "measuring", "unwinding"}]
  /\ scan \subseteq {t \in Threads : pc[t] # "idle"}
  /\ calm \in BOOLEAN /\ kept \in Kernel \cup {None} /\ failed \subseteq Host

Init ==
  /\ active = None /\ unclean = {} /\ hardware = None
  /\ ran = Attached /\ prepared = Attached
  /\ setups = [n \in Host |-> 0]
  /\ at = [t \in Threads |-> None]
  /\ pc = [t \in Threads |-> "idle"]
  /\ scan = {} /\ calm = TRUE /\ kept = None /\ failed = {}

Go(t, where) == pc' = [pc EXCEPT ![t] = where]

AllIdle == \A t \in Threads : pc[t] = "idle"

StartWalk(t) ==
  /\ pc[t] = "idle" /\ Go(t, "walking")
  /\ calm' = (AllIdle /\ (calm \/ active = None))
  /\ UNCHANGED <<slot, once, at, scan>>

(* run_once makes one calibration measure itself; no walk, and nobody      *)
(* deactivates it afterwards.                                              *)
RunOnce(t) ==
  /\ pc[t] = "idle" /\ Go(t, "walking")
  /\ scan' = scan \cup {t}
  /\ calm' = (AllIdle /\ (calm \/ active = None))
  /\ UNCHANGED <<slot, once, at>>

(* A measurement is over, or has raised.  An exception ends the walk,      *)
(* except for a CalibrationError inside a fix attempt, after which the     *)
(* walk goes on; run_once is over in any case.                             *)
Thrown(t) ==
  /\ \E where \in IF t \in scan THEN {"idle"} ELSE {"walking", "unwinding"} : Go(t, where)
  /\ at' = [at EXCEPT ![t] = None]
  /\ scan' = scan \ {t}

(* host_cleanup of the active node, if there is one; the slot is emptied   *)
(* first, so it stays empty if the cleanup raises.                         *)
Emptied == unclean \ {active}

(* What run_once makes active stays so.                                    *)
Keeps(t, n) == kept' = IF t \in scan THEN n ELSE kept

(* _activate of a kernel-mode node: nothing, if it is active already; else *)
(* the hand-over.                                                          *)
KeepActive(t, n) ==
  /\ pc[t] = "walking" /\ active = n
  /\ at' = [at EXCEPT ![t] = n] /\ Go(t, "measuring") /\ Keeps(t, n)
  /\ UNCHANGED <<active, unclean, hardware, once, scan, calm>>

HandOver(t, n) ==
  /\ pc[t] = "walking" /\ active # n
  /\ active' = n /\ unclean' = Emptied \cup {n} /\ hardware' = n /\ Keeps(t, n)
  /\ at' = [at EXCEPT ![t] = n] /\ Go(t, "measuring")
  /\ UNCHANGED <<once, scan, calm>>

(* A mutant: the slot is claimed after host_setup has returned. *)
SetUpRaisesUnclaimed(t, n) ==
  /\ pc[t] = "walking" /\ active # n /\ n \in Fragile
  /\ active' = None /\ unclean' = Emptied \cup {n} /\ hardware' = None /\ Keeps(t, n)
  /\ Thrown(t) /\ calm' = FALSE
  /\ UNCHANGED once

(* The slot is claimed before host_setup runs: a host_setup that raises    *)
(* still gets its cleanup.                                                 *)
SetUpRaises(t, n) ==
  /\ pc[t] = "walking" /\ active # n /\ n \in Fragile
  /\ active' = n /\ unclean' = Emptied \cup {n} /\ hardware' = None /\ Keeps(t, n)
  /\ Thrown(t) /\ calm' = FALSE
  /\ UNCHANGED once

CleanUpRaises(t, n) ==
  /\ pc[t] = "walking" /\ active \notin {n, None}
  /\ active' = None /\ unclean' = Emptied /\ hardware' = None
  /\ Thrown(t)
  /\ UNCHANGED <<once, calm, kept>>

(* A mutant: the flag defaults to True. *)
ReadFlagAssumed(t, n) ==
  /\ pc[t] = "walking"
  /\ at' = [at EXCEPT ![t] = n] /\ Go(t, "measuring")
  /\ UNCHANGED <<slot, once, scan, calm>>

(* _activate of a host-mode node, without the lock: read the flag, then    *)
(* call host_setup, which sets the flag and goes on.                       *)
ReadFlag(t, n) ==
  /\ pc[t] = "walking"
  /\ at' = [at EXCEPT ![t] = n]
  /\ Go(t, IF n \in ran THEN "measuring" ELSE "unset")
  /\ UNCHANGED <<slot, once, scan, calm>>

HostSetUp(t) ==
  /\ pc[t] = "unset"
  /\ ran' = ran \cup {at[t]}
  /\ setups' = [setups EXCEPT ![at[t]] = @ + 1]
  /\ Go(t, "setup")
  /\ UNCHANGED <<slot, prepared, at, scan, calm, failed>>

HostSetUpDone(t) ==
  /\ pc[t] = "setup"
  /\ prepared' = prepared \cup {at[t]}
  /\ Go(t, "measuring")
  /\ UNCHANGED <<slot, ran, setups, at, scan, calm, failed>>

HostSetUpRaises(t) ==
  /\ pc[t] = "setup" /\ at[t] \in Fragile /\ Thrown(t)
  /\ failed' = failed \cup {at[t]}
  /\ UNCHANGED <<slot, ran, prepared, setups, calm>>

Measured(t) ==
  /\ pc[t] = "measuring" /\ Thrown(t)
  /\ UNCHANGED <<slot, once, calm>>

(* Mutants: a walk that raises leaves its node set up; a walk cleans up    *)
(* without emptying the slot.                                              *)
EndWalkUnlessRaising(t) ==
  /\ pc[t] \in {"walking", "unwinding"} /\ t \notin scan /\ Go(t, "idle")
  /\ IF pc[t] = "walking"
     THEN active' = None /\ unclean' = Emptied /\ hardware' = None
     ELSE UNCHANGED <<active, unclean, hardware>>
  /\ kept' = None
  /\ UNCHANGED <<once, at, scan, calm>>

EndWalkKeepingSlot(t) ==
  /\ pc[t] \in {"walking", "unwinding"} /\ t \notin scan /\ Go(t, "idle")
  /\ unclean' = Emptied /\ hardware' = None /\ kept' = None
  /\ UNCHANGED <<active, once, at, scan, calm>>

(* However a walk ends, "finally: deactivate_active_calibration()" cleans  *)
(* up whatever node is active.                                             *)
EndWalk(t) ==
  /\ pc[t] \in {"walking", "unwinding"} /\ t \notin scan /\ Go(t, "idle")
  /\ active' = None /\ unclean' = Emptied /\ hardware' = None /\ kept' = None
  /\ UNCHANGED <<once, at, scan, calm>>

Next ==
  \E t \in Threads :
    \/ StartWalk(t) \/ RunOnce(t) \/ EndWalk(t) \/ Measured(t)
    \/ \E n \in Kernel :
         KeepActive(t, n) \/ HandOver(t, n) \/ SetUpRaises(t, n) \/ CleanUpRaises(t, n)
    \/ \E n \in Host : ReadFlag(t, n)
    \/ HostSetUp(t) \/ HostSetUpDone(t) \/ HostSetUpRaises(t)

Spec == Init /\ [][Next]_vars

-------------------------------------------------------------------------------

(* "At most one node is set up at a time" (calibration.py 1190-1193), and  *)
(* what is set up, or half set up, is what the slot says, so that its      *)
(* host_cleanup cannot be forgotten.                                       *)
OneSetUp == unclean = {active} \ {None}

(* A walk that is over leaves a "clean slate" (calibration.py 157-160): as *)
(* long as no walk runs, nothing is set up, not even by half, but what a   *)
(* run_once has made active since the last walk ended.                     *)
Walking == {t \in Threads : pc[t] # "idle"} \ scan

IdleMeansClean == Walking = {} => unclean \cup {hardware} \subseteq {kept, None}

(* The same of run_once (681-689): whoever runs it has to clean up, as     *)
(* test_lifecycle.py 124-136 does for a measurement outside any walk.      *)
CleanAfterAll == AllIdle => unclean = {}

(* A calibration's host_setup "has run, and still holds, when its kernels  *)
(* execute" (calibration.py 1185-1187).                                    *)
SetupHolds ==
  \A t \in Threads : pc[t] = "measuring" /\ at[t] \in Kernel => hardware = at[t]

(* It does as long as walks and measurements do not overlap and no set-up  *)
(* raises, whatever was left in the slot by those before, and however they *)
(* ended.                                                                  *)
SetupHoldsWhenCalm == calm => SetupHolds

(* The host_setup of a host-mode node has returned before it is measured   *)
(* (1185-1187, 1208-1212) ...                                              *)
HostReady ==
  \A t \in Threads : pc[t] = "measuring" /\ at[t] \in Host => at[t] \in prepared

(* ... by walks that do not overlap, unless it has ever raised.            *)
HostReadyWhenCalm ==
  \A t \in Threads :
    calm /\ pc[t] = "measuring" /\ at[t] \in Host => at[t] \in prepared \cup failed

(* A host-mode node that has never been set up "gets a one-time            *)
(* host_setup" (calibration.py 1210-1212).                                 *)
HostSetupOnce == \A n \in Host : setups[n] <= IF n \in Attached THEN 0 ELSE 1
==============================================================================
