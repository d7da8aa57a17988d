------------------------------- MODULE Sweep --------------------------------
(***************************************************************************)
(* The fixes of a calibration by its optimizer (calibration.py,            *)
(* _run_optimizer): a generator on the host proposes parameter values, the *)
(* calibration is measured at each, the best is verified and persisted.    *)
(* A host-mode check is called point by point.  A kernel-mode one runs in  *)
(* a resident kernel that fetches the points by RPC, and that has to       *)
(* return to the host, mid-sweep, whenever the scheduler wants a pause.    *)
(*                                                                         *)
(* The generator is one of those of Optimizers.                            *)
(***************************************************************************)
EXTENDS Optimizers

CONSTANTS
  Kinds,   \* the calibrations: where check_own_state runs, and the optimizer
  Starts,  \* what their parameters may stand at when a fix begins
  Data     \* the metrics a good measurement may give

ASSUME SweepAssumption ==
  /\ Kinds \subseteq {"host", "kernel"} \X {"grid", "descent", "zoom", "custom"}
  /\ None \notin Candidates /\ None \notin Starts /\ Starts \subseteq [Axes -> Int]
  /\ Numbers \subseteq Data \ {None}

VARIABLES
  mode,      \* where this calibration's check_own_state runs
  alg,       \* its optimizer
  home,      \* what the parameters' datasets held when this fix began
  pc,        \* where the fix is
  gen,       \* the generator (_kopt_generator)
  current,   \* the point proposed last (_kopt_current_values)
  best,      \* best_params, _kopt_best_values
  bestData,  \* best_data, _kopt_best_data
  pending,   \* _kopt_pause_pending
  passed,    \* _kopt_verify_result is OK, or the host's verification was
  stored,    \* what this fix has put into the parameters' datasets
  proposed,  \* history: the points proposed in this fix
  measured   \* history: the measurements made of them

vars == <<mode, alg, home, pc, gen, current, best, bestData, pending, passed, stored,
          proposed, measured>>
setting == <<mode, alg, home>>
tally == <<bestData, measured>>
proposal == <<gen, current, best, proposed>>

Ended == {"done", "failed", "terminated"}

Unused == Generator(alg, <<>>, None)

TypeOK ==
  /\ <<mode, alg>> \in Kinds
  /\ pc \in {"start", "point", "looped", "verify", "returned"} \cup Ended
  /\ \A p \in {current, best, stored} : p # None => DOMAIN p = Axes
  /\ bestData \in Data \cup {None}
  /\ pending \in BOOLEAN /\ passed \in BOOLEAN
  /\ gen.left # <<>> => current = Head(gen.left)
  /\ best = None => bestData = None /\ \A i \in 1..Len(measured) : ~measured[i].ok

Init ==
  /\ \E kind \in Kinds : mode = kind[1] /\ alg = kind[2]
  /\ home \in Starts
  /\ pc = "start" /\ pending = FALSE /\ passed = FALSE
  /\ gen = Unused /\ current = None /\ best = None /\ bestData = None
  /\ stored = None /\ proposed = <<>> /\ measured = <<>>

(* The next fix takes over nothing of the last (_kopt_prime); it finds the *)
(* parameters wherever fixes, restarts and users have put them meanwhile.  *)
Forget ==
  /\ pc \in Ended /\ pc' = "start"
  /\ home' \in Starts
  /\ passed' = FALSE /\ gen' = Unused
  /\ current' = None /\ best' = None /\ bestData' = None
  /\ stored' = None /\ proposed' = <<>> /\ measured' = <<>>
  /\ UNCHANGED <<mode, alg>>

(* A mutant: a pause that was never resumed is still pending. *)
PrimeKeepsPending == Forget /\ UNCHANGED pending

Prime == Forget /\ pending' = FALSE

(* Mutants: what is as good as the best so far is better; so is only what  *)
(* beats something.                                                        *)
IsBetterOrEqual(data, incumbent) == incumbent = None \/ ~Beats(incumbent, data)
BeatsIncumbent(data, incumbent) == Beats(data, incumbent)

(* _is_better *)
IsBetter(data, incumbent) == incumbent = None \/ Beats(data, incumbent)

(* The generator runs to its next yield, or returns, perhaps with a point  *)
(* of its own choosing that replaces the best one seen.                    *)
Runs(g, seen) ==
  /\ gen' = g
  /\ IF g.left # <<>>
     THEN /\ current' = Head(g.left) /\ proposed' = Append(proposed, Head(g.left))
          /\ best' = seen
     ELSE /\ best' = (IF g.value = None THEN seen ELSE g.value)
          /\ UNCHANGED <<current, proposed>>

(* The first point, or none (next(optimizer), _kopt_first_point).          *)
Start ==
  /\ pc = "start" /\ ~pending
  /\ \E g \in Begun(alg, home) : Runs(g, best)
  /\ pc' = IF gen'.left # <<>> THEN "point" ELSE "looped"
  /\ UNCHANGED <<setting, pending, passed, stored, tally>>

(* A kernel returns a float; nothing is ever done with a bad measurement's *)
(* metric.                                                                 *)
Metrics(ok) == IF ~ok THEN {None} ELSE IF mode = "kernel" THEN Data \ {None} ELSE Data

(* One point: it is measured, the result is compared and sent to the       *)
(* generator; in a kernel the scheduler is asked, with the next point at   *)
(* hand, whether to pause, which ends the kernel's loop as well            *)
(* (_kopt_next_point).                                                     *)
Shot ==
  /\ pc = "point"
  /\ \E ok \in BOOLEAN : \E data \in Metrics(ok) :
       LET improved == ok /\ IsBetter(data, bestData)
       IN /\ measured' = Append(measured, [point |-> current, ok |-> ok, data |-> data])
          /\ bestData' = (IF improved THEN data ELSE bestData)
          /\ \E g \in Sent(gen, ok, data, Len(proposed)) :
               Runs(g, IF improved THEN current ELSE best)
  /\ pending' \in {FALSE, mode = "kernel" /\ gen'.left # <<>>}
  /\ pc' = IF pending' \/ gen'.left = <<>> THEN "looped" ELSE "point"
  /\ UNCHANGED <<setting, passed, stored>>

(* The kernel's loop has ended: the best point is verified, unless there   *)
(* is none or the sweep is only interrupted (_kopt_get_best).              *)
GetBest ==
  /\ pc = "looped" /\ mode = "kernel"
  /\ pc' = IF pending \/ best = None THEN "returned" ELSE "verify"
  /\ UNCHANGED <<setting, pending, passed, stored, tally, proposal>>

(* A mutant: the scheduler is asked again before anything is measured. *)
ReenterAskingFirst ==
  /\ mode = "kernel" /\ pending /\ pc \in {"start", "returned"}
  /\ pending' \in BOOLEAN
  /\ pc' = IF pending' THEN "looped" ELSE "point"
  /\ UNCHANGED <<setting, passed, stored, tally, proposal>>

(* After the pause the kernel is entered again, at the point it had not    *)
(* measured (_drive_optimizer_kernel_loop, _kopt_entry_point).             *)
Reenter ==
  /\ mode = "kernel" /\ pending /\ pc \in {"start", "returned"}
  /\ pending' = FALSE
  /\ pc' = "point"
  /\ UNCHANGED <<setting, passed, stored, tally, proposal>>

(* The scheduler ends the experiment at a pause: before a shot on the      *)
(* host, or in the place of a re-entry.                                    *)
Terminate ==
  /\ IF mode = "host" THEN pc = "point" ELSE pc = "returned" /\ pending
  /\ pc' = "terminated"
  /\ UNCHANGED <<setting, pending, passed, stored, tally, proposal>>

(* A measurement raises, which ends the walk.                             *)
Raise ==
  /\ pc \in {"point", "verify"}
  /\ pc' = "terminated"
  /\ UNCHANGED <<setting, pending, passed, stored, tally, proposal>>

(* The host persists the best point, then verifies it; the fix fails if    *)
(* there is none, or the verification does not pass.                       *)
PersistOnHost ==
  /\ pc = "looped" /\ mode = "host"
  /\ stored' = best
  /\ pc' = IF best = None THEN "failed" ELSE "verify"
  /\ UNCHANGED <<setting, pending, passed, tally, proposal>>

Verify ==
  /\ pc = "verify"
  /\ passed' \in BOOLEAN
  /\ pc' = IF mode = "kernel" THEN "returned" ELSE IF passed' THEN "done" ELSE "failed"
  /\ UNCHANGED <<setting, pending, stored, tally, proposal>>

(* _kopt_commit *)
Commit ==
  /\ mode = "kernel" /\ pc = "returned" /\ ~pending
  /\ IF best # None /\ passed
     THEN stored' = best /\ pc' = "done"
     ELSE pc' = "failed" /\ UNCHANGED stored
  /\ UNCHANGED <<setting, pending, passed, tally, proposal>>

Next ==
  \/ Prime \/ Start \/ Shot \/ GetBest \/ Reenter \/ Terminate \/ Raise
  \/ PersistOnHost \/ Verify \/ Commit

Spec == Init /\ [][Next]_vars

(* Measurements end, and so do pauses. *)
FairSpec == Spec /\ WF_vars(Next)

-------------------------------------------------------------------------------

(* A pause "neither skips a point nor measures one twice" (2149-2150), and *)
(* a fix takes nothing over from the one before it: the points measured    *)
(* are those the generator has proposed, in order, all of them at the end. *)
EachPointOnce ==
  LET n == Len(measured)
      left == IF pc = "point" \/ pending THEN {1}
              ELSE IF pc = "terminated" THEN {0, 1} ELSE {0}
  IN /\ Len(proposed) - n \in left
     /\ \A i \in 1..n : measured[i].point = proposed[i]

(* If the generator leaves the choice to the driver, the first of the best *)
(* good points is what is persisted (1963-1965, 2193-2197).                *)
PersistsBest ==
  pc = "done" /\ gen.value = None =>
    \E i \in 1..Len(measured) :
      /\ measured[i].ok /\ measured[i].point = stored
      /\ \A j \in 1..Len(measured) :
           measured[j].ok => IF j < i THEN Beats(measured[i].data, measured[j].data)
                                      ELSE ~Beats(measured[j].data, measured[i].data)

(* The zoom optimizer "centres its refinement on the same point the driver *)
(* would ultimately select" (optimizers.py 123-124): at every step, and at *)
(* whatever pause, the two agree on the best point so far.                 *)
ZoomAgrees == alg = "zoom" => gen.at = best

(* The built-in optimizers search "the [min, max] range" (26, 66-67, 140)  *)
(* and nothing outside it, wherever earlier stages, or earlier fixes, have *)
(* left them.                                                              *)
InRange ==
  alg # "custom" =>
    \A i \in 1..Len(proposed) : \A a \in Axes : proposed[i][a] \in Low[a]..High[a]

(* Fixed by a built-in optimizer, a calibration ends up at a point that    *)
(* was measured good in this very fix, of all parameters together; or, if  *)
(* no point was good, where it was (optimizers.py 108-117, 256).           *)
GoodOrUnmoved ==
  alg # "custom" /\ stored # None =>
    \/ \E i \in 1..Len(measured) : measured[i].ok /\ measured[i].point = stored
    \/ stored = home /\ \A i \in 1..Len(measured) : ~measured[i].ok

(* "Nothing usable yet; let the driver raise on no valid params"           *)
(* (optimizers.py 256).                                                    *)
NothingUsableRaises == pc = "done" /\ alg = "zoom" => gen.at # None

(* A fix leaves behind no parameters that were not verified: what the      *)
(* verification measures "is about to be committed" (calibration.py 90-91) *)
PersistedIsVerified == pc \in Ended /\ stored # None => passed

(* "The sweep still finishes even if the scheduler asks for a pause every  *)
(* single time" (2041-2043).                                               *)
SweepEnds == pc = "start" ~> pc \in Ended
=============================================================================
