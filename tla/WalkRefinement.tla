---------------------------- MODULE WalkRefinement ----------------------------
(***************************************************************************)
(* The fix walk keeps its contract: what needs work is what is not         *)
(* settled, what is due is what is owed.  If others write the dataset too, *)
(* no mark in it is safe from them, and the contract is that of a walk     *)
(* which holds no order: what needs work, and who may touch what.          *)
(***************************************************************************)
EXTENDS FixWalk

Phase == IF pc \in Walking THEN "walking"
         ELSE IF pc = "done" THEN "returned" ELSE "stopped"

Contract == INSTANCE WalkContract WITH
  Held <- IF Others THEN {} ELSE Fixable,
  phase <- Phase,
  work <- {n \in Nodes : ~Settled(n)},
  due <- IF Others THEN {} ELSE owed

(* A caller of fix_targets may rely on the contract (calibration.py        *)
(* 342-368, 195-244): nothing is touched while something below it needs    *)
(* work, a failure casts doubt one hop, an order is carried out only by    *)
(* leaving the calibration good, and a walk that returns leaves nothing to *)
(* do and nothing ordered undone, whatever interrupted it before.          *)
KeepsContract == Contract!Spec
==============================================================================
