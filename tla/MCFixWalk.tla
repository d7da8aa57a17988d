------------------------------ MODULE MCFixWalk ------------------------------
(* Small instances of FixWalk for TLC: a triangle of calibrations, in which *)
(* c depends on b and on a, and b depends on a.                             *)
EXTENDS WalkRefinement, TLC

CONSTANTS a, b, c

MCDeps  == a :> {} @@ b :> {a} @@ c :> {a, b}
MCOrder == <<a, b, c>>

(* The smallest DAG in which a failure can blame somebody. *)
PairDeps  == a :> {} @@ c :> {a}
PairOrder == <<a, c>>

(* Attempt budgets: nobody gives up; everybody fails fast; only c gives up, *)
(* after two attempts.                                                      *)
BudgetNone == [n \in Nodes |-> 0]
BudgetAll  == [n \in Nodes |-> 1]
BudgetTwo  == a :> 0 @@ b :> 0 @@ c :> 2
==============================================================================
