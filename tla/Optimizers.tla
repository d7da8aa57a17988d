----------------------------- MODULE Optimizers -----------------------------
(***************************************************************************)
(* The parameter searches a calibration may use (qbutler/optimizers.py),   *)
(* as generators: each proposes one point at a time, is sent what the      *)
(* measurement of it gave, and returns at last.  A point is a value for    *)
(* every parameter; lengths are integers, in a unit so small that every    *)
(* division below comes out even.                                          *)
(***************************************************************************)
EXTENDS Integers, Sequences

CONSTANTS
  Low, High,   \* the parameters' ranges: one entry of each per parameter
  NumPoints,   \* NumPoints[alg]: num_points
  Stages,      \* Stages[alg]: n_rounds, n_stages
  ZoomFactor,  \* zoom_factor
  Strategy,    \* optimization_type: "max", "min" or "zero"
  Numbers,     \* the metrics that are finite numbers
  None,        \* no metric, or no point
  Candidates,  \* the points a custom generator may propose or return
  MaxPoints    \* bound: points a custom generator proposes

ASSUME SearchAssumption ==
  /\ Low \in Seq(Int) /\ High \in Seq(Int) /\ Len(Low) = Len(High) /\ Low # <<>>
  /\ NumPoints \in [{"grid", "descent", "zoom"} -> Nat \ {0}]
  /\ Stages \in [{"grid", "descent", "zoom"} -> Nat \ {0}]
  /\ ZoomFactor \in Nat \ {0} /\ MaxPoints \in Nat
  /\ Strategy \in {"max", "min", "zero"} /\ Numbers \subseteq Int

Axes == 1..Len(Low)

Least(x, y) == IF x < y THEN x ELSE y
Most(x, y) == IF x < y THEN y ELSE x

(* numpy.linspace: n evenly spaced values, ends included. *)
Linspace(lo, hi, n) ==
  [i \in 1..n |-> IF n = 1 THEN lo ELSE lo + ((i - 1) * (hi - lo)) \div (n - 1)]

(* Power(b)[k] is b ** k. *)
Power(b) == LET power[k \in Nat] == IF k = 0 THEN 1 ELSE b * power[k - 1] IN power

(* itertools.product of one axis for each parameter, the last fastest.     *)
Product(axes) ==
  LET n == Len(axes[1])
  IN [k \in 1..Power(n)[Len(axes)] |->
        [a \in Axes |-> axes[a][1 + (((k - 1) \div Power(n)[Len(axes) - a]) % n)]]]

Grid(n) == Product([a \in Axes |-> Linspace(Low[a], High[a], n)])

(* One parameter's line of candidates through a point. *)
Window(round, a, point) ==
  LET half == (High[a] - Low[a]) \div Power(2)[round + 1]
      line == Linspace(Most(Low[a], point[a] - half), Least(High[a], point[a] + half),
                       NumPoints["descent"])
  IN [i \in DOMAIN line |-> [point EXCEPT ![a] = line[i]]]

(* A mutant: a window that overruns an edge is left there. *)
AxisUnshifted(a, centre, factor) ==
  LET span == (High[a] - Low[a]) \div factor
  IN Linspace(centre - span \div 2, centre + span \div 2, NumPoints["zoom"])

(* _refined_axis: a window that overruns an edge is shifted back inside.   *)
RefinedAxis(a, centre, factor) ==
  LET span == (High[a] - Low[a]) \div factor
      low  == Most(centre - span \div 2, Low[a])
      high == low + span
      over == Most(high - High[a], 0)
  IN Linspace(Most(low - over, Low[a]), high - over, NumPoints["zoom"])

Refined(stage, centre) ==
  Product([a \in Axes |-> RefinedAxis(a, centre[a], Power(ZoomFactor)[stage])])

Abs(x) == IF x < 0 THEN -x ELSE x

(* x beats y: never, if one of them is no finite number (NaN).             *)
Beats(x, y) ==
  /\ x \in Numbers /\ y \in Numbers
  /\ CASE Strategy = "max" -> x > y
       [] Strategy = "min" -> x < y
       [] Strategy = "zero" -> Abs(x) < Abs(y)

-------------------------------------------------------------------------------
(* A generator between two of its steps: what it has still to propose of   *)
(* the stage it is in, the point it stands on (current, best_point), and   *)
(* the best it has seen of this window, or so far (best_data, best_value). *)
(* It has returned when nothing is left; "value" is what it returned.      *)
Generator(alg, left, at) ==
  [alg |-> alg, stage |-> 0, axis |-> 1, left |-> left, at |-> at,
   best |-> None, data |-> None, value |-> None]

(* Up to its first yield, or return; home is what the parameters stand at. *)
Begun(alg, home) ==
  CASE alg = "grid"    -> {Generator(alg, Grid(NumPoints[alg]), None)}
    [] alg = "zoom"    -> {Generator(alg, Grid(NumPoints[alg]), None)}
    [] alg = "descent" -> {Generator(alg, Window(0, 1, home), home)}
    [] alg = "custom"  -> {Generator(alg, <<p>>, None) : p \in Candidates}
         \cup {[Generator(alg, <<>>, None) EXCEPT !.value = v] : v \in Candidates \cup {None}}

(* Taking the measurement of the point proposed last into account. *)
Learnt(g, ok, data) ==
  LET point == Head(g.left)
  IN CASE g.alg = "zoom" /\ ok /\ data \in Numbers
            /\ (g.data = None \/ Beats(data, g.data))
          -> [g EXCEPT !.at = point, !.data = data]
       [] g.alg = "descent" /\ ok /\ data # None
            /\ (g.data = None \/ (data \in Numbers /\ g.data \in Numbers /\ data > g.data))
          -> [g EXCEPT !.best = point[g.axis], !.data = data]
       [] OTHER -> g

(* A mutant: what was best in one window is still best in the next. *)
AxisDoneKeepsBest(g) ==
  LET to    == IF g.data = None THEN g.at ELSE [g.at EXCEPT ![g.axis] = g.best]
      last  == g.axis = Len(Low)
      axis  == IF last THEN 1 ELSE g.axis + 1
      stage == IF last THEN g.stage + 1 ELSE g.stage
      moved == [g EXCEPT !.at = to, !.axis = axis, !.stage = stage]
  IN IF stage = Stages["descent"]
     THEN [moved EXCEPT !.left = <<>>, !.value = to]
     ELSE [moved EXCEPT !.left = Window(stage, axis, to)]

(* coordinate_descent_optimizer at the end of an axis: it moves to the     *)
(* best of the window, if any was good (best_value and best_data are set   *)
(* together), and turns to the next axis; after the last round it returns  *)
(* the point it stands on.                                                 *)
AxisDone(g) ==
  LET to    == IF g.data = None THEN g.at ELSE [g.at EXCEPT ![g.axis] = g.best]
      last  == g.axis = Len(Low)
      axis  == IF last THEN 1 ELSE g.axis + 1
      stage == IF last THEN g.stage + 1 ELSE g.stage
      moved == [g EXCEPT !.at = to, !.axis = axis, !.stage = stage,
                         !.best = None, !.data = None]
  IN IF stage = Stages["descent"]
     THEN [moved EXCEPT !.left = <<>>, !.value = to]
     ELSE [moved EXCEPT !.left = Window(stage, axis, to)]

(* zoom_grid_optimizer at the end of a stage: it zooms in on the best      *)
(* point so far, unless there is none or this was the last stage.          *)
StageDone(g) ==
  IF g.at = None \/ g.stage + 1 = Stages["zoom"]
  THEN [g EXCEPT !.left = <<>>]
  ELSE [g EXCEPT !.stage = @ + 1, !.left = Refined(g.stage + 1, g.at)]

(* The generator is sent a measurement, and goes on to its next yield or   *)
(* returns.  A custom one does as it likes, for MaxPoints points.          *)
Sent(g, ok, data, asked) ==
  LET learnt == Learnt(g, ok, data)
  IN IF g.alg = "custom"
     THEN {[g EXCEPT !.left = <<p>>] : p \in {q \in Candidates : asked < MaxPoints}}
            \cup {[g EXCEPT !.left = <<>>, !.value = v] : v \in Candidates \cup {None}}
     ELSE IF Len(g.left) > 1 THEN {[learnt EXCEPT !.left = Tail(@)]}
     ELSE {CASE g.alg = "zoom"    -> StageDone(learnt)
             [] g.alg = "descent" -> AxisDone(learnt)
             [] g.alg = "grid"    -> [learnt EXCEPT !.left = <<>>]}
=============================================================================
