----------------------------- MODULE SweepProofs ------------------------------
(***************************************************************************)
(* What a fix by the optimizer keeps to, for any number of parameters,     *)
(* points, stages and pauses, on the host and in a resident kernel.        *)
(***************************************************************************)
EXTENDS Sweep, WellFoundedInduction, TLAPS

Algs == {"grid", "descent", "zoom", "custom"}
IsSeq(s) == \E S : s \in Seq(S)
IsGenerator(g) ==
  DOMAIN g = {"alg", "stage", "axis", "left", "at", "best", "data", "value"}

(* A point waits to be measured. *)
AtHand == pc = "point" \/ pending

(* The part of TypeOK that the argument needs. *)
Shape ==
  /\ mode \in {"host", "kernel"} /\ alg \in Algs
  /\ pc \in {"start", "point", "looped", "verify", "returned"} \cup Ended
  /\ pending \in BOOLEAN /\ passed \in BOOLEAN
  /\ IsSeq(proposed) /\ IsSeq(measured)
  /\ IsGenerator(gen) /\ gen.alg = alg
  /\ home \in Starts

(* Only kernels are cut for a pause. *)
Paused == pending => mode = "kernel" /\ pc \in {"looped", "returned", "terminated"}

(* The point at hand is the generator's, which has not returned. *)
Turn ==
  AtHand => /\ gen.left # <<>> /\ gen.value = None
            /\ current = Head(gen.left)
            /\ proposed # <<>> /\ current = proposed[Len(proposed)]

(* A fix begins with nothing. *)
Fresh ==
  pc = "start" => /\ gen = Unused /\ best = None /\ bestData = None
                  /\ stored = None /\ proposed = <<>> /\ measured = <<>>

(* What is stored is the best point, after the last measurement.           *)
Stored ==
  /\ stored # None => stored = best /\ pc \in {"verify"} \cup Ended
  /\ pc = "done" => stored = best /\ best # None
  /\ pc = "verify" /\ mode = "host" => stored = best /\ best # None
  /\ mode = "kernel" /\ pc # "done" => stored = None

IInv == Shape /\ Paused /\ Turn /\ Fresh /\ Stored /\ EachPointOnce

-------------------------------------------------------------------------------
(* Generators. *)

LEMMA NewGenerator ==
  ASSUME NEW a, NEW l, NEW p
  PROVE  LET g == Generator(a, l, p)
         IN /\ IsGenerator(g) /\ g.alg = a /\ g.left = l /\ g.at = p
            /\ g.axis = 1 /\ g.data = None /\ g.value = None /\ g.stage = 0
BY DEF Generator, IsGenerator

(* A generator that proposes a point has not returned; only the built-in   *)
(* descent, and a custom one, ever return a value.                         *)
LEMMA BegunProperties ==
  ASSUME NEW a \in Algs, NEW h, NEW g \in Begun(a, h)
  PROVE  /\ IsGenerator(g) /\ g.alg = a
         /\ g.left # <<>> => g.value = None
         /\ a # "custom" => g.value = None /\ g.data = None
         /\ a = "zoom" => g.at = None
         /\ a = "descent" => g.at = h /\ g.axis = 1 /\ g.left = Window(0, 1, h)
<1>1. CASE a \in {"grid", "zoom"}
  BY <1>1, NewGenerator DEF Begun
<1>2. CASE a = "descent"
  BY <1>2, NewGenerator DEF Begun
<1>3. CASE a = "custom"
  <2>1. CASE \E p \in Candidates : g = Generator(a, <<p>>, None)
    BY <1>3, <2>1, NewGenerator
  <2>2. CASE \E v \in Candidates \cup {None} :
                g = [Generator(a, <<>>, None) EXCEPT !.value = v]
    BY <1>3, <2>2 DEF Generator, IsGenerator
  <2> QED BY <1>3, <2>1, <2>2 DEF Begun
<1> QED BY <1>1, <1>2, <1>3 DEF Algs

LEMMA LearntProperties ==
  ASSUME NEW g, IsGenerator(g), NEW ok, NEW d
  PROVE  LET l == Learnt(g, ok, d)
         IN /\ IsGenerator(l) /\ l.alg = g.alg /\ l.left = g.left /\ l.value = g.value
            /\ l.axis = g.axis
            /\ g.alg # "zoom" => l.at = g.at
BY DEF Learnt, IsGenerator

LEMMA SentProperties ==
  ASSUME NEW g, IsGenerator(g), g.alg \in Algs, g.value = None,
         NEW ok, NEW d, NEW n, NEW h \in Sent(g, ok, d, n)
  PROVE  /\ IsGenerator(h) /\ h.alg = g.alg
         /\ h.left # <<>> => h.value = None
         /\ h.alg \in {"grid", "zoom"} => h.value = None
         /\ h.alg = "zoom" => /\ h.at = Learnt(g, ok, d).at
                              /\ h.data = Learnt(g, ok, d).data
<1> DEFINE l == Learnt(g, ok, d)
<1>0. IsGenerator(l) /\ l.alg = g.alg /\ l.value = None
  BY LearntProperties
<1>1. CASE g.alg = "custom"
  BY <1>1 DEF Sent, IsGenerator, Algs
<1>2. CASE g.alg # "custom" /\ Len(g.left) > 1
  <2>1. h = [l EXCEPT !.left = Tail(@)]
    BY <1>2 DEF Sent
  <2> QED BY <1>0, <1>2, <2>1 DEF IsGenerator
<1>3. CASE g.alg # "custom" /\ ~(Len(g.left) > 1)
  <2>1. CASE g.alg = "zoom"
    <3>1. h = StageDone(l)
      BY <1>3, <2>1 DEF Sent
    <3> QED BY <1>0, <2>1, <3>1 DEF StageDone, IsGenerator
  <2>2. CASE g.alg = "descent"
    <3>1. h = AxisDone(l)
      BY <1>3, <2>2 DEF Sent
    <3> QED BY <1>0, <2>2, <3>1 DEF AxisDone, IsGenerator
  <2>3. CASE g.alg = "grid"
    <3>1. h = [l EXCEPT !.left = <<>>]
      BY <1>3, <2>3 DEF Sent
    <3> QED BY <1>0, <2>3, <3>1 DEF IsGenerator
  <2> QED BY <1>3, <2>1, <2>2, <2>3 DEF Algs
<1> QED BY <1>1, <1>2, <1>3

LEMMA Appended ==
  ASSUME NEW s, IsSeq(s), NEW e
  PROVE  /\ IsSeq(Append(s, e)) /\ Len(s) \in Nat
         /\ Len(Append(s, e)) = Len(s) + 1
         /\ Append(s, e)[Len(s) + 1] = e
         /\ \A i \in 1..Len(s) : Append(s, e)[i] = s[i]
<1>1. PICK S : s \in Seq(S)
  BY DEF IsSeq
<1>2. s \in Seq(S \cup {e}) /\ e \in S \cup {e}
  BY <1>1
<1>3. Append(s, e) \in Seq(S \cup {e})
  BY <1>2
<1>4. IsSeq(Append(s, e))
  BY <1>3 DEF IsSeq
<1> QED BY <1>2, <1>4

-------------------------------------------------------------------------------
(* Points, pauses and commits. *)

(* The generator has run to its next point, or to its end.                 *)
LEMMA RunsProperties ==
  ASSUME IsSeq(proposed), NEW g, NEW seen, Runs(g, seen)
  PROVE  /\ gen' = g /\ IsSeq(proposed')
         /\ g.left # <<>> => /\ current' = Head(g.left) /\ best' = seen
                             /\ Len(proposed') = Len(proposed) + 1
                             /\ current' = proposed'[Len(proposed')]
                             /\ proposed' # <<>>
         /\ g.left = <<>> => /\ UNCHANGED <<current, proposed>>
                             /\ best' = IF g.value = None THEN seen ELSE g.value
         /\ \A i \in 1..Len(proposed) : proposed'[i] = proposed[i]
         /\ Len(proposed) \in Nat
<1>1. CASE g.left # <<>>
  <2>1. /\ gen' = g /\ current' = Head(g.left) /\ best' = seen
        /\ proposed' = Append(proposed, Head(g.left))
    BY <1>1 DEF Runs
  <2>2. Len(proposed') = Len(proposed) + 1 /\ Len(proposed) \in Nat
    BY <2>1, Appended
  <2>3. proposed' # <<>>
    BY <2>2
  <2> QED BY <1>1, <2>1, <2>2, <2>3, Appended
<1>2. CASE g.left = <<>>
  BY <1>2, Appended DEF Runs
<1> QED BY <1>1, <1>2

LEMMA IInvInit == Init => IInv
<1> SUFFICES ASSUME Init PROVE IInv
  OBVIOUS
<1>1. IsSeq(proposed) /\ IsSeq(measured) /\ Len(proposed) = 0 /\ Len(measured) = 0
  BY DEF Init, IsSeq
<1>2. mode \in {"host", "kernel"} /\ alg \in Algs
  BY SweepAssumption DEF Init, Algs
<1>3. IsGenerator(gen) /\ gen.alg = alg
  BY NewGenerator DEF Init, Unused
<1>4. Shape /\ Paused /\ Turn /\ Fresh
  BY <1>1, <1>2, <1>3 DEF Init, Shape, Paused, Turn, AtHand, Fresh
<1>5. Stored /\ EachPointOnce
  BY <1>1 DEF Init, Stored, EachPointOnce, Ended
<1> QED BY <1>4, <1>5 DEF IInv

LEMMA PrimeStep ==
  ASSUME IInv, Prime
  PROVE  IInv'
<1>1. IsSeq(proposed') /\ IsSeq(measured') /\ Len(proposed') = 0 /\ Len(measured') = 0
  BY DEF Prime, Forget, IsSeq
<1>2. IsGenerator(gen') /\ gen'.alg = alg'
  BY NewGenerator DEF Prime, Forget, Unused
<1>3. Shape'
  BY <1>1, <1>2 DEF IInv, Shape, Prime, Forget
<1>4. Paused' /\ Turn' /\ Fresh'
  BY DEF Prime, Forget, Paused, Turn, AtHand, Fresh, Unused
<1>5. Stored' /\ EachPointOnce'
  BY <1>1 DEF Prime, Forget, Stored, EachPointOnce, Ended
<1> QED BY <1>3, <1>4, <1>5 DEF IInv

LEMMA StartStep ==
  ASSUME IInv, Start
  PROVE  IInv'
<1>1. PICK g \in Begun(alg, home) : Runs(g, best)
  BY DEF Start
<1>2. /\ pc = "start" /\ ~pending
      /\ UNCHANGED <<setting, pending, passed, stored, tally>>
      /\ pc' = IF g.left # <<>> THEN "point" ELSE "looped"
  BY <1>1 DEF Start, Runs
<1>3. /\ IsGenerator(g) /\ g.alg = alg
      /\ g.left # <<>> => g.value = None
  BY BegunProperties DEF IInv, Shape
<1>4. /\ proposed = <<>> /\ measured = <<>> /\ stored = None
      /\ Len(proposed) = 0 /\ Len(measured) = 0
  BY <1>2 DEF IInv, Fresh
<1> USE <1>1, RunsProperties DEF IInv
<1>5. Shape' /\ Paused' /\ Turn' /\ Fresh'
  BY <1>2, <1>3 DEF Shape, Paused, Turn, AtHand, Fresh, setting, tally, Ended
<1>6. Stored'
  BY <1>2, <1>4 DEF Stored, Ended, setting
<1>7. EachPointOnce'
  BY <1>2, <1>4 DEF EachPointOnce, tally, Shape
<1> QED BY <1>5, <1>6, <1>7

(* One measurement, of the shape it has in Shot. *)
Improves(ok, data) == ok /\ IsBetter(data, bestData)
Measured(ok, data) ==
  /\ measured' = Append(measured, [point |-> current, ok |-> ok, data |-> data])
  /\ bestData' = (IF Improves(ok, data) THEN data ELSE bestData)
  /\ \E g \in Sent(gen, ok, data, Len(proposed)) :
       Runs(g, IF Improves(ok, data) THEN current ELSE best)

LEMMA ShotStep ==
  ASSUME IInv, Shot
  PROVE  IInv'
<1>a. PICK ok \in BOOLEAN : \E data \in Metrics(ok) : Measured(ok, data)
  BY DEF Shot, Measured, Improves
<1>b. PICK data \in Metrics(ok) : Measured(ok, data)
  BY <1>a
<1> DEFINE seen == IF Improves(ok, data) THEN current ELSE best
<1>1. PICK g \in Sent(gen, ok, data, Len(proposed)) :
        /\ measured' = Append(measured, [point |-> current, ok |-> ok, data |-> data])
        /\ Runs(g, seen)
  BY <1>b DEF Measured
<1>2. /\ pc = "point" /\ UNCHANGED <<setting, passed, stored>>
      /\ pending' \in {FALSE, mode = "kernel" /\ gen'.left # <<>>}
      /\ pc' = IF pending' \/ gen'.left = <<>> THEN "looped" ELSE "point"
  BY DEF Shot
<1>3. gen.value = None /\ current = proposed[Len(proposed)] /\ proposed # <<>>
  BY <1>2 DEF IInv, Turn, AtHand
<1>4. IsGenerator(g) /\ g.alg = alg /\ (g.left # <<>> => g.value = None)
  BY <1>3, SentProperties DEF IInv, Shape
<1>5. /\ IsSeq(measured') /\ Len(measured') = Len(measured) + 1 /\ Len(measured) \in Nat
      /\ measured'[Len(measured) + 1].point = current
      /\ \A i \in 1..Len(measured) : measured'[i] = measured[i]
  BY <1>1, Appended DEF IInv, Shape
<1>6. /\ gen' = g /\ IsSeq(proposed')
      /\ g.left # <<>> => /\ current' = Head(g.left)
                          /\ Len(proposed') = Len(proposed) + 1
                          /\ current' = proposed'[Len(proposed')]
                          /\ proposed' # <<>>
      /\ g.left = <<>> => UNCHANGED <<current, proposed>>
      /\ \A i \in 1..Len(proposed) : proposed'[i] = proposed[i]
      /\ Len(proposed) \in Nat
  BY <1>1, RunsProperties DEF IInv, Shape
<1>7. pending' \in BOOLEAN /\ (pending' => mode' = "kernel" /\ g.left # <<>>)
  BY <1>2, <1>6 DEF setting
<1>8. pc' \in {"point", "looped"} /\ (pc' = "point" => ~pending' /\ g.left # <<>>)
      /\ (pc' = "looped" /\ ~pending' => g.left = <<>>)
  BY <1>2, <1>6
<1>9. Shape'
  BY <1>2, <1>4, <1>5, <1>6, <1>7, <1>8 DEF IInv, Shape, setting
<1>10. Paused' /\ Turn' /\ Fresh'
  BY <1>4, <1>6, <1>7, <1>8 DEF Paused, Turn, AtHand, Fresh
<1>11. Stored'
  BY <1>2, <1>8 DEF IInv, Stored, Ended, setting
<1>12. EachPointOnce'
  <2>1. Len(proposed) = Len(measured) + 1
    BY <1>2, <1>5, <1>6 DEF IInv, EachPointOnce
  <2>2. \A i \in 1..Len(measured) : measured[i].point = proposed[i]
    BY DEF IInv, EachPointOnce
  <2>3. \A i \in 1..Len(measured') : measured'[i].point = proposed'[i]
    <3> SUFFICES ASSUME NEW i \in 1..Len(measured') PROVE measured'[i].point = proposed'[i]
      OBVIOUS
    <3>1. CASE i \in 1..Len(measured)
      BY <1>5, <1>6, <2>1, <2>2, <3>1
    <3>2. CASE i = Len(measured) + 1
      BY <1>3, <1>5, <1>6, <2>1, <3>2
    <3> QED BY <1>5, <3>1, <3>2
  <2>4. Len(proposed') - Len(measured') = IF g.left # <<>> THEN 1 ELSE 0
    BY <1>5, <1>6, <2>1
  <2> QED BY <1>7, <1>8, <2>3, <2>4 DEF EachPointOnce
<1> QED BY <1>9, <1>10, <1>11, <1>12 DEF IInv

(* All other steps propose and measure nothing. *)
LEMMA OtherStep ==
  ASSUME IInv,
         GetBest \/ Reenter \/ Terminate \/ Raise \/ PersistOnHost \/ Verify \/ Commit
  PROVE  IInv'
<1> USE DEF setting, tally, proposal, Ended
<1>1. UNCHANGED <<mode, alg, home, gen, current, best, bestData, proposed, measured>>
  BY DEF GetBest, Reenter, Terminate, Raise, PersistOnHost, Verify, Commit
<1>2. Shape'
  BY <1>1 DEF IInv, Shape, GetBest, Reenter, Terminate, Raise, PersistOnHost, Verify, Commit
<1>3. Paused' /\ Fresh'
  BY <1>1 DEF IInv, Shape, Paused, GetBest, Reenter, Terminate, Raise, PersistOnHost, Verify, Commit, Fresh
<1>4. Turn'
  BY <1>1 DEF IInv, Paused, Turn, AtHand, GetBest, Reenter, Terminate, Raise, PersistOnHost, Verify, Commit
<1>5. Stored'
  BY <1>1 DEF IInv, Shape, Stored, Fresh, Paused, GetBest, Reenter, Terminate, Raise, PersistOnHost, Verify, Commit
<1>6. EachPointOnce'
  <2>1. \A i \in 1..Len(measured') : measured'[i].point = proposed'[i]
    BY <1>1 DEF IInv, EachPointOnce
  <2>2. Len(proposed) \in Nat /\ Len(measured) \in Nat
    BY Appended DEF IInv, Shape
  <2>3. Len(proposed') - Len(measured')
          \in IF pc' = "point" \/ pending' THEN {1}
             ELSE IF pc' = "terminated" THEN {0, 1} ELSE {0}
    BY <1>1, <2>2 DEF IInv, EachPointOnce, Paused, Shape, GetBest, Reenter, Terminate, Raise, PersistOnHost, Verify, Commit
  <2> QED BY <2>1, <2>3 DEF EachPointOnce
<1> QED BY <1>2, <1>3, <1>4, <1>5, <1>6 DEF IInv

LEMMA IInvStep == IInv /\ [Next]_vars => IInv'
<1> SUFFICES ASSUME IInv, [Next]_vars PROVE IInv'
  OBVIOUS
<1>1. CASE UNCHANGED vars
  BY <1>1 DEF vars, IInv, Shape, Paused, Turn, AtHand, Fresh, Unused, Stored, EachPointOnce
<1>2. CASE Next
  BY <1>2, PrimeStep, StartStep, ShotStep, OtherStep DEF Next
<1> QED BY <1>1, <1>2

(* Whatever is paused, resumed, terminated or raised, the points measured  *)
(* are those proposed, in order, none twice (calibration.py 2144-2155).    *)
THEOREM EachPointOnceHolds == Spec => []EachPointOnce
<1>1. IInv => EachPointOnce
  BY DEF IInv
<1> QED BY <1>1, IInvInit, IInvStep, PTL DEF Spec

-------------------------------------------------------------------------------
(* Which point is the best one: as long as every metric is a number.       *)

GoodPoint(p) == \E i \in 1..Len(measured) : measured[i].ok /\ measured[i].point = p
NoneGood == \A i \in 1..Len(measured) : ~measured[i].ok

(* The first of the best good points.                                      *)
FirstBest(i) ==
  /\ measured[i].ok
  /\ \A j \in 1..Len(measured) :
       measured[j].ok => IF j < i THEN Beats(measured[i].data, measured[j].data)
                                  ELSE ~Beats(measured[j].data, measured[i].data)

(* The driver's incumbent is the first of the best, unless the generator   *)
(* has returned a point of its own.                                        *)
Incumbent ==
  /\ \A i \in 1..Len(measured) : measured[i].ok => measured[i].data \in Numbers
  /\ bestData = None => NoneGood /\ (gen.value = None => best = None)
  /\ bestData # None =>
       \E i \in 1..Len(measured) :
         /\ FirstBest(i) /\ measured[i].data = bestData
         /\ gen.value = None => best = measured[i].point

(* The zoom optimizer keeps the driver's books. *)
ZoomInv ==
  /\ alg = "zoom" => gen.at = best /\ gen.data = bestData
  /\ alg \in {"grid", "zoom"} => gen.value = None

LEMMA BeatsOrder ==
  ASSUME NEW x \in Numbers, NEW y \in Numbers, NEW z \in Numbers
  PROVE  /\ ~Beats(x, x)
         /\ Beats(x, y) /\ ~Beats(z, y) => Beats(x, z)
         /\ Beats(x, y) /\ Beats(y, z) => Beats(x, z)
<1>1. x \in Int /\ y \in Int /\ z \in Int
  BY SearchAssumption
<1>2. CASE Strategy = "max"
  BY <1>1, <1>2 DEF Beats
<1>3. CASE Strategy = "min"
  BY <1>1, <1>3 DEF Beats
<1>4. CASE Strategy = "zero"
  BY <1>1, <1>4 DEF Beats, Abs
<1> QED BY <1>2, <1>3, <1>4, SearchAssumption

(* One step of a sweep: what was measured, and where the generator went.   *)
Stepped(ok, data, g) ==
  /\ measured' = Append(measured, [point |-> current, ok |-> ok, data |-> data])
  /\ bestData' = (IF Improves(ok, data) THEN data ELSE bestData)
  /\ gen' = g
  /\ best' = IF g.left = <<>> /\ g.value # None THEN g.value
             ELSE IF Improves(ok, data) THEN current ELSE best

LEMMA ShotFacts ==
  ASSUME Shot
  PROVE  /\ AtHand /\ UNCHANGED <<mode, alg, home>>
         /\ \E ok \in BOOLEAN : \E data \in Metrics(ok) :
              \E g \in Sent(gen, ok, data, Len(proposed)) : Stepped(ok, data, g)
<1>1. PICK ok \in BOOLEAN : \E data \in Metrics(ok) : Measured(ok, data)
  BY DEF Shot, Measured, Improves
<1>2. PICK data \in Metrics(ok) : Measured(ok, data)
  BY <1>1
<1> DEFINE seen == IF Improves(ok, data) THEN current ELSE best
<1>3. PICK g \in Sent(gen, ok, data, Len(proposed)) : Runs(g, seen)
  BY <1>2 DEF Measured
<1>4. Stepped(ok, data, g)
  <2>1. CASE g.left = <<>>
    BY <1>2, <1>3, <2>1 DEF Measured, Runs, Stepped
  <2>2. CASE g.left # <<>>
    BY <1>2, <1>3, <2>2 DEF Measured, Runs, Stepped
  <2> QED BY <2>1, <2>2
<1>5. AtHand /\ UNCHANGED <<mode, alg, home>>
  BY DEF Shot, AtHand, setting
<1> QED BY <1>4, <1>5

LEMMA IncumbentShot ==
  ASSUME IInv, Data \subseteq Numbers, Incumbent, AtHand,
         NEW ok \in BOOLEAN, NEW data \in Metrics(ok),
         NEW g \in Sent(gen, ok, data, Len(proposed)), Stepped(ok, data, g)
  PROVE  Incumbent'
<1> DEFINE n == Len(measured)
<1>1. /\ n \in Nat /\ Len(measured') = n + 1
      /\ measured'[n + 1] = [point |-> current, ok |-> ok, data |-> data]
      /\ \A i \in 1..n : measured'[i] = measured[i]
  BY Appended DEF IInv, Shape, Stepped
<1>2. gen.value = None /\ IsGenerator(gen) /\ gen.alg \in Algs
  BY DEF IInv, Turn, Shape
<1>3. g.left # <<>> => g.value = None
  BY <1>2, SentProperties
<1>4. ok => data \in Numbers /\ data # None
  BY SweepAssumption DEF Metrics
<1>5. gen' = g /\ (g.value = None => best' = IF Improves(ok, data) THEN current ELSE best)
  BY <1>3 DEF Stepped
<1>6. \A i \in 1..(n + 1) : measured'[i].ok => measured'[i].data \in Numbers
  BY <1>1, <1>4 DEF Incumbent
<1>7. CASE Improves(ok, data)
  <2>1. ok /\ bestData' = data /\ data # None /\ IsBetter(data, bestData)
    BY <1>4, <1>7 DEF Stepped, Improves
  <2>2. ASSUME NEW j \in 1..n, measured[j].ok
        PROVE  Beats(data, measured[j].data)
    <3>1. bestData # None
      BY <2>2 DEF Incumbent, NoneGood
    <3>2. Beats(data, bestData)
      BY <2>1, <3>1 DEF IsBetter
    <3>3. PICK i \in 1..n : FirstBest(i) /\ measured[i].data = bestData
      BY <3>1 DEF Incumbent
    <3>4. bestData \in Numbers /\ measured[j].data \in Numbers /\ data \in Numbers
      BY <1>4, <2>1, <2>2, <3>3 DEF Incumbent, FirstBest
    <3>5. Beats(bestData, measured[j].data) \/ ~Beats(measured[j].data, bestData)
      BY <2>2, <3>3 DEF FirstBest
    <3> QED BY <3>2, <3>4, <3>5, BeatsOrder
  <2>3. ~Beats(data, data)
    BY <1>4, <2>1, BeatsOrder
  <2>0. PICK k : k = n + 1
    OBVIOUS
  <2>4. FirstBest(k)'
    <3> SUFFICES ASSUME NEW j \in 1..(n + 1), measured'[j].ok
                 PROVE  IF j < n + 1 THEN Beats(data, measured'[j].data)
                                     ELSE ~Beats(measured'[j].data, data)
      BY <1>1, <2>0, <2>1 DEF FirstBest
    <3>1. CASE j \in 1..n
      BY <1>1, <2>2, <3>1
    <3>2. CASE j = n + 1
      BY <1>1, <2>3, <3>2
    <3> QED BY <1>1, <3>1, <3>2
  <2>5. /\ k \in 1..Len(measured')
        /\ measured'[k].data = data /\ measured'[k].point = current
    BY <1>1, <2>0
  <2> QED BY <1>1, <1>5, <1>6, <1>7, <2>1, <2>4, <2>5 DEF Incumbent
<1>8. CASE ~Improves(ok, data)
  <2>1. bestData' = bestData /\ (g.value = None => best' = best)
    BY <1>5, <1>8 DEF Stepped
  <2>2. CASE bestData = None
    <3>1. ~ok
      BY <1>8, <2>2 DEF Improves, IsBetter
    <3>2. NoneGood'
      BY <1>1, <2>2, <3>1 DEF NoneGood, Incumbent
    <3> QED BY <1>1, <1>2, <1>5, <1>6, <2>1, <2>2, <3>2 DEF Incumbent
  <2>3. CASE bestData # None
    <3>1. PICK i \in 1..n : /\ FirstBest(i) /\ measured[i].data = bestData
                            /\ gen.value = None => best = measured[i].point
      BY <2>3 DEF Incumbent
    <3>2. ok => ~Beats(data, bestData)
      BY <1>8 DEF Improves, IsBetter
    <3>3. i \in 1..Len(measured') /\ measured'[i] = measured[i]
      BY <1>1
    <3>4. ASSUME NEW j \in 1..(n + 1), measured'[j].ok
          PROVE  IF j < i THEN Beats(measured'[i].data, measured'[j].data)
                          ELSE ~Beats(measured'[j].data, measured'[i].data)
      <4>1. CASE j \in 1..n
        BY <1>1, <3>1, <3>3, <3>4, <4>1 DEF FirstBest
      <4>2. CASE j = n + 1
        BY <1>1, <3>1, <3>2, <3>3, <3>4, <4>2
      <4> QED BY <1>1, <4>1, <4>2
    <3>5. FirstBest(i)'
      BY <1>1, <3>1, <3>3, <3>4 DEF FirstBest
    <3> QED BY <1>1, <1>2, <1>5, <1>6, <2>1, <2>3, <3>1, <3>3, <3>5 DEF Incumbent
  <2> QED BY <2>2, <2>3
<1> QED BY <1>7, <1>8

LEMMA ZoomShot ==
  ASSUME IInv, Data \subseteq Numbers, ZoomInv, AtHand, UNCHANGED alg,
         NEW ok \in BOOLEAN, NEW data \in Metrics(ok),
         NEW g \in Sent(gen, ok, data, Len(proposed)), Stepped(ok, data, g)
  PROVE  ZoomInv'
<1>1. gen.value = None /\ IsGenerator(gen) /\ gen.alg = alg /\ alg \in Algs
      /\ current = Head(gen.left)
  BY DEF IInv, Turn, Shape
<1>2. /\ g.alg \in {"grid", "zoom"} => g.value = None
      /\ g.alg = alg
      /\ alg = "zoom" => /\ g.at = Learnt(gen, ok, data).at
                         /\ g.data = Learnt(gen, ok, data).data
  BY <1>1, SentProperties
<1>3. ok => data \in Numbers /\ data # None
  BY SweepAssumption DEF Metrics
<1>4. ASSUME alg = "zoom"
      PROVE  g.at = best' /\ g.data = bestData'
  <2>1. best' = (IF Improves(ok, data) THEN current ELSE best)
    BY <1>2, <1>4 DEF Stepped
  <2>2. Learnt(gen, ok, data) = IF Improves(ok, data)
                                THEN [gen EXCEPT !.at = current, !.data = data] ELSE gen
    BY <1>1, <1>3, <1>4 DEF Learnt, Improves, IsBetter, ZoomInv
  <2> QED BY <1>1, <1>2, <1>4, <2>1, <2>2 DEF Stepped, ZoomInv, IsGenerator
<1> QED BY <1>1, <1>2, <1>4 DEF Stepped, ZoomInv

-------------------------------------------------------------------------------
(* The descent stands on a good point, or where it began while nothing was *)
(* good; what is left of its window differs from that in one parameter.    *)

At(p, a, x) == [p EXCEPT ![a] = x]
OnLine(l, a, p) == \E Y : l \in Seq({At(p, a, y) : y \in Y})
InWindow(g) == OnLine(g.left, g.axis, g.at)
Sound(p) == GoodPoint(p) \/ (p = home /\ NoneGood)

DescentInv ==
  alg = "descent" =>
    /\ AtHand => /\ gen.axis \in Axes /\ DOMAIN gen.at = Axes
                 /\ gen.at = [a \in Axes |-> gen.at[a]]
                 /\ InWindow(gen)
                 /\ gen.data = None => Sound(gen.at)
                 /\ gen.data # None => GoodPoint(At(gen.at, gen.axis, gen.best))
    /\ gen.value # None => best = gen.value /\ Sound(best)

LEMMA WindowShape ==
  ASSUME NEW r, NEW a, NEW p
  PROVE  OnLine(Window(r, a, p), a, p)
<1> DEFINE half == (High[a] - Low[a]) \div Power(2)[r + 1]
           line == Linspace(Most(Low[a], p[a] - half), Least(High[a], p[a] + half),
                            NumPoints["descent"])
           Y == {line[i] : i \in DOMAIN line}
           S == {At(p, a, y) : y \in Y}
<1>1. DOMAIN line = 1..NumPoints["descent"] /\ NumPoints["descent"] \in Nat
  BY SearchAssumption DEF Linspace
<1> HIDE DEF line
<1>2. Window(r, a, p) = [i \in 1..NumPoints["descent"] |-> At(p, a, line[i])]
  BY <1>1 DEF Window, line, At
<1>3. \A i \in 1..NumPoints["descent"] : At(p, a, line[i]) \in S
  BY <1>1
<1> HIDE DEF S
<1>4. [i \in 1..NumPoints["descent"] |-> At(p, a, line[i])] \in Seq(S)
  BY <1>1, <1>3
<1> QED BY <1>2, <1>4 DEF S, OnLine

LEMMA GoodStays ==
  ASSUME NEW ok, NEW data, NEW p, IsSeq(measured), UNCHANGED home,
         measured' = Append(measured, [point |-> current, ok |-> ok, data |-> data])
  PROVE  /\ GoodPoint(p) => GoodPoint(p)'
         /\ ok = TRUE /\ p = current => GoodPoint(p)'
         /\ ok = FALSE /\ Sound(p) => Sound(p)'
<1> DEFINE n == Len(measured)
<1>1. /\ n \in Nat /\ Len(measured') = n + 1
      /\ measured'[n + 1] = [point |-> current, ok |-> ok, data |-> data]
      /\ \A i \in 1..n : measured'[i] = measured[i]
  BY Appended
<1>2. \A i \in 1..n : i \in 1..Len(measured')
  BY <1>1
<1>3. n + 1 \in 1..Len(measured')
  BY <1>1
<1>4. GoodPoint(p) => GoodPoint(p)'
  BY <1>1, <1>2 DEF GoodPoint
<1>5. ok = TRUE /\ p = current => GoodPoint(p)'
  BY <1>1, <1>3 DEF GoodPoint
<1>6. ok = FALSE /\ NoneGood => NoneGood'
  <2> SUFFICES ASSUME ok = FALSE, NoneGood, NEW i \in 1..Len(measured')
               PROVE  ~measured'[i].ok
    BY DEF NoneGood
  <2>1. i \in 1..n \/ i = n + 1
    BY <1>1
  <2> QED BY <1>1, <2>1 DEF NoneGood
<1> QED BY <1>4, <1>5, <1>6 DEF Sound

LEMMA DescentShot ==
  ASSUME IInv, IInv', Data \subseteq Numbers, DescentInv, AtHand, UNCHANGED <<alg, home>>,
         alg = "descent",
         NEW ok \in BOOLEAN, NEW data \in Metrics(ok),
         NEW g \in Sent(gen, ok, data, Len(proposed)), Stepped(ok, data, g)
  PROVE  DescentInv'
<1>1. /\ gen.value = None /\ IsGenerator(gen) /\ gen.alg = "descent"
      /\ current = Head(gen.left) /\ gen.left # <<>> /\ IsSeq(measured)
  BY DEF IInv, Turn, Shape
<1>2. /\ gen.axis \in Axes /\ DOMAIN gen.at = Axes
      /\ gen.at = [a \in Axes |-> gen.at[a]]
      /\ gen.data = None => Sound(gen.at)
      /\ gen.data # None => GoodPoint(At(gen.at, gen.axis, gen.best))
  BY DEF DescentInv
<1>3. PICK Y : gen.left \in Seq({At(gen.at, gen.axis, y) : y \in Y})
  BY DEF DescentInv, InWindow, OnLine
<1>4. PICK y \in Y : current = At(gen.at, gen.axis, y)
  <2> DEFINE S == {At(gen.at, gen.axis, z) : z \in Y}
  <2>1. gen.left \in Seq(S)
    BY <1>3
  <2> HIDE DEF S
  <2>2. Head(gen.left) \in S
    BY <1>1, <2>1
  <2> QED BY <1>1, <2>2 DEF S
<1>5. ok => data # None
  BY SweepAssumption DEF Metrics
<1> PICK l : l = Learnt(gen, ok, data)
  OBVIOUS
<1>6. /\ l.at = gen.at /\ l.axis = gen.axis /\ l.left = gen.left /\ l.value = None
      /\ IsGenerator(l) /\ l.alg = "descent"
  BY <1>1, LearntProperties
<1>7. \/ l = gen /\ (ok => gen.data # None)
      \/ ok /\ l.data # None /\ At(l.at, l.axis, l.best) = current
  <2>1. current[gen.axis] = y
    BY <1>2, <1>4 DEF At
  <2> QED BY <1>1, <1>2, <1>4, <1>5, <2>1 DEF Learnt, IsGenerator
<1>8. /\ l.data = None => Sound(l.at)'
      /\ l.data # None => GoodPoint(At(l.at, l.axis, l.best))'
  <2> DEFINE p == At(l.at, l.axis, l.best)
  <2>1. /\ GoodPoint(p) => GoodPoint(p)'
        /\ ok = TRUE /\ p = current => GoodPoint(p)'
    BY <1>1, GoodStays DEF Stepped
  <2>2. /\ GoodPoint(l.at) => GoodPoint(l.at)'
        /\ ok = FALSE /\ Sound(l.at) => Sound(l.at)'
    BY <1>1, GoodStays DEF Stepped
  <2> QED BY <1>2, <1>6, <1>7, <2>1, <2>2
<1>9. AtHand' => g.left # <<>>
  BY DEF IInv, Turn, Stepped
<1>10. CASE Len(gen.left) > 1
  <2>1. g = [l EXCEPT !.left = Tail(gen.left)]
    BY <1>1, <1>6, <1>10 DEF Sent
  <2>2. /\ g.at = l.at /\ g.axis = l.axis /\ g.left = Tail(gen.left) /\ g.value = None
        /\ g.data = l.data /\ g.best = l.best
    BY <1>6, <2>1 DEF IsGenerator
  <2> DEFINE S == {At(gen.at, gen.axis, z) : z \in Y}
  <2>3. Tail(gen.left) \in Seq(S)
    <3>1. gen.left \in Seq(S)
      BY <1>3
    <3> HIDE DEF S
    <3> QED BY <1>1, <3>1
  <2>4. InWindow(g)
    BY <1>6, <2>2, <2>3 DEF InWindow, OnLine
  <2>5. /\ g.data = None => Sound(g.at)'
        /\ g.data # None => GoodPoint(At(g.at, g.axis, g.best))'
    BY <1>8, <2>2
  <2> QED BY <1>2, <1>6, <2>2, <2>4, <2>5 DEF DescentInv, Stepped, InWindow
<1>11. CASE ~(Len(gen.left) > 1)
  <2> DEFINE to == IF l.data = None THEN l.at ELSE At(l.at, l.axis, l.best)
             last == l.axis = Len(Low)
             axis == IF last THEN 1 ELSE l.axis + 1
             stage == IF last THEN l.stage + 1 ELSE l.stage
             moved == [l EXCEPT !.at = to, !.axis = axis, !.stage = stage,
                                !.best = None, !.data = None]
  <2>1. g = AxisDone(l)
    BY <1>1, <1>11 DEF Sent
  <2>2. g = IF stage = Stages["descent"]
            THEN [moved EXCEPT !.left = <<>>, !.value = to]
            ELSE [moved EXCEPT !.left = Window(stage, axis, to)]
    BY <2>1 DEF AxisDone, At
  <2>3. axis \in Axes
    <3>1. Len(Low) \in Nat \ {0} /\ l.axis \in 1..Len(Low)
      BY <1>2, <1>6, SearchAssumption DEF Axes
    <3> QED BY <3>1 DEF Axes
  <2>4. DOMAIN to = Axes /\ to = [a \in Axes |-> to[a]]
    BY <1>2, <1>6 DEF At
  <2>5. Sound(to)'
    BY <1>8 DEF Sound
  <2>6. CASE stage = Stages["descent"]
    <3>1. g.left = <<>> /\ g.value = to
      BY <1>6, <2>2, <2>6 DEF IsGenerator
    <3>2. ~AtHand'
      BY <1>9, <3>1
    <3>3. gen'.value # None => best' = gen'.value /\ best' = to
      BY <3>1 DEF Stepped
    <3> QED BY <2>5, <3>2, <3>3 DEF DescentInv
  <2>7. CASE stage # Stages["descent"]
    <3>1. /\ g.left = Window(stage, axis, to) /\ g.value = None /\ g.at = to
          /\ g.axis = axis /\ g.data = None
      BY <1>6, <2>2, <2>7 DEF IsGenerator
    <3>2. /\ g.left = Window(stage, g.axis, g.at) /\ g.axis \in Axes
          /\ DOMAIN g.at = Axes /\ g.at = [a \in Axes |-> g.at[a]] /\ Sound(g.at)'
      BY <2>3, <2>4, <2>5, <3>1
    <3> HIDE DEF to, axis, stage, moved
    <3>3. InWindow(g)
      BY <3>2, WindowShape DEF InWindow
    <3>4. InWindow(gen)'
      BY <3>3 DEF Stepped, InWindow
    <3> QED BY <3>1, <3>2, <3>4 DEF DescentInv, Stepped
  <2> QED BY <2>6, <2>7
<1> QED BY <1>10, <1>11

Found == Incumbent /\ ZoomInv /\ DescentInv
BestInv == IInv /\ Found

LEMMA BestInit == Init => BestInv
<1> SUFFICES ASSUME Init PROVE BestInv
  OBVIOUS
<1>1. gen.value = None /\ gen.at = None /\ gen.data = None
  BY NewGenerator DEF Init, Unused
<1>2. Incumbent /\ ZoomInv /\ DescentInv
  BY <1>1 DEF Init, Incumbent, NoneGood, ZoomInv, DescentInv, AtHand
<1> QED BY <1>2, IInvInit DEF BestInv, Found

LEMMA BestPrime ==
  ASSUME IInv, Prime
  PROVE  Found'
<1>1. gen'.value = None /\ gen'.at = None /\ gen'.data = None
  BY NewGenerator DEF Prime, Forget, Unused
<1> QED BY <1>1 DEF Prime, Forget, Found, Incumbent, NoneGood, ZoomInv, DescentInv, AtHand

LEMMA BestStart ==
  ASSUME IInv, IInv', Start
  PROVE  Found'
<1>1. PICK g \in Begun(alg, home) : Runs(g, best)
  BY DEF Start
<1>2. /\ pc = "start" /\ UNCHANGED <<mode, alg, home, bestData, measured>>
  BY DEF Start, setting, tally
<1>3. /\ alg \in Algs /\ home \in Starts
      /\ measured = <<>> /\ Len(measured) = 0 /\ bestData = None /\ best = None
  BY <1>2 DEF IInv, Shape, Fresh
<1>4. /\ g.left # <<>> => g.value = None
      /\ alg # "custom" => g.value = None /\ g.data = None
      /\ alg = "zoom" => g.at = None
      /\ alg = "descent" => g.at = home /\ g.axis = 1 /\ g.left = Window(0, 1, home)
  BY <1>3, BegunProperties
<1>5. gen' = g /\ best' = (IF g.value = None THEN None ELSE g.value)
  BY <1>1, <1>3, <1>4 DEF Runs
<1>6. Incumbent' /\ ZoomInv'
  BY <1>2, <1>3, <1>4, <1>5 DEF Incumbent, NoneGood, ZoomInv
<1>7. ASSUME alg = "descent" PROVE DescentInv'
  <2>1. g.axis \in Axes
    BY <1>4, <1>7, SearchAssumption DEF Axes
  <2>2. g.at \in [Axes -> Int]
    BY <1>3, <1>4, <1>7, SweepAssumption
  <2>3. OnLine(g.left, g.axis, g.at)
    BY <1>4, <1>7, WindowShape
  <2>4. InWindow(gen)'
    BY <1>5, <2>3 DEF InWindow, OnLine
  <2>5. Sound(g.at)'
    BY <1>2, <1>3, <1>4, <1>7 DEF Sound, NoneGood
  <2> QED BY <1>4, <1>5, <1>7, <2>1, <2>2, <2>4, <2>5 DEF DescentInv
<1>8. alg' # "descent" => DescentInv'
  BY DEF DescentInv
<1> QED BY <1>2, <1>6, <1>7, <1>8 DEF Found

LEMMA BestOther ==
  ASSUME BestInv,
         GetBest \/ Reenter \/ Terminate \/ Raise \/ PersistOnHost \/ Verify \/ Commit
  PROVE  Found'
<1>1. UNCHANGED <<alg, home, gen, best, bestData, measured>>
  BY DEF GetBest, Reenter, Terminate, Raise, PersistOnHost, Verify, Commit,
         setting, tally, proposal
<1>2. AtHand' => AtHand
  BY DEF GetBest, Reenter, Terminate, Raise, PersistOnHost, Verify, Commit, AtHand,
         setting, tally, proposal, Ended
<1>3. Incumbent' /\ ZoomInv'
  BY <1>1 DEF BestInv, Found, Incumbent, NoneGood, FirstBest, ZoomInv
<1>4. DescentInv'
  BY <1>1, <1>2 DEF BestInv, Found, DescentInv, InWindow, OnLine, Sound, GoodPoint, NoneGood
<1> QED BY <1>3, <1>4 DEF Found

LEMMA BestStep ==
  ASSUME Data \subseteq Numbers
  PROVE  BestInv /\ [Next]_vars => BestInv'
<1> SUFFICES ASSUME BestInv, [Next]_vars PROVE BestInv'
  OBVIOUS
<1>1. IInv'
  BY IInvStep DEF BestInv
<1>2. CASE UNCHANGED vars
  BY <1>1, <1>2 DEF vars, BestInv, Found, Incumbent, NoneGood, FirstBest, ZoomInv,
                    DescentInv, AtHand, InWindow, OnLine, Sound, GoodPoint
<1>3. CASE Shot
  <2>1. PICK ok \in BOOLEAN : \E data \in Metrics(ok) :
          \E g \in Sent(gen, ok, data, Len(proposed)) : Stepped(ok, data, g)
    BY <1>3, ShotFacts
  <2>2. PICK data \in Metrics(ok) :
          \E g \in Sent(gen, ok, data, Len(proposed)) : Stepped(ok, data, g)
    BY <2>1
  <2>3. PICK g \in Sent(gen, ok, data, Len(proposed)) : Stepped(ok, data, g)
    BY <2>2
  <2>4. AtHand /\ UNCHANGED <<alg, home>>
    BY <1>3, ShotFacts
  <2>5. Incumbent'
    BY <2>3, <2>4, IncumbentShot DEF BestInv, Found
  <2>6. ZoomInv'
    BY <2>3, <2>4, ZoomShot DEF BestInv, Found
  <2>7. alg = "descent" => DescentInv'
    BY <1>1, <2>3, <2>4, DescentShot DEF BestInv, Found
  <2>8. alg' # "descent" => DescentInv'
    BY DEF DescentInv
  <2> QED BY <1>1, <2>4, <2>5, <2>6, <2>7, <2>8 DEF BestInv, Found
<1>4. CASE Prime \/ Start
  BY <1>1, <1>4, BestPrime, BestStart DEF BestInv
<1>5. CASE GetBest \/ Reenter \/ Terminate \/ Raise \/ PersistOnHost \/ Verify \/ Commit
  BY <1>1, <1>5, BestOther DEF BestInv
<1> QED BY <1>2, <1>3, <1>4, <1>5 DEF Next

(* The sweep persists the first of the best good points, if the generator  *)
(* leaves the choice to the driver and every metric is a number            *)
(* (calibration.py 1963-1965, 2193-2197).                                  *)
THEOREM PersistsBestHolds ==
  ASSUME Data \subseteq Numbers
  PROVE  Spec => []PersistsBest
<1>1. BestInv => PersistsBest
  BY DEF BestInv, Found, IInv, Stored, Incumbent, FirstBest, PersistsBest
<1> QED BY <1>1, BestInit, BestStep, PTL DEF Spec

(* The zoom optimizer and the driver agree on the best point, through any  *)
(* number of stages and pauses (optimizers.py 123-124).                    *)
THEOREM ZoomAgreesHolds ==
  ASSUME Data \subseteq Numbers
  PROVE  Spec => []ZoomAgrees
<1>1. BestInv => ZoomAgrees
  BY DEF BestInv, Found, ZoomInv, ZoomAgrees
<1> QED BY <1>1, BestInit, BestStep, PTL DEF Spec

(* A built-in optimizer leaves the calibration at a point it measured good *)
(* in this fix, or where it was: of the descent, that the point it moves   *)
(* to parameter by parameter was one of those (optimizers.py 108-117).     *)
THEOREM GoodOrUnmovedHolds ==
  ASSUME Data \subseteq Numbers
  PROVE  Spec => []GoodOrUnmoved
<1>1. BestInv => GoodOrUnmoved
  <2> SUFFICES ASSUME BestInv, alg # "custom", stored # None
               PROVE  GoodPoint(stored) \/ (stored = home /\ NoneGood)
    BY DEF GoodOrUnmoved, GoodPoint, NoneGood
  <2>1. stored = best /\ alg \in {"grid", "zoom", "descent"}
    BY DEF BestInv, IInv, Stored, Shape, Algs
  <2>2. CASE gen.value = None
    <3>1. bestData # None
      BY <2>1, <2>2 DEF BestInv, Found, Incumbent
    <3> QED BY <2>1, <2>2, <3>1 DEF BestInv, Found, Incumbent, FirstBest, GoodPoint
  <2>3. CASE gen.value # None
    <3>1. Sound(best)
      BY <2>1, <2>3 DEF BestInv, Found, ZoomInv, DescentInv
    <3> QED BY <2>1, <3>1 DEF Sound
  <2> QED BY <2>2, <2>3
<1> QED BY <1>1, BestInit, BestStep, PTL DEF Spec

-------------------------------------------------------------------------------
(* The built-in searches stay within the ranges. *)

(* There is a least number in a set of numbers. *)
LEMMA NatMin == \A S \in SUBSET Nat : S # {} => \E m \in S : \A n \in S : m <= n
<1> DEFINE R == {ss \in Nat \X Nat : ss[1] < ss[2]}
<1>1. IsWellFoundedOn(R, Nat)
  BY NatLessThanWellFounded DEF OpToRel
<1>2. \A x, y \in Nat : <<y, x>> \in R <=> y < x
  OBVIOUS
<1> HIDE DEF R
<1> SUFFICES ASSUME NEW S \in SUBSET Nat, S # {}
             PROVE  \E m \in S : \A n \in S : m <= n
  OBVIOUS
<1>3. PICK m \in S : \A y \in S : ~(<<y, m>> \in R)
  BY <1>1, WFMin
<1>4. ASSUME NEW n \in S PROVE m <= n
  <2>1. n \in Nat /\ m \in Nat /\ ~(<<n, m>> \in R)
    BY <1>3
  <2>2. ~(n < m)
    BY <1>2, <2>1
  <2> QED BY <2>1, <2>2
<1> QED BY <1>4

(* Induction over the numbers of a set. *)
LEMMA AllNumbers ==
  ASSUME NEW S \in SUBSET Nat, 0 \in S, \A n \in S : n + 1 \in S
  PROVE  S = Nat
<1>1. ASSUME NEW m \in Nat \ S, \A n \in Nat \ S : m <= n PROVE FALSE
  <2>1. m # 0 /\ m \in Nat
    BY <1>1
  <2>2. m - 1 \in Nat /\ ~(m <= m - 1) /\ (m - 1) + 1 = m
    BY <2>1
  <2>3. m - 1 \in S
    BY <1>1, <2>2
  <2> QED BY <1>1, <2>2, <2>3
<1>2. Nat \ S # {} => \E m \in Nat \ S : \A n \in Nat \ S : m <= n
  BY NatMin
<1> QED BY <1>1, <1>2

(* What is done again and again is a function of how often. *)
Iterable(D, F, x) == \E g \in [Nat -> D] : g[0] = x /\ \A k \in Nat : g[k + 1] = F[g[k]]

LEMMA Iterates ==
  ASSUME NEW D, NEW F \in [D -> D], NEW x \in D
  PROVE  Iterable(D, F, x)
<1> DEFINE Begins(n, h) == h \in [0..n -> D] /\ h[0] = x /\ \A k \in 0..(n - 1) : h[k + 1] = F[h[k]]
<1>1. \A n \in Nat : \E h : Begins(n, h)
  <2> DEFINE S == {n \in Nat : \E h : Begins(n, h)}
  <2>1. 0 \in S
    <3>1. Begins(0, [k \in 0..0 |-> x])
      OBVIOUS
    <3> QED BY <3>1
  <2>2. ASSUME NEW n \in S PROVE n + 1 \in S
    <3>1. PICK h : Begins(n, h)
      OBVIOUS
    <3> DEFINE j == [k \in 0..(n + 1) |-> IF k = n + 1 THEN F[h[n]] ELSE h[k]]
    <3>2. n \in Nat /\ n \in 0..n /\ n + 1 \in 0..(n + 1) /\ 0 \in 0..n
          /\ (\A k \in 0..(n + 1) : k = n + 1 \/ k \in 0..n)
          /\ (\A k \in 0..n : k # n + 1 /\ (k + 1 = n + 1 <=> k = n))
          /\ (\A k \in 0..n : k = n \/ k \in 0..(n - 1))
      OBVIOUS
    <3>3. h[n] \in D /\ \A k \in 0..n : h[k] \in D
      BY <3>1, <3>2
    <3>4. j \in [0..(n + 1) -> D]
      BY <3>2, <3>3
    <3>5. j[0] = x
      BY <3>1, <3>2
    <3>6. ASSUME NEW k \in 0..((n + 1) - 1) PROVE j[k + 1] = F[j[k]]
      <4>1. k \in 0..n /\ k + 1 \in 0..(n + 1) /\ k \in 0..(n + 1)
        BY <3>2
      <4>2. j[k] = h[k]
        BY <3>2, <4>1
      <4>3. CASE k = n
        BY <3>2, <4>1, <4>2, <4>3
      <4>4. CASE k # n
        BY <3>1, <3>2, <4>1, <4>2, <4>4
      <4> QED BY <4>3, <4>4
    <3>7. Begins(n + 1, j)
      BY <3>4, <3>5, <3>6
    <3> HIDE DEF j
    <3> QED BY <3>2, <3>7
  <2> HIDE DEF S
  <2>3. S = Nat
    BY <2>1, <2>2, AllNumbers DEF S
  <2> QED BY <2>3 DEF S
<1>2. ASSUME NEW n \in Nat, NEW m \in Nat, NEW h, NEW i, Begins(n, h), Begins(m, i), n <= m
      PROVE  \A k \in 0..n : h[k] = i[k]
  <2> DEFINE S == {k \in Nat : k <= n => h[k] = i[k]}
  <2>1. 0 \in S
    BY <1>2
  <2>2. ASSUME NEW k \in S PROVE k + 1 \in S
    <3>1. k + 1 <= n => k \in 0..(n - 1) /\ k \in 0..(m - 1) /\ k <= n
      BY <1>2
    <3>2. k + 1 <= n => h[k] = i[k] /\ h[k + 1] = F[h[k]] /\ i[k + 1] = F[i[k]]
      BY <1>2, <3>1
    <3> QED BY <3>2
  <2> HIDE DEF S
  <2>3. S = Nat
    BY <2>1, <2>2, AllNumbers DEF S
  <2> QED BY <2>3 DEF S
<1> DEFINE run(n) == CHOOSE h : Begins(n, h)
           g == [n \in Nat |-> run(n)[n]]
<1>3. \A n \in Nat : Begins(n, run(n))
  BY <1>1
<1> HIDE DEF run
<1>4. g \in [Nat -> D]
  <2>1. \A n \in Nat : n \in 0..n
    OBVIOUS
  <2> QED BY <1>3, <2>1
<1>5. g[0] = x
  BY <1>3
<1>6. ASSUME NEW k \in Nat PROVE g[k + 1] = F[g[k]]
  <2>1. k + 1 \in Nat /\ k <= k + 1 /\ k \in 0..k /\ k \in 0..((k + 1) - 1)
    OBVIOUS
  <2>2. Begins(k, run(k)) /\ Begins(k + 1, run(k + 1))
    BY <1>3, <2>1
  <2>3. run(k)[k] = run(k + 1)[k]
    <3> HIDE DEF Begins
    <3> QED BY <1>2, <2>1, <2>2
  <2>4. run(k + 1)[k + 1] = F[run(k + 1)[k]]
    BY <2>1, <2>2
  <2> QED BY <2>1, <2>3, <2>4
<1> HIDE DEF g
<1> QED BY <1>4, <1>5, <1>6 DEF Iterable

LEMMA PowerUnfolds ==
  ASSUME NEW b, NEW g, g = [k \in Nat |-> IF k = 0 THEN 1 ELSE b * g[k - 1]]
  PROVE  Power(b) = [k \in Nat |-> IF k = 0 THEN 1 ELSE b * Power(b)[k - 1]]
BY DEF Power

LEMMA PowerType ==
  ASSUME NEW b \in Nat \ {0}, NEW n \in Nat
  PROVE  Power(b)[n] \in Nat \ {0}
<1> DEFINE D == Nat \ {0}
           F == [x \in D |-> b * x]
<1>1. ASSUME NEW x \in D PROVE b * x \in D
  OBVIOUS
<1>2. F \in [D -> D] /\ 1 \in D
  BY <1>1
<1>3. PICK g \in [Nat -> D] : g[0] = 1 /\ \A k \in Nat : g[k + 1] = F[g[k]]
  <2> HIDE DEF D, F
  <2>1. Iterable(D, F, 1)
    BY <1>2, Iterates
  <2> QED BY <2>1 DEF Iterable
<1>4. ASSUME NEW k \in Nat
      PROVE  g[k] = IF k = 0 THEN 1 ELSE b * g[k - 1]
  <2>1. CASE k = 0
    BY <1>3, <2>1
  <2>2. CASE k # 0
    <3>1. k - 1 \in Nat /\ (k - 1) + 1 = k
      BY <2>2
    <3> QED BY <1>3, <2>2, <3>1
  <2> QED BY <2>1, <2>2
<1>5. g = [k \in Nat |-> IF k = 0 THEN 1 ELSE b * g[k - 1]]
  BY <1>4
<1>6. Power(b) = [k \in Nat |-> IF k = 0 THEN 1 ELSE b * Power(b)[k - 1]]
  BY <1>5, PowerUnfolds
<1> DEFINE S == {k \in Nat : Power(b)[k] \in D}
<1>7. 0 \in S
  <2>1. Power(b)[0] = 1
    BY <1>6
  <2> QED BY <2>1
<1>8. ASSUME NEW k \in S PROVE k + 1 \in S
  <2>1. k + 1 \in Nat /\ k + 1 # 0 /\ (k + 1) - 1 = k
    OBVIOUS
  <2>2. Power(b)[k + 1] = b * Power(b)[k]
    BY <1>6, <2>1
  <2>3. Power(b)[k] \in D
    OBVIOUS
  <2> QED BY <1>1, <2>1, <2>2, <2>3
<1> HIDE DEF S
<1>9. S = Nat
  <2>1. S \in SUBSET Nat
    BY DEF S
  <2> QED BY <1>7, <1>8, <2>1, AllNumbers
<1>10. n \in S
  BY <1>9
<1> QED BY <1>10 DEF S

LEMMA LinspaceWithin ==
  ASSUME NEW lo \in Int, NEW hi \in Int, lo <= hi, NEW n \in Nat \ {0}
  PROVE  Linspace(lo, hi, n) \in [1..n -> lo..hi]
<1>1. ASSUME NEW i \in 1..n, n # 1
      PROVE  lo + ((i - 1) * (hi - lo)) \div (n - 1) \in lo..hi
  <2>1. PICK x \in Nat : x = i - 1
    OBVIOUS
  <2>2. PICK d \in Nat \ {0} : d = n - 1
    BY <1>1
  <2>3. PICK w \in Nat : w = hi - lo
    OBVIOUS
  <2>4. x <= d
    BY <2>1, <2>2
  <2>5. (x * w) \div d <= w /\ 0 <= (x * w) \div d /\ (x * w) \div d \in Int
    BY <2>4
  <2> QED BY <2>1, <2>2, <2>3, <2>5
<1> QED BY <1>1 DEF Linspace

(* A parameter's values within its range, and the points that consist of   *)
(* such values.                                                            *)
Span(a) == Low[a]..High[a]
Box == {p \in [Axes -> Int] : \A a \in Axes : p[a] \in Span(a)}
ProperRanges == \A a \in Axes : Low[a] <= High[a]

LEMMA AxisType ==
  ASSUME NEW a \in Axes
  PROVE  Low[a] \in Int /\ High[a] \in Int
BY SearchAssumption DEF Axes

LEMMA ProductWithin ==
  ASSUME NEW n \in Nat \ {0}, NEW axes, axes = [a \in Axes |-> axes[a]],
         \A a \in Axes : axes[a] \in [1..n -> Span(a)]
  PROVE  Product(axes) \in Seq(Box)
<1> DEFINE m == Len(Low)
<1>1. m \in Nat \ {0} /\ Axes = 1..m
  BY SearchAssumption DEF Axes
<1> HIDE DEF m
<1>2. Len(axes) = m
  BY <1>1
<1>3. Len(axes[1]) = n
  <2>1. 1 \in Axes
    BY <1>1
  <2>2. axes[1] \in [1..n -> Span(1)]
    BY <2>1
  <2> QED BY <2>2
<1> DEFINE N == Power(n)[m]
           digit(k, a) == 1 + (((k - 1) \div Power(n)[m - a]) % n)
           p(k) == [a \in Axes |-> axes[a][digit(k, a)]]
<1>4. Product(axes) = [k \in 1..N |-> p(k)]
  BY <1>2, <1>3 DEF Product
<1>5. N \in Nat
  BY <1>1, PowerType
<1>6. ASSUME NEW k \in 1..N, NEW a \in Axes PROVE digit(k, a) \in 1..n
  <2>1. m - a \in Nat
    BY <1>1
  <2>2. PICK d \in Nat \ {0} : d = Power(n)[m - a]
    BY <2>1, PowerType
  <2>3. k - 1 \in Nat
    BY <1>5
  <2>4. (k - 1) \div d \in Nat
    BY <2>3, SMTT(20)
  <2> DEFINE x == (k - 1) \div d
  <2> HIDE DEF x
  <2>5. x % n \in 0..(n - 1)
    BY <2>4 DEF x
  <2>6. digit(k, a) = 1 + (x % n)
    BY <2>2 DEF x
  <2> HIDE DEF digit
  <2> QED BY <2>5, <2>6
<1> HIDE DEF N, digit
<1>7. ASSUME NEW k \in 1..N PROVE p(k) \in Box
  <2>1. \A a \in Axes : axes[a][digit(k, a)] \in Span(a) /\ axes[a][digit(k, a)] \in Int
    <3> SUFFICES ASSUME NEW a \in Axes
                 PROVE  axes[a][digit(k, a)] \in Span(a) /\ axes[a][digit(k, a)] \in Int
      OBVIOUS
    <3>1. axes[a][digit(k, a)] \in Span(a)
      BY <1>6
    <3> QED BY <3>1, AxisType DEF Span
  <2> QED BY <2>1 DEF Box
<1> HIDE DEF p
<1>8. [k \in 1..N |-> p(k)] \in Seq(Box)
  BY <1>5, <1>7
<1> QED BY <1>4, <1>8

LEMMA GridWithin ==
  ASSUME ProperRanges, NEW n \in Nat \ {0}
  PROVE  Grid(n) \in Seq(Box)
<1> DEFINE axes == [a \in Axes |-> Linspace(Low[a], High[a], n)]
<1>1. ASSUME NEW a \in Axes PROVE axes[a] \in [1..n -> Span(a)]
  BY AxisType, LinspaceWithin DEF ProperRanges, Span
<1>2. axes = [a \in Axes |-> axes[a]]
  OBVIOUS
<1> HIDE DEF axes
<1>3. Product(axes) \in Seq(Box)
  BY <1>1, <1>2, ProductWithin
<1> QED BY <1>3 DEF Grid, axes

(* A window that overruns an edge is shifted back inside, whatever it is   *)
(* centred on.                                                             *)
LEMMA RefinedWithin ==
  ASSUME ProperRanges, NEW stage \in Nat, NEW centre \in [Axes -> Int]
  PROVE  Refined(stage, centre) \in Seq(Box)
<1> DEFINE n == NumPoints["zoom"]
           factor == Power(ZoomFactor)[stage]
           axes == [a \in Axes |-> RefinedAxis(a, centre[a], factor)]
<1>1. n \in Nat \ {0} /\ factor \in Nat \ {0}
  BY SearchAssumption, PowerType
<1> HIDE DEF factor
<1>2. ASSUME NEW a \in Axes PROVE axes[a] \in [1..n -> Span(a)]
  <2> DEFINE span == (High[a] - Low[a]) \div factor
             low == Most(centre[a] - span \div 2, Low[a])
             over == Most((low + span) - High[a], 0)
             l == Most(low - over, Low[a])
             h == (low + span) - over
  <2>1. Low[a] \in Int /\ High[a] \in Int /\ Low[a] <= High[a] /\ centre[a] \in Int
    BY AxisType DEF ProperRanges
  <2>2. span \in Nat /\ span <= High[a] - Low[a]
    <3>1. PICK w \in Nat : w = High[a] - Low[a]
      BY <2>1
    <3>2. w \div factor \in Nat /\ w \div factor <= w
      BY <1>1
    <3> QED BY <3>1, <3>2
  <2> HIDE DEF span
  <2>3. low \in Int /\ low >= Low[a]
    BY <2>1, <2>2 DEF Most
  <2> HIDE DEF low
  <2>4. over \in Int /\ l \in Int /\ h \in Int /\ Low[a] <= l /\ l <= h /\ h <= High[a]
    BY <2>1, <2>2, <2>3 DEF Most
  <2>5. axes[a] = Linspace(l, h, n)
    BY DEF RefinedAxis, span, low
  <2> HIDE DEF l, h, over, n, axes
  <2>6. Linspace(l, h, n) \in [1..n -> l..h]
    BY <1>1, <2>4, LinspaceWithin
  <2>7. \A x \in l..h : x \in Span(a)
    BY <2>1, <2>4 DEF Span
  <2> QED BY <2>5, <2>6, <2>7
<1>3. axes = [a \in Axes |-> axes[a]]
  OBVIOUS
<1>4. Refined(stage, centre) = Product(axes)
  BY DEF Refined, factor
<1> HIDE DEF axes, n
<1> QED BY <1>1, <1>2, <1>3, <1>4, ProductWithin

LEMMA WindowWithin ==
  ASSUME NEW round \in Nat, NEW a \in Axes, NEW point \in Box
  PROVE  Window(round, a, point) \in Seq(Box)
<1> DEFINE half == (High[a] - Low[a]) \div Power(2)[round + 1]
           l == Most(Low[a], point[a] - half)
           h == Least(High[a], point[a] + half)
           n == NumPoints["descent"]
           line == Linspace(l, h, n)
<1>1. Low[a] \in Int /\ High[a] \in Int /\ point[a] \in Span(a) /\ point \in [Axes -> Int]
  BY AxisType DEF Box
<1>2. half \in Nat
  <2>1. PICK w \in Nat : w = High[a] - Low[a]
    BY <1>1 DEF Span
  <2>2. PICK d \in Nat \ {0} : d = Power(2)[round + 1]
    BY PowerType
  <2>3. w \div d \in Nat
    OBVIOUS
  <2> QED BY <2>1, <2>2, <2>3
<1>3. n \in Nat \ {0}
  BY SearchAssumption
<1>4. l \in Int /\ h \in Int /\ Low[a] <= l /\ l <= h /\ h <= High[a]
  BY <1>1, <1>2 DEF Most, Least, Span
<1>5. Window(round, a, point) = [i \in DOMAIN line |-> [point EXCEPT ![a] = line[i]]]
  BY DEF Window
<1> HIDE DEF l, h, n
<1>6. line \in [1..n -> l..h]
  BY <1>3, <1>4, LinspaceWithin
<1> HIDE DEF line
<1>7. ASSUME NEW i \in 1..n PROVE [point EXCEPT ![a] = line[i]] \in Box
  <2>1. line[i] \in Span(a) /\ line[i] \in Int
    BY <1>1, <1>4, <1>6 DEF Span
  <2>2. [point EXCEPT ![a] = line[i]] \in [Axes -> Int]
    BY <1>1, <2>1
  <2>3. \A b \in Axes : [point EXCEPT ![a] = line[i]][b] = IF b = a THEN line[i] ELSE point[b]
    BY <1>1
  <2>4. \A b \in Axes : point[b] \in Span(b)
    BY DEF Box
  <2> QED BY <2>1, <2>2, <2>3, <2>4 DEF Box
<1>8. [i \in 1..n |-> [point EXCEPT ![a] = line[i]]] \in Seq(Box)
  BY <1>3, <1>7
<1> QED BY <1>5, <1>6, <1>8

(* What a built-in search has still to propose, and all that it will move  *)
(* to or refine around, lies within the ranges.                            *)
InBox(g) ==
  /\ g.left \in Seq(Box) /\ g.stage \in Nat
  /\ g.alg = "zoom" => g.at \in Box \cup {None}
  /\ g.alg = "descent" => /\ g.at \in Box /\ g.axis \in Axes
                          /\ g.data # None => g.best \in Span(g.axis)

LEMMA BegunInBox ==
  ASSUME ProperRanges, NEW a \in Algs \ {"custom"}, NEW h \in Box, NEW g \in Begun(a, h)
  PROVE  InBox(g)
<1>1. /\ g.alg = a /\ g.stage = 0 /\ g.data = None
      /\ a = "zoom" => g.at = None
      /\ a = "descent" => g.at = h /\ g.axis = 1 /\ g.left = Window(0, 1, h)
      /\ a \in {"grid", "zoom"} => g.left = Grid(NumPoints[a])
  BY NewGenerator DEF Begun, Algs
<1>2. 1 \in Axes
  BY SearchAssumption DEF Axes
<1>3. a = "descent" => g.left \in Seq(Box)
  <2>1. Window(0, 1, h) \in Seq(Box)
    <3>1. 0 \in Nat
      OBVIOUS
    <3> QED BY <1>2, <3>1, WindowWithin
  <2> QED BY <1>1, <2>1
<1>4. a \in {"grid", "zoom"} => g.left \in Seq(Box)
  <2>1. a \in {"grid", "zoom"} => NumPoints[a] \in Nat \ {0}
    BY SearchAssumption
  <2> QED BY <1>1, <2>1, GridWithin
<1> QED BY <1>1, <1>2, <1>3, <1>4 DEF InBox, Algs

LEMMA SentInBox ==
  ASSUME ProperRanges, NEW g, IsGenerator(g), g.alg \in Algs \ {"custom"},
         InBox(g), g.left # <<>>, NEW ok, NEW d, NEW n, NEW h \in Sent(g, ok, d, n)
  PROVE  InBox(h)
<1> PICK l : l = Learnt(g, ok, d)
  OBVIOUS
<1>1. IsGenerator(l) /\ l.alg = g.alg /\ l.left = g.left /\ l.axis = g.axis
  BY LearntProperties
<1>2. Head(g.left) \in Box /\ Tail(g.left) \in Seq(Box)
  BY DEF InBox
<1>3. InBox(l)
  <2>1. g.alg = "descent" => Head(g.left)[g.axis] \in Span(g.axis)
    BY <1>2 DEF InBox, Box
  <2> HIDE DEF Box
  <2> QED BY <1>2, <2>1 DEF Learnt, InBox, IsGenerator
<1>4. CASE Len(g.left) > 1
  <2>1. h = [l EXCEPT !.left = Tail(g.left)]
    BY <1>1, <1>4 DEF Sent
  <2> QED BY <1>1, <1>2, <1>3, <2>1 DEF InBox, IsGenerator
<1>5. CASE ~(Len(g.left) > 1) /\ g.alg = "grid"
  <2>1. h = [l EXCEPT !.left = <<>>]
    BY <1>5 DEF Sent
  <2> QED BY <1>1, <1>3, <1>5, <2>1 DEF InBox, IsGenerator
<1>6. CASE ~(Len(g.left) > 1) /\ g.alg = "zoom"
  <2>1. h = StageDone(l)
    BY <1>6 DEF Sent
  <2>2. CASE l.at = None \/ l.stage + 1 = Stages["zoom"]
    <3>1. h = [l EXCEPT !.left = <<>>]
      BY <2>1, <2>2 DEF StageDone
    <3> QED BY <1>1, <1>3, <1>6, <3>1 DEF InBox, IsGenerator
  <2>3. CASE ~(l.at = None \/ l.stage + 1 = Stages["zoom"])
    <3>1. h = [l EXCEPT !.stage = l.stage + 1, !.left = Refined(l.stage + 1, l.at)]
      BY <2>1, <2>3 DEF StageDone
    <3>2. l.stage + 1 \in Nat /\ l.at \in Box
      BY <1>1, <1>3, <1>6, <2>3 DEF InBox
    <3>3. Refined(l.stage + 1, l.at) \in Seq(Box)
      <4>1. l.at \in [Axes -> Int]
        BY <3>2 DEF Box
      <4> QED BY <3>2, <4>1, RefinedWithin
    <3>4. /\ h.left = Refined(l.stage + 1, l.at) /\ h.stage = l.stage + 1
          /\ h.at = l.at /\ h.alg = "zoom"
      BY <1>1, <1>6, <3>1 DEF IsGenerator
    <3> QED BY <3>2, <3>3, <3>4 DEF InBox
  <2> QED BY <2>2, <2>3
<1>7. CASE ~(Len(g.left) > 1) /\ g.alg = "descent"
  <2> DEFINE to == IF l.data = None THEN l.at ELSE [l.at EXCEPT ![l.axis] = l.best]
             last == l.axis = Len(Low)
             axis == IF last THEN 1 ELSE l.axis + 1
             stage == IF last THEN l.stage + 1 ELSE l.stage
             moved == [l EXCEPT !.at = to, !.axis = axis, !.stage = stage,
                                !.best = None, !.data = None]
  <2>1. h = AxisDone(l)
    BY <1>7 DEF Sent
  <2>2. h = IF stage = Stages["descent"]
            THEN [moved EXCEPT !.left = <<>>, !.value = to]
            ELSE [moved EXCEPT !.left = Window(stage, axis, to)]
    BY <2>1 DEF AxisDone
  <2>3. l.at \in Box /\ l.axis \in Axes /\ l.stage \in Nat /\ (l.data # None => l.best \in Span(l.axis))
    BY <1>1, <1>3, <1>7 DEF InBox
  <2>4. axis \in Axes /\ stage \in Nat
    <3>1. Len(Low) \in Nat \ {0} /\ l.axis \in 1..Len(Low)
      BY <2>3, SearchAssumption DEF Axes
    <3> QED BY <2>3, <3>1 DEF Axes
  <2>5. to \in Box
    <3>1. CASE l.data = None
      BY <2>3, <3>1
    <3>2. CASE l.data # None
      <4>1. l.best \in Span(l.axis) /\ l.best \in Int
        BY <2>3, <3>2, AxisType DEF Span
      <4>2. l.at \in [Axes -> Int] /\ \A a \in Axes : l.at[a] \in Span(a)
        BY <2>3 DEF Box
      <4>3. /\ to \in [Axes -> Int]
            /\ \A a \in Axes : to[a] = IF a = l.axis THEN l.best ELSE l.at[a]
        BY <2>3, <3>2, <4>1, <4>2
      <4> HIDE DEF to
      <4> QED BY <4>1, <4>2, <4>3 DEF Box
    <3> QED BY <3>1, <3>2
  <2>6. /\ h.alg = "descent" /\ h.at = to /\ h.axis = axis /\ h.stage = stage
        /\ h.data = None /\ h.left \in {<<>>, Window(stage, axis, to)}
    BY <1>1, <1>7, <2>2 DEF IsGenerator
  <2> HIDE DEF to, axis, stage, moved
  <2>7. Window(stage, axis, to) \in Seq(Box)
    BY <2>4, <2>5, WindowWithin
  <2>8. h.left \in Seq(Box)
    <3>1. <<>> \in Seq(Box)
      OBVIOUS
    <3> QED BY <2>6, <2>7, <3>1
  <2>9. h.alg # "zoom"
    BY <2>6
  <2> QED BY <2>4, <2>5, <2>6, <2>8, <2>9 DEF InBox
<1> QED BY <1>4, <1>5, <1>6, <1>7 DEF Algs

RangeInv ==
  alg # "custom" => /\ \A i \in 1..Len(proposed) : proposed[i] \in Box
                    /\ AtHand => InBox(gen)

(* The generator goes on to g.                                             *)
LEMMA RangeRuns ==
  ASSUME IInv, IInv', NEW g, NEW seen, Runs(g, seen), InBox(g),
         \A i \in 1..Len(proposed) : proposed[i] \in Box
  PROVE  RangeInv'
<1>1. IsSeq(proposed) /\ gen' = g
  BY RunsProperties DEF IInv, Shape
<1>2. CASE g.left = <<>>
  <2>1. ~AtHand' /\ proposed' = proposed
    BY <1>1, <1>2 DEF Runs, IInv, Turn
  <2> QED BY <2>1 DEF RangeInv
<1>3. CASE g.left # <<>>
  <2>1. proposed' = Append(proposed, Head(g.left)) /\ Head(g.left) \in Box
    BY <1>3 DEF Runs, InBox
  <2>2. \A i \in 1..Len(proposed') : i \in 1..Len(proposed) \/ i = Len(proposed) + 1
    BY <1>1, <2>1, Appended
  <2>3. \A i \in 1..Len(proposed') : proposed'[i] \in Box
    BY <1>1, <2>1, <2>2, Appended
  <2> QED BY <1>1, <2>3 DEF RangeInv, InBox
<1> QED BY <1>2, <1>3

LEMMA RangeStep ==
  ASSUME ProperRanges, Starts \subseteq Box
  PROVE  IInv /\ RangeInv /\ [Next]_vars => (IInv /\ RangeInv)'
<1> SUFFICES ASSUME IInv, RangeInv, [Next]_vars PROVE RangeInv'
  BY IInvStep
<1>1. IInv'
  BY IInvStep
<1>2. CASE UNCHANGED vars
  BY <1>2 DEF vars, RangeInv, AtHand, InBox
<1>3. CASE Prime
  <2>1. Len(proposed') = 0 /\ ~AtHand'
    BY <1>3 DEF Prime, Forget, AtHand
  <2> QED BY <2>1 DEF RangeInv
<1>4. CASE Start
  <2>1. PICK g \in Begun(alg, home) : Runs(g, best)
    BY <1>4 DEF Start
  <2>2. alg' = alg /\ alg \in Algs /\ home \in Box /\ Len(proposed) = 0
    BY <1>4 DEF Start, setting, IInv, Shape, Fresh
  <2>3. CASE alg = "custom"
    BY <2>2, <2>3 DEF RangeInv
  <2>4. CASE alg # "custom"
    <3>1. InBox(g)
      BY <2>2, <2>4, BegunInBox
    <3> QED BY <1>1, <2>1, <2>2, <3>1, RangeRuns
  <2> QED BY <2>3, <2>4
<1>5. CASE Shot
  <2>1. PICK ok \in BOOLEAN : \E data \in Metrics(ok) : Measured(ok, data)
    BY <1>5 DEF Shot, Measured, Improves
  <2>2. PICK data \in Metrics(ok) : Measured(ok, data)
    BY <2>1
  <2> DEFINE seen == IF Improves(ok, data) THEN current ELSE best
  <2>3. PICK g \in Sent(gen, ok, data, Len(proposed)) : Runs(g, seen)
    BY <2>2 DEF Measured
  <2>4. alg' = alg /\ AtHand /\ gen.alg = alg /\ alg \in Algs /\ IsGenerator(gen)
    BY <1>5 DEF Shot, setting, AtHand, IInv, Shape
  <2>5. CASE alg = "custom"
    BY <2>4, <2>5 DEF RangeInv
  <2>6. CASE alg # "custom"
    <3>1. InBox(gen) /\ gen.left # <<>> /\ \A i \in 1..Len(proposed) : proposed[i] \in Box
      BY <2>4, <2>6 DEF RangeInv, IInv, Turn
    <3>2. InBox(g)
      BY <2>3, <2>4, <2>6, <3>1, SentInBox
    <3> QED BY <1>1, <2>3, <3>1, <3>2, RangeRuns
  <2> QED BY <2>5, <2>6
<1>6. CASE GetBest \/ Reenter \/ Terminate \/ Raise \/ PersistOnHost \/ Verify \/ Commit
  <2>1. UNCHANGED <<alg, gen, proposed>>
    BY <1>6 DEF GetBest, Reenter, Terminate, Raise, PersistOnHost, Verify, Commit,
                setting, tally, proposal
  <2>2. AtHand' => AtHand
    BY <1>6 DEF GetBest, Reenter, Terminate, Raise, PersistOnHost, Verify, Commit, AtHand,
                setting, tally, proposal, Ended
  <2> QED BY <2>1, <2>2 DEF RangeInv, InBox
<1> QED BY <1>2, <1>3, <1>4, <1>5, <1>6 DEF Next

(* As long as the parameters stand within their ranges when a fix begins,  *)
(* whatever is measured, wherever a descent moves and a zoom shifts its    *)
(* windows, no built-in optimizer proposes a point outside the ranges      *)
(* (optimizers.py 26, 66-67, 95-96, 140-151).                              *)
THEOREM InRangeHolds ==
  ASSUME ProperRanges, Starts \subseteq Box
  PROVE  Spec => []InRange
<1>1. Init => IInv /\ RangeInv
  <2>1. Init => Len(proposed) = 0 /\ ~AtHand
    BY DEF Init, AtHand
  <2> QED BY <2>1, IInvInit DEF RangeInv
<1>2. RangeInv => InRange
  BY DEF RangeInv, InRange, Box, Span
<1> QED BY <1>1, <1>2, RangeStep, PTL DEF Spec
===============================================================================
