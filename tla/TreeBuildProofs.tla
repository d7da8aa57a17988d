-------------------------- MODULE TreeBuildProofs --------------------------
(***************************************************************************)
(* Theorems about the building of calibration trees, for any number of     *)
(* threads, classes, experiments, calibrations and trees.                  *)
(***************************************************************************)
EXTENDS TreeBuild, SequenceTheorems, FiniteSetTheorems, WellFoundedInduction, TLAPS

Inside == {"building", "raising"}

(* An experiment is the outermost build of a thread, and the only one that *)
(* is not of a calibration; a build is of one calibration, once.           *)
Nested ==
  /\ \A t \in Threads :
       /\ pc[t] = "idle" <=> stack[t] = <<>>
       /\ pc[t] \in {"opening", "claiming"} => Len(stack[t]) = 1 /\ stack[t][1].child = None
       /\ pc[t] \in {"claiming"} \cup Inside => opened[t] # None
       /\ \A k \in 1..Len(stack[t]) : stack[t][k].cal = None <=> k = 1
  /\ \A t, u \in Threads : \A k \in 2..Len(stack[t]), l \in 2..Len(stack[u]) :
       stack[t][k].cal = stack[u][l].cal => t = u /\ k = l

(* It has a use for what it is constructing, or has constructed. *)
Waiting ==
  \A t \in Threads : \A k \in 1..Len(stack[t]) :
    /\ stack[t][k].child # None => stack[t][k].todo # <<>>
    /\ k < Len(stack[t]) => stack[t][k].todo # <<>> /\ stack[t][k].child = None

(* The scope is as deep as there are builds under way. *)
Builds == {b \in Threads \X Nat : pc[b[1]] \in Inside /\ b[2] \in 1..Len(stack[b[1]])}
Counted == IsFiniteSet(Builds) /\ Cardinality(Builds) = scope.depth

(* It is cleared with the last of them. *)
Cleared == scope.depth = 0 /\ (\A t \in Threads : pc[t] # "claiming") => scope = Closed

(* If nobody meets another thread in the entry, one thread builds at a     *)
(* time, in its own scope.                                                 *)
Alone ==
  ~clashed =>
    /\ \A t, u \in Threads : pc[t] # "idle" /\ pc[u] # "idle" => t = u
    /\ \A t \in Threads :
         /\ pc[t] \in Inside => scope.thread = t
         /\ pc[t] \in {"claiming"} \cup Inside => scope.registry = opened[t]

(* Then what a tree uses, and has on record, it has made itself. *)
OwnTree ==
  ~clashed =>
    /\ \A o \in Objects : home[o] \in {None, tree[o]}
    /\ \A o \in Objects : \A i \in 1..Len(uses[o]) : tree[uses[o][i]] = tree[o]
    /\ \A r \in Registries : \A i \in 1..Len(edges[r]) : tree[edges[r][i][1]] = r
    /\ \A t \in Threads : \A k \in 1..Len(stack[t]) :
         /\ stack[t][k].cal # None => tree[stack[t][k].cal] = opened[t]
         /\ stack[t][k].child # None => tree[stack[t][k].child] = opened[t]

(* Dependencies are made, or shared, in the order of the class's           *)
(* declarations, each of the class declared.                               *)
DeclUses(o) ==
  /\ Len(uses[o]) <= Len(Needs[class[o]])
  /\ \A i \in 1..Len(uses[o]) : class[uses[o][i]] = Needs[class[o]][i].class

DeclBuild(f) ==
  /\ Len(uses[f.cal]) + Len(f.todo) = Len(Needs[class[f.cal]])
  /\ \A i \in 1..Len(f.todo) : f.todo[i] = Needs[class[f.cal]][Len(uses[f.cal]) + i]

DeclChild(f) == f.child # None => class[f.child] = Head(f.todo).class
DeclNext(f, g) == class[g.cal] = Head(f.todo).class

Declared ==
  /\ \A o \in Objects : DeclUses(o)
  /\ \A t \in Threads :
       /\ \A k \in 2..Len(stack[t]) : DeclBuild(stack[t][k])
       /\ \A k \in 1..Len(stack[t]) :
            /\ DeclChild(stack[t][k])
            /\ k < Len(stack[t]) => DeclNext(stack[t][k], stack[t][k + 1])

(* A registry's records are the dependencies of its own calibrations. *)
OfTree(rec, r, homes, used) ==
  /\ homes[rec[1]] = r
  /\ rec[2] # None => \E j \in 1..Len(used[rec[1]]) : used[rec[1]][j] = rec[2]

Recorded(o, d, homes, rs) ==
  /\ homes[o] # None /\ homes[d] = homes[o]
  /\ \E j \in 1..Len(rs[homes[o]]) : rs[homes[o]][j] = <<o, d>>

OnRecord ==
  /\ \A r \in Registries : \A i \in 1..Len(edges[r]) : OfTree(edges[r][i], r, home, uses)
  /\ \A o \in Objects : \A i \in 1..Len(uses[o]) : Recorded(o, uses[o][i], home, edges)

(* What is cached is the graph of the records. *)
Cached == \A r \in Registries : graph[r] \in {NoGraph, GraphOf(edges[r])}

(* Classes do not depend on themselves, however indirectly. *)
Ranks(rank) ==
  /\ rank \in [Classes -> Nat]
  /\ \A c \in Classes : \A i \in 1..Len(Needs[c]) : rank[Needs[c][i].class] < rank[c]

Acyclic == \E rank \in [Classes -> Nat] : Ranks(rank)

Rank == CHOOSE rank \in [Classes -> Nat] : Ranks(rank)

(* The builds under way are of lower and lower classes. *)
Descending ==
  \A t \in Threads : \A k, l \in 2..Len(stack[t]) :
    k < l => Rank[class[stack[t][l].cal]] < Rank[class[stack[t][k].cal]]

(* o is the first calibration of class c in some records; in those of r. *)
FirstIn(rs, of, c, o) ==
  \E i \in 1..Len(rs) :
    /\ rs[i][1] = o /\ of[o] = c
    /\ \A j \in 1..(i - 1) : of[rs[j][1]] # c

FirstOf(r, c, o) == FirstIn(edges[r], class, c, o)

(* Who shares uses the oldest; while the first of a class is being built   *)
(* to be shared, there is no other.                                        *)
SharedUses(o) ==
  \A i \in 1..Len(uses[o]) :
    ~Needs[class[o]][i].dup => FirstOf(tree[o], Needs[class[o]][i].class, uses[o][i])

ToShare(f) == f.todo # <<>> /\ ~Head(f.todo).dup

SharedChild(t, f) ==
  ToShare(f) /\ f.child # None => FirstOf(opened[t], Head(f.todo).class, f.child)

SharedNext(t, f, g) ==
  ToShare(f) => \A i \in 1..Len(edges[opened[t]]) :
                  class[edges[opened[t]][i][1]] = Head(f.todo).class
                    => edges[opened[t]][i][1] = g.cal

OldestShared ==
  ~clashed =>
    /\ \A o \in Objects : SharedUses(o)
    /\ \A t \in Threads : \A k \in 2..Len(stack[t]) :
         /\ SharedChild(t, stack[t][k])
         /\ k < Len(stack[t]) => SharedNext(t, stack[t][k], stack[t][k + 1])

-------------------------------------------------------------------------------
(* Sequences. *)

LEMMA FrontFacts ==
  ASSUME NEW S, NEW s \in Seq(S), s # <<>>
  PROVE  /\ Front(s) \in Seq(S) /\ Len(Front(s)) = Len(s) - 1
         /\ \A i \in 1..(Len(s) - 1) : Front(s)[i] = s[i]
         /\ Last(s) = s[Len(s)] /\ Last(s) \in S /\ Len(s) \in Nat \ {0}
<1>1. Len(s) \in Nat \ {0}
  BY EmptySeq
<1>2. /\ Front(s) \in Seq(S) /\ Len(Front(s)) = Len(s) - 1
      /\ \A i \in 1..(Len(s) - 1) : Front(s)[i] = s[i]
  <2> DEFINE n == Len(s) - 1
  <2>1. n \in Nat /\ 1 \in Int /\ n \in Int /\ \A i \in 1..n : s[i] \in S
    BY <1>1, ElementOfSeq
  <2> HIDE DEF n
  <2>2. /\ SubSeq(s, 1, n) \in Seq(S)
        /\ Len(SubSeq(s, 1, n)) = IF 1 <= n THEN n - 1 + 1 ELSE 0
        /\ \A i \in 1..(n - 1 + 1) : SubSeq(s, 1, n)[i] = s[1 + i - 1]
    BY ONLY <2>1, SubSeqProperties
  <2>3. Front(s) = SubSeq(s, 1, n)
    BY DEF Front, n
  <2>4. Front(s) \in Seq(S) /\ Len(Front(s)) = n /\ \A i \in 1..n : Front(s)[i] = s[i]
    <3> DEFINE f == SubSeq(s, 1, n)
    <3> HIDE DEF f
    <3>1. f \in Seq(S) /\ Len(f) = n /\ \A i \in 1..n : f[i] = s[i]
      BY <2>1, <2>2 DEF f
    <3> QED BY <2>3, <3>1 DEF f
  <2> QED BY <2>4 DEF n
<1>3. Last(s) = s[Len(s)] /\ Last(s) \in S
  BY <1>1 DEF Last
<1> QED BY <1>1, <1>2, <1>3

LEMMA AppendFacts ==
  ASSUME NEW S, NEW s \in Seq(S), NEW e \in S
  PROVE  /\ Append(s, e) \in Seq(S) /\ Len(Append(s, e)) = Len(s) + 1
         /\ \A i \in 1..Len(s) : Append(s, e)[i] = s[i]
         /\ Append(s, e)[Len(s) + 1] = e
OBVIOUS

LEMMA TailFacts ==
  ASSUME NEW S, NEW s \in Seq(S), s # <<>>
  PROVE  /\ Tail(s) \in Seq(S) /\ Len(Tail(s)) = Len(s) - 1
         /\ \A i \in 1..(Len(s) - 1) : Tail(s)[i] = s[i + 1]
         /\ Head(s) = s[1] /\ Head(s) \in S
OBVIOUS

(* A function on 1..n is a sequence. *)
LEMMA FunctionIsSeq ==
  ASSUME NEW S, NEW n \in Nat, NEW f \in [1..n -> S]
  PROVE  f \in Seq(S) /\ Len(f) = n
<1>1. f \in Seq(S)
  BY SeqDef
<1>2. Len(f) \in Nat /\ DOMAIN f = 1..Len(f)
  BY <1>1, LenProperties
<1> QED BY <1>1, <1>2

LEMMA AppendToFunction ==
  ASSUME NEW T, NEW n \in Nat, NEW f \in [1..n -> T], NEW e \in T
  PROVE  /\ Append(f, e) \in [1..(n + 1) -> T]
         /\ \A i \in 1..n : Append(f, e)[i] = f[i]
         /\ Append(f, e)[n + 1] = e
<1>1. f \in Seq(T) /\ Len(f) = n
  <2> QED BY FunctionIsSeq
<1>2. Append(f, e) \in Seq(T) /\ Len(Append(f, e)) = n + 1
  BY <1>1, AppendFacts
<1>3. Append(f, e) \in [1..Len(Append(f, e)) -> T]
  BY <1>2, LenProperties
<1> QED BY <1>1, <1>2, <1>3, AppendFacts

(* There is a least number in a set of numbers. *)
LEMMA NatMin == \A S \in SUBSET Nat : S # {} => \E m \in S : \A n \in S : m <= n
<1> DEFINE R == {ss \in Nat \X Nat : ss[1] < ss[2]}
<1>1. IsWellFoundedOn(R, Nat)
  BY NatLessThanWellFounded DEF OpToRel
<1>2. \A x, y \in Nat : <<y, x>> \in R <=> y < x
  OBVIOUS
<1> HIDE DEF R
<1> SUFFICES ASSUME NEW S \in SUBSET Nat, S # {}
             PROVE  \E m \in S : \A n \in S : m <= n
  OBVIOUS
<1>3. PICK m \in S : \A y \in S : ~(<<y, m>> \in R)
  BY <1>1, WFMin
<1>4. ASSUME NEW n \in S PROVE m <= n
  <2>1. n \in Nat /\ m \in Nat /\ ~(<<n, m>> \in R)
    BY <1>3
  <2>2. ~(n < m)
    BY <1>2, <2>1
  <2> QED BY <2>1, <2>2
<1> QED BY <1>4

LEMMA MinOfIndices ==
  ASSUME NEW n \in Nat, NEW S \in SUBSET (1..n), S # {}
  PROVE  Min(S) \in S /\ \A j \in S : Min(S) <= j
<1>1. S \in SUBSET Nat
  OBVIOUS
<1>2. \E m \in S : \A j \in S : m <= j
  BY <1>1, NatMin
<1> QED BY <1>2 DEF Min

-------------------------------------------------------------------------------
(* What a step of t does to its builds. *)

Pushed(t, f) ==
  /\ Len(stack'[t]) = Len(stack[t]) + 1
  /\ \A i \in 1..Len(stack[t]) : stack'[t][i] = stack[t][i]
  /\ stack'[t][Len(stack[t]) + 1] = f

TopChanged(t, f) ==
  /\ Len(stack'[t]) = Len(stack[t])
  /\ \A i \in 1..(Len(stack[t]) - 1) : stack'[t][i] = stack[t][i]
  /\ stack'[t][Len(stack[t])] = f

Popped(t) ==
  /\ Len(stack'[t]) = Len(stack[t]) - 1
  /\ \A i \in 1..(Len(stack[t]) - 1) : stack'[t][i] = stack[t][i]

Returned(t) ==
  LET n == Len(stack[t])
  IN /\ Len(stack'[t]) = n - 1
     /\ \A i \in 1..(n - 2) : stack'[t][i] = stack[t][i]
     /\ stack'[t][n - 1] = [stack[t][n - 1] EXCEPT !.child = stack[t][n].cal]

OthersKeep(t) == \A u \in Threads \ {t} : stack'[u] = stack[u] /\ pc'[u] = pc[u]

LEMMA FramesGrow ==
  ASSUME TypeOK, Len(class') \in Nat, Len(class) <= Len(class')
  PROVE  /\ Objects \subseteq Objects' /\ Frame \subseteq Frame'
         /\ \A t \in Threads : stack[t] \in Seq(Frame)
         /\ \A s \in Seq(Frame) : s \in Seq(Frame')
<1>1. Objects \subseteq Objects'
  BY DEF TypeOK, Objects
<1>2. Frame \subseteq Frame'
  BY <1>1 DEF Frame
<1> QED BY <1>1, <1>2, SeqMonotonic DEF TypeOK

LEMMA NextNeed ==
  \A g \in Frame : [g EXCEPT !.todo = Tail(@), !.child = None]
                   = [cal |-> g.cal, todo |-> Tail(g.todo), child |-> None]
<1> SUFFICES ASSUME NEW g \in Frame
             PROVE  [g EXCEPT !.todo = Tail(@), !.child = None]
                    = [cal |-> g.cal, todo |-> Tail(g.todo), child |-> None]
  OBVIOUS
<1> DEFINE d == Tail(g.todo)
           h == [g EXCEPT !.todo = d, !.child = None]
<1>1. h.cal = g.cal /\ h.todo = d /\ h.child = None
  BY DEF Frame
<1>2. h \in [cal : {None} \cup Objects, todo : {d}, child : {None}]
  BY DEF Frame
<1> HIDE DEF h
<1>3. h = [cal |-> h.cal, todo |-> h.todo, child |-> h.child]
  BY <1>2
<1>4. h = [cal |-> g.cal, todo |-> d, child |-> None]
  BY <1>1, <1>3
<1> QED BY <1>4 DEF h

(* The top of a stack, and what it asks for. *)
LEMMA TopFacts ==
  ASSUME TypeOK, NEW t \in Threads, stack[t] # <<>>
  PROVE  /\ stack[t] \in Seq(Frame) /\ Len(stack[t]) \in Nat \ {0}
         /\ Top(t) = stack[t][Len(stack[t])] /\ Top(t) \in Frame
         /\ Top(t).todo \in Seq(Need)
         /\ Top(t).todo # <<>> => /\ Head(Top(t).todo) \in Need
                                  /\ Head(Top(t).todo) = Top(t).todo[1]
<1>1. stack[t] \in Seq(Frame)
  BY DEF TypeOK
<1>2. Len(stack[t]) \in Nat \ {0} /\ Top(t) = stack[t][Len(stack[t])] /\ Top(t) \in Frame
  BY <1>1, FrontFacts DEF Top
<1>3. Top(t).todo \in Seq(Need)
  BY <1>2 DEF Frame
<1> QED BY <1>1, <1>2, <1>3, TailFacts

LEMMA ReplaceTop ==
  ASSUME TypeOK, NEW t \in Threads, stack[t] # <<>>, NEW f \in Frame,
         stack' = WithTop(t, f)
  PROVE  TopChanged(t, f) /\ stack' \in [Threads -> Seq(Frame)]
         /\ \A u \in Threads \ {t} : stack'[u] = stack[u]
<1>1. stack[t] \in Seq(Frame) /\ stack \in [Threads -> Seq(Frame)]
  BY DEF TypeOK
<1> DEFINE g == Front(stack[t])
<1>2. /\ g \in Seq(Frame) /\ Len(g) = Len(stack[t]) - 1 /\ Len(stack[t]) \in Nat \ {0}
      /\ \A i \in 1..(Len(stack[t]) - 1) : g[i] = stack[t][i]
  BY <1>1, FrontFacts
<1>3. stack'[t] = Append(g, f) /\ \A u \in Threads \ {t} : stack'[u] = stack[u]
  BY <1>1 DEF WithTop
<1> HIDE DEF g
<1>4. /\ Append(g, f) \in Seq(Frame) /\ Len(Append(g, f)) = Len(g) + 1
      /\ \A i \in 1..Len(g) : Append(g, f)[i] = g[i]
      /\ Append(g, f)[Len(g) + 1] = f
  BY <1>2, AppendFacts
<1>5. stack' \in [Threads -> Seq(Frame)]
  BY <1>1, <1>3, <1>4 DEF WithTop, g
<1>6. TopChanged(t, f)
  BY <1>2, <1>3, <1>4 DEF TopChanged
<1> QED BY <1>3, <1>5, <1>6

LEMMA PushFrame ==
  ASSUME TypeOK, NEW t \in Threads, Len(class') \in Nat, Len(class) <= Len(class'),
         NEW cal \in {None} \cup Objects', NEW todo \in Seq(Need),
         stack' = [stack EXCEPT ![t] = Push(t, cal, todo)]
  PROVE  /\ Pushed(t, [cal |-> cal, todo |-> todo, child |-> None])
         /\ stack' \in [Threads -> Seq(Frame')]
         /\ \A u \in Threads \ {t} : stack'[u] = stack[u]
<1> DEFINE f == [cal |-> cal, todo |-> todo, child |-> None]
<1>1. f \in Frame'
  BY DEF Frame
<1>2. /\ \A u \in Threads : stack[u] \in Seq(Frame')
      /\ stack \in [Threads -> Seq(Frame)]
  BY FramesGrow DEF TypeOK
<1>3. stack'[t] = Append(stack[t], f) /\ \A u \in Threads \ {t} : stack'[u] = stack[u]
  BY <1>2 DEF Push
<1> HIDE DEF f
<1>4. /\ Append(stack[t], f) \in Seq(Frame') /\ Len(Append(stack[t], f)) = Len(stack[t]) + 1
      /\ \A i \in 1..Len(stack[t]) : Append(stack[t], f)[i] = stack[t][i]
      /\ Append(stack[t], f)[Len(stack[t]) + 1] = f
  BY <1>1, <1>2, AppendFacts
<1>5. stack' \in [Threads -> Seq(Frame')]
  BY <1>2, <1>3, <1>4 DEF Push, f
<1>6. Pushed(t, f)
  BY <1>3, <1>4 DEF Pushed
<1> QED BY <1>3, <1>5, <1>6 DEF f

LEMMA PopFrame ==
  ASSUME TypeOK, NEW t \in Threads, stack[t] # <<>>,
         stack' = [stack EXCEPT ![t] = Front(@)]
  PROVE  /\ Popped(t) /\ stack' \in [Threads -> Seq(Frame)]
         /\ \A u \in Threads \ {t} : stack'[u] = stack[u]
<1>1. stack \in [Threads -> Seq(Frame)] /\ stack[t] \in Seq(Frame)
  BY DEF TypeOK
<1> DEFINE g == Front(stack[t])
<1>2. /\ g \in Seq(Frame) /\ Len(g) = Len(stack[t]) - 1
      /\ \A i \in 1..(Len(stack[t]) - 1) : g[i] = stack[t][i]
  BY <1>1, FrontFacts
<1>3. stack' = [stack EXCEPT ![t] = g]
  OBVIOUS
<1> HIDE DEF g
<1> QED BY <1>1, <1>2, <1>3 DEF Popped

LEMMA ReturnFrame ==
  ASSUME TypeOK, NEW t \in Threads, Len(stack[t]) >= 2,
         stack' = [stack EXCEPT ![t] =
                     Append(Front(Front(stack[t])),
                            [Last(Front(stack[t])) EXCEPT !.child = Top(t).cal])]
  PROVE  /\ Returned(t) /\ stack' \in [Threads -> Seq(Frame)]
         /\ \A u \in Threads \ {t} : stack'[u] = stack[u]
<1>1. stack \in [Threads -> Seq(Frame)] /\ stack[t] \in Seq(Frame) /\ Len(stack[t]) \in Nat
  BY DEF TypeOK
<1>2. stack[t] # <<>>
  BY EmptySeq
<1>3. Top(t) = stack[t][Len(stack[t])] /\ Top(t) \in Frame
  BY <1>2, TopFacts
<1> DEFINE g == Front(stack[t])
<1>4. /\ g \in Seq(Frame) /\ Len(g) = Len(stack[t]) - 1
      /\ \A i \in 1..(Len(stack[t]) - 1) : g[i] = stack[t][i]
  BY <1>1, <1>2, FrontFacts
<1>5. stack' = [stack EXCEPT ![t] = Append(Front(g), [Last(g) EXCEPT !.child = Top(t).cal])]
  OBVIOUS
<1> HIDE DEF g
<1>6. g # <<>>
  BY <1>4, EmptySeq
<1> DEFINE h == Front(g)
           f == [Last(g) EXCEPT !.child = Top(t).cal]
<1>7. /\ h \in Seq(Frame) /\ Len(h) = Len(g) - 1
      /\ \A i \in 1..(Len(g) - 1) : h[i] = g[i]
      /\ Last(g) = g[Len(g)] /\ Last(g) \in Frame
  BY <1>4, <1>6, FrontFacts
<1>8. f \in Frame
  BY <1>3, <1>7 DEF Frame
<1>9. f = [stack[t][Len(stack[t]) - 1] EXCEPT !.child = stack[t][Len(stack[t])].cal]
  <2>1. Len(stack[t]) - 1 \in 1..(Len(stack[t]) - 1)
    BY <1>1
  <2>2. Last(g) = stack[t][Len(stack[t]) - 1]
    BY <1>4, <1>7, <2>1
  <2> QED BY <1>3, <2>2
<1> HIDE DEF h, f
<1>10. stack' = [stack EXCEPT ![t] = Append(h, f)]
  BY <1>5 DEF h, f
<1>11. /\ Append(h, f) \in Seq(Frame) /\ Len(Append(h, f)) = Len(h) + 1
       /\ \A i \in 1..Len(h) : Append(h, f)[i] = h[i]
       /\ Append(h, f)[Len(h) + 1] = f
  BY <1>7, <1>8, AppendFacts
<1>12. stack' \in [Threads -> Seq(Frame)] /\ stack'[t] = Append(h, f)
       /\ \A u \in Threads \ {t} : stack'[u] = stack[u]
  BY <1>1, <1>10, <1>11
<1>13. Len(h) = Len(stack[t]) - 2 /\ Len(h) + 1 = Len(stack[t]) - 1
  BY <1>1, <1>4, <1>7
<1>14. \A i \in 1..(Len(stack[t]) - 2) : Append(h, f)[i] = stack[t][i]
  BY <1>1, <1>4, <1>7, <1>11, <1>13
<1>15. Returned(t)
  BY <1>9, <1>11, <1>12, <1>13, <1>14 DEF Returned
<1> QED BY <1>12, <1>15

(* What a step that files a record does to the registries. *)
Filed(r, cal, dep) ==
  /\ Registries' = Registries \cup {r} /\ r # None
  /\ \A q \in Registries \ {r} : edges'[q] = edges[q] /\ graph'[q] = graph[q]
  /\ graph'[r] = NoGraph
  /\ IF r \in Registries
     THEN /\ Len(edges'[r]) = Len(edges[r]) + 1
          /\ \A i \in 1..Len(edges[r]) : edges'[r][i] = edges[r][i]
          /\ edges'[r][Len(edges[r]) + 1] = <<cal, dep>>
     ELSE Len(edges'[r]) = 1 /\ edges'[r][1] = <<cal, dep>>
  /\ \A o \in {cal, dep} \ {None} : home[o] \in {None, r} /\ home'[o] = r
  /\ \A o \in Objects \ {cal, dep} : home'[o] = home[o]

RecordsTyped ==
  /\ edges' \in Seq(Seq(Objects \X ({None} \cup Objects)))
  /\ graph' \in Seq(Graph) /\ Len(graph') = Len(edges')
  /\ home' \in [Objects -> {None} \cup Registries']

LEMMA AddEffect ==
  ASSUME TypeOK, NEW t \in Threads, NEW cal \in Objects, NEW dep \in {None} \cup Objects,
         AddToDependencyMap(t, cal, dep)
  PROVE  /\ RecordsTyped
         /\ \E r \in Registries' :
              /\ Filed(r, cal, dep)
              /\ scope.registry # None /\ Mine(t) => r = scope.registry
<1> DEFINE inScope == scope.registry # None /\ Mine(t)
           homes == {home[o] : o \in {cal, dep} \ {None}} \ {None}
           fresh == ~inScope /\ homes = {}
           r == IF inScope THEN scope.registry
                ELSE IF fresh THEN Len(edges) + 1
                ELSE IF home[cal] # None THEN home[cal] ELSE home[dep]
           Rec == Objects \X ({None} \cup Objects)
<1>1. /\ homes \subseteq {r}
      /\ home' = [o \in Objects |-> IF o \in {cal, dep} THEN r ELSE home[o]]
      /\ IF fresh
         THEN /\ edges' = Append(edges, <<<<cal, dep>>>>)
              /\ graph' = Append(graph, NoGraph)
         ELSE Record(r, cal, dep)
  BY DEF AddToDependencyMap
<1>2. /\ edges \in Seq(Seq(Rec)) /\ Len(edges) \in Nat /\ graph \in Seq(Graph)
      /\ Len(graph) = Len(edges) /\ Registries = 1..Len(edges)
      /\ home \in [Objects -> {None} \cup Registries] /\ None \notin Objects
      /\ <<cal, dep>> \in Rec /\ NoGraph \in Graph
      /\ scope.registry \in {None} \cup Registries
      /\ None \notin Registries
  BY DEF TypeOK, Registries, Objects, None, Graph
<1>3. CASE fresh
  <2>1. r = Len(edges) + 1 /\ r \notin Registries
    BY <1>2, <1>3
  <2>2. edges' = Append(edges, <<<<cal, dep>>>>) /\ graph' = Append(graph, NoGraph)
    BY <1>1, <1>3
  <2>3. <<<<cal, dep>>>> \in Seq(Rec) /\ Len(<<<<cal, dep>>>>) = 1 /\ <<<<cal, dep>>>>[1] = <<cal, dep>>
    BY <1>2
  <2> DEFINE one == <<<<cal, dep>>>>
  <2> HIDE DEF one, Rec
  <2>4. /\ edges' \in Seq(Seq(Rec)) /\ Len(edges') = Len(edges) + 1
        /\ \A i \in 1..Len(edges) : edges'[i] = edges[i]
        /\ edges'[Len(edges) + 1] = one
    BY <1>2, <2>2, <2>3, AppendFacts DEF one
  <2>5. /\ graph' \in Seq(Graph) /\ Len(graph') = Len(graph) + 1
        /\ \A i \in 1..Len(graph) : graph'[i] = graph[i]
        /\ graph'[Len(graph) + 1] = NoGraph
    BY <1>2, <2>2, AppendFacts
  <2>6. Registries' = Registries \cup {Len(edges) + 1}
    BY <1>2, <2>4 DEF Registries
  <2>7. \A o \in {cal, dep} \ {None} : home[o] = None
    BY <1>1, <1>3
  <2>8. home' = [o \in Objects |-> IF o \in {cal, dep} THEN Len(edges) + 1 ELSE home[o]]
    BY <1>1, <2>1
  <2>9. RecordsTyped
    <3>1. home' \in [Objects -> {None} \cup Registries']
      BY <1>2, <2>6, <2>8
    <3> QED BY <1>2, <2>4, <2>5, <3>1 DEF RecordsTyped, Rec
  <2>10. Filed(Len(edges) + 1, cal, dep)
    BY <1>2, <2>1, <2>3, <2>4, <2>5, <2>6, <2>7, <2>8 DEF Filed, one, None
  <2> QED BY <1>3, <2>6, <2>9, <2>10
<1>4. CASE ~fresh
  <2>1. /\ r \in Registries
        /\ inScope => r = scope.registry
    <3>1. CASE inScope
      BY <1>2, <3>1
    <3>2. CASE ~inScope
      <4>1. homes # {}
        BY <1>4, <3>2
      <4>2. dep = None => home[cal] # None
        BY <4>1
      <4>3. home[cal] = None => dep # None /\ home[dep] # None
        BY <4>1, <4>2
      <4>4. home[cal] # None => home[cal] \in Registries
        BY <1>2
      <4>5. home[cal] = None => home[dep] \in Registries
        BY <1>2, <4>3
      <4>6. r = IF home[cal] # None THEN home[cal] ELSE home[dep]
        BY <1>4, <3>2
      <4> QED BY <3>2, <4>4, <4>5, <4>6
    <3> QED BY <3>1, <3>2
  <2>2. /\ edges' = [edges EXCEPT ![r] = Append(@, <<cal, dep>>)]
        /\ graph' = [graph EXCEPT ![r] = NoGraph]
        /\ home' = [o \in Objects |-> IF o \in {cal, dep} THEN r ELSE home[o]]
        /\ homes \subseteq {r}
    BY <1>1, <1>4 DEF Record
  <2> HIDE DEF r, fresh, inScope
  <2>3. edges[r] \in Seq(Rec)
    BY <1>2, <2>1, ElementOfSeq
  <2> HIDE DEF Rec
  <2>4. /\ Append(edges[r], <<cal, dep>>) \in Seq(Rec)
        /\ Len(Append(edges[r], <<cal, dep>>)) = Len(edges[r]) + 1
        /\ \A i \in 1..Len(edges[r]) : Append(edges[r], <<cal, dep>>)[i] = edges[r][i]
        /\ Append(edges[r], <<cal, dep>>)[Len(edges[r]) + 1] = <<cal, dep>>
    BY <1>2, <2>3, AppendFacts
  <2>5. /\ edges' \in Seq(Seq(Rec)) /\ Len(edges') = Len(edges)
        /\ \A j \in 1..Len(edges) :
             edges'[j] = IF j = r THEN Append(edges[r], <<cal, dep>>) ELSE edges[j]
    <3>1. edges' = [edges EXCEPT ![r] = Append(edges[r], <<cal, dep>>)]
      BY <2>2
    <3>2. r \in 1..Len(edges)
      BY <1>2, <2>1
    <3> QED BY <1>2, <2>4, <3>1, <3>2, ExceptSeq
  <2>6. /\ graph' \in Seq(Graph) /\ Len(graph') = Len(graph)
        /\ \A j \in 1..Len(graph) : graph'[j] = IF j = r THEN NoGraph ELSE graph[j]
    BY <1>2, <2>1, <2>2, ExceptSeq
  <2>7. Registries' = Registries
    BY <2>5 DEF Registries
  <2>8. \A o \in {cal, dep} \ {None} : home[o] \in {None, r} /\ home'[o] = r
    BY <2>2
  <2>9. home' \in [Objects -> {None} \cup Registries']
    BY <1>2, <2>1, <2>2, <2>7
  <2>10. RecordsTyped
    BY <1>2, <2>5, <2>6, <2>9 DEF RecordsTyped, Rec
  <2>11. Filed(r, cal, dep)
    <3>1. \A q \in Registries \ {r} : edges'[q] = edges[q] /\ graph'[q] = graph[q]
      BY <1>2, <2>5, <2>6
    <3>2. graph'[r] = NoGraph /\ edges'[r] = Append(edges[r], <<cal, dep>>)
      BY <1>2, <2>1, <2>5, <2>6
    <3>3. \A o \in Objects \ {cal, dep} : home'[o] = home[o]
      BY <2>2
    <3> QED BY <1>2, <2>1, <2>4, <2>7, <2>8, <3>1, <3>2, <3>3 DEF Filed
  <2> QED BY <2>1, <2>7, <2>10, <2>11 DEF inScope
<1> QED BY <1>3, <1>4

-------------------------------------------------------------------------------
(* The scope: it counts the builds under way. *)

LEMMA CountSame ==
  ASSUME Counted, TypeOK, NEW t \in Threads, OthersKeep(t), scope'.depth = scope.depth,
         pc[t] \in Inside <=> pc'[t] \in Inside,
         pc[t] \in Inside => Len(stack'[t]) = Len(stack[t])
  PROVE  Counted'
<1>1. \A u \in Threads : /\ pc[u] \in Inside <=> pc'[u] \in Inside
                         /\ pc[u] \in Inside => Len(stack'[u]) = Len(stack[u])
  BY DEF OthersKeep
<1>2. Builds' = Builds
  BY <1>1 DEF Builds
<1> QED BY <1>2 DEF Counted

LEMMA CountUp ==
  ASSUME Counted, TypeOK, NEW t \in Threads, OthersKeep(t), scope'.depth = scope.depth + 1,
         pc'[t] \in Inside, NEW n \in Nat, Len(stack'[t]) = n + 1,
         pc[t] \in Inside => Len(stack[t]) = n, pc[t] \notin Inside => n = 0
  PROVE  Counted'
<1>1. \A u \in Threads \ {t} : stack'[u] = stack[u] /\ pc'[u] = pc[u]
  BY DEF OthersKeep
<1>2. Builds' = Builds \cup {<<t, n + 1>>}
  <2>1. ASSUME NEW b \in Threads \X Nat PROVE b \in Builds' <=> b \in Builds \cup {<<t, n + 1>>}
    <3>1. CASE b[1] = t
      <4>1. b \in Builds' <=> b[2] \in 1..(n + 1)
        BY <3>1 DEF Builds
      <4>2. b \in Builds <=> b[2] \in 1..n
        BY <3>1 DEF Builds
      <4>3. b = <<t, n + 1>> <=> b[2] = n + 1
        BY <3>1
      <4> QED BY <4>1, <4>2, <4>3
    <3>2. CASE b[1] # t
      BY <1>1, <3>2 DEF Builds
    <3> QED BY <3>1, <3>2
  <2>2. Builds' \subseteq Threads \X Nat /\ Builds \subseteq Threads \X Nat /\ <<t, n + 1>> \in Threads \X Nat
    BY DEF Builds
  <2> QED BY <2>1, <2>2
<1>3. <<t, n + 1>> \notin Builds
  BY DEF Builds
<1>4. scope.depth \in Nat
  BY DEF TypeOK
<1>5. IsFiniteSet(Builds) /\ Cardinality(Builds) = scope.depth
  BY DEF Counted
<1>6. IsFiniteSet(Builds') /\ Cardinality(Builds') = Cardinality(Builds) + 1
  BY <1>2, <1>3, <1>5, FS_AddElement
<1> QED BY <1>4, <1>5, <1>6 DEF Counted

LEMMA CountDown ==
  ASSUME Counted, TypeOK, NEW t \in Threads, OthersKeep(t), ExitScope,
         pc[t] \in Inside, stack[t] # <<>>, Len(stack'[t]) = Len(stack[t]) - 1,
         pc'[t] \in Inside \/ (pc'[t] = "idle" /\ Len(stack[t]) = 1),
         Len(edges') \in Nat, Len(edges) <= Len(edges')
  PROVE  /\ Counted' /\ Cleared'
         /\ scope' \in [registry : {None} \cup Registries', depth : Nat,
                        thread : Threads \cup {NoThread}]
         /\ Len(stack[t]) > 1 =>
              scope.registry = scope'.registry /\ scope.thread = scope'.thread
<1>1. \A u \in Threads \ {t} : stack'[u] = stack[u] /\ pc'[u] = pc[u]
  BY DEF OthersKeep
<1> DEFINE n == Len(stack[t])
<1>2. n \in Nat \ {0}
  BY TopFacts
<1>3. Builds' = Builds \ {<<t, n>>}
  <2>1. ASSUME NEW b \in Threads \X Nat PROVE b \in Builds' <=> b \in Builds \ {<<t, n>>}
    <3>1. CASE b[1] = t
      <4>1. b \in Builds' <=> b[2] \in 1..(n - 1)
        <5>1. b \in Builds' <=> pc'[t] \in Inside /\ b[2] \in 1..(n - 1)
          BY <3>1 DEF Builds
        <5>2. n = 1 => b[2] \notin 1..(n - 1)
          OBVIOUS
        <5> QED BY <5>1, <5>2
      <4>2. b \in Builds <=> b[2] \in 1..n
        BY <3>1 DEF Builds
      <4>3. b = <<t, n>> <=> b[2] = n
        BY <3>1
      <4> QED BY <1>2, <4>1, <4>2, <4>3
    <3>2. CASE b[1] # t
      BY <1>1, <3>2 DEF Builds
    <3> QED BY <3>1, <3>2
  <2>2. Builds' \subseteq Threads \X Nat /\ Builds \subseteq Threads \X Nat
    BY DEF Builds
  <2> QED BY <2>1, <2>2
<1>4. <<t, n>> \in Builds /\ (n > 1 => <<t, 1>> \in Builds \ {<<t, n>>})
  <2>1. \A k \in Nat : <<t, k>> \in Builds <=> k \in 1..n
    BY DEF Builds
  <2>2. n \in 1..n /\ 1 \in 1..n /\ (n > 1 => 1 # n)
    <3>1. \A m \in Nat \ {0} : m \in 1..m /\ 1 \in 1..m /\ (m > 1 => 1 # m)
      OBVIOUS
    <3> HIDE DEF n
    <3> QED BY <1>2, <3>1
  <2> QED BY <1>2, <2>1, <2>2
<1>5. /\ IsFiniteSet(Builds') /\ Cardinality(Builds') = scope.depth - 1
      /\ Cardinality(Builds') \in Nat /\ scope.depth \in Nat
  <2>1. scope.depth \in Nat /\ IsFiniteSet(Builds) /\ Cardinality(Builds) = scope.depth
    BY DEF Counted, TypeOK
  <2>2. IsFiniteSet(Builds \ {<<t, n>>}) /\ Cardinality(Builds \ {<<t, n>>}) = Cardinality(Builds) - 1
    BY <1>4, <2>1, FS_RemoveElement
  <2>3. Cardinality(Builds \ {<<t, n>>}) \in Nat
    BY <2>2, FS_CardinalityType
  <2> QED BY <1>3, <2>1, <2>2, <2>3
<1>6. n > 1 => scope.depth # 1
  <2>1. Cardinality(Builds') = 0 <=> Builds' = {}
    BY <1>5, FS_EmptySet
  <2> QED BY <1>3, <1>4, <1>5, <2>1
<1>7. /\ scope'.depth = scope.depth - 1
      /\ scope.depth = 1 => scope' = Closed
      /\ scope.depth # 1 => scope' = [scope EXCEPT !.depth = @ - 1]
  BY DEF ExitScope, Closed, TypeOK
<1>8. Registries \subseteq Registries'
  BY DEF Registries, TypeOK
<1>9. scope' \in [registry : {None} \cup Registries', depth : Nat, thread : Threads \cup {NoThread}]
  <2>1. CASE scope.depth = 1
    BY <1>7, <2>1 DEF Closed
  <2>2. CASE scope.depth # 1
    <3>1. scope.depth - 1 \in Nat
      BY <1>5
    <3> QED BY <1>7, <1>8, <2>2, <3>1 DEF TypeOK
  <2> QED BY <2>1, <2>2
<1>10. Counted'
  BY <1>5, <1>7 DEF Counted
<1>11. Cleared'
  BY <1>5, <1>7 DEF Cleared, Closed
<1>12. n > 1 => scope.registry = scope'.registry /\ scope.thread = scope'.thread
  BY <1>6, <1>7 DEF TypeOK
<1> QED BY <1>9, <1>10, <1>11, <1>12

ScopeInv == TypeOK /\ Nested /\ Counted /\ Cleared

LEMMA ScopeInvInit == Init => ScopeInv
<1> SUFFICES ASSUME Init PROVE ScopeInv
  OBVIOUS
<1> USE DEF Init
<1>1. Objects = {} /\ Registries = {}
  BY DEF Objects, Registries
<1>2. TypeOK
  <2>1. scope \in [registry : {None} \cup Registries, depth : Nat, thread : Threads \cup {NoThread}]
    BY DEF Closed
  <2>2. \A S : class \in Seq(S) /\ edges \in Seq(S) /\ graph \in Seq(S)
    OBVIOUS
  <2>3. Len(graph) = Len(edges)
    OBVIOUS
  <2>4. /\ home \in [Objects -> {None} \cup Registries] /\ uses \in [Objects -> Seq(Objects)]
        /\ tree \in [Objects -> Registries]
    BY <1>1
  <2>5. stack \in [Threads -> Seq(Frame)] /\ clashed \in BOOLEAN
    <3>1. <<>> \in Seq(Frame)
      OBVIOUS
    <3> HIDE DEF Frame
    <3>2. stack \in [Threads -> Seq(Frame)]
      BY <3>1
    <3> QED BY <3>2
  <2> QED BY <2>1, <2>2, <2>3, <2>4, <2>5 DEF TypeOK
<1>3. Nested
  BY DEF Nested, Inside
<1>4. Counted
  <2>1. Builds = {}
    BY DEF Builds, Inside
  <2> QED BY <2>1, FS_EmptySet DEF Counted, Closed
<1>5. Cleared
  BY DEF Cleared
<1> QED BY <1>2, <1>3, <1>4, <1>5 DEF ScopeInv

(* What a construction does: one more calibration, and its build. *)
LEMMA ConstructEffect ==
  ASSUME TypeOK, NEW t \in Threads, Construct(t), stack[t] # <<>>
  PROVE  LET need == Head(Top(t).todo)
             o == Len(class) + 1
         IN /\ Objects' = Objects \cup {o} /\ o \notin Objects /\ o # None /\ o \in Nat
            /\ need \in Need /\ need.class \in Classes /\ Needs[need.class] \in Seq(Need)
            /\ class'[o] = need.class /\ home'[o] = None /\ uses'[o] = <<>> /\ tree'[o] = opened[t]
            /\ \A p \in Objects : /\ class'[p] = class[p] /\ home'[p] = home[p]
                                  /\ uses'[p] = uses[p] /\ tree'[p] = tree[p]
            /\ Pushed(t, [cal |-> o, todo |-> Needs[need.class], child |-> None])
            /\ OthersKeep(t)
            /\ opened[t] # None => TypeOK'
<1> USE DEF Construct
<1> DEFINE need == Head(Top(t).todo)
           o == Len(class) + 1
<1>1. /\ class \in Seq(Classes) /\ Len(class) \in Nat /\ Objects = 1..Len(class)
      /\ home \in [1..Len(class) -> {None} \cup Registries]
      /\ uses \in [1..Len(class) -> Seq(Objects)]
      /\ tree \in [1..Len(class) -> Registries]
      /\ opened[t] \in {None} \cup Registries
  BY DEF TypeOK, Objects
<1>2. need \in Need /\ need.class \in Classes /\ Needs[need.class] \in Seq(Need)
  <2>1. Top(t).todo # <<>>
    BY DEF Asks
  <2>2. need \in Need
    BY <2>1, TopFacts
  <2> QED BY <2>2, BuildAssumption DEF Need
<1>3. /\ class' \in Seq(Classes) /\ Len(class') = o /\ class'[o] = need.class
      /\ \A p \in 1..Len(class) : class'[p] = class[p]
  BY <1>1, <1>2, AppendFacts
<1>4. Objects' = Objects \cup {o} /\ Objects' = 1..o /\ o \notin Objects /\ o # None /\ o \in Nat
  BY <1>1, <1>3 DEF Objects, None
<1>5. Registries' = Registries
  BY DEF Registries
<1>6. /\ home' \in [1..o -> {None} \cup Registries] /\ home'[o] = None
      /\ \A p \in 1..Len(class) : home'[p] = home[p]
  <2> DEFINE T == {None} \cup Registries
  <2>1. home' = Append(home, None) /\ home \in [1..Len(class) -> T] /\ None \in T
        /\ Len(class) \in Nat
    BY <1>1
  <2> DEFINE m == Len(class)
             h == home
             e == None
  <2>2. h \in [1..m -> T] /\ m \in Nat /\ e \in T
    BY <2>1
  <2> HIDE DEF T, m, h, e
  <2>3. /\ Append(h, e) \in [1..(m + 1) -> T]
        /\ \A p \in 1..m : Append(h, e)[p] = h[p]
        /\ Append(h, e)[m + 1] = e
    BY <2>2, AppendToFunction, SMTT(20)
  <2> QED BY <2>1, <2>3 DEF T, m, h, e
<1>7. /\ uses' \in [1..o -> Seq(Objects')] /\ uses'[o] = <<>>
      /\ \A p \in 1..Len(class) : uses'[p] = uses[p]
  <2>1. Seq(Objects) \subseteq Seq(Objects') /\ <<>> \in Seq(Objects')
    BY <1>4, SeqMonotonic
  <2> DEFINE T == Seq(Objects')
             e == <<>>
  <2>2. uses' = Append(uses, e) /\ e \in T /\ uses \in [1..Len(class) -> T]
        /\ Len(class) \in Nat
    BY <1>1, <2>1
  <2> DEFINE m == Len(class)
  <2>3. uses \in [1..m -> T] /\ m \in Nat
    BY <2>2
  <2> HIDE DEF T, e, m
  <2>4. /\ Append(uses, e) \in [1..(m + 1) -> T]
        /\ \A p \in 1..m : Append(uses, e)[p] = uses[p]
        /\ Append(uses, e)[m + 1] = e
    BY <2>2, <2>3, AppendToFunction, SMTT(20)
  <2> QED BY <2>2, <2>4 DEF T, e, m
<1>8. /\ opened[t] # None => tree' \in [1..o -> Registries]
      /\ tree'[o] = opened[t]
      /\ \A p \in 1..Len(class) : tree'[p] = tree[p]
  <2>1. Registries \subseteq {None} \cup Registries
    OBVIOUS
  <2>2. /\ tree'[o] = opened[t]
        /\ \A p \in 1..Len(class) : tree'[p] = tree[p]
    BY <1>1, <2>1, AppendToFunction
  <2>3. opened[t] # None => tree' \in [1..o -> Registries]
    BY <1>1, AppendToFunction
  <2> QED BY <2>2, <2>3
<1>9. /\ Pushed(t, [cal |-> o, todo |-> Needs[need.class], child |-> None])
      /\ stack' \in [Threads -> Seq(Frame')]
      /\ \A u \in Threads \ {t} : stack'[u] = stack[u]
  <2>1. o \in {None} \cup Objects' /\ Len(class') \in Nat /\ Len(class) <= Len(class')
    BY <1>1, <1>3, <1>4
  <2> QED BY <1>2, <2>1, PushFrame
<1>10. OthersKeep(t)
  BY <1>9 DEF OthersKeep
<1>11. scope' \in [registry : {None} \cup Registries', depth : Nat, thread : Threads \cup {NoThread}]
  <2>1. scope' = [scope EXCEPT !.depth = @ + 1] /\ scope.depth + 1 \in Nat
        /\ scope \in [registry : {None} \cup Registries, depth : Nat, thread : Threads \cup {NoThread}]
    BY DEF TypeOK
  <2> QED BY ONLY <1>5, <2>1
<1>12. edges' \in Seq(Seq(Objects' \X ({None} \cup Objects')))
  <2>1. Objects \X ({None} \cup Objects) \subseteq Objects' \X ({None} \cup Objects')
    BY <1>4
  <2>2. Seq(Objects \X ({None} \cup Objects)) \subseteq Seq(Objects' \X ({None} \cup Objects'))
    BY <2>1, SeqMonotonic
  <2>3. edges \in Seq(Seq(Objects \X ({None} \cup Objects)))
    BY DEF TypeOK
  <2> DEFINE A == Seq(Objects \X ({None} \cup Objects))
             B == Seq(Objects' \X ({None} \cup Objects'))
  <2>4. A \subseteq B /\ edges \in Seq(A)
    BY <2>2, <2>3
  <2> HIDE DEF A, B
  <2>5. edges \in Seq(B)
    BY <2>4, SeqMonotonic
  <2> QED BY <2>5 DEF B
<1>13. graph' \in Seq(Graph')
  <2>1. Graph \subseteq Graph'
    BY <1>4 DEF Graph, NoGraph
  <2> QED BY <2>1, SeqMonotonic DEF TypeOK
<1>14. opened[t] # None => TypeOK'
  BY <1>3, <1>4, <1>5, <1>6, <1>7, <1>8, <1>9, <1>11, <1>12, <1>13 DEF TypeOK
<1> QED BY <1>1, <1>2, <1>3, <1>4, <1>6, <1>7, <1>8, <1>9, <1>10, <1>14

(* What wiring a dependency does: the attribute, the edge, the next need. *)
LEMMA DependEffect ==
  ASSUME TypeOK, NEW t \in Threads, stack[t] # <<>>, Building(t), Top(t).cal # None,
         Top(t).todo # <<>>, NEW dep \in Objects, Depend(t, dep)
  PROVE  LET cal == Top(t).cal
         IN /\ cal \in Objects /\ Objects' = Objects
            /\ Len(uses'[cal]) = Len(uses[cal]) + 1 /\ uses'[cal][Len(uses[cal]) + 1] = dep
            /\ \A i \in 1..Len(uses[cal]) : uses'[cal][i] = uses[cal][i]
            /\ \A p \in Objects \ {cal} : uses'[p] = uses[p]
            /\ TopChanged(t, [cal |-> cal, todo |-> Tail(Top(t).todo), child |-> None])
            /\ OthersKeep(t)
            /\ TypeOK'
            /\ \E r \in Registries' :
                 /\ Filed(r, cal, dep)
                 /\ scope.registry # None /\ Mine(t) => r = scope.registry
<1> USE DEF Depend
<1> DEFINE cal == Top(t).cal
           f == [Top(t) EXCEPT !.todo = Tail(@), !.child = None]
<1>1. Top(t) \in Frame /\ cal \in Objects
  BY TopFacts DEF Frame
<1>2. RecordsTyped /\ \E r \in Registries' :
        Filed(r, cal, dep) /\ (scope.registry # None /\ Mine(t) => r = scope.registry)
  BY <1>1, AddEffect
<1>3. Objects' = Objects /\ Frame' = Frame /\ Graph' = Graph
  BY DEF Objects, Frame, objects, Graph
<1>4. f \in Frame /\ f = [cal |-> cal, todo |-> Tail(Top(t).todo), child |-> None]
  <2>1. Tail(Top(t).todo) \in Seq(Need)
    BY TopFacts, TailFacts
  <2> DEFINE g == Top(t)
  <2>2. g \in Frame
    BY <1>1
  <2>3. g = [cal |-> g.cal, todo |-> g.todo, child |-> g.child]
        /\ g.cal \in {None} \cup Objects
    BY <2>2 DEF Frame
  <2> HIDE DEF g
  <2>4. [g EXCEPT !.todo = Tail(@), !.child = None] = [cal |-> g.cal, todo |-> Tail(g.todo), child |-> None]
    BY <2>2, NextNeed
  <2>5. [cal |-> g.cal, todo |-> Tail(g.todo), child |-> None] \in Frame
    BY <2>1, <2>3 DEF Frame, g
  <2> QED BY <2>4, <2>5 DEF g
<1> HIDE DEF f
<1>5. stack' = WithTop(t, f)
  BY DEF f
<1>6. /\ TopChanged(t, f) /\ stack' \in [Threads -> Seq(Frame)]
      /\ \A u \in Threads \ {t} : stack'[u] = stack[u]
  BY <1>4, <1>5, ReplaceTop
<1>7. OthersKeep(t)
  BY <1>6 DEF OthersKeep
<1>8. uses[cal] \in Seq(Objects) /\ uses \in [Objects -> Seq(Objects)]
  BY <1>1 DEF TypeOK
<1>9. /\ Append(uses[cal], dep) \in Seq(Objects) /\ Len(Append(uses[cal], dep)) = Len(uses[cal]) + 1
      /\ \A i \in 1..Len(uses[cal]) : Append(uses[cal], dep)[i] = uses[cal][i]
      /\ Append(uses[cal], dep)[Len(uses[cal]) + 1] = dep
  BY <1>8, AppendFacts
<1>10. uses'[cal] = Append(uses[cal], dep) /\ \A p \in Objects \ {cal} : uses'[p] = uses[p]
  BY <1>1, <1>8
<1>11. uses' \in [Objects -> Seq(Objects)]
  BY <1>1, <1>8, <1>9
<1>12. Registries \subseteq Registries'
  BY <1>2 DEF Filed
<1>13. scope' \in [registry : {None} \cup Registries', depth : Nat, thread : Threads \cup {NoThread}]
  BY <1>12 DEF TypeOK
<1>14. TypeOK'
  <2>1. tree' \in [Objects' -> Registries'] /\ class' \in Seq(Classes)
    BY <1>3, <1>12 DEF TypeOK, objects
  <2>2. pc' = pc /\ opened' \in [Threads -> {None} \cup Registries'] /\ clashed' \in BOOLEAN
    BY <1>12 DEF TypeOK
  <2> QED BY <1>2, <1>3, <1>6, <1>11, <1>13, <2>1, <2>2 DEF TypeOK, RecordsTyped
<1> QED BY <1>1, <1>2, <1>3, <1>4, <1>6, <1>7, <1>9, <1>10, <1>14

LEMMA TypeKept ==
  ASSUME TypeOK, UNCHANGED <<objects, uses>>, RecordsTyped \/ UNCHANGED records,
         scope' \in [registry : {None} \cup Registries', depth : Nat, thread : Threads \cup {NoThread}],
         stack' \in [Threads -> Seq(Frame)],
         pc' \in [Threads -> {"idle", "opening", "claiming", "building", "raising"}],
         opened' \in [Threads -> {None} \cup Registries'], clashed' \in BOOLEAN,
         Registries \subseteq Registries'
  PROVE  TypeOK'
<1>1. Objects' = Objects /\ Frame' = Frame /\ Graph' = Graph
  BY DEF Objects, Frame, objects, Graph
<1>2. RecordsTyped
  <2>1. CASE UNCHANGED records
    <3>1. Registries' = Registries
      BY <2>1 DEF records, Registries
    <3> QED BY <2>1, <3>1 DEF TypeOK, RecordsTyped, records
  <2> QED BY <2>1
<1>3. class' \in Seq(Classes) /\ tree' \in [Objects' -> Registries'] /\ uses' \in [Objects' -> Seq(Objects')]
  BY <1>1 DEF TypeOK, objects
<1> QED BY <1>1, <1>2, <1>3 DEF TypeOK, RecordsTyped

(* A thread that goes on with its builds, or ends some. *)
LEMMA NestedKept ==
  ASSUME TypeOK, Nested, NEW t \in Threads, OthersKeep(t), opened' = opened, pc[t] \in Inside,
         Len(stack'[t]) \in Nat, Len(stack'[t]) <= Len(stack[t]),
         \A k \in 1..Len(stack'[t]) : stack'[t][k].cal = stack[t][k].cal,
         \/ pc'[t] \in Inside /\ stack'[t] # <<>>
         \/ pc'[t] = "idle" /\ stack'[t] = <<>>
  PROVE  Nested'
<1>1. \A u \in Threads \ {t} : stack'[u] = stack[u] /\ pc'[u] = pc[u]
  BY DEF OthersKeep
<1>2. \A u \in Threads : Len(stack[u]) \in Nat
  BY DEF TypeOK
<1>3. ASSUME NEW u \in Threads
      PROVE  /\ pc'[u] = "idle" <=> stack'[u] = <<>>
             /\ pc'[u] \in {"opening", "claiming"} => Len(stack'[u]) = 1 /\ stack'[u][1].child = None
             /\ pc'[u] \in {"claiming"} \cup Inside => opened'[u] # None
             /\ \A k \in 1..Len(stack'[u]) : stack'[u][k].cal = None <=> k = 1
  <2>1. CASE u = t
    <3>1. pc'[t] \in Inside \cup {"idle"} /\ opened[t] # None
      BY DEF Nested
    <3>2. \A k \in 1..Len(stack'[t]) : k \in 1..Len(stack[t])
      BY <1>2
    <3>3. \A k \in 1..Len(stack'[t]) : stack'[t][k].cal = None <=> k = 1
      BY <3>2, SMTT(20) DEF Nested
    <3> QED BY <2>1, <3>1, <3>3 DEF Inside
  <2>2. CASE u # t
    BY <1>1, <2>2 DEF Nested
  <2> QED BY <2>1, <2>2
<1>4. ASSUME NEW u \in Threads, NEW v \in Threads,
             NEW k \in 2..Len(stack'[u]), NEW l \in 2..Len(stack'[v]),
             stack'[u][k].cal = stack'[v][l].cal
      PROVE  u = v /\ k = l
  <2>1. \A w \in Threads : \A i \in 2..Len(stack'[w]) :
          i \in 2..Len(stack[w]) /\ stack'[w][i].cal = stack[w][i].cal
    <3>1. \A i \in 2..Len(stack'[t]) : i \in 2..Len(stack[t]) /\ i \in 1..Len(stack'[t])
      BY <1>2
    <3> QED BY <1>1, <3>1
  <2>2. k \in 2..Len(stack[u]) /\ l \in 2..Len(stack[v]) /\ stack[u][k].cal = stack[v][l].cal
    BY <1>4, <2>1
  <2> QED BY <2>2 DEF Nested
<1> QED BY <1>3, <1>4 DEF Nested

LEMMA TopNested ==
  ASSUME TypeOK, Nested, NEW t \in Threads, pc[t] # "idle"
  PROVE  /\ stack[t] # <<>> /\ Len(stack[t]) \in Nat \ {0}
         /\ Top(t) = stack[t][Len(stack[t])] /\ Top(t) \in Frame
         /\ Top(t).cal = None <=> Len(stack[t]) = 1
<1>1. stack[t] # <<>>
  BY DEF Nested
<1>2. Len(stack[t]) \in Nat \ {0} /\ Top(t) = stack[t][Len(stack[t])] /\ Top(t) \in Frame
  BY <1>1, TopFacts
<1>3. Len(stack[t]) \in 1..Len(stack[t])
  BY <1>2
<1>4. \A k \in 1..Len(stack[t]) : stack[t][k].cal = None <=> k = 1
  BY DEF Nested
<1>5. Top(t).cal = None <=> Len(stack[t]) = 1
  BY <1>2, <1>3, <1>4
<1> QED BY <1>1, <1>2, <1>5

(* The builds change and the scope is as deep as before. *)
LEMMA TopChangedKeeps ==
  ASSUME ScopeInv, NEW t \in Threads, pc[t] \in Inside, NEW f, f.cal = Top(t).cal,
         TopChanged(t, f), OthersKeep(t), pc'[t] = pc[t], opened' = opened, scope' = scope,
         TypeOK'
  PROVE  ScopeInv'
<1>1. /\ stack[t] # <<>> /\ Len(stack[t]) \in Nat \ {0} /\ Len(stack'[t]) = Len(stack[t])
      /\ Top(t) = stack[t][Len(stack[t])]
  BY TopNested DEF ScopeInv, Inside, TopChanged
<1>2. \A k \in 1..Len(stack'[t]) : stack'[t][k].cal = stack[t][k].cal
  BY <1>1 DEF TopChanged
<1>3. stack'[t] # <<>>
  BY <1>1
<1>4. Nested'
  BY <1>1, <1>2, <1>3, NestedKept DEF ScopeInv
<1>5. Counted'
  BY <1>1, CountSame DEF ScopeInv
<1>6. Cleared'
  BY DEF Cleared, Closed, ScopeInv, OthersKeep
<1> QED BY <1>4, <1>5, <1>6 DEF ScopeInv

LEMMA AttachedEffect ==
  ASSUME ScopeInv, NEW t \in Threads, Attached(t), Top(t).todo # <<>>
  PROVE  /\ TopChanged(t, [cal |-> None, todo |-> Tail(Top(t).todo), child |-> None])
         /\ OthersKeep(t) /\ pc' = pc /\ ScopeInv'
<1> USE DEF Attached
<1> DEFINE g == Top(t)
           f == [cal |-> None, todo |-> Tail(g.todo), child |-> None]
<1>1. TypeOK /\ Nested /\ pc[t] \in Inside
  BY DEF ScopeInv, Building, Inside
<1>2. stack[t] # <<>> /\ g \in Frame /\ g.todo \in Seq(Need) /\ g.cal = None
  BY <1>1, TopNested, TopFacts DEF Inside
<1>3. f \in Frame
  BY <1>2, TailFacts DEF Frame
<1>4. [g EXCEPT !.todo = Tail(@), !.child = None] = f
  BY <1>2, NextNeed
<1>5. stack' = WithTop(t, f)
  BY <1>4
<1> HIDE DEF f
<1>6. TopChanged(t, f) /\ stack' \in [Threads -> Seq(Frame)] /\ \A u \in Threads \ {t} : stack'[u] = stack[u]
  BY <1>1, <1>2, <1>3, <1>5, ReplaceTop
<1>7. OthersKeep(t)
  BY <1>6 DEF OthersKeep
<1>8. TypeOK'
  <2>1. /\ Registries' = Registries /\ opened' = opened /\ clashed' = clashed /\ pc' = pc
        /\ scope' = scope
    BY DEF Registries, records
  <2>2. /\ scope' \in [registry : {None} \cup Registries', depth : Nat, thread : Threads \cup {NoThread}]
        /\ pc' \in [Threads -> {"idle", "opening", "claiming", "building", "raising"}]
        /\ opened' \in [Threads -> {None} \cup Registries'] /\ clashed' \in BOOLEAN
    BY <1>1, <2>1 DEF TypeOK
  <2> QED BY <1>1, <1>6, <2>1, <2>2, TypeKept DEF objects
<1>9. f.cal = None
  BY DEF f
<1>10. ScopeInv'
  BY <1>1, <1>2, <1>6, <1>7, <1>8, <1>9, TopChangedKeeps
<1> QED BY <1>6, <1>7, <1>10 DEF f

(* The end of a calibration's build. *)
LEMMA RegisterEffect ==
  ASSUME ScopeInv, NEW t \in Threads, Register(t)
  PROVE  /\ Len(stack[t]) >= 2 /\ Top(t).cal \in Objects
         /\ Returned(t) /\ OthersKeep(t) /\ pc' = pc
         /\ \E r \in Registries' :
              /\ Filed(r, Top(t).cal, None)
              /\ scope.registry # None /\ Mine(t) => r = scope.registry
         /\ scope'.registry = scope.registry /\ scope'.thread = scope.thread
         /\ ScopeInv'
<1> USE DEF Register
<1>1. TypeOK /\ Nested /\ Counted /\ pc[t] = "building" /\ pc[t] \in Inside /\ pc' = pc
  BY DEF ScopeInv, Building, Inside
<1>2. /\ stack[t] # <<>> /\ Len(stack[t]) \in Nat \ {0} /\ Top(t) = stack[t][Len(stack[t])]
      /\ Top(t) \in Frame /\ Len(stack[t]) # 1
  BY <1>1, TopNested
<1>3. Len(stack[t]) >= 2 /\ Top(t).cal \in Objects
  <2>1. Top(t).cal # None
    OBVIOUS
  <2>2. Top(t).cal \in {None} \cup Objects
    BY <1>2 DEF Frame
  <2> HIDE DEF Register
  <2> DEFINE n == Len(stack[t])
  <2>3. n \in Nat \ {0} /\ n # 1
    BY <1>2
  <2> HIDE DEF n
  <2>4. n >= 2
    BY <2>3
  <2> QED BY <2>1, <2>2, <2>4 DEF n
<1>4. Returned(t) /\ stack' \in [Threads -> Seq(Frame)] /\ \A u \in Threads \ {t} : stack'[u] = stack[u]
  BY <1>1, <1>3, ReturnFrame
<1>5. RecordsTyped
      /\ \E r \in Registries' : /\ Filed(r, Top(t).cal, None)
                                /\ scope.registry # None /\ Mine(t) => r = scope.registry
  BY <1>1, <1>3, AddEffect
<1>6. OthersKeep(t)
  BY <1>1, <1>4 DEF OthersKeep
<1>7. Registries \subseteq Registries' /\ Len(edges') \in Nat /\ Len(edges) <= Len(edges')
  <2>1. Registries \subseteq Registries'
    BY <1>5 DEF Filed
  <2>2. Len(edges') \in Nat /\ Len(edges) \in Nat
    BY <1>1, <1>5 DEF RecordsTyped, TypeOK
  <2> QED BY <2>1, <2>2 DEF Registries
<1>8. /\ Counted' /\ Cleared'
      /\ scope' \in [registry : {None} \cup Registries', depth : Nat,
                     thread : Threads \cup {NoThread}]
      /\ scope.registry = scope'.registry /\ scope.thread = scope'.thread
  <2>1. Len(stack'[t]) = Len(stack[t]) - 1
    BY <1>4 DEF Returned
  <2> QED BY <1>1, <1>2, <1>3, <1>6, <1>7, <2>1, CountDown DEF Building
<1>9. TypeOK'
  <2>1. /\ opened' \in [Threads -> {None} \cup Registries'] /\ clashed' \in BOOLEAN
        /\ pc' \in [Threads -> {"idle", "opening", "claiming", "building", "raising"}]
    BY <1>1, <1>7 DEF TypeOK
  <2> QED BY <1>1, <1>4, <1>5, <1>7, <1>8, <2>1, TypeKept
<1>10. Nested'
  <2>1. Len(stack'[t]) = Len(stack[t]) - 1 /\ Len(stack'[t]) \in Nat
    BY <1>2, <1>4 DEF Returned
  <2>2. \A k \in 1..Len(stack'[t]) : stack'[t][k].cal = stack[t][k].cal
    <3> DEFINE n == Len(stack[t])
    <3>1. n - 1 \in 1..n /\ stack[t][n - 1] \in Frame
      BY <1>1, <1>2, <1>3, ElementOfSeq DEF TypeOK
    <3>2. stack'[t][n - 1].cal = stack[t][n - 1].cal
      BY <1>4, <3>1 DEF Returned, Frame
    <3>3. \A k \in 1..(n - 2) : stack'[t][k] = stack[t][k]
      BY <1>4 DEF Returned
    <3>4. \A k \in 1..(n - 1) : k = n - 1 \/ k \in 1..(n - 2)
      BY <1>2
    <3> QED BY <2>1, <3>2, <3>3, <3>4
  <2>3. stack'[t] # <<>> /\ Len(stack'[t]) <= Len(stack[t])
    BY <1>2, <1>3, <2>1
  <2>4. OthersKeep(t) /\ opened' = opened /\ pc[t] \in Inside /\ pc'[t] \in Inside
    BY <1>1, <1>6
  <2> HIDE DEF OthersKeep
  <2> QED BY <1>1, <2>1, <2>2, <2>3, <2>4, NestedKept
<1> QED BY <1>1, <1>3, <1>4, <1>5, <1>6, <1>8, <1>9, <1>10 DEF ScopeInv

(* The experiment is built, or a build raises. *)
LEMMA EndEffect ==
  ASSUME ScopeInv, NEW t \in Threads, Leave(t) \/ Unwind(t)
  PROVE  /\ Popped(t) /\ OthersKeep(t) /\ Len(stack[t]) \in Nat \ {0}
         /\ pc[t] \in Inside /\ pc'[t] \in {"raising", "idle"}
         /\ Len(stack[t]) > 1 => scope.registry = scope'.registry /\ scope.thread = scope'.thread
         /\ Len(stack[t]) = 1 => pc'[t] = "idle"
         /\ ScopeInv'
<1>1. /\ TypeOK /\ Nested /\ Counted /\ pc[t] \in Inside /\ pc[t] # "idle"
      /\ UNCHANGED <<records, objects, uses, opened, clashed>> /\ ExitScope
  BY DEF ScopeInv, Leave, Unwind, Building, Inside
<1>2. stack[t] # <<>> /\ Len(stack[t]) \in Nat \ {0}
  BY <1>1, TopNested
<1>3. /\ Popped(t) /\ stack' \in [Threads -> Seq(Frame)]
      /\ \A u \in Threads \ {t} : stack'[u] = stack[u]
      /\ pc' \in [Threads -> {"idle", "opening", "claiming", "building", "raising"}]
      /\ \A u \in Threads \ {t} : pc'[u] = pc[u]
      /\ pc'[t] = IF Len(stack[t]) = 1 THEN "idle" ELSE "raising"
  <2>1. CASE Leave(t)
    <3>1. Len(stack[t]) = 1
      BY <1>1, <2>1, TopNested DEF Leave
    <3>2. stack' = [stack EXCEPT ![t] = <<>>] /\ stack \in [Threads -> Seq(Frame)] /\ <<>> \in Seq(Frame)
      BY <1>1, <2>1 DEF Leave, TypeOK
    <3>3. stack' \in [Threads -> Seq(Frame)] /\ stack'[t] = <<>> /\ \A u \in Threads \ {t} : stack'[u] = stack[u]
      <4> HIDE DEF Frame
      <4> QED BY <3>2
    <3>4. Popped(t)
      BY <3>1, <3>3 DEF Popped
    <3>5. pc' = [pc EXCEPT ![t] = "idle"]
      BY <2>1 DEF Leave
    <3> QED BY <1>1, <3>1, <3>3, <3>4, <3>5 DEF TypeOK
  <2>2. CASE Unwind(t)
    <3>1. /\ Popped(t) /\ stack' \in [Threads -> Seq(Frame)]
          /\ \A u \in Threads \ {t} : stack'[u] = stack[u]
      BY <1>1, <1>2, <2>2, PopFrame DEF Unwind
    <3>2. pc' = [pc EXCEPT ![t] = IF Len(stack[t]) = 1 THEN "idle" ELSE "raising"]
      BY <2>2 DEF Unwind
    <3> QED BY <1>1, <3>1, <3>2 DEF TypeOK
  <2> QED BY <2>1, <2>2
<1>4. OthersKeep(t)
  BY <1>3 DEF OthersKeep
<1>5. Registries' = Registries /\ Len(edges') \in Nat /\ Len(edges) <= Len(edges')
  BY <1>1 DEF Registries, records, TypeOK
<1>6. Len(stack'[t]) = Len(stack[t]) - 1 /\ \A k \in 1..Len(stack'[t]) : stack'[t][k] = stack[t][k]
  BY <1>3 DEF Popped
<1>7. /\ Counted' /\ Cleared'
      /\ scope' \in [registry : {None} \cup Registries', depth : Nat,
                     thread : Threads \cup {NoThread}]
      /\ Len(stack[t]) > 1 => scope.registry = scope'.registry /\ scope.thread = scope'.thread
  <2>1. pc'[t] \in Inside \/ (pc'[t] = "idle" /\ Len(stack[t]) = 1)
    BY <1>3 DEF Inside
  <2> QED BY <1>1, <1>2, <1>4, <1>5, <1>6, <2>1, CountDown
<1>8. TypeOK'
  <2>1. opened' \in [Threads -> {None} \cup Registries'] /\ clashed' \in BOOLEAN
    BY <1>1, <1>5 DEF TypeOK
  <2> QED BY <1>1, <1>3, <1>5, <1>7, <2>1, TypeKept
<1>9. Nested'
  <2>1. Len(stack'[t]) \in Nat /\ Len(stack'[t]) <= Len(stack[t])
    BY <1>2, <1>6
  <2>2. \/ pc'[t] \in Inside /\ stack'[t] # <<>>
        \/ pc'[t] = "idle" /\ stack'[t] = <<>>
    <3>1. CASE Len(stack[t]) = 1
      <4>1. stack'[t] \in Seq(Frame) /\ Len(stack'[t]) = 0
        BY <1>3, <1>6, <3>1
      <4>2. stack'[t] = <<>>
        BY <4>1, EmptySeq
      <4> QED BY <1>3, <3>1, <4>2
    <3>2. CASE Len(stack[t]) # 1
      <4>1. Len(stack'[t]) # 0
        BY <1>2, <1>6, <3>2
      <4>2. stack'[t] # <<>>
        BY <4>1
      <4> QED BY <1>3, <3>2, <4>2 DEF Inside
    <3> QED BY <3>1, <3>2
  <2> QED BY <1>1, <1>4, <1>6, <2>1, <2>2, NestedKept
<1> QED BY <1>1, <1>2, <1>3, <1>4, <1>7, <1>8, <1>9 DEF ScopeInv

LEMMA ConstructScope ==
  ASSUME ScopeInv, NEW t \in Threads, Construct(t)
  PROVE  ScopeInv' /\ pc[t] \in Inside /\ stack[t] # <<>> /\ opened[t] # None
<1> USE DEF Construct
<1>1. /\ TypeOK /\ Nested /\ Counted /\ pc[t] = "building" /\ pc[t] \in Inside /\ pc' = pc
      /\ opened' = opened /\ scope' = [scope EXCEPT !.depth = @ + 1]
  BY DEF ScopeInv, Asks, Building, Inside
<1>2. stack[t] # <<>> /\ Len(stack[t]) \in Nat \ {0} /\ opened[t] # None
  BY <1>1, TopNested DEF Nested
<1> DEFINE n == Len(stack[t])
           o == Len(class) + 1
           f == [cal |-> o, todo |-> Needs[Head(Top(t).todo).class], child |-> None]
<1>3. o \notin Objects /\ o # None /\ Pushed(t, f) /\ OthersKeep(t) /\ TypeOK'
  BY <1>1, <1>2, ConstructEffect
<1>4. f.cal = o
  OBVIOUS
<1> HIDE DEF o, f
<1>5. /\ Len(stack'[t]) = n + 1 /\ stack'[t][n + 1] = f
      /\ \A k \in 1..n : stack'[t][k] = stack[t][k]
      /\ \A u \in Threads \ {t} : stack'[u] = stack[u] /\ pc'[u] = pc[u]
  BY <1>3 DEF Pushed, OthersKeep
<1>6. Counted'
  <2>1. scope'.depth = scope.depth + 1
    BY <1>1 DEF TypeOK
  <2> QED BY <1>1, <1>2, <1>3, <1>5, <2>1, CountUp
<1>7. Cleared'
  <2>1. scope.depth \in Nat /\ scope'.depth = scope.depth + 1
    BY <1>1 DEF TypeOK
  <2> QED BY <2>1 DEF Cleared
<1>8. Nested'
  <2>1. ASSUME NEW u \in Threads
        PROVE  /\ pc'[u] = "idle" <=> stack'[u] = <<>>
               /\ pc'[u] \in {"opening", "claiming"} => Len(stack'[u]) = 1 /\ stack'[u][1].child = None
               /\ pc'[u] \in {"claiming"} \cup Inside => opened'[u] # None
               /\ \A k \in 1..Len(stack'[u]) : stack'[u][k].cal = None <=> k = 1
    <3>1. CASE u = t
      <4>1. stack'[t] # <<>>
        BY <1>2, <1>5
      <4>2. ASSUME NEW k \in 1..(n + 1) PROVE stack'[t][k].cal = None <=> k = 1
        <5>1. CASE k = n + 1
          BY <1>2, <1>3, <1>4, <1>5, <5>1
        <5>2. CASE k # n + 1
          <6>1. k \in 1..n
            BY <1>2, <5>2
          <6> QED BY <1>1, <1>5, <6>1 DEF Nested
        <5> QED BY <5>1, <5>2
      <4> QED BY <1>1, <1>2, <1>5, <3>1, <4>1, <4>2
    <3>2. CASE u # t
      BY <1>1, <1>5, <3>2 DEF Nested
    <3> QED BY <3>1, <3>2
  <2>2. \A u \in Threads : \A k \in 2..Len(stack[u]) : stack[u][k].cal # o
    <3>1. ASSUME NEW u \in Threads, NEW k \in 2..Len(stack[u]) PROVE stack[u][k].cal # o
      <4>1. stack[u] \in Seq(Frame) /\ k \in 1..Len(stack[u])
        BY <1>1 DEF TypeOK
      <4>2. stack[u][k] \in Frame
        BY <4>1, ElementOfSeq
      <4> QED BY <1>3, <4>2 DEF Frame
    <3> QED BY <3>1
  <2>3. \A u \in Threads : \A k \in 2..Len(stack'[u]) :
          \/ k \in 2..Len(stack[u]) /\ stack'[u][k].cal = stack[u][k].cal
          \/ u = t /\ k = n + 1 /\ stack'[u][k].cal = o
    <3>1. \A k \in 2..(n + 1) : k = n + 1 \/ (k \in 2..n /\ k \in 1..n)
      BY <1>2
    <3>2. \A k \in 2..Len(stack'[t]) :
          \/ k \in 2..Len(stack[t]) /\ stack'[t][k].cal = stack[t][k].cal
          \/ k = n + 1 /\ stack'[t][k].cal = o
      BY <1>4, <1>5, <3>1
    <3> QED BY <1>5, <3>2
  <2>4. ASSUME NEW u \in Threads, NEW v \in Threads,
               NEW k \in 2..Len(stack'[u]), NEW l \in 2..Len(stack'[v]),
               stack'[u][k].cal = stack'[v][l].cal
        PROVE  u = v /\ k = l
    <3>1. CASE k \in 2..Len(stack[u]) /\ stack'[u][k].cal = stack[u][k].cal
      <4>1. l \in 2..Len(stack[v]) /\ stack'[v][l].cal = stack[v][l].cal
        <5>1. stack'[v][l].cal # o
          BY <2>2, <2>4, <3>1
        <5> QED BY <2>3, <5>1
      <4>2. stack[u][k].cal = stack[v][l].cal
        BY <2>4, <3>1, <4>1
      <4>3. \A p, q \in Threads : \A i \in 2..Len(stack[p]), j \in 2..Len(stack[q]) :
              stack[p][i].cal = stack[q][j].cal => p = q /\ i = j
        BY <1>1 DEF Nested
      <4> QED BY <3>1, <4>1, <4>2, <4>3
    <3>2. CASE u = t /\ k = n + 1 /\ stack'[u][k].cal = o
      <4> HIDE DEF n
      <4>1. stack'[v][l].cal = o
        BY <2>4, <3>2
      <4>2. ~(l \in 2..Len(stack[v]) /\ stack'[v][l].cal = stack[v][l].cal)
        BY <2>2, <4>1
      <4>3. v = t /\ l = n + 1
        BY <2>3, <4>2
      <4> QED BY <3>2, <4>3
    <3> QED BY <2>3, <3>1, <3>2
  <2> QED BY <2>1, <2>4 DEF Nested
<1> QED BY <1>1, <1>2, <1>3, <1>6, <1>7, <1>8 DEF ScopeInv

(* A dependency is wired: one found, or the one just constructed. *)
LEMMA DependScope ==
  ASSUME ScopeInv, NEW t \in Threads, Building(t), Top(t).cal # None,
         Top(t).todo # <<>>, NEW dep \in Objects, Depend(t, dep)
  PROVE  ScopeInv'
<1>1. TypeOK /\ Nested /\ pc[t] \in Inside /\ pc[t] # "idle"
  BY DEF ScopeInv, Building, Inside
<1>2. stack[t] # <<>>
  BY <1>1, TopNested
<1> DEFINE f == [cal |-> Top(t).cal, todo |-> Tail(Top(t).todo), child |-> None]
<1>3. TypeOK' /\ TopChanged(t, f) /\ OthersKeep(t)
  BY <1>1, <1>2, DependEffect
<1>4. f.cal = Top(t).cal /\ pc' = pc /\ opened' = opened /\ scope' = scope
  BY DEF Depend
<1> HIDE DEF f
<1> QED BY <1>1, <1>3, <1>4, TopChangedKeeps

(* What is shared is on record. *)
LEMMA FoundFacts ==
  ASSUME TypeOK, NEW r \in Registries, NEW c, Oldest(r, c) # None
  PROVE  /\ Oldest(r, c) \in Objects /\ class[Oldest(r, c)] = c
         /\ \E i \in 1..Len(edges[r]) :
              /\ edges[r][i][1] = Oldest(r, c)
              /\ \A j \in 1..(i - 1) : class[edges[r][j][1]] # c
<1> DEFINE of == {i \in 1..Len(edges[r]) : class[edges[r][i][1]] = c}
<1>1. of # {} /\ Oldest(r, c) = edges[r][Min(of)][1]
  BY DEF Oldest
<1>2. edges[r] \in Seq(Objects \X ({None} \cup Objects)) /\ Len(edges[r]) \in Nat
  BY ElementOfSeq DEF TypeOK, Registries
<1>3. Min(of) \in of /\ \A j \in of : Min(of) <= j
  BY <1>1, <1>2, MinOfIndices
<1>4. edges[r][Min(of)] \in Objects \X ({None} \cup Objects)
  BY <1>2, <1>3, ElementOfSeq
<1>5. Min(of) \in 1..Len(edges[r]) /\ class[edges[r][Min(of)][1]] = c
  BY <1>3
<1>6. \A j \in 1..(Min(of) - 1) : class[edges[r][j][1]] # c
  <2>1. ASSUME NEW j \in 1..(Min(of) - 1), class[edges[r][j][1]] = c PROVE FALSE
    <3>1. j \in 1..Len(edges[r]) /\ ~(Min(of) <= j)
      BY <1>2, <1>5, SMTT(20)
    <3> QED BY <1>3, <2>1, <3>1
  <2> QED BY <2>1
<1> QED BY <1>1, <1>4, <1>5, <1>6

(* An experiment begins. *)
LEMMA TestDepthEffect ==
  ASSUME ScopeInv, NEW t \in Threads, TestDepth(t)
  PROVE  /\ stack[t] = <<>> /\ Len(stack'[t]) = 1 /\ OthersKeep(t)
         /\ stack'[t][1].cal = None /\ stack'[t][1].child = None /\ pc'[t] = "opening"
         /\ ScopeInv'
<1> USE DEF TestDepth
<1>1. TypeOK /\ Nested /\ Counted /\ Cleared /\ pc[t] = "idle" /\ stack[t] = <<>>
  BY DEF ScopeInv, Nested
<1>2. PICK c \in Clients :
        stack' = [stack EXCEPT ![t] =
          Push(t, None, [i \in 1..Len(c) |-> [class |-> c[i], dup |-> TRUE]])]
  OBVIOUS
<1> DEFINE todo == [i \in 1..Len(c) |-> [class |-> c[i], dup |-> TRUE]]
           f == [cal |-> None, todo |-> todo, child |-> None]
<1>3. todo \in Seq(Need)
  <2>1. c \in Seq(Classes)
    BY BuildAssumption
  <2> DEFINE n == Len(c)
  <2>2. n \in Nat /\ \A i \in 1..n : c[i] \in Classes
    BY <2>1, ElementOfSeq
  <2> HIDE DEF n
  <2>3. [i \in 1..n |-> [class |-> c[i], dup |-> TRUE]] \in [1..n -> Need]
    BY <2>2 DEF Need
  <2>4. [i \in 1..n |-> [class |-> c[i], dup |-> TRUE]] \in Seq(Need)
    BY <2>2, <2>3, FunctionIsSeq
  <2> QED BY <2>4 DEF n
<1> HIDE DEF todo
<1>4. Objects' = Objects /\ Frame' = Frame /\ Registries' = Registries /\ class' = class
  BY DEF Objects, Frame, objects, Registries, records
<1>5. /\ Pushed(t, f) /\ stack' \in [Threads -> Seq(Frame)]
      /\ \A u \in Threads \ {t} : stack'[u] = stack[u]
  <2>1. None \in {None} \cup Objects' /\ Len(class') \in Nat /\ Len(class) <= Len(class')
    BY <1>1, <1>4 DEF TypeOK
  <2>2. stack' = [stack EXCEPT ![t] = Push(t, None, todo)]
    BY <1>2 DEF todo
  <2> QED BY <1>1, <1>3, <1>4, <2>1, <2>2, PushFrame
<1>6. pc' = [pc EXCEPT ![t] = "opening"] /\ pc \in [Threads -> {"idle", "opening", "claiming", "building", "raising"}]
  BY <1>1 DEF TypeOK
<1>7. OthersKeep(t) /\ pc'[t] = "opening"
  BY <1>5, <1>6 DEF OthersKeep
<1>8. f.cal = None /\ f.child = None
  OBVIOUS
<1> HIDE DEF f
<1>9. Len(stack'[t]) = 1 /\ stack'[t][1] = f
  BY <1>1, <1>5 DEF Pushed
<1>10. TypeOK'
  <2>1. /\ scope' \in [registry : {None} \cup Registries', depth : Nat,
                       thread : Threads \cup {NoThread}]
        /\ pc' \in [Threads -> {"idle", "opening", "claiming", "building", "raising"}]
        /\ opened' \in [Threads -> {None} \cup Registries'] /\ clashed' \in BOOLEAN
    BY <1>1, <1>4, <1>6 DEF TypeOK
  <2> QED BY <1>1, <1>4, <1>5, <2>1, TypeKept
<1>11. Nested'
  <2>1. \A u \in Threads : u # t => stack'[u] = stack[u] /\ pc'[u] = pc[u]
    BY <1>7 DEF OthersKeep
  <2>2. ASSUME NEW u \in Threads
        PROVE  /\ pc'[u] = "idle" <=> stack'[u] = <<>>
               /\ pc'[u] \in {"opening", "claiming"} => Len(stack'[u]) = 1 /\ stack'[u][1].child = None
               /\ pc'[u] \in {"claiming"} \cup Inside => opened'[u] # None
               /\ \A k \in 1..Len(stack'[u]) : stack'[u][k].cal = None <=> k = 1
    <3>1. CASE u = t
      <4>1. stack'[t] # <<>>
        BY <1>9
      <4>2. pc'[t] \notin {"claiming"} \cup Inside
        BY <1>7 DEF Inside
      <4>3. \A k \in 1..1 : k = 1
        OBVIOUS
      <4> HIDE DEF TestDepth
      <4> QED BY <1>7, <1>8, <1>9, <3>1, <4>1, <4>2, <4>3
    <3>2. CASE u # t
      <4>1. opened' = opened /\ stack'[u] = stack[u] /\ pc'[u] = pc[u]
        BY <2>1, <3>2
      <4> HIDE DEF TestDepth
      <4> QED BY <1>1, <4>1 DEF Nested
    <3> QED BY <3>1, <3>2
  <2>3. \A u \in Threads : \A k \in 2..Len(stack'[u]) : u # t
    <3>1. 2..1 = {}
      OBVIOUS
    <3> HIDE DEF TestDepth
    <3> QED BY <1>9, <3>1
  <2>4. ASSUME NEW u \in Threads, NEW v \in Threads,
               NEW k \in 2..Len(stack'[u]), NEW l \in 2..Len(stack'[v]),
               stack'[u][k].cal = stack'[v][l].cal
        PROVE  u = v /\ k = l
    BY <1>1, <2>1, <2>3, <2>4 DEF Nested
  <2> QED BY <2>2, <2>4 DEF Nested
<1>12. Counted'
  <2>1. pc[t] \notin Inside /\ pc'[t] \notin Inside
    BY <1>1, <1>7 DEF Inside
  <2> QED BY <1>1, <1>7, <2>1, CountSame
<1>13. Cleared'
  BY <1>1, <1>7 DEF Cleared, OthersKeep, Closed
<1> QED BY <1>1, <1>7, <1>8, <1>9, <1>10, <1>11, <1>12, <1>13 DEF ScopeInv

(* It gets its registry, and claims the scope. *)
LEMMA OpenEffect ==
  ASSUME ScopeInv, NEW t \in Threads, OpenRegistry(t)
  PROVE  LET r == Len(edges) + 1
         IN /\ Registries' = Registries \cup {r} /\ r \notin Registries /\ r # None
            /\ edges'[r] = <<>> /\ graph'[r] = NoGraph
            /\ \A q \in Registries : edges'[q] = edges[q] /\ graph'[q] = graph[q]
            /\ scope'.registry = r /\ opened'[t] = r
            /\ \A u \in Threads \ {t} : opened'[u] = opened[u]
            /\ pc'[t] = "claiming" /\ OthersKeep(t)
            /\ ScopeInv'
<1> USE DEF OpenRegistry
<1> DEFINE r == Len(edges) + 1
           Rec == Objects \X ({None} \cup Objects)
<1>1. /\ TypeOK /\ Nested /\ Counted /\ Cleared /\ pc[t] = "opening"
      /\ edges \in Seq(Seq(Rec)) /\ graph \in Seq(Graph) /\ Len(graph) = Len(edges)
      /\ Len(edges) \in Nat /\ Registries = 1..Len(edges) /\ <<>> \in Seq(Rec) /\ NoGraph \in Graph
  BY DEF ScopeInv, TypeOK, Registries, Graph
<1>2. /\ edges' \in Seq(Seq(Rec)) /\ Len(edges') = r /\ edges'[r] = <<>>
      /\ \A q \in 1..Len(edges) : edges'[q] = edges[q]
  <2> DEFINE T == Seq(Rec)
             e == <<>>
  <2>1. edges' = Append(edges, e) /\ edges \in Seq(T) /\ e \in T
    BY <1>1
  <2> HIDE DEF T, e
  <2> QED BY <2>1, AppendFacts DEF T, e
<1>3. /\ graph' \in Seq(Graph) /\ Len(graph') = r /\ graph'[r] = NoGraph
      /\ \A q \in 1..Len(edges) : graph'[q] = graph[q]
  BY <1>1, AppendFacts
<1>4. Registries' = 1..r /\ Registries' = Registries \cup {r} /\ r \notin Registries /\ r # None
  <2>1. Registries' = 1..r
    BY <1>2 DEF Registries
  <2> DEFINE n == Len(edges)
  <2>2. n \in Nat /\ Registries = 1..n
    BY <1>1
  <2> HIDE DEF n
  <2>3. 1..(n + 1) = (1..n) \cup {n + 1} /\ (n + 1) \notin 1..n /\ n + 1 # None
    BY <2>2 DEF None
  <2> QED BY <2>1, <2>2, <2>3 DEF n
<1>5. /\ scope' = [scope EXCEPT !.registry = r] /\ opened' = [opened EXCEPT ![t] = r]
      /\ pc' = [pc EXCEPT ![t] = "claiming"] /\ stack' = stack
      /\ Objects' = Objects /\ Frame' = Frame /\ Graph' = Graph
  BY <1>2 DEF Objects, Frame, Graph, objects
<1> HIDE DEF r, OpenRegistry
<1>6. /\ scope' \in [registry : {None} \cup Registries', depth : Nat,
                     thread : Threads \cup {NoThread}]
      /\ opened' \in [Threads -> {None} \cup Registries']
      /\ pc' \in [Threads -> {"idle", "opening", "claiming", "building", "raising"}]
  BY <1>1, <1>4, <1>5 DEF TypeOK
<1>7. /\ scope'.registry = r /\ scope'.depth = scope.depth
      /\ opened'[t] = r /\ \A u \in Threads \ {t} : opened'[u] = opened[u]
      /\ pc'[t] = "claiming" /\ \A u \in Threads \ {t} : pc'[u] = pc[u]
  BY <1>1, <1>5 DEF TypeOK
<1>8. OthersKeep(t)
  BY <1>5, <1>7 DEF OthersKeep
<1>9. TypeOK'
  <2>1. home' \in [Objects -> {None} \cup Registries'] /\ tree' \in [Objects -> Registries']
        /\ class' \in Seq(Classes) /\ uses' \in [Objects -> Seq(Objects)] /\ clashed' \in BOOLEAN
        /\ stack' \in [Threads -> Seq(Frame)]
    BY <1>1, <1>4, <1>5 DEF TypeOK, OpenRegistry, objects
  <2>2. Len(graph') = Len(edges')
    BY <1>2, <1>3
  <2> QED BY <1>2, <1>3, <1>5, <1>6, <2>1, <2>2 DEF TypeOK
<1>10. Nested'
  <2>1. ASSUME NEW u \in Threads
        PROVE  /\ pc'[u] = "idle" <=> stack'[u] = <<>>
               /\ pc'[u] \in {"opening", "claiming"} => Len(stack'[u]) = 1 /\ stack'[u][1].child = None
               /\ pc'[u] \in {"claiming"} \cup Inside => opened'[u] # None
               /\ \A k \in 1..Len(stack'[u]) : stack'[u][k].cal = None <=> k = 1
    BY <1>1, <1>4, <1>5, <1>7 DEF Nested
  <2> QED BY <1>1, <1>5, <2>1 DEF Nested
<1>11. Counted'
  <2>1. pc[t] \notin Inside /\ pc'[t] \notin Inside
    BY <1>1, <1>7 DEF Inside
  <2> QED BY <1>1, <1>7, <1>8, <2>1, CountSame
<1>12. Cleared'
  BY <1>7 DEF Cleared
<1> QED BY <1>1, <1>2, <1>3, <1>4, <1>7, <1>8, <1>9, <1>10, <1>11, <1>12 DEF ScopeInv, r

LEMMA ClaimEffect ==
  ASSUME ScopeInv, NEW t \in Threads, Claim(t)
  PROVE  /\ pc'[t] = "building" /\ OthersKeep(t) /\ stack' = stack
         /\ scope'.thread = t /\ scope'.registry = scope.registry
         /\ ScopeInv'
<1> USE DEF Claim
<1>1. TypeOK /\ Nested /\ Counted /\ Cleared /\ pc[t] = "claiming"
  BY DEF ScopeInv
<1>2. /\ Objects' = Objects /\ Frame' = Frame /\ Registries' = Registries
      /\ scope.depth \in Nat /\ scope' = [scope EXCEPT !.thread = t, !.depth = @ + 1]
  BY <1>1 DEF Objects, Frame, objects, Registries, records, TypeOK
<1>3. /\ scope'.thread = t /\ scope'.registry = scope.registry /\ scope'.depth = scope.depth + 1
      /\ scope' \in [registry : {None} \cup Registries', depth : Nat,
                     thread : Threads \cup {NoThread}]
  <2>1. scope.depth + 1 \in Nat
    BY <1>2
  <2> QED BY <1>1, <1>2, <2>1 DEF TypeOK
<1>4. /\ pc' \in [Threads -> {"idle", "opening", "claiming", "building", "raising"}]
      /\ pc'[t] = "building" /\ \A u \in Threads \ {t} : pc'[u] = pc[u]
  BY <1>1 DEF TypeOK
<1>5. OthersKeep(t)
  BY <1>4 DEF OthersKeep
<1>6. TypeOK'
  <2>1. /\ stack' \in [Threads -> Seq(Frame)] /\ opened' \in [Threads -> {None} \cup Registries']
        /\ clashed' \in BOOLEAN
    BY <1>1, <1>2 DEF TypeOK
  <2> QED BY <1>1, <1>2, <1>3, <1>4, <2>1, TypeKept
<1>7. Nested'
  <2>1. ASSUME NEW u \in Threads
        PROVE  /\ pc'[u] = "idle" <=> stack'[u] = <<>>
               /\ pc'[u] \in {"opening", "claiming"} => Len(stack'[u]) = 1 /\ stack'[u][1].child = None
               /\ pc'[u] \in {"claiming"} \cup Inside => opened'[u] # None
               /\ \A k \in 1..Len(stack'[u]) : stack'[u][k].cal = None <=> k = 1
    BY <1>1, <1>4 DEF Nested
  <2> QED BY <1>1, <2>1 DEF Nested
<1>8. Counted'
  <2>1. pc[t] \notin Inside /\ pc'[t] \in Inside
    BY <1>1, <1>4 DEF Inside
  <2>2. Len(stack'[t]) = 0 + 1 /\ 0 \in Nat
    BY <1>1 DEF Nested
  <2> QED BY <1>1, <1>3, <1>5, <2>1, <2>2, CountUp
<1>9. Cleared'
  BY <1>2, <1>3 DEF Cleared
<1> QED BY <1>3, <1>4, <1>5, <1>6, <1>7, <1>8, <1>9 DEF ScopeInv

LEMMA RaiseEffect ==
  ASSUME ScopeInv, NEW t \in Threads, Raise(t)
  PROVE  ScopeInv' /\ OthersKeep(t) /\ pc'[t] = "raising" /\ pc[t] \in Inside
<1> USE DEF Raise, Raises
<1>1. TypeOK /\ Nested /\ Counted /\ Cleared /\ pc[t] = "building" /\ pc[t] \in Inside
  BY DEF ScopeInv, Building, Inside
<1>2. /\ Objects' = Objects /\ Frame' = Frame /\ Registries' = Registries
      /\ pc' \in [Threads -> {"idle", "opening", "claiming", "building", "raising"}]
      /\ pc'[t] = "raising" /\ \A u \in Threads \ {t} : pc'[u] = pc[u]
  BY <1>1 DEF Objects, Frame, objects, Registries, records, TypeOK
<1>3. OthersKeep(t)
  BY <1>2 DEF OthersKeep
<1>4. TypeOK'
  <2>1. /\ scope' \in [registry : {None} \cup Registries', depth : Nat,
                       thread : Threads \cup {NoThread}]
        /\ stack' \in [Threads -> Seq(Frame)] /\ opened' \in [Threads -> {None} \cup Registries']
        /\ clashed' \in BOOLEAN
    BY <1>1, <1>2 DEF TypeOK
  <2> QED BY <1>1, <1>2, <2>1, TypeKept
<1>5. stack[t] # <<>> /\ Len(stack[t]) \in Nat
  BY <1>1, TopNested
<1>6. Nested'
  BY <1>1, <1>2, <1>3, <1>5, NestedKept DEF Inside
<1>7. Counted'
  BY <1>1, <1>2, <1>3, CountSame DEF Inside
<1>8. Cleared'
  BY <1>1, <1>2 DEF Cleared, Closed
<1> QED BY <1>1, <1>2, <1>3, <1>4, <1>6, <1>7, <1>8 DEF ScopeInv

LEMMA NodeFacts ==
  ASSUME NEW recs, NEW x
  PROVE  x \in GraphOf(recs).node <=> x # None /\ \E e \in ToSet(recs) : x \in {e[1], e[2]}
BY DEF GraphOf

LEMMA GraphTyped ==
  ASSUME TypeOK, NEW r \in Registries
  PROVE  GraphOf(edges[r]) \in Graph /\ CurrentGraph(r) \in Graph
<1>1. edges[r] \in Seq(Objects \X ({None} \cup Objects)) /\ graph[r] \in Graph
  BY ElementOfSeq DEF TypeOK, Registries
<1>2. ToSet(edges[r]) \subseteq Objects \X ({None} \cup Objects)
  BY <1>1, ElementOfSeq DEF ToSet
<1>3. GraphOf(edges[r]).node \subseteq Objects
  <2>1. ASSUME NEW x \in GraphOf(edges[r]).node PROVE x \in Objects
    <3>1. PICK e \in ToSet(edges[r]) : x \in {e[1], e[2]} /\ x # None
      BY NodeFacts
    <3> DEFINE Rec == Objects \X ({None} \cup Objects)
    <3>2. e \in Rec
      BY <1>2
    <3>3. e[1] \in Objects /\ e[2] \in {None} \cup Objects
      BY <3>2
    <3> QED BY <3>1, <3>3
  <2> QED BY <2>1
<1>4. GraphOf(edges[r]).edge \subseteq Objects \X Objects
  BY <1>2 DEF GraphOf
<1>5. GraphOf(edges[r]) \in [node : SUBSET Objects, edge : SUBSET (Objects \X Objects)]
  BY <1>3, <1>4 DEF GraphOf
<1> QED BY <1>1, <1>5 DEF CurrentGraph, Graph

LEMMA ReadEffect ==
  ASSUME ScopeInv, NEW r \in Registries, ReadGraph(r)
  PROVE  /\ ScopeInv' /\ Registries' = Registries
         /\ graph'[r] = CurrentGraph(r) /\ \A q \in Registries \ {r} : graph'[q] = graph[q]
<1> USE DEF ReadGraph
<1>1. TypeOK
  BY DEF ScopeInv
<1>2. /\ graph' \in Seq(Graph) /\ Len(graph') = Len(graph) /\ graph'[r] = CurrentGraph(r)
      /\ \A q \in Registries \ {r} : graph'[q] = graph[q]
  <2> DEFINE g == CurrentGraph(r)
  <2>1. g \in Graph /\ graph \in Seq(Graph) /\ Registries = 1..Len(graph)
    BY <1>1, GraphTyped DEF TypeOK, Registries
  <2> HIDE DEF g
  <2>2. graph' = [graph EXCEPT ![r] = g]
    BY DEF g
  <2> QED BY <2>1, <2>2, ExceptSeq DEF g
<1>3. Objects' = Objects /\ Frame' = Frame /\ Graph' = Graph /\ Registries' = Registries
  BY DEF Objects, Frame, Graph, objects, Registries
<1>4. TypeOK'
  BY <1>1, <1>2, <1>3 DEF TypeOK, objects
<1>5. Nested' /\ Counted' /\ Cleared'
  <2>1. Builds' = Builds
    BY DEF Builds
  <2> QED BY <2>1 DEF ScopeInv, Nested, Counted, Cleared, Closed
<1> QED BY <1>2, <1>3, <1>4, <1>5 DEF ScopeInv

-------------------------------------------------------------------------------
(* The steps of a thread, with what the proofs need to know of each. *)

LEMMA ShareFacts ==
  ASSUME ScopeInv, NEW t \in Threads, Share(t)
  PROVE  /\ TypeOK /\ stack[t] # <<>> /\ pc[t] = "building" /\ pc[t] \in Inside
         /\ Top(t).todo # <<>> /\ Top(t).cal # None /\ Building(t) /\ Top(t).child = None
         /\ scope.registry \in Registries /\ Mine(t)
         /\ Found(t) \in Objects /\ Found(t) # None /\ Depend(t, Found(t)) /\ ScopeInv'
<1> USE DEF Share
<1>1. TypeOK /\ Nested /\ pc[t] = "building" /\ pc[t] # "idle" /\ Top(t).todo # <<>>
      /\ Building(t) /\ Top(t).child = None
  BY DEF ScopeInv, Asks, Building
<1>2. stack[t] # <<>>
  BY <1>1, TopNested
<1>3. scope.registry \in Registries /\ Mine(t)
  BY <1>1 DEF MayLookUp, TypeOK
<1>4. Found(t) \in Objects
  BY <1>1, <1>3, FoundFacts DEF Found
<1>5. ScopeInv'
  BY <1>1, <1>4, DependScope
<1> QED BY <1>1, <1>2, <1>3, <1>4, <1>5 DEF Inside

LEMMA WireFacts ==
  ASSUME ScopeInv, NEW t \in Threads, Wire(t), Top(t).todo # <<>>
  PROVE  /\ TypeOK /\ stack[t] # <<>> /\ pc[t] = "building" /\ pc[t] \in Inside
         /\ Top(t).cal # None /\ Building(t)
         /\ Top(t).child \in Objects /\ Depend(t, Top(t).child) /\ ScopeInv'
<1> USE DEF Wire
<1>1. TypeOK /\ Nested /\ pc[t] = "building" /\ pc[t] # "idle"
  BY DEF ScopeInv, Building
<1>2. stack[t] # <<>> /\ Top(t) \in Frame
  BY <1>1, TopNested
<1>3. Top(t).child \in Objects
  BY <1>2 DEF Frame
<1>4. ScopeInv'
  BY <1>3, DependScope
<1> QED BY <1>1, <1>2, <1>3, <1>4 DEF Inside

LEMMA WaitingStep ==
  ASSUME ScopeInv, Waiting, NEW t \in Threads, Step(t)
  PROVE  Waiting'
<1> DEFINE n == Len(stack[t])
           W(s) == \A k \in 1..Len(s) :
                     /\ s[k].child # None => s[k].todo # <<>>
                     /\ k < Len(s) => s[k].todo # <<>> /\ s[k].child = None
<1>1. /\ TypeOK /\ n \in Nat /\ \A u \in Threads : W(stack[u])
      /\ stack[t] \in Seq(Frame)
  <2>1. TypeOK
    BY DEF ScopeInv
  <2>2. stack[t] \in Seq(Frame)
    BY <2>1 DEF TypeOK
  <2>3. \A u \in Threads : W(stack[u])
    BY DEF Waiting
  <2> QED BY <2>1, <2>2, <2>3
<1>2. (\A u \in Threads \ {t} : stack'[u] = stack[u]) /\ W(stack'[t]) => Waiting'
  BY <1>1 DEF Waiting
<1>3. CASE TestDepth(t)
  <2>1. /\ Len(stack'[t]) = 1 /\ stack'[t][1].child = None /\ OthersKeep(t)
    BY <1>3, TestDepthEffect
  <2>2. W(stack'[t])
    BY <2>1
  <2> QED BY <1>2, <2>1, <2>2 DEF OthersKeep
<1>4. CASE OpenRegistry(t) \/ Claim(t) \/ Raise(t)
  BY <1>4 DEF Waiting, OpenRegistry, Claim, Raise
<1>5. CASE Construct(t)
  <2>1. /\ stack[t] # <<>> /\ n \in Nat \ {0} /\ Top(t) = stack[t][n]
        /\ Top(t).todo # <<>> /\ Top(t).child = None
    BY <1>1, <1>5, ConstructScope, TopFacts DEF Construct, Asks
  <2>2. PICK f : Pushed(t, f) /\ f.child = None /\ OthersKeep(t)
    BY <1>1, <1>5, <2>1, ConstructEffect
  <2>3. /\ Len(stack'[t]) = n + 1 /\ stack'[t][n + 1] = f
        /\ \A i \in 1..n : stack'[t][i] = stack[t][i]
    BY <2>2 DEF Pushed
  <2> HIDE DEF n
  <2>4. ASSUME NEW k \in 1..(n + 1)
        PROVE  /\ stack'[t][k].child # None => stack'[t][k].todo # <<>>
               /\ k < n + 1 => stack'[t][k].todo # <<>> /\ stack'[t][k].child = None
    <3>1. CASE k = n + 1
      BY <2>1, <2>2, <2>3, <3>1
    <3>2. CASE k = n
      BY <2>1, <2>3, <3>2
    <3>3. CASE k # n /\ k # n + 1
      <4>1. k \in 1..n /\ k < n
        BY <2>1, <3>3
      <4>2. stack[t][k].todo # <<>> /\ stack[t][k].child = None
        BY <1>1, <4>1 DEF n
      <4> QED BY <2>3, <4>1, <4>2
    <3> QED BY <3>1, <3>2, <3>3
  <2>5. W(stack'[t])
    BY <2>3, <2>4
  <2> QED BY <1>2, <2>2, <2>5 DEF OthersKeep
<1>6. ASSUME NEW f, f.child = None, TopChanged(t, f), OthersKeep(t), n # 0
      PROVE  Waiting'
  <2>1. /\ Len(stack'[t]) = n /\ \A i \in 1..(n - 1) : stack'[t][i] = stack[t][i]
        /\ stack'[t][n] = f
    BY <1>6 DEF TopChanged
  <2> HIDE DEF n
  <2>2. ASSUME NEW k \in 1..n
        PROVE  /\ stack'[t][k].child # None => stack'[t][k].todo # <<>>
               /\ k < n => stack'[t][k].todo # <<>> /\ stack'[t][k].child = None
    <3>1. CASE k = n
      BY <1>6, <2>1, <3>1
    <3>2. CASE k # n
      <4>1. k \in 1..(n - 1) /\ k < n
        BY <1>1, <3>2
      <4>2. stack[t][k].todo # <<>> /\ stack[t][k].child = None
        BY <1>1, <4>1 DEF n
      <4> QED BY <2>1, <4>1, <4>2
    <3> QED BY <3>1, <3>2
  <2>3. W(stack'[t])
    BY <2>1, <2>2
  <2> QED BY <1>2, <1>6, <2>3 DEF OthersKeep
<1>7. CASE Share(t)
  <2>1. /\ stack[t] # <<>> /\ Building(t) /\ Top(t).cal # None /\ Top(t).todo # <<>>
        /\ Found(t) \in Objects /\ Depend(t, Found(t))
    BY <1>7, ShareFacts
  <2>2. PICK f : f.child = None /\ TopChanged(t, f) /\ OthersKeep(t)
    BY <1>1, <2>1, DependEffect
  <2> QED BY <1>1, <1>6, <2>1, <2>2, TopFacts
<1>8. CASE (Wire(t) \/ Attached(t))
  <2>1. Building(t) /\ Top(t).child # None
    BY <1>8 DEF Wire, Attached
  <2>2. stack[t] # <<>> /\ n \in Nat \ {0} /\ Top(t) = stack[t][n]
    BY <2>1, TopNested DEF ScopeInv, Building
  <2>3. Top(t).todo # <<>>
    <3>1. n \in 1..n
      <4> HIDE DEF n
      <4> QED BY <2>2
    <3> QED BY <1>1, <2>1, <2>2, <3>1
  <2>4. PICK f : f.child = None /\ TopChanged(t, f) /\ OthersKeep(t)
    <3>1. CASE Wire(t)
      <4>1. /\ Top(t).cal # None /\ Top(t).child \in Objects /\ Depend(t, Top(t).child)
        BY <2>3, <3>1, WireFacts
      <4> QED BY <1>1, <2>1, <2>2, <2>3, <4>1, DependEffect
    <3>2. CASE Attached(t)
      BY <2>3, <3>2, AttachedEffect
    <3> QED BY <1>8, <3>1, <3>2
  <2> QED BY <1>6, <2>2, <2>4
<1>9. CASE Register(t)
  <2>1. Returned(t) /\ OthersKeep(t) /\ n >= 2
    BY <1>9, RegisterEffect
  <2>2. /\ Len(stack'[t]) = n - 1
        /\ \A i \in 1..(n - 2) : stack'[t][i] = stack[t][i]
        /\ stack'[t][n - 1] = [stack[t][n - 1] EXCEPT !.child = stack[t][n].cal]
    BY <2>1 DEF Returned
  <2>3. n - 1 \in 1..n /\ n - 1 < n /\ stack[t][n - 1] \in Frame
    <3>1. n - 1 \in 1..n /\ n - 1 < n
      <4> HIDE DEF n
      <4> QED BY <1>1, <2>1
    <3> QED BY <1>1, <3>1, ElementOfSeq
  <2>4. stack'[t][n - 1].todo # <<>>
    <3>1. stack'[t][n - 1].todo = stack[t][n - 1].todo
      BY <2>2, <2>3 DEF Frame
    <3> QED BY <1>1, <2>3, <3>1
  <2> HIDE DEF n
  <2>5. ASSUME NEW k \in 1..(n - 1)
        PROVE  /\ stack'[t][k].child # None => stack'[t][k].todo # <<>>
               /\ k < n - 1 => stack'[t][k].todo # <<>> /\ stack'[t][k].child = None
    <3>1. CASE k = n - 1
      BY <1>1, <2>4, <3>1
    <3>2. CASE k # n - 1
      <4>1. k \in 1..(n - 2) /\ k \in 1..n /\ k < n
        BY <1>1, <3>2
      <4>2. stack[t][k].todo # <<>> /\ stack[t][k].child = None
        BY <1>1, <4>1 DEF n
      <4> QED BY <2>2, <4>1, <4>2
    <3> QED BY <3>1, <3>2
  <2>6. W(stack'[t])
    BY <2>2, <2>5
  <2> QED BY <1>2, <2>1, <2>6 DEF OthersKeep
<1>10. CASE (Leave(t) \/ Unwind(t))
  <2>1. Popped(t) /\ OthersKeep(t)
    BY <1>10, EndEffect
  <2>2. Len(stack'[t]) = n - 1 /\ \A i \in 1..(n - 1) : stack'[t][i] = stack[t][i]
    BY <2>1 DEF Popped
  <2> HIDE DEF n
  <2>3. \A k \in 1..(n - 1) : k \in 1..n /\ k < n
    BY <1>1
  <2>4. W(stack'[t])
    BY <1>1, <2>2, <2>3 DEF n
  <2> QED BY <1>2, <2>1, <2>4 DEF OthersKeep
<1> QED BY <1>3, <1>4, <1>5, <1>7, <1>8, <1>9, <1>10 DEF Step

(* What holds in every state, whoever builds what. *)
BuildInv == ScopeInv /\ Waiting

LEMMA TopWaiting ==
  ASSUME BuildInv, NEW t \in Threads, Wire(t) \/ Attached(t)
  PROVE  Top(t).todo # <<>>
<1>1. Building(t) /\ Top(t).child # None
  BY DEF Wire, Attached
<1>2. stack[t] # <<>> /\ Len(stack[t]) \in Nat \ {0} /\ Top(t) = stack[t][Len(stack[t])]
  BY <1>1, TopNested DEF BuildInv, ScopeInv, Building
<1>3. Len(stack[t]) \in 1..Len(stack[t])
  BY <1>2
<1> QED BY <1>1, <1>2, <1>3 DEF BuildInv, Waiting

LEMMA BuildInvStep == BuildInv /\ [Next]_vars => BuildInv'
<1> SUFFICES ASSUME BuildInv, [Next]_vars PROVE BuildInv'
  OBVIOUS
<1>1. ScopeInv /\ Waiting
  BY DEF BuildInv
<1>2. ASSUME NEW t \in Threads, Step(t) PROVE BuildInv'
  <2>1. CASE TestDepth(t)
    BY <1>1, <2>1, TestDepthEffect, <1>2, WaitingStep DEF BuildInv
  <2>2. CASE OpenRegistry(t)
    BY <1>1, <2>2, OpenEffect, <1>2, WaitingStep DEF BuildInv
  <2>3. CASE Claim(t)
    BY <1>1, <2>3, ClaimEffect, <1>2, WaitingStep DEF BuildInv
  <2>4. CASE Construct(t)
    BY <1>1, <2>4, ConstructScope, <1>2, WaitingStep DEF BuildInv
  <2>5. CASE Share(t)
    BY <1>1, <2>5, ShareFacts, <1>2, WaitingStep DEF BuildInv
  <2>6. CASE Wire(t)
    BY <1>1, <2>6, TopWaiting, WireFacts, <1>2, WaitingStep DEF BuildInv
  <2>7. CASE Attached(t)
    BY <1>1, <2>7, TopWaiting, AttachedEffect, <1>2, WaitingStep DEF BuildInv
  <2>8. CASE Register(t)
    BY <1>1, <2>8, RegisterEffect, <1>2, WaitingStep DEF BuildInv
  <2>9. CASE (Leave(t) \/ Unwind(t))
    BY <1>1, <2>9, EndEffect, <1>2, WaitingStep DEF BuildInv
  <2>10. CASE Raise(t)
    BY <1>1, <2>10, RaiseEffect, <1>2, WaitingStep DEF BuildInv
  <2> QED BY <1>2, <2>1, <2>2, <2>3, <2>4, <2>5, <2>6, <2>7, <2>8, <2>9, <2>10 DEF Step
<1>3. ASSUME NEW r \in Registries, ReadGraph(r) PROVE BuildInv'
  <2>1. Waiting'
    BY <1>1, <1>3 DEF ReadGraph, Waiting
  <2> QED BY <1>1, <1>3, <2>1, ReadEffect DEF BuildInv
<1>4. CASE UNCHANGED vars
  <2>1. /\ TypeOK' /\ Nested' /\ Cleared' /\ Waiting'
    <3>1. Objects' = Objects /\ Frame' = Frame /\ Graph' = Graph /\ Registries' = Registries
      BY <1>4 DEF vars, Objects, Frame, Graph, Registries
    <3> QED BY <1>1, <1>4, <3>1 DEF vars, ScopeInv, TypeOK, Nested, Cleared, Waiting, Closed
  <2>2. Counted'
    <3>1. Builds' = Builds
      BY <1>4 DEF vars, Builds
    <3> QED BY <1>1, <1>4, <3>1 DEF vars, ScopeInv, Counted
  <2> QED BY <2>1, <2>2 DEF BuildInv, ScopeInv
<1> QED BY <1>2, <1>3, <1>4 DEF Next

LEMMA BuildInvInit == Init => BuildInv
<1> SUFFICES ASSUME Init PROVE BuildInv
  OBVIOUS
<1>1. ScopeInv
  BY ScopeInvInit
<1>2. Waiting
  BY DEF Init, Waiting
<1> QED BY <1>1, <1>2 DEF BuildInv

(* Whatever threads, classes and experiments there are, and whatever is    *)
(* raised where, the state of a build is well formed.                      *)
THEOREM BuildTyped == Spec => []TypeOK
<1>1. BuildInv => TypeOK
  BY DEF BuildInv, ScopeInv
<1> QED BY <1>1, BuildInvInit, BuildInvStep, PTL DEF Spec

(* building() leaves no scope behind: with no build under way the globals  *)
(* of dag.py are cleared, after any interleaving and any exception, so the *)
(* next build can begin (dag.py 55-90).                                    *)
THEOREM ScopeClosedHolds == Spec => []ScopeClosed
<1>1. BuildInv => ScopeClosed
  <2> SUFFICES ASSUME BuildInv, \A t \in Threads : pc[t] = "idle" PROVE scope = Closed
    BY DEF ScopeClosed
  <2>1. Builds = {}
    BY DEF Builds, Inside
  <2>2. scope.depth = 0
    BY <2>1, FS_EmptySet DEF BuildInv, ScopeInv, Counted
  <2> QED BY <2>2 DEF BuildInv, ScopeInv, Cleared
<1> QED BY <1>1, BuildInvInit, BuildInvStep, PTL DEF Spec

-------------------------------------------------------------------------------
(* Trees are kept apart. *)

ApartInv == BuildInv /\ Alone /\ OwnTree

(* What a registry, a calibration or a build has to do with a tree. *)
OwnHome(o) == home[o] \in {None, tree[o]}
OwnUses(o) == \A i \in 1..Len(uses[o]) : tree[uses[o][i]] = tree[o]
OwnRecords(r) == \A i \in 1..Len(edges[r]) : tree[edges[r][i][1]] = r
OwnBuild(t, f) ==
  /\ f.cal # None => tree[f.cal] = opened[t]
  /\ f.child # None => tree[f.child] = opened[t]

LEMMA OwnTreeParts ==
  OwnTree <=>
    (~clashed =>
      /\ \A o \in Objects : OwnHome(o) /\ OwnUses(o)
      /\ \A r \in Registries : OwnRecords(r)
      /\ \A t \in Threads : \A k \in 1..Len(stack[t]) : OwnBuild(t, stack[t][k]))
BY DEF OwnTree, OwnHome, OwnUses, OwnRecords, OwnBuild

(* Who builds, builds alone, and in its own registry. *)
LEMMA AloneFacts ==
  ASSUME ApartInv, ~clashed, NEW t \in Threads, pc[t] # "idle"
  PROVE  /\ \A u \in Threads \ {t} : pc[u] = "idle" /\ stack[u] = <<>>
         /\ pc[t] \in {"claiming"} \cup Inside => opened[t] \in Registries /\ scope.registry = opened[t]
         /\ pc[t] \in Inside => scope.thread = t
<1>1. TypeOK /\ Nested /\ Alone
  BY DEF ApartInv, BuildInv, ScopeInv
<1>2. \A u \in Threads \ {t} : pc[u] = "idle" /\ stack[u] = <<>>
  BY <1>1 DEF Alone, Nested
<1>3. pc[t] \in {"claiming"} \cup Inside => opened[t] \in Registries /\ scope.registry = opened[t]
  BY <1>1 DEF Alone, Nested, TypeOK
<1>4. pc[t] \in Inside => scope.thread = t
  BY <1>1 DEF Alone
<1> QED BY <1>2, <1>3, <1>4

(* A thread goes on in its registry, or is done. *)
LEMMA AloneKept ==
  ASSUME ApartInv, ~clashed, NEW t \in Threads, pc[t] # "idle", OthersKeep(t), opened' = opened,
         pc'[t] \in Inside => scope'.thread = t,
         pc'[t] \in {"claiming"} \cup Inside => scope'.registry = opened[t]
  PROVE  Alone'
<1>1. \A u \in Threads \ {t} : pc'[u] = "idle"
  BY AloneFacts DEF OthersKeep
<1> QED BY <1>1 DEF Alone, Inside

(* The registries, when a record of t's tree is filed. *)
LEMMA FiledApart ==
  ASSUME ApartInv, ~clashed, NEW t \in Threads, pc[t] \in Inside,
         NEW cal \in Objects, NEW dep \in {None} \cup Objects, tree' = tree,
         tree[cal] = opened[t], dep # None => tree[dep] = opened[t],
         Filed(opened[t], cal, dep)
  PROVE  /\ Registries' = Registries
         /\ \A o \in Objects : OwnHome(o)'
         /\ \A r \in Registries : OwnRecords(r)'
<1> DEFINE r == opened[t]
<1>1. /\ TypeOK /\ r \in Registries /\ pc[t] # "idle"
      /\ \A o \in Objects : OwnHome(o)
      /\ \A q \in Registries : OwnRecords(q)
  BY AloneFacts, OwnTreeParts DEF ApartInv, BuildInv, ScopeInv, Inside
<1>2. /\ Registries' = Registries \cup {r}
      /\ \A q \in Registries \ {r} : edges'[q] = edges[q]
      /\ Len(edges'[r]) = Len(edges[r]) + 1
      /\ \A i \in 1..Len(edges[r]) : edges'[r][i] = edges[r][i]
      /\ edges'[r][Len(edges[r]) + 1] = <<cal, dep>>
      /\ \A o \in {cal, dep} \ {None} : home'[o] = r
      /\ \A o \in Objects \ {cal, dep} : home'[o] = home[o]
  BY <1>1 DEF Filed
<1>3. Len(edges[r]) \in Nat
  BY <1>1, ElementOfSeq DEF TypeOK, Registries
<1> HIDE DEF r
<1>4. \A o \in Objects : OwnHome(o)'
  <2>1. None \notin Objects
    BY DEF None, Objects
  <2>2. tree[cal] = r /\ (dep # None => tree[dep] = r)
    BY DEF r
  <2> QED BY <1>1, <1>2, <2>1, <2>2 DEF OwnHome
<1>5. ASSUME NEW q \in Registries PROVE OwnRecords(q)'
  <2>1. CASE q = r
    <3> DEFINE n == Len(edges[r])
    <3>1. n \in Nat /\ Len(edges'[r]) = n + 1
      BY <1>2, <1>3
    <3>2. \A i \in 1..n : edges'[r][i] = edges[r][i] /\ tree[edges[r][i][1]] = r
      BY <1>1, <1>2 DEF OwnRecords
    <3>3. edges'[r][n + 1][1] = cal /\ tree[cal] = r
      BY <1>2 DEF r
    <3> HIDE DEF n
    <3>4. \A i \in 1..(n + 1) : i = n + 1 \/ i \in 1..n
      BY <3>1
    <3> QED BY <2>1, <3>1, <3>2, <3>3, <3>4 DEF OwnRecords
  <2>2. CASE q # r
    BY <1>1, <1>2, <2>2 DEF OwnRecords
  <2> QED BY <2>1, <2>2
<1> QED BY <1>1, <1>2, <1>4, <1>5

LEMMA DependApart ==
  ASSUME ApartInv, ~clashed, NEW t \in Threads, Building(t), Top(t).cal # None,
         Top(t).todo # <<>>, NEW dep \in Objects, tree[dep] = opened[t], Depend(t, dep)
  PROVE  Alone' /\ OwnTree'
<1>1. TypeOK /\ Nested /\ pc[t] \in Inside /\ pc[t] # "idle"
  BY DEF ApartInv, BuildInv, ScopeInv, Building, Inside
<1>2. /\ stack[t] # <<>> /\ Len(stack[t]) \in Nat \ {0} /\ Top(t) = stack[t][Len(stack[t])]
      /\ Len(stack[t]) \in 1..Len(stack[t])
  <2>1. stack[t] # <<>> /\ Len(stack[t]) \in Nat \ {0} /\ Top(t) = stack[t][Len(stack[t])]
    BY <1>1, TopNested
  <2> QED BY <2>1
<1> DEFINE cal == Top(t).cal
           f == [cal |-> cal, todo |-> Tail(Top(t).todo), child |-> None]
           n == Len(stack[t])
<1>3. /\ cal \in Objects /\ Objects' = Objects
      /\ Len(uses'[cal]) = Len(uses[cal]) + 1 /\ uses'[cal][Len(uses[cal]) + 1] = dep
      /\ \A i \in 1..Len(uses[cal]) : uses'[cal][i] = uses[cal][i]
      /\ \A p \in Objects \ {cal} : uses'[p] = uses[p]
      /\ TopChanged(t, f) /\ OthersKeep(t)
      /\ \E r \in Registries' : Filed(r, cal, dep)
                                /\ (scope.registry # None /\ Mine(t) => r = scope.registry)
  BY <1>1, <1>2, DependEffect
<1>4. /\ scope.registry = opened[t] /\ opened[t] \in Registries /\ Mine(t)
      /\ \A u \in Threads \ {t} : stack[u] = <<>>
  BY <1>1, AloneFacts DEF Mine
<1>5. Filed(opened[t], cal, dep)
  BY <1>3, <1>4 DEF None, Registries
<1>6. /\ \A o \in Objects : OwnHome(o) /\ OwnUses(o)
      /\ \A k \in 1..n : OwnBuild(t, stack[t][k])
  BY OwnTreeParts DEF ApartInv
<1>7. tree[cal] = opened[t] /\ tree' = tree /\ opened' = opened /\ clashed' = clashed
      /\ pc' = pc /\ scope' = scope
  BY <1>2, <1>6 DEF OwnBuild, Depend, objects
<1>8. /\ Registries' = Registries
      /\ \A o \in Objects : OwnHome(o)'
      /\ \A r \in Registries : OwnRecords(r)'
  BY <1>1, <1>3, <1>5, <1>7, FiledApart
<1>9. ASSUME NEW o \in Objects PROVE OwnUses(o)'
  <2>1. CASE o = cal
    <3> DEFINE m == Len(uses[cal])
    <3>1. m \in Nat
      BY <1>1, <1>3 DEF TypeOK
    <3>2. Len(uses'[cal]) = m + 1 /\ uses'[cal][m + 1] = dep
          /\ \A i \in 1..m : uses'[cal][i] = uses[cal][i] /\ tree[uses[cal][i]] = tree[cal]
      BY <1>3, <1>6 DEF OwnUses
    <3> HIDE DEF m, cal
    <3>3. \A i \in 1..(m + 1) : i = m + 1 \/ i \in 1..m
      BY <3>1
    <3> QED BY <1>7, <2>1, <3>2, <3>3 DEF OwnUses
  <2>2. CASE o # cal
    BY <1>3, <1>6, <1>7, <2>2 DEF OwnUses
  <2> QED BY <2>1, <2>2
<1>10. ASSUME NEW u \in Threads, NEW k \in 1..Len(stack'[u]) PROVE OwnBuild(u, stack'[u][k])
  <2>1. CASE u = t
    <3>1. f.cal = cal /\ f.child = None
      OBVIOUS
    <3> HIDE DEF f, n, cal
    <3>2. Len(stack'[t]) = n /\ stack'[t][n] = f /\ \A i \in 1..(n - 1) : stack'[t][i] = stack[t][i]
      BY <1>3 DEF TopChanged, n
    <3>3. k = n \/ (k \in 1..(n - 1) /\ k \in 1..n)
      BY <1>2, <2>1, <3>2 DEF n
    <3>4. CASE k = n
      BY <1>7, <2>1, <3>1, <3>2, <3>4 DEF OwnBuild
    <3>5. CASE k # n
      BY <1>6, <1>7, <2>1, <3>2, <3>3, <3>5 DEF OwnBuild
    <3> QED BY <3>4, <3>5
  <2>2. CASE u # t
    <3>1. stack'[u] = <<>>
      BY <1>3, <1>4, <2>2 DEF OthersKeep
    <3>2. Len(<<>>) = 0 /\ 1..0 = {}
      OBVIOUS
    <3> QED BY <3>1, <3>2
  <2> QED BY <2>1, <2>2
<1>11. OwnTree'
  <2>1. Objects' = Objects /\ tree' = tree /\ opened' = opened
    BY <1>3, <1>7
  <2> QED BY ONLY <1>8, <1>9, <1>10, <2>1 DEF OwnTree, OwnHome, OwnUses, OwnRecords, OwnBuild
<1>12. Alone'
  BY <1>1, <1>3, <1>4, <1>7, AloneKept DEF Mine
<1> QED BY <1>11, <1>12

(* A build of t changes, or is new; the others have none. *)
LEMMA OwnTreeKept ==
  ASSUME ApartInv, ~clashed, NEW t \in Threads, pc[t] # "idle", OthersKeep(t),
         UNCHANGED <<class, tree, opened, uses>>, Registries' = Registries,
         \A o \in Objects : OwnHome(o)', \A r \in Registries : OwnRecords(r)',
         \A k \in 1..Len(stack'[t]) : OwnBuild(t, stack'[t][k])
  PROVE  OwnTree'
<1>1. \A u \in Threads \ {t} : stack'[u] = <<>>
  BY AloneFacts DEF OthersKeep
<1>2. Len(<<>>) = 0 /\ 1..0 = {}
  OBVIOUS
<1>3. ASSUME NEW u \in Threads, NEW k \in 1..Len(stack'[u]) PROVE OwnBuild(u, stack'[u][k])
  <2>1. CASE u = t
    BY <2>1
  <2>2. CASE u # t
    BY <1>1, <1>2, <2>2
  <2> QED BY <2>1, <2>2
<1>4. \A o \in Objects : OwnUses(o)
  BY OwnTreeParts DEF ApartInv
<1>5. Objects' = Objects
  BY DEF Objects
<1> QED BY <1>3, <1>4, <1>5 DEF OwnTree, OwnHome, OwnUses, OwnRecords, OwnBuild

(* One tree's records stay as they are. *)
LEMMA RecordsKept ==
  ASSUME ApartInv, ~clashed, UNCHANGED <<edges, home, class, tree>>
  PROVE  /\ Registries' = Registries
         /\ \A o \in Objects : OwnHome(o)'
         /\ \A r \in Registries : OwnRecords(r)'
<1>1. \A o \in Objects : OwnHome(o)
  BY OwnTreeParts DEF ApartInv
<1>2. \A r \in Registries : OwnRecords(r)
  BY OwnTreeParts DEF ApartInv
<1> QED BY <1>1, <1>2 DEF OwnHome, OwnRecords, Registries

LEMMA AttachedApart ==
  ASSUME ApartInv, ~clashed, NEW t \in Threads, Attached(t)
  PROVE  Alone' /\ OwnTree'
<1> USE DEF Attached
<1>1. BuildInv /\ ScopeInv /\ TypeOK /\ pc[t] \in Inside /\ pc[t] # "idle"
  BY DEF ApartInv, BuildInv, ScopeInv, Building, Inside
<1> DEFINE f == [cal |-> None, todo |-> Tail(Top(t).todo), child |-> None]
           n == Len(stack[t])
<1>2. TopChanged(t, f) /\ OthersKeep(t) /\ pc' = pc /\ f.cal = None /\ f.child = None
  BY <1>1, TopWaiting, AttachedEffect
<1> HIDE DEF f
<1>3. n \in Nat /\ \A k \in 1..n : OwnBuild(t, stack[t][k])
  BY <1>1, OwnTreeParts DEF ApartInv, TypeOK
<1>4. /\ Len(stack'[t]) = n /\ stack'[t][n] = f
      /\ \A i \in 1..(n - 1) : stack'[t][i] = stack[t][i]
  BY <1>2 DEF TopChanged
<1> HIDE DEF n
<1>5. ASSUME NEW k \in 1..n PROVE OwnBuild(t, stack'[t][k])
  <2>1. CASE k = n
    BY <1>2, <1>4, <2>1 DEF OwnBuild
  <2>2. CASE k # n
    <3>1. k \in 1..(n - 1)
      BY <1>3, <2>2
    <3> QED BY <1>3, <1>4, <3>1
  <2> QED BY <2>1, <2>2
<1>6. OwnTree'
  <2>1. UNCHANGED <<edges, home, class, tree>> /\ UNCHANGED <<class, tree, opened, uses>>
    BY DEF records, objects
  <2> QED BY <1>1, <1>2, <1>4, <1>5, <2>1, RecordsKept, OwnTreeKept
<1>7. Alone'
  BY <1>1, <1>2, AloneFacts, AloneKept
<1> QED BY <1>6, <1>7

LEMMA RegisterApart ==
  ASSUME ApartInv, ~clashed, NEW t \in Threads, Register(t)
  PROVE  Alone' /\ OwnTree'
<1>1. /\ BuildInv /\ ScopeInv /\ TypeOK /\ pc[t] \in Inside /\ pc[t] # "idle"
      /\ UNCHANGED <<class, tree, opened, uses>>
  BY DEF ApartInv, BuildInv, ScopeInv, Building, Inside, Register, objects
<1> DEFINE n == Len(stack[t])
           cal == Top(t).cal
<1>2. /\ n >= 2 /\ cal \in Objects /\ Returned(t) /\ OthersKeep(t) /\ pc' = pc
      /\ scope'.registry = scope.registry /\ scope'.thread = scope.thread
      /\ \E r \in Registries' : /\ Filed(r, cal, None)
                                /\ scope.registry # None /\ Mine(t) => r = scope.registry
  BY <1>1, RegisterEffect
<1>3. /\ n \in Nat /\ stack[t] \in Seq(Frame) /\ cal = stack[t][n].cal
      /\ \A k \in 1..n : OwnBuild(t, stack[t][k])
  BY <1>1, TopNested, OwnTreeParts DEF ApartInv, TypeOK, ScopeInv
<1>4. scope.registry = opened[t] /\ scope.registry # None /\ Mine(t)
  BY <1>1, AloneFacts DEF Mine, None, Registries
<1>5. tree[cal] = opened[t]
  <2>1. n \in 1..n
    <3> HIDE DEF n
    <3> QED BY <1>2, <1>3
  <2>2. cal # None
    BY <1>2 DEF Objects, None
  <2> QED BY <1>3, <2>1, <2>2 DEF OwnBuild
<1>6. /\ Registries' = Registries
      /\ \A o \in Objects : OwnHome(o)'
      /\ \A r \in Registries : OwnRecords(r)'
  <2>1. Filed(opened[t], cal, None)
    BY <1>2, <1>4
  <2> HIDE DEF cal
  <2> QED BY <1>1, <1>2, <1>5, <2>1, FiledApart
<1>7. /\ Len(stack'[t]) = n - 1
      /\ \A i \in 1..(n - 2) : stack'[t][i] = stack[t][i]
      /\ stack'[t][n - 1].cal = stack[t][n - 1].cal /\ stack'[t][n - 1].child = cal
  <2>1. n - 1 \in 1..n
    <3> HIDE DEF n
    <3> QED BY <1>2, <1>3
  <2>2. stack[t][n - 1] \in Frame
    BY <1>3, <2>1, ElementOfSeq
  <2> QED BY <1>2, <1>3, <2>2 DEF Returned, Frame
<1> HIDE DEF n, cal
<1>8. ASSUME NEW k \in 1..(n - 1) PROVE OwnBuild(t, stack'[t][k])
  <2>1. k \in 1..n /\ (k = n - 1 \/ k \in 1..(n - 2))
    BY <1>3
  <2>2. CASE k = n - 1
    BY <1>3, <1>5, <1>7, <2>1, <2>2 DEF OwnBuild
  <2>3. CASE k \in 1..(n - 2)
    BY <1>3, <1>7, <2>1, <2>3
  <2> QED BY <2>1, <2>2, <2>3
<1>9. OwnTree'
  BY <1>1, <1>2, <1>6, <1>7, <1>8, OwnTreeKept
<1>10. Alone'
  BY <1>1, <1>2, <1>4, AloneKept DEF Mine
<1> QED BY <1>9, <1>10

LEMMA EndApart ==
  ASSUME ApartInv, ~clashed, NEW t \in Threads, Leave(t) \/ Unwind(t)
  PROVE  Alone' /\ OwnTree'
<1>1. /\ BuildInv /\ ScopeInv /\ TypeOK /\ UNCHANGED <<edges, home, class, tree>>
      /\ UNCHANGED <<class, tree, opened, uses>>
  BY DEF ApartInv, BuildInv, ScopeInv, Leave, Unwind, objects, records
<1> DEFINE n == Len(stack[t])
<1>2. /\ Popped(t) /\ OthersKeep(t) /\ n \in Nat \ {0} /\ pc[t] \in Inside /\ pc[t] # "idle"
      /\ pc'[t] \in {"raising", "idle"}
      /\ n > 1 => scope.registry = scope'.registry /\ scope.thread = scope'.thread
      /\ n = 1 => pc'[t] = "idle"
  BY <1>1, EndEffect DEF Inside
<1>3. \A k \in 1..n : OwnBuild(t, stack[t][k])
  BY OwnTreeParts DEF ApartInv
<1>4. Len(stack'[t]) = n - 1 /\ \A i \in 1..(n - 1) : stack'[t][i] = stack[t][i]
  BY <1>2 DEF Popped
<1>5. scope.registry = opened[t] /\ scope.thread = t
  BY <1>2, AloneFacts
<1> HIDE DEF n
<1>6. \A k \in 1..(n - 1) : k \in 1..n
  BY <1>2
<1>7. OwnTree'
  BY <1>1, <1>2, <1>3, <1>4, <1>6, RecordsKept, OwnTreeKept
<1>8. Alone'
  <2>1. pc'[t] # "idle" => n > 1
    BY <1>2
  <2> QED BY <1>1, <1>2, <1>5, <2>1, AloneKept DEF Inside
<1> QED BY <1>7, <1>8

(* Nobody is in the entry, and nobody inside: the scope's depth is 0. *)
LEMMA TestDepthApart ==
  ASSUME ApartInv, NEW t \in Threads, TestDepth(t), ~clashed'
  PROVE  Alone' /\ OwnTree'
<1>1. /\ BuildInv /\ ScopeInv /\ TypeOK /\ Nested /\ Counted /\ ~clashed
      /\ UNCHANGED <<edges, home, class, tree>> /\ opened' = opened /\ uses' = uses
      /\ \A u \in Threads : pc[u] \notin {"opening", "claiming"}
      /\ scope.depth = 0
  BY DEF ApartInv, BuildInv, ScopeInv, TestDepth, objects, records
<1>2. \A u \in Threads : pc[u] = "idle" /\ stack[u] = <<>>
  <2>1. Builds = {}
    BY <1>1, FS_EmptySet DEF Counted
  <2>2. ASSUME NEW u \in Threads, pc[u] \in Inside PROVE FALSE
    <3>1. stack[u] # <<>> /\ Len(stack[u]) \in Nat \ {0}
      BY <1>1, <2>2, TopNested DEF Inside
    <3>2. <<u, Len(stack[u])>> \in Builds
      BY <2>2, <3>1 DEF Builds
    <3> QED BY <2>1, <3>2
  <2>3. \A u \in Threads : pc[u] = "idle"
    BY <1>1, <2>2 DEF TypeOK, Inside
  <2> QED BY <1>1, <2>3 DEF Nested
<1>3. /\ Len(stack'[t]) = 1 /\ OthersKeep(t) /\ pc'[t] = "opening"
      /\ stack'[t][1].cal = None /\ stack'[t][1].child = None
  BY <1>1, TestDepthEffect
<1>4. \A u \in Threads \ {t} : pc'[u] = "idle" /\ stack'[u] = <<>>
  BY <1>2, <1>3 DEF OthersKeep
<1>5. Alone'
  BY <1>3, <1>4 DEF Alone, Inside
<1>6. ASSUME NEW u \in Threads, NEW k \in 1..Len(stack'[u]) PROVE OwnBuild(u, stack'[u][k])
  <2>1. CASE u = t
    <3>1. k = 1
      <4>1. \A j \in 1..1 : j = 1
        OBVIOUS
      <4> QED BY <1>3, <2>1, <4>1
    <3> QED BY <1>3, <2>1, <3>1 DEF OwnBuild
  <2>2. CASE u # t
    <3>1. Len(<<>>) = 0 /\ 1..0 = {}
      OBVIOUS
    <3> QED BY <1>4, <2>2, <3>1
  <2> QED BY <2>1, <2>2
<1>7. OwnTree'
  <2>1. \A o \in Objects : OwnHome(o)' /\ OwnUses(o)
    BY <1>1, RecordsKept, OwnTreeParts DEF ApartInv
  <2>2. \A r \in Registries : OwnRecords(r)'
    BY <1>1, RecordsKept
  <2>3. Objects' = Objects /\ Registries' = Registries
    BY <1>1 DEF Objects, Registries
  <2> QED BY <1>1, <1>6, <2>1, <2>2, <2>3 DEF OwnTree, OwnHome, OwnUses, OwnRecords, OwnBuild
<1> QED BY <1>5, <1>7

LEMMA OpenApart ==
  ASSUME ApartInv, ~clashed, NEW t \in Threads, OpenRegistry(t)
  PROVE  Alone' /\ OwnTree'
<1> DEFINE r == Len(edges) + 1
<1>1. /\ BuildInv /\ ScopeInv /\ TypeOK /\ Nested /\ pc[t] = "opening" /\ pc[t] # "idle"
      /\ UNCHANGED <<class, tree, home, uses, stack>>
  BY DEF ApartInv, BuildInv, ScopeInv, OpenRegistry, objects
<1>2. /\ Registries' = Registries \cup {r} /\ edges'[r] = <<>>
      /\ \A q \in Registries : edges'[q] = edges[q]
      /\ scope'.registry = r /\ opened'[t] = r /\ pc'[t] = "claiming" /\ OthersKeep(t)
  BY <1>1, OpenEffect
<1>3. \A u \in Threads \ {t} : pc'[u] = "idle" /\ stack'[u] = <<>>
  BY <1>1, <1>2, AloneFacts DEF OthersKeep
<1>4. Alone'
  BY <1>2, <1>3 DEF Alone, Inside
<1> HIDE DEF r
<1>5. /\ Len(stack[t]) = 1 /\ stack[t][1].cal = None /\ stack[t][1].child = None
  BY <1>1 DEF Nested
<1>6. ASSUME NEW u \in Threads, NEW k \in 1..Len(stack'[u])
      PROVE  stack'[u][k].cal = None /\ stack'[u][k].child = None
  <2>1. CASE u = t
    <3>1. k = 1
      <4>1. \A j \in 1..1 : j = 1
        OBVIOUS
      <4> QED BY <1>1, <1>5, <2>1, <4>1
    <3> QED BY <1>1, <1>5, <2>1, <3>1
  <2>2. CASE u # t
    <3>1. Len(<<>>) = 0 /\ 1..0 = {}
      OBVIOUS
    <3> QED BY <1>3, <2>2, <3>1
  <2> QED BY <2>1, <2>2
<1>7. ASSUME NEW q \in Registries' PROVE OwnRecords(q)'
  <2>1. CASE q = r
    <3>1. Len(<<>>) = 0 /\ 1..0 = {}
      OBVIOUS
    <3> QED BY <1>2, <2>1, <3>1 DEF OwnRecords
  <2>2. CASE q # r
    <3>1. q \in Registries /\ OwnRecords(q)
      BY <1>2, <2>2, OwnTreeParts DEF ApartInv
    <3> QED BY <1>1, <1>2, <3>1 DEF OwnRecords
  <2> QED BY <2>1, <2>2
<1>8. \A o \in Objects : OwnHome(o)' /\ OwnUses(o)'
  <2>1. \A o \in Objects : OwnHome(o) /\ OwnUses(o)
    BY OwnTreeParts DEF ApartInv
  <2> QED BY <1>1, <2>1 DEF OwnHome, OwnUses
<1>9. OwnTree'
  <2>1. Objects' = Objects
    BY <1>1 DEF Objects
  <2> QED BY <1>6, <1>7, <1>8, <2>1 DEF OwnTree, OwnHome, OwnUses, OwnRecords
<1> QED BY <1>4, <1>9

LEMMA ClaimApart ==
  ASSUME ApartInv, ~clashed, NEW t \in Threads, Claim(t)
  PROVE  Alone' /\ OwnTree'
<1>1. /\ BuildInv /\ ScopeInv /\ TypeOK /\ pc[t] = "claiming" /\ pc[t] # "idle"
      /\ UNCHANGED <<edges, home, class, tree>> /\ UNCHANGED <<class, tree, opened, uses>>
  BY DEF ApartInv, BuildInv, ScopeInv, Claim, objects, records
<1>2. /\ pc'[t] = "building" /\ OthersKeep(t) /\ stack' = stack
      /\ scope'.thread = t /\ scope'.registry = scope.registry
  BY <1>1, ClaimEffect
<1>3. scope.registry = opened[t]
  BY <1>1, AloneFacts
<1>4. \A k \in 1..Len(stack'[t]) : OwnBuild(t, stack'[t][k])
  BY <1>2, OwnTreeParts DEF ApartInv
<1>5. OwnTree'
  BY <1>1, <1>2, <1>4, RecordsKept, OwnTreeKept
<1>6. Alone'
  BY <1>1, <1>2, <1>3, AloneKept
<1> QED BY <1>5, <1>6

LEMMA RaiseApart ==
  ASSUME ApartInv, ~clashed, NEW t \in Threads, Raise(t)
  PROVE  Alone' /\ OwnTree'
<1>1. /\ BuildInv /\ ScopeInv /\ pc[t] \in Inside /\ pc[t] # "idle" /\ pc'[t] = "raising" /\ OthersKeep(t)
      /\ UNCHANGED <<edges, home, class, tree>> /\ UNCHANGED <<class, tree, opened, uses>>
      /\ scope' = scope /\ stack' = stack
  BY RaiseEffect DEF ApartInv, BuildInv, ScopeInv, Raise, objects, records, Inside
<1>2. scope.registry = opened[t] /\ scope.thread = t
  BY <1>1, AloneFacts
<1>3. \A k \in 1..Len(stack'[t]) : OwnBuild(t, stack'[t][k])
  BY <1>1, OwnTreeParts DEF ApartInv
<1>4. OwnTree'
  BY <1>1, <1>3, RecordsKept, OwnTreeKept
<1>5. Alone'
  BY <1>1, <1>2, AloneKept
<1> QED BY <1>4, <1>5

LEMMA ConstructApart ==
  ASSUME ApartInv, ~clashed, NEW t \in Threads, Construct(t)
  PROVE  Alone' /\ OwnTree'
<1> DEFINE o == Len(class) + 1
           n == Len(stack[t])
           todo == Needs[Head(Top(t).todo).class]
           f == [cal |-> o, todo |-> todo, child |-> None]
<1>1. /\ BuildInv /\ ScopeInv /\ TypeOK /\ pc[t] \in Inside /\ pc[t] # "idle" /\ stack[t] # <<>>
      /\ edges' = edges /\ opened' = opened /\ pc' = pc
      /\ scope' = [scope EXCEPT !.depth = @ + 1]
  BY ConstructScope DEF ApartInv, BuildInv, ScopeInv, Construct, Inside
<1>2. /\ Objects' = Objects \cup {o} /\ o \notin Objects /\ o # None
      /\ home'[o] = None /\ uses'[o] = <<>> /\ tree'[o] = opened[t]
      /\ \A p \in Objects : home'[p] = home[p] /\ uses'[p] = uses[p] /\ tree'[p] = tree[p]
      /\ Pushed(t, f) /\ OthersKeep(t)
  BY <1>1, ConstructEffect
<1>3. /\ \A u \in Threads \ {t} : stack'[u] = <<>>
      /\ scope.registry = opened[t] /\ scope.thread = t
  BY <1>1, <1>2, AloneFacts DEF OthersKeep
<1>4. Alone'
  <2>1. scope'.registry = scope.registry /\ scope'.thread = scope.thread
    BY <1>1 DEF TypeOK
  <2> QED BY <1>1, <1>2, <1>3, <2>1, AloneKept
<1>5. f.cal = o /\ f.child = None
  OBVIOUS
<1> HIDE DEF f, o
<1>6. /\ Len(stack'[t]) = n + 1 /\ stack'[t][n + 1] = f /\ n \in Nat
      /\ \A i \in 1..n : stack'[t][i] = stack[t][i] /\ stack[t][i] \in Frame
  BY <1>1, <1>2, ElementOfSeq DEF Pushed, TypeOK
<1>7. Registries' = Registries
  BY <1>1 DEF Registries
<1>8. \A p \in Objects : OwnHome(p) /\ OwnUses(p)
  BY OwnTreeParts DEF ApartInv
<1>9. \A r \in Registries : OwnRecords(r)
  BY OwnTreeParts DEF ApartInv
<1>10. \A k \in 1..n : OwnBuild(t, stack[t][k])
  BY OwnTreeParts DEF ApartInv
<1> HIDE DEF n
<1>11. ASSUME NEW p \in Objects' PROVE OwnHome(p)' /\ OwnUses(p)'
  <2>1. CASE p = o
    <3>1. Len(<<>>) = 0 /\ 1..0 = {}
      OBVIOUS
    <3> QED BY <1>2, <2>1, <3>1 DEF OwnHome, OwnUses
  <2>2. CASE p # o
    <3>1. p \in Objects /\ OwnHome(p) /\ OwnUses(p)
      BY <1>2, <1>8, <2>2
    <3>2. uses[p] \in Seq(Objects)
      BY <1>1, <3>1 DEF TypeOK
    <3>3. \A i \in 1..Len(uses[p]) : uses[p][i] \in Objects
      BY <3>2, ElementOfSeq
    <3> QED BY <1>2, <3>1, <3>3 DEF OwnHome, OwnUses
  <2> QED BY <2>1, <2>2
<1>12. ASSUME NEW r \in Registries PROVE OwnRecords(r)'
  <2>1. edges[r] \in Seq(Objects \X ({None} \cup Objects)) /\ edges'[r] = edges[r]
    BY <1>1, ElementOfSeq DEF TypeOK, Registries
  <2>2. \A i \in 1..Len(edges[r]) : edges[r][i] \in Objects \X ({None} \cup Objects)
    BY <2>1, ElementOfSeq
  <2>3. \A i \in 1..Len(edges[r]) : edges[r][i][1] \in Objects
    BY <2>2
  <2> QED BY <1>2, <1>9, <2>1, <2>3 DEF OwnRecords
<1>13. ASSUME NEW u \in Threads, NEW k \in 1..Len(stack'[u])
       PROVE  /\ stack'[u][k].cal # None => tree'[stack'[u][k].cal] = opened[u]
              /\ stack'[u][k].child # None => tree'[stack'[u][k].child] = opened[u]
  <2>1. CASE u = t /\ k = n + 1
    BY <1>2, <1>5, <1>6, <2>1
  <2>2. CASE u = t /\ k # n + 1
    <3>1. k \in 1..n
      BY <1>6, <2>2
    <3>2. stack'[t][k] = stack[t][k] /\ stack[t][k] \in Frame /\ OwnBuild(t, stack[t][k])
      BY <1>6, <1>10, <3>1
    <3>3. stack[t][k].cal \in {None} \cup Objects /\ stack[t][k].child \in {None} \cup Objects
      BY <3>2 DEF Frame
    <3> QED BY <1>2, <2>2, <3>2, <3>3 DEF OwnBuild
  <2>3. CASE u # t
    <3>1. Len(<<>>) = 0 /\ 1..0 = {}
      OBVIOUS
    <3> QED BY <1>3, <2>3, <3>1
  <2> QED BY <2>1, <2>2, <2>3
<1>14. OwnTree'
  BY <1>1, <1>7, <1>11, <1>12, <1>13 DEF OwnTree, OwnHome, OwnUses, OwnRecords
<1> QED BY <1>4, <1>14

LEMMA WireApart ==
  ASSUME ApartInv, ~clashed, NEW t \in Threads, Wire(t)
  PROVE  Alone' /\ OwnTree'
<1>1. BuildInv /\ ScopeInv /\ TypeOK /\ Nested /\ Top(t).todo # <<>>
  BY TopWaiting DEF ApartInv, BuildInv, ScopeInv
<1>2. /\ pc[t] = "building" /\ Building(t) /\ Top(t).cal # None /\ stack[t] # <<>>
      /\ Top(t).child \in Objects /\ Depend(t, Top(t).child) /\ Top(t).child # None
  BY <1>1, WireFacts DEF Wire
<1>3. tree[Top(t).child] = opened[t]
  <2>1. Len(stack[t]) \in 1..Len(stack[t]) /\ Top(t) = stack[t][Len(stack[t])]
    BY <1>1, <1>2, TopNested
  <2>2. OwnBuild(t, Top(t))
    BY <2>1, OwnTreeParts DEF ApartInv
  <2> QED BY <1>2, <2>2 DEF OwnBuild
<1> QED BY <1>1, <1>2, <1>3, DependApart

LEMMA ShareApart ==
  ASSUME ApartInv, ~clashed, NEW t \in Threads, Share(t)
  PROVE  Alone' /\ OwnTree'
<1>1. BuildInv /\ ScopeInv /\ TypeOK
  BY DEF ApartInv, BuildInv, ScopeInv
<1>2. /\ stack[t] # <<>> /\ pc[t] \in Inside /\ pc[t] # "idle" /\ Top(t).todo # <<>>
      /\ Top(t).cal # None /\ Building(t) /\ scope.registry \in Registries
      /\ Found(t) \in Objects /\ Found(t) # None /\ Depend(t, Found(t))
  BY <1>1, ShareFacts
<1>3. scope.registry = opened[t]
  BY <1>2, AloneFacts
<1>4. tree[Found(t)] = opened[t]
  <2>1. \E i \in 1..Len(edges[scope.registry]) : edges[scope.registry][i][1] = Found(t)
    BY <1>1, <1>2, FoundFacts DEF Found
  <2>2. OwnRecords(scope.registry)
    BY <1>2, OwnTreeParts DEF ApartInv
  <2> QED BY <1>3, <2>1, <2>2 DEF OwnRecords
<1> QED BY <1>2, <1>4, DependApart

LEMMA ApartInvStep == ApartInv /\ [Next]_vars => ApartInv'
<1> SUFFICES ASSUME ApartInv, [Next]_vars PROVE ApartInv'
  OBVIOUS
<1>1. BuildInv'
  BY BuildInvStep DEF ApartInv
<1>2. CASE clashed'
  BY <1>1, <1>2 DEF ApartInv, Alone, OwnTree
<1>3. ASSUME ~clashed', NEW t \in Threads, Step(t) PROVE Alone' /\ OwnTree'
  <2>1. CASE TestDepth(t)
    BY <1>3, <2>1, TestDepthApart
  <2>2. ASSUME Step(t), ~TestDepth(t) PROVE ~clashed
    BY <1>3, <2>2 DEF Step, OpenRegistry, Claim, Construct, Share, Wire, Depend, Attached,
                      Register, Leave, Raise, Unwind
  <2>3. CASE OpenRegistry(t)
    BY <1>3, <2>1, <2>2, <2>3, OpenApart
  <2>4. CASE Claim(t)
    BY <1>3, <2>1, <2>2, <2>4, ClaimApart
  <2>5. CASE Construct(t)
    BY <1>3, <2>1, <2>2, <2>5, ConstructApart
  <2>6. CASE Share(t)
    BY <1>3, <2>1, <2>2, <2>6, ShareApart
  <2>7. CASE Wire(t)
    BY <1>3, <2>1, <2>2, <2>7, WireApart
  <2>8. CASE Attached(t)
    BY <1>3, <2>1, <2>2, <2>8, AttachedApart
  <2>9. CASE Register(t)
    BY <1>3, <2>1, <2>2, <2>9, RegisterApart
  <2>10. CASE (Leave(t) \/ Unwind(t))
    BY <1>3, <2>1, <2>2, <2>10, EndApart
  <2>11. CASE Raise(t)
    BY <1>3, <2>1, <2>2, <2>11, RaiseApart
  <2> QED BY <1>3, <2>1, <2>3, <2>4, <2>5, <2>6, <2>7, <2>8, <2>9, <2>10, <2>11 DEF Step
<1>4. CASE (UNCHANGED vars \/ \E r \in Registries : ReadGraph(r))
  <2>1. UNCHANGED <<scope, edges, class, home, uses, stack, pc, opened, tree, clashed>>
    BY <1>4 DEF vars, ReadGraph, objects
  <2>2. Objects' = Objects /\ Registries' = Registries
    BY <2>1 DEF Objects, Registries
  <2>3. Alone' /\ OwnTree'
    BY <2>1, <2>2 DEF ApartInv, Alone, OwnTree
  <2> QED BY <1>1, <2>3 DEF ApartInv
<1>5. CASE ~clashed' /\ \E t \in Threads : Step(t)
  BY <1>1, <1>3, <1>5 DEF ApartInv
<1> QED BY <1>2, <1>4, <1>5 DEF Next

(* Unless two threads were in the entry of building() at the same time, no *)
(* build uses, or finds on record, what another build has made (dag.py     *)
(* 116-118): sharing stops at the border of the tree.                      *)
THEOREM TreesApartHolds == Spec => []TreesApart
<1>1. Init => ApartInv
  <2> SUFFICES ASSUME Init PROVE ApartInv
    OBVIOUS
  <2>1. Objects = {} /\ Registries = {}
    BY DEF Init, Objects, Registries
  <2>2. Alone /\ OwnTree
    BY <2>1 DEF Init, Alone, OwnTree, Inside
  <2> QED BY <2>2, BuildInvInit DEF ApartInv
<1>2. ApartInv => TreesApart
  BY DEF ApartInv, OwnTree, TreesApart
<1> QED BY <1>1, <1>2, ApartInvStep, PTL DEF Spec

-------------------------------------------------------------------------------
(* Dependencies are as declared. *)

(* The builds of a calibration go on without a dependency, or end. *)
LEMMA DeclaredKept ==
  ASSUME Declared, UNCHANGED <<class, uses>>, NEW t \in Threads, OthersKeep(t),
         \A k \in 2..Len(stack'[t]) : /\ k \in 2..Len(stack[t])
                                      /\ stack'[t][k].cal = stack[t][k].cal
                                      /\ stack'[t][k].todo = stack[t][k].todo,
         \A k \in 1..Len(stack'[t]) :
           /\ DeclChild(stack'[t][k])
           /\ k < Len(stack'[t]) => DeclNext(stack'[t][k], stack'[t][k + 1])
  PROVE  Declared'
<1>1. \A u \in Threads \ {t} : stack'[u] = stack[u]
  BY DEF OthersKeep
<1>2. Objects' = Objects
  BY DEF Objects
<1>3. ASSUME NEW k \in 2..Len(stack'[t]) PROVE DeclBuild(stack'[t][k])
  <2>1. DeclBuild(stack[t][k]) /\ stack'[t][k].cal = stack[t][k].cal /\ stack'[t][k].todo = stack[t][k].todo
    BY DEF Declared
  <2> QED BY <2>1 DEF DeclBuild
<1>4. ASSUME NEW u \in Threads
      PROVE  /\ \A k \in 2..Len(stack'[u]) : DeclBuild(stack'[u][k])
             /\ \A k \in 1..Len(stack'[u]) :
                  /\ DeclChild(stack'[u][k])
                  /\ k < Len(stack'[u]) => DeclNext(stack'[u][k], stack'[u][k + 1])
  <2>1. CASE u = t
    BY <1>3, <2>1
  <2>2. CASE u # t
    BY <1>1, <2>2 DEF Declared
  <2> QED BY <2>1, <2>2
<1>5. \A o \in Objects : DeclUses(o)
  BY DEF Declared
<1> QED BY <1>2, <1>4, <1>5 DEF Declared, DeclUses, DeclBuild, DeclChild, DeclNext

LEMMA DependDeclared ==
  ASSUME BuildInv, Declared, NEW t \in Threads, Building(t), Top(t).cal # None,
         Top(t).todo # <<>>, NEW dep \in Objects, class[dep] = Head(Top(t).todo).class,
         Depend(t, dep)
  PROVE  Declared'
<1>1. TypeOK /\ Nested /\ pc[t] # "idle" /\ UNCHANGED class
  BY DEF BuildInv, ScopeInv, Building, Depend, objects
<1> DEFINE cal == Top(t).cal
           n == Len(stack[t])
           todo == Top(t).todo
           f == [cal |-> cal, todo |-> Tail(todo), child |-> None]
           m == Len(uses[cal])
<1>2. stack[t] # <<>> /\ n \in Nat \ {0} /\ Top(t) = stack[t][n] /\ n # 1
  BY <1>1, TopNested
<1>3. /\ cal \in Objects /\ Objects' = Objects
      /\ Len(uses'[cal]) = m + 1 /\ uses'[cal][m + 1] = dep
      /\ \A i \in 1..m : uses'[cal][i] = uses[cal][i]
      /\ \A p \in Objects \ {cal} : uses'[p] = uses[p]
      /\ TopChanged(t, f) /\ OthersKeep(t)
  BY <1>1, <1>2, DependEffect
<1>4. /\ Tail(todo) \in Seq(Need) /\ Len(Tail(todo)) = Len(todo) - 1 /\ Len(todo) \in Nat \ {0}
      /\ \A i \in 1..(Len(todo) - 1) : Tail(todo)[i] = todo[i + 1]
      /\ Head(todo) = todo[1] /\ m \in Nat
  <2>1. todo \in Seq(Need)
    BY <1>1, <1>2, TopFacts
  <2>2. Len(todo) \in Nat \ {0}
    BY <2>1, EmptySeq
  <2> QED BY <1>1, <1>3, <2>1, <2>2, TailFacts, SMTT(20) DEF TypeOK
<1>5. f.cal = cal /\ f.todo = Tail(todo) /\ f.child = None
  OBVIOUS
<1>6. /\ Len(stack'[t]) = n /\ stack'[t][n] = f
      /\ \A k \in 1..(n - 1) : stack'[t][k] = stack[t][k]
      /\ \A u \in Threads \ {t} : stack'[u] = stack[u]
  BY <1>3 DEF TopChanged, OthersKeep
<1>7. stack[t][n].cal = cal /\ n \in 2..n /\ n \in 1..n
  <2>1. n \in 2..n /\ n \in 1..n
    <3> HIDE DEF n
    <3> QED BY <1>2
  <2> QED BY <1>2, <2>1
<1>8. /\ \A o \in Objects : DeclUses(o)
      /\ \A u \in Threads : \A k \in 2..Len(stack[u]) : DeclBuild(stack[u][k])
      /\ \A u \in Threads : \A k \in 1..Len(stack[u]) : DeclChild(stack[u][k])
      /\ \A u \in Threads : \A k \in 1..Len(stack[u]) :
           k < Len(stack[u]) => DeclNext(stack[u][k], stack[u][k + 1])
  BY DEF Declared
<1>9. \A u \in Threads : \A k \in 2..Len(stack[u]) : (u # t \/ k # n) => stack[u][k].cal \in Objects \ {cal}
  <2>1. ASSUME NEW u \in Threads, NEW k \in 2..Len(stack[u]), u # t \/ k # n
        PROVE  stack[u][k].cal \in Objects \ {cal}
    <3>1. stack[u][k].cal # cal
      BY <1>1, <1>7, <2>1 DEF Nested
    <3>2. stack[u] \in Seq(Frame) /\ k \in 1..Len(stack[u]) /\ k # 1
      BY <1>1 DEF TypeOK
    <3>3. stack[u][k] \in Frame /\ stack[u][k].cal # None
      BY <1>1, <3>2, ElementOfSeq DEF Nested
    <3> QED BY <3>1, <3>3 DEF Frame
  <2> QED BY <2>1
<1>10. DeclBuild(stack[t][n])
  BY <1>7, <1>8
<1>11. /\ m + Len(todo) = Len(Needs[class[cal]])
       /\ \A i \in 1..Len(todo) : todo[i] = Needs[class[cal]][m + i]
  BY <1>2, <1>10 DEF DeclBuild
<1> HIDE DEF cal, n, todo, f, m
<1>12. /\ m + 1 <= Len(Needs[class[cal]]) /\ class[dep] = Needs[class[cal]][m + 1].class
       /\ (m + 1) + (Len(todo) - 1) = Len(Needs[class[cal]])
       /\ \A i \in 1..(Len(todo) - 1) : Tail(todo)[i] = Needs[class[cal]][(m + 1) + i]
  <2> DEFINE l == Len(todo)
  <2>1. l \in Nat \ {0} /\ m \in Nat /\ m + l = Len(Needs[class[cal]])
    BY <1>4, <1>11
  <2>2. \A i \in 1..l : todo[i] = Needs[class[cal]][m + i]
    BY <1>11
  <2> HIDE DEF l
  <2>3. m + 1 <= m + l /\ (m + 1) + (l - 1) = m + l /\ 1 \in 1..l
    BY <2>1
  <2>4. ASSUME NEW i \in 1..(l - 1) PROVE Tail(todo)[i] = Needs[class[cal]][(m + 1) + i]
    <3>1. i + 1 \in 1..l /\ m + (i + 1) = (m + 1) + i
      BY <2>1
    <3>2. Tail(todo)[i] = todo[i + 1]
      BY <1>4 DEF l
    <3> QED BY <2>2, <3>1, <3>2
  <2>5. class[dep] = todo[1].class
    BY <1>4 DEF todo
  <2> QED BY <2>1, <2>2, <2>3, <2>4, <2>5 DEF l
<1>13. ASSUME NEW o \in Objects
       PROVE  /\ Len(uses'[o]) <= Len(Needs[class[o]])
              /\ \A i \in 1..Len(uses'[o]) : class[uses'[o][i]] = Needs[class[o]][i].class
  <2>1. CASE o = cal
    <3>1. \A i \in 1..(m + 1) : i = m + 1 \/ i \in 1..m
      BY <1>4
    <3>2. \A i \in 1..m : class[uses[cal][i]] = Needs[class[cal]][i].class
      BY <1>3, <1>8 DEF DeclUses, m
    <3> QED BY <1>3, <1>12, <2>1, <3>1, <3>2
  <2>2. CASE o # cal
    BY <1>3, <1>8, <2>2 DEF DeclUses
  <2> QED BY <2>1, <2>2
<1>14. ASSUME NEW u \in Threads, NEW k \in 2..Len(stack'[u])
       PROVE  /\ Len(uses'[stack'[u][k].cal]) + Len(stack'[u][k].todo) = Len(Needs[class[stack'[u][k].cal]])
              /\ \A i \in 1..Len(stack'[u][k].todo) :
                   stack'[u][k].todo[i] = Needs[class[stack'[u][k].cal]][Len(uses'[stack'[u][k].cal]) + i]
  <2>1. CASE u = t /\ k = n
    <3>1. /\ stack'[u][k].cal = cal /\ stack'[u][k].todo = Tail(todo)
          /\ Len(uses'[cal]) = m + 1 /\ Len(Tail(todo)) = Len(todo) - 1
      BY <1>3, <1>4, <1>5, <1>6, <2>1
    <3> QED BY ONLY <1>12, <3>1
  <2>2. CASE ~(u = t /\ k = n)
    <3>1. stack'[u][k] = stack[u][k] /\ k \in 2..Len(stack[u])
      <4>1. CASE u = t
        <5>1. k \in 1..(n - 1) /\ k \in 2..n
          BY <1>2, <1>6, <2>2, <4>1
        <5> QED BY <1>6, <4>1, <5>1 DEF n
      <4>2. CASE u # t
        BY <1>6, <4>2
      <4> QED BY <4>1, <4>2
    <3>2. DeclBuild(stack[u][k]) /\ uses'[stack[u][k].cal] = uses[stack[u][k].cal]
      BY <1>3, <1>8, <1>9, <2>2, <3>1
    <3> QED BY <3>1, <3>2 DEF DeclBuild
  <2> QED BY <2>1, <2>2
<1>15. ASSUME NEW u \in Threads, NEW k \in 1..Len(stack'[u])
       PROVE  /\ DeclChild(stack'[u][k])
              /\ k < Len(stack'[u]) => DeclNext(stack'[u][k], stack'[u][k + 1])
  <2>1. CASE u = t
    <3>1. CASE k = n
      BY <1>2, <1>5, <1>6, <2>1, <3>1 DEF DeclChild
    <3>2. CASE k # n
      <4>1. k \in 1..(n - 1) /\ k \in 1..n /\ k < n /\ (k + 1 = n \/ k + 1 \in 1..(n - 1))
        BY <1>2, <1>6, <2>1, <3>2
      <4>2. DeclChild(stack[t][k]) /\ DeclNext(stack[t][k], stack[t][k + 1])
        BY <1>8, <4>1 DEF n
      <4>3. stack'[t][k + 1].cal = stack[t][k + 1].cal
        BY <1>5, <1>6, <1>7, <4>1
      <4> QED BY <1>6, <2>1, <4>1, <4>2, <4>3 DEF DeclNext
    <3> QED BY <3>1, <3>2
  <2>2. CASE u # t
    BY <1>6, <1>8, <2>2
  <2> QED BY <2>1, <2>2
<1>16. class' = class /\ Objects' = Objects
  BY <1>1, <1>3
<1> QED BY ONLY <1>13, <1>14, <1>15, <1>16 DEF Declared, DeclUses, DeclBuild, DeclChild, DeclNext

LEMMA ConstructDeclared ==
  ASSUME BuildInv, Declared, NEW t \in Threads, Construct(t)
  PROVE  Declared'
<1> DEFINE o == Len(class) + 1
           n == Len(stack[t])
           need == Head(Top(t).todo)
           todo == Needs[need.class]
           f == [cal |-> o, todo |-> todo, child |-> None]
<1>1. TypeOK /\ ScopeInv /\ stack[t] # <<>>
  BY ConstructScope DEF BuildInv, ScopeInv
<1>2. n \in Nat \ {0} /\ Top(t) = stack[t][n]
  BY <1>1, TopFacts
<1>3. /\ Objects' = Objects \cup {o} /\ o \notin Objects
      /\ todo \in Seq(Need) /\ class'[o] = need.class /\ uses'[o] = <<>>
      /\ \A p \in Objects : class'[p] = class[p] /\ uses'[p] = uses[p]
      /\ Pushed(t, f) /\ OthersKeep(t)
  BY <1>1, ConstructEffect
<1>4. f.cal = o /\ f.todo = todo /\ f.child = None
  OBVIOUS
<1>5. /\ Len(stack'[t]) = n + 1 /\ stack'[t][n + 1] = f
      /\ \A k \in 1..n : stack'[t][k] = stack[t][k]
      /\ \A u \in Threads \ {t} : stack'[u] = stack[u]
  BY <1>3 DEF Pushed, OthersKeep
<1> HIDE DEF o, n, f, todo
<1>6. Len(<<>>) = 0 /\ 1..0 = {} /\ Len(todo) \in Nat
  BY <1>3
<1>7. ASSUME NEW p \in Objects'
      PROVE  /\ Len(uses'[p]) <= Len(Needs[class'[p]])
             /\ \A i \in 1..Len(uses'[p]) : class'[uses'[p][i]] = Needs[class'[p]][i].class
  <2>1. CASE p = o
    BY <1>3, <1>6, <2>1 DEF todo
  <2>2. CASE p # o
    <3>1. p \in Objects /\ DeclUses(p) /\ uses[p] \in Seq(Objects)
      BY <1>1, <1>3, <2>2 DEF Declared, TypeOK
    <3>2. \A i \in 1..Len(uses[p]) : uses[p][i] \in Objects
      BY <3>1, ElementOfSeq
    <3> QED BY <1>3, <3>1, <3>2 DEF DeclUses
  <2> QED BY <2>1, <2>2
<1>8. \A u \in Threads : \A k \in 1..Len(stack[u]) :
        /\ stack[u][k].cal \in {None} \cup Objects /\ stack[u][k].child \in {None} \cup Objects
        /\ k \in 2..Len(stack[u]) => stack[u][k].cal \in Objects
        /\ k < Len(stack[u]) => k + 1 \in 2..Len(stack[u])
  <2>1. ASSUME NEW u \in Threads, NEW k \in 1..Len(stack[u])
        PROVE  /\ stack[u][k].cal \in {None} \cup Objects /\ stack[u][k].child \in {None} \cup Objects
               /\ k \in 2..Len(stack[u]) => stack[u][k].cal \in Objects
               /\ k < Len(stack[u]) => k + 1 \in 2..Len(stack[u])
    <3>1. stack[u][k] \in Frame /\ Len(stack[u]) \in Nat
      BY <1>1, ElementOfSeq DEF TypeOK
    <3>2. stack[u][k].cal = None <=> k = 1
      BY <1>1 DEF ScopeInv, Nested
    <3>3. stack[u][k].cal \in {None} \cup Objects /\ stack[u][k].child \in {None} \cup Objects
      BY <3>1 DEF Frame
    <3>4. k \in 2..Len(stack[u]) => k # 1
      OBVIOUS
    <3>5. k < Len(stack[u]) => k + 1 \in 2..Len(stack[u])
      BY <3>1
    <3> QED BY <3>2, <3>3, <3>4, <3>5
  <2> QED BY <2>1
<1>9. \A u \in Threads : \A k \in 1..Len(stack'[u]) :
        \/ k \in 1..Len(stack[u]) /\ stack'[u][k] = stack[u][k]
        \/ u = t /\ k = n + 1 /\ stack'[u][k] = f
  <2>1. \A k \in 1..(n + 1) : k \in 1..n \/ k = n + 1
    BY <1>2
  <2> QED BY <1>5, <2>1 DEF n
<1>10. ASSUME NEW u \in Threads, NEW k \in 2..Len(stack'[u])
       PROVE  /\ Len(uses'[stack'[u][k].cal]) + Len(stack'[u][k].todo) = Len(Needs[class'[stack'[u][k].cal]])
              /\ \A i \in 1..Len(stack'[u][k].todo) :
                   stack'[u][k].todo[i] = Needs[class'[stack'[u][k].cal]][Len(uses'[stack'[u][k].cal]) + i]
  <2>0. k \in 1..Len(stack'[u]) /\ k >= 2
    <3>1. \A l \in Int : \A j \in 2..l : j \in 1..l /\ j >= 2
      OBVIOUS
    <3>2. CASE u = t
      BY <1>2, <1>5, <3>1, <3>2
    <3>3. CASE u # t
      BY <1>1, <1>5, <3>1, <3>3 DEF TypeOK
    <3> QED BY <3>2, <3>3
  <2>1. CASE u = t /\ k = n + 1 /\ stack'[u][k] = f
    <3>1. /\ stack'[u][k].cal = o /\ stack'[u][k].todo = todo /\ Len(uses'[o]) = 0
          /\ Needs[class'[o]] = todo
      BY <1>3, <1>4, <1>6, <2>1 DEF todo
    <3>2. 0 + Len(todo) = Len(todo) /\ \A i \in 1..Len(todo) : 0 + i = i
      BY <1>6
    <3> QED BY ONLY <3>1, <3>2
  <2>2. CASE k \in 1..Len(stack[u]) /\ stack'[u][k] = stack[u][k]
    <3>1. k \in 2..Len(stack[u])
      BY <1>1, <2>0, <2>2 DEF TypeOK
    <3>2. DeclBuild(stack[u][k]) /\ stack[u][k].cal \in Objects
      BY <1>8, <2>2, <3>1 DEF Declared
    <3> QED BY <1>3, <2>2, <3>2 DEF DeclBuild
  <2> QED BY <1>9, <2>0, <2>1, <2>2
<1>11. ASSUME NEW u \in Threads, NEW k \in 1..Len(stack'[u])
       PROVE  /\ stack'[u][k].child # None =>
                   class'[stack'[u][k].child] = Head(stack'[u][k].todo).class
              /\ k < Len(stack'[u]) =>
                   class'[stack'[u][k + 1].cal] = Head(stack'[u][k].todo).class
  <2>1. CASE u = t /\ k = n + 1 /\ stack'[u][k] = f
    <3>1. ~(n + 1 < n + 1)
      BY <1>2
    <3> QED BY <1>4, <1>5, <2>1, <3>1
  <2>2. CASE k \in 1..Len(stack[u]) /\ stack'[u][k] = stack[u][k]
    <3>1. stack'[u][k].child # None => class'[stack'[u][k].child] = Head(stack'[u][k].todo).class
      BY <1>3, <1>8, <2>2 DEF Declared, DeclChild
    <3>2. CASE u = t /\ k = n
      <4>1. stack'[t][n + 1].cal = o /\ stack'[t][n] = stack[t][n]
        BY <1>4, <1>5, <2>2, <3>2
      <4> QED BY <1>2, <1>3, <3>1, <3>2, <4>1
    <3>3. CASE ~(u = t /\ k = n)
      <4>1. k < Len(stack'[u]) => k < Len(stack[u]) /\ stack'[u][k + 1] = stack[u][k + 1]
        <5>1. CASE u = t
          <6>1. k < n /\ k + 1 \in 1..n
            BY <1>2, <2>2, <3>3, <5>1 DEF n
          <6> QED BY <1>5, <5>1, <6>1 DEF n
        <5>2. CASE u # t
          BY <1>5, <5>2
        <5> QED BY <5>1, <5>2
      <4>2. k < Len(stack[u]) => k + 1 \in 2..Len(stack[u]) /\ k + 1 \in 1..Len(stack[u])
        BY <1>1, <1>8, <2>2 DEF TypeOK
      <4>3. k < Len(stack[u]) => class[stack[u][k + 1].cal] = Head(stack[u][k].todo).class
                                 /\ stack[u][k + 1].cal \in Objects
        BY <1>8, <2>2, <4>2 DEF Declared, DeclNext
      <4> QED BY <1>3, <2>2, <3>1, <4>1, <4>3
    <3> QED BY <3>2, <3>3
  <2> QED BY <1>9, <2>1, <2>2
<1> QED BY ONLY <1>7, <1>10, <1>11 DEF Declared, DeclUses, DeclBuild, DeclChild, DeclNext

LEMMA RegisterDeclared ==
  ASSUME BuildInv, Declared, NEW t \in Threads, Register(t)
  PROVE  Declared'
<1> DEFINE n == Len(stack[t])
<1>1. TypeOK /\ ScopeInv /\ UNCHANGED <<class, uses>>
  BY DEF BuildInv, ScopeInv, Register, objects
<1>2. n >= 2 /\ n \in Nat /\ Returned(t) /\ OthersKeep(t)
  BY <1>1, RegisterEffect DEF TypeOK
<1>3. n - 1 \in 1..n /\ n - 1 < n /\ (n - 1) + 1 = n
  <2> HIDE DEF n
  <2> QED BY <1>2
<1>4. stack[t][n - 1] \in Frame
  BY <1>1, <1>3, ElementOfSeq DEF TypeOK
<1>5. /\ Len(stack'[t]) = n - 1
      /\ \A i \in 1..(n - 2) : stack'[t][i] = stack[t][i]
      /\ stack'[t][n - 1].cal = stack[t][n - 1].cal
      /\ stack'[t][n - 1].todo = stack[t][n - 1].todo
      /\ stack'[t][n - 1].child = stack[t][n].cal
  BY <1>2, <1>4 DEF Returned, Frame
<1>6. \A k \in 1..n : /\ DeclChild(stack[t][k])
                      /\ k < n => DeclNext(stack[t][k], stack[t][k + 1])
  BY DEF Declared
<1> HIDE DEF n
<1>7. ASSUME NEW k \in 1..(n - 1)
      PROVE  /\ stack'[t][k].cal = stack[t][k].cal /\ stack'[t][k].todo = stack[t][k].todo
             /\ k \in 1..n /\ k < n
             /\ DeclChild(stack'[t][k])
             /\ k < n - 1 => DeclNext(stack'[t][k], stack'[t][k + 1])
  <2>1. k \in 1..n /\ k < n /\ (k = n - 1 \/ (k \in 1..(n - 2) /\ k + 1 \in 1..n /\ (k + 1 = n - 1 \/ k + 1 \in 1..(n - 2))))
    BY <1>2
  <2>2. CASE k = n - 1
    <3>1. DeclChild(stack'[t][k])
      BY <1>3, <1>5, <1>6, <2>1, <2>2 DEF DeclChild, DeclNext
    <3> QED BY <1>2, <1>5, <2>1, <2>2, <3>1
  <2>3. CASE k # n - 1
    <3>1. stack'[t][k] = stack[t][k] /\ stack'[t][k + 1].cal = stack[t][k + 1].cal
      BY <1>5, <2>1, <2>3
    <3> QED BY <1>6, <2>1, <3>1 DEF DeclNext
  <2> QED BY <2>2, <2>3
<1>8. \A k \in 2..(n - 1) : k \in 1..(n - 1) /\ k \in 2..n
  BY <1>2
<1>9. \A k \in 2..Len(stack'[t]) : /\ k \in 2..Len(stack[t])
                                   /\ stack'[t][k].cal = stack[t][k].cal
                                   /\ stack'[t][k].todo = stack[t][k].todo
  BY <1>5, <1>7, <1>8 DEF n
<1>10. \A k \in 1..Len(stack'[t]) :
         /\ DeclChild(stack'[t][k])
         /\ k < Len(stack'[t]) => DeclNext(stack'[t][k], stack'[t][k + 1])
  BY <1>5, <1>7
<1> QED BY <1>1, <1>2, <1>9, <1>10, DeclaredKept

LEMMA DeclaredStep ==
  ASSUME BuildInv, Declared, NEW t \in Threads, Step(t)
  PROVE  Declared'
<1>1. TypeOK /\ ScopeInv /\ Nested /\ Len(stack[t]) \in Nat
  BY DEF BuildInv, ScopeInv, TypeOK
<1>2. \A k \in 1..Len(stack[t]) :
        /\ DeclChild(stack[t][k])
        /\ k < Len(stack[t]) => DeclNext(stack[t][k], stack[t][k + 1])
  BY DEF Declared
<1>3. (\A j \in 1..1 : j = 1) /\ 2..1 = {} /\ ~(1 < 1)
  OBVIOUS
<1>4. CASE TestDepth(t)
  <2>1. /\ Len(stack'[t]) = 1 /\ OthersKeep(t) /\ stack'[t][1].child = None
        /\ UNCHANGED <<class, uses>>
    BY <1>1, <1>4, TestDepthEffect DEF TestDepth, objects
  <2>2. \A k \in 1..Len(stack'[t]) :
          DeclChild(stack'[t][k]) /\ ~(k < Len(stack'[t]))
    BY <1>3, <2>1 DEF DeclChild
  <2> QED BY <1>3, <2>1, <2>2, DeclaredKept
<1>5. CASE (OpenRegistry(t) \/ Claim(t) \/ Raise(t))
  <2>1. stack' = stack /\ UNCHANGED <<class, uses>> /\ Objects' = Objects
    BY <1>5 DEF OpenRegistry, Claim, Raise, objects, Objects
  <2> QED BY <2>1 DEF Declared, DeclUses, DeclBuild, DeclChild, DeclNext
<1>6. CASE Construct(t)
  BY <1>6, ConstructDeclared
<1>7. CASE Share(t)
  <2>1. /\ Building(t) /\ Top(t).cal # None /\ Top(t).todo # <<>>
        /\ scope.registry \in Registries /\ Found(t) \in Objects /\ Found(t) # None
        /\ Depend(t, Found(t))
    BY <1>1, <1>7, ShareFacts
  <2>2. class[Found(t)] = Head(Top(t).todo).class
    BY <1>1, <2>1, FoundFacts DEF Found
  <2> QED BY <2>1, <2>2, DependDeclared
<1>8. CASE Wire(t)
  <2>1. Top(t).todo # <<>>
    BY <1>8, TopWaiting
  <2>2. /\ Building(t) /\ Top(t).cal # None /\ Top(t).child \in Objects
        /\ Depend(t, Top(t).child) /\ Top(t).child # None /\ stack[t] # <<>>
    BY <1>1, <1>8, <2>1, WireFacts DEF Wire
  <2>3. Len(stack[t]) \in 1..Len(stack[t]) /\ Top(t) = stack[t][Len(stack[t])]
    <3>1. Top(t) = stack[t][Len(stack[t])] /\ Len(stack[t]) \in Nat \ {0}
      BY <1>1, <2>2, TopFacts
    <3> QED BY <3>1
  <2>4. class[Top(t).child] = Head(Top(t).todo).class
    BY <1>2, <2>2, <2>3 DEF DeclChild
  <2> QED BY <2>1, <2>2, <2>4, DependDeclared
<1>9. CASE Attached(t)
  <2>1. Top(t).todo # <<>>
    BY <1>9, TopWaiting
  <2> DEFINE f == [cal |-> None, todo |-> Tail(Top(t).todo), child |-> None]
  <2>2. TopChanged(t, f) /\ OthersKeep(t) /\ f.child = None
    BY <1>1, <1>9, <2>1, AttachedEffect
  <2>3. Len(stack[t]) = 1
    BY <1>1, <1>9, TopNested DEF Attached, Building
  <2> HIDE DEF f
  <2>4. Len(stack'[t]) = 1 /\ stack'[t][1].child = None
    BY <2>2, <2>3 DEF TopChanged
  <2>5. \A k \in 1..Len(stack'[t]) :
          DeclChild(stack'[t][k]) /\ ~(k < Len(stack'[t]))
    BY <1>3, <2>4 DEF DeclChild
  <2>6. UNCHANGED <<class, uses>>
    BY <1>9 DEF Attached, objects
  <2> QED BY <1>3, <2>2, <2>4, <2>5, <2>6, DeclaredKept
<1>10. CASE Register(t)
  BY <1>10, RegisterDeclared
<1>11. CASE (Leave(t) \/ Unwind(t))
  <2> DEFINE n == Len(stack[t])
  <2>1. Popped(t) /\ OthersKeep(t) /\ UNCHANGED <<class, uses>>
    BY <1>1, <1>11, EndEffect DEF Leave, Unwind, objects
  <2>2. Len(stack'[t]) = n - 1 /\ \A i \in 1..(n - 1) : stack'[t][i] = stack[t][i]
    BY <2>1 DEF Popped
  <2> HIDE DEF n
  <2>3. n \in Nat
    BY <1>1 DEF n
  <2>4. /\ \A k \in 2..(n - 1) : k \in 2..n /\ k \in 1..(n - 1)
        /\ \A k \in 1..(n - 1) : k \in 1..n /\ k < n
        /\ \A k \in 1..(n - 1) : k < n - 1 => k + 1 \in 1..(n - 1)
    BY <2>3
  <2>5. \A k \in 2..Len(stack'[t]) : /\ k \in 2..Len(stack[t])
                                     /\ stack'[t][k].cal = stack[t][k].cal
                                     /\ stack'[t][k].todo = stack[t][k].todo
    BY <2>2, <2>4 DEF n
  <2>6. ASSUME NEW k \in 1..Len(stack'[t])
        PROVE  /\ DeclChild(stack'[t][k])
               /\ k < Len(stack'[t]) => DeclNext(stack'[t][k], stack'[t][k + 1])
    <3>1. k \in 1..n /\ k < n /\ stack'[t][k] = stack[t][k]
          /\ (k < Len(stack'[t]) => stack'[t][k + 1] = stack[t][k + 1])
      BY <2>2, <2>4
    <3> QED BY <1>2, <3>1 DEF n
  <2> QED BY <2>1, <2>5, <2>6, DeclaredKept
<1> QED BY <1>4, <1>5, <1>6, <1>7, <1>8, <1>9, <1>10, <1>11 DEF Step

(* What holds whether or not threads have met. *)
DeclInv == BuildInv /\ Declared

LEMMA DeclInvInit == Init => DeclInv
<1> SUFFICES ASSUME Init PROVE DeclInv
  OBVIOUS
<1>1. Objects = {} /\ \A t \in Threads : stack[t] = <<>>
  BY DEF Init, Objects
<1>2. Len(<<>>) = 0 /\ 1..0 = {} /\ 2..0 = {}
  OBVIOUS
<1>3. Declared
  BY <1>1, <1>2 DEF Declared
<1> QED BY <1>3, BuildInvInit DEF DeclInv

LEMMA DeclInvStep == DeclInv /\ [Next]_vars => DeclInv'
<1> SUFFICES ASSUME DeclInv, [Next]_vars PROVE DeclInv'
  OBVIOUS
<1>1. BuildInv' /\ Declared
  BY BuildInvStep DEF DeclInv
<1>2. ASSUME NEW t \in Threads, Step(t) PROVE Declared'
  BY <1>2, DeclaredStep DEF DeclInv
<1>3. CASE (UNCHANGED vars \/ \E r \in Registries : ReadGraph(r))
  <2>1. UNCHANGED <<class, uses, stack>>
    BY <1>3 DEF vars, ReadGraph, objects
  <2>2. Objects' = Objects
    BY <2>1 DEF Objects
  <2>3. Declared'
    BY <1>1, <2>1, <2>2 DEF Declared, DeclUses, DeclBuild, DeclChild, DeclNext
  <2> QED BY <1>1, <2>3 DEF DeclInv
<1>4. CASE \E t \in Threads : Step(t)
  BY <1>1, <1>2, <1>4 DEF DeclInv
<1> QED BY <1>3, <1>4 DEF Next

-------------------------------------------------------------------------------
(* The builds under way are of lower and lower classes. *)

LEMMA DescendingKept ==
  ASSUME Descending, class' = class, NEW t \in Threads, OthersKeep(t),
         \A k \in 2..Len(stack'[t]) : k \in 2..Len(stack[t]) /\ stack'[t][k].cal = stack[t][k].cal
  PROVE  Descending'
<1>1. \A u \in Threads : \A k \in 2..Len(stack'[u]) :
        k \in 2..Len(stack[u]) /\ stack'[u][k].cal = stack[u][k].cal
  BY DEF OthersKeep
<1> QED BY <1>1 DEF Descending

LEMMA ConstructDescending ==
  ASSUME Acyclic, DeclInv, Descending, NEW t \in Threads, Construct(t)
  PROVE  Descending'
<1> DEFINE o == Len(class) + 1
           n == Len(stack[t])
           need == Head(Top(t).todo)
           todo == Needs[need.class]
           f == [cal |-> o, todo |-> todo, child |-> None]
<1>1. TypeOK /\ ScopeInv /\ stack[t] # <<>> /\ Top(t).todo # <<>>
  BY ConstructScope DEF DeclInv, BuildInv, ScopeInv, Construct, Asks
<1>2. n \in Nat \ {0} /\ Top(t) = stack[t][n]
  BY <1>1, TopFacts
<1>3. /\ Objects' = Objects \cup {o} /\ o \notin Objects
      /\ need.class \in Classes /\ class'[o] = need.class
      /\ \A p \in Objects : class'[p] = class[p]
      /\ Pushed(t, f) /\ OthersKeep(t)
  BY <1>1, ConstructEffect
<1>4. f.cal = o
  OBVIOUS
<1>5. /\ Len(stack'[t]) = n + 1 /\ stack'[t][n + 1] = f
      /\ \A k \in 1..n : stack'[t][k] = stack[t][k]
      /\ \A u \in Threads \ {t} : stack'[u] = stack[u]
  BY <1>3 DEF Pushed, OthersKeep
<1>6. Top(t).todo \in Seq(Need) /\ Len(Top(t).todo) \in Nat \ {0} /\ need = Top(t).todo[1]
  <2>1. Top(t).todo \in Seq(Need) /\ need = Top(t).todo[1]
    BY <1>1, TopFacts
  <2> QED BY <1>1, <2>1, EmptySeq
<1>7. n >= 2 => Rank[need.class] < Rank[class[stack[t][n].cal]]
  <2> SUFFICES ASSUME n >= 2 PROVE Rank[need.class] < Rank[class[stack[t][n].cal]]
    OBVIOUS
  <2> DEFINE c == class[stack[t][n].cal]
             m == Len(uses[stack[t][n].cal])
             l == Len(Top(t).todo)
  <2>1. n \in 2..n
    <3> HIDE DEF n
    <3> QED BY <1>2
  <2>2. DeclBuild(stack[t][n]) /\ stack[t][n].cal \in Objects
    <3>1. stack[t][n] \in Frame /\ stack[t][n].cal # None
      BY <1>1, <1>2, <2>1, TopNested, TopFacts DEF ScopeInv, Nested
    <3> QED BY <2>1, <3>1 DEF DeclInv, Declared, Frame
  <2>3. c \in Classes /\ m \in Nat
    BY <1>1, <2>2, ElementOfSeq DEF TypeOK, Objects
  <2>4. m + l = Len(Needs[c]) /\ need = Needs[c][m + 1]
    <3>1. m + l = Len(Needs[c]) /\ \A i \in 1..l : Top(t).todo[i] = Needs[c][m + i]
      BY <1>2, <2>2 DEF DeclBuild
    <3>2. 1 \in 1..l
      <4> HIDE DEF l
      <4> QED BY <1>6 DEF l
    <3> QED BY <1>6, <3>1, <3>2
  <2>5. m + 1 \in 1..Len(Needs[c])
    <3> HIDE DEF m, l
    <3>1. l \in Nat \ {0}
      BY <1>6 DEF l
    <3> QED BY <2>3, <2>4, <3>1
  <2> HIDE DEF c, m, l, need
  <2>6. Ranks(Rank)
    BY DEF Acyclic, Rank
  <2>7. Rank[Needs[c][m + 1].class] < Rank[c]
    BY <2>3, <2>5, <2>6 DEF Ranks
  <2> QED BY <2>4, <2>7 DEF c
<1>8. Rank[need.class] \in Nat /\ \A p \in Objects : Rank[class[p]] \in Nat
  <2>1. Rank \in [Classes -> Nat]
    BY DEF Acyclic, Rank
  <2>2. \A p \in Objects : class[p] \in Classes
    BY <1>1, ElementOfSeq DEF TypeOK, Objects
  <2> QED BY <1>3, <2>1, <2>2
<1> HIDE DEF o, n, f, todo, need
<1>9. \A u \in Threads : \A k \in 2..Len(stack[u]) : stack[u][k].cal \in Objects
  <2>1. ASSUME NEW u \in Threads, NEW k \in 2..Len(stack[u]) PROVE stack[u][k].cal \in Objects
    <3>1. stack[u] \in Seq(Frame) /\ k \in 1..Len(stack[u]) /\ k # 1
      BY <1>1 DEF TypeOK
    <3>2. stack[u][k] \in Frame /\ stack[u][k].cal # None
      BY <1>1, <3>1, ElementOfSeq DEF ScopeInv, Nested
    <3> QED BY <3>2 DEF Frame
  <2> QED BY <2>1
<1>10. ASSUME NEW u \in Threads, NEW k \in 2..Len(stack'[u]), NEW l \in 2..Len(stack'[u]), k < l
       PROVE  Rank[class'[stack'[u][l].cal]] < Rank[class'[stack'[u][k].cal]]
  <2>1. CASE u # t
    <3>1. k \in 2..Len(stack[u]) /\ l \in 2..Len(stack[u]) /\ stack'[u] = stack[u]
      BY <1>5, <2>1
    <3> QED BY <1>3, <1>9, <1>10, <3>1 DEF Descending
  <2>2. CASE u = t /\ l # n + 1
    <3>1. k \in 2..n /\ l \in 2..n /\ k \in 1..n /\ l \in 1..n
      BY <1>2, <1>5, <1>10, <2>2
    <3>2. k \in 2..Len(stack[t]) /\ l \in 2..Len(stack[t])
      BY <3>1 DEF n
    <3>3. Rank[class[stack[t][l].cal]] < Rank[class[stack[t][k].cal]]
      BY <1>10, <3>2 DEF Descending
    <3>4. stack'[t][k] = stack[t][k] /\ stack'[t][l] = stack[t][l]
      BY <1>5, <3>1
    <3>5. stack[t][k].cal \in Objects /\ stack[t][l].cal \in Objects
      BY <1>9, <3>2
    <3> QED BY <1>3, <2>2, <3>3, <3>4, <3>5
  <2>3. CASE u = t /\ l = n + 1
    <3>1. k \in 2..n /\ k \in 1..n /\ n >= 2 /\ n \in 2..n
      BY <1>2, <1>5, <1>10, <2>3
    <3>2. k \in 2..Len(stack[t]) /\ n \in 2..Len(stack[t])
      BY <3>1 DEF n
    <3>3. k # n => Rank[class[stack[t][n].cal]] < Rank[class[stack[t][k].cal]]
      BY <3>1, <3>2 DEF Descending
    <3>4. class'[stack'[t][n + 1].cal] = need.class /\ stack'[t][k] = stack[t][k]
          /\ class'[stack[t][k].cal] = class[stack[t][k].cal]
      BY <1>3, <1>4, <1>5, <1>9, <3>1, <3>2
    <3>5. Rank[class[stack[t][k].cal]] \in Nat /\ Rank[class[stack[t][n].cal]] \in Nat
      BY <1>8, <1>9, <3>2
    <3> QED BY <1>7, <1>8, <2>3, <3>1, <3>3, <3>4, <3>5
  <2> QED BY <2>1, <2>2, <2>3
<1> QED BY <1>10 DEF Descending

-------------------------------------------------------------------------------
(* Who shares, shares the oldest. *)

ShareInv == ApartInv /\ Declared /\ Descending /\ OldestShared

LEMMA FirstUnique ==
  ASSUME TypeOK, NEW r \in Registries, NEW c, NEW o, NEW p, FirstOf(r, c, o), FirstOf(r, c, p)
  PROVE  o = p
<1>1. Len(edges[r]) \in Nat
  BY ElementOfSeq DEF TypeOK, Registries
<1>2. PICK i \in 1..Len(edges[r]) :
        /\ edges[r][i][1] = o /\ class[o] = c
        /\ \A j \in 1..(i - 1) : class[edges[r][j][1]] # c
  BY DEF FirstOf, FirstIn
<1>3. PICK l \in 1..Len(edges[r]) :
        /\ edges[r][l][1] = p /\ class[p] = c
        /\ \A j \in 1..(l - 1) : class[edges[r][j][1]] # c
  BY DEF FirstOf, FirstIn
<1>4. ~(l \in 1..(i - 1)) /\ ~(i \in 1..(l - 1))
  BY <1>2, <1>3
<1>5. i = l
  <2> DEFINE n == Len(edges[r])
  <2>1. n \in Nat /\ i \in 1..n /\ l \in 1..n
    BY <1>1
  <2> HIDE DEF n
  <2> QED BY <1>4, <2>1
<1> QED BY <1>2, <1>3, <1>5

(* It stays the first when records are added. *)
LEMMA FirstStays ==
  ASSUME TypeOK, NEW r \in Registries, NEW c, NEW o, FirstOf(r, c, o),
         Len(edges'[r]) \in Nat, Len(edges[r]) <= Len(edges'[r]),
         \A i \in 1..Len(edges[r]) : edges'[r][i] = edges[r][i],
         \A p \in Objects : class'[p] = class[p]
  PROVE  FirstIn(edges'[r], class', c, o)
<1>1. edges[r] \in Seq(Objects \X ({None} \cup Objects)) /\ Len(edges[r]) \in Nat
  BY ElementOfSeq DEF TypeOK, Registries
<1>2. \A i \in 1..Len(edges[r]) : edges[r][i] \in Objects \X ({None} \cup Objects)
  BY <1>1, ElementOfSeq
<1>3. \A i \in 1..Len(edges[r]) : edges[r][i][1] \in Objects
  BY <1>2
<1>4. PICK i \in 1..Len(edges[r]) :
        /\ edges[r][i][1] = o /\ class[o] = c
        /\ \A j \in 1..(i - 1) : class[edges[r][j][1]] # c
  BY DEF FirstOf, FirstIn
<1> DEFINE n == Len(edges[r])
           m == Len(edges'[r])
<1>5. i \in 1..m /\ \A j \in 1..(i - 1) : j \in 1..n
  <2>1. n \in Nat /\ m \in Nat /\ n <= m /\ i \in 1..n
    BY <1>1
  <2> HIDE DEF n, m
  <2> QED BY <2>1
<1>6. edges'[r][i][1] = o /\ class'[o] = c
  BY <1>3, <1>4
<1>7. \A j \in 1..(i - 1) : class'[edges'[r][j][1]] # c
  BY <1>3, <1>4, <1>5
<1> QED BY <1>5, <1>6, <1>7 DEF FirstIn

(* Records, and what they are of, stay the same. *)
LEMMA SharedKept ==
  ASSUME OldestShared, ~clashed, UNCHANGED <<edges, class, uses, tree, opened>>,
         NEW t \in Threads, OthersKeep(t),
         \A k \in 2..Len(stack'[t]) :
           /\ SharedChild(t, stack'[t][k])
           /\ k < Len(stack'[t]) => SharedNext(t, stack'[t][k], stack'[t][k + 1])
  PROVE  OldestShared'
<1>1. Objects' = Objects /\ \A u \in Threads \ {t} : stack'[u] = stack[u]
  BY DEF Objects, OthersKeep
<1>2. ASSUME NEW u \in Threads, NEW k \in 2..Len(stack'[u])
      PROVE  /\ SharedChild(u, stack'[u][k])
             /\ k < Len(stack'[u]) => SharedNext(u, stack'[u][k], stack'[u][k + 1])
  <2>1. CASE u = t
    BY <2>1
  <2>2. CASE u # t
    BY <1>1, <2>2 DEF OldestShared
  <2> QED BY <2>1, <2>2
<1>3. \A o \in Objects : SharedUses(o)
  BY DEF OldestShared
<1> QED BY <1>1, <1>2, <1>3 DEF OldestShared, SharedUses, SharedChild, SharedNext, FirstOf

(* The innermost build files a record of its own in the registry. *)
LEMMA FiledShared ==
  ASSUME Acyclic, ShareInv, ~clashed, NEW t \in Threads, pc[t] \in Inside, Len(stack[t]) >= 2,
         class' = class, NEW dep, NEW cal, cal = stack[t][Len(stack[t])].cal, RecordsTyped,
         NEW r \in Registries, r = opened[t], Filed(r, cal, dep)
  PROVE  /\ \A q \in Registries : \A c : \A o : FirstOf(q, c, o) => FirstIn(edges'[q], class', c, o)
         /\ \A k \in 2..(Len(stack[t]) - 1) :
              ToShare(stack[t][k]) =>
                \A i \in 1..Len(edges'[r]) :
                  class[edges'[r][i][1]] = Head(stack[t][k].todo).class
                    => edges'[r][i][1] = stack[t][k + 1].cal
<1> DEFINE n == Len(stack[t])
<1>1. TypeOK /\ Nested /\ Waiting
  BY DEF ShareInv, ApartInv, BuildInv, ScopeInv
<1>2. n \in Nat /\ n >= 2 /\ Len(edges[r]) \in Nat
  BY <1>1, ElementOfSeq DEF TypeOK, Registries
<1>3. /\ \A q \in Registries \ {r} : edges'[q] = edges[q]
      /\ Len(edges'[r]) = Len(edges[r]) + 1
      /\ \A i \in 1..Len(edges[r]) : edges'[r][i] = edges[r][i]
      /\ edges'[r][Len(edges[r]) + 1] = <<cal, dep>>
  BY DEF Filed
<1>4. ASSUME NEW q \in Registries, NEW c, NEW o, FirstOf(q, c, o)
      PROVE  FirstIn(edges'[q], class', c, o)
  <2>1. /\ Len(edges'[q]) \in Nat /\ Len(edges[q]) <= Len(edges'[q])
        /\ \A i \in 1..Len(edges[q]) : edges'[q][i] = edges[q][i]
    <3>1. CASE q = r
      BY <1>2, <1>3, <3>1
    <3>2. CASE q # r
      <4>1. Len(edges[q]) \in Nat
        BY <1>1, ElementOfSeq DEF TypeOK, Registries
      <4> QED BY <1>3, <3>2, <4>1
    <3> QED BY <3>1, <3>2
  <2> QED BY <1>1, <1>4, <2>1, FirstStays
<1>5. ASSUME NEW k \in 2..(n - 1), ToShare(stack[t][k]), NEW i \in 1..Len(edges'[r]),
             class[edges'[r][i][1]] = Head(stack[t][k].todo).class
      PROVE  edges'[r][i][1] = stack[t][k + 1].cal
  <2>1. /\ k \in 2..n /\ k < n /\ k \in 1..n /\ n \in 2..n /\ k + 1 \in 2..n
        /\ (k + 1 = n \/ k + 1 < n)
    <3> HIDE DEF n
    <3> QED BY <1>2
  <2>2. SharedNext(t, stack[t][k], stack[t][k + 1])
    BY <2>1 DEF ShareInv, OldestShared
  <2>3. DeclNext(stack[t][k], stack[t][k + 1])
    BY <2>1 DEF ShareInv, Declared
  <2>4. CASE i \in 1..Len(edges[r])
    BY <1>3, <1>5, <2>2, <2>4 DEF SharedNext
  <2>5. CASE i = Len(edges[r]) + 1
    <3>1. edges'[r][i][1] = cal
      BY <1>3, <2>5
    <3>2. class[stack[t][n].cal] = class[stack[t][k + 1].cal]
      BY <1>5, <2>3, <3>1 DEF DeclNext
    <3>3. CASE k + 1 < n
      <4>1. Rank[class[stack[t][n].cal]] < Rank[class[stack[t][k + 1].cal]]
        BY <2>1, <3>3 DEF ShareInv, Descending
      <4>2. stack[t][n].cal \in Objects
        <5>1. stack[t][n] \in Frame /\ stack[t][n].cal # None
          BY <1>1, <2>1, ElementOfSeq DEF TypeOK, Nested
        <5> QED BY <5>1 DEF Frame
      <4>3. class[stack[t][n].cal] \in Classes
        BY <1>1, <4>2, ElementOfSeq DEF TypeOK, Objects
      <4>4. Rank[class[stack[t][n].cal]] \in Nat
        BY <4>3 DEF Acyclic, Rank
      <4> QED BY <3>2, <4>1, <4>4
    <3>4. CASE k + 1 = n
      BY <3>1, <3>4
    <3> QED BY <2>1, <3>3, <3>4
  <2>6. i \in 1..Len(edges[r]) \/ i = Len(edges[r]) + 1
    <3> DEFINE m == Len(edges[r])
    <3>1. m \in Nat /\ i \in 1..(m + 1)
      BY <1>2, <1>3
    <3> HIDE DEF m
    <3> QED BY <3>1 DEF m
  <2> QED BY <2>4, <2>5, <2>6
<1> QED BY <1>4, <1>5

(* What is to be shown of a step: of what calibrations use, and of builds. *)
NextUses ==
  \A o \in Objects' : \A i \in 1..Len(uses'[o]) :
    ~Needs[class'[o]][i].dup =>
      FirstIn(edges'[tree'[o]], class', Needs[class'[o]][i].class, uses'[o][i])

NextBuild(t, k) ==
  ToShare(stack'[t][k]) =>
    /\ stack'[t][k].child # None =>
         FirstIn(edges'[opened'[t]], class', Head(stack'[t][k].todo).class, stack'[t][k].child)
    /\ k < Len(stack'[t]) =>
         \A i \in 1..Len(edges'[opened'[t]]) :
           class'[edges'[opened'[t]][i][1]] = Head(stack'[t][k].todo).class
             => edges'[opened'[t]][i][1] = stack'[t][k + 1].cal

LEMMA SharedByOne ==
  ASSUME ApartInv, ~clashed, NEW t \in Threads, pc[t] # "idle", OthersKeep(t),
         NextUses, \A k \in 2..Len(stack'[t]) : NextBuild(t, k)
  PROVE  OldestShared'
<1>1. \A u \in Threads \ {t} : stack'[u] = <<>>
  BY AloneFacts DEF OthersKeep
<1>2. ASSUME NEW u \in Threads, NEW k \in 2..Len(stack'[u]) PROVE NextBuild(u, k)
  <2>1. CASE u = t
    BY <2>1
  <2>2. CASE u # t
    BY <1>1, <2>2
  <2> QED BY <2>1, <2>2
<1> QED BY <1>2
    DEF NextUses, NextBuild, OldestShared, SharedUses, SharedChild, SharedNext, FirstOf, ToShare

(* What there is to know of who builds a calibration. *)
LEMMA SharerFacts ==
  ASSUME ShareInv, ~clashed, NEW t \in Threads, pc[t] \in Inside
  PROVE  /\ ApartInv /\ TypeOK /\ pc[t] # "idle" /\ Len(stack[t]) \in Nat \ {0}
         /\ opened[t] \in Registries /\ scope.registry = opened[t] /\ Mine(t) /\ opened[t] # None
         /\ Top(t) = stack[t][Len(stack[t])] /\ (Top(t).cal = None <=> Len(stack[t]) = 1)
         /\ \A o \in Objects : tree[o] \in Registries /\ SharedUses(o)
         /\ \A k \in 2..Len(stack[t]) :
              /\ SharedChild(t, stack[t][k])
              /\ k < Len(stack[t]) => SharedNext(t, stack[t][k], stack[t][k + 1])
<1>1. ApartInv /\ TypeOK /\ Nested /\ OldestShared /\ pc[t] # "idle"
  BY DEF ShareInv, ApartInv, BuildInv, ScopeInv, Inside
<1>2. opened[t] \in Registries /\ scope.registry = opened[t] /\ Mine(t)
  BY <1>1, AloneFacts DEF Mine
<1>3. opened[t] # None
  BY <1>2 DEF None, Registries
<1>4. \A o \in Objects : tree[o] \in Registries
  BY <1>1 DEF TypeOK
<1> QED BY <1>1, <1>2, <1>3, <1>4, TopNested DEF OldestShared

(* Nothing on record is of the class that is not found. *)
LEMMA NotFound ==
  ASSUME TypeOK, NEW r \in Registries, NEW c, Oldest(r, c) = None,
         NEW i \in 1..Len(edges[r])
  PROVE  class[edges[r][i][1]] # c
<1> DEFINE of == {j \in 1..Len(edges[r]) : class[edges[r][j][1]] = c}
<1>1. edges[r] \in Seq(Objects \X ({None} \cup Objects)) /\ Len(edges[r]) \in Nat
  BY ElementOfSeq DEF TypeOK, Registries
<1>2. ASSUME class[edges[r][i][1]] = c PROVE FALSE
  <2>1. of # {} /\ Oldest(r, c) = edges[r][Min(of)][1]
    BY <1>2 DEF Oldest
  <2>2. Min(of) \in 1..Len(edges[r])
    BY <1>1, <2>1, MinOfIndices
  <2>3. edges[r][Min(of)] \in Objects \X ({None} \cup Objects)
    BY <1>1, <2>2, ElementOfSeq
  <2>4. edges[r][Min(of)][1] \in Objects
    BY <2>3
  <2>5. None \notin Objects
    BY DEF None, Objects
  <2> QED BY <2>1, <2>4, <2>5
<1> QED BY <1>2

LEMMA ConstructShared ==
  ASSUME ShareInv, ~clashed, NEW t \in Threads, Construct(t)
  PROVE  OldestShared'
<1> DEFINE o == Len(class) + 1
           n == Len(stack[t])
           need == Head(Top(t).todo)
           todo == Needs[need.class]
           f == [cal |-> o, todo |-> todo, child |-> None]
           r == opened[t]
<1>1. ScopeInv /\ TypeOK /\ pc[t] \in Inside /\ stack[t] # <<>> /\ Waiting
  BY ConstructScope DEF ShareInv, ApartInv, BuildInv, ScopeInv
<1>2. /\ ApartInv /\ pc[t] # "idle" /\ n \in Nat \ {0} /\ Top(t) = stack[t][n]
      /\ (Top(t).cal = None <=> n = 1)
      /\ r \in Registries /\ scope.registry = r
      /\ \A p \in Objects : tree[p] \in Registries /\ SharedUses(p)
      /\ \A k \in 2..n : /\ SharedChild(t, stack[t][k])
                         /\ k < n => SharedNext(t, stack[t][k], stack[t][k + 1])
  BY <1>1, SharerFacts
<1>3. /\ Objects' = Objects \cup {o} /\ o \notin Objects
      /\ class'[o] = need.class /\ uses'[o] = <<>>
      /\ \A p \in Objects : /\ class'[p] = class[p] /\ uses'[p] = uses[p] /\ tree'[p] = tree[p]
      /\ Pushed(t, f) /\ OthersKeep(t)
  BY <1>1, ConstructEffect
<1>4. f.cal = o /\ f.child = None
  OBVIOUS
<1>5. /\ Len(stack'[t]) = n + 1 /\ stack'[t][n + 1] = f
      /\ \A k \in 1..n : stack'[t][k] = stack[t][k]
  BY <1>3 DEF Pushed
<1>6. edges' = edges /\ opened' = opened
  BY DEF Construct
<1>7. n >= 2 /\ ~need.dup => Oldest(r, need.class) = None
  BY <1>2 DEF Construct, Found
<1>8. \A q \in Registries : \A i \in 1..Len(edges[q]) : edges[q][i][1] \in Objects
  <2>1. ASSUME NEW q \in Registries, NEW i \in 1..Len(edges[q]) PROVE edges[q][i][1] \in Objects
    <3>1. edges[q] \in Seq(Objects \X ({None} \cup Objects))
      BY <1>1, ElementOfSeq DEF TypeOK, Registries
    <3>2. edges[q][i] \in Objects \X ({None} \cup Objects)
      BY <3>1, ElementOfSeq
    <3> QED BY <3>2
  <2> QED BY <2>1
<1>9. ASSUME NEW q \in Registries, NEW c, NEW p, FirstOf(q, c, p)
      PROVE  FirstIn(edges'[q], class', c, p)
  <2>1. Len(edges[q]) \in Nat
    BY <1>1, ElementOfSeq DEF TypeOK, Registries
  <2> QED BY <1>1, <1>3, <1>6, <1>9, <2>1, FirstStays
<1> HIDE DEF o, n, f, todo, r
<1>10. NextUses
  <2> SUFFICES ASSUME NEW p \in Objects', NEW i \in 1..Len(uses'[p]), ~Needs[class'[p]][i].dup
               PROVE  FirstIn(edges'[tree'[p]], class', Needs[class'[p]][i].class, uses'[p][i])
    BY DEF NextUses
  <2>1. p # o
    <3>1. Len(<<>>) = 0 /\ 1..0 = {}
      OBVIOUS
    <3> QED BY <1>3, <3>1
  <2>2. FirstOf(tree[p], Needs[class[p]][i].class, uses[p][i])
    BY <1>2, <1>3, <2>1 DEF SharedUses
  <2> QED BY <1>2, <1>3, <1>9, <2>1, <2>2
<1>11. ASSUME NEW k \in 2..Len(stack'[t]) PROVE NextBuild(t, k)
  <2>1. CASE k = n + 1
    <3>1. ~(n + 1 < n + 1)
      BY <1>2
    <3> QED BY <1>4, <1>5, <2>1, <3>1 DEF NextBuild
  <2>2. CASE k # n + 1
    <3>1. k \in 2..n /\ k \in 1..n /\ (k < n + 1 => k = n \/ k < n) /\ (k < n => k + 1 \in 1..n)
      BY <1>2, <1>5, <2>2
    <3>2. stack'[t][k] = stack[t][k] /\ opened'[t] = r /\ edges'[r] = edges[r]
      BY <1>5, <1>6, <3>1 DEF r
    <3>3. ASSUME ToShare(stack[t][k]), stack[t][k].child # None
          PROVE  FirstIn(edges'[r], class', Head(stack[t][k].todo).class, stack[t][k].child)
      BY <1>2, <1>9, <3>1, <3>3 DEF SharedChild, r
    <3>4. ASSUME ToShare(stack[t][k]), k < n + 1, NEW i \in 1..Len(edges[r]),
                 class'[edges[r][i][1]] = Head(stack[t][k].todo).class
          PROVE  edges[r][i][1] = stack'[t][k + 1].cal
      <4>1. class[edges[r][i][1]] = Head(stack[t][k].todo).class
        BY <1>2, <1>3, <1>8, <3>4
      <4>2. CASE k < n
        BY <1>2, <1>5, <3>1, <3>4, <4>1, <4>2 DEF SharedNext, r
      <4>3. CASE k = n
        <5>1. ~need.dup /\ need.class = Head(stack[t][k].todo).class /\ n >= 2
          BY <1>2, <3>1, <3>4, <4>3 DEF ToShare
        <5> QED BY <1>1, <1>2, <1>7, <4>1, <5>1, NotFound
      <4> QED BY <3>1, <3>4, <4>2, <4>3
    <3> QED BY <1>5, <3>2, <3>3, <3>4 DEF NextBuild
  <2> QED BY <2>1, <2>2
<1> QED BY <1>2, <1>3, <1>10, <1>11, SharedByOne

LEMMA DependShared ==
  ASSUME Acyclic, ShareInv, ~clashed, NEW t \in Threads, Building(t), Top(t).cal # None,
         Top(t).todo # <<>>, NEW dep \in Objects, Depend(t, dep),
         ~Head(Top(t).todo).dup => FirstOf(opened[t], Head(Top(t).todo).class, dep)
  PROVE  OldestShared'
<1> DEFINE cal == Top(t).cal
           n == Len(stack[t])
           m == Len(uses[cal])
           need == Head(Top(t).todo)
           f == [cal |-> cal, todo |-> Tail(Top(t).todo), child |-> None]
           r == opened[t]
<1>1. /\ pc[t] \in Inside /\ BuildInv /\ ScopeInv /\ Declared /\ OwnTree
      /\ UNCHANGED <<class, tree, opened>>
  BY DEF Building, Inside, ShareInv, ApartInv, BuildInv, Depend, objects
<1>2. /\ ApartInv /\ TypeOK /\ pc[t] # "idle" /\ n \in Nat \ {0} /\ n # 1
      /\ r \in Registries /\ scope.registry = r /\ Mine(t) /\ r # None /\ Top(t) = stack[t][n]
      /\ \A p \in Objects : tree[p] \in Registries /\ SharedUses(p)
      /\ \A k \in 2..n : SharedChild(t, stack[t][k])
  BY <1>1, SharerFacts
<1>3. n >= 2 /\ n \in 1..n /\ n \in 2..n
  <2> HIDE DEF n
  <2> QED BY <1>2
<1>4. /\ cal \in Objects /\ Objects' = Objects
      /\ Len(uses'[cal]) = m + 1 /\ uses'[cal][m + 1] = dep
      /\ \A i \in 1..m : uses'[cal][i] = uses[cal][i]
      /\ \A p \in Objects \ {cal} : uses'[p] = uses[p]
      /\ TopChanged(t, f) /\ OthersKeep(t)
  <2>1. stack[t] # <<>>
    BY <1>2, EmptySeq
  <2> QED BY <1>2, <2>1, DependEffect
<1>5. Filed(r, cal, dep) /\ RecordsTyped
  <2>1. dep \in {None} \cup Objects /\ AddToDependencyMap(t, cal, dep)
    BY DEF Depend
  <2> HIDE DEF cal
  <2> QED BY <1>2, <1>4, <2>1, AddEffect
<1>6. /\ \A q \in Registries : \A c : \A p : FirstOf(q, c, p) => FirstIn(edges'[q], class', c, p)
      /\ \A k \in 2..(n - 1) :
           ToShare(stack[t][k]) =>
             \A i \in 1..Len(edges'[r]) :
               class[edges'[r][i][1]] = Head(stack[t][k].todo).class
                 => edges'[r][i][1] = stack[t][k + 1].cal
  <2>1. cal = stack[t][n].cal
    BY <1>2
  <2> HIDE DEF cal
  <2> QED BY <1>1, <1>2, <1>3, <1>5, <2>1, FiledShared
<1>7. tree[cal] = r /\ m \in Nat /\ need = Needs[class[cal]][m + 1]
  <2>1. tree[cal] = r
    BY <1>1, <1>2, <1>3 DEF OwnTree
  <2>2. DeclBuild(stack[t][n])
    BY <1>1, <1>3 DEF Declared
  <2>3. Top(t).todo \in Seq(Need) /\ need = Top(t).todo[1] /\ stack[t] # <<>>
    <3>1. stack[t] # <<>>
      BY <1>2, EmptySeq
    <3> QED BY <1>2, <3>1, TopFacts
  <2>4. 1 \in 1..Len(Top(t).todo)
    <3>1. Len(Top(t).todo) \in Nat \ {0}
      BY <2>3, EmptySeq
    <3> QED BY <3>1
  <2>5. m \in Nat
    BY <1>2, <1>4 DEF TypeOK
  <2>6. Top(t).todo[1] = Needs[class[cal]][m + 1]
    BY <1>2, <2>2, <2>4 DEF DeclBuild
  <2> QED BY <2>1, <2>3, <2>5, <2>6
<1>8. f.cal = cal /\ f.child = None
  OBVIOUS
<1>9. /\ Len(stack'[t]) = n /\ stack'[t][n] = f
      /\ \A k \in 1..(n - 1) : stack'[t][k] = stack[t][k]
  BY <1>4 DEF TopChanged
<1>10. stack[t][n].cal = cal
  BY <1>2
<1>11. ~need.dup => FirstOf(r, need.class, dep)
  OBVIOUS
<1> HIDE DEF cal, n, m, need, f, r
<1>12. NextUses
  <2> SUFFICES ASSUME NEW p \in Objects, NEW i \in 1..Len(uses'[p]), ~Needs[class[p]][i].dup
               PROVE  FirstIn(edges'[tree[p]], class', Needs[class[p]][i].class, uses'[p][i])
    BY <1>1, <1>4 DEF NextUses
  <2>1. CASE i \in 1..Len(uses[p])
    <3>1. uses'[p][i] = uses[p][i]
      BY <1>4, <2>1 DEF m
    <3> QED BY <1>2, <1>6, <2>1, <3>1 DEF SharedUses
  <2>2. CASE ~(i \in 1..Len(uses[p]))
    <3>1. p = cal
      BY <1>4, <2>2
    <3>2. i = m + 1
      <4>1. i \in 1..(m + 1) /\ ~(i \in 1..m)
        BY <1>4, <2>2, <3>1 DEF m
      <4> QED BY <1>7, <4>1
    <3> QED BY <1>2, <1>4, <1>6, <1>7, <1>11, <3>1, <3>2
  <2> QED BY <2>1, <2>2
<1>13. ASSUME NEW k \in 2..Len(stack'[t]) PROVE NextBuild(t, k)
  <2>1. CASE k = n
    <3>1. ~(n < n)
      BY <1>2
    <3> QED BY <1>8, <1>9, <2>1, <3>1 DEF NextBuild
  <2>2. CASE k # n
    <3>1. k \in 2..n /\ k \in 2..(n - 1) /\ k \in 1..(n - 1) /\ (k + 1 = n \/ k + 1 \in 1..(n - 1))
      BY <1>2, <1>9, <2>2
    <3>2. stack'[t][k] = stack[t][k] /\ opened'[t] = r
      BY <1>1, <1>9, <3>1 DEF r
    <3>3. ToShare(stack[t][k]) /\ stack[t][k].child # None
            => FirstIn(edges'[r], class', Head(stack[t][k].todo).class, stack[t][k].child)
      BY <1>2, <1>6, <3>1 DEF SharedChild, r
    <3>4. stack'[t][k + 1].cal = stack[t][k + 1].cal
      BY <1>8, <1>9, <1>10, <3>1
    <3> QED BY <1>1, <1>6, <3>1, <3>2, <3>3, <3>4 DEF NextBuild
  <2> QED BY <2>1, <2>2
<1> QED BY <1>2, <1>4, <1>12, <1>13, SharedByOne

LEMMA RegisterShared ==
  ASSUME Acyclic, ShareInv, ~clashed, NEW t \in Threads, Register(t)
  PROVE  OldestShared'
<1> DEFINE cal == Top(t).cal
           n == Len(stack[t])
           r == opened[t]
<1>1. /\ pc[t] \in Inside /\ BuildInv /\ ScopeInv /\ Declared
      /\ UNCHANGED <<class, tree, opened, uses>>
  BY DEF Building, Inside, ShareInv, ApartInv, BuildInv, Register, objects
<1>2. /\ ApartInv /\ TypeOK /\ pc[t] # "idle" /\ n \in Nat \ {0} /\ Top(t) = stack[t][n]
      /\ r \in Registries /\ scope.registry = r /\ Mine(t) /\ r # None
      /\ \A p \in Objects : tree[p] \in Registries /\ SharedUses(p)
      /\ \A k \in 2..n : SharedChild(t, stack[t][k])
  BY <1>1, SharerFacts
<1>3. n >= 2 /\ cal \in Objects /\ Returned(t) /\ OthersKeep(t)
  BY <1>1, RegisterEffect
<1>4. Filed(r, cal, None) /\ RecordsTyped
  <2>1. None \in {None} \cup Objects /\ AddToDependencyMap(t, cal, None)
    BY DEF Register
  <2> HIDE DEF cal
  <2> QED BY <1>2, <1>3, <2>1, AddEffect
<1>5. cal = stack[t][n].cal
  BY <1>2
<1>6. /\ \A q \in Registries : \A c : \A p : FirstOf(q, c, p) => FirstIn(edges'[q], class', c, p)
      /\ \A k \in 2..(n - 1) :
           ToShare(stack[t][k]) =>
             \A i \in 1..Len(edges'[r]) :
               class[edges'[r][i][1]] = Head(stack[t][k].todo).class
                 => edges'[r][i][1] = stack[t][k + 1].cal
  <2> HIDE DEF cal
  <2> QED BY <1>1, <1>2, <1>3, <1>4, <1>5, FiledShared
<1>7. n - 1 \in 1..n /\ n - 1 < n /\ (n - 1) + 1 = n
  <2> HIDE DEF n
  <2> QED BY <1>2, <1>3
<1>8. /\ Len(stack'[t]) = n - 1
      /\ \A k \in 1..(n - 2) : stack'[t][k] = stack[t][k]
      /\ stack'[t][n - 1].cal = stack[t][n - 1].cal
      /\ stack'[t][n - 1].todo = stack[t][n - 1].todo
      /\ stack'[t][n - 1].child = cal
  <2>1. stack[t][n - 1] \in Frame
    BY <1>2, <1>7, ElementOfSeq DEF TypeOK
  <2> QED BY <1>3, <1>5, <2>1 DEF Returned, Frame
<1>9. class[cal] = Head(stack[t][n - 1].todo).class
  <2>1. DeclNext(stack[t][n - 1], stack[t][n])
    BY <1>1, <1>7 DEF Declared
  <2> QED BY <1>5, <2>1 DEF DeclNext
<1> HIDE DEF cal, n, r
<1>10. NextUses
  <2> SUFFICES ASSUME NEW p \in Objects, NEW i \in 1..Len(uses[p]), ~Needs[class[p]][i].dup
               PROVE  FirstIn(edges'[tree[p]], class', Needs[class[p]][i].class, uses[p][i])
    BY <1>1 DEF NextUses, Objects
  <2> QED BY <1>2, <1>6 DEF SharedUses
<1>11. ASSUME n - 1 >= 2, ToShare(stack[t][n - 1])
       PROVE  FirstIn(edges'[r], class', class[cal], cal)
  <2> DEFINE m == Len(edges'[r])
             S == {i \in 1..m : class[edges'[r][i][1]] = class[cal]}
  <2>1. m \in Nat /\ m \in 1..m /\ edges'[r][m][1] = cal
    <3>1. Len(edges[r]) \in Nat
      BY <1>2, ElementOfSeq DEF TypeOK, Registries
    <3>2. m = Len(edges[r]) + 1 /\ edges'[r][Len(edges[r]) + 1] = <<cal, None>>
      BY <1>2, <1>4 DEF Filed
    <3> QED BY <3>1, <3>2
  <2>2. \A i \in S : edges'[r][i][1] = cal
    <3>1. n - 1 \in 2..(n - 1)
      BY <1>2, <1>11
    <3> QED BY <1>5, <1>6, <1>7, <1>9, <1>11, <3>1
  <2>3. m \in S /\ S \in SUBSET Nat
    BY <2>1
  <2>4. PICK i \in S : \A j \in S : i <= j
    BY <2>3, NatMin
  <2>5. i \in 1..m /\ edges'[r][i][1] = cal
    BY <2>2
  <2>6. \A j \in 1..(i - 1) : class[edges'[r][j][1]] # class[cal]
    <3>1. \A j \in 1..(i - 1) : j \in 1..m /\ ~(i <= j)
      BY <2>1, <2>5
    <3> QED BY <2>4, <3>1
  <2> QED BY <1>1, <2>5, <2>6 DEF FirstIn
<1>12. ASSUME NEW k \in 2..Len(stack'[t]) PROVE NextBuild(t, k)
  <2>0. k \in 2..(n - 1) /\ k \in 2..n /\ k \in 1..(n - 1) /\ k >= 2
    BY <1>2, <1>8
  <2>1. CASE k = n - 1
    <3>1. ~(n - 1 < n - 1)
      BY <1>2
    <3>2. ToShare(stack'[t][k]) <=> ToShare(stack[t][n - 1])
      BY <1>8, <2>1 DEF ToShare
    <3> QED BY <1>1, <1>8, <1>9, <1>11, <2>0, <2>1, <3>1, <3>2 DEF NextBuild, r
  <2>2. CASE k # n - 1
    <3>1. k \in 1..(n - 2) /\ (k + 1 = n - 1 \/ k + 1 \in 1..(n - 2))
      BY <1>2, <2>0, <2>2
    <3>2. stack'[t][k] = stack[t][k] /\ opened'[t] = r
      BY <1>1, <1>8, <3>1 DEF r
    <3>3. ToShare(stack[t][k]) /\ stack[t][k].child # None
            => FirstIn(edges'[r], class', Head(stack[t][k].todo).class, stack[t][k].child)
      BY <1>2, <1>6, <2>0 DEF SharedChild, r
    <3>4. stack'[t][k + 1].cal = stack[t][k + 1].cal
      BY <1>8, <3>1
    <3> QED BY <1>1, <1>6, <2>0, <3>2, <3>3, <3>4 DEF NextBuild
  <2> QED BY <2>1, <2>2
<1> QED BY <1>2, <1>3, <1>10, <1>12, SharedByOne

LEMMA OpenShared ==
  ASSUME ShareInv, ~clashed, NEW t \in Threads, OpenRegistry(t)
  PROVE  OldestShared'
<1>1. /\ ApartInv /\ ScopeInv /\ TypeOK /\ Nested /\ OldestShared
      /\ pc[t] # "idle" /\ UNCHANGED <<class, uses, tree, stack>>
  BY DEF ShareInv, ApartInv, BuildInv, ScopeInv, OpenRegistry, objects
<1>2. OthersKeep(t) /\ \A q \in Registries : edges'[q] = edges[q]
  BY <1>1, OpenEffect
<1>3. NextUses
  <2> SUFFICES ASSUME NEW p \in Objects, NEW i \in 1..Len(uses[p]), ~Needs[class[p]][i].dup
               PROVE  FirstIn(edges'[tree[p]], class, Needs[class[p]][i].class, uses[p][i])
    BY <1>1 DEF NextUses, Objects
  <2>1. tree[p] \in Registries /\ FirstIn(edges[tree[p]], class, Needs[class[p]][i].class, uses[p][i])
    BY <1>1 DEF OldestShared, SharedUses, TypeOK, FirstOf
  <2> QED BY <1>2, <2>1
<1>4. 2..Len(stack'[t]) = {}
  <2>1. Len(stack'[t]) = 1 /\ 2..1 = {}
    BY <1>1 DEF Nested, OpenRegistry
  <2> QED BY <2>1
<1> QED BY <1>1, <1>2, <1>3, <1>4, SharedByOne

LEMMA SharedStep ==
  ASSUME Acyclic, ShareInv, NEW t \in Threads, Step(t)
  PROVE  OldestShared'
<1>1. ApartInv /\ BuildInv /\ ScopeInv /\ Declared /\ TypeOK /\ Nested /\ OldestShared
  BY DEF ShareInv, ApartInv, BuildInv, ScopeInv
<1>2. 2..1 = {}
  OBVIOUS
<1>3. SUFFICES ASSUME ~clashed' PROVE OldestShared'
  BY DEF OldestShared
<1>4. ~clashed
  BY <1>3 DEF Step, TestDepth, OpenRegistry, Claim, Construct, Share, Wire, Depend, Attached,
              Register, Leave, Raise, Unwind
<1>5. CASE TestDepth(t)
  <2>1. /\ Len(stack'[t]) = 1 /\ OthersKeep(t)
        /\ UNCHANGED <<edges, class, uses, tree, opened>>
    BY <1>1, <1>5, TestDepthEffect DEF TestDepth, objects, records
  <2> QED BY <1>1, <1>2, <1>4, <2>1, SharedKept
<1>6. CASE OpenRegistry(t)
  BY <1>4, <1>6, OpenShared
<1>7. CASE (Claim(t) \/ Raise(t))
  <2>1. UNCHANGED <<edges, class, uses, tree, opened, stack, clashed>>
    BY <1>7 DEF Claim, Raise, objects, records
  <2> QED BY <1>1, <2>1 DEF OldestShared, SharedUses, SharedChild, SharedNext, FirstOf, ToShare, Objects
<1>8. CASE Construct(t)
  BY <1>4, <1>8, ConstructShared
<1>9. CASE Share(t)
  <2>1. /\ Building(t) /\ pc[t] \in Inside /\ Top(t).cal # None /\ Top(t).todo # <<>>
        /\ scope.registry \in Registries /\ Found(t) \in Objects /\ Found(t) # None
        /\ Depend(t, Found(t))
    BY <1>1, <1>9, ShareFacts
  <2>2. scope.registry = opened[t]
    BY <1>4, <2>1, SharerFacts
  <2> DEFINE c == Head(Top(t).todo).class
             r == scope.registry
  <2>3. Found(t) = Oldest(r, c)
    BY DEF Found
  <2> HIDE DEF c, r
  <2>4. FirstOf(r, c, Oldest(r, c))
    <3>1. r \in Registries /\ Oldest(r, c) # None
      BY <2>1, <2>3 DEF r
    <3> QED BY <1>1, <3>1, FoundFacts DEF FirstOf, FirstIn
  <2>5. FirstOf(opened[t], Head(Top(t).todo).class, Found(t))
    BY <2>2, <2>3, <2>4 DEF c, r
  <2> QED BY <1>4, <2>1, <2>5, DependShared
<1>10. CASE Wire(t)
  <2>1. Top(t).todo # <<>>
    BY <1>1, <1>10, TopWaiting
  <2>2. /\ Building(t) /\ pc[t] \in Inside /\ Top(t).cal # None /\ Top(t).child \in Objects
        /\ Depend(t, Top(t).child) /\ Top(t).child # None
    BY <1>1, <1>10, <2>1, WireFacts DEF Wire
  <2> DEFINE n == Len(stack[t])
  <2>3. /\ n \in Nat \ {0} /\ Top(t) = stack[t][n] /\ n # 1
        /\ \A k \in 2..n : SharedChild(t, stack[t][k])
    BY <1>4, <2>2, SharerFacts
  <2>4. n \in 2..n
    <3> HIDE DEF n
    <3> QED BY <2>3
  <2>5. ~Head(Top(t).todo).dup => FirstOf(opened[t], Head(Top(t).todo).class, Top(t).child)
    BY <2>1, <2>2, <2>3, <2>4 DEF SharedChild, ToShare
  <2> QED BY <1>4, <2>1, <2>2, <2>5, DependShared
<1>11. CASE Attached(t)
  <2>1. Top(t).todo # <<>>
    BY <1>1, <1>11, TopWaiting
  <2> DEFINE f == [cal |-> None, todo |-> Tail(Top(t).todo), child |-> None]
  <2>2. TopChanged(t, f) /\ OthersKeep(t)
    BY <1>1, <1>11, <2>1, AttachedEffect
  <2>3. Len(stack[t]) = 1
    BY <1>1, <1>11, TopNested DEF Attached, Building
  <2> HIDE DEF f
  <2>4. Len(stack'[t]) = 1
    BY <2>2, <2>3 DEF TopChanged
  <2>5. UNCHANGED <<edges, class, uses, tree, opened>>
    BY <1>11 DEF Attached, objects, records
  <2> QED BY <1>1, <1>2, <1>4, <2>2, <2>4, <2>5, SharedKept
<1>12. CASE Register(t)
  BY <1>4, <1>12, RegisterShared
<1>13. CASE (Leave(t) \/ Unwind(t))
  <2> DEFINE n == Len(stack[t])
  <2>1. /\ Popped(t) /\ OthersKeep(t) /\ UNCHANGED <<edges, class, uses, tree, opened>>
        /\ n \in Nat \ {0} /\ pc[t] \in Inside
    BY <1>1, <1>13, EndEffect DEF Leave, Unwind, objects, records
  <2>2. Len(stack'[t]) = n - 1 /\ \A i \in 1..(n - 1) : stack'[t][i] = stack[t][i]
    BY <2>1 DEF Popped
  <2>3. \A k \in 2..n : /\ SharedChild(t, stack[t][k])
                        /\ k < n => SharedNext(t, stack[t][k], stack[t][k + 1])
    BY <1>4, <2>1, SharerFacts
  <2> HIDE DEF n
  <2>4. ASSUME NEW k \in 2..Len(stack'[t])
        PROVE  /\ SharedChild(t, stack'[t][k])
               /\ k < Len(stack'[t]) => SharedNext(t, stack'[t][k], stack'[t][k + 1])
    <3>1. /\ k \in 2..n /\ k < n /\ k \in 1..(n - 1)
          /\ k < n - 1 => k + 1 \in 1..(n - 1)
      BY <2>1, <2>2
    <3> QED BY <2>2, <2>3, <3>1
  <2> QED BY <1>1, <1>4, <2>1, <2>4, SharedKept
<1> QED BY <1>5, <1>6, <1>7, <1>8, <1>9, <1>10, <1>11, <1>12, <1>13 DEF Step

LEMMA DescendingStep ==
  ASSUME Acyclic, DeclInv, Descending, NEW t \in Threads, Step(t)
  PROVE  Descending'
<1>1. BuildInv /\ ScopeInv /\ TypeOK /\ Nested /\ Len(stack[t]) \in Nat
  BY DEF DeclInv, BuildInv, ScopeInv, TypeOK
<1>2. 2..1 = {}
  OBVIOUS
<1>3. CASE Construct(t)
  BY <1>3, ConstructDescending
<1>4. CASE (OpenRegistry(t) \/ Claim(t) \/ Raise(t))
  <2>1. stack' = stack /\ class' = class
    BY <1>4 DEF OpenRegistry, Claim, Raise, objects
  <2> QED BY <2>1 DEF Descending
<1>5. CASE TestDepth(t)
  <2>1. Len(stack'[t]) = 1 /\ OthersKeep(t) /\ class' = class
    BY <1>1, <1>5, TestDepthEffect DEF TestDepth, objects
  <2> QED BY <1>2, <2>1, DescendingKept
<1>6. CASE (Share(t) \/ Wire(t))
  <2> DEFINE f == [cal |-> Top(t).cal, todo |-> Tail(Top(t).todo), child |-> None]
             n == Len(stack[t])
  <2>1. TopChanged(t, f) /\ OthersKeep(t) /\ class' = class /\ Top(t) = stack[t][n]
    <3>1. /\ Building(t) /\ Top(t).cal # None /\ Top(t).todo # <<>> /\ stack[t] # <<>>
          /\ \E dep \in Objects : Depend(t, dep)
      <4>1. CASE Share(t)
        BY <1>1, <4>1, ShareFacts
      <4>2. CASE Wire(t)
        BY <1>1, <4>2, TopWaiting, WireFacts
      <4> QED BY <1>6, <4>1, <4>2
    <3>2. PICK dep \in Objects : Depend(t, dep)
      BY <3>1
    <3>3. TopChanged(t, f) /\ OthersKeep(t)
      BY <1>1, <3>1, <3>2, DependEffect
    <3> QED BY <1>1, <3>1, <3>2, <3>3, TopFacts DEF Depend, objects
  <2>2. f.cal = stack[t][n].cal
    BY <2>1
  <2> HIDE DEF f
  <2>3. /\ Len(stack'[t]) = n /\ stack'[t][n] = f
        /\ \A k \in 1..(n - 1) : stack'[t][k] = stack[t][k]
    BY <2>1 DEF TopChanged
  <2> HIDE DEF n
  <2>4. \A k \in 2..n : k = n \/ k \in 1..(n - 1)
    BY <1>1 DEF n
  <2>5. \A k \in 2..Len(stack'[t]) : k \in 2..Len(stack[t]) /\ stack'[t][k].cal = stack[t][k].cal
    BY <2>2, <2>3, <2>4 DEF n
  <2> QED BY <2>1, <2>5, DescendingKept
<1>7. CASE Attached(t)
  <2> DEFINE f == [cal |-> None, todo |-> Tail(Top(t).todo), child |-> None]
  <2>1. TopChanged(t, f) /\ OthersKeep(t) /\ class' = class
    BY <1>1, <1>7, TopWaiting, AttachedEffect DEF Attached, objects
  <2>2. Len(stack[t]) = 1
    BY <1>1, <1>7, TopNested DEF Attached, Building
  <2> HIDE DEF f
  <2>3. Len(stack'[t]) = 1
    BY <2>1, <2>2 DEF TopChanged
  <2> QED BY <1>2, <2>1, <2>3, DescendingKept
<1>8. CASE Register(t)
  <2> DEFINE n == Len(stack[t])
  <2>1. /\ n >= 2 /\ Returned(t) /\ OthersKeep(t) /\ class' = class
    BY <1>1, <1>8, RegisterEffect DEF Register, objects
  <2>2. stack[t][n - 1] \in Frame
    <3>1. n - 1 \in 1..n
      <4> HIDE DEF n
      <4> QED BY <1>1, <2>1 DEF n
    <3> QED BY <1>1, <3>1, ElementOfSeq DEF TypeOK
  <2>3. /\ Len(stack'[t]) = n - 1
        /\ \A k \in 1..(n - 2) : stack'[t][k] = stack[t][k]
        /\ stack'[t][n - 1].cal = stack[t][n - 1].cal
    BY <2>1, <2>2 DEF Returned, Frame
  <2> HIDE DEF n
  <2>4. \A k \in 2..(n - 1) : k \in 2..n /\ (k = n - 1 \/ k \in 1..(n - 2))
    BY <1>1 DEF n
  <2>5. \A k \in 2..Len(stack'[t]) : k \in 2..Len(stack[t]) /\ stack'[t][k].cal = stack[t][k].cal
    BY <2>3, <2>4 DEF n
  <2> QED BY <2>1, <2>5, DescendingKept
<1>9. CASE (Leave(t) \/ Unwind(t))
  <2> DEFINE n == Len(stack[t])
  <2>1. Popped(t) /\ OthersKeep(t) /\ class' = class
    BY <1>1, <1>9, EndEffect DEF Leave, Unwind, objects
  <2>2. Len(stack'[t]) = n - 1 /\ \A i \in 1..(n - 1) : stack'[t][i] = stack[t][i]
    BY <2>1 DEF Popped
  <2> HIDE DEF n
  <2>3. \A k \in 2..(n - 1) : k \in 2..n /\ k \in 1..(n - 1)
    BY <1>1 DEF n
  <2>4. \A k \in 2..Len(stack'[t]) : k \in 2..Len(stack[t]) /\ stack'[t][k].cal = stack[t][k].cal
    BY <2>2, <2>3 DEF n
  <2> QED BY <2>1, <2>4, DescendingKept
<1> QED BY <1>3, <1>4, <1>5, <1>6, <1>7, <1>8, <1>9 DEF Step

LEMMA ShareInvInit == Init => ShareInv
<1> SUFFICES ASSUME Init PROVE ShareInv
  OBVIOUS
<1>1. Objects = {} /\ Registries = {} /\ \A t \in Threads : stack[t] = <<>>
  BY DEF Init, Objects, Registries
<1>2. Len(<<>>) = 0 /\ 2..0 = {}
  OBVIOUS
<1>3. Alone /\ OwnTree
  BY <1>1 DEF Init, Alone, OwnTree, Inside
<1>4. Descending
  BY <1>1, <1>2 DEF Descending
<1>5. OldestShared
  BY <1>1, <1>2 DEF OldestShared
<1> QED BY <1>3, <1>4, <1>5, DeclInvInit DEF ShareInv, ApartInv, DeclInv

LEMMA ShareInvStep ==
  ASSUME Acyclic
  PROVE  ShareInv /\ [Next]_vars => ShareInv'
<1> SUFFICES ASSUME ShareInv, [Next]_vars PROVE ShareInv'
  OBVIOUS
<1>1. ApartInv /\ DeclInv /\ Descending /\ OldestShared
  BY DEF ShareInv, DeclInv, ApartInv
<1>2. ApartInv' /\ DeclInv'
  BY <1>1, ApartInvStep, DeclInvStep
<1>3. ASSUME NEW t \in Threads, Step(t) PROVE Descending' /\ OldestShared'
  BY <1>1, <1>3, DescendingStep, SharedStep
<1>4. CASE (UNCHANGED vars \/ \E r \in Registries : ReadGraph(r))
  <2>1. UNCHANGED <<class, uses, stack, tree, edges, opened, clashed>>
    BY <1>4 DEF vars, ReadGraph, objects
  <2>2. Descending'
    BY <1>1, <2>1 DEF Descending
  <2>3. OldestShared'
    BY <1>1, <2>1 DEF OldestShared, SharedUses, SharedChild, SharedNext, FirstOf, ToShare, Objects
  <2> QED BY <1>2, <2>2, <2>3 DEF ShareInv, DeclInv
<1>5. CASE \E t \in Threads : Step(t)
  BY <1>2, <1>3, <1>5 DEF ShareInv, DeclInv
<1> QED BY <1>4, <1>5 DEF Next

(* Unless a class comes, through the classes it needs, to need itself, all *)
(* who depend on a class within a tree, and asked for no duplicate, use    *)
(* one calibration: the one that was registered first (calibrations_of_type*)
(* and add_dependency).                                                    *)
THEOREM OneForAllHolds ==
  ASSUME Acyclic
  PROVE  Spec => []OneForAll
<1>1. ShareInv => OneForAll
  <2> SUFFICES ASSUME ShareInv, ~clashed,
                      NEW o \in Objects, NEW p \in Objects,
                      NEW i \in 1..Len(uses[o]), NEW j \in 1..Len(uses[p]),
                      tree[o] = tree[p], Needs[class[o]][i].class = Needs[class[p]][j].class,
                      ~Needs[class[o]][i].dup, ~Needs[class[p]][j].dup
               PROVE  uses[o][i] = uses[p][j]
    BY DEF OneForAll
  <2>1. TypeOK /\ tree[o] \in Registries /\ SharedUses(o) /\ SharedUses(p)
    BY DEF ShareInv, ApartInv, BuildInv, ScopeInv, OldestShared, TypeOK
  <2>2. /\ FirstOf(tree[o], Needs[class[o]][i].class, uses[o][i])
        /\ FirstOf(tree[o], Needs[class[o]][i].class, uses[p][j])
    BY <2>1 DEF SharedUses
  <2> QED BY <2>1, <2>2, FirstUnique
<1> QED BY <1>1, ShareInvInit, ShareInvStep, PTL DEF Spec

-------------------------------------------------------------------------------
(* Walk orders of a graph without cycles (DependencyGraph). *)

(* Induction over the numbers of a set. *)
LEMMA AllNumbers ==
  ASSUME NEW S \in SUBSET Nat, 0 \in S, \A n \in S : n + 1 \in S
  PROVE  S = Nat
<1>1. ASSUME NEW m \in Nat \ S, \A n \in Nat \ S : m <= n PROVE FALSE
  <2>1. m # 0 /\ m \in Nat
    BY <1>1
  <2>2. m - 1 \in Nat /\ ~(m <= m - 1) /\ (m - 1) + 1 = m
    BY <2>1
  <2>3. m - 1 \in S
    BY <1>1, <2>2
  <2> QED BY <1>1, <2>2, <2>3
<1>2. Nat \ S # {} => \E m \in Nat \ S : \A n \in Nat \ S : m <= n
  BY NatMin
<1> QED BY <1>1, <1>2

(* What is done again and again is a function of how often. *)
Iterable(D, F, x) == \E g \in [Nat -> D] : g[0] = x /\ \A k \in Nat : g[k + 1] = F[g[k]]

LEMMA Iterates ==
  ASSUME NEW D, NEW F \in [D -> D], NEW x \in D
  PROVE  Iterable(D, F, x)
<1> DEFINE Runs(n, h) == h \in [0..n -> D] /\ h[0] = x /\ \A k \in 0..(n - 1) : h[k + 1] = F[h[k]]
<1>1. \A n \in Nat : \E h : Runs(n, h)
  <2> DEFINE S == {n \in Nat : \E h : Runs(n, h)}
  <2>1. 0 \in S
    <3>1. Runs(0, [k \in 0..0 |-> x])
      OBVIOUS
    <3> QED BY <3>1
  <2>2. ASSUME NEW n \in S PROVE n + 1 \in S
    <3>1. PICK h : Runs(n, h)
      OBVIOUS
    <3> DEFINE j == [k \in 0..(n + 1) |-> IF k = n + 1 THEN F[h[n]] ELSE h[k]]
    <3>2. n \in Nat /\ n \in 0..n /\ n + 1 \in 0..(n + 1) /\ 0 \in 0..n
          /\ (\A k \in 0..(n + 1) : k = n + 1 \/ k \in 0..n)
          /\ (\A k \in 0..n : k # n + 1 /\ (k + 1 = n + 1 <=> k = n))
          /\ (\A k \in 0..n : k = n \/ k \in 0..(n - 1))
      OBVIOUS
    <3>3. h[n] \in D /\ \A k \in 0..n : h[k] \in D
      BY <3>1, <3>2
    <3>4. j \in [0..(n + 1) -> D]
      BY <3>2, <3>3
    <3>5. j[0] = x
      BY <3>1, <3>2
    <3>6. ASSUME NEW k \in 0..((n + 1) - 1) PROVE j[k + 1] = F[j[k]]
      <4>1. k \in 0..n /\ k + 1 \in 0..(n + 1) /\ k \in 0..(n + 1)
        BY <3>2
      <4>2. j[k] = h[k]
        BY <3>2, <4>1
      <4>3. CASE k = n
        BY <3>2, <4>1, <4>2, <4>3
      <4>4. CASE k # n
        BY <3>1, <3>2, <4>1, <4>2, <4>4
      <4> QED BY <4>3, <4>4
    <3>7. Runs(n + 1, j)
      BY <3>4, <3>5, <3>6
    <3> HIDE DEF j
    <3> QED BY <3>2, <3>7
  <2> HIDE DEF S
  <2>3. S = Nat
    BY <2>1, <2>2, AllNumbers DEF S
  <2> QED BY <2>3 DEF S
<1>2. ASSUME NEW n \in Nat, NEW m \in Nat, NEW h, NEW i, Runs(n, h), Runs(m, i), n <= m
      PROVE  \A k \in 0..n : h[k] = i[k]
  <2> DEFINE S == {k \in Nat : k <= n => h[k] = i[k]}
  <2>1. 0 \in S
    BY <1>2
  <2>2. ASSUME NEW k \in S PROVE k + 1 \in S
    <3>1. k + 1 <= n => k \in 0..(n - 1) /\ k \in 0..(m - 1) /\ k <= n
      BY <1>2
    <3>2. k + 1 <= n => h[k] = i[k] /\ h[k + 1] = F[h[k]] /\ i[k + 1] = F[i[k]]
      BY <1>2, <3>1
    <3> QED BY <3>2
  <2> HIDE DEF S
  <2>3. S = Nat
    BY <2>1, <2>2, AllNumbers DEF S
  <2> QED BY <2>3 DEF S
<1> DEFINE run(n) == CHOOSE h : Runs(n, h)
           g == [n \in Nat |-> run(n)[n]]
<1>3. \A n \in Nat : Runs(n, run(n))
  BY <1>1
<1> HIDE DEF run
<1>4. g \in [Nat -> D]
  <2>1. \A n \in Nat : n \in 0..n
    OBVIOUS
  <2> QED BY <1>3, <2>1
<1>5. g[0] = x
  BY <1>3
<1>6. ASSUME NEW k \in Nat PROVE g[k + 1] = F[g[k]]
  <2>1. k + 1 \in Nat /\ k <= k + 1 /\ k \in 0..k /\ k \in 0..((k + 1) - 1)
    OBVIOUS
  <2>2. Runs(k, run(k)) /\ Runs(k + 1, run(k + 1))
    BY <1>3, <2>1
  <2>3. run(k)[k] = run(k + 1)[k]
    <3> HIDE DEF Runs
    <3> QED BY <1>2, <2>1, <2>2
  <2>4. run(k + 1)[k + 1] = F[run(k + 1)[k]]
    BY <2>1, <2>2
  <2> QED BY <2>1, <2>3, <2>4
<1> HIDE DEF g
<1> QED BY <1>4, <1>5, <1>6 DEF Iterable

(* _reachable_nodes gives the targets and all that these depend on.        *)
LEMMA ReachableUnfolds ==
  ASSUME NEW G, NEW S, NEW g,
         g = [k \in Nat |-> IF k = 0 THEN S ELSE g[k - 1] \cup Successors(G, g[k - 1])]
  PROVE  \E w : /\ w = [k \in Nat |-> IF k = 0 THEN S ELSE w[k - 1] \cup Successors(G, w[k - 1])]
               /\ Reachable(G, S) = w[Cardinality(G.node)]
BY DEF Reachable

LEMMA ReachableFacts ==
  ASSUME NEW G, IsFiniteSet(G.node), G.edge \subseteq G.node \X G.node,
         NEW S \in SUBSET G.node, S # {}
  PROVE  /\ Reachable(G, S) \in SUBSET G.node /\ S \subseteq Reachable(G, S)
         /\ \A e \in G.edge : e[1] \in Reachable(G, S) => e[2] \in Reachable(G, S)
         /\ \A n \in Reachable(G, S) \ S : \E e \in G.edge : e[1] \in Reachable(G, S) /\ e[2] = n
<1> DEFINE D == SUBSET G.node
           F == [X \in D |-> X \cup Successors(G, X)]
           N == Cardinality(G.node)
<1>1. N \in Nat /\ \A X \in D : IsFiniteSet(X) /\ Cardinality(X) \in Nat /\ Cardinality(X) <= N
  BY FS_CardinalityType, FS_Subset
<1>2. \A X \in D : Successors(G, X) \in D
  <2>1. \A e \in G.edge : e[2] \in G.node
    OBVIOUS
  <2> QED BY <2>1 DEF Successors
<1>3. F \in [D -> D]
  BY <1>2
<1>4. PICK w : /\ w = [k \in Nat |-> IF k = 0 THEN S ELSE w[k - 1] \cup Successors(G, w[k - 1])]
               /\ Reachable(G, S) = w[N]
  <2>1. PICK g \in [Nat -> D] : g[0] = S /\ \A k \in Nat : g[k + 1] = F[g[k]]
    <3>1. S \in D
      OBVIOUS
    <3> HIDE DEF D, F
    <3>2. Iterable(D, F, S)
      BY <1>3, <3>1, Iterates
    <3> QED BY <3>2 DEF Iterable
  <2>2. \A k \in Nat : g[k + 1] = g[k] \cup Successors(G, g[k])
    BY <2>1
  <2>3. ASSUME NEW k \in Nat
        PROVE  g[k] = IF k = 0 THEN S ELSE g[k - 1] \cup Successors(G, g[k - 1])
    <3>1. CASE k = 0
      BY <2>1, <3>1
    <3>2. CASE k # 0
      <4>1. k - 1 \in Nat /\ (k - 1) + 1 = k
        BY <3>2
      <4> QED BY <2>2, <3>2, <4>1
    <3> QED BY <3>1, <3>2
  <2>4. g = [k \in Nat |-> IF k = 0 THEN S ELSE g[k - 1] \cup Successors(G, g[k - 1])]
    BY <2>3
  <2> QED BY <2>4, ReachableUnfolds
<1>5. w[0] = S /\ \A k \in Nat : w[k + 1] = w[k] \cup Successors(G, w[k])
  <2>1. w[0] = S
    BY <1>4
  <2>2. ASSUME NEW k \in Nat PROVE w[k + 1] = w[k] \cup Successors(G, w[k])
    <3>1. k + 1 \in Nat /\ k + 1 # 0 /\ (k + 1) - 1 = k
      OBVIOUS
    <3> QED BY <1>4, <3>1
  <2> QED BY <2>1, <2>2
<1> DEFINE Used(X) == \A n \in X \ S : \E e \in G.edge : e[1] \in X /\ e[2] = n
           Grown(k) == Successors(G, w[k]) \subseteq w[k] \/ Cardinality(w[k]) >= k + 1
           Good == {k \in Nat : w[k] \in D /\ S \subseteq w[k] /\ Used(w[k]) /\ Grown(k)}
<1>6. 0 \in Good
  <2>1. Cardinality(S) >= 0 + 1
    <3>1. Cardinality(S) # 0
      BY <1>1, FS_EmptySet
    <3> QED BY <1>1, <3>1
  <2> QED BY <1>5, <2>1
<1>7. ASSUME NEW k \in Good PROVE k + 1 \in Good
  <2>1. k \in Nat /\ w[k] \in D /\ S \subseteq w[k] /\ Used(w[k]) /\ Grown(k)
    OBVIOUS
  <2>2. w[k + 1] = w[k] \cup Successors(G, w[k]) /\ w[k + 1] \in D /\ S \subseteq w[k + 1]
    BY <1>2, <1>5, <2>1
  <2>3. Used(w[k + 1])
    <3>1. \A n \in Successors(G, w[k]) : \E e \in G.edge : e[1] \in w[k] /\ e[2] = n
      BY DEF Successors
    <3> QED BY <2>1, <2>2, <3>1
  <2>4. Grown(k + 1)
    <3>1. CASE Successors(G, w[k]) \subseteq w[k]
      <4>1. w[k + 1] = w[k]
        BY <2>2, <3>1
      <4> QED BY <3>1, <4>1
    <3>2. CASE ~(Successors(G, w[k]) \subseteq w[k])
      <4>1. Cardinality(w[k]) >= k + 1
        BY <2>1, <3>2
      <4>2. w[k] \in SUBSET w[k + 1] /\ w[k] # w[k + 1]
        BY <2>2, <3>2
      <4>3. Cardinality(w[k]) <= Cardinality(w[k + 1]) /\ Cardinality(w[k]) # Cardinality(w[k + 1])
        BY <1>1, <2>2, <4>2, FS_Subset
      <4>4. Cardinality(w[k + 1]) \in Nat /\ Cardinality(w[k]) \in Nat
        BY <1>1, <2>1, <2>2
      <4>5. Cardinality(w[k + 1]) >= (k + 1) + 1
        BY <2>1, <4>1, <4>3, <4>4
      <4> QED BY <4>5
    <3> QED BY <3>1, <3>2
  <2> HIDE DEF Used, Grown, D
  <2> QED BY <2>1, <2>2, <2>3, <2>4
<1>8. N \in Good
  <2> HIDE DEF Good
  <2>1. Good = Nat
    <3>1. Good \in SUBSET Nat
      BY DEF Good
    <3> QED BY <1>6, <1>7, <3>1, AllNumbers
  <2> QED BY <1>1, <2>1
<1>9. Successors(G, w[N]) \subseteq w[N]
  <2>1. w[N] \in D /\ Grown(N)
    BY <1>8
  <2>2. ~(Cardinality(w[N]) >= N + 1)
    BY <1>1, <2>1
  <2> QED BY <2>1, <2>2
<1>10. \A e \in G.edge : e[1] \in w[N] => e[2] \in w[N]
  BY <1>9 DEF Successors
<1>11. w[N] \in SUBSET G.node /\ S \subseteq w[N] /\ Used(w[N])
  BY <1>8
<1> QED BY <1>4, <1>10, <1>11, ZenonT(30)

(* A finite set, laid out. *)
LEMMA SetToSeqFacts ==
  ASSUME NEW T, IsFiniteSet(T)
  PROVE  /\ SetToSeq(T) \in Seq(T) /\ Len(SetToSeq(T)) = Cardinality(T) /\ Cardinality(T) \in Nat
         /\ \A i, j \in 1..Cardinality(T) : SetToSeq(T)[i] = SetToSeq(T)[j] => i = j
         /\ \A x \in T : \E i \in 1..Cardinality(T) : SetToSeq(T)[i] = x
<1> DEFINE n == Cardinality(T)
           s == SetToSeq(T)
<1>1. n \in Nat /\ ExistsBijection(1..n, T)
  BY FS_CardinalityType
<1>2. s \in [1..n -> T] /\ IsInjective(s)
  <2>1. \E f \in [1..n -> T] : IsInjective(f)
    BY <1>1 DEF ExistsBijection, Bijection, Injection
  <2> QED BY <2>1 DEF SetToSeq
<1> HIDE DEF n, s
<1>3. IsFiniteSet(1..n) /\ Cardinality(1..n) = n
  BY <1>1, FS_Interval
<1>4. s \in Injection(1..n, T)
  BY <1>2 DEF Injection
<1>5. s \in Surjection(1..n, T)
  BY <1>3, <1>4, FS_Injection DEF n
<1>6. s \in Seq(T) /\ Len(s) = n
  BY <1>1, <1>2, FunctionIsSeq
<1>7. \A i, j \in 1..n : s[i] = s[j] => i = j
  BY <1>2 DEF IsInjective
<1>8. \A x \in T : \E i \in 1..n : s[i] = x
  BY <1>5 DEF Surjection
<1> QED BY <1>1, <1>6, <1>7, <1>8 DEF n, s

LEMMA InjectiveLength ==
  ASSUME NEW T, NEW s \in Seq(T), \A i, j \in 1..Len(s) : s[i] = s[j] => i = j
  PROVE  IsFiniteSet(ToSet(s)) /\ Cardinality(ToSet(s)) = Len(s)
<1> DEFINE n == Len(s)
<1>1. n \in Nat /\ s \in [1..n -> T] /\ ToSet(s) = {s[i] : i \in 1..n}
  BY LenProperties DEF ToSet
<1> HIDE DEF n
<1>2. s \in Bijection(1..n, ToSet(s))
  <2>1. s \in [1..n -> ToSet(s)]
    BY <1>1
  <2>2. IsInjective(s)
    BY <1>1 DEF IsInjective, n
  <2>3. s \in Surjection(1..n, ToSet(s))
    BY <1>1, <2>1 DEF Surjection
  <2> QED BY <2>1, <2>2, <2>3 DEF Bijection, Injection
<1>3. IsFiniteSet(1..n) /\ Cardinality(1..n) = n
  BY <1>1, FS_Interval
<1>4. ExistsBijection(1..n, ToSet(s))
  BY <1>2 DEF ExistsBijection
<1> QED BY <1>3, <1>4, FS_Bijection DEF n

(* Some calibration of a set is of the highest rank. *)
LEMMA HighestRank ==
  ASSUME NEW T, T # {}, NEW f, NEW b \in Nat, \A x \in T : f[x] \in Nat /\ f[x] <= b
  PROVE  \E x \in T : \A y \in T : f[y] <= f[x]
<1> DEFINE S == {b - f[x] : x \in T}
<1>1. S \in SUBSET Nat /\ S # {}
  OBVIOUS
<1>2. PICK m \in S : \A k \in S : m <= k
  <2> HIDE DEF S
  <2> QED BY <1>1, NatMin
<1>3. PICK x \in T : m = b - f[x]
  OBVIOUS
<1>4. ASSUME NEW y \in T PROVE f[y] <= f[x]
  <2>1. b - f[x] <= b - f[y]
    BY <1>2, <1>3
  <2> QED BY <2>1
<1> QED BY <1>4

(* Those who can be laid out next, and a part of an order. *)
ReadyIn(G, nodes, seen) ==
  {n \in nodes \ seen : \A e \in G.edge : e[1] \in nodes \ seen => e[2] # n}

Sorted(G, nodes, s) ==
  /\ s \in Seq(nodes)
  /\ \A i, j \in 1..Len(s) : s[i] = s[j] => i = j
  /\ \A i \in 1..Len(s) : \A e \in G.edge :
       e[1] \in nodes /\ e[2] = s[i] => \E j \in 1..(i - 1) : s[j] = e[1]

(* An edge of the graph leads to a lower rank. *)
RankedBy(G, nodes, f, b) ==
  /\ \A n \in nodes : f[n] \in Nat /\ f[n] <= b
  /\ \A e \in G.edge : e[1] \in nodes /\ e[2] \in nodes => f[e[2]] < f[e[1]]

LEMMA SortGrows ==
  ASSUME NEW G, NEW nodes, IsFiniteSet(nodes), NEW f, NEW b \in Nat, RankedBy(G, nodes, f, b),
         NEW s, Sorted(G, nodes, s)
  PROVE  LET q == SetToSeq(ReadyIn(G, nodes, ToSet(s)))
         IN /\ Sorted(G, nodes, s \o q) /\ Len(s \o q) \in Nat
            /\ ToSet(s) # nodes => Len(s \o q) > Len(s)
            /\ ToSet(s) = nodes => s \o q = s
<1> DEFINE T == ReadyIn(G, nodes, ToSet(s))
           q == SetToSeq(T)
           n == Len(s)
           m == Cardinality(T)
<1>1. /\ s \in Seq(nodes) /\ n \in Nat /\ ToSet(s) = {s[i] : i \in 1..n}
      /\ \A i \in 1..n : s[i] \in nodes
  BY LenProperties, ElementOfSeq DEF ToSet, Sorted
<1>2. /\ T \in SUBSET nodes /\ IsFiniteSet(T) /\ T \cap ToSet(s) = {}
      /\ \A x \in T : \A e \in G.edge : e[1] \in nodes /\ e[2] = x => e[1] \in ToSet(s)
  <2>1. T \in SUBSET nodes
    BY DEF ReadyIn
  <2>2. IsFiniteSet(T)
    BY <2>1, FS_Subset
  <2> QED BY <2>1, <2>2 DEF ReadyIn
<1>3. /\ q \in Seq(T) /\ Len(q) = m /\ m \in Nat
      /\ \A i, j \in 1..m : q[i] = q[j] => i = j
      /\ \A x \in T : \E i \in 1..m : q[i] = x
      /\ \A i \in 1..m : q[i] \in T
  <2> HIDE DEF T
  <2>1. /\ q \in Seq(T) /\ Len(q) = m /\ m \in Nat
        /\ \A i, j \in 1..m : q[i] = q[j] => i = j
        /\ \A x \in T : \E i \in 1..m : q[i] = x
    BY <1>2, SetToSeqFacts
  <2> QED BY <2>1, ElementOfSeq
<1> HIDE DEF T, q, n, m
<1>4. /\ s \o q \in Seq(nodes) /\ Len(s \o q) = n + m
      /\ \A i \in 1..n : (s \o q)[i] = s[i]
      /\ \A i \in (n + 1)..(n + m) : (s \o q)[i] = q[i - n]
  <2>1. q \in Seq(nodes) /\ s \in Seq(nodes) /\ Len(s) = n
    BY <1>1, <1>2, <1>3, SeqMonotonic DEF n
  <2>2. s \o q \in Seq(nodes) /\ Len(s \o q) = n + m
    BY <1>3, <2>1
  <2>3. ASSUME NEW i \in 1..(n + m)
        PROVE  (s \o q)[i] = IF i <= n THEN s[i] ELSE q[i - n]
    BY <1>1, <1>3, <2>1, ConcatProperties
  <2>4. /\ \A i \in 1..n : i \in 1..(n + m) /\ i <= n
        /\ \A i \in (n + 1)..(n + m) : i \in 1..(n + m) /\ ~(i <= n)
    BY <1>1, <1>3
  <2> QED BY <2>2, <2>3, <2>4
<1> DEFINE z == s \o q
<1> HIDE DEF z
<1>5. /\ z \in Seq(nodes) /\ Len(z) = n + m
      /\ \A i \in 1..n : z[i] = s[i]
      /\ \A i \in (n + 1)..(n + m) : i - n \in 1..m /\ z[i] = q[i - n] /\ z[i] \in T
  <2>1. \A i \in (n + 1)..(n + m) : i - n \in 1..m
    BY <1>1, <1>3
  <2> QED BY <1>3, <1>4, <2>1 DEF z
<1>6. \A i \in 1..(n + m) : i \in 1..n \/ i \in (n + 1)..(n + m)
  BY <1>1, <1>3
<1>7. ASSUME NEW i \in 1..(n + m), NEW j \in 1..(n + m), z[i] = z[j] PROVE i = j
  <2>1. CASE i \in 1..n /\ j \in 1..n
    BY <1>5, <1>7, <2>1 DEF Sorted, n
  <2>2. CASE i \in (n + 1)..(n + m) /\ j \in (n + 1)..(n + m)
    <3>1. i - n = j - n
      BY <1>3, <1>5, <1>7, <2>2
    <3> QED BY <1>1, <2>2, <3>1
  <2>3. CASE i \in 1..n /\ j \in (n + 1)..(n + m)
    <3>1. z[i] \in ToSet(s) /\ z[j] \in T
      BY <1>1, <1>5, <2>3
    <3> QED BY <1>2, <1>7, <3>1
  <2>4. CASE i \in (n + 1)..(n + m) /\ j \in 1..n
    <3>1. z[j] \in ToSet(s) /\ z[i] \in T
      BY <1>1, <1>5, <2>4
    <3> QED BY <1>2, <1>7, <3>1
  <2> QED BY <1>6, <2>1, <2>2, <2>3, <2>4
<1>8. ASSUME NEW i \in 1..(n + m), NEW e \in G.edge, e[1] \in nodes, e[2] = z[i]
      PROVE  \E j \in 1..(i - 1) : z[j] = e[1]
  <2>1. CASE i \in 1..n
    <3>1. PICK j \in 1..(i - 1) : s[j] = e[1]
      BY <1>5, <1>8, <2>1 DEF Sorted, n
    <3>2. j \in 1..n
      BY <1>1, <2>1
    <3> QED BY <1>5, <3>1, <3>2
  <2>2. CASE i \in (n + 1)..(n + m)
    <3>1. e[1] \in ToSet(s)
      BY <1>2, <1>5, <1>8, <2>2
    <3>2. PICK j \in 1..n : s[j] = e[1]
      BY <1>1, <3>1
    <3>3. j \in 1..(i - 1)
      BY <1>1, <2>2
    <3> QED BY <1>5, <3>2, <3>3
  <2> QED BY <1>6, <2>1, <2>2
<1>9. Sorted(G, nodes, z)
  BY <1>5, <1>7, <1>8 DEF Sorted
<1>10. ASSUME ToSet(s) # nodes PROVE m > 0
  <2>1. ToSet(s) \subseteq nodes
    BY <1>1
  <2>2. nodes \ ToSet(s) # {}
    BY <1>10, <2>1
  <2>3. PICK x \in nodes \ ToSet(s) : \A y \in nodes \ ToSet(s) : f[y] <= f[x]
    <3>1. \A y \in nodes \ ToSet(s) : f[y] \in Nat /\ f[y] <= b
      BY DEF RankedBy
    <3> DEFINE W == nodes \ ToSet(s)
    <3> HIDE DEF W
    <3>2. \E x \in W : \A y \in W : f[y] <= f[x]
      BY <2>2, <3>1, HighestRank DEF W
    <3> QED BY <3>2 DEF W
  <2>4. ASSUME NEW e \in G.edge, e[1] \in nodes \ ToSet(s), e[2] = x PROVE FALSE
    <3>1. f[x] < f[e[1]] /\ f[e[1]] <= f[x] /\ f[x] \in Nat /\ f[e[1]] \in Nat
      BY <2>3, <2>4 DEF RankedBy
    <3> QED BY <3>1
  <2>5. x \in T
    BY <2>3, <2>4 DEF T, ReadyIn
  <2> QED BY <1>3, <2>5
<1>11. ASSUME ToSet(s) = nodes PROVE z = s
  <2>1. T = {}
    BY <1>2, <1>11
  <2>2. m = 0
    BY <2>1, FS_EmptySet DEF m
  <2>3. q = <<>>
    BY <1>3, <2>2, EmptySeq
  <2> QED BY <1>1, <2>3 DEF z
<1>12. n + m \in Nat /\ (m > 0 => n + m > n)
  BY <1>1, <1>3
<1> QED BY <1>5, <1>9, <1>10, <1>11, <1>12 DEF z, q, T, n

LEMMA SortUnfolds ==
  ASSUME NEW G, NEW nodes, NEW g,
         g = [k \in Nat |-> IF k = 0 THEN <<>>
                ELSE g[k - 1] \o SetToSeq(ReadyIn(G, nodes, ToSet(g[k - 1])))]
  PROVE  \E w : /\ w = [k \in Nat |-> IF k = 0 THEN <<>>
                        ELSE w[k - 1] \o SetToSeq(ReadyIn(G, nodes, ToSet(w[k - 1])))]
               /\ TopologicalSort(G, nodes)
                    = IF Len(w[Cardinality(nodes)]) = Cardinality(nodes)
                      THEN w[Cardinality(nodes)] ELSE <<>>
BY DEF TopologicalSort, ReadyIn

(* Without cycles everything is laid out: each after all that point to it. *)
LEMMA SortFacts ==
  ASSUME NEW G, NEW nodes, IsFiniteSet(nodes), NEW f, NEW b \in Nat, RankedBy(G, nodes, f, b)
  PROVE  /\ Sorted(G, nodes, TopologicalSort(G, nodes))
         /\ ToSet(TopologicalSort(G, nodes)) = nodes
<1> DEFINE D == Seq(nodes)
           More(s) == s \o SetToSeq(ReadyIn(G, nodes, ToSet(s)))
           F == [s \in D |-> More(s)]
           N == Cardinality(nodes)
<1>1. N \in Nat
  BY FS_CardinalityType
<1>2. ASSUME NEW s \in D PROVE More(s) \in D
  <2> DEFINE T == ReadyIn(G, nodes, ToSet(s))
  <2>1. T \in SUBSET nodes
    BY DEF ReadyIn
  <2> HIDE DEF T
  <2>2. IsFiniteSet(T)
    BY <2>1, FS_Subset
  <2>3. SetToSeq(T) \in Seq(nodes)
    BY <2>1, <2>2, SetToSeqFacts, SeqMonotonic
  <2> QED BY <2>3 DEF T
<1>3. F \in [D -> D] /\ <<>> \in D
  <2> HIDE DEF More
  <2> QED BY <1>2
<1>4. PICK w : /\ w = [k \in Nat |-> IF k = 0 THEN <<>> ELSE More(w[k - 1])]
               /\ TopologicalSort(G, nodes) = IF Len(w[N]) = N THEN w[N] ELSE <<>>
  <2>1. PICK g \in [Nat -> D] : g[0] = <<>> /\ \A k \in Nat : g[k + 1] = F[g[k]]
    <3> HIDE DEF D, F
    <3>1. Iterable(D, F, <<>>)
      BY <1>3, Iterates
    <3> QED BY <3>1 DEF Iterable
  <2>2. \A k \in Nat : g[k + 1] = More(g[k])
    <3> HIDE DEF More, D
    <3> QED BY <2>1
  <2>3. ASSUME NEW k \in Nat PROVE g[k] = IF k = 0 THEN <<>> ELSE More(g[k - 1])
    <3> HIDE DEF More
    <3>1. CASE k = 0
      BY <2>1, <3>1
    <3>2. CASE k # 0
      <4>1. k - 1 \in Nat /\ (k - 1) + 1 = k
        BY <3>2
      <4> QED BY <2>2, <3>2, <4>1
    <3> QED BY <3>1, <3>2
  <2>4. g = [k \in Nat |-> IF k = 0 THEN <<>> ELSE More(g[k - 1])]
    <3> HIDE DEF More
    <3> QED BY <2>1, <2>3
  <2> QED BY <2>4, SortUnfolds
<1>5. w[0] = <<>> /\ \A k \in Nat : w[k + 1] = More(w[k])
  <2> HIDE DEF More
  <2>1. w[0] = <<>>
    BY <1>4
  <2>2. ASSUME NEW k \in Nat PROVE w[k + 1] = More(w[k])
    <3>1. k + 1 \in Nat /\ k + 1 # 0 /\ (k + 1) - 1 = k
      OBVIOUS
    <3> QED BY <1>4, <3>1
  <2> QED BY <2>1, <2>2
<1> DEFINE Good == {k \in Nat : Sorted(G, nodes, w[k]) /\ (ToSet(w[k]) = nodes \/ Len(w[k]) >= k)}
<1>6. 0 \in Good
  <2>1. Sorted(G, nodes, <<>>) /\ Len(<<>>) >= 0
    BY DEF Sorted
  <2> QED BY <1>5, <2>1
<1>7. ASSUME NEW k \in Good PROVE k + 1 \in Good
  <2>1. k \in Nat /\ Sorted(G, nodes, w[k]) /\ Len(w[k]) \in Nat
    BY DEF Sorted
  <2>2. /\ Sorted(G, nodes, More(w[k])) /\ Len(More(w[k])) \in Nat
        /\ ToSet(w[k]) # nodes => Len(More(w[k])) > Len(w[k])
        /\ ToSet(w[k]) = nodes => More(w[k]) = w[k]
    BY <2>1, SortGrows
  <2> HIDE DEF More
  <2>3. w[k + 1] = More(w[k])
    BY <1>5, <2>1
  <2> QED BY <2>1, <2>2, <2>3
<1>8. N \in Good
  <2> HIDE DEF Good
  <2>1. Good \in SUBSET Nat
    BY DEF Good
  <2> QED BY <1>1, <1>6, <1>7, <2>1, AllNumbers
<1>9. Sorted(G, nodes, w[N]) /\ (ToSet(w[N]) = nodes \/ Len(w[N]) >= N)
  BY <1>8
<1> DEFINE z == w[N]
<1>10. z \in Seq(nodes) /\ (\A i, j \in 1..Len(z) : z[i] = z[j] => i = j)
  BY <1>9 DEF Sorted
<1> HIDE DEF z
<1>11. /\ IsFiniteSet(ToSet(z)) /\ Cardinality(ToSet(z)) = Len(z)
       /\ ToSet(z) \in SUBSET nodes /\ Len(z) \in Nat
  <2>1. ToSet(z) \in SUBSET nodes
    BY <1>10, LenProperties DEF ToSet
  <2> QED BY <1>10, <2>1, InjectiveLength
<1>12. Cardinality(ToSet(z)) <= N /\ (N = Cardinality(ToSet(z)) => nodes = ToSet(z))
  BY <1>11, FS_Subset
<1>13. ToSet(z) = nodes /\ Len(z) = N
  <2>1. CASE ToSet(z) = nodes
    BY <1>11, <2>1
  <2>2. CASE Len(z) >= N
    BY <1>1, <1>11, <1>12, <2>2
  <2> QED BY <1>9, <2>1, <2>2 DEF z
<1>14. TopologicalSort(G, nodes) = z
  BY <1>4, <1>13 DEF z
<1> QED BY <1>9, <1>13, <1>14 DEF z

(* A walk of G from S: all of S, nothing twice, each after what it points  *)
(* to, and nothing that is neither of S nor pointed to.                    *)
Visits(G, S, walk) ==
  /\ walk \in Seq(G.node) /\ S \subseteq ToSet(walk) /\ IsInjective(walk)
  /\ \A i \in 1..Len(walk) :
       /\ \A e \in G.edge : e[1] = walk[i] => \E j \in 1..(i - 1) : walk[j] = e[2]
       /\ \/ walk[i] \in S
          \/ \E j \in (i + 1)..Len(walk) : \E e \in G.edge : e[1] = walk[j] /\ e[2] = walk[i]

(* The walk of any calibrations of a graph without cycles.                 *)
LEMMA WalkFacts ==
  ASSUME NEW G, IsFiniteSet(G.node), G.edge \subseteq G.node \X G.node,
         NEW f, NEW b \in Nat, RankedBy(G, G.node, f, b),
         NEW S \in SUBSET G.node, S # {},
         NEW walk, walk = UnionDependencies(G, S)
  PROVE  Visits(G, S, walk)
<1> DEFINE R == Reachable(G, S)
           z == TopologicalSort(G, R)
           n == Len(z)
<1>1. /\ R \in SUBSET G.node /\ S \subseteq R
      /\ \A e \in G.edge : e[1] \in R => e[2] \in R
      /\ \A x \in R \ S : \E e \in G.edge : e[1] \in R /\ e[2] = x
  BY ReachableFacts
<1> HIDE DEF R
<1>2. Sorted(G, R, z) /\ ToSet(z) = R
  <2>1. IsFiniteSet(R)
    BY <1>1, FS_Subset
  <2>2. RankedBy(G, R, f, b)
    BY <1>1 DEF RankedBy
  <2> QED BY <2>1, <2>2, SortFacts
<1>3. walk = [i \in 1..n |-> z[(n - i) + 1]]
  BY DEF UnionDependencies, TopoOrder, Reverse, R
<1> HIDE DEF z, n
<1>4. /\ z \in Seq(R) /\ n \in Nat /\ (\A i \in 1..n : z[i] \in R)
      /\ (\A i, j \in 1..n : z[i] = z[j] => i = j)
      /\ (\A x \in R : \E i \in 1..n : z[i] = x)
      /\ \A i \in 1..n : \A e \in G.edge :
           e[1] \in R /\ e[2] = z[i] => \E j \in 1..(i - 1) : z[j] = e[1]
  <2>1. z \in Seq(R) /\ n = Len(z)
    BY <1>2 DEF Sorted, n
  <2>2. \A x \in R : \E i \in 1..n : z[i] = x
    BY <1>2, <2>1, LenProperties DEF ToSet
  <2> QED BY <1>2, <2>1, <2>2, ElementOfSeq DEF Sorted
<1>5. \A i \in 1..n : /\ (n - i) + 1 \in 1..n /\ (n - ((n - i) + 1)) + 1 = i
  BY <1>4
<1>6. \A i \in 1..n : walk[i] = z[(n - i) + 1] /\ z[i] = walk[(n - i) + 1] /\ walk[i] \in R
  BY <1>3, <1>4, <1>5
<1>7. walk \in Seq(R) /\ Len(walk) = n /\ DOMAIN walk = 1..n
  <2>1. walk \in [1..n -> R]
    BY <1>3, <1>6
  <2> QED BY <1>4, <2>1, FunctionIsSeq
<1>8. walk \in Seq(G.node)
  BY <1>1, <1>7, SeqMonotonic
<1>9. S \subseteq ToSet(walk)
  <2>1. ASSUME NEW x \in R PROVE \E i \in 1..n : walk[i] = x
    <3>1. PICK i \in 1..n : z[i] = x
      BY <1>4
    <3> QED BY <1>5, <1>6, <3>1
  <2> QED BY <1>1, <1>7, <2>1 DEF ToSet
<1>10. IsInjective(walk)
  <2>1. ASSUME NEW i \in 1..n, NEW j \in 1..n, walk[i] = walk[j] PROVE i = j
    <3>1. (n - i) + 1 = (n - j) + 1
      BY <1>4, <1>5, <1>6, <2>1
    <3> QED BY <1>4, <3>1
  <2> QED BY <1>7, <2>1 DEF IsInjective
<1>11. ASSUME NEW e \in G.edge, NEW i \in 1..n, e[1] = walk[i]
       PROVE  \E j \in 1..(i - 1) : walk[j] = e[2]
  <2>1. e[2] \in R /\ e[1] \in R
    BY <1>1, <1>6, <1>11
  <2>2. PICK l \in 1..n : z[l] = e[2]
    BY <1>4, <2>1
  <2>3. PICK m \in 1..(l - 1) : z[m] = e[1]
    BY <1>4, <2>1, <2>2
  <2>4. m \in 1..n /\ m < l
    BY <1>4, <2>2, <2>3
  <2>5. m = (n - i) + 1
    BY <1>4, <1>5, <1>6, <1>11, <2>3, <2>4
  <2>6. (n - l) + 1 \in 1..(i - 1)
    BY <1>4, <2>2, <2>4, <2>5, SMTT(20)
  <2>7. walk[(n - l) + 1] = e[2]
    BY <1>6, <2>2
  <2> QED BY <2>6, <2>7
<1>12. ASSUME NEW i \in 1..n, walk[i] \notin S
       PROVE  \E j \in (i + 1)..n : \E e \in G.edge : e[1] = walk[j] /\ e[2] = walk[i]
  <2>1. PICK e \in G.edge : e[1] \in R /\ e[2] = walk[i]
    BY <1>1, <1>6, <1>12
  <2>2. PICK l \in 1..(((n - i) + 1) - 1) : z[l] = e[1]
    BY <1>4, <1>5, <1>6, <2>1
  <2>3. l \in 1..n /\ (n - l) + 1 \in (i + 1)..n
    BY <1>4, <2>2
  <2>4. walk[(n - l) + 1] = e[1]
    BY <1>6, <2>2, <2>3
  <2> QED BY <2>1, <2>3, <2>4
<1> QED BY <1>7, <1>8, <1>9, <1>10, <1>11, <1>12 DEF Visits

-------------------------------------------------------------------------------
(* The records of a registry are what its calibrations depend on. *)

RecordInv == DeclInv /\ OnRecord /\ Cached

LEMMA RecordTyped ==
  ASSUME TypeOK, NEW r \in Registries
  PROVE  /\ edges[r] \in Seq(Objects \X ({None} \cup Objects)) /\ Len(edges[r]) \in Nat
         /\ \A i \in 1..Len(edges[r]) :
              /\ edges[r][i][1] \in Objects /\ edges[r][i][2] \in {None} \cup Objects
              /\ edges[r][i] = <<edges[r][i][1], edges[r][i][2]>>
<1>1. edges[r] \in Seq(Objects \X ({None} \cup Objects)) /\ Len(edges[r]) \in Nat
  BY ElementOfSeq DEF TypeOK, Registries
<1>2. \A i \in 1..Len(edges[r]) : edges[r][i] \in Objects \X ({None} \cup Objects)
  BY <1>1, ElementOfSeq
<1> QED BY <1>1, <1>2

(* What is on record, or used, stays so, and what is new is as it should.  *)
LEMMA OnRecordGrows ==
  ASSUME TypeOK, OnRecord,
         \A o \in Objects : home[o] # None => home'[o] = home[o],
         \A o \in Objects : \A i \in 1..Len(uses[o]) :
           i \in 1..Len(uses'[o]) /\ uses'[o][i] = uses[o][i],
         \A r \in Registries : \A i \in 1..Len(edges[r]) :
           i \in 1..Len(edges'[r]) /\ edges'[r][i] = edges[r][i],
         \A r \in Registries' : \A i \in 1..Len(edges'[r]) :
           (r \in Registries /\ i \in 1..Len(edges[r])) \/ OfTree(edges'[r][i], r, home', uses'),
         \A o \in Objects' : \A i \in 1..Len(uses'[o]) :
           (o \in Objects /\ i \in 1..Len(uses[o])) \/ Recorded(o, uses'[o][i], home', edges')
  PROVE  OnRecord'
<1>1. None \notin Registries
  BY DEF None, Registries
<1>2. ASSUME NEW r \in Registries, NEW i \in 1..Len(edges[r])
      PROVE  OfTree(edges'[r][i], r, home', uses')
  <2> DEFINE rec == edges[r][i]
  <2>1. rec[1] \in Objects /\ edges'[r][i] = rec /\ OfTree(rec, r, home, uses)
    BY RecordTyped DEF OnRecord
  <2> HIDE DEF rec
  <2>2. home'[rec[1]] = r
    BY <1>1, <2>1 DEF OfTree
  <2>3. rec[2] # None => \E j \in 1..Len(uses'[rec[1]]) : uses'[rec[1]][j] = rec[2]
    BY <2>1 DEF OfTree
  <2> QED BY <2>1, <2>2, <2>3 DEF OfTree
<1>3. ASSUME NEW o \in Objects, NEW i \in 1..Len(uses[o])
      PROVE  Recorded(o, uses'[o][i], home', edges')
  <2> DEFINE d == uses[o][i]
  <2>1. d \in Objects /\ home[o] \in {None} \cup Registries
    BY ElementOfSeq DEF TypeOK
  <2>2. uses'[o][i] = d /\ Recorded(o, d, home, edges)
    BY DEF OnRecord
  <2> HIDE DEF d
  <2>3. home'[o] = home[o] /\ home'[d] = home[o] /\ home[o] # None /\ home[o] \in Registries
    BY <2>1, <2>2 DEF Recorded
  <2>4. PICK j \in 1..Len(edges[home[o]]) : edges[home[o]][j] = <<o, d>>
    BY <2>2 DEF Recorded
  <2>5. j \in 1..Len(edges'[home[o]]) /\ edges'[home[o]][j] = <<o, d>>
    BY <2>3, <2>4
  <2> QED BY <2>2, <2>3, <2>5 DEF Recorded
<1> QED BY <1>2, <1>3 DEF OnRecord

(* A record is filed, of what cal has begun to use, or of itself. *)
LEMMA FiledOnRecord ==
  ASSUME TypeOK, OnRecord, Cached, NEW cal \in Objects, NEW dep \in {None} \cup Objects, NEW r,
         Filed(r, cal, dep), Objects' = Objects,
         \A p \in Objects \ {cal} : uses'[p] = uses[p],
         IF dep = None THEN uses'[cal] = uses[cal]
         ELSE /\ Len(uses'[cal]) = Len(uses[cal]) + 1 /\ uses'[cal][Len(uses[cal]) + 1] = dep
              /\ \A i \in 1..Len(uses[cal]) : uses'[cal][i] = uses[cal][i]
  PROVE  OnRecord' /\ Cached'
<1>1. None \notin Objects /\ Len(uses[cal]) \in Nat
  BY DEF TypeOK, None, Objects
<1>2. /\ Registries' = Registries \cup {r} /\ r # None
      /\ \A q \in Registries \ {r} : edges'[q] = edges[q] /\ graph'[q] = graph[q]
      /\ graph'[r] = NoGraph
      /\ \A o \in {cal, dep} \ {None} : home[o] \in {None, r} /\ home'[o] = r
      /\ \A o \in Objects \ {cal, dep} : home'[o] = home[o]
  BY DEF Filed
<1>3. \A o \in Objects : home[o] # None => home'[o] = home[o]
  BY <1>1, <1>2
<1>4. ASSUME NEW o \in Objects, NEW i \in 1..Len(uses[o])
      PROVE  i \in 1..Len(uses'[o]) /\ uses'[o][i] = uses[o][i]
  <2>1. CASE o = cal
    BY <1>1, <2>1
  <2>2. CASE o # cal
    BY <2>2
  <2> QED BY <2>1, <2>2
<1>5. dep # None => \E j \in 1..Len(uses'[cal]) : uses'[cal][j] = dep
  <2> DEFINE m == Len(uses[cal])
  <2>1. m \in Nat => m + 1 \in 1..(m + 1)
    OBVIOUS
  <2> QED BY <1>1, <2>1
<1>6. home'[cal] = r /\ (dep # None => home'[dep] = r)
  BY <1>1, <1>2
<1>7. OfTree(<<cal, dep>>, r, home', uses')
  BY <1>5, <1>6 DEF OfTree
<1>8. /\ \A q \in Registries : \A i \in 1..Len(edges[q]) :
           i \in 1..Len(edges'[q]) /\ edges'[q][i] = edges[q][i]
      /\ \A q \in Registries' : \A i \in 1..Len(edges'[q]) :
           (q \in Registries /\ i \in 1..Len(edges[q])) \/ (q = r /\ edges'[q][i] = <<cal, dep>>)
      /\ \E j \in 1..Len(edges'[r]) : edges'[r][j] = <<cal, dep>>
  <2>1. CASE r \in Registries
    <3> DEFINE m == Len(edges[r])
    <3>1. /\ m \in Nat /\ Len(edges'[r]) = m + 1 /\ edges'[r][m + 1] = <<cal, dep>>
          /\ \A i \in 1..m : edges'[r][i] = edges[r][i]
      BY <2>1, RecordTyped DEF Filed
    <3>2. m \in Nat => /\ \A i \in 1..(m + 1) : i \in 1..m \/ i = m + 1
                       /\ \A i \in 1..m : i \in 1..(m + 1)
                       /\ m + 1 \in 1..(m + 1)
      OBVIOUS
    <3>3. ASSUME NEW q \in Registries'
          PROVE  /\ \A i \in 1..Len(edges[q]) : i \in 1..Len(edges'[q]) /\ edges'[q][i] = edges[q][i]
                 /\ \A i \in 1..Len(edges'[q]) :
                      (q \in Registries /\ i \in 1..Len(edges[q])) \/ (q = r /\ edges'[q][i] = <<cal, dep>>)
      <4>1. CASE q = r
        BY <2>1, <3>1, <3>2, <4>1
      <4>2. CASE q # r
        BY <1>2, <4>2
      <4> QED BY <4>1, <4>2
    <3> QED BY <1>2, <3>1, <3>2, <3>3
  <2>2. CASE r \notin Registries
    <3>1. Len(edges'[r]) = 1 /\ edges'[r][1] = <<cal, dep>>
      BY <2>2 DEF Filed
    <3>2. (\A i \in 1..1 : i = 1) /\ 1 \in 1..1
      OBVIOUS
    <3> QED BY <1>2, <2>2, <3>1, <3>2
  <2> QED BY <2>1, <2>2
<1>9. \A q \in Registries' : \A i \in 1..Len(edges'[q]) :
        (q \in Registries /\ i \in 1..Len(edges[q])) \/ OfTree(edges'[q][i], q, home', uses')
  BY <1>7, <1>8
<1>10. ASSUME NEW o \in Objects', NEW i \in 1..Len(uses'[o])
       PROVE  (o \in Objects /\ i \in 1..Len(uses[o])) \/ Recorded(o, uses'[o][i], home', edges')
  <2>1. CASE o = cal /\ dep # None
    <3>1. i \in 1..Len(uses[cal]) \/ i = Len(uses[cal]) + 1
      <4> DEFINE m == Len(uses[cal])
      <4>1. m \in Nat /\ i \in 1..(m + 1)
        BY <1>1, <2>1
      <4>2. i \in 1..m \/ i = m + 1
        <5> HIDE DEF m
        <5> QED BY <4>1
      <4> QED BY <4>2
    <3>2. CASE i = Len(uses[cal]) + 1
      <4>1. uses'[cal][i] = dep
        BY <2>1, <3>2
      <4> QED BY <1>2, <1>6, <1>8, <2>1, <4>1 DEF Recorded
    <3> QED BY <2>1, <3>1, <3>2
  <2>2. CASE ~(o = cal /\ dep # None)
    BY <2>2
  <2> QED BY <2>1, <2>2
<1>11. OnRecord'
  BY <1>3, <1>4, <1>8, <1>9, <1>10, OnRecordGrows
<1>12. ASSUME NEW q \in Registries' PROVE graph'[q] \in {NoGraph, GraphOf(edges'[q])}
  BY <1>2 DEF Cached
<1>13. Cached'
  BY <1>12 DEF Cached, NoGraph
<1> QED BY <1>11, <1>13

LEMMA DependOnRecord ==
  ASSUME TypeOK, OnRecord, Cached, NEW t \in Threads, stack[t] # <<>>, Building(t),
         Top(t).cal # None, Top(t).todo # <<>>, NEW dep \in Objects, Depend(t, dep)
  PROVE  OnRecord' /\ Cached'
<1> DEFINE cal == Top(t).cal
<1>1. /\ cal \in Objects /\ Objects' = Objects
      /\ Len(uses'[cal]) = Len(uses[cal]) + 1 /\ uses'[cal][Len(uses[cal]) + 1] = dep
      /\ \A i \in 1..Len(uses[cal]) : uses'[cal][i] = uses[cal][i]
      /\ \A p \in Objects \ {cal} : uses'[p] = uses[p]
      /\ \E r \in Registries' : Filed(r, cal, dep)
  BY DependEffect
<1>2. PICK r \in Registries' : Filed(r, cal, dep)
  BY <1>1
<1>3. dep # None
  BY DEF None, Objects
<1> HIDE DEF cal
<1> QED BY <1>1, <1>2, <1>3, FiledOnRecord

LEMMA RecordStep ==
  ASSUME BuildInv, OnRecord, Cached, NEW t \in Threads, Step(t)
  PROVE  OnRecord' /\ Cached'
<1>1. TypeOK /\ ScopeInv
  BY DEF BuildInv, ScopeInv
<1>2. CASE (TestDepth(t) \/ Claim(t) \/ Raise(t) \/ Attached(t) \/ Leave(t) \/ Unwind(t))
  <2>1. UNCHANGED <<edges, graph, home, class, uses>>
    BY <1>2 DEF TestDepth, Claim, Raise, Attached, Leave, Unwind, records, objects
  <2>2. Objects' = Objects /\ Registries' = Registries
    BY <2>1 DEF Objects, Registries
  <2>3. OnRecord'
    BY <2>1, <2>2 DEF OnRecord
  <2>4. Cached'
    BY <2>1, <2>2 DEF Cached, NoGraph
  <2> QED BY <2>3, <2>4
<1>3. CASE OpenRegistry(t)
  <2> DEFINE r == Len(edges) + 1
  <2>1. /\ Registries' = Registries \cup {r} /\ r \notin Registries
        /\ edges'[r] = <<>> /\ graph'[r] = NoGraph
        /\ \A q \in Registries : edges'[q] = edges[q] /\ graph'[q] = graph[q]
        /\ UNCHANGED <<home, uses, class>>
    BY <1>1, <1>3, OpenEffect DEF OpenRegistry, objects
  <2> HIDE DEF r
  <2>2. Objects' = Objects /\ Len(<<>>) = 0 /\ 1..0 = {}
    BY <2>1 DEF Objects
  <2>3. OnRecord'
    <3>1. \A q \in Registries' : \A i \in 1..Len(edges'[q]) :
            (q \in Registries /\ i \in 1..Len(edges[q])) \/ OfTree(edges'[q][i], q, home', uses')
      BY <2>1, <2>2
    <3>2. \A o \in Objects' : \A i \in 1..Len(uses'[o]) :
            (o \in Objects /\ i \in 1..Len(uses[o])) \/ Recorded(o, uses'[o][i], home', edges')
      BY <2>1, <2>2
    <3>3. \A p \in Objects : home[p] # None => home'[p] = home[p]
      BY <2>1
    <3>4. \A p \in Objects : \A i \in 1..Len(uses[p]) :
            i \in 1..Len(uses'[p]) /\ uses'[p][i] = uses[p][i]
      BY <2>1
    <3>5. \A q \in Registries : \A i \in 1..Len(edges[q]) :
            i \in 1..Len(edges'[q]) /\ edges'[q][i] = edges[q][i]
      BY <2>1
    <3> QED BY <1>1, <3>1, <3>2, <3>3, <3>4, <3>5, OnRecordGrows
  <2>4. ASSUME NEW q \in Registries' PROVE graph'[q] \in {NoGraph, GraphOf(edges'[q])}
    BY <2>1 DEF Cached
  <2>5. Cached'
    BY <2>4 DEF Cached, NoGraph
  <2> QED BY <2>3, <2>5
<1>4. CASE Construct(t)
  <2> DEFINE o == Len(class) + 1
  <2>1. /\ Objects' = Objects \cup {o} /\ o \notin Objects /\ uses'[o] = <<>>
        /\ \A p \in Objects : home'[p] = home[p] /\ uses'[p] = uses[p]
        /\ UNCHANGED <<edges, graph>>
    BY <1>1, <1>4, ConstructScope, ConstructEffect DEF Construct
  <2> HIDE DEF o
  <2>2. Registries' = Registries /\ Len(<<>>) = 0 /\ 1..0 = {}
    BY <2>1 DEF Registries
  <2>3. OnRecord'
    <3>1. \A q \in Registries' : \A i \in 1..Len(edges'[q]) :
            (q \in Registries /\ i \in 1..Len(edges[q])) \/ OfTree(edges'[q][i], q, home', uses')
      BY <2>1, <2>2
    <3>2. \A p \in Objects' : \A i \in 1..Len(uses'[p]) :
            (p \in Objects /\ i \in 1..Len(uses[p])) \/ Recorded(p, uses'[p][i], home', edges')
      BY <2>1, <2>2
    <3>3. \A p \in Objects : home[p] # None => home'[p] = home[p]
      BY <2>1
    <3>4. \A p \in Objects : \A i \in 1..Len(uses[p]) :
            i \in 1..Len(uses'[p]) /\ uses'[p][i] = uses[p][i]
      BY <2>1
    <3>5. \A q \in Registries : \A i \in 1..Len(edges[q]) :
            i \in 1..Len(edges'[q]) /\ edges'[q][i] = edges[q][i]
      BY <2>1
    <3> QED BY <1>1, <3>1, <3>2, <3>3, <3>4, <3>5, OnRecordGrows
  <2>4. Cached'
    BY <2>1, <2>2 DEF Cached, NoGraph
  <2> QED BY <2>3, <2>4
<1>5. CASE Share(t)
  BY <1>1, <1>5, ShareFacts, DependOnRecord
<1>6. CASE Wire(t)
  <2>1. Top(t).todo # <<>>
    BY <1>1, <1>6, TopWaiting
  <2> QED BY <1>1, <1>6, <2>1, WireFacts, DependOnRecord
<1>7. CASE Register(t)
  <2>1. Top(t).cal \in Objects /\ UNCHANGED <<class, uses>>
        /\ \E r \in Registries' : Filed(r, Top(t).cal, None)
    BY <1>1, <1>7, RegisterEffect DEF Register, objects
  <2> DEFINE cal == Top(t).cal
  <2>2. PICK r \in Registries' : Filed(r, cal, None)
    BY <2>1
  <2>3. cal \in Objects /\ Objects' = Objects /\ None \in {None} \cup Objects
    BY <2>1 DEF Objects
  <2> HIDE DEF cal
  <2> QED BY <1>1, <2>1, <2>2, <2>3, FiledOnRecord
<1> QED BY <1>2, <1>3, <1>4, <1>5, <1>6, <1>7 DEF Step

LEMMA RecordInvInit == Init => RecordInv
<1> SUFFICES ASSUME Init PROVE RecordInv
  OBVIOUS
<1>1. Objects = {} /\ Registries = {}
  BY DEF Init, Objects, Registries
<1>2. OnRecord /\ Cached
  BY <1>1 DEF OnRecord, Cached
<1> QED BY <1>2, DeclInvInit DEF RecordInv

LEMMA RecordInvStep == RecordInv /\ [Next]_vars => RecordInv'
<1> SUFFICES ASSUME RecordInv, [Next]_vars PROVE RecordInv'
  OBVIOUS
<1>1. DeclInv' /\ BuildInv /\ OnRecord /\ Cached
  BY DeclInvStep DEF RecordInv, DeclInv
<1>2. CASE UNCHANGED vars
  <2>1. OnRecord'
    <3>1. UNCHANGED <<edges, home, uses, class>> /\ Objects' = Objects /\ Registries' = Registries
      BY <1>2 DEF vars, Objects, Registries
    <3> QED BY <1>1, <3>1 DEF OnRecord
  <2>2. Cached'
    BY <1>1, <1>2 DEF Cached, Registries, vars, NoGraph
  <2> QED BY <1>1, <2>1, <2>2 DEF RecordInv
<1>3. CASE \E t \in Threads : Step(t)
  BY <1>1, <1>3, RecordStep DEF RecordInv
<1>4. CASE \E r \in Registries : ReadGraph(r)
  <2>1. PICK r \in Registries : ReadGraph(r)
    BY <1>4
  <2>2. UNCHANGED <<edges, home, class, uses>>
    BY <2>1 DEF ReadGraph, objects
  <2>3. OnRecord'
    <3>1. Objects' = Objects /\ Registries' = Registries
      BY <2>2 DEF Objects, Registries
    <3> QED BY <1>1, <2>2, <3>1 DEF OnRecord
  <2>4. ASSUME NEW q \in Registries' PROVE graph'[q] \in {NoGraph, GraphOf(edges'[q])}
    <3>1. /\ Registries' = Registries /\ graph'[r] = CurrentGraph(r)
          /\ \A p \in Registries \ {r} : graph'[p] = graph[p]
      BY <1>1, <2>1, ReadEffect DEF BuildInv
    <3>2. graph[r] \in {NoGraph, GraphOf(edges[r])}
      BY <1>1 DEF Cached
    <3>3. CurrentGraph(r) \in {NoGraph, GraphOf(edges[r])}
      BY <3>2 DEF CurrentGraph
    <3>4. CASE q = r
      BY <2>2, <3>1, <3>3, <3>4
    <3>5. CASE q # r
      BY <1>1, <2>2, <3>1, <3>5 DEF Cached
    <3> QED BY <3>4, <3>5
  <2>5. Cached'
    BY <2>4 DEF Cached, NoGraph
  <2> QED BY <1>1, <2>3, <2>5 DEF RecordInv
<1> QED BY <1>2, <1>3, <1>4 DEF Next

(* The graph of a registry, in terms of what its calibrations use. *)
LEMMA TreeGraph ==
  ASSUME TypeOK, OnRecord, Cached, NEW r \in Registries, NEW G, G = CurrentGraph(r)
  PROVE  /\ G.node \in SUBSET Objects /\ G.edge \subseteq G.node \X G.node
         /\ \A o \in Objects : Complete(o) /\ home[o] = r => o \in G.node
         /\ \A e \in G.edge : \E j \in 1..Len(uses[e[1]]) : uses[e[1]][j] = e[2]
         /\ \A o \in G.node : \A j \in 1..Len(uses[o]) :
              \E e \in G.edge : e[1] = o /\ e[2] = uses[o][j]
<1> DEFINE rs == edges[r]
           n == Len(rs)
<1>1. G = GraphOf(rs) /\ None \notin Objects
  BY DEF Cached, CurrentGraph, None, Objects
<1>2. /\ n \in Nat /\ ToSet(rs) = {rs[i] : i \in 1..n}
      /\ \A i \in 1..n : /\ rs[i][1] \in Objects /\ rs[i][2] \in {None} \cup Objects
                         /\ rs[i] = <<rs[i][1], rs[i][2]>>
  BY RecordTyped, LenProperties DEF ToSet
<1>3. \A i \in 1..n : OfTree(rs[i], r, home, uses)
  BY DEF OnRecord
<1> HIDE DEF rs, n
<1>4. /\ \A x : x \in G.node <=> x # None /\ \E i \in 1..n : x \in {rs[i][1], rs[i][2]}
      /\ \A e : e \in G.edge <=> \E i \in 1..n : e = rs[i] /\ rs[i][2] # None
  <2>1. \A x : x \in GraphOf(rs).node <=> x # None /\ \E e \in ToSet(rs) : x \in {e[1], e[2]}
    BY DEF GraphOf
  <2>2. GraphOf(rs).edge = {e \in ToSet(rs) : e[2] # None}
    BY DEF GraphOf
  <2> QED BY <1>1, <1>2, <2>1, <2>2
<1>5. G.node \in SUBSET Objects
  BY <1>2, <1>4
<1>6. ASSUME NEW e \in G.edge
      PROVE  /\ e \in G.node \X G.node
             /\ \E j \in 1..Len(uses[e[1]]) : uses[e[1]][j] = e[2]
  <2>1. PICK i \in 1..n : e = rs[i] /\ rs[i][2] # None
    BY <1>4
  <2>2. e[1] \in G.node /\ e[2] \in G.node /\ e = <<e[1], e[2]>>
    BY <1>1, <1>2, <1>4, <2>1
  <2> QED BY <1>3, <2>1, <2>2 DEF OfTree
<1>7. ASSUME NEW o \in Objects, Complete(o), home[o] = r PROVE o \in G.node
  <2>1. PICK i \in 1..n : rs[i] = <<o, None>>
    BY <1>2, <1>7 DEF Complete, rs
  <2> QED BY <1>1, <1>4, <2>1
<1>8. ASSUME NEW o \in G.node, NEW j \in 1..Len(uses[o])
      PROVE  \E e \in G.edge : e[1] = o /\ e[2] = uses[o][j]
  <2>1. o \in Objects /\ uses[o][j] \in Objects
    <3>1. o \in Objects /\ uses[o] \in Seq(Objects)
      BY <1>5 DEF TypeOK
    <3> QED BY <3>1, ElementOfSeq
  <2>2. Recorded(o, uses[o][j], home, edges)
    BY <2>1 DEF OnRecord
  <2>3. home[o] = r
    <3>1. PICK i \in 1..n : o \in {rs[i][1], rs[i][2]}
      BY <1>4
    <3>2. home[rs[i][1]] = r /\ rs[i][1] \in Objects
      BY <1>2, <1>3 DEF OfTree
    <3>3. CASE o = rs[i][2]
      <4>1. PICK k \in 1..Len(uses[rs[i][1]]) : uses[rs[i][1]][k] = o
        BY <1>1, <1>3, <2>1, <3>3 DEF OfTree
      <4>2. Recorded(rs[i][1], o, home, edges)
        BY <3>2, <4>1 DEF OnRecord
      <4> QED BY <3>2, <4>2 DEF Recorded
    <3> QED BY <3>1, <3>2, <3>3
  <2>4. PICK i \in 1..n : rs[i] = <<o, uses[o][j]>>
    BY <2>2, <2>3 DEF Recorded, rs, n
  <2>5. rs[i] \in G.edge
    BY <1>1, <1>4, <2>1, <2>4
  <2> QED BY <2>4, <2>5
<1> QED BY <1>5, <1>6, <1>7, <1>8

(* A finite number of calibrations has a highest rank. *)
LEMMA RankBound ==
  ASSUME NEW n \in Nat, NEW f \in [1..n -> Nat]
  PROVE  \E b \in Nat : \A i \in 1..n : f[i] <= b
<1> DEFINE S == {k \in Nat : k <= n => \E b \in Nat : \A i \in 1..k : f[i] <= b}
<1>1. 0 \in S
  <2>1. 0 \in Nat /\ \A i \in 1..0 : f[i] <= 0
    OBVIOUS
  <2> QED BY <2>1
<1>2. ASSUME NEW k \in S PROVE k + 1 \in S
  <2> SUFFICES ASSUME k + 1 <= n PROVE \E b \in Nat : \A i \in 1..(k + 1) : f[i] <= b
    OBVIOUS
  <2>1. PICK b \in Nat : \A i \in 1..k : f[i] <= b
    OBVIOUS
  <2>2. k \in Nat /\ k + 1 \in 1..n /\ f[k + 1] \in Nat /\ \A i \in 1..k : i \in 1..n
    OBVIOUS
  <2>3. \A i \in 1..(k + 1) : i = k + 1 \/ i \in 1..k
    BY <2>2
  <2>4. \A i \in 1..k : f[i] \in Nat
    BY <2>2
  <2>5. b + f[k + 1] \in Nat /\ \A i \in 1..(k + 1) : f[i] <= b + f[k + 1]
    BY <2>1, <2>2, <2>3, <2>4
  <2> QED BY <2>5
<1> HIDE DEF S
<1>3. S = Nat
  <2>1. S \in SUBSET Nat
    BY DEF S
  <2> QED BY <1>1, <1>2, <2>1, AllNumbers
<1>4. n \in S
  BY <1>3
<1> QED BY <1>4 DEF S

(* What WalksInOrder asks of one walk.                                     *)
InOrder(walk, targets) ==
  /\ targets \subseteq ToSet(walk)
  /\ IsInjective(walk)
  /\ \A i \in 1..Len(walk) :
       /\ ToSet(uses[walk[i]]) \subseteq {walk[j] : j \in 1..(i - 1)}
       /\ \/ walk[i] \in targets
          \/ \E j \in (i + 1)..Len(walk) : walk[i] \in ToSet(uses[walk[j]])

(* Unless a class comes, through the classes it needs, to need itself, a   *)
(* walk from any calibrations of a tree visits exactly those they depend   *)
(* on, once, each after all that it uses: whatever the order of            *)
(* declaration, of sharing, of exceptions and of the readings that are     *)
(* cached (add_to_dependency_map, graph and _topo_order).                  *)
THEOREM WalksInOrderHolds ==
  ASSUME Acyclic
  PROVE  Spec => []WalksInOrder
<1>1. RecordInv => WalksInOrder
  <2> SUFFICES ASSUME RecordInv, NEW r \in Registries,
                      NEW targets \in (SUBSET {o \in Objects : Complete(o) /\ home[o] = r}) \ {{}}
               PROVE  InOrder(UnionDependencies(CurrentGraph(r), targets), targets)
    BY DEF WalksInOrder, InOrder
  <2> DEFINE G == CurrentGraph(r)
             walk == UnionDependencies(G, targets)
  <2>0. targets # {} /\ \A o \in targets : o \in Objects /\ Complete(o) /\ home[o] = r
    OBVIOUS
  <2>1. TypeOK /\ OnRecord /\ Cached /\ \A o \in Objects : DeclUses(o)
    BY DEF RecordInv, DeclInv, BuildInv, ScopeInv, Declared
  <2>2. /\ G.node \in SUBSET Objects /\ G.edge \subseteq G.node \X G.node
        /\ \A o \in Objects : Complete(o) /\ home[o] = r => o \in G.node
        /\ \A e \in G.edge : \E j \in 1..Len(uses[e[1]]) : uses[e[1]][j] = e[2]
        /\ \A o \in G.node : \A j \in 1..Len(uses[o]) :
             \E e \in G.edge : e[1] = o /\ e[2] = uses[o][j]
    BY <2>1, TreeGraph
  <2> HIDE DEF G
  <2>3. targets \in SUBSET G.node /\ IsFiniteSet(G.node)
    <3>1. Len(class) \in Int /\ 1 \in Int
      BY <2>1 DEF TypeOK
    <3>2. IsFiniteSet(Objects)
      BY <3>1, FS_Interval DEF Objects
    <3>3. targets \in SUBSET G.node
      BY <2>0, <2>2
    <3> QED BY <2>2, <3>2, <3>3, FS_Subset
  <2> DEFINE f == [o \in Objects |-> Rank[class[o]]]
  <2>4. Ranks(Rank)
    BY DEF Acyclic, Rank
  <2>5. \A o \in Objects : class[o] \in Classes /\ f[o] = Rank[class[o]] /\ f[o] \in Nat
    <3>1. \A o \in Objects : class[o] \in Classes
      BY <2>1, ElementOfSeq DEF TypeOK, Objects
    <3> QED BY <2>4, <3>1 DEF Ranks
  <2>6. PICK b \in Nat : \A o \in Objects : f[o] <= b
    <3>1. f \in [1..Len(class) -> Nat] /\ Len(class) \in Nat
      BY <2>1, <2>5 DEF TypeOK, Objects
    <3> HIDE DEF f
    <3> QED BY <3>1, RankBound DEF Objects
  <2> HIDE DEF f
  <2>7. RankedBy(G, G.node, f, b)
    <3>1. ASSUME NEW e \in G.edge PROVE f[e[2]] < f[e[1]]
      <4>1. e[1] \in Objects /\ e[2] \in Objects
        BY <2>2
      <4>2. PICK j \in 1..Len(uses[e[1]]) : uses[e[1]][j] = e[2]
        BY <2>2
      <4>3. /\ Len(uses[e[1]]) <= Len(Needs[class[e[1]]])
            /\ class[e[2]] = Needs[class[e[1]]][j].class
        BY <2>1, <4>1, <4>2 DEF DeclUses
      <4>4. Len(uses[e[1]]) \in Nat /\ Len(Needs[class[e[1]]]) \in Nat
        <5>1. uses[e[1]] \in Seq(Objects) /\ Needs[class[e[1]]] \in Seq(Need)
          BY <2>1, <2>5, <4>1, BuildAssumption DEF TypeOK
        <5> QED BY <5>1, LenProperties
      <4>5. j \in 1..Len(Needs[class[e[1]]])
        BY <4>3, <4>4
      <4>6. Rank[class[e[2]]] < Rank[class[e[1]]]
        BY <2>4, <2>5, <4>1, <4>3, <4>5 DEF Ranks
      <4> QED BY <2>5, <4>1, <4>6
    <3> QED BY <2>2, <2>5, <2>6, <3>1 DEF RankedBy
  <2>8. /\ walk \in Seq(G.node) /\ targets \subseteq ToSet(walk) /\ IsInjective(walk)
        /\ \A i \in 1..Len(walk) :
             /\ \A e \in G.edge : e[1] = walk[i] => \E j \in 1..(i - 1) : walk[j] = e[2]
             /\ \/ walk[i] \in targets
                \/ \E j \in (i + 1)..Len(walk) : \E e \in G.edge : e[1] = walk[j] /\ e[2] = walk[i]
    <3>1. G.edge \subseteq G.node \X G.node
      BY <2>2
    <3>2. IsFiniteSet(G.node) /\ targets \in SUBSET G.node /\ targets # {}
      BY <2>0, <2>3
    <3> HIDE DEF walk
    <3>3. walk = UnionDependencies(G, targets)
      BY DEF walk
    <3>4. Visits(G, targets, walk)
      BY <2>6, <2>7, <3>1, <3>2, <3>3, WalkFacts
    <3> QED BY <3>4 DEF Visits
  <2> HIDE DEF walk
  <2>9. ASSUME NEW o \in Objects
        PROVE  ToSet(uses[o]) = {uses[o][j] : j \in 1..Len(uses[o])}
    <3>1. uses[o] \in Seq(Objects)
      BY <2>1 DEF TypeOK
    <3> QED BY <3>1, LenProperties DEF ToSet
  <2>10. ASSUME NEW i \in 1..Len(walk)
         PROVE  ToSet(uses[walk[i]]) \subseteq {walk[j] : j \in 1..(i - 1)}
    <3>1. walk[i] \in G.node
      BY <2>8, ElementOfSeq
    <3>2. ASSUME NEW k \in 1..Len(uses[walk[i]])
          PROVE  \E j \in 1..(i - 1) : walk[j] = uses[walk[i]][k]
      <4>1. PICK e \in G.edge : e[1] = walk[i] /\ e[2] = uses[walk[i]][k]
        BY <2>2, <3>1
      <4> QED BY <2>8, <4>1
    <3>3. walk[i] \in Objects
      BY <2>2, <3>1
    <3>4. ToSet(uses[walk[i]]) = {uses[walk[i]][j] : j \in 1..Len(uses[walk[i]])}
      BY <2>9, <3>3
    <3> QED BY <3>2, <3>4
  <2>11. ASSUME NEW i \in 1..Len(walk), walk[i] \notin targets
         PROVE  \E j \in (i + 1)..Len(walk) : walk[i] \in ToSet(uses[walk[j]])
    <3>1. PICK j \in (i + 1)..Len(walk) : \E e \in G.edge : e[1] = walk[j] /\ e[2] = walk[i]
      BY <2>8, <2>11
    <3>2. PICK k \in 1..Len(uses[walk[j]]) : uses[walk[j]][k] = walk[i]
      BY <2>2, <3>1
    <3>3. walk[j] \in Objects
      BY <2>2, <3>1
    <3>4. ToSet(uses[walk[j]]) = {uses[walk[j]][m] : m \in 1..Len(uses[walk[j]])}
      BY <2>9, <3>3
    <3> QED BY <3>2, <3>4
  <2>12. InOrder(walk, targets)
    BY <2>8, <2>10, <2>11 DEF InOrder
  <2> QED BY <2>12 DEF walk, G
<1> QED BY <1>1, RecordInvInit, RecordInvStep, PTL DEF Spec
==============================================================================
