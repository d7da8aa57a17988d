------------------------------ MODULE TreeBuild ------------------------------
(***************************************************************************)
(* How calibration trees are built (dag.py; add_dependency and build of    *)
(* calibration.py).  An experiment, or a monitor controller, constructs    *)
(* its calibrations inside a building() scope; each of them constructs, or *)
(* shares, those it depends on, and the registry of the scope records who  *)
(* depends on whom.  The scope is kept in module globals; a thread may     *)
(* meet the scope of another one, or be interrupted while it opens its     *)
(* own.  Any build may raise.  Walks read the graph at any time.           *)
(***************************************************************************)
EXTENDS DependencyGraph

CONSTANTS
  Threads,    \* the threads that build
  Classes,    \* calibration classes
  Needs,      \* Needs[c]: the add_dependency calls of c's build_calibration
  Clients,    \* what an experiment may attach, in order of attachment
  MaxObjects, MaxTrees,  \* bounds: calibrations and registries created
  NoThread

Need == [class : Classes, dup : BOOLEAN]   \* dup: create_duplicates

ASSUME BuildAssumption ==
  /\ Needs \in [Classes -> Seq(Need)]
  /\ Clients \subseteq Seq(Classes)
  /\ NoThread \notin Threads
  /\ MaxObjects \in Nat /\ MaxTrees \in Nat

VARIABLES
  scope,   \* _scope_registry, _scope_depth, _scope_thread
  edges,   \* of each registry: its records, in order
  graph,   \* of each registry: the cached graph, or NoGraph
  class,   \* of each calibration: its class
  home,    \* of each calibration: its _qbutler_dag_registry
  uses,    \* of each calibration: what it depends on, as its attributes say
  stack,   \* of each thread: the builds in progress, the innermost last
  pc,      \* of each thread
  opened,  \* history: the registry a thread's build has created last
  tree,    \* history: of each calibration, the registry its build created
  clashed  \* history: two threads were inside the entry of building() at once

vars == <<scope, edges, graph, class, home, uses, stack, pc, opened, tree, clashed>>
records == <<edges, graph, home>>
objects == <<class, tree>>

NoGraph == [node |-> {}, edge |-> {}, absent |-> TRUE]
Closed == [registry |-> None, depth |-> 0, thread |-> NoThread]
Objects == 1..Len(class)
Registries == 1..Len(edges)

(* One build in progress: of a calibration, or (None) of the experiment    *)
(* itself; what it has yet to construct; what it has just constructed.     *)
Frame == [cal : {None} \cup Objects, todo : Seq(Need), child : {None} \cup Objects]

(* What is cached of a registry. *)
Graph == {NoGraph} \cup [node : SUBSET Objects, edge : SUBSET (Objects \X Objects)]

TypeOK ==
  /\ scope \in [registry : {None} \cup Registries, depth : Nat,
                thread : Threads \cup {NoThread}]
  /\ edges \in Seq(Seq(Objects \X ({None} \cup Objects)))
  /\ graph \in Seq(Graph) /\ Len(graph) = Len(edges)
  /\ class \in Seq(Classes)
  /\ home \in [Objects -> {None} \cup Registries]
  /\ uses \in [Objects -> Seq(Objects)]
  /\ tree \in [Objects -> Registries]
  /\ stack \in [Threads -> Seq(Frame)]
  /\ pc \in [Threads -> {"idle", "opening", "claiming", "building", "raising"}]
  /\ opened \in [Threads -> {None} \cup Registries]
  /\ clashed \in BOOLEAN

Init ==
  /\ scope = Closed
  /\ edges = <<>> /\ graph = <<>>
  /\ class = <<>> /\ home = <<>> /\ uses = <<>> /\ tree = <<>>
  /\ stack = [t \in Threads |-> <<>>]
  /\ pc = [t \in Threads |-> "idle"]
  /\ opened = [t \in Threads |-> None]
  /\ clashed = FALSE

Top(t) == Last(stack[t])
Push(t, cal, todo) == Append(stack[t], [cal |-> cal, todo |-> todo, child |-> None])
WithTop(t, f) == [stack EXCEPT ![t] = Append(Front(@), f)]
Mine(t) == scope.thread = t

-------------------------------------------------------------------------------
(* building(): entry and exit. *)

(* A mutant: nobody asks whose scope it is. *)
TestDepthOnly(t) ==
  /\ pc[t] = "idle"
  /\ \E c \in Clients :
       stack' = [stack EXCEPT ![t] =
         Push(t, None, [i \in 1..Len(c) |-> [class |-> c[i], dup |-> TRUE]])]
  /\ IF scope.depth = 0
     THEN pc' = [pc EXCEPT ![t] = "opening"] /\ UNCHANGED <<scope, opened>>
     ELSE /\ pc' = [pc EXCEPT ![t] = "building"]
          /\ scope' = [scope EXCEPT !.depth = @ + 1]
          /\ opened' = [opened EXCEPT ![t] = None]
  /\ Len(edges) < MaxTrees
  /\ UNCHANGED <<records, objects, uses, clashed>>

(* An experiment is to be built, and there is no scope.  When there is one *)
(* it is another thread's, and the build is refused (RuntimeError): a step *)
(* that changes nothing.                                                   *)
TestDepth(t) ==
  /\ pc[t] = "idle" /\ scope.depth = 0
  /\ Len(edges) < MaxTrees
  /\ \E c \in Clients :
       stack' = [stack EXCEPT ![t] =
         Push(t, None, [i \in 1..Len(c) |-> [class |-> c[i], dup |-> TRUE]])]
  /\ pc' = [pc EXCEPT ![t] = "opening"]
  /\ clashed' = (clashed \/ \E u \in Threads : pc[u] \in {"opening", "claiming"})
  /\ UNCHANGED <<scope, records, objects, uses, opened>>

OpenRegistry(t) ==
  /\ pc[t] = "opening" /\ pc' = [pc EXCEPT ![t] = "claiming"]
  /\ edges' = Append(edges, <<>>) /\ graph' = Append(graph, NoGraph)
  /\ scope' = [scope EXCEPT !.registry = Len(edges')]
  /\ opened' = [opened EXCEPT ![t] = Len(edges')]
  /\ UNCHANGED <<objects, home, uses, stack, clashed>>

Claim(t) ==
  /\ pc[t] = "claiming" /\ pc' = [pc EXCEPT ![t] = "building"]
  /\ scope' = [scope EXCEPT !.thread = t, !.depth = @ + 1]
  /\ UNCHANGED <<records, objects, uses, stack, opened, clashed>>

(* The "finally" of building(). *)
ExitScope ==
  scope' = IF scope.depth = 1 THEN Closed ELSE [scope EXCEPT !.depth = @ - 1]

-------------------------------------------------------------------------------
(* The registry. *)

(* A mutant: the newest one is found. *)
Newest(r, c) ==
  LET of == {i \in 1..Len(edges[r]) : class[edges[r][i][1]] = c}
  IN IF of = {} THEN None ELSE edges[r][Max(of)][1]

(* DagRegistry.record *)
Record(r, cal, dep) ==
  /\ edges' = [edges EXCEPT ![r] = Append(@, <<cal, dep>>)]
  /\ graph' = [graph EXCEPT ![r] = NoGraph]

(* calibrations_of_type: the first calibration of that class on record.    *)
Oldest(r, c) ==
  LET of == {i \in 1..Len(edges[r]) : class[edges[r][i][1]] = c}
  IN IF of = {} THEN None ELSE edges[r][Min(of)][1]

(* add_to_dependency_map, which raises if either calibration belongs to    *)
(* another tree.  Off the thread of the scope the calibrations say which   *)
(* registry it is, or get a new one.                                       *)
AddToDependencyMap(t, cal, dep) ==
  LET inScope == scope.registry # None /\ Mine(t)
      homes == {home[o] : o \in {cal, dep} \ {None}} \ {None}
      fresh == ~inScope /\ homes = {}
      r == IF inScope THEN scope.registry
           ELSE IF fresh THEN Len(edges) + 1
           ELSE IF home[cal] # None THEN home[cal] ELSE home[dep]
  IN /\ homes \subseteq {r}
     /\ home' = [o \in Objects |-> IF o \in {cal, dep} THEN r ELSE home[o]]
     /\ IF fresh
        THEN /\ edges' = Append(edges, <<<<cal, dep>>>>)
             /\ graph' = Append(graph, NoGraph)
        ELSE Record(r, cal, dep)

(* get_calibrations_of_type raises outside a scope, or off its thread.     *)
MayLookUp(t) == scope.registry # None /\ Mine(t)
Found(t) == Oldest(scope.registry, Head(Top(t).todo).class)

(* DagRegistry.graph() *)
CurrentGraph(r) == IF graph[r] = NoGraph THEN GraphOf(edges[r]) ELSE graph[r]

(* A walk, a suspicion or a publication of the DAG asks for the graph.     *)
ReadGraph(r) ==
  /\ graph' = [graph EXCEPT ![r] = CurrentGraph(r)]
  /\ UNCHANGED <<scope, edges, objects, home, uses, stack, pc, opened, clashed>>

-------------------------------------------------------------------------------
(* Builds. *)

Building(t) == pc[t] = "building"
Asks(t) == Building(t) /\ Top(t).child = None /\ Top(t).todo # <<>>
Raises(t) == pc' = [pc EXCEPT ![t] = "raising"]

(* A calibration is constructed: attached by the experiment, or by         *)
(* add_dependency when none can be shared.                                 *)
Construct(t) ==
  LET need == Head(Top(t).todo)
      o == Len(class) + 1
  IN /\ Asks(t) /\ Mine(t) /\ Len(class) < MaxObjects
     /\ Top(t).cal # None => MayLookUp(t) /\ (need.dup \/ Found(t) = None)
     /\ class' = Append(class, need.class)
     /\ home' = Append(home, None) /\ uses' = Append(uses, <<>>)
     /\ tree' = Append(tree, opened[t])
     /\ stack' = [stack EXCEPT ![t] = Push(t, o, Needs[need.class])]
     /\ scope' = [scope EXCEPT !.depth = @ + 1]
     /\ UNCHANGED <<edges, graph, pc, opened, clashed>>

(* The attribute and the edge for the dependency at hand. *)
Depend(t, dep) ==
  /\ AddToDependencyMap(t, Top(t).cal, dep)
  /\ uses' = [uses EXCEPT ![Top(t).cal] = Append(@, dep)]
  /\ stack' = WithTop(t, [Top(t) EXCEPT !.todo = Tail(@), !.child = None])
  /\ UNCHANGED <<scope, objects, pc, opened, clashed>>

(* add_dependency finds a calibration to share. *)
Share(t) ==
  /\ Asks(t) /\ Top(t).cal # None /\ MayLookUp(t)
  /\ ~Head(Top(t).todo).dup /\ Found(t) # None
  /\ Depend(t, Found(t))

(* Back in add_dependency, with the new dependency. *)
Wire(t) ==
  /\ Building(t) /\ Top(t).child # None /\ Top(t).cal # None
  /\ Depend(t, Top(t).child)

(* Back in the experiment, with the new calibration. *)
Attached(t) ==
  /\ Building(t) /\ Top(t).child # None /\ Top(t).cal = None
  /\ stack' = WithTop(t, [Top(t) EXCEPT !.todo = Tail(@), !.child = None])
  /\ UNCHANGED <<scope, records, objects, uses, pc, opened, clashed>>

(* The end of a calibration's build_fragment: it is registered, its scope  *)
(* is left, its parent has it.                                             *)
Register(t) ==
  LET rest == Front(stack[t])
  IN /\ Building(t) /\ Top(t).todo = <<>> /\ Top(t).cal # None
     /\ AddToDependencyMap(t, Top(t).cal, None)
     /\ stack' = [stack EXCEPT ![t] =
                    Append(Front(rest), [Last(rest) EXCEPT !.child = Top(t).cal])]
     /\ ExitScope
     /\ UNCHANGED <<objects, uses, pc, opened, clashed>>

(* The experiment is built. *)
Leave(t) ==
  /\ Building(t) /\ Top(t).todo = <<>> /\ Top(t).cal = None
  /\ stack' = [stack EXCEPT ![t] = <<>>]
  /\ pc' = [pc EXCEPT ![t] = "idle"]
  /\ ExitScope
  /\ UNCHANGED <<records, objects, uses, opened, clashed>>

(* Code of the experiment or of a calibration raises, or (the type and     *)
(* value errors at the end of a build, a scope that is not, or no longer,  *)
(* this thread's) qbutler does.                                            *)
Raise(t) ==
  /\ Building(t) /\ Raises(t)
  /\ UNCHANGED <<scope, records, objects, uses, stack, opened, clashed>>

(* A mutant: a scope left by an exception is not counted down. *)
UnwindCounted(t) ==
  /\ pc[t] = "raising"
  /\ stack' = [stack EXCEPT ![t] = Front(@)]
  /\ pc' = [pc EXCEPT ![t] = IF Len(stack[t]) = 1 THEN "idle" ELSE "raising"]
  /\ UNCHANGED <<scope, records, objects, uses, opened, clashed>>

(* The exception leaves one build after another. *)
Unwind(t) ==
  /\ pc[t] = "raising"
  /\ stack' = [stack EXCEPT ![t] = Front(@)]
  /\ pc' = [pc EXCEPT ![t] = IF Len(stack[t]) = 1 THEN "idle" ELSE "raising"]
  /\ ExitScope
  /\ UNCHANGED <<records, objects, uses, opened, clashed>>

Step(t) ==
  \/ TestDepth(t) \/ OpenRegistry(t) \/ Claim(t)
  \/ Construct(t) \/ Share(t) \/ Wire(t) \/ Attached(t) \/ Register(t)
  \/ Leave(t) \/ Raise(t) \/ Unwind(t)

Next == \E t \in Threads : Step(t) \/ \E r \in Registries : ReadGraph(r)

Spec == Init /\ [][Next]_vars

-------------------------------------------------------------------------------

(* A calibration whose own build has come to its end. *)
Complete(o) == home[o] # None /\ <<o, None>> \in ToSet(edges[home[o]])

(* Whatever was built, in whatever order it was declared, shared, raised   *)
(* or cached, a walk from any calibrations of a tree visits exactly those  *)
(* they depend on, once, and each of them after all that it uses (dag.py   *)
(* 242-248, 269-273).                                                      *)
WalksInOrder ==
  \A r \in Registries :
    LET G == CurrentGraph(r)
        whole == {o \in Objects : Complete(o) /\ home[o] = r}
        Uses(o) == ToSet(uses[o])
    IN \A targets \in (SUBSET whole) \ {{}} :
         LET walk == UnionDependencies(G, targets)
         IN /\ targets \subseteq ToSet(walk)
            /\ IsInjective(walk)
            /\ \A i \in 1..Len(walk) :
                 /\ Uses(walk[i]) \subseteq {walk[j] : j \in 1..(i - 1)}
                 /\ \/ walk[i] \in targets
                    \/ \E j \in (i + 1)..Len(walk) : walk[i] \in Uses(walk[j])

(* "A hit from any other tree would alias a fragment wired into someone    *)
(* else's fragment path" (dag.py 116-118): no build ever uses, or finds in *)
(* its registry, what another build has made, unless two threads were      *)
(* inside the entry of building() at the same time.                        *)
TreesApart ==
  ~clashed =>
    \A o \in Objects :
      /\ home[o] \in {None, tree[o]}
      /\ \A i \in 1..Len(uses[o]) : tree[uses[o][i]] = tree[o]

(* What the comment on the globals says (dag.py 97-101): a concurrent      *)
(* build fails loudly and never welds two trees together.                  *)
NeverWelded == \A o \in Objects : \A i \in 1..Len(uses[o]) : tree[uses[o][i]] = tree[o]

(* add_dependency "prevents the creation of multiple Calibrations all      *)
(* checking the same thing" (calibration.py 807-810): within a tree, all   *)
(* who depend on a class, and asked for no duplicate, use one calibration. *)
OneForAll ==
  ~clashed =>
    \A o, p \in Objects : \A i \in 1..Len(uses[o]), j \in 1..Len(uses[p]) :
      LET one == Needs[class[o]][i]
          other == Needs[class[p]][j]
      IN tree[o] = tree[p] /\ one.class = other.class /\ ~one.dup /\ ~other.dup
           => uses[o][i] = uses[p][j]

(* Whatever was refused, raised or interrupted, when no build is under way *)
(* the next one can begin.                                                 *)
ScopeClosed == (\A t \in Threads : pc[t] = "idle") => scope = Closed
==============================================================================
