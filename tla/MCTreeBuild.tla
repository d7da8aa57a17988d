---------------------------- MODULE MCTreeBuild -----------------------------
(* Three classes: c needs a and b, b needs a (a shortcut); an experiment    *)
(* attaches c, or b, an a of its own, and then c.                           *)
EXTENDS TreeBuild, TLC

CONSTANTS a, b, c

Shared(k)    == [class |-> k, dup |-> FALSE]
Duplicate(k) == [class |-> k, dup |-> TRUE]

MCNeeds   == a :> <<>> @@ b :> <<Shared(a)>> @@ c :> <<Shared(a), Shared(b)>>
MCClients == {<<c>>, <<b, a, c>>}

BothThreads == Permutations(Threads)

DupNeeds  == a :> <<>> @@ b :> <<Duplicate(a), Shared(a)>> @@ c :> <<Shared(b), Shared(a)>>

(* Two classes that need each other, declared so that the build ends.       *)
CyclicNeeds == a :> <<>> @@ b :> <<Shared(c)>> @@ c :> <<Shared(a), Shared(b)>>

(* Two such classes, of which another class needs one.                      *)
LoopClasses == {a, b, c, "p"}
LoopNeeds   == a :> <<>> @@ b :> <<Shared(a), Shared(c)>> @@ c :> <<Shared(b)>>
                 @@ "p" :> <<Shared(c)>>
LoopClients == {<<"p">>}
==============================================================================
