---------------------------- MODULE MCActivation ----------------------------
(* Activation with three kernel-mode calibrations, two host-mode ones that *)
(* a walk has to set up and one that ndscan has set up.                    *)
EXTENDS Activation, TLC

CONSTANTS t1, t2, k1, k2, k3, h1, h2, h3

KernelDef == {k1, k2, k3}
HostDef == {h1, h2, h3}
AttachedDef == {h3}
AllNodes == KernelDef \cup HostDef
OneThread == {t1}
TwoThreads == {t1, t2}
NoNode == {}

Symmetry == Permutations(KernelDef) \cup Permutations({h1, h2}) \cup Permutations(Threads)
=============================================================================
