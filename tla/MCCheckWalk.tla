----------------------------- MODULE MCCheckWalk ------------------------------
(* Check walks over two calibrations: b depends on a.                        *)
EXTENDS CheckWalk, TLC

CONSTANTS a, b

MCDeps  == a :> {} @@ b :> {a}
MCOrder == <<a, b>>
===============================================================================
