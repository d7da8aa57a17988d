---------------------------- MODULE MCEscapeLoop ----------------------------
(* Two calibrations: c, maybe with a zero check timeout, depends on a.    *)
EXTENDS EscapeLoop

CONSTANTS a, c

MCOrder == <<a, c>>
==============================================================================
