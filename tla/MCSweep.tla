------------------------------ MODULE MCSweep -------------------------------
(* Searches over two parameters, of two points per axis and two stages.    *)
EXTENDS Sweep, TLC

CONSTANTS NaN

MCLow == <<0, 0>>
MCHigh == <<8, 4>>
Twice == [x \in {"grid", "descent", "zoom"} |-> 2]
Corners == {<<0, 0>>, <<8, 4>>}
MCStarts == {<<0, 0>>, <<6, 2>>}

(* Every optimizer, in the resident kernel and on the host.                *)
MCKinds == {"host", "kernel"} \X {"grid", "descent", "zoom", "custom"}

(* A calibration whose parameter was left out of its range. *)
Outside == {<<16, 0>>}
=============================================================================
