------------------------------ MODULE MCStratum -----------------------------
(* Constants of the stratum runs. *)
EXTENDS Stratum
CONSTANTS m1
=============================================================================
