----------------------------- MODULE MCScanHash ----------------------------
(* Small instances of ScanHash for TLC. *)
EXTENDS ScanHash

(* A target in the middle of the numbers of two binary words, and one      *)
(* whose upper word is zero.                                               *)
MidTarget == [i \in 0 .. 1 |-> i]
LowTarget == [i \in 0 .. 1 |-> 1 - i]
============================================================================
