---------------------------- MODULE MCThreadQueue --------------------------
(* Small instances of ThreadQueue for TLC. *)
EXTENDS ThreadQueue
=============================================================================
