-------------------------- MODULE MCPthreadBarrier -------------------------
(* Small instances of PthreadBarrier for TLC. *)
EXTENDS PthreadBarrier
=============================================================================
