-------------------------- MODULE MCRandomXDataset -------------------------
(* Small instances of RandomXDataset for TLC. *)
EXTENDS RandomXDataset
=============================================================================
