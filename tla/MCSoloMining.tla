---------------------------- MODULE MCSoloMining ---------------------------
(* Small instances of SoloMining for TLC. *)
EXTENDS SoloMining, TLC

Forever == -1      \* the default of opt_retries

Symmetric == Permutations(Miners)
=============================================================================
