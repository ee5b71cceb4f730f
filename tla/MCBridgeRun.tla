---------------------------- MODULE MCBridgeRun ----------------------------
(***************************************************************************)
(* Instances of BridgeRun: which clients call what, and what goes wrong,   *)
(* is chosen by the configurations.                                        *)
(***************************************************************************)
EXTENDS BridgeRun, TLC

Symmetry == Permutations(Runs) \cup Permutations(Commands)
=============================================================================
