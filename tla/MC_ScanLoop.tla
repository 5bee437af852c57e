---------------------------- MODULE MC_ScanLoop ----------------------------
(***************************************************************************)
(* Instantiates ScanLoop for TLC over the chains of MC_Chains.             *)
(***************************************************************************)
EXTENDS ScanLoop, MC_Chains

=============================================================================
