---------------------------- MODULE MC_HeapScan ----------------------------
(***************************************************************************)
(* Instantiates HeapScan for TLC over the chains of MC_Chains.             *)
(***************************************************************************)
EXTENDS HeapScan, MC_Chains

=============================================================================
