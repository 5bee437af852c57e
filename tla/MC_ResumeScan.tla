---------------------------- MODULE MC_ResumeScan ----------------------------
(* The resumed scan over the chains of MC_Chains. *)
EXTENDS ResumeScan, MC_Chains

=============================================================================
