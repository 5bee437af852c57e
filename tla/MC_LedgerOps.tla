---------------------------- MODULE MC_LedgerOps ----------------------------
(***************************************************************************)
(* Checks merge_owners and normalize_owners, as translated in LedgerOps,   *)
(* against their pointwise reference definitions on every small ledger:    *)
(* two owners, two tokens, amounts -1, 0 and 1, every token dict non-empty *)
(* (the program never builds an empty one outside normalize_owners).       *)
(***************************************************************************)
EXTENDS LedgerOps, FiniteSets

CONSTANTS Owners, TokenIds

Amounts == {-1, 0, 1}

TokenDicts == UNION {[S -> Amounts] : S \in SUBSET TokenIds \ {{}}}

Ledgers == UNION {[S -> TokenDicts] : S \in SUBSET Owners}

VARIABLES target, source, op

vars == <<target, source, op>>

Init ==
    /\ target \in Ledgers
    /\ source \in Ledgers
    /\ op = "none"

(* merge_owners(target, source), as called at lines 452 and 453. *)
Merge ==
    /\ op = "none"
    /\ target' = MergeOwners(target, source)
    /\ op' = "merge"
    /\ UNCHANGED source

(* normalize_owners(target). *)
Normalize ==
    /\ op = "none"
    /\ target' = NormalizeOwners(target)
    /\ op' = "normalize"
    /\ UNCHANGED source

Next == Merge \/ Normalize

Spec == Init /\ [][Next]_vars

(* merge_owners leaves in the target the pointwise sum of the two ledgers, *)
(* keeping every key of either: the property the scan loop relies on when *)
(* it merges per transaction into block_owners and per block into owners. *)
MergeIsPointwiseSum ==
    [][op' = "merge" => target' = MergeReference(target, source)]_vars

(* normalize_owners removes exactly the zero amounts and the owners left  *)
(* with none, whatever order the keys are visited in; in particular it is *)
(* idempotent.                                                            *)
NormalizeKeepsExactlyNonZero ==
    [][op' = "normalize" =>
         /\ target' = NormalizeReference(target)
         /\ NormalizeOwners(target') = target']_vars

=============================================================================
