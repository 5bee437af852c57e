----------------------------- MODULE LedgerSpec -----------------------------
(***************************************************************************)
(* What the scan promises, with no fetching, retrying or prefiltering:    *)
(* starting from the seed ledger at the first block, it applies the        *)
(* blocks one at a time, in order, each transaction's delta merged into    *)
(* the ledger; it completes when the next block does not exist, or stops   *)
(* at any point, and in both cases the ledger and the cursor it stands at  *)
(* say exactly which blocks have been applied.                             *)
(***************************************************************************)
EXTENDS LogDecoder

CONSTANT Seed

VARIABLES chain, cursor, ledger, status

vars == <<chain, cursor, ledger, status>>

(* The ledger after applying every transaction of a sequence, in order. *)
ApplyTxs(L, txs) == FoldLeft(LAMBDA acc, tx : MergeOwners(acc, TxOwners(tx)), L, txs)

(* The ledger once blocks 1 .. n-1 of a chain have been applied. *)
LedgerBefore(c, n) ==
    FoldLeft(LAMBDA acc, b : ApplyTxs(acc, b.txs), Seed, SubSeq(c, 1, n - 1))

Init ==
    /\ chain \in Seq(Blocks)
    /\ cursor = 1
    /\ ledger = Seed
    /\ status = "scanning"

ApplyBlock ==
    /\ status = "scanning"
    /\ cursor <= Len(chain)
    /\ ledger' = ApplyTxs(ledger, chain[cursor].txs)
    /\ cursor' = cursor + 1
    /\ UNCHANGED <<chain, status>>

Complete ==
    /\ status = "scanning"
    /\ cursor = Len(chain) + 1
    /\ status' = "completed"
    /\ UNCHANGED <<chain, cursor, ledger>>

Stop ==
    /\ status = "scanning"
    /\ status' = "stopped"
    /\ UNCHANGED <<chain, cursor, ledger>>

Next == ApplyBlock \/ Complete \/ Stop

Spec == Init /\ [][Next]_vars

(* The caller feeds what a stopped scan reported back in as the next     *)
(* run's seed and start height: scanning goes on from the same ledger and *)
(* cursor, with nothing applied twice or skipped.                        *)
Resume ==
    /\ status = "stopped"
    /\ status' = "scanning"
    /\ UNCHANGED <<chain, cursor, ledger>>

ResumableSpec == Init /\ [][Next \/ Resume]_vars

=============================================================================
