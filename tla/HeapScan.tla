------------------------------ MODULE HeapScan ------------------------------
(***************************************************************************)
(* The ledgers of the scan loop as Python objects.  owners, block_owners   *)
(* and each transaction_owners are outer dicts from an owner key to a      *)
(* reference; `heap` holds the token dict each reference points to.        *)
(* merge_owners stores the source's token dict itself in the target        *)
(* (`target[owner] = tokens`), so after a merge the two outer dicts share  *)
(* it, and a later `+=` through either changes what both see.              *)
(*                                                                         *)
(* Only the ledger's data flow is modelled: the fetch failures, retries    *)
(* and the history of ScanLoop do not touch these objects.                 *)
(***************************************************************************)
EXTENDS LogDecoder

CONSTANTS Chains, Seed

ASSUME Chains \subseteq Seq(Blocks)

VARIABLES
    chain,         \* the blocks from the start height on
    block_number,  \* the scan cursor: index into chain
    pc,            \* "get_block", "receipt" or "done"
    txi,           \* index of the transaction being handled in the block
    heap,          \* heap[r]: the token dict with reference r
    owners,        \* owner key -> reference
    block_owners   \* owner key -> reference

vars == <<chain, block_number, pc, txi, heap, owners, block_owners>>

(* The ledger an outer dict denotes, read through the heap. *)
Deref(h, outer) == [o \in DOMAIN outer |-> h[outer[o]]]

(* A fresh token dict for each owner of a ledger value, appended to the   *)
(* heap: the heap after, and the outer dict pointing at them.              *)
Allocate(h, ledger) ==
    LET keys == SetToSeq(DOMAIN ledger)
        base == Len(h)
    IN  << h \o [i \in 1 .. Len(keys) |-> ledger[keys[i]]],
           [o \in DOMAIN ledger |-> base + CHOOSE i \in 1 .. Len(keys) : keys[i] = o] >>

(* One owner of merge_owners(target, source) on objects: a new owner gets *)
(* the source's reference, a known one has each token of the source's    *)
(* dict added into its own dict.  st is <<heap, target>>.                  *)
MergeOwnerRef(st, source, owner) ==
    LET h == st[1]
        target == st[2]
    IN  IF owner \notin DOMAIN target
        THEN << h, Put(target, owner, source[owner]) >>
        ELSE << FoldLeft(LAMBDA hh, t :
                           [hh EXCEPT ![target[owner]] = MergeToken(@, t, hh[source[owner]][t])],
                         h, SetToSeq(DOMAIN h[source[owner]])),
                target >>

MergeOwnersRef(h, target, source) ==
    FoldLeft(LAMBDA st, o : MergeOwnerRef(st, source, o),
             << h, target >>, SetToSeq(DOMAIN source))

Init ==
    /\ chain \in Chains
    /\ block_number = 1
    /\ pc = "get_block"
    /\ txi = 1
    /\ heap = Allocate(<<>>, Seed)[1]
    /\ owners = Allocate(<<>>, Seed)[2]
    /\ block_owners = EmptyLedger

(* Leave the block's transaction loop: merge_owners(owners, block_owners) *)
(* with the heap h and block_owners bo, then block_number += 1.            *)
EndBlock(h, bo) ==
    LET st == MergeOwnersRef(h, owners, bo)
    IN  /\ heap' = st[1]
        /\ owners' = st[2]
        /\ block_number' = block_number + 1
        /\ pc' = "get_block"

(* Plausible bug: `block_owners = {}` is hoisted out of the while loop. *)
GetBlockKeepBlockOwners ==
    /\ pc = "get_block"
    /\ block_number <= Len(chain)
    /\ IF Passes(chain[block_number])
       THEN /\ txi' = 1
            /\ UNCHANGED block_owners
            /\ IF chain[block_number].txs = <<>>
               THEN EndBlock(heap, block_owners)
               ELSE /\ pc' = "receipt"
                    /\ UNCHANGED <<heap, owners, block_number>>
       ELSE /\ block_number' = block_number + 1
            /\ UNCHANGED <<pc, txi, heap, owners, block_owners>>
    /\ UNCHANGED chain

(* A block: if it passes the prefilter, a fresh block_owners and its      *)
(* transactions (an empty block is merged at once), else the next block.  *)
GetBlock ==
    /\ pc = "get_block"
    /\ block_number <= Len(chain)
    /\ IF Passes(chain[block_number])
       THEN /\ txi' = 1
            /\ block_owners' = EmptyLedger
            /\ IF chain[block_number].txs = <<>>
               THEN EndBlock(heap, EmptyLedger)
               ELSE /\ pc' = "receipt"
                    /\ UNCHANGED <<heap, owners, block_number>>
       ELSE /\ block_number' = block_number + 1
            /\ UNCHANGED <<pc, txi, heap, owners, block_owners>>
    /\ UNCHANGED chain

(* BlockNotFound: the loop ends. *)
ChainHead ==
    /\ pc = "get_block"
    /\ block_number = Len(chain) + 1
    /\ pc' = "done"
    /\ UNCHANGED <<chain, block_number, txi, heap, owners, block_owners>>

(* handle_transaction builds transaction_owners from fresh dicts; a       *)
(* non-empty one is merged into block_owners.  After the last transaction *)
(* the block is merged into owners.                                        *)
HandleTx ==
    /\ pc = "receipt"
    /\ LET delta == TxOwners(chain[block_number].txs[txi])
           tx_owners == Allocate(heap, delta)
           st == IF DOMAIN delta # {}
                 THEN MergeOwnersRef(tx_owners[1], block_owners, tx_owners[2])
                 ELSE << heap, block_owners >>
           last == txi = Len(chain[block_number].txs)
       IN  /\ block_owners' = st[2]
           /\ txi' = txi + 1
           /\ IF last
              THEN EndBlock(st[1], st[2])
              ELSE /\ heap' = st[1]
                   /\ UNCHANGED <<owners, block_number, pc>>
    /\ UNCHANGED chain

Next == GetBlock \/ ChainHead \/ HandleTx

Spec == Init /\ [][Next]_vars

-----------------------------------------------------------------------------
(***************************************************************************)
(* With objects shared between owners, block_owners and the transaction   *)
(* dicts, the ledger read through the heap is still the one LedgerSpec    *)
(* describes: block by block, every transaction's delta added once.       *)
(***************************************************************************)
Value == INSTANCE LedgerSpec
           WITH ledger <- Deref(heap, owners),
                cursor <- block_number,
                status <- IF pc = "done" THEN "completed" ELSE "scanning"

(* Sharing token dicts between the ledgers never shows in owners: the     *)
(* scan with reference semantics implements the scan with values.         *)
AliasingInvisible == Value!Spec

=============================================================================
