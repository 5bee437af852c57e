------------------------------ MODULE ScanLoop ------------------------------
(***************************************************************************)
(* The main loop of parse_eth_blocks.py with its retrying fetchers.        *)
(*                                                                         *)
(* The chain is fixed for a behaviour: `chain[n]` is the n-th block from   *)
(* the start height, and block Len(chain)+1 is not found (the chain head). *)
(* Each fetch attempt either answers or fails; a failure is the            *)
(* environment's choice, bounded by MaxFailures.  An operator interrupt    *)
(* (KeyboardInterrupt) may arrive at the points in InterruptPoints,        *)
(* bounded by MaxInterrupts.  One step is the program's run from one       *)
(* possible failure point to the next:                                     *)
(*   "get_block"   about to call get_block(w3, block_number)               *)
(*   "receipt"     about to fetch the receipt of transaction txi           *)
(*   "merge_block" the block's transactions are handled (line 453 next)    *)
(*   "advance"     the block is merged into owners (line 454 next)         *)
(*   "done"        the chain head was reached and owners printed           *)
(*   "failed"      an exception reached the outer handler, which printed   *)
(*                 owners and block_number and re-raised                   *)
(* The websocket handle is a number: `w3` is the main loop's, `fetch_w3`   *)
(* the one local to the fetch in progress; create_w3 makes a new number.   *)
(***************************************************************************)
EXTENDS LogDecoder

CONSTANTS
    Chains,          \* the chains the scan may be run against
    Seed,            \* the hard-coded `owners` literal: the checkpoint
    AttemptCount,    \* `attempt_count`
    MaxFailures,     \* bound: fetch attempts that fail in one behaviour
    MaxInterrupts,   \* bound: operator interrupts in one behaviour
    InterruptPoints  \* the pcs at which an interrupt may arrive

ASSUME AttemptCount \in Nat \ {0} /\ Chains \subseteq Seq(Blocks)

VARIABLES
    chain,         \* the blocks from the start height on
    block_number,  \* the scan cursor: index into chain
    owners,        \* the running ledger
    flow,          \* the per-account history
    unhandled,     \* `unhandled_transactions`
    block_owners,  \* deltas of the current block's handled transactions
    txi,           \* index of the transaction being handled in the block
    pc,            \* control point, see above
    attempt,       \* `attempt` of the fetch in progress
    w3,            \* the main loop's websocket handle
    fetch_w3,      \* the handle local to the fetch in progress
    handles,       \* handles created so far; the newest is `handles`
    discarded,     \* handles replaced after a failed attempt (history)
    failures,      \* failed fetch attempts so far (history)
    streak,        \* failed attempts since the last answered fetch (history)
    interrupts,    \* interrupts delivered so far (history)
    output         \* what the program printed when it stopped

vars == <<chain, block_number, owners, flow, unhandled, block_owners, txi, pc,
          attempt, w3, fetch_w3, handles, discarded, failures, streak,
          interrupts, output>>

NoOutput == [owners |-> EmptyLedger, block |-> 0, cause |-> "none"]

Init ==
    /\ chain \in Chains
    /\ block_number = 1
    /\ owners = Seed
    /\ flow \in [OwnerKeys -> [Categories -> {<<>>}]]
    /\ unhandled = <<>>
    /\ block_owners = EmptyLedger
    /\ txi = 1
    /\ pc = "get_block"
    /\ attempt = 1
    /\ w3 = 1
    /\ fetch_w3 = 1
    /\ handles = 1
    /\ discarded = {}
    /\ failures = 0
    /\ streak = 0
    /\ interrupts = 0
    /\ output = NoOutput

-----------------------------------------------------------------------------
(* create_w3(): a new websocket handle, numbered after every earlier one. *)
create_w3 == handles + 1

(* Plausible bug: the attempt counter starts at 0. *)
BeginFetchFromZero(handle) == attempt' = 0 /\ fetch_w3' = handle

(* Entry of get_block / get_transaction_receipt: attempt = 1, w3 passed in. *)
BeginFetch(handle) == attempt' = 1 /\ fetch_w3' = handle

(* The for loop over block.transactions: fetch the i-th, or leave the loop. *)
NextTx(i) ==
    /\ txi' = i
    /\ pc' = IF i <= Len(chain[block_number].txs) THEN "receipt" ELSE "merge_block"

(* An attempt fails; the failure budget of the behaviour is spent. *)
Fault ==
    /\ failures < MaxFailures
    /\ failures' = failures + 1

(* Plausible bug: `attempt += 1` is left out of the retry branch. *)
RetryNoCount ==
    /\ attempt # AttemptCount
    /\ attempt' = attempt
    /\ handles' = create_w3
    /\ fetch_w3' = create_w3
    /\ discarded' = discarded \cup {fetch_w3}
    /\ UNCHANGED <<pc, output>>

(* The except branch when attempts are left: sleep, count, reconnect. *)
Retry ==
    /\ attempt # AttemptCount
    /\ attempt' = attempt + 1
    /\ handles' = create_w3
    /\ fetch_w3' = create_w3
    /\ discarded' = discarded \cup {fetch_w3}
    /\ UNCHANGED <<pc, output>>

(* The exception reaches the outer `except:`: owners and block_number are *)
(* printed and the exception re-raised.                                   *)
Raise(cause) ==
    /\ pc' = "failed"
    /\ output' = [owners |-> owners, block |-> block_number, cause |-> cause]
    /\ UNCHANGED <<attempt, handles, fetch_w3, discarded>>

(* Plausible bug: a block the prefilter rejects is not stepped over. *)
GetBlockNoSkipAdvance ==
    /\ pc = "get_block"
    /\ block_number <= Len(chain)
    /\ w3' = fetch_w3
    /\ streak' = 0
    /\ IF Passes(chain[block_number])
       THEN /\ block_owners' = EmptyLedger
            /\ NextTx(1)
       ELSE UNCHANGED <<block_owners, txi, pc>>
    /\ BeginFetch(fetch_w3)
    /\ UNCHANGED <<chain, block_number, owners, flow, unhandled, handles,
                   discarded, failures, interrupts, output>>

(* get_block answers with a block; the loop tests its bloom filter and     *)
(* either starts on its transactions or steps over it.                     *)
GetBlock ==
    /\ pc = "get_block"
    /\ block_number <= Len(chain)
    /\ w3' = fetch_w3
    /\ streak' = 0
    /\ IF Passes(chain[block_number])
       THEN /\ block_owners' = EmptyLedger
            /\ NextTx(1)
            /\ UNCHANGED block_number
       ELSE /\ block_number' = block_number + 1
            /\ UNCHANGED <<block_owners, txi, pc>>
    /\ BeginFetch(fetch_w3)
    /\ UNCHANGED <<chain, owners, flow, unhandled, handles, discarded,
                   failures, interrupts, output>>

(* get_block answers BlockNotFound: the loop ends and owners is printed. *)
GetBlockNotFound ==
    /\ pc = "get_block"
    /\ block_number = Len(chain) + 1
    /\ w3' = fetch_w3
    /\ streak' = 0
    /\ pc' = "done"
    /\ output' = [owners |-> owners, block |-> block_number, cause |-> "end"]
    /\ UNCHANGED <<chain, block_number, owners, flow, unhandled, block_owners,
                   txi, attempt, fetch_w3, handles, discarded, failures,
                   interrupts>>

(* ConnectionClosedError in get_block: retried, or raised on the last attempt. *)
GetBlockClosed ==
    /\ pc = "get_block"
    /\ Fault
    /\ streak' = streak + 1
    /\ \/ Retry
       \/ attempt = AttemptCount /\ Raise("transport")
    /\ UNCHANGED <<chain, block_number, owners, flow, unhandled, block_owners,
                   txi, w3, interrupts>>

(* Any other exception in get_block is not caught there. *)
GetBlockError ==
    /\ pc = "get_block"
    /\ Fault
    /\ streak' = streak + 1
    /\ Raise("error")
    /\ UNCHANGED <<chain, block_number, owners, flow, unhandled, block_owners,
                   txi, w3, interrupts>>

(* Plausible bug: the loop keeps its own handle instead of the returned one. *)
HandleTxKeepHandle ==
    /\ pc = "receipt"
    /\ LET tx    == chain[block_number].txs[txi]
           hash  == <<block_number, txi>>
           delta == TxOwners(tx)
       IN  /\ flow' = TxFlow(flow, hash, tx)
           /\ unhandled' = TxUnhandled(unhandled, hash, tx)
           /\ block_owners' = IF DOMAIN delta # {}
                              THEN MergeOwners(block_owners, delta)
                              ELSE block_owners
    /\ streak' = 0
    /\ NextTx(txi + 1)
    /\ BeginFetch(w3)
    /\ UNCHANGED <<chain, block_number, owners, w3, handles, discarded,
                   failures, interrupts, output>>

(* Plausible bug: each transaction's delta goes straight into owners. *)
HandleTxIntoOwners ==
    /\ pc = "receipt"
    /\ LET tx    == chain[block_number].txs[txi]
           hash  == <<block_number, txi>>
           delta == TxOwners(tx)
       IN  /\ flow' = TxFlow(flow, hash, tx)
           /\ unhandled' = TxUnhandled(unhandled, hash, tx)
           /\ owners' = IF DOMAIN delta # {} THEN MergeOwners(owners, delta) ELSE owners
    /\ w3' = fetch_w3
    /\ streak' = 0
    /\ NextTx(txi + 1)
    /\ BeginFetch(fetch_w3)
    /\ UNCHANGED <<chain, block_number, block_owners, handles, discarded,
                   failures, interrupts, output>>

(* The receipt is returned: handle_transaction records the history and    *)
(* the audit list, and the loop merges a non-empty delta into block_owners. *)
HandleTx ==
    /\ pc = "receipt"
    /\ LET tx    == chain[block_number].txs[txi]
           hash  == <<block_number, txi>>
           delta == TxOwners(tx)
       IN  /\ flow' = TxFlow(flow, hash, tx)
           /\ unhandled' = TxUnhandled(unhandled, hash, tx)
           /\ block_owners' = IF DOMAIN delta # {}
                              THEN MergeOwners(block_owners, delta)
                              ELSE block_owners
    /\ w3' = fetch_w3
    /\ streak' = 0
    /\ NextTx(txi + 1)
    /\ BeginFetch(fetch_w3)
    /\ UNCHANGED <<chain, block_number, owners, handles, discarded, failures,
                   interrupts, output>>

(* Any exception while fetching a receipt: retried, or raised on the last. *)
ReceiptFails ==
    /\ pc = "receipt"
    /\ Fault
    /\ streak' = streak + 1
    /\ \/ Retry
       \/ attempt = AttemptCount /\ Raise("transport")
    /\ UNCHANGED <<chain, block_number, owners, flow, unhandled, block_owners,
                   txi, w3, interrupts>>

(* merge_owners(owners, block_owners). *)
MergeBlock ==
    /\ pc = "merge_block"
    /\ owners' = MergeOwners(owners, block_owners)
    /\ pc' = "advance"
    /\ UNCHANGED <<chain, block_number, flow, unhandled, block_owners, txi,
                   attempt, w3, fetch_w3, handles, discarded, failures, streak,
                   interrupts, output>>

(* block_number += 1, and the next get_block call. *)
Advance ==
    /\ pc = "advance"
    /\ block_number' = block_number + 1
    /\ pc' = "get_block"
    /\ BeginFetch(w3)
    /\ UNCHANGED <<chain, owners, flow, unhandled, block_owners, txi, w3,
                   handles, discarded, failures, streak, interrupts, output>>

(* KeyboardInterrupt.  During getTransactionReceipt the bare `except:`   *)
(* takes it for a failed attempt; during the sleep that follows a failed  *)
(* attempt, and anywhere outside a receipt fetch, it reaches the outer    *)
(* handler.                                                               *)
Interrupt ==
    /\ interrupts < MaxInterrupts
    /\ pc \in InterruptPoints
    /\ interrupts' = interrupts + 1
    /\ \/ /\ pc = "receipt"
          /\ streak' = streak + 1
          /\ \/ Retry
             \/ attempt = AttemptCount /\ Raise("interrupt")
       \/ /\ pc = "receipt"
          /\ attempt > 1
          /\ Raise("interrupt")
          /\ UNCHANGED streak
       \/ /\ pc # "receipt"
          /\ Raise("interrupt")
          /\ UNCHANGED streak
    /\ UNCHANGED <<chain, block_number, owners, flow, unhandled, block_owners,
                   txi, w3, failures>>

(* The program's own steps: one thread that always runs. *)
Loop == GetBlock \/ GetBlockNotFound \/ HandleTx \/ MergeBlock \/ Advance

(* What the transport and the operator do to it. *)
Environment == GetBlockClosed \/ GetBlockError \/ ReceiptFails \/ Interrupt

Next == Loop \/ Environment

Spec == Init /\ [][Next]_vars /\ WF_vars(Loop)

-----------------------------------------------------------------------------
(***************************************************************************)
(* The scan implements LedgerSpec.  While owners holds a block that        *)
(* block_number does not yet count (pc = "advance"), the abstract cursor   *)
(* is already past it.                                                   *)
(***************************************************************************)
Abs == INSTANCE LedgerSpec
         WITH cursor <- IF pc = "advance" THEN block_number + 1 ELSE block_number,
              ledger <- owners,
              status <- CASE pc = "done"   -> "completed"
                          [] pc = "failed" -> "stopped"
                          [] OTHER         -> "scanning"

(* (tx hash, ids, qtys) for minted and burned, with the counterparty     *)
(* after the hash for sent and received; a hash is (block, index).        *)
HistoryEntries ==
    ((Nat \X Nat) \X Seq(Tokens) \X Seq(Nat))
    \cup ((Nat \X Nat) \X OwnerKeys \X Seq(Tokens) \X Seq(Nat))

TypeOK ==
    /\ block_number \in 1 .. Len(chain) + 1
    /\ pc \in {"get_block", "receipt", "merge_block", "advance", "done", "failed"}
    /\ DOMAIN owners \subseteq OwnerKeys
    /\ \A o \in DOMAIN owners : owners[o] \in [DOMAIN owners[o] -> Int]
    /\ DOMAIN block_owners \subseteq OwnerKeys
    /\ flow \in [OwnerKeys -> [Categories -> Seq(HistoryEntries)]]
    /\ unhandled \in Seq(Nat \X Nat)
    /\ attempt \in 1 .. AttemptCount
    /\ {w3, fetch_w3} \subseteq 1 .. handles
    /\ output.cause \in {"none", "end", "transport", "error", "interrupt"}

(* The block at block_number has not been started or has been applied whole. *)
AtBlockBoundary == pc \in {"get_block", "done"}

(* The logs of the successful transactions of blocks 1 .. n-1, in order. *)
ExecutedLogs(n) ==
    FlattenSeq([b \in 1 .. n - 1 |->
        FlattenSeq([i \in DOMAIN chain[b].txs |->
            IF chain[b].txs[i].status = 1 THEN chain[b].txs[i].logs ELSE <<>>])])

(* What account h really holds of token t once blocks 1 .. n-1 executed. *)
Holding(h, t, n) ==
    Bal(Seed, TopicHex(h), t)
    + FoldLeft(LAMBDA s, l : s + NetChange(h, t, l), 0, ExecutedLogs(n))

(* At every block boundary the ledger holds only supported tokens, and for *)
(* every holder and supported token exactly what the chain's transfers up *)
(* to the cursor leave it: status, emitting address, topic dispatch, the   *)
(* supported-token filter and the bloom skip of the scan all play a part.  *)
HoldingsMatchChain ==
    AtBlockBoundary =>
        /\ \A o \in DOMAIN owners : DOMAIN owners[o] \subseteq SupportedTokens
        /\ \A h \in Holders, t \in SupportedTokens :
              Bal(owners, TopicHex(h), t) = Holding(h, t, block_number)

(* Units of token t in a history category: the ids and quantities are the *)
(* last two components of every entry.                                     *)
CategoryUnits(entries, t) ==
    FoldLeft(LAMBDA s, e : s + FoldLeft(LAMBDA u, p : u + (IF p[1] = t THEN p[2] ELSE 0),
                                        0, Zip(e[Len(e) - 1], e[Len(e)])),
             0, entries)

(* At every block boundary the history of each holder accounts for the    *)
(* change of its ledger balance since the seed, token by token: what was  *)
(* minted to or received by it, less what it sent or burned.               *)
FlowMatchesLedger ==
    AtBlockBoundary =>
        \A h \in Holders, t \in SupportedTokens :
            LET f == flow[TopicHex(h)]
            IN  Bal(owners, TopicHex(h), t) - Bal(Seed, TopicHex(h), t)
                  = CategoryUnits(f["minted"], t) + CategoryUnits(f["received"], t)
                    - CategoryUnits(f["sent"], t) - CategoryUnits(f["burned"], t)

(* A transaction the decoder has nothing for: it succeeded and none of   *)
(* its logs is a transfer or approval of the contract.                     *)
Undecoded(tx) ==
    tx.status = 1
    /\ \A l \in ToSet(tx.logs) :
          l.address # Contract \/ l.topic \notin {TransferSingle, TransferBatch, ApprovalForAll}

(* The hashes of the undecoded transactions of blocks 1 .. n-1 that the   *)
(* prefilter lets through, in block and transaction order.                *)
AuditedBefore(n) ==
    FlattenSeq([b \in 1 .. n - 1 |->
        IF Passes(chain[b])
        THEN SelectSeq([i \in DOMAIN chain[b].txs |-> <<b, i>>],
                       LAMBDA h : Undecoded(chain[b].txs[h[2]]))
        ELSE <<>>])

(* At every block boundary unhandled_transactions lists exactly the       *)
(* undecoded transactions of the scanned blocks, each once and in order:  *)
(* reverted transactions, skipped blocks and approvals stay out of it.    *)
UnhandledIsAudit ==
    AtBlockBoundary => unhandled = AuditedBefore(block_number)

CheckpointConsistent ==
    output.cause # "none" => output.owners = Abs!LedgerBefore(chain, output.block)

(* A fetch is given up for a transport failure only after AttemptCount    *)
(* consecutive failed attempts, and never after more.                      *)
RetryCeilingRespected ==
    /\ streak <= AttemptCount
    /\ output.cause = "transport" => streak = AttemptCount

(* No fetch is made through a handle the program has already replaced     *)
(* after a failure: the handle returned by every fetch reaches the next.   *)
NoStaleHandle ==
    pc \in {"get_block", "receipt"} => fetch_w3 \notin discarded

(* The scan eventually stops: at the chain head or by raising. *)
Termination == <>(pc \in {"done", "failed"})

(* Per the specification the audit list holds only transactions whose    *)
(* receipt touches the contract.                                          *)
UnhandledTouchedContract ==
    \A k \in DOMAIN unhandled :
        LET h == unhandled[k]
        IN  \E l \in ToSet(chain[h[1]].txs[h[2]].logs) : l.address = Contract

(* Per spec section 4.3 a mint applies only a positive delta to the taker *)
(* and a burn only a negative one to the giver, so the zero account never *)
(* gets a ledger entry.  The delta loop of lines 135-149 runs for every    *)
(* transfer, whatever the zero-address tests of lines 111 and 117 say.    *)
ZeroAccountNeverInLedger == TopicHex(ZeroAddr) \notin DOMAIN owners

(* Per spec section 4.3 a transfer from the zero address is a mint,       *)
(* recorded only as `minted` for the taker: no history files a transfer   *)
(* as received from the zero account (the giver test of line 111).        *)
MintRecordedAsMinted ==
    \A h \in Holders :
        \A e \in ToSet(flow[TopicHex(h)]["received"]) : e[2] # TopicHex(ZeroAddr)

=============================================================================
