----------------------------- MODULE LogDecoder -----------------------------
(***************************************************************************)
(* The chain data the scanner reads, the bloom prefilter of the scan loop  *)
(* and the decoding of one transaction receipt (handle_transaction) in     *)
(* parse_eth_blocks.py: the flow history it appends to, the audit list of  *)
(* unhandled transactions and the ledger delta it returns.                 *)
(*                                                                         *)
(* ABI decoding is a black box: a log carries its decoded token ids and    *)
(* quantities.  Accounts, contracts and topics are model values; the one   *)
(* text conversion a decision depends on, topic word to address text, is   *)
(* modelled by the width it produces.                                      *)
(***************************************************************************)
EXTENDS LedgerOps

CONSTANTS
    Holders,          \* accounts other than the zero account
    ZeroAddr,         \* the all-zero account: source of mints, target of burns
    Contract,         \* `contract`, the tracked multi-token contract
    OtherContract,    \* some other contract emitting logs in the same blocks
    Tokens,           \* token ids occurring in events
    SupportedTokens,  \* `supported_tokens`
    TransferSingle, TransferBatch, ApprovalForAll, OtherTopic  \* topics[0]

ASSUME SupportedTokens \subseteq Tokens

Accounts == Holders \cup {ZeroAddr}
Topics == {TransferSingle, TransferBatch, ApprovalForAll, OtherTopic}
Categories == {"minted", "burned", "sent", "received"}

(* log.topics[i].hex(): a 32-byte topic word as '0x' and 64 hex digits. *)
TopicHex(a) == [bytes |-> 32, account |-> a]

(* The literal '0x000...0' of handle_transaction: 20 bytes, 40 digits. *)
ZeroLiteral == [bytes |-> 20, account |-> ZeroAddr]

(* The keys of owners and flow: every key the program builds is a TopicHex. *)
OwnerKeys == {TopicHex(a) : a \in Accounts}

(* A log entry of a receipt, a transaction as its receipt shows it, and  *)
(* a block: its transactions and the extra members of its bloom filter.   *)
Logs == [address : {Contract, OtherContract}, topic : Topics,
         from : Accounts, to : Accounts,
         ids : Seq(Tokens), qtys : Seq(Nat)]
Txs == [status : {0, 1}, logs : Seq(Logs)]
Blocks == [txs : Seq(Txs), noise : SUBSET ({Contract, OtherContract} \cup Topics)]

(* The bloom filter of a block holds every log's address and topic, and   *)
(* may hold more (`noise`): false positives, never false negatives.       *)
BloomItems(block) ==
    UNION {{l.address, l.topic} : l \in UNION {ToSet(tx.logs) : tx \in ToSet(block.txs)}}
    \cup block.noise

Passes(block) ==
    LET bloom == BloomItems(block)
    IN  Contract \in bloom /\ (TransferSingle \in bloom \/ TransferBatch \in bloom)

(* A log of the tracked contract carrying a transfer. *)
IsTransfer(log) ==
    log.address = Contract /\ log.topic \in {TransferSingle, TransferBatch}

(* A log that sets `handled`: a transfer or an ApprovalForAll. *)
IsHandledLog(log) ==
    log.address = Contract
    /\ log.topic \in {TransferSingle, TransferBatch, ApprovalForAll}

AppendFlow(flow, key, cat, entry) == [flow EXCEPT ![key][cat] = Append(@, entry)]

(* Plausible bug: the `received` entry is filed under the giver. *)
RecordFlowReceivedAtGiver(flow, hash, log) ==
    LET giver == TopicHex(log.from)
        taker == TopicHex(log.to)
    IN  CASE giver = ZeroLiteral ->
               AppendFlow(flow, taker, "minted", <<hash, log.ids, log.qtys>>)
          [] taker = ZeroLiteral ->
               AppendFlow(flow, giver, "burned", <<hash, log.ids, log.qtys>>)
          [] OTHER ->
               AppendFlow(AppendFlow(flow, giver, "sent", <<hash, taker, log.ids, log.qtys>>),
                          giver, "received", <<hash, giver, log.ids, log.qtys>>)

(* The history entries of one transfer log, by the giver and taker texts. *)
RecordFlow(flow, hash, log) ==
    LET giver == TopicHex(log.from)
        taker == TopicHex(log.to)
    IN  CASE giver = ZeroLiteral ->
               AppendFlow(flow, taker, "minted", <<hash, log.ids, log.qtys>>)
          [] taker = ZeroLiteral ->
               AppendFlow(flow, giver, "burned", <<hash, log.ids, log.qtys>>)
          [] OTHER ->
               AppendFlow(AppendFlow(flow, giver, "sent", <<hash, taker, log.ids, log.qtys>>),
                          taker, "received", <<hash, giver, log.ids, log.qtys>>)

(* The one-owner, one-token dict {owner: {token: qty}}. *)
Entry(owner, token, qty) == [o \in {owner} |-> [t \in {token} |-> qty]]

(* Plausible bug: the supported-token test is left out. *)
PairDeltaAllTokens(owners, giver, taker, token, qty) ==
    MergeOwners(MergeOwners(owners, Entry(giver, token, -qty)), Entry(taker, token, qty))

(* One (token, qty) pair: the giver is debited, the taker credited, if    *)
(* the token is supported; the create-or-add steps are those of a merge.  *)
PairDelta(owners, giver, taker, token, qty) ==
    IF token \in SupportedTokens
    THEN MergeOwners(MergeOwners(owners, Entry(giver, token, -qty)), Entry(taker, token, qty))
    ELSE owners

LogDelta(owners, log) ==
    FoldLeft(LAMBDA acc, p : PairDelta(acc, TopicHex(log.from), TopicHex(log.to), p[1], p[2]),
             owners, Zip(log.ids, log.qtys))

(* The dict handle_transaction returns for a fetched receipt. *)
TxOwners(tx) ==
    IF tx.status = 0 THEN EmptyLedger
    ELSE FoldLeft(LogDelta, EmptyLedger, SelectSeq(tx.logs, IsTransfer))

(* The flow history after handle_transaction. *)
TxFlow(flow, hash, tx) ==
    IF tx.status = 0 THEN flow
    ELSE FoldLeft(LAMBDA f, l : RecordFlow(f, hash, l), flow, SelectSeq(tx.logs, IsTransfer))

(* Plausible bug: the handled test is made before the status test. *)
TxUnhandledIgnoringStatus(unhandled, hash, tx) ==
    IF \A i \in DOMAIN tx.logs : ~IsHandledLog(tx.logs[i])
    THEN Append(unhandled, hash)
    ELSE unhandled

(* The unhandled audit list after handle_transaction. *)
TxUnhandled(unhandled, hash, tx) ==
    IF tx.status # 0 /\ \A i \in DOMAIN tx.logs : ~IsHandledLog(tx.logs[i])
    THEN Append(unhandled, hash)
    ELSE unhandled

-----------------------------------------------------------------------------
(* Reference semantics of the multi-token contract: the units of token t   *)
(* a log moves, and what it does to the holding of account h.              *)
Units(log, t) ==
    FoldLeft(LAMBDA s, p : s + (IF p[1] = t THEN p[2] ELSE 0), 0, Zip(log.ids, log.qtys))

NetChange(h, t, log) ==
    IF log.address = Contract /\ log.topic \in {TransferSingle, TransferBatch}
    THEN (IF log.to = h THEN Units(log, t) ELSE 0) - (IF log.from = h THEN Units(log, t) ELSE 0)
    ELSE 0

=============================================================================
