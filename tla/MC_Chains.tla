---------------------------- MODULE MC_Chains ----------------------------
(***************************************************************************)
(* The chains the scan models are checked against: two holders, one       *)
(* supported and one unsupported token, quantities of 1, and chains of up *)
(* to MaxBlocks blocks of up to MaxTxs transactions, MaxChainTxs in all,   *)
(* drawn from a menu that holds one transaction of every shape            *)
(* handle_transaction tells apart.                                         *)
(***************************************************************************)
EXTENDS LogDecoder, FiniteSets

CONSTANTS A, B, T1, T2,
          MaxBlocks,     \* bound: blocks before the chain head
          MaxTxs,        \* bound: transactions in one block
          MaxChainTxs    \* bound: transactions in the whole chain

Single(f, t, id) ==
    [address |-> Contract, topic |-> TransferSingle, from |-> f, to |-> t,
     ids |-> <<id>>, qtys |-> <<1>>]

Batch(f, t) ==
    [address |-> Contract, topic |-> TransferBatch, from |-> f, to |-> t,
     ids |-> <<T1, T2>>, qtys |-> <<1, 1>>]

(* A log without transfer data: ApprovalForAll, or a topic not decoded. *)
Bare(topic) ==
    [address |-> Contract, topic |-> topic, from |-> A, to |-> B,
     ids |-> <<>>, qtys |-> <<>>]

Ok(logs) == [status |-> 1, logs |-> logs]

(* A reverted transaction emits no logs. *)
Reverted == [status |-> 0, logs |-> <<>>]

TxMenu ==
    { Ok(<<Single(ZeroAddr, A, T1)>>),                 \* mint
      Ok(<<Single(A, B, T1)>>),                        \* transfer
      Ok(<<Single(B, ZeroAddr, T1)>>),                 \* burn
      Ok(<<Batch(B, A)>>),                             \* batch, one token unsupported
      Ok(<<Single(A, B, T2)>>),                        \* unsupported token only
      Ok(<<Single(A, B, T1), Single(B, A, T1)>>),      \* two transfers, net zero
      Ok(<<Bare(ApprovalForAll)>>),
      Ok(<<Bare(OtherTopic)>>),
      Ok(<<[Single(A, B, T1) EXCEPT !.address = OtherContract]>>),
      Ok(<<>>),                                        \* touches no contract
      Reverted }

Noise == {{}, {Contract, TransferSingle}}

BlocksOf(k) == [txs : [1 .. k -> TxMenu], noise : Noise]

(* The chains whose n-th block has ks[n] transactions. *)
RECURSIVE ChainsOf(_)
ChainsOf(ks) ==
    IF ks = <<>> THEN {<<>>}
    ELSE {<<b>> \o c : b \in BlocksOf(Head(ks)), c \in ChainsOf(Tail(ks))}

Shapes ==
    {ks \in UNION {[1 .. n -> 0 .. MaxTxs] : n \in 0 .. MaxBlocks} :
        FoldSeq(LAMBDA x, y : x + y, 0, ks) <= MaxChainTxs}

(* The seed ledger: each holder starts with one unit of T1. *)
MCSeed == Put(Entry(TopicHex(A), T1, 1), TopicHex(B), [t \in {T1} |-> 1])

(* A chain the contract could have produced: no holder ever spends more   *)
(* of a supported token than it holds.                                    *)
Feasible(c) ==
    LET logs == FlattenSeq([b \in DOMAIN c |->
                   FlattenSeq([i \in DOMAIN c[b].txs |->
                       IF c[b].txs[i].status = 1 THEN c[b].txs[i].logs ELSE <<>>])])
    IN  \A k \in 0 .. Len(logs), h \in Holders, t \in SupportedTokens :
            Bal(MCSeed, TopicHex(h), t)
              + FoldLeft(LAMBDA s, l : s + NetChange(h, t, l), 0, SubSeq(logs, 1, k)) >= 0

MCChains ==
    {c \in UNION {ChainsOf(ks) : ks \in Shapes} : Feasible(c)}


MCHolders == {A, B}
MCTokens == {T1, T2}
MCSupported == {T1}

=============================================================================
