------------------------------ MODULE LedgerOps ------------------------------
(***************************************************************************)
(* The balance ledgers of parse_eth_blocks.py: `owners`, `block_owners`    *)
(* and `transaction_owners` are dicts from an owner key to a dict from a   *)
(* token id to a signed amount.  A dict is modelled as a function whose    *)
(* domain is exactly its key set, so "key present with value 0" and "key  *)
(* absent" stay distinct, as they are in the program.                      *)
(*                                                                         *)
(* merge_owners and normalize_owners are translated loop for loop: the     *)
(* key iteration order is an arbitrary enumeration of the dict's keys.     *)
(***************************************************************************)
EXTENDS Integers, Sequences, SequencesExt, Functions

EmptyLedger == [o \in {} |-> 0]

(* d[key] = value *)
Put(d, key, value) == [x \in DOMAIN d \cup {key} |-> IF x = key THEN value ELSE d[x]]

(* dict.pop(key) *)
Pop(d, key) == Restrict(d, DOMAIN d \ {key})

(* Plausible bug: the inner branch of merge_owners overwrites the target's *)
(* amount instead of adding to it.                                         *)
MergeTokenOverwrite(entry, token, qty) ==
    IF token \in DOMAIN entry
    THEN [entry EXCEPT ![token] = qty]
    ELSE Put(entry, token, qty)

(* The inner loop body of merge_owners: create the token or add to it. *)
MergeToken(entry, token, qty) ==
    IF token \in DOMAIN entry
    THEN [entry EXCEPT ![token] = @ + qty]
    ELSE Put(entry, token, qty)

(* One owner of the source: a new owner takes the source's token dict     *)
(* whole, a known one has each token merged in.                           *)
MergeOwner(target, owner, tokens) ==
    IF owner \in DOMAIN target
    THEN [target EXCEPT ![owner] =
            FoldLeft(LAMBDA e, t : MergeToken(e, t, tokens[t]),
                     target[owner], SetToSeq(DOMAIN tokens))]
    ELSE Put(target, owner, tokens)

(* merge_owners(target, source): the target after the call. *)
MergeOwners(target, source) ==
    FoldLeft(LAMBDA acc, o : MergeOwner(acc, o, source[o]),
             target, SetToSeq(DOMAIN source))

(* The token loop of normalize_owners: pop every token whose amount is 0. *)
DropZeros(tokens) ==
    FoldLeft(LAMBDA e, t : IF e[t] = 0 THEN Pop(e, t) ELSE e,
             tokens, SetToSeq(DOMAIN tokens))

(* Plausible bug: the emptiness test is made before the zeros are popped. *)
NormalizeOwnerEmptyFirst(owners, o) ==
    IF DOMAIN owners[o] = {}
    THEN Pop(owners, o)
    ELSE [owners EXCEPT ![o] = DropZeros(owners[o])]

(* One owner of normalize_owners: drop zero tokens, then the owner if no  *)
(* token is left.                                                         *)
NormalizeOwner(owners, o) ==
    LET kept == DropZeros(owners[o])
    IN  IF DOMAIN kept = {}
        THEN Pop(owners, o)
        ELSE [owners EXCEPT ![o] = kept]

(* normalize_owners(owners): the ledger after the call. *)
NormalizeOwners(owners) ==
    FoldLeft(NormalizeOwner, owners, SetToSeq(DOMAIN owners))

-----------------------------------------------------------------------------
(***************************************************************************)
(* Reference definitions: what the specification says the two operations *)
(* compute, stated pointwise rather than as loops.                         *)
(***************************************************************************)

(* The amount an owner holds of a token, 0 when either key is absent. *)
Bal(L, o, t) == IF o \in DOMAIN L /\ t \in DOMAIN L[o] THEN L[o][t] ELSE 0

TokensOf(L, o) == IF o \in DOMAIN L THEN DOMAIN L[o] ELSE {}

(* Merge adds amounts pointwise; every key of either side is kept. *)
MergeReference(a, b) ==
    [o \in DOMAIN a \cup DOMAIN b |->
        [t \in TokensOf(a, o) \cup TokensOf(b, o) |-> Bal(a, o, t) + Bal(b, o, t)]]

(* Normalize keeps exactly the non-zero amounts and the owners that have one. *)
NormalizeReference(L) ==
    LET NonZero(o) == {t \in DOMAIN L[o] : L[o][t] # 0}
    IN  [o \in {x \in DOMAIN L : NonZero(x) # {}} |-> Restrict(L[o], NonZero(o))]

=============================================================================
