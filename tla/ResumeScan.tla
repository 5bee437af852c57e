----------------------------- MODULE ResumeScan -----------------------------
(***************************************************************************)
(* Runs of the scan one after another.  When a run raises, its outer       *)
(* `except:` has printed `owners` and `block_number`; the operator puts    *)
(* them in place of the owners literal and the start height and starts    *)
(* the program again (lines 189-191 and 437-438).  Everything else the     *)
(* stopped process held (flow, the audit list, block_owners, its handle)   *)
(* is gone.  The printed dict is Python's repr of a dict of str to a dict  *)
(* of int to int, which evaluates back to the same dict, so the new seed   *)
(* is output.owners.                                                       *)
(*                                                                         *)
(* The chain stays the same chain across the runs, so history variables   *)
(* of ScanLoop (failures, interrupts, discarded handles) go on counting.   *)
(***************************************************************************)
EXTENDS ScanLoop

CONSTANT MaxRestarts  \* bound: how often the operator starts the program again

VARIABLES
    restarts,     \* runs started after the first (history)
    loaded        \* the owners literal the current run started from (history)

rvars == <<vars, restarts, loaded>>

ResumeInit == Init /\ restarts = 0 /\ loaded = Seed

(* The program started again (lines 189-191, 437-438) with the owners    *)
(* literal `seed` and the start height `start`: w3 = create_w3(), an      *)
(* empty flow and unhandled_transactions, the first get_block next.       *)
StartRun(seed, start) ==
    /\ owners' = seed
    /\ loaded' = seed
    /\ block_number' = start
    /\ flow' = [o \in OwnerKeys |-> [c \in Categories |-> <<>>]]
    /\ unhandled' = <<>>
    /\ block_owners' = EmptyLedger
    /\ txi' = 1
    /\ pc' = "get_block"
    /\ handles' = create_w3
    /\ w3' = create_w3
    /\ BeginFetch(create_w3)
    /\ discarded' = discarded \cup {w3, fetch_w3}
    /\ streak' = 0
    /\ output' = NoOutput
    /\ UNCHANGED <<chain, failures, interrupts>>

(* Plausible bug: the start height is set past the printed block number, *)
(* reading it as the last block processed.                                *)
RestartFromNextBlock ==
    /\ pc = "failed" /\ restarts < MaxRestarts /\ restarts' = restarts + 1
    /\ StartRun(output.owners, output.block + 1)

(* Plausible bug: only the start height is updated; the owners literal   *)
(* stays the original seed.                                              *)
RestartFromSeed ==
    /\ pc = "failed" /\ restarts < MaxRestarts /\ restarts' = restarts + 1
    /\ StartRun(Seed, output.block)

(* A failed run is started again from the checkpoint it printed. *)
Restart ==
    /\ pc = "failed"
    /\ restarts < MaxRestarts
    /\ restarts' = restarts + 1
    /\ StartRun(output.owners, output.block)

ResumeNext == (Next /\ UNCHANGED <<restarts, loaded>>) \/ Restart

ResumeSpec == ResumeInit /\ [][ResumeNext]_rvars /\ WF_rvars(Loop /\ UNCHANGED <<restarts, loaded>>)

-----------------------------------------------------------------------------
(* Scanning in several runs, each seeded from the last one's printout, is  *)
(* one scan of LedgerSpec with stops and resumptions: no block is applied  *)
(* twice, none is skipped, and a partly handled block is redone whole.     *)
ResumeImplementsLedgerSpec == Abs!ResumableSpec

(* Per spec section 4.5 normalize is applied to the seed ledger as it is  *)
(* loaded, so every run starts from a ledger with no zero balance and no  *)
(* owner without tokens; the program never calls normalize_owners.        *)
LoadedSeedNormalized == loaded = NormalizeReference(loaded)

=============================================================================
