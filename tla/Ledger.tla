------------------------------- MODULE Ledger -------------------------------
(***************************************************************************)
(* The accounts and programs of one node's Ledger (ledger.rs), under every *)
(* batch of extrinsics and every direct call.  The chain of blocks and the *)
(* consensus state, the other two fields of the struct, are not touched by *)
(* these operations.                                                       *)
(***************************************************************************)
EXTENDS LedgerState

CONSTANT MaxBatch      \* bound: extrinsics in one block

ASSUME BatchAssumption == MaxBatch \in Nat

Batches == SeqOf(Tx, MaxBatch)

VARIABLES
  balances,   \* text -> u64
  programs    \* id -> script, or None

vars == <<balances, programs>>

-----------------------------------------------------------------------------
(* The ledger of a node, as node.rs uses it. *)

Current == [ok |-> TRUE, balances |-> balances, programs |-> programs]

Become(l) == balances' = l.balances /\ programs' = l.programs

Init == balances = NewLedgerState.balances /\ programs = NewLedgerState.programs

\* After a block is appended.  The error, if any, is dropped by the callers.
Push(txs) == Become(PushExtrinsics(Current, txs))

\* Node::deploy_program and deploy_script, past any block.
Deploy(id, script) == Become(DeployProgram(Current, id, script))

\* Node::execute_program, past any block.
Execute(target, sender, payload) ==
  Become(ExecuteProgram(Current, target, sender, payload))

\* Accounts::credit_balance and debit_balance, which the application reaches
\* through the public ledger of its node.
CreditBalance(public_key, amount) == Become(Give(Current, public_key, amount))

DebitBalance(public_key, amount) == Become(Take(Current, public_key, amount))

Next ==
  \/ \E txs \in Batches : Push(txs)
  \/ \E id \in Uuid, script \in Text : Deploy(id, script)
  \/ \E target, payload \in Text, sender \in Key : Execute(target, sender, payload)
  \/ \E public_key \in Key, amount \in 0..MaxU64 :
       CreditBalance(public_key, amount) \/ DebitBalance(public_key, amount)

Spec == Init /\ [][Next]_vars

-----------------------------------------------------------------------------
Total(b) == SumFunction(b)

(***************************************************************************)
(* Type invariant.  Every balance fits u64, which is what the saturating   *)
(* credit and the refused debit are for.                                   *)
(***************************************************************************)
TypeOK == Current \in LedgerStates

RunsNoProgram(txs) == \A i \in DOMAIN txs : txs[i].transaction_context # "ExecuteProgram"

(***************************************************************************)
(* Extrinsics that run no program create no money, whether the batch       *)
(* succeeds or stops half way, and destroy none as long as all the money   *)
(* there is fits one account (beyond that a credit may saturate).          *)
(***************************************************************************)
MoneyIsConserved ==
  \A txs \in Batches : RunsNoProgram(txs) =>
    LET after == Total(PushExtrinsics(Current, txs).balances)
    IN /\ after <= Total(balances)
       /\ Total(balances) <= MaxU64 => after = Total(balances)

TransfersOnly(txs) ==
  \A i \in DOMAIN txs : txs[i].transaction_context \in {"TransferAssets", "ExchangeAssets"}

(***************************************************************************)
(* The coverage check is right about transfers: what it selects from a     *)
(* batch can be pushed, all of it, in the order given; and a single        *)
(* transfer is covered (is_extrinsic_covered) exactly when it can be       *)
(* pushed.                                                                 *)
(***************************************************************************)
CoveredBatchSucceeds ==
  \A txs \in Batches : TransfersOnly(txs) =>
    LET covered == CoveredExtrinsics(balances, txs)
    IN /\ PushExtrinsics(Current, covered).ok
       /\ Len(txs) = 1 =>
            (IsExtrinsicCovered(balances, txs[1]) <=> PushExtrinsics(Current, txs).ok)

(***************************************************************************)
(* "Balances must remain unchanged on failure."  They do not: the debit    *)
(* and credit of an ExecuteProgram stay when its program fails, and the    *)
(* extrinsics before the failing one stay applied.                         *)
(***************************************************************************)
FailureLeavesBalances ==
  \A txs \in Batches :
    LET after == PushExtrinsics(Current, txs)
    IN ~after.ok => after.balances = balances
=============================================================================
