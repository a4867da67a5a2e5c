------------------------------ MODULE MCLedger ------------------------------
(***************************************************************************)
(* A small ledger: two users, one program id that is written in two ways,  *)
(* and three scripts.  u64 is 0..5 and i32 is -3..2.                       *)
(***************************************************************************)
EXTENDS Ledger

CONSTANTS alice, bob, id1, ID1, minter, payer, wild, empty, u1

MCText == {alice, bob, id1, ID1, minter, payer, wild, empty}
MCParseStr == [t \in MCText |-> IF t \in {id1, ID1} THEN u1 ELSE None]
MCToText == [u \in {u1} |-> id1]

Change(action, to, kind, val) ==
  [action |-> action, to_address |-> to, amount |-> [kind |-> kind, val |-> val]]

Outcome(status, changes) == [raised |-> FALSE, status |-> status, state_changes |-> changes]

\* minter credits the sender 2.  payer moves 1 from the sender to bob, then
\* takes more from alice than there can be.  wild credits the sender -1 and
\* debits it 9, which i32 cannot hold; with an empty payload it reports a
\* failure.  Any other text is not a script.
MCRunScript(script, sender, payload) ==
  CASE script = minter -> Outcome("success", <<
         Change("custom", bob, "int", 1), Change("credit", sender, "str", 2)>>)
    [] script = payer  -> Outcome("ok", <<
         Change("transfer", bob, "int", 1), Change("burn", alice, "int", 2)>>)
    [] script = wild   -> Outcome(IF payload = empty THEN "failed" ELSE "ok", <<
         Change("credit", sender, "int", -1), Change("debit", sender, "int", 9)>>)
    [] OTHER           -> [raised |-> TRUE, status |-> "failed", state_changes |-> <<>>]

Extrinsic(context, from, to, amount, payload) ==
  NewProgramExtrinsic(from, u1, to, amount, context, payload)

MCTx == {
  Extrinsic("ExchangeAssets", alice, bob, 5, None),
  Extrinsic("TransferAssets", alice, bob, 1, None),
  Extrinsic("TransferAssets", alice, alice, 2, None),
  Extrinsic("TransferAssets", bob, alice, 2, None),
  Extrinsic("DeployProgram", alice, ID1, 1, payer),
  Extrinsic("DeployProgram", bob, bob, 0, empty),
  Extrinsic("DeployProgram", bob, bob, 1, None),
  Extrinsic("ExecuteProgram", alice, ID1, 1, None),
  Extrinsic("ExecuteProgram", alice, minter, 0, bob)}
=============================================================================
