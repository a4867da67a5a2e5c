---------------------------- MODULE LedgerState -----------------------------
(***************************************************************************)
(* What ledger.rs, extrinsic.rs and programs.rs do to accounts and         *)
(* programs, as operators on a state.  Ledger has one ledger's actions on  *)
(* such a state; NodeNetwork has one at each node, behind its chain.       *)
(*                                                                         *)
(* Addresses, program texts and payloads are all plain strings in the code *)
(* and are used for one another (an ExecuteProgram whose receiver is not a *)
(* deployed id runs the receiver itself as a script), so they share one    *)
(* set, Text.  An address without an entry in balances has balance 0.      *)
(***************************************************************************)
EXTENDS Integers, SequencesExt

CONSTANTS
  Text,          \* strings: addresses, scripts, payloads
  EmptyText,     \* ""
  Blank,         \* the texts that are empty when trimmed
  Uuid,          \* program ids
  ParseStr,      \* Uuid::parse_str: text -> id or None; several texts may
                 \* denote one id (case, braces, hyphens)
  ToText,        \* Uuid::to_string: id -> its canonical text
  RunScript(_, _, _), \* the Starlark machine: script, sender, payload -> raised,
                      \* or the status and state_changes of the dictionary
  Key,           \* the texts that are public keys, of users
  MaxU64,        \* u64::MAX
  MaxI32,        \* i32::MAX
  Tx,            \* the extrinsics that can be pushed
  None

ASSUME LedgerAssumption ==
  /\ EmptyText \in Blank /\ Blank \subseteq Text /\ Key \subseteq Text /\ None \notin Text \cup Uuid
  /\ ParseStr \in [Text -> Uuid \cup {None}]
  /\ ToText \in [Uuid -> Text]
  /\ \A u \in Uuid : ParseStr[ToText[u]] = u
  /\ MaxU64 \in Nat /\ MaxI32 \in Nat /\ MaxI32 < MaxU64
  /\ IsFiniteSet(Text)     \* a string has at most isize::MAX bytes

\* What a script leaves in its dictionary.  An amount that is neither an integer
\* nor a decimal string is of another kind.
RawChange == [action : STRING, to_address : Text, amount : [kind : STRING, val : Int]]

ASSUME RunScriptAssumption ==
  \A script, sender, payload \in Text :
    RunScript(script, sender, payload) \in
      [raised : BOOLEAN, status : STRING, state_changes : Seq(RawChange)]

Context == {"ExchangeAssets", "TransferAssets", "DeployProgram", "ExecuteProgram"}

\* A signature is the key that made it, or None when it verifies for no key.
\* The timestamp only tells extrinsics apart, as the id does.
ASSUME TxAssumption ==
  Tx \subseteq [transaction_context : Context, sender_public_key : Key,
                receiver_public_key : Text, amount : 0..MaxU64, id : Uuid,
                payload : Text \cup {None}, signature : Key \cup {None}]

\* Wallet::new_program_extrinsic; new_extrinsic is the same with payload None.
NewProgramExtrinsic(public_key, id, receiver, amount, context, payload) ==
  [transaction_context |-> context, sender_public_key |-> public_key,
   receiver_public_key |-> receiver, amount |-> amount, id |-> id,
   payload |-> payload, signature |-> public_key]

VerifySignature(tx) == tx.signature = tx.sender_public_key

(***************************************************************************)
(* A state of the ledger also carries the outcome of the operation under   *)
(* way: ok turns FALSE at the first error, what was done until then stays  *)
(* done, and nothing is done after it.                                     *)
(***************************************************************************)
LedgerStates ==
  [ok : BOOLEAN, balances : [Text -> 0..MaxU64], programs : [Uuid -> (Text \ Blank) \cup {None}]]

NewLedgerState ==
  [ok |-> TRUE, balances |-> [t \in Text |-> 0], programs |-> [u \in Uuid |-> None]]

-----------------------------------------------------------------------------
(* Accounts. *)

\* Deliberately wrong variant, used by mutation runs.
CreditUnbounded(b, address, amount) == [b EXCEPT ![address] = @ + amount]

Credit(b, address, amount) ==
  [b EXCEPT ![address] = IF @ + amount > MaxU64 THEN MaxU64 ELSE @ + amount]

Debit(b, address, amount) == [b EXCEPT ![address] = @ - amount]

Fail(l) == [l EXCEPT !.ok = FALSE]

\* Deliberately wrong variant: the balance is not checked.
TakeUnchecked(l, from, amount) == [l EXCEPT !.balances = Debit(@, from, amount)]

Take(l, from, amount) ==
  IF l.balances[from] < amount THEN Fail(l)
  ELSE [l EXCEPT !.balances = Debit(@, from, amount)]

Give(l, to, amount) ==
  IF ~l.ok THEN l ELSE [l EXCEPT !.balances = Credit(@, to, amount)]

\* Deliberately wrong variant: both balances read before either is written.
MoveFromSnapshot(l, from, to, amount) ==
  IF l.balances[from] < amount THEN Fail(l)
  ELSE [l EXCEPT !.balances =
          [Debit(@, from, amount) EXCEPT ![to] = Credit(l.balances, to, amount)[to]]]

\* A debit and then a credit.  Moving 0 always succeeds and changes nothing,
\* so it does not matter that some callers test for amount > 0 and some do not.
Move(l, from, to, amount) == Give(Take(l, from, amount), to, amount)

-----------------------------------------------------------------------------
(* Programs. *)

(***************************************************************************)
(* The amount of a state change as programs.rs reads it from the script's  *)
(* dictionary: an i32, sign-extended to u64; or a decimal string that fits *)
(* u64; anything else, larger integers included, is 0.                     *)
(***************************************************************************)
AmountOf(raw) ==
  CASE raw.kind = "int" /\ raw.val \in (-MaxI32 - 1)..MaxI32 -> raw.val % (MaxU64 + 1)
    [] raw.kind = "str" /\ raw.val \in 0..MaxU64             -> raw.val
    [] OTHER                                                 -> 0

(***************************************************************************)
(* ProgramTransformer::execute_program: what the ledger gets to see of a   *)
(* run.  A script that does not parse, has no execute function or fails at *)
(* run time raises an error; a missing status is "failed", and a missing   *)
(* action or address is the empty one.                                     *)
(***************************************************************************)
Transform(script, sender, payload) ==
  LET run     == RunScript(script, sender, payload)
      raw     == run.state_changes
      changes == [i \in DOMAIN raw |-> [raw[i] EXCEPT !.amount = AmountOf(@)]]
  IN [run EXCEPT !.state_changes = changes]

\* action is lower-cased by the code, and one it does not know is ignored.
ApplyStateChange(l, caller, change) ==
  CASE change.action = "transfer"           -> Move(l, caller, change.to_address, change.amount)
    [] change.action \in {"credit", "mint"} -> Give(l, change.to_address, change.amount)
    [] change.action \in {"debit", "burn"}  -> Take(l, change.to_address, change.amount)
    [] OTHER                             -> l

ApplyStateChanges(l, caller, changes) ==
  FoldLeft(LAMBDA acc, c : IF acc.ok THEN ApplyStateChange(acc, caller, c) ELSE acc,
           l, changes)

ExecuteProgram(l, target, sender, payload) ==
  LET id     == ParseStr[target]
      script == IF id # None /\ l.programs[id] # None THEN l.programs[id] ELSE target
      run    == Transform(script, sender, payload)
  IN IF ~run.raised /\ run.status \in {"success", "ok"}
     THEN ApplyStateChanges(l, sender, run.state_changes)
     ELSE Fail(l)

DeployProgram(l, id, script) ==
  IF script \in Blank THEN Fail(l) ELSE [l EXCEPT !.programs[id] = script]

-----------------------------------------------------------------------------
(* push_extrinsics. *)

PushDeploy(l, tx) ==
  LET named == ParseStr[tx.receiver_public_key]
      id    == IF named # None THEN named ELSE tx.id
      paid  == Move(l, tx.sender_public_key, ToText[id], tx.amount)
  IN IF tx.payload = None THEN Fail(l)
     ELSE IF ~paid.ok THEN paid
     ELSE DeployProgram(paid, id, tx.payload)

PushExecute(l, tx) ==
  LET paid    == Move(l, tx.sender_public_key, tx.receiver_public_key, tx.amount)
      payload == IF tx.payload = None THEN EmptyText ELSE tx.payload
  IN IF ~paid.ok THEN paid
     ELSE ExecuteProgram(paid, tx.receiver_public_key, tx.sender_public_key, payload)

PushExtrinsic(l, tx) ==
  CASE tx.transaction_context = "ExchangeAssets" -> l
    [] tx.transaction_context = "TransferAssets" ->
         Move(l, tx.sender_public_key, tx.receiver_public_key, tx.amount)
    [] tx.transaction_context = "DeployProgram"  -> PushDeploy(l, tx)
    [] tx.transaction_context = "ExecuteProgram" -> PushExecute(l, tx)

PushExtrinsics(l, txs) ==
  FoldLeft(LAMBDA acc, tx : IF acc.ok THEN PushExtrinsic(acc, tx) ELSE acc, l, txs)

\* Deliberately wrong variant: every extrinsic against the full balance.
CoveredExtrinsicsAlone(b, txs) ==
  SelectSeq(txs, LAMBDA tx : \/ tx.transaction_context = "ExchangeAssets"
                             \/ b[tx.sender_public_key] >= tx.amount)

\* get_covered_extrinsics: debits are followed, credits are not.
CoveredExtrinsics(b, txs) ==
  FoldLeft(LAMBDA acc, tx :
             IF tx.transaction_context = "ExchangeAssets"
             THEN [acc EXCEPT !.covered = Append(@, tx)]
             ELSE IF acc.temp[tx.sender_public_key] >= tx.amount
             THEN [temp    |-> Debit(acc.temp, tx.sender_public_key, tx.amount),
                   covered |-> Append(acc.covered, tx)]
             ELSE acc,
           [temp |-> b, covered |-> <<>>], txs).covered

IsExtrinsicCovered(b, tx) == CoveredExtrinsics(b, <<tx>>) # <<>>

=============================================================================
