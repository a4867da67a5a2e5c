-------------------------- MODULE LedgerStateProofs --------------------------
(***************************************************************************)
(* Lemmas about the operations of LedgerState, for every ledger state,     *)
(* extrinsic and script: what type they return, and what they do to the    *)
(* money in the accounts.                                                  *)
(***************************************************************************)
EXTENDS LedgerState, IterationProofs

Amount == 0..MaxU64

StateChange == [action : STRING, to_address : Text, amount : Amount]

-----------------------------------------------------------------------------
(* Types. *)

\* An error changes the flag only.
LEMMA FailType ==
  ASSUME NEW l \in LedgerStates
  PROVE  Fail(l) \in LedgerStates /\ ~Fail(l).ok /\ Fail(l).balances = l.balances
  BY DEF Fail, LedgerStates

\* A debit keeps the types.
LEMMA TakeType ==
  ASSUME NEW l \in LedgerStates, NEW from \in Text, NEW amount \in Amount
  PROVE  Take(l, from, amount) \in LedgerStates
<1>1. CASE l.balances[from] < amount
  BY <1>1, FailType DEF Take
<1>2. CASE ~(l.balances[from] < amount)
  <2>1. l.balances \in [Text -> Amount] /\ l.balances[from] \in Amount
    BY DEF LedgerStates, Amount
  <2>2. l.balances[from] - amount \in Amount
    BY <1>2, <2>1, LedgerAssumption DEF Amount
  <2>3. Debit(l.balances, from, amount) \in [Text -> Amount]
    BY <2>1, <2>2 DEF Debit
  <2>4. Take(l, from, amount) = [l EXCEPT !.balances = Debit(l.balances, from, amount)]
    BY <1>2 DEF Take
  <2>5. QED
    BY <2>3, <2>4 DEF LedgerStates, Amount
<1>3. QED
  BY <1>1, <1>2

\* A credit, which saturates, keeps the types.
LEMMA GiveType ==
  ASSUME NEW l \in LedgerStates, NEW to \in Text, NEW amount \in Amount
  PROVE  Give(l, to, amount) \in LedgerStates
<1>1. l.balances \in [Text -> Amount] /\ l.balances[to] \in Amount
  BY DEF LedgerStates, Amount
<1>2. Credit(l.balances, to, amount) \in [Text -> Amount]
  BY <1>1, LedgerAssumption DEF Credit, Amount
<1>3. Give(l, to, amount) = IF ~l.ok THEN l
                            ELSE [l EXCEPT !.balances = Credit(l.balances, to, amount)]
  BY DEF Give
<1>4. QED
  BY <1>2, <1>3 DEF LedgerStates, Amount

\* A transfer keeps the types.
LEMMA MoveType ==
  ASSUME NEW l \in LedgerStates, NEW from \in Text, NEW to \in Text, NEW amount \in Amount
  PROVE  Move(l, from, to, amount) \in LedgerStates
  BY TakeType, GiveType DEF Move

\* Whatever a script reports, the ledger gets a u64.
LEMMA AmountOfType ==
  ASSUME NEW raw \in [kind : STRING, val : Int]
  PROVE  AmountOf(raw) \in Amount
<1>1. raw.val \in Int /\ MaxU64 \in Nat
  BY LedgerAssumption
<1>2. raw.val % (MaxU64 + 1) \in Amount
  BY <1>1 DEF Amount
<1>3. QED
  BY <1>1, <1>2 DEF AmountOf, Amount

\* What execute_program makes of a run is well typed.
LEMMA TransformType ==
  ASSUME NEW script \in Text, NEW sender \in Text, NEW payload \in Text
  PROVE  Transform(script, sender, payload) \in
           [raised : BOOLEAN, status : STRING, state_changes : Seq(StateChange)]
<1> DEFINE run == RunScript(script, sender, payload)
           raw == run.state_changes
           new == [i \in DOMAIN raw |-> [raw[i] EXCEPT !.amount = AmountOf(@)]]
<1>1. run \in [raised : BOOLEAN, status : STRING, state_changes : Seq(RawChange)]
  BY RunScriptAssumption
<1>2. raw \in Seq(RawChange)
  BY <1>1
<1>3. DOMAIN raw = 1..Len(raw) /\ Len(raw) \in Nat /\ \A i \in 1..Len(raw) : raw[i] \in RawChange
  BY <1>2
<1>4. \A i \in 1..Len(raw) : [raw[i] EXCEPT !.amount = AmountOf(@)] \in StateChange
  BY <1>3, AmountOfType DEF RawChange, StateChange
<1>5. new \in Seq(StateChange)
  BY <1>3, <1>4
<1>6. Transform(script, sender, payload) = [run EXCEPT !.state_changes = new]
  BY <1>1 DEF Transform
<1> HIDE DEF new
<1>7. QED
  BY <1>1, <1>5, <1>6

\* One state change keeps the types.
LEMMA ApplyStateChangeType ==
  ASSUME NEW l \in LedgerStates, NEW caller \in Text, NEW change \in StateChange
  PROVE  ApplyStateChange(l, caller, change) \in LedgerStates
<1>1. change.to_address \in Text /\ change.amount \in Amount
  BY DEF StateChange
<1>2. QED
  BY <1>1, TakeType, GiveType, MoveType DEF ApplyStateChange

(***************************************************************************)
(* The loops.  A ledger state that a loop has failed in is left alone by   *)
(* the rest of it.                                                         *)
(***************************************************************************)
ChangeStep(l, caller, change) == IF l.ok THEN ApplyStateChange(l, caller, change) ELSE l

ChangeSteps(caller, changes) ==
  [i \in 1..Len(changes) |-> [l \in LedgerStates |-> ChangeStep(l, caller, changes[i])]]

\* apply_state_changes yields the last of the states after each change.
LEMMA ApplyStateChangesSteps ==
  ASSUME NEW l \in LedgerStates, NEW caller \in Text, NEW changes \in Seq(StateChange)
  PROVE  \E h : /\ AreSteps(h, LedgerStates, Len(changes), ChangeSteps(caller, changes), l)
                /\ ApplyStateChanges(l, caller, changes) = h[Len(changes)]
<1> DEFINE n == Len(changes)
           S == LedgerStates
           step == ChangeSteps(caller, changes)
           Is(f) == f = [s \in SUBSET DOMAIN changes |->
                           IF s = {} THEN l
                           ELSE ChangeStep(f[s \ {Max(s)}], caller, changes[Max(s)])]
           f == CHOOSE g : Is(g)
<1>1. n \in Nat /\ DOMAIN changes = 1..n /\ \A i \in 1..n : changes[i] \in StateChange
  OBVIOUS
<1>2. step \in [1..n -> [S -> S]]
  BY <1>1, ApplyStateChangeType DEF ChangeStep, ChangeSteps
<1>3. ASSUME NEW i \in 1..n, NEW a \in S
      PROVE  step[i][a] = ChangeStep(a, caller, changes[i])
  BY DEF ChangeSteps
<1>4. ApplyStateChanges(l, caller, changes) = f[1..n]
  BY <1>1, Zenon DEF ApplyStateChanges, FoldLeft, MapThenFoldSet, ChangeStep
<1> HIDE DEF step, n, S
<1>5. \A s \in (SUBSET (1..n)) \ {{}} : Max(s) \in 1..n /\ s \ {Max(s)} \in SUBSET (1..n)
  BY <1>1, MaxOfSubset
<1>6. \E g : Is(g)
  <2>1. PICK g \in [SUBSET (1..n) -> S] : IsFold(g, S, n, step, l)
    BY <1>1, <1>2, FoldCanBeTaken DEF S
  <2>2. \A s \in SUBSET (1..n) :
          g[s] = IF s = {} THEN l ELSE ChangeStep(g[s \ {Max(s)}], caller, changes[Max(s)])
    BY <1>3, <1>5, <2>1 DEF IsFold
  <2>3. Is(g)
    BY <1>1, <2>1, <2>2
  <2>4. QED
    BY <2>3
<1>7. Is(f)
  BY <1>6
<1> HIDE DEF f
<1>8. IsFold(f, S, n, step, l)
  BY <1>1, <1>3, <1>5, <1>7 DEF IsFold
<1>9. QED
  BY <1>1, <1>2, <1>4, <1>8, FoldIsSteps DEF n, S, step

\* apply_state_changes keeps the types, however many there are.
LEMMA ApplyStateChangesType ==
  ASSUME NEW l \in LedgerStates, NEW caller \in Text, NEW changes \in Seq(StateChange)
  PROVE  ApplyStateChanges(l, caller, changes) \in LedgerStates
<1>1. Len(changes) \in Nat
  OBVIOUS
<1>2. PICK h : /\ AreSteps(h, LedgerStates, Len(changes), ChangeSteps(caller, changes), l)
               /\ ApplyStateChanges(l, caller, changes) = h[Len(changes)]
  BY ApplyStateChangesSteps
<1>3. QED
  BY <1>1, <1>2 DEF AreSteps

\* Executing a program keeps the types.
LEMMA ExecuteProgramType ==
  ASSUME NEW l \in LedgerStates, NEW target \in Text, NEW sender \in Text, NEW payload \in Text
  PROVE  ExecuteProgram(l, target, sender, payload) \in LedgerStates
<1> DEFINE id     == ParseStr[target]
           script == IF id # None /\ l.programs[id] # None THEN l.programs[id] ELSE target
           run    == Transform(script, sender, payload)
<1>1. id \in Uuid \cup {None}
  BY LedgerAssumption
<1>2. script \in Text
  BY <1>1 DEF LedgerStates
<1> HIDE DEF script
<1>3. run.state_changes \in Seq(StateChange)
  BY <1>2, TransformType
<1>4. ExecuteProgram(l, target, sender, payload) =
        IF ~run.raised /\ run.status \in {"success", "ok"}
        THEN ApplyStateChanges(l, sender, run.state_changes) ELSE Fail(l)
  BY DEF ExecuteProgram, script
<1>5. QED
  BY <1>3, <1>4, ApplyStateChangesType, FailType

\* Deploying a program keeps the types.
LEMMA DeployProgramType ==
  ASSUME NEW l \in LedgerStates, NEW id \in Uuid, NEW script \in Text
  PROVE  DeployProgram(l, id, script) \in LedgerStates
  BY FailType DEF DeployProgram, LedgerStates

\* The fields of an extrinsic, as the ledger's operations want them.
LEMMA TxType ==
  ASSUME NEW tx \in Tx
  PROVE  /\ tx.transaction_context \in Context
         /\ tx.sender_public_key \in Text
         /\ tx.receiver_public_key \in Text
         /\ tx.amount \in Amount
         /\ tx.id \in Uuid
         /\ tx.payload \in Text \cup {None}
  BY LedgerAssumption, TxAssumption DEF Amount

\* An extrinsic of any kind keeps the types.
LEMMA PushExtrinsicType ==
  ASSUME NEW l \in LedgerStates, NEW tx \in Tx
  PROVE  PushExtrinsic(l, tx) \in LedgerStates
<1>1. PushDeploy(l, tx) \in LedgerStates
  <2> DEFINE named == ParseStr[tx.receiver_public_key]
             id    == IF named # None THEN named ELSE tx.id
             paid  == Move(l, tx.sender_public_key, ToText[id], tx.amount)
  <2>1. named \in Uuid \cup {None}
    BY TxType, LedgerAssumption
  <2>2. id \in Uuid /\ ToText[id] \in Text
    BY <2>1, TxType, LedgerAssumption
  <2> HIDE DEF id
  <2>3. paid \in LedgerStates
    BY <2>2, TxType, MoveType
  <2> HIDE DEF paid
  <2>4. tx.payload # None => DeployProgram(paid, id, tx.payload) \in LedgerStates
    BY <2>2, <2>3, TxType, DeployProgramType
  <2>5. PushDeploy(l, tx) = IF tx.payload = None THEN Fail(l)
                            ELSE IF ~paid.ok THEN paid ELSE DeployProgram(paid, id, tx.payload)
    BY DEF PushDeploy, paid, id
  <2>6. QED
    BY <2>3, <2>4, <2>5, FailType
<1>2. PushExecute(l, tx) \in LedgerStates
  <2> DEFINE paid == Move(l, tx.sender_public_key, tx.receiver_public_key, tx.amount)
             payload == IF tx.payload = None THEN EmptyText ELSE tx.payload
  <2>1. payload \in Text
    BY TxType, LedgerAssumption
  <2>2. paid \in LedgerStates
    BY TxType, MoveType
  <2> HIDE DEF paid, payload
  <2>3. ExecuteProgram(paid, tx.receiver_public_key, tx.sender_public_key, payload)
          \in LedgerStates
    BY <2>1, <2>2, TxType, ExecuteProgramType
  <2>4. QED
    BY <2>2, <2>3 DEF PushExecute, paid, payload
<1>3. Move(l, tx.sender_public_key, tx.receiver_public_key, tx.amount) \in LedgerStates
  BY TxType, MoveType
<1>4. QED
  BY <1>1, <1>2, <1>3, TxType DEF PushExtrinsic, Context

PushStep(l, tx) == IF l.ok THEN PushExtrinsic(l, tx) ELSE l

PushSteps(txs) == [i \in 1..Len(txs) |-> [l \in LedgerStates |-> PushStep(l, txs[i])]]

\* push_extrinsics yields the last of the states after each extrinsic.
LEMMA PushExtrinsicsSteps ==
  ASSUME NEW l \in LedgerStates, NEW txs \in Seq(Tx)
  PROVE  \E h : /\ AreSteps(h, LedgerStates, Len(txs), PushSteps(txs), l)
                /\ PushExtrinsics(l, txs) = h[Len(txs)]
<1> DEFINE n == Len(txs)
           S == LedgerStates
           step == PushSteps(txs)
           Is(f) == f = [s \in SUBSET DOMAIN txs |->
                           IF s = {} THEN l ELSE PushStep(f[s \ {Max(s)}], txs[Max(s)])]
           f == CHOOSE g : Is(g)
<1>1. n \in Nat /\ DOMAIN txs = 1..n /\ \A i \in 1..n : txs[i] \in Tx
  OBVIOUS
<1>2. step \in [1..n -> [S -> S]]
  BY <1>1, PushExtrinsicType DEF PushStep, PushSteps
<1>3. ASSUME NEW i \in 1..n, NEW a \in S
      PROVE  step[i][a] = PushStep(a, txs[i])
  BY DEF PushSteps
<1>4. PushExtrinsics(l, txs) = f[1..n]
  BY <1>1, Zenon DEF PushExtrinsics, FoldLeft, MapThenFoldSet, PushStep
<1> HIDE DEF step, n, S
<1>5. \A s \in (SUBSET (1..n)) \ {{}} : Max(s) \in 1..n /\ s \ {Max(s)} \in SUBSET (1..n)
  BY <1>1, MaxOfSubset
<1>6. \E g : Is(g)
  <2>1. PICK g \in [SUBSET (1..n) -> S] : IsFold(g, S, n, step, l)
    BY <1>1, <1>2, FoldCanBeTaken DEF S
  <2>2. \A s \in SUBSET (1..n) :
          g[s] = IF s = {} THEN l ELSE PushStep(g[s \ {Max(s)}], txs[Max(s)])
    BY <1>3, <1>5, <2>1 DEF IsFold
  <2>3. Is(g)
    BY <1>1, <2>1, <2>2
  <2>4. QED
    BY <2>3
<1>7. Is(f)
  BY <1>6
<1> HIDE DEF f
<1>8. IsFold(f, S, n, step, l)
  BY <1>1, <1>3, <1>5, <1>7 DEF IsFold
<1>9. QED
  BY <1>1, <1>2, <1>4, <1>8, FoldIsSteps DEF n, S, step

\* push_extrinsics keeps the types, however long the batch.
LEMMA PushExtrinsicsType ==
  ASSUME NEW l \in LedgerStates, NEW txs \in Seq(Tx)
  PROVE  PushExtrinsics(l, txs) \in LedgerStates
<1>1. Len(txs) \in Nat
  OBVIOUS
<1>2. PICK h : /\ AreSteps(h, LedgerStates, Len(txs), PushSteps(txs), l)
               /\ PushExtrinsics(l, txs) = h[Len(txs)]
  BY PushExtrinsicsSteps
<1>3. QED
  BY <1>1, <1>2 DEF AreSteps

\* A new ledger is well typed.
LEMMA NewLedgerStateType == NewLedgerState \in LedgerStates
  BY LedgerAssumption DEF NewLedgerState, LedgerStates
=============================================================================
