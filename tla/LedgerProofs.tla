---------------------------- MODULE LedgerProofs -----------------------------
(***************************************************************************)
(* Theorems about Ledger, for any users, programs, scripts, extrinsics and *)
(* lengths of batches, and any width of u64.                               *)
(***************************************************************************)
EXTENDS Ledger, LedgerStateProofs

-----------------------------------------------------------------------------
(* Type correctness. *)

\* A batch is a sequence of extrinsics.
LEMMA BatchType == ASSUME NEW txs \in Batches PROVE txs \in Seq(Tx)
<1>1. PICK n \in 0..MaxBatch : txs \in [1..n -> Tx]
  BY DEF Batches, SeqOf
<1>2. n \in Nat
  BY BatchAssumption
<1>3. QED
  BY <1>1, <1>2

\* What becomes of a ledger state is well typed.
LEMMA BecomeType ==
  ASSUME NEW l \in LedgerStates, Become(l)
  PROVE  TypeOK'
  BY DEF Become, TypeOK, Current, LedgerStates

\* Every operation keeps the types.
LEMMA NextType == TypeOK /\ [Next]_vars => TypeOK'
<1> SUFFICES ASSUME TypeOK, [Next]_vars PROVE TypeOK'
  OBVIOUS
<1>1. Current \in LedgerStates
  BY DEF TypeOK
<1>2. ASSUME NEW txs \in Batches, Push(txs)
      PROVE  TypeOK'
  BY <1>1, <1>2, BatchType, PushExtrinsicsType, BecomeType DEF Push
<1>3. ASSUME NEW id \in Uuid, NEW script \in Text, Deploy(id, script)
      PROVE  TypeOK'
  BY <1>1, <1>3, DeployProgramType, BecomeType DEF Deploy
<1>4. ASSUME NEW target \in Text, NEW payload \in Text, NEW sender \in Key,
             Execute(target, sender, payload)
      PROVE  TypeOK'
  <2>1. sender \in Text
    BY LedgerAssumption
  <2>2. QED
    BY <1>1, <1>4, <2>1, ExecuteProgramType, BecomeType DEF Execute
<1>5. ASSUME NEW public_key \in Key, NEW amount \in 0..MaxU64,
             CreditBalance(public_key, amount) \/ DebitBalance(public_key, amount)
      PROVE  TypeOK'
  <2>1. public_key \in Text /\ amount \in Amount
    BY LedgerAssumption DEF Amount
  <2>2. QED
    BY <1>1, <1>5, <2>1, GiveType, TakeType, BecomeType DEF CreditBalance, DebitBalance
<1>6. CASE UNCHANGED vars
  BY <1>6 DEF vars, TypeOK, Current
<1>7. QED
  BY <1>2, <1>3, <1>4, <1>5, <1>6 DEF Next

(***************************************************************************)
(* Every balance stays within u64 and every program is a text that is not  *)
(* blank, whatever batches, scripts and direct calls there are.            *)
(***************************************************************************)
THEOREM TypeCorrect == Spec => []TypeOK
<1>1. Init => TypeOK
  BY NewLedgerStateType DEF Init, TypeOK, Current, LedgerStates, NewLedgerState
<1>2. QED
  BY <1>1, NextType, PTL DEF Spec

-----------------------------------------------------------------------------
(***************************************************************************)
(* Money.  Conserves relates the states before and after an operation that *)
(* creates no money, and loses none unless a credit may have saturated.    *)
(***************************************************************************)
Conserves(l, m) ==
  /\ Total(m.balances) <= Total(l.balances)
  /\ Total(l.balances) <= MaxU64 => Total(m.balances) = Total(l.balances)

\* How the total changes when one account does.
LEMMA TotalOfUpdate ==
  ASSUME NEW b \in [Text -> Amount], NEW x \in Text, NEW v \in Amount
  PROVE  /\ Total(b) \in Nat
         /\ b[x] <= Total(b)
         /\ Total([b EXCEPT ![x] = v]) = Total(b) - b[x] + v
<1>1. b \in [Text -> Nat] /\ v \in Nat /\ IsFiniteSet(Text)
  BY LedgerAssumption DEF Amount
<1>2. QED
  BY <1>1, SumOfUpdate DEF Total

\* The total of a ledger state is a natural number.
LEMMA TotalType == ASSUME NEW l \in LedgerStates PROVE Total(l.balances) \in Nat
<1>1. l.balances \in [Text -> Amount] /\ EmptyText \in Text
  BY LedgerAssumption DEF LedgerStates, Amount
<1>2. l.balances[EmptyText] \in Amount
  BY <1>1
<1>3. QED
  BY <1>1, <1>2, TotalOfUpdate

\* Conserves is reflexive and transitive.
LEMMA ConservesChain ==
  ASSUME NEW l \in LedgerStates, NEW m \in LedgerStates, NEW k \in LedgerStates
  PROVE  /\ Conserves(l, l)
         /\ Conserves(l, m) /\ Conserves(m, k) => Conserves(l, k)
<1>1. Total(l.balances) \in Nat /\ Total(m.balances) \in Nat /\ Total(k.balances) \in Nat
  BY TotalType
<1>2. MaxU64 \in Nat
  BY LedgerAssumption
<1>3. QED
  BY <1>1, <1>2 DEF Conserves

\* A debit and the credit that follows it, to whatever account, conserve.
LEMMA MoveConserves ==
  ASSUME NEW l \in LedgerStates, l.ok, NEW from \in Text, NEW to \in Text, NEW amount \in Amount
  PROVE  Conserves(l, Move(l, from, to, amount))
<1> DEFINE b == l.balances
           b1 == [b EXCEPT ![from] = b[from] - amount]
           v == IF b1[to] + amount > MaxU64 THEN MaxU64 ELSE b1[to] + amount
           b2 == [b1 EXCEPT ![to] = v]
<1>1. b \in [Text -> Amount] /\ b[from] \in Amount /\ amount \in Nat /\ MaxU64 \in Nat
  BY LedgerAssumption DEF LedgerStates, Amount
<1>2. CASE b[from] < amount
  <2>1. Take(l, from, amount) = Fail(l)
    BY <1>2 DEF Take
  <2>2. Move(l, from, to, amount) = Fail(l)
    BY <2>1, FailType DEF Move, Give
  <2>3. Fail(l).balances = l.balances
    BY FailType
  <2>4. Total(l.balances) \in Nat
    BY TotalType
  <2>5. QED
    BY <2>2, <2>3, <2>4 DEF Conserves
<1>3. CASE ~(b[from] < amount)
  <2>1. b[from] - amount \in Amount
    BY <1>1, <1>3 DEF Amount
  <2>2. b1 \in [Text -> Amount] /\ b1[to] \in Amount
    BY <1>1, <2>1
  <2>3. v \in Amount
    BY <1>1, <2>2 DEF Amount
  <2>4. Move(l, from, to, amount).balances = b2
    <3>1. Take(l, from, amount) = [l EXCEPT !.balances = b1]
      BY <1>3 DEF Take, Debit
    <3>2. Take(l, from, amount).ok /\ Take(l, from, amount).balances = b1
      BY <3>1 DEF LedgerStates
    <3>3. Move(l, from, to, amount).balances = Credit(b1, to, amount)
      BY <3>1, <3>2 DEF Move, Give, LedgerStates
    <3>4. QED
      BY <3>3 DEF Credit
  <2>5. Total(b) \in Nat /\ Total(b1) = Total(b) - b[from] + (b[from] - amount)
    BY <1>1, <2>1, TotalOfUpdate
  <2> HIDE DEF b1, v
  <2>6. Total(b1) \in Nat /\ b1[to] <= Total(b1) /\ Total(b2) = Total(b1) - b1[to] + v
    BY <2>2, <2>3, TotalOfUpdate
  <2> HIDE DEF b, b2
  <2>7. Total(b1) = Total(b) - amount
    BY <1>1, <2>5 DEF Amount
  <2>8. b1[to] \in Nat /\ v \in Nat
    BY <2>2, <2>3 DEF Amount
  <2>9. v <= b1[to] + amount
    BY <1>1, <2>8 DEF v
  <2>10. Total(b2) <= Total(b)
    BY <1>1, <2>5, <2>6, <2>7, <2>8, <2>9
  <2>11. ASSUME Total(b) <= MaxU64 PROVE Total(b2) = Total(b)
    <3>1. v = b1[to] + amount
      BY <1>1, <2>5, <2>6, <2>7, <2>8, <2>11 DEF v
    <3>2. QED
      BY <1>1, <2>5, <2>6, <2>7, <2>8, <3>1
  <2>12. QED
    BY <2>4, <2>10, <2>11 DEF Conserves, b
<1>4. QED
  BY <1>2, <1>3

\* An extrinsic that runs no program conserves, in a state without an error.
LEMMA PushExtrinsicConserves ==
  ASSUME NEW l \in LedgerStates, l.ok, NEW tx \in Tx,
         tx.transaction_context # "ExecuteProgram"
  PROVE  Conserves(l, PushExtrinsic(l, tx))
<1>1. CASE tx.transaction_context = "ExchangeAssets"
  BY <1>1, ConservesChain DEF PushExtrinsic
<1>2. CASE tx.transaction_context = "TransferAssets"
  BY <1>2, TxType, MoveConserves DEF PushExtrinsic
<1>3. CASE tx.transaction_context = "DeployProgram"
  <2> DEFINE named == ParseStr[tx.receiver_public_key]
             id    == IF named # None THEN named ELSE tx.id
             paid  == Move(l, tx.sender_public_key, ToText[id], tx.amount)
             made  == DeployProgram(paid, id, tx.payload)
  <2>1. ToText[id] \in Text
    BY TxType, LedgerAssumption
  <2> HIDE DEF id
  <2>2. Conserves(l, paid) /\ paid \in LedgerStates
    BY <2>1, TxType, MoveConserves, MoveType
  <2> HIDE DEF paid
  <2>3. made.balances = paid.balances
    BY <2>2, FailType DEF DeployProgram, LedgerStates
  <2>4. Conserves(l, Fail(l))
    BY FailType, ConservesChain DEF Conserves
  <2>5. PushExtrinsic(l, tx) = IF tx.payload = None THEN Fail(l)
                               ELSE IF ~paid.ok THEN paid ELSE made
    BY <1>3 DEF PushExtrinsic, PushDeploy, paid, id
  <2>6. QED
    BY <2>2, <2>3, <2>4, <2>5 DEF Conserves
<1>4. QED
  BY <1>1, <1>2, <1>3, TxType DEF Context

\* So does a batch of them, wherever it stops.
LEMMA PushExtrinsicsConserves ==
  ASSUME NEW l \in LedgerStates, NEW txs \in Seq(Tx), RunsNoProgram(txs)
  PROVE  Conserves(l, PushExtrinsics(l, txs))
<1>1. Len(txs) \in Nat /\ DOMAIN txs = 1..Len(txs) /\ \A i \in 1..Len(txs) : txs[i] \in Tx
  OBVIOUS
<1>2. PICK h : /\ AreSteps(h, LedgerStates, Len(txs), PushSteps(txs), l)
               /\ PushExtrinsics(l, txs) = h[Len(txs)]
  BY PushExtrinsicsSteps
<1> DEFINE T == {k \in 0..Len(txs) : Conserves(l, h[k])}
<1>3. 0 \in T
  BY <1>1, <1>2, ConservesChain DEF AreSteps
<1>4. ASSUME NEW k \in 1..Len(txs), k - 1 \in T
      PROVE  k \in T
  <2>1. h[k - 1] \in LedgerStates /\ h[k] \in LedgerStates
    BY <1>1, <1>2 DEF AreSteps
  <2>2. h[k] = PushStep(h[k - 1], txs[k])
    BY <1>2, <2>1 DEF AreSteps, PushSteps
  <2>3. txs[k] \in Tx /\ txs[k].transaction_context # "ExecuteProgram"
    BY <1>1 DEF RunsNoProgram
  <2>4. Conserves(h[k - 1], h[k])
    BY <2>1, <2>2, <2>3, PushExtrinsicConserves, ConservesChain DEF PushStep
  <2>5. Conserves(l, h[k])
    BY <1>4, <2>1, <2>4, ConservesChain
  <2>6. QED
    BY <2>5
<1>5. \A k \in 1..Len(txs) : k - 1 \in T => k \in T
  BY <1>4
<1> HIDE DEF T
<1>6. 0..Len(txs) \subseteq T
  BY <1>1, <1>3, <1>5, InductiveInterval
<1>7. Len(txs) \in T
  BY <1>1, <1>6
<1>8. QED
  BY <1>2, <1>7 DEF T

(***************************************************************************)
(* No batch of extrinsics without ExecuteProgram creates money, in any     *)
(* reachable state, and none destroys money while all of it fits u64.      *)
(***************************************************************************)
THEOREM MoneyConserved == Spec => []MoneyIsConserved
<1>1. TypeOK => MoneyIsConserved
  <2> SUFFICES ASSUME TypeOK, NEW txs \in Batches, RunsNoProgram(txs)
               PROVE  Conserves(Current, PushExtrinsics(Current, txs))
    BY DEF MoneyIsConserved, Conserves, Current
  <2>1. QED
    BY BatchType, PushExtrinsicsConserves DEF TypeOK
<1>2. QED
  BY <1>1, TypeCorrect, PTL

-----------------------------------------------------------------------------
(***************************************************************************)
(* Coverage.  An account of get_covered_extrinsics: the balances it still  *)
(* has to spend and what it has selected.                                  *)
(***************************************************************************)
Accounts == [temp : [Text -> Amount], covered : Seq(Tx)]

CoverStep(acc, tx) ==
  IF tx.transaction_context = "ExchangeAssets"
  THEN [acc EXCEPT !.covered = Append(@, tx)]
  ELSE IF acc.temp[tx.sender_public_key] >= tx.amount
  THEN [temp    |-> Debit(acc.temp, tx.sender_public_key, tx.amount),
        covered |-> Append(acc.covered, tx)]
  ELSE acc

CoverSteps(txs) == [i \in 1..Len(txs) |-> [acc \in Accounts |-> CoverStep(acc, txs[i])]]

\* A debit that the balance covers leaves balances that fit u64.
LEMMA DebitType ==
  ASSUME NEW b \in [Text -> Amount], NEW x \in Text, NEW amount \in Amount, b[x] >= amount
  PROVE  /\ Debit(b, x, amount) \in [Text -> Amount]
         /\ Debit(b, x, amount) = [b EXCEPT ![x] = b[x] - amount]
<1>1. b[x] - amount \in Amount
  BY LedgerAssumption DEF Amount
<1>2. QED
  BY <1>1 DEF Debit

\* Looking at one extrinsic leads from an account to an account.
LEMMA CoverStepType ==
  ASSUME NEW acc \in Accounts, NEW tx \in Tx
  PROVE  CoverStep(acc, tx) \in Accounts
<1>1. acc.temp \in [Text -> Amount] /\ Append(acc.covered, tx) \in Seq(Tx)
  BY DEF Accounts
<1>2. CASE tx.transaction_context = "ExchangeAssets"
  <2>1. CoverStep(acc, tx) = [acc EXCEPT !.covered = Append(acc.covered, tx)]
    BY <1>2 DEF CoverStep
  <2>2. QED
    BY <1>1, <2>1 DEF Accounts
<1>3. CASE tx.transaction_context # "ExchangeAssets"
           /\ acc.temp[tx.sender_public_key] >= tx.amount
  <2>1. Debit(acc.temp, tx.sender_public_key, tx.amount) \in [Text -> Amount]
    BY <1>1, <1>3, TxType, DebitType
  <2>2. QED
    BY <1>1, <1>3, <2>1 DEF CoverStep, Accounts
<1>4. QED
  BY <1>2, <1>3 DEF CoverStep

\* get_covered_extrinsics selects what the last of its accounts has.
LEMMA CoveredExtrinsicsSteps ==
  ASSUME NEW b \in [Text -> Amount], NEW txs \in Seq(Tx)
  PROVE  \E h : /\ AreSteps(h, Accounts, Len(txs), CoverSteps(txs), [temp |-> b, covered |-> <<>>])
                /\ CoveredExtrinsics(b, txs) = h[Len(txs)].covered
<1> DEFINE n == Len(txs)
           S == Accounts
           x == [temp |-> b, covered |-> <<>>]
           step == CoverSteps(txs)
           Is(f) == f = [s \in SUBSET DOMAIN txs |->
                           IF s = {} THEN x ELSE CoverStep(f[s \ {Max(s)}], txs[Max(s)])]
           f == CHOOSE g : Is(g)
<1>1. n \in Nat /\ DOMAIN txs = 1..n /\ \A i \in 1..n : txs[i] \in Tx
  OBVIOUS
<1>2. step \in [1..n -> [S -> S]]
  BY <1>1, CoverStepType DEF CoverSteps
<1>3. ASSUME NEW i \in 1..n, NEW a \in S
      PROVE  step[i][a] = CoverStep(a, txs[i])
  BY DEF CoverSteps
<1>4. CoveredExtrinsics(b, txs) = f[1..n].covered
  BY <1>1, Zenon DEF CoveredExtrinsics, FoldLeft, MapThenFoldSet, CoverStep
<1>5. x \in S
  BY DEF Accounts
<1> HIDE DEF step, n, S, x
<1>6. \A s \in (SUBSET (1..n)) \ {{}} : Max(s) \in 1..n /\ s \ {Max(s)} \in SUBSET (1..n)
  BY <1>1, MaxOfSubset
<1>7. \E g : Is(g)
  <2>1. PICK g \in [SUBSET (1..n) -> S] : IsFold(g, S, n, step, x)
    BY <1>1, <1>2, <1>5, FoldCanBeTaken
  <2>2. \A s \in SUBSET (1..n) :
          g[s] = IF s = {} THEN x ELSE CoverStep(g[s \ {Max(s)}], txs[Max(s)])
    BY <1>3, <1>6, <2>1 DEF IsFold
  <2>3. Is(g)
    BY <1>1, <2>1, <2>2
  <2>4. QED
    BY <2>3
<1>8. Is(f)
  BY <1>7
<1> HIDE DEF f
<1>9. IsFold(f, S, n, step, x)
  BY <1>1, <1>3, <1>6, <1>8 DEF IsFold
<1>10. \E h : AreSteps(h, S, n, step, x) /\ f[1..n] = h[n]
  BY <1>1, <1>2, <1>5, <1>9, FoldIsSteps
<1>11. QED
  BY <1>4, <1>10 DEF n, S, step, x

\* Pushing one extrinsic more is pushing it last.
LEMMA PushExtrinsicsAppend ==
  ASSUME NEW l \in LedgerStates, NEW txs \in Seq(Tx), NEW tx \in Tx
  PROVE  PushExtrinsics(l, Append(txs, tx)) = PushStep(PushExtrinsics(l, txs), tx)
<1> DEFINE more == Append(txs, tx)
           n == Len(txs)
<1>1. /\ n \in Nat /\ more \in Seq(Tx) /\ Len(more) = n + 1
      /\ more[n + 1] = tx /\ \A i \in 1..n : more[i] = txs[i]
  OBVIOUS
<1> HIDE DEF more
<1>2. PICK h : AreSteps(h, LedgerStates, n, PushSteps(txs), l) /\ PushExtrinsics(l, txs) = h[n]
  BY PushExtrinsicsSteps
<1>3. PICK g : /\ AreSteps(g, LedgerStates, Len(more), PushSteps(more), l)
               /\ PushExtrinsics(l, more) = g[Len(more)]
  BY <1>1, PushExtrinsicsSteps
<1> HIDE DEF n
<1>4. AreSteps(g, LedgerStates, n + 1, PushSteps(more), l) /\ PushExtrinsics(l, more) = g[n + 1]
  BY <1>1, <1>3
<1>5. SameSteps(PushSteps(more), PushSteps(txs), n, LedgerStates)
  BY <1>1 DEF SameSteps, PushSteps, n
<1>6. n + 1 \in Nat /\ n \in 0..(n + 1)
  BY <1>1
<1>7. \A k \in 0..n : g[k] = h[k]
  BY <1>2, <1>4, <1>5, <1>6, StepsAgree
<1>8. g[n] = h[n] /\ g[n] \in LedgerStates
  BY <1>1, <1>4, <1>7 DEF AreSteps
<1>9. g[n + 1] = PushSteps(more)[n + 1][g[n]]
  BY <1>1, <1>4 DEF AreSteps
<1>10. g[n + 1] = PushStep(g[n], tx)
  BY <1>1, <1>8, <1>9 DEF PushSteps
<1>11. QED
  BY <1>2, <1>4, <1>8, <1>10 DEF more

\* push_extrinsics of an empty batch changes nothing.
LEMMA PushNothing ==
  ASSUME NEW l \in LedgerStates
  PROVE  PushExtrinsics(l, <<>>) = l
<1>1. <<>> \in Seq(Tx) /\ Len(<<>>) = 0
  OBVIOUS
<1>2. PICK h : /\ AreSteps(h, LedgerStates, Len(<<>>), PushSteps(<<>>), l)
               /\ PushExtrinsics(l, <<>>) = h[Len(<<>>)]
  BY <1>1, PushExtrinsicsSteps
<1>3. QED
  BY <1>1, <1>2 DEF AreSteps

\* A transfer from an account that has the money succeeds; the sender's balance
\* falls by no more than the amount and no other falls.
LEMMA MoveSucceeds ==
  ASSUME NEW l \in LedgerStates, l.ok, NEW from \in Text, NEW to \in Text, NEW amount \in Amount,
         l.balances[from] >= amount
  PROVE  /\ Move(l, from, to, amount).ok
         /\ \A x \in Text : Move(l, from, to, amount).balances[x] >= Debit(l.balances, from, amount)[x]
<1> DEFINE b1 == Debit(l.balances, from, amount)
<1>1. l.balances \in [Text -> Amount] /\ l.balances[from] \in Amount /\ MaxU64 \in Nat
  BY LedgerAssumption DEF LedgerStates, Amount
<1>2. b1 \in [Text -> Amount]
  BY <1>1, DebitType
<1>3. Take(l, from, amount) = [l EXCEPT !.balances = b1]
  BY <1>1 DEF Take, Amount
<1>4. Take(l, from, amount).ok /\ Take(l, from, amount).balances = b1
  BY <1>3 DEF LedgerStates
<1>5. Move(l, from, to, amount) = [l EXCEPT !.balances = Credit(b1, to, amount)]
  BY <1>3, <1>4 DEF Move, Give, LedgerStates
<1> HIDE DEF b1
<1>6. /\ Move(l, from, to, amount).ok
      /\ Move(l, from, to, amount).balances = Credit(b1, to, amount)
  BY <1>5 DEF LedgerStates
<1>7. ASSUME NEW x \in Text PROVE Credit(b1, to, amount)[x] >= b1[x]
  <2>1. b1[x] \in Amount /\ b1[to] \in Amount
    BY <1>2
  <2>2. QED
    BY <1>1, <1>2, <2>1 DEF Credit, Amount
<1>8. QED
  BY <1>6, <1>7 DEF b1

\* What the accounts have selected can be pushed, and leaves every balance at
\* least what the account still has to spend.
Covers(l, acc) ==
  /\ PushExtrinsics(l, acc.covered).ok
  /\ \A x \in Text : PushExtrinsics(l, acc.covered).balances[x] >= acc.temp[x]

\* An extrinsic that get_covered_extrinsics admits can be paid after those
\* admitted before it.
LEMMA CoverStepCovers ==
  ASSUME NEW l \in LedgerStates, NEW acc \in Accounts, NEW tx \in Tx, Covers(l, acc),
         tx.transaction_context \in {"TransferAssets", "ExchangeAssets"}
  PROVE  Covers(l, CoverStep(acc, tx))
<1> DEFINE m == PushExtrinsics(l, acc.covered)
           more == PushExtrinsics(l, Append(acc.covered, tx))
           from == tx.sender_public_key
<1>1. acc.temp \in [Text -> Amount] /\ acc.covered \in Seq(Tx)
  BY DEF Accounts
<1>2. m \in LedgerStates /\ m.ok /\ \A x \in Text : m.balances[x] >= acc.temp[x]
  BY <1>1, PushExtrinsicsType DEF Covers
<1>3. more = PushExtrinsic(m, tx)
  BY <1>1, <1>2, PushExtrinsicsAppend DEF PushStep
<1> HIDE DEF m
<1>4. CASE tx.transaction_context = "ExchangeAssets"
  <2>1. CoverStep(acc, tx) = [acc EXCEPT !.covered = Append(acc.covered, tx)]
    BY <1>4 DEF CoverStep
  <2>2. CoverStep(acc, tx).temp = acc.temp /\ CoverStep(acc, tx).covered = Append(acc.covered, tx)
    BY <2>1 DEF Accounts
  <2>3. more = m
    BY <1>3, <1>4 DEF PushExtrinsic
  <2>4. QED
    BY <1>2, <2>2, <2>3 DEF Covers
<1>5. CASE tx.transaction_context = "TransferAssets" /\ acc.temp[from] >= tx.amount
  <2>1. /\ CoverStep(acc, tx).temp = Debit(acc.temp, from, tx.amount)
        /\ CoverStep(acc, tx).covered = Append(acc.covered, tx)
    BY <1>5 DEF CoverStep
  <2>2. more = Move(m, from, tx.receiver_public_key, tx.amount)
    BY <1>3, <1>5 DEF PushExtrinsic
  <2>3. m.balances \in [Text -> Amount] /\ from \in Text /\ tx.amount \in Amount
        /\ tx.receiver_public_key \in Text
    BY <1>2, TxType DEF LedgerStates, Amount
  <2>4. m.balances[from] \in Int /\ acc.temp[from] \in Int /\ tx.amount \in Int
    BY <1>1, <2>3 DEF Amount
  <2>5. m.balances[from] >= tx.amount
    BY <1>2, <1>5, <2>3, <2>4
  <2>6. more.ok /\ \A x \in Text : more.balances[x] >= Debit(m.balances, from, tx.amount)[x]
    BY <1>2, <2>2, <2>3, <2>5, MoveSucceeds
  <2>7. more \in LedgerStates
    BY <1>2, <2>2, <2>3, MoveType
  <2> HIDE DEF more, from
  <2>8. ASSUME NEW x \in Text PROVE more.balances[x] >= Debit(acc.temp, from, tx.amount)[x]
    <3>1. m.balances[x] \in Int /\ acc.temp[x] \in Int /\ more.balances[x] \in Int
      BY <1>1, <2>3, <2>7 DEF Amount, LedgerStates
    <3>2. Debit(m.balances, from, tx.amount)[x]
            = IF x = from THEN m.balances[x] - tx.amount ELSE m.balances[x]
      BY <2>3, <2>5, DebitType
    <3>3. Debit(acc.temp, from, tx.amount)[x]
            = IF x = from THEN acc.temp[x] - tx.amount ELSE acc.temp[x]
      BY <1>1, <1>5, <2>3, DebitType DEF from
    <3>4. more.balances[x] >= Debit(m.balances, from, tx.amount)[x] /\ m.balances[x] >= acc.temp[x]
      BY <1>2, <2>6
    <3>5. QED
      BY <2>4, <3>1, <3>2, <3>3, <3>4
  <2>9. QED
    BY <2>1, <2>6, <2>8 DEF Covers, more
<1>6. CASE tx.transaction_context = "TransferAssets" /\ ~(acc.temp[from] >= tx.amount)
  BY <1>6 DEF CoverStep
<1>7. QED
  BY <1>4, <1>5, <1>6

\* Everything that get_covered_extrinsics selects from transfers can be pushed.
LEMMA CoveredCanBePushed ==
  ASSUME NEW l \in LedgerStates, l.ok, NEW txs \in Seq(Tx), TransfersOnly(txs)
  PROVE  PushExtrinsics(l, CoveredExtrinsics(l.balances, txs)).ok
<1> DEFINE b == l.balances
           x == [temp |-> b, covered |-> <<>>]
<1>1. b \in [Text -> Amount]
  BY DEF LedgerStates, Amount
<1>2. Len(txs) \in Nat /\ DOMAIN txs = 1..Len(txs) /\ \A i \in 1..Len(txs) : txs[i] \in Tx
  OBVIOUS
<1>3. PICK h : /\ AreSteps(h, Accounts, Len(txs), CoverSteps(txs), x)
               /\ CoveredExtrinsics(b, txs) = h[Len(txs)].covered
  BY <1>1, CoveredExtrinsicsSteps
<1> DEFINE T == {k \in 0..Len(txs) : Covers(l, h[k])}
<1>4. 0 \in T
  <2>1. h[0] = x
    BY <1>3 DEF AreSteps
  <2>2. PushExtrinsics(l, x.covered) = l
    BY PushNothing
  <2>3. \A t \in Text : b[t] >= b[t]
    BY <1>1 DEF Amount
  <2>4. Covers(l, x)
    BY <2>2, <2>3 DEF Covers
  <2>5. QED
    BY <1>2, <2>1, <2>4
<1> HIDE DEF x
<1>5. ASSUME NEW k \in 1..Len(txs), k - 1 \in T
      PROVE  k \in T
  <2>1. h[k - 1] \in Accounts /\ h[k] \in Accounts
    BY <1>2, <1>3 DEF AreSteps
  <2>2. h[k] = CoverStep(h[k - 1], txs[k])
    BY <1>3, <2>1 DEF AreSteps, CoverSteps
  <2>3. txs[k] \in Tx /\ txs[k].transaction_context \in {"TransferAssets", "ExchangeAssets"}
    BY <1>2 DEF TransfersOnly
  <2>4. QED
    BY <1>5, <2>1, <2>2, <2>3, CoverStepCovers
<1>6. \A k \in 1..Len(txs) : k - 1 \in T => k \in T
  BY <1>5
<1> HIDE DEF T
<1>7. 0..Len(txs) \subseteq T
  BY <1>2, <1>4, <1>6, InductiveInterval
<1>8. Len(txs) \in T
  BY <1>2, <1>7
<1>9. QED
  BY <1>3, <1>8 DEF T, Covers

\* A single transfer is covered exactly when it can be pushed.
LEMMA CoveredAlone ==
  ASSUME NEW l \in LedgerStates, l.ok, NEW tx \in Tx,
         tx.transaction_context \in {"TransferAssets", "ExchangeAssets"}
  PROVE  IsExtrinsicCovered(l.balances, tx) <=> PushExtrinsics(l, <<tx>>).ok
<1> DEFINE b == l.balances
           x == [temp |-> b, covered |-> <<>>]
           one == <<tx>>
<1>1. b \in [Text -> Amount] /\ one \in Seq(Tx) /\ Len(one) = 1 /\ one[1] = tx
      /\ one = Append(<<>>, tx) /\ <<>> \in Seq(Tx)
  BY DEF LedgerStates, Amount
<1>2. PushExtrinsics(l, one) = PushExtrinsic(l, tx)
  <2> HIDE DEF one
  <2>1. PushExtrinsics(l, one) = PushStep(PushExtrinsics(l, <<>>), tx)
    BY <1>1, PushExtrinsicsAppend
  <2>2. QED
    BY <2>1, PushNothing DEF PushStep
<1>3. PICK h : /\ AreSteps(h, Accounts, Len(one), CoverSteps(one), x)
               /\ CoveredExtrinsics(b, one) = h[Len(one)].covered
  BY <1>1, CoveredExtrinsicsSteps
<1> HIDE DEF one
<1>4. AreSteps(h, Accounts, 1, CoverSteps(one), x) /\ CoveredExtrinsics(b, one) = h[1].covered
  BY <1>1, <1>3
<1>5. h[0] = x /\ h[0] \in Accounts /\ h[1] = CoverSteps(one)[1][h[0]]
  BY <1>4 DEF AreSteps
<1>6. h[1] = CoverStep(x, tx)
  BY <1>1, <1>5 DEF CoverSteps
<1>7. CoveredExtrinsics(b, one) # <<>> <=>
        tx.transaction_context = "ExchangeAssets" \/ b[tx.sender_public_key] >= tx.amount
  <2>1. Append(<<>>, tx) # <<>>
    OBVIOUS
  <2>2. CASE tx.transaction_context = "ExchangeAssets"
    BY <1>4, <1>6, <2>1, <2>2 DEF CoverStep
  <2>3. CASE tx.transaction_context # "ExchangeAssets"
    BY <1>4, <1>6, <2>1, <2>3 DEF CoverStep
  <2>4. QED
    BY <2>2, <2>3
<1>8. PushExtrinsic(l, tx).ok <=>
        tx.transaction_context = "ExchangeAssets" \/ b[tx.sender_public_key] >= tx.amount
  <2>1. CASE tx.transaction_context = "ExchangeAssets"
    BY <2>1 DEF PushExtrinsic
  <2>2. CASE tx.transaction_context = "TransferAssets" /\ b[tx.sender_public_key] >= tx.amount
    BY <2>2, TxType, MoveSucceeds DEF PushExtrinsic
  <2>3. CASE tx.transaction_context = "TransferAssets" /\ ~(b[tx.sender_public_key] >= tx.amount)
    <3>1. b[tx.sender_public_key] \in Int /\ tx.amount \in Int
      BY <1>1, TxType DEF Amount
    <3>2. Take(l, tx.sender_public_key, tx.amount) = Fail(l)
      BY <2>3, <3>1 DEF Take
    <3>3. PushExtrinsic(l, tx) = Fail(l)
      BY <2>3, <3>2, FailType DEF PushExtrinsic, Move, Give
    <3>4. QED
      BY <2>3, <3>3, FailType
  <2>4. QED
    BY <2>1, <2>2, <2>3
<1>9. QED
  BY <1>2, <1>7, <1>8 DEF IsExtrinsicCovered, one

(***************************************************************************)
(* In every reachable state, what get_covered_extrinsics selects from any  *)
(* batch of transfers can be pushed to the last one, and a single transfer *)
(* is covered exactly when it can be pushed.                               *)
(***************************************************************************)
THEOREM CoverageIsRight == Spec => []CoveredBatchSucceeds
<1>1. TypeOK => CoveredBatchSucceeds
  <2> SUFFICES ASSUME TypeOK, NEW txs \in Batches, TransfersOnly(txs)
               PROVE  /\ PushExtrinsics(Current, CoveredExtrinsics(balances, txs)).ok
                      /\ Len(txs) = 1 =>
                           (IsExtrinsicCovered(balances, txs[1]) <=> PushExtrinsics(Current, txs).ok)
    BY DEF CoveredBatchSucceeds
  <2>1. Current \in LedgerStates /\ Current.ok /\ Current.balances = balances /\ txs \in Seq(Tx)
    BY BatchType DEF TypeOK, Current
  <2>2. PushExtrinsics(Current, CoveredExtrinsics(balances, txs)).ok
    BY <2>1, CoveredCanBePushed
  <2>3. ASSUME Len(txs) = 1
        PROVE  IsExtrinsicCovered(balances, txs[1]) <=> PushExtrinsics(Current, txs).ok
    <3>1. txs = <<txs[1]>> /\ txs[1] \in Tx /\ 1 \in DOMAIN txs
      <4>1. txs \in Seq(Tx) /\ Len(txs) = 1
        BY <2>1, <2>3
      <4>2. DOMAIN txs = {1} /\ txs[1] \in Tx
        BY <4>1
      <4>3. txs = [i \in {1} |-> txs[1]] /\ <<txs[1]>> = [i \in {1} |-> txs[1]]
        BY <4>1, <4>2
      <4>4. QED
        BY <4>2, <4>3
    <3>2. txs[1].transaction_context \in {"TransferAssets", "ExchangeAssets"}
      BY <3>1 DEF TransfersOnly
    <3>3. IsExtrinsicCovered(balances, txs[1]) <=> PushExtrinsics(Current, <<txs[1]>>).ok
      BY <2>1, <3>1, <3>2, CoveredAlone
    <3>4. QED
      BY <3>1, <3>3
  <2>4. QED
    BY <2>2, <2>3
<1>2. QED
  BY <1>1, TypeCorrect, PTL
=============================================================================
