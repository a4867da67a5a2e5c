# TLA+ models of Pluteus

Pluteus is a small blockchain node in Rust: accounts and Starlark programs, a
chain of blocks, a consensus in the style of federated byzantine agreement, and
a peer-to-peer event loop. This directory holds TLA+ models of it, the TLC
configurations that check them, and TLAPS proofs. Paths below are relative to
the root of the repository; line numbers are those of the commit modelled.

## 1. The system

| Part | Code | State | Operations |
|---|---|---|---|
| Quorum sets | `src/consensus.rs` 25-49 | threshold, list of validator keys, one set per node, fixed at start | `is_quorum_slice` |
| Slot consensus | `src/consensus.rs` 134-401 | per slot: phase, three tallies (value -> voters), externalized value | `nominate`, `prepare`, `commit`, `process_message`, `check_state_transitions`, `start_slot` |
| Consensus messages | `src/consensus.rs` 51-131 | - | `sign`, `verify_signature` |
| Accounts | `src/ledger.rs` 44-131 | balance per address, u64; a list of keys nobody reads | credit (saturating), debit (refused when short) |
| Programs | `src/programs.rs`, `src/ledger.rs` 213-311 | id -> script | `deploy_program`, `execute_program`, `apply_state_changes` |
| Extrinsics | `src/extrinsic.rs`, `src/ledger.rs` 385-474 | - | `push_extrinsics`, `get_covered_extrinsics` |
| Chain | `src/ledger.rs` 142-210, 314-379 | list of blocks | `add_block`, `nominate_block`, `finalize_consensus_block`, height and hash checks |
| Mempool | `src/mempool.rs` | set of extrinsics | `push`, `contains`, `remove_batch` |
| Node | `src/node.rs` | two mutexes (ledger, mempool), an unbounded event queue, the swarm | event loop `handle_event` (gossip, proposed blocks, consensus messages, chain sync), the application's calls |
| Wallet | `src/wallet.rs` | a key pair, generated at start | sign and verify extrinsics, blocks, consensus messages |

How they interact. The application calls the node from its own threads
(`propose_consensus_value`, `propose_block_consensus`,
`process_consensus_message`, `broadcast_extrinsic`, `deploy_program`,
`execute_program`, `request_chain_sync`, and `finalize_consensus_block` through the
public `ledger`). Each call locks the
ledger or the mempool, changes it, unlocks, and then sends messages to the
connected peers. What peers send is put in the event queue by a callback of the
transport; one loop takes events from the queue and handles each to its end,
under the same locks. The ledger owns accounts, programs, chain and consensus,
so one mutex covers all four. Nothing is persisted, and a wallet is always a
new key, so a node that stops does not come back as itself.

Hard behaviours, and what makes each part correct:

- *Slot consensus.* Messages arrive in any order, repeatedly, late or never; a
  node casts its own votes inside the handler; one message may move a slot
  through several phases, of which only the last is announced; rival values
  share a slot. Correct: tallies depend on what was heard and not on the order;
  no vote without the slice that justifies it; no transition left undone; phases
  never go back; decisions are justified and final; nodes do not decide
  differently; nodes that nominate the same value all decide it.
- *Accounts and programs.* Batches stop at the first error; credits saturate;
  a program's amounts are cast. Correct: balances stay in range, transfers
  neither make nor destroy money, what the coverage check admits can be paid,
  and a failure leaves no trace (it does: see the findings).
- *Chain and node.* Blocks arrive by proposal, by sync and by finalization, and
  are appended on receipt, without regard to consensus; sync responses are
  computed from heights read earlier and overlap; errors of `push_extrinsics` are
  dropped; a value can be nominated, and decided, with no block behind it. Correct: the chain is linked and gapless; chains share their history up
  to where they part; the accounts are what the chain's blocks give; two
  finalized blocks of one height lie on one history; no pending extrinsic is
  dropped with a refused block; who asks for blocks gets them; a chain does not
  contradict its node's decision (it does: see the findings).
- *Locks.* Two mutexes. `handle_event` takes the ledger's and, inside it, the
  mempool's; nothing takes them the other way round, and none is held across an
  await, so the code has no cycle of waiting.

`PROJECT.json` lists each hazard at its line with the properties that cover it.

## 2. Modules

```
QuorumSets <- SlotState <- ConsensusNode     <- MCConsensusNode
                  ^     <- ConsensusNetwork  <- MCConsensusNetwork
                  |             | INSTANCE SlotDecision (refinement)
           SlotStateProofs <- ConsensusNodeProofs, ConsensusNetworkProofs
LedgerState <- Ledger  <- MCLedger
     ^      <- Blocks  <- NodeNetwork <- MCNodeNetwork
     |                        | INSTANCE BlockTree (refinement)
     |    IterationProofs
     |           ^
LedgerStateProofs <- LedgerProofs, NodeNetworkProofs
```

A proof module also extends the module it is about: LedgerProofs extends Ledger,
NodeNetworkProofs NodeNetwork, and so on.

**QuorumSets** has the quorum set of every node and `is_quorum_slice`.
Validators stay a sequence, since the code counts positions of the list: a key
that is listed twice counts twice. `QuorumIntersection` (any two slices share a
voter) is nowhere checked by the code; it is a hypothesis of the agreement
properties, not an assumption of the model.

**SlotState** translates the per-slot functions as operators on a record with
the fields of the struct. A tally is a function from values to sets of voters:
`add_vote` keeps the `Vec` free of duplicates, and an entry of the map is only
created with its first vote, so a missing key and an empty set are the same. The
three blocks of `check_state_transitions` are `NominationStep`, `PrepareStep`
and `CommitStep`, composed in the code's order. `Replies` is what
`process_message` returns. A slot that is missing from the map is
treated by every operation as a fresh one. A signature is the name of who made
it, or `None`; `verify_signature` compares it with the sender.

**ConsensusNode** is the `Consensus` object of one node, called in every
possible way: `nominate`, `prepare` and `commit` at any time (they are public,
though the node only calls the first), and every message, signed or not, in any
order and any number of times, from every node in `Sender`, which may have the node
itself in it: `process_message` does not ask whose message it is. Two history variables,
`heard` and `called`, record what was accepted, and the properties compare the
state with a reference definition computed from those sets alone (`Nominators`,
`Preparers`, `Committers`).

**ConsensusNetwork** composes the nodes: `Nominate` is
`propose_consensus_value` (and the consensus part of
`propose_block_consensus`), `Deliver` is the `ConsensusMessage` branch of
`handle_event` with the reply it signs and broadcasts, `ProcessConsensusMessage` is
`process_consensus_message`, called by the applications of `Feeder`, which keep the
reply to themselves and may process messages of their own node too, `Crash` stops a node for
good. `msgs` holds everything ever broadcast and a message can be delivered
any number of times or never, which covers loss, repetition and reordering. The
mutex of the ledger makes each handler atomic, and the broadcast that follows
outside the lock needs no step of its own, as its delivery is arbitrarily late
anyway. A handler that changes nothing (a bad signature, an externalized slot)
is a stutter here; ConsensusNode has it as an action.

**SlotDecision** is the abstract specification: nodes nominate, and each decides
at most once per slot, for a value whose nominators are a sufficient set. No
phases, votes or messages. The refinement mapping takes the nominations on the
network for `nominators`, `externalized_value` for `decided`, and the slices of
any node for the sufficient sets. A slice is never empty there: the code asks
`is_quorum_slice` only of a list of voters that exists, so it has one (`Reaches`).

**LedgerState** has the operations on accounts and programs, as functions from a
ledger state to a ledger state with a flag: `ok` turns false at the first error,
what was done until then stays, and nothing is done after it, as with the early
returns of the code. Addresses, scripts and payloads share the set `Text`
because the code uses one for the other (an `ExecuteProgram` whose receiver is
not a deployed id runs the receiver itself as a script). The width of u64 and of
i32 are constants, and `Text` is finite (`LedgerAssumption`), so that balances have a sum.
The Starlark interpreter is a constant function, `RunScript`, of which only the
type of its outcome is assumed (`RunScriptAssumption`: `RawChange`s of any amount);
`Transform` is what `programs.rs` makes of its result, and `AmountOf` keeps the
cast of a negative i32 to u64. An extrinsic is a record with the fields of the
struct but the timestamp, which tells extrinsics apart as the id does; its
signature is the key that made it.

**Ledger** has the accounts and programs of one node under every batch of
extrinsics, every direct call of `deploy_program` and `execute_program`, and
every credit and debit.

**Blocks** has blocks, `hash_data`, and the checks of `add_block`. The hash is a
constant function. It is equal for blocks that agree on all but their
signature and those of their extrinsics, since the code hashes neither (a block
that is signed anew is another block with the same hash), nor tells a missing payload from
an empty one; blocks of one hash have one height and one previous hash, and
nothing more is assumed of them, as the code hashes the fields without separators. `previous_hash` of a
genesis block is `NoHash`, the empty string.

**NodeNetwork** composes nodes. Each has a chain, the slot consensus is at, accounts
(of LedgerState) and a mempool; `decided` is what its consensus externalized.
`ReceiveBlock` is what both handlers do with a block: `add_block` and, only if it
succeeds, `push_extrinsics`, whose error is dropped, and `remove_batch`.
`HandleProposedBlock`, `HandleRequest`, `HandleResponse` and `HandleTransaction`
are the branches of `handle_event`; `BroadcastExtrinsic`, `ProposeConsensusValue`,
`ProposeBlock`, `FinalizeConsensusBlock` and `RequestChainSync` are the application's calls (the
last is also made when a peer connects). `FinalizeConsensusBlock` appends and does
nothing more, as in the code; the history variable `finalized` remembers where.
The direct calls that change accounts past any block are left to Ledger:
`AccountsFollowChain` is about nodes that do not make them. Likewise an
application is taken to append blocks by `finalize_consensus_block` only; it could call
`add_block` through the public `ledger`, which the repository does in tests, to
set a chain up. Broadcasts are kept in a
set that only grows, like the messages of ConsensusNetwork. Sync messages go from
one node to another and are handled once; those to a node are a sequence, the
oldest first, of which any may be handled next, so they may overtake each other.
Of the consensus messages `msgs` has the nominations, those of
`propose_block_consensus`, which come with a block, and those of
`propose_consensus_value`, which come without and may name any value in any slot.
`Decide` stands for the rest of consensus, with the guard of SlotDecision, which
ConsensusNetwork is proved to implement: not decided, and nominators in a slice.
That guard is an assumption here and no result. A nomination that decides at once is
one followed by a `Decide`.
A handler runs under the ledger mutex from its first look at the chain to the
mempool's change, so it is one step. Nodes that stop are those that do nothing
any more, and a node that joins, or starts again with a new key, is one that has
done nothing yet, since all begin at the genesis block.

**BlockTree** is the abstract specification of the chains: there is one tree of
hashes, and a node walks down one path of it, never back. No blocks, heights,
messages, accounts or decisions. The refinement mapping takes the hashes of a
node's chain for its path, and `previous_hash` for the parent.

The operators named after a definition with a suffix, under a comment that calls
them deliberately wrong, are plausible bugs of that definition; each violates the
property `PROJECT.json` pairs it with.

## 3. Checks

| Run | Instance | Shows |
|---|---|---|
| `node_values` | 2 nodes, 2-of-2, 2 values | `VotesDetermined`, `DecisionJustified`, `ResultIsTruthful`, `DecisionIsFinal`: with any interleaving of calls and messages, the votes held are a function of what was accepted, the value decided is the one and only value with a commit slice, nothing is announced that was not done, and a decided slot is frozen |
| `node_observer` | 3 nodes; self on no list, one key listed twice, messages from all three | `VotesDetermined` for a node that must not vote, with slices formed by different senders and with messages in its own name |
| `network_rivals` | 3 nodes, 2-of-3, 2 values, three nominations in all, one application that also processes messages itself | `NothingPending`, `NeverRegresses`, `AgreementIfNominatedOnce`, and the refinement of SlotDecision |
| `network_mixed` | 3 nodes with three different quorum sets, one a follower | `VotesAreBacked`, `VotesAreSupported`, and progress: `NominatedIsExternalized` |
| `network_survivors` | 3 nodes, 2-of-3, one may stop at any time | progress of those left: `SurvivorsExternalize` |
| `network_agreement` | 2 nodes, 2-of-2, 2 values | finding: agreement without a condition on nominations fails |
| `network_leader` | a sole validator and its follower | finding: a transition inside `nominate` is never announced |
| `ledger_accounts` | 2 users with any balances, 1 program id in 2 spellings, 3 scripts, u64 = 0..5 | `MoneyIsConserved` and `CoveredBatchSucceeds`, for every batch of two extrinsics in every reachable state |
| `ledger_failure` | the same, batches of one | finding: a failing extrinsic leaves its payment behind |
| `node_chains` | 2 nodes, rival blocks at height 1, one block on top, one that skips a height, a nomination without a block, gossip of an extrinsic, one sync message under way | `ChainsAreValid`, `CommonHistory`, `AccountsFollowChain`, `FinalizedHistoryAgrees`, `OneChainWithoutRivals`, `PendingIsKept`, and the refinement of BlockTree |
| `node_sync` | 2 nodes, rivals by one node, a block in two signatures, two sync messages under way | `SyncCatchesUp`, under fairness |
| `node_forks` | 2 nodes, one rival each, no sync | finding: a chain contradicts its node's decision |

Bounds, and why they suffice. *One slot*: no operation on a slot reads another.
*Two values*: the tallies of different values only meet in the phase and in the
decision, for which two rivals are enough. *Two or three nodes*: 2-of-3
is the smallest quorum set with different slices that intersect; the
theorems cover the rest. *FewNominations* (`network_rivals`): three nominations in
all, so that all nodes nominate, or one nominates both values against another; unbounded rivalry is in `network_agreement` and, for one
node against any messages, in `node_values`. *Sender* is the other node in `node_values` and everybody in
`node_observer`. *Feeder* is one node in `network_rivals` and empty elsewhere: the
reply an application gets is its own to announce, so nothing is promised about
progress when it does not. *Nominated*: in `node_chains` one node may nominate the rival of its own block, so
that both values gather nominations, a node nominates twice, or a block is finalized
that nobody has broadcast. *Symmetry* is used in
`network_rivals` only, which checks no liveness property, between the values and
between the two nodes that are no feeder; its quorum set is the
same for all nodes up to the order of the list, which does not matter. *u64 =
0..5, i32 = -3..2*: small enough for balances to reach the maximum and to
saturate, and for a negative amount to be cast to a huge one. *Batches of two*:
the second extrinsic meets what the first left, and the failing one may come first
or second.

*Blocks* (`MCNodeNetwork`): a chain has to fork, to grow after the fork, and to be
offered a block that fits only by height or only by hash; two heights above
genesis are enough for that. One block fails when it is run without the other before it, so the
order and the number of runs show in the accounts. *Two nodes*: every property of
NodeNetwork relates at most two. *MaxUnderway*: with one sync message, proposals overtake
it; with two, a response is handled before an older one, and a node is asked twice
before it answers. Requests may be repeated for ever. *Slices* are {n1} and
its superset in `node_chains` and `node_forks`, a validator and its follower, and
both nodes in `node_sync`.

`CHECK_DEADLOCK FALSE` in the configurations of the two networks: once everything
has been nominated, proposed and delivered, nothing more happens.

Fairness. `LiveSpec` assumes weak fairness of one action: some node that is up
handles a message that makes a difference to it. The event queue is an unbounded
channel, `start_p2p_loop` goes on after an error, and no handler waits for
another node; what it adds is that the transport delivers what is broadcast to
nodes that are up. Proposing, crashing and processing by the application are under no
fairness. Votes only
accumulate and are finitely many, so every message that matters is eventually
handled. NodeNetwork's `LiveSpec` assumes the same of the oldest sync message to
each node, and so of every one, as each gets older; proposals, requests,
decisions and finalization are under no fairness. `broadcast` ignores send errors and has no retry, so the code gives no
more than its transport does.

## 4. Findings

1. *Agreement* (`network_agreement`). `check_state_transitions` prepares,
   commits and externalizes every value that gathers a slice. A node that
   nominates two values in one slot, or hears of two, votes for both, and two
   nodes decide differently, with intersecting slices and no faulty node.
   `README.md` line 3 calls the mechanism federated byzantine agreement. With
   one nomination per node and slot there is agreement, which is proved.
2. *Silent transitions* (`network_leader`). `nominate` drops the phase that
   `check_state_transitions` returns (line 236), so a Prepare or a decision that
   the node's own nomination brings about is not announced, whereas the same
   transition in `process_message` is (and a test expects it, lines 506-509).
   A follower of a sole validator never decides. For the same reason
   `SurvivorsExternalize` has to ask that the stopped node had not nominated: if
   it had, the others may both enter Prepare inside `nominate` and wait for each
   other.
3. *Failure leaves a trace* (`ledger_failure`). "Balances must remain unchanged
   on failure", says a test (`src/ledger.rs` line 642); the payment of an
   `ExecuteProgram` stays when its program fails.

4. *Blocks do not wait for consensus* (`node_forks`). `propose_block_consensus`
   "proposes a block through consensus" (`src/node.rs` line 295) and
   `finalize_consensus_block` adds one "only if consensus has externalized for
   this slot" (`src/ledger.rs` line 319), but the handler of the proposed block
   appends it on arrival. A node's chain may then hold another block than the one
   it decided, and cannot be mended: `finalize_consensus_block` refuses the
   decided block, as its place is taken, and so does every later sync. What holds
   instead is `OneChainWithoutRivals` and, between applications that finalize,
   `FinalizedHistoryAgrees`, both on conditions on what is nominated, with a block or
   without.

## 5. Proofs

Checked by TLAPS, for every value of the constants: any nodes, slots, values,
quorum sets, crashes, texts, scripts, extrinsics, blocks, lengths of batches and
of sync responses, and any width of u64 and i32. Every invariant, action property and
refinement that a passing run checks is the statement of a theorem; liveness is not.

Assumptions. `QuorumSetAssumption`, `SelfAssumption`, `NetworkAssumption`,
`BatchAssumption` and `TxAssumption` are types, and `NoneAssumption` says that None is
neither value nor node. `LedgerAssumption`: types, `parse_str` inverts `to_string`, and
there are finitely many texts (a `String` has at most `isize::MAX` bytes).
`RunScriptAssumption`: the type of what a script leaves. `BlockAssumption`: types.
`HashAssumption`: what is hashed determines the hash, and blocks of one hash have one
height and one previous hash; Blake3 without collisions gives that, though not
that the blocks are equal, as the fields are hashed without separators. `NodeAssumption`: types; genesis blocks are
what an empty chain accepts; slices are closed under more votes and not empty, both
of which hold of `Slices` of ConsensusNetwork (`SlicesSuit`).
The recursion in the models is that of folds, and every fold or sum is over a
finite sequence or set.

**One slot** (SlotStateProofs). The three steps of `check_state_transitions` are
put into closed form: `Moved(n, st, v, N, P, C, p)` is what becomes of a slot that is
not decided when the votes N, P and C of the three kinds for v arrive in phase p.
`CheckIs`, `CallsAre` and `MessageIs` say that `check_state_transitions`, the three
calls and `process_message` are such moves; all that follows about moves is stated
once: types, `MovedGrows` (no vote is taken back), `MovedSettles`, `MovedBacked`.

**One node** (ConsensusNodeProofs). `VotesDetermined` speaks of slots that are not
decided and `DecisionJustified` of those that are, and neither is inductive: at the
step that decides, the second needs what the first says. `VotesInv` says of every slot
that it holds the votes cast, with the node's own where a quorum is there, and that
its value is v exactly if the committers of v reach a slice. A move preserves it
since the own votes of the old tallies are among those of the new (`OwnVoteGrows`).
`OrderDoesNotMatter` and `DecisionIsJustified` follow. `SaysWhatItHolds` needs only
types and what a move puts into the slot (`MoveHolds`). `DecisionStays` is an action property.

**Network of consensus nodes** (ConsensusNetworkProofs).
- `TypeCorrect`. The conjunct that ties phase and value together uses that a slot is
  only touched while it is not externalized.
- `SupportCorrect`. VotesAreSupported is not inductive, because `process_message`
  records a Prepare or Commit as a nomination too: what a node counts as nominators are
  not the true ones. `SupportInv` says that each tally of nominations consists of
  true nominators unless the value is supported already (`VotesRest`), and that a
  message other than a nomination is only about a supported value (`MessagesRest`).
- `AgreementCorrect`. Two decisions rest on two slices of true nominators; slices
  intersect; the common node nominated both values.
- `RefinesSlotDecision`. A nomination maps to a step that adds a nominator and
  may decide, a message that is processed to one that may decide, a crash to a stutter.
- `VotesAreCertificates`. `BackedInv` adds to VotesAreBacked that every message on
  the network is backed by the votes its sender holds (`MessagesBacked`) and that
  in each slot those who prepare have nominated and those who commit have prepared,
  but for the node itself, which votes only on a quorum (`SlotsBacked`). Without the
  last, a node that jumps to Commit could not be shown to hold nominations. A node's own
  message, processed again, brings votes it is entitled to, by `MessagesBacked`.
- `NextSteps` puts both ways to process a message into one: the broadcast is any part of the answer.
- `NoTransitionIsMissed`. `Settled` says what NothingPending means for each value in
  terms of tallies and phase. It is inductive, as a move for one value leaves the
  tallies of the others and does not lower the phase. That is so of the network, which
  only nominates; the public `prepare` sets the phase to Prepare even from Commit.
- `PhasesAdvance` (`NeverRegresses`), for the same reason.

**Loops** (IterationProofs). `push_extrinsics`, `apply_state_changes`,
`get_covered_extrinsics` and the loop over a sync response are folds, and
the total of the balances is a sum over a function. The lemmas say that the fold over a
sequence is the last of n steps (`FoldIsSteps`), and that a sum changes by what one
summand changes (`SumOfUpdate`). Induction is done on sets of numbers
(`InductiveSet`), with the least number that is missing, and on sets of subsets
(`InductiveSubsets`), as no induction scheme with a predicate for a parameter is
available.

**Accounts and programs** (LedgerStateProofs, LedgerProofs). `TypeCorrect`: balances
stay within u64, through the cast of negative amounts and any number of state changes.
`MoneyConserved`: the relation `Conserves` (nothing is made; nothing is lost unless
the total is beyond u64) holds of a debit and the credit after it, to whatever
account, and is transitive, so of a batch, wherever it stops. `CoverageIsRight`: along
`get_covered_extrinsics`, the extrinsics selected so far can be pushed, and leave in
each account at least what the check still counts as there (`Covers`).

**Chain and node** (NodeNetworkProofs). The inductive invariant `NetInv`: types; a
chain is valid, starts with the genesis block of its node, and all its other blocks were
nominated by someone (`ChainBacked`), whether they came as proposals, which are
nominated too (`ProposalsBacked`), in responses (`SyncBacked`) or by finalization; a decision
has a slice of nominators (`DecisionBacked`); and what was finalized is in the
chain with the hash decided (`FinalizedDecided`). Every step is shown first to change at
most one chain, by receiving a sequence of blocks or by finalizing one.
- `TypeCorrect`, `ChainsValid`: parts of NetInv.
- `HistoryIsCommon`: in valid chains, blocks of one hash have one height and one
  predecessor (`HashAssumption`), and so on down to genesis.
- `FinalityAgrees`: decisions of one height have nominators in two slices, which
  intersect; the common node nominated both values, so they agree, and the histories by
  `HistoryIsCommon`.
- `OneChain`: without rival nominations, all blocks of a height in any two chains have one hash:
  those that were finalized without ever being broadcast, too, as a decision needs nominators.
- `PendingStays`: an action property; a mempool only loses what is in appended blocks.
- `BlockTreeImplemented`: a chain that grows is a path that goes down the tree.
- `AccountsAreOfChain`: a step that appends the blocks it runs extends the fold
  over the chain by these; one that finalizes is skipped by it.

Only model-checked: `NominatedIsExternalized`, `SurvivorsExternalize` and
`SyncCatchesUp` (fairness and ENABLED are beyond the prover).

## 6. Not modelled

The bytes that are hashed and serialized (see `HashAssumption`), key
generation, the Starlark interpreter, the rings transport (only what
it may do to messages), logging, `main`. `start_slot` in the consensus modules: no
operation of `Consensus` reads `current_slot`, and every operation creates a
missing slot; NodeNetwork keeps `current_slot`. The list of keys in `Accounts`,
which no operation reads. The mutexes as such: they are only taken in one order,
so a model of them would show nothing. That an extrinsic is run once: nothing in
the code looks for it in earlier blocks. Byzantine nodes: in ConsensusNode any message can come from any
sender; in ConsensusNetwork all nodes run this program.

## 7. Plan

1. *Done*: all modules of section 2, and theorems for all invariants, action
   properties and refinements of section 3.
2. The steps of the liveness properties that are safety: what is enabled in a state
   that is not yet decided, as invariants.
