---------------------------- MODULE NodeNetwork -----------------------------
(***************************************************************************)
(* The nodes of node.rs with their chains, accounts and mempools: gossip   *)
(* of extrinsics, proposed blocks, chain synchronisation, and the          *)
(* application that nominates values, proposes and finalizes blocks.       *)
(*                                                                         *)
(* The consensus object is not here.  Decide stands for it, and takes from *)
(* SlotDecision, which ConsensusNetwork implements, when a node may decide:*)
(* at most once in a slot, for a value that enough nodes nominated.  Of    *)
(* the consensus messages, msgs has the nominations.  The slot of a block  *)
(* is its height, and its value is its hash; a slot that is no height is   *)
(* never asked about by a chain.                                           *)
(*                                                                         *)
(* The ledger mutex, held from reading the chain to emptying the mempool,  *)
(* makes a handler one step; no lock is held while a message is sent.      *)
(* msgs is all that was ever broadcast, for anyone to receive at any time, *)
(* again, or never.  A node that joins late, or again under a new key, is  *)
(* one that has done nothing so far.                                       *)
(***************************************************************************)
EXTENDS Blocks

CONSTANTS
  Node,
  Genesis,      \* the genesis block each node is created with
  Slices,       \* the sets of nominators that decide a slot
  Submitted,    \* Submitted[n]: the extrinsics that n's application broadcasts
  Offered,      \* Offered[n]: the blocks that n's application proposes
  Nominated,    \* Nominated[n]: the slots and values that n's application
                \* nominates without a block
  MaxUnderway   \* bound: sync messages sent and not handled

Height == {b.block_height : b \in Block}

ASSUME NodeAssumption ==
  /\ Genesis \in [Node -> {b \in Block : CanAdd(<<>>, b)}]
  /\ Slices \subseteq SUBSET Node
  /\ \A V \in Slices, W \in SUBSET Node : V \subseteq W => W \in Slices
  /\ {} \notin Slices       \* no vote, no decision, even at threshold 0
  /\ Submitted \in [Node -> SUBSET Tx]
  /\ Offered \in [Node -> SUBSET Block]
  /\ Nominated \in [Node -> SUBSET (Height \X Hash)]
  /\ MaxUnderway \in Nat

VARIABLES
  nodes,      \* nodes[n]: blocks, current_slot, accounts and mempool
  decided,    \* decided[n][h]: the hash n externalized in slot h, or None
  msgs,       \* the extrinsics, nominations and blocks broadcast so far
  sync,       \* sync[n]: sync messages to n, oldest first
  finalized   \* finalized[n]: the heights n's application appended itself;
              \* history, for the properties only

vars == <<nodes, decided, msgs, sync, finalized>>

Gossip ==
  [type : {"BroadcastTransaction"}, from : Node, tx : Tx] \cup
  [type : {"ConsensusMessage"}, from : Node, slot : Height, value : Hash] \cup
  [type : {"ProposeBlock"}, from : Node, block : Block]

Transaction(n, tx)  == [type |-> "BroadcastTransaction", from |-> n, tx |-> tx]
Nomination(n, h, v) == [type |-> "ConsensusMessage", from |-> n, slot |-> h, value |-> v]
Proposal(n, b)      == [type |-> "ProposeBlock", from |-> n, block |-> b]

SyncMessage ==
  [type : {"RequestChainSync"}, source : Node, current_height : Nat] \cup
  [type : {"ResponseChainSync"}, source : Node, blocks : Seq(Block)]

Nominations == {m \in msgs : m.type = "ConsensusMessage"}

Nominators(h, v) == {m.from : m \in {q \in Nominations : q.slot = h /\ q.value = v}}

Broadcast(sent) == msgs' = msgs \cup sent

\* The callback of the transport puts what arrives at p into p's event queue.
Queued(queues, p, new) == [queues EXCEPT ![p] = @ \o new]

Taken(n, i) == [sync EXCEPT ![n] = RemoveAt(@, i)]

Underway == FoldFunction(LAMBDA q, k : Len(q) + k, 0, sync)

-----------------------------------------------------------------------------
NewNode(n) ==
  [blocks       |-> <<Genesis[n]>>,
   current_slot |-> Genesis[n].block_height + 1,
   accounts     |-> NewLedgerState,
   mempool      |-> {}]

Init ==
  /\ nodes = [n \in Node |-> NewNode(n)]
  /\ decided = [n \in Node |-> [h \in Height |-> None]]
  /\ msgs = {}
  /\ sync = [n \in Node |-> <<>>]
  /\ finalized = [n \in Node |-> {}]

StartSlot(node, slot) == [node EXCEPT !.current_slot = slot]

AddBlock(node, b) == StartSlot([node EXCEPT !.blocks = Append(@, b)], b.block_height + 1)

\* push_extrinsics as handle_event calls it: its error is dropped.
Apply(accounts, txs) == [PushExtrinsics(accounts, txs) EXCEPT !.ok = TRUE]

PushPending(mempool, tx) == mempool \cup {tx}

RemoveBatch(mempool, txs) == mempool \ Range(txs)

\* Deliberately wrong variants, used by mutation runs.
ReceiveBlockApplyingAlways(node, b) ==
  LET applied == [node EXCEPT !.accounts = Apply(@, b.transactions)]
  IN IF CanAdd(node.blocks, b)
     THEN [AddBlock(applied, b) EXCEPT !.mempool = RemoveBatch(@, b.transactions)]
     ELSE applied

ReceiveBlockRemovingAlways(node, b) ==
  LET removed == [node EXCEPT !.mempool = RemoveBatch(@, b.transactions)]
  IN IF CanAdd(node.blocks, b)
     THEN [AddBlock(removed, b) EXCEPT !.accounts = Apply(@, b.transactions)]
     ELSE removed

\* add_block, and what follows when it succeeds.
ReceiveBlock(node, b) ==
  IF CanAdd(node.blocks, b)
  THEN [AddBlock(node, b) EXCEPT !.accounts = Apply(@, b.transactions),
                                 !.mempool  = RemoveBatch(@, b.transactions)]
  ELSE node

\* Deliberately wrong variant: gives up at the first block it cannot add.
ReceiveBlocksUntilRefused(node, bs) ==
  LET after[i \in 0..Len(bs)] ==
        IF i = 0 THEN node
        ELSE IF \A j \in 1..i : CanAdd(after[j - 1].blocks, bs[j])
        THEN ReceiveBlock(after[i - 1], bs[i]) ELSE after[i - 1]
  IN after[Len(bs)]

\* Blocks that cannot be added, those the node has included, are skipped.
ReceiveBlocks(node, bs) ==
  LET after[i \in 0..Len(bs)] ==
        IF i = 0 THEN node ELSE ReceiveBlock(after[i - 1], bs[i])
  IN after[Len(bs)]

-----------------------------------------------------------------------------
(* The application's calls. *)

BroadcastExtrinsic(n, tx) ==
  /\ nodes' = [nodes EXCEPT ![n].mempool = PushPending(@, tx)]
  /\ Broadcast({Transaction(n, tx)})
  /\ UNCHANGED <<decided, sync, finalized>>

\* Any value, which need not be the hash of a block that anybody has, and any
\* number of values for a slot.
ProposeConsensusValue(n, h, v) ==
  /\ decided[n][h] = None
  /\ Broadcast({Nomination(n, h, v)})
  /\ UNCHANGED <<nodes, decided, sync, finalized>>

\* propose_block_consensus: nominates the hash; the block goes to the others,
\* not into the chain of the node that proposes it.
ProposeBlock(n, b) ==
  /\ decided[n][b.block_height] = None
  /\ Broadcast({Nomination(n, b.block_height, hash_data[b]), Proposal(n, b)})
  /\ UNCHANGED <<nodes, decided, sync, finalized>>

\* Deliberately wrong variant: the block is not compared with the decision.
FinalizeConsensusBlockOfSlot(n, b) ==
  /\ decided[n][b.block_height] # None
  /\ CanAdd(nodes[n].blocks, b)
  /\ nodes' = [nodes EXCEPT ![n] = AddBlock(@, b)]
  /\ finalized' = [finalized EXCEPT ![n] = @ \cup {b.block_height}]
  /\ UNCHANGED <<decided, msgs, sync>>

\* Appends the block, and leaves the accounts and the mempool as they are.
FinalizeConsensusBlock(n, b) ==
  /\ decided[n][b.block_height] = hash_data[b]
  /\ CanAdd(nodes[n].blocks, b)
  /\ nodes' = [nodes EXCEPT ![n] = AddBlock(@, b)]
  /\ finalized' = [finalized EXCEPT ![n] = @ \cup {b.block_height}]
  /\ UNCHANGED <<decided, msgs, sync>>

\* By the application, or by the event loop when a peer connects.
RequestChainSync(n, p) ==
  /\ n # p
  /\ Underway < MaxUnderway
  /\ sync' = Queued(sync, p, <<[type |-> "RequestChainSync", source |-> n,
                                current_height |-> Len(nodes[n].blocks)]>>)
  /\ UNCHANGED <<nodes, decided, msgs, finalized>>

-----------------------------------------------------------------------------
(* The event loop. *)

HandleTransaction(n, m) ==
  /\ m.type = "BroadcastTransaction" /\ m.from # n
  /\ m.tx \notin nodes[n].mempool
  /\ VerifySignature(m.tx)
  /\ nodes' = [nodes EXCEPT ![n].mempool = PushPending(@, m.tx)]
  /\ UNCHANGED <<decided, msgs, sync, finalized>>

\* Whether the slot is decided, and for which block, is not asked.
HandleProposedBlock(n, m) ==
  /\ m.type = "ProposeBlock" /\ m.from # n
  /\ nodes' = [nodes EXCEPT ![n] = ReceiveBlock(@, m.block)]
  /\ UNCHANGED <<decided, msgs, sync, finalized>>

\* check_state_transitions externalizes v in slot h, on a message or on the
\* node's own nomination.  The guard is that of SlotDecision.
Decide(n, h, v) ==
  /\ decided[n][h] = None
  /\ Nominators(h, v) \in Slices
  /\ decided' = [decided EXCEPT ![n][h] = v]
  /\ UNCHANGED <<nodes, msgs, sync, finalized>>

\* The blocks past the height asked for, if there are any.
Replies(n, m) ==
  LET blocks == nodes[n].blocks
  IN IF m.current_height < Len(blocks)
     THEN <<[type |-> "ResponseChainSync", source |-> n,
             blocks |-> SubSeq(blocks, m.current_height + 1, Len(blocks))]>>
     ELSE <<>>

HandleRequest(n, i) ==
  LET m == sync[n][i]
  IN /\ m.type = "RequestChainSync"
     /\ sync' = Queued(Taken(n, i), m.source, Replies(n, m))
     /\ UNCHANGED <<nodes, decided, msgs, finalized>>

HandleResponse(n, i) ==
  LET m == sync[n][i]
  IN /\ m.type = "ResponseChainSync"
     /\ sync' = Taken(n, i)
     /\ nodes' = [nodes EXCEPT ![n] = ReceiveBlocks(@, m.blocks)]
     /\ UNCHANGED <<decided, msgs, finalized>>

HandleSync(n, i) == i \in DOMAIN sync[n] /\ (HandleRequest(n, i) \/ HandleResponse(n, i))

Next ==
  \/ \E n \in Node : \E tx \in Submitted[n] : BroadcastExtrinsic(n, tx)
  \/ \E n \in Node : \E p \in Nominated[n] : ProposeConsensusValue(n, p[1], p[2])
  \/ \E n \in Node : \E b \in Offered[n] : ProposeBlock(n, b)
  \/ \E n \in Node, b \in Block : FinalizeConsensusBlock(n, b)
  \/ \E n, p \in Node : RequestChainSync(n, p)
  \/ \E n \in Node, m \in msgs : HandleTransaction(n, m) \/ HandleProposedBlock(n, m)
  \/ \E n \in Node, h \in Height, v \in Hash : Decide(n, h, v)
  \/ \E n \in Node : \E i \in DOMAIN sync[n] : HandleSync(n, i)

Spec == Init /\ [][Next]_vars

(***************************************************************************)
(* Fairness: a sync message that was sent is handled in the end, however   *)
(* many come before it.  The event queue is unbounded, start_p2p_loop goes *)
(* on after an error, handlers wait for no other node, and the transport   *)
(* is taken to deliver.  Nothing else is under fairness.                   *)
(***************************************************************************)
LiveSpec == Spec /\ \A n \in Node : WF_vars(HandleSync(n, 1))

-----------------------------------------------------------------------------
HashAt(n, i) == hash_data[nodes[n].blocks[i]]

ChainOf(n) == HashesOf(nodes[n].blocks)

(***************************************************************************)
(* Type invariant.                                                         *)
(***************************************************************************)
TypeOK ==
  /\ nodes \in [Node -> [blocks : Seq(Block), current_slot : Nat,
                         accounts : LedgerStates, mempool : SUBSET Tx]]
  /\ decided \in [Node -> [Height -> Hash \cup {None}]]
  /\ msgs \in SUBSET Gossip
  /\ sync \in [Node -> Seq(SyncMessage)]
  /\ finalized \in [Node -> SUBSET Height]

(***************************************************************************)
(* Whatever is proposed, synced or finalized, in whatever order, a chain   *)
(* passes the ledger's own checks of heights and hashes, and consensus is  *)
(* at the slot of the next block.                                          *)
(***************************************************************************)
ChainsAreValid ==
  \A n \in Node :
    LET node == nodes[n]
    IN /\ node.blocks # <<>>
       /\ IsLedgerHeightValid(node.blocks)
       /\ IsLedgerHashChainValid(node.blocks)
       /\ node.current_slot = Len(node.blocks)

(***************************************************************************)
(* Chains are one chain up to where they part, and never meet again: if a  *)
(* block of one has the hash of a block of another, they are at the same   *)
(* place and so are all the blocks before.                                 *)
(***************************************************************************)
CommonHistory ==
  \A n, p \in Node : \A i \in DOMAIN nodes[n].blocks, j \in DOMAIN nodes[p].blocks :
    HashAt(n, i) = HashAt(p, j) => i = j /\ \A k \in 1..i : HashAt(n, k) = HashAt(p, k)

(***************************************************************************)
(* The accounts are what one gets by running the blocks of the chain, each *)
(* once, in order, a failing one up to its failure; except for the blocks  *)
(* that the application appended by finalize_consensus_block, which does   *)
(* not run them.  So how a block arrived makes no difference.              *)
(***************************************************************************)
AccountsFollowChain ==
  \A n \in Node :
    nodes[n].accounts =
      FoldLeft(LAMBDA accounts, b :
                 IF b.block_height \in finalized[n] THEN accounts
                 ELSE Apply(accounts, b.transactions),
               NewLedgerState, Tail(nodes[n].blocks))

SlicesIntersect == \A V, W \in Slices : V \cap W # {}

Rivals(l, m) == l.slot = m.slot /\ l.value # m.value

\* By propose_consensus_value or with a block.
EachNominatesOnce == \A l, m \in Nominations : l.from = m.from => ~Rivals(l, m)

(***************************************************************************)
(* Finality: where two applications finalized a block of the same height,  *)
(* the two chains are the same up to that block, if slices intersect and   *)
(* no node nominates two values for one height, be it with a block or      *)
(* without.                                                                *)
(***************************************************************************)
FinalizedHistoryAgrees ==
  SlicesIntersect /\ EachNominatesOnce =>
    \A n, p \in Node : \A h \in finalized[n] \cap finalized[p] : \A i \in 1..(h + 1) :
      HashAt(n, i) = HashAt(p, i)

NoRivals == \A l, m \in Nominations : ~Rivals(l, m)

(***************************************************************************)
(* As long as no two values are nominated for one height by anyone, all    *)
(* the nodes created with the same genesis have one chain, some more of it *)
(* than others, whether a block was proposed, synced, or only nominated    *)
(* and then finalized.                                                     *)
(***************************************************************************)
OneChainWithoutRivals ==
  NoRivals =>
    \A n, p \in Node : Genesis[n] = Genesis[p] =>
      \/ IsPrefix(ChainOf(n), ChainOf(p))
      \/ IsPrefix(ChainOf(p), ChainOf(n))

(***************************************************************************)
(* "Proposes a block through consensus": a chain does not contradict what  *)
(* its own node decided, given that slices intersect and each node         *)
(* nominates one value for a height.  It does: the handler of a proposed   *)
(* block appends the first that fits.                                      *)
(***************************************************************************)
ChainFollowsConsensus ==
  SlicesIntersect /\ EachNominatesOnce =>
    \A n \in Node, h \in Height :
      decided[n][h] # None /\ h < Len(nodes[n].blocks) => HashAt(n, h + 1) = decided[n][h]

(***************************************************************************)
(* A pending extrinsic is not lost: it leaves a mempool only in a step     *)
(* that appends a block it is in, not with a block that was refused.       *)
(***************************************************************************)
PendingIsKept ==
  [][\A n \in Node : \A tx \in nodes[n].mempool \ nodes'[n].mempool :
       \E i \in DOMAIN nodes'[n].blocks :
         /\ i \notin DOMAIN nodes[n].blocks
         /\ tx \in Range(nodes'[n].blocks[i].transactions)]_vars

(***************************************************************************)
(* Seen from outside, nodes walk down one tree of hashes.                  *)
(***************************************************************************)
Parent ==
  [v \in Hash |-> IF \E b \in Block : hash_data[b] = v
                 THEN (CHOOSE b \in Block : hash_data[b] = v).previous_hash ELSE NoHash]

Tree == INSTANCE BlockTree WITH
  Root <- [n \in Node |-> hash_data[Genesis[n]]], path <- [n \in Node |-> ChainOf(n)]

ImplementsBlockTree == Tree!Spec

-----------------------------------------------------------------------------
Diverged(n, p) ==
  \E i \in DOMAIN nodes[n].blocks \cap DOMAIN nodes[p].blocks : HashAt(n, i) # HashAt(p, i)

Has(n, b) == hash_data[b] \in Range(ChainOf(n))

Requested(n, p) ==
  \E i \in DOMAIN sync[p] : sync[p][i].type = "RequestChainSync" /\ sync[p][i].source = n

(***************************************************************************)
(* A node that asked a peer for its chain ends up with every block that    *)
(* the peer has by then, whatever it receives from others in between,      *)
(* unless their chains have parted.                                        *)
(***************************************************************************)
SyncCatchesUp ==
  \A n, p \in Node, b \in Block :
    Requested(n, p) /\ Has(p, b) ~> Has(n, b) \/ Diverged(n, p)
=============================================================================
