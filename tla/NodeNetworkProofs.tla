-------------------------- MODULE NodeNetworkProofs --------------------------
(***************************************************************************)
(* Theorems about NodeNetwork, for any nodes, blocks, extrinsics, scripts, *)
(* slices and bound on sync messages.                                      *)
(***************************************************************************)
EXTENDS NodeNetwork, LedgerStateProofs

NodeStates ==
  [blocks : Seq(Block), current_slot : Nat, accounts : LedgerStates, mempool : SUBSET Tx]

-----------------------------------------------------------------------------
(* Blocks. *)

\* The fields of a block, as the handlers want them.
LEMMA BlockType ==
  ASSUME NEW b \in Block
  PROVE  /\ b.transactions \in Seq(Tx)
         /\ b.previous_hash \in Hash \cup {NoHash}
         /\ b.block_height \in Nat
         /\ hash_data[b] \in Hash
         /\ hash_data[b] # None /\ hash_data[b] # NoHash
  BY BlockAssumption, HashAssumption

\* Blocks of one hash have one height and follow one block.
LEMMA HashDetermines ==
  ASSUME NEW b \in Block, NEW c \in Block, hash_data[b] = hash_data[c]
  PROVE  b.block_height = c.block_height /\ b.previous_hash = c.previous_hash
  BY HashAssumption

-----------------------------------------------------------------------------
(* What the handlers do to a node. *)

\* push_extrinsics with its error dropped.
LEMMA ApplyType ==
  ASSUME NEW l \in LedgerStates, NEW txs \in Seq(Tx)
  PROVE  Apply(l, txs) \in LedgerStates
<1>1. PushExtrinsics(l, txs) \in LedgerStates
  BY PushExtrinsicsType
<1>2. QED
  BY <1>1 DEF Apply, LedgerStates

\* add_block appends the block and moves the slot on, and nothing else.
LEMMA AddBlockType ==
  ASSUME NEW node \in NodeStates, NEW b \in Block
  PROVE  /\ AddBlock(node, b) \in NodeStates
         /\ AddBlock(node, b).blocks = Append(node.blocks, b)
         /\ AddBlock(node, b).current_slot = b.block_height + 1
         /\ AddBlock(node, b).accounts = node.accounts
         /\ AddBlock(node, b).mempool = node.mempool
<1>1. node.blocks \in Seq(Block) /\ Append(node.blocks, b) \in Seq(Block)
  BY DEF NodeStates
<1>2. b.block_height + 1 \in Nat
  BY BlockType
<1> DEFINE c == Append(node.blocks, b)
<1>3. AddBlock(node, b) = [[node EXCEPT !.blocks = c] EXCEPT !.current_slot = b.block_height + 1]
  BY DEF AddBlock, StartSlot
<1> HIDE DEF c
<1>4. QED
  BY <1>1, <1>2, <1>3 DEF NodeStates, c

\* A block that is received is refused without a trace, or appended.
LEMMA ReceiveBlockType ==
  ASSUME NEW node \in NodeStates, NEW b \in Block
  PROVE  /\ ReceiveBlock(node, b) \in NodeStates
         /\ ~CanAdd(node.blocks, b) => ReceiveBlock(node, b) = node
         /\ CanAdd(node.blocks, b) =>
              /\ ReceiveBlock(node, b).blocks = Append(node.blocks, b)
              /\ ReceiveBlock(node, b).current_slot = b.block_height + 1
              /\ ReceiveBlock(node, b).accounts = Apply(node.accounts, b.transactions)
              /\ ReceiveBlock(node, b).mempool = node.mempool \ Range(b.transactions)
<1> DEFINE added == AddBlock(node, b)
           accounts == Apply(added.accounts, b.transactions)
           mempool == RemoveBatch(added.mempool, b.transactions)
<1>1. added \in NodeStates /\ added.accounts \in LedgerStates /\ added.mempool \in SUBSET Tx
  BY AddBlockType DEF NodeStates
<1>2. accounts \in LedgerStates /\ mempool \in SUBSET Tx
  BY <1>1, ApplyType, BlockType DEF RemoveBatch
<1>3. CanAdd(node.blocks, b) =>
        ReceiveBlock(node, b) = [added EXCEPT !.accounts = accounts, !.mempool = mempool]
  BY DEF ReceiveBlock
<1>4. ~CanAdd(node.blocks, b) => ReceiveBlock(node, b) = node
  BY DEF ReceiveBlock
<1>5. accounts = Apply(node.accounts, b.transactions) /\ mempool = node.mempool \ Range(b.transactions)
  BY AddBlockType DEF RemoveBatch
<1>6. added.blocks = Append(node.blocks, b) /\ added.current_slot = b.block_height + 1
  BY AddBlockType
<1> HIDE DEF added, accounts, mempool
<1>7. [added EXCEPT !.accounts = accounts, !.mempool = mempool] \in NodeStates
  BY <1>1, <1>2 DEF NodeStates
<1>8. QED
  BY <1>1, <1>3, <1>4, <1>5, <1>6, <1>7 DEF NodeStates

ReceiveSteps(bs) == [i \in 1..Len(bs) |-> [node \in NodeStates |-> ReceiveBlock(node, bs[i])]]

\* The handler of a sync response yields the last of the nodes after each block.
LEMMA ReceiveBlocksSteps ==
  ASSUME NEW node \in NodeStates, NEW bs \in Seq(Block)
  PROVE  \E h : /\ AreSteps(h, NodeStates, Len(bs), ReceiveSteps(bs), node)
                /\ ReceiveBlocks(node, bs) = h[Len(bs)]
                /\ \A i \in 1..Len(bs) : h[i] = ReceiveBlock(h[i - 1], bs[i])
<1> DEFINE n == Len(bs)
           step == ReceiveSteps(bs)
           Is(f) == f = [i \in 0..n |-> IF i = 0 THEN node ELSE ReceiveBlock(f[i - 1], bs[i])]
           f == CHOOSE g : Is(g)
<1>1. n \in Nat /\ \A i \in 1..n : bs[i] \in Block
  OBVIOUS
<1>2. step \in [1..n -> [NodeStates -> NodeStates]]
  BY <1>1, ReceiveBlockType DEF ReceiveSteps
<1>3. ASSUME NEW i \in 1..n, NEW a \in NodeStates
      PROVE  step[i][a] = ReceiveBlock(a, bs[i])
  BY DEF ReceiveSteps
<1>4. ReceiveBlocks(node, bs) = f[n]
  BY Zenon DEF ReceiveBlocks
<1> HIDE DEF step, n
<1>5. PICK h : AreSteps(h, NodeStates, n, step, node)
  BY <1>1, <1>2, StepsCanBeTaken
<1>6. Is(h)
  <2>1. \A i \in 1..n : h[i] = ReceiveBlock(h[i - 1], bs[i])
    BY <1>1, <1>3, <1>5 DEF AreSteps
  <2>2. h[0] = node /\ h \in [0..n -> NodeStates]
    BY <1>5 DEF AreSteps
  <2>3. \A i \in 0..n : i # 0 => i \in 1..n
    OBVIOUS
  <2>4. QED
    BY <2>1, <2>2, <2>3
<1>7. Is(f)
  BY <1>6
<1> HIDE DEF f
<1>8. f[0] = node /\ DOMAIN f = 0..n /\ \A i \in 1..n : f[i] = ReceiveBlock(f[i - 1], bs[i])
  BY <1>1, <1>7
<1> DEFINE T == {k \in 0..n : f[k] \in NodeStates}
<1>9. 0 \in T
  BY <1>1, <1>8
<1>10. ASSUME NEW k \in 1..n, k - 1 \in T
       PROVE  k \in T
  <2>1. f[k - 1] \in NodeStates /\ f[k] = ReceiveBlock(f[k - 1], bs[k])
    BY <1>8, <1>10
  <2>2. ReceiveBlock(f[k - 1], bs[k]) \in NodeStates
    BY <1>1, <2>1, ReceiveBlockType
  <2>3. QED
    BY <1>1, <2>1, <2>2
<1>11. \A k \in 1..n : k - 1 \in T => k \in T
  BY <1>10
<1> HIDE DEF T
<1>12. 0..n \subseteq T
  BY <1>1, <1>9, <1>11, InductiveInterval
<1>13. \A k \in 0..n : f[k] \in NodeStates
  BY <1>12 DEF T
<1>14. f \in [0..n -> NodeStates]
  BY <1>7, <1>13
<1>15. \A i \in 1..n : f[i] = step[i][f[i - 1]]
  BY <1>1, <1>3, <1>8, <1>13
<1>16. AreSteps(f, NodeStates, n, step, node)
  BY <1>8, <1>14, <1>15 DEF AreSteps
<1>17. QED
  BY <1>4, <1>8, <1>16 DEF n, step

\* So is a response of any length.
LEMMA ReceiveBlocksType ==
  ASSUME NEW node \in NodeStates, NEW bs \in Seq(Block)
  PROVE  ReceiveBlocks(node, bs) \in NodeStates
<1>1. Len(bs) \in Nat
  OBVIOUS
<1>2. QED
  BY <1>1, ReceiveBlocksSteps DEF AreSteps

\* A proposed block is handled as a sync response of one block would be.
LEMMA ReceiveOne ==
  ASSUME NEW node \in NodeStates, NEW b \in Block
  PROVE  ReceiveBlocks(node, <<b>>) = ReceiveBlock(node, b)
<1> DEFINE one == <<b>>
<1>1. one \in Seq(Block) /\ Len(one) = 1 /\ one[1] = b
  OBVIOUS
<1> HIDE DEF one
<1>2. PICK h : /\ AreSteps(h, NodeStates, Len(one), ReceiveSteps(one), node)
               /\ ReceiveBlocks(node, one) = h[Len(one)]
               /\ \A i \in 1..Len(one) : h[i] = ReceiveBlock(h[i - 1], one[i])
  BY <1>1, ReceiveBlocksSteps
<1>3. h[0] = node
  BY <1>2 DEF AreSteps
<1>4. h[1] = ReceiveBlock(h[0], one[1])
  BY <1>1, <1>2
<1>5. QED
  BY <1>1, <1>2, <1>3, <1>4 DEF one

-----------------------------------------------------------------------------
(***************************************************************************)
(* What a step does to the nodes.  At most one changes, in one of three    *)
(* ways: its chain and accounts stay and its mempool loses nothing; its    *)
(* application appends a block; or it receives blocks, of a proposal or of *)
(* a sync response.                                                        *)
(***************************************************************************)
Keeps(n) ==
  /\ nodes'[n] \in NodeStates
  /\ nodes'[n].blocks = nodes[n].blocks
  /\ nodes'[n].current_slot = nodes[n].current_slot
  /\ nodes'[n].accounts = nodes[n].accounts
  /\ nodes[n].mempool \subseteq nodes'[n].mempool
  /\ finalized'[n] = finalized[n]

Finalizes(n, b) ==
  /\ CanAdd(nodes[n].blocks, b)
  /\ decided[n][b.block_height] = hash_data[b]
  /\ nodes'[n] = AddBlock(nodes[n], b)
  /\ finalized'[n] = finalized[n] \cup {b.block_height}

\* A genesis block needs no nomination, any other was nominated by someone.
Backed(b) == b.block_height = 0 \/ Nominators(b.block_height, hash_data[b]) # {}

Receives(n, bs) ==
  /\ \A i \in DOMAIN bs : Backed(bs[i])
  /\ nodes'[n] = ReceiveBlocks(nodes[n], bs)
  /\ finalized'[n] = finalized[n]

Changes(n) ==
  \/ Keeps(n)
  \/ \E b \in Block : Finalizes(n, b)
  \/ \E bs \in Seq(Block) : Receives(n, bs)

OnlyChanges(n) ==
  /\ nodes' = [nodes EXCEPT ![n] = nodes'[n]]
  /\ finalized' = [finalized EXCEPT ![n] = finalized'[n]]

\* What is under way in a sync response was in a chain.
SyncBacked ==
  \A n \in Node : \A i \in DOMAIN sync[n] :
    sync[n][i].type = "ResponseChainSync" =>
      \A j \in DOMAIN sync[n][i].blocks : Backed(sync[n][i].blocks[j])

\* Whoever proposes a block nominates it.
ProposalsBacked == \A m \in msgs : m.type = "ProposeBlock" => Backed(m.block)

\* The type of one node, of one sync message.
LEMMA StateTypes ==
  ASSUME TypeOK, NEW n \in Node
  PROVE  /\ nodes[n] \in NodeStates
         /\ nodes[n].blocks \in Seq(Block)
         /\ nodes[n].mempool \in SUBSET Tx
         /\ finalized[n] \in SUBSET Height
         /\ decided[n] \in [Height -> Hash \cup {None}]
         /\ sync[n] \in Seq(SyncMessage)
         /\ \A i \in DOMAIN sync[n] :
              /\ sync[n][i] \in SyncMessage
              /\ sync[n][i].source \in Node
              /\ sync[n][i].type = "RequestChainSync" => sync[n][i].current_height \in Nat
              /\ sync[n][i].type = "ResponseChainSync" => sync[n][i].blocks \in Seq(Block)
<1>1. /\ nodes[n] \in NodeStates
      /\ finalized[n] \in SUBSET Height
      /\ decided[n] \in [Height -> Hash \cup {None}]
      /\ sync[n] \in Seq(SyncMessage)
  BY DEF TypeOK, NodeStates
<1>2. nodes[n].blocks \in Seq(Block) /\ nodes[n].mempool \in SUBSET Tx
  BY <1>1 DEF NodeStates
<1>3. \A i \in DOMAIN sync[n] : sync[n][i] \in SyncMessage
  BY <1>1
<1>4. \A m \in SyncMessage :
        /\ m.source \in Node
        /\ m.type = "RequestChainSync" => m.current_height \in Nat
        /\ m.type = "ResponseChainSync" => m.blocks \in Seq(Block)
  BY DEF SyncMessage
<1>5. QED
  BY <1>1, <1>2, <1>3, <1>4

\* Every message has a sender, and what its type says.
LEMMA GossipType ==
  ASSUME TypeOK, NEW m \in msgs
  PROVE  /\ m.from \in Node
         /\ m.type = "BroadcastTransaction" => m.tx \in Tx
         /\ m.type = "ProposeBlock" => m.block \in Block
<1>1. m \in Gossip
  BY DEF TypeOK
<1>2. QED
  BY <1>1 DEF Gossip

\* Every step changes at most one node's chain, by receiving or finalizing.
LEMMA NextChanges ==
  ASSUME TypeOK, SyncBacked, ProposalsBacked, [Next]_vars
  PROVE  \/ UNCHANGED <<nodes, finalized>>
         \/ \E n \in Node : Changes(n) /\ OnlyChanges(n)
<1>1. ASSUME NEW n \in Node, NEW tx \in Submitted[n], BroadcastExtrinsic(n, tx)
      PROVE  Changes(n) /\ OnlyChanges(n)
  <2>1. tx \in Tx
    BY NodeAssumption
  <2> DEFINE node == [nodes[n] EXCEPT !.mempool = nodes[n].mempool \cup {tx}]
  <2>2. nodes' = [nodes EXCEPT ![n] = node] /\ finalized' = finalized
    BY <1>1 DEF BroadcastExtrinsic, PushPending
  <2>3. nodes[n] \in NodeStates
    BY StateTypes
  <2>4. /\ node.blocks = nodes[n].blocks
        /\ node.current_slot = nodes[n].current_slot
        /\ node.accounts = nodes[n].accounts
        /\ node.mempool = nodes[n].mempool \cup {tx}
        /\ node \in NodeStates
    BY <2>1, <2>3 DEF NodeStates
  <2> HIDE DEF node
  <2>5. nodes'[n] = node /\ OnlyChanges(n)
    BY <2>2 DEF TypeOK, OnlyChanges
  <2>6. Keeps(n)
    BY <2>2, <2>4, <2>5 DEF Keeps
  <2>7. QED
    BY <2>5, <2>6 DEF Changes
<1>2. ASSUME NEW n \in Node, NEW m \in msgs, HandleTransaction(n, m)
      PROVE  Changes(n) /\ OnlyChanges(n)
  <2>1. m.tx \in Tx
    BY <1>2, GossipType DEF HandleTransaction
  <2> DEFINE node == [nodes[n] EXCEPT !.mempool = nodes[n].mempool \cup {m.tx}]
  <2>2. nodes' = [nodes EXCEPT ![n] = node] /\ finalized' = finalized
    BY <1>2 DEF HandleTransaction, PushPending
  <2>3. nodes[n] \in NodeStates
    BY StateTypes
  <2>4. /\ node.blocks = nodes[n].blocks
        /\ node.current_slot = nodes[n].current_slot
        /\ node.accounts = nodes[n].accounts
        /\ node.mempool = nodes[n].mempool \cup {m.tx}
        /\ node \in NodeStates
    BY <2>1, <2>3 DEF NodeStates
  <2> HIDE DEF node
  <2>5. nodes'[n] = node /\ OnlyChanges(n)
    BY <2>2 DEF TypeOK, OnlyChanges
  <2>6. Keeps(n)
    BY <2>2, <2>4, <2>5 DEF Keeps
  <2>7. QED
    BY <2>5, <2>6 DEF Changes
<1>3. ASSUME NEW n \in Node, NEW b \in Block, FinalizeConsensusBlock(n, b)
      PROVE  Changes(n) /\ OnlyChanges(n)
  <2>1. /\ nodes' = [nodes EXCEPT ![n] = AddBlock(nodes[n], b)]
        /\ finalized' = [finalized EXCEPT ![n] = finalized[n] \cup {b.block_height}]
        /\ CanAdd(nodes[n].blocks, b)
        /\ decided[n][b.block_height] = hash_data[b]
    BY <1>3 DEF FinalizeConsensusBlock
  <2>2. Finalizes(n, b) /\ OnlyChanges(n)
    BY <2>1 DEF TypeOK, Finalizes, OnlyChanges
  <2>3. QED
    BY <2>2 DEF Changes
<1>4. ASSUME NEW n \in Node, NEW m \in msgs, HandleProposedBlock(n, m)
      PROVE  Changes(n) /\ OnlyChanges(n)
  <2>1. /\ m.type = "ProposeBlock"
        /\ nodes' = [nodes EXCEPT ![n] = ReceiveBlock(nodes[n], m.block)]
        /\ finalized' = finalized
    BY <1>4 DEF HandleProposedBlock
  <2>2. m.block \in Block /\ Backed(m.block)
    BY <2>1, GossipType DEF ProposalsBacked
  <2>3. ReceiveBlock(nodes[n], m.block) = ReceiveBlocks(nodes[n], <<m.block>>)
    BY <2>2, StateTypes, ReceiveOne
  <2>4. nodes'[n] = ReceiveBlock(nodes[n], m.block) /\ OnlyChanges(n)
    BY <2>1 DEF TypeOK, OnlyChanges
  <2>5. <<m.block>> \in Seq(Block) /\ \A i \in DOMAIN <<m.block>> : Backed(<<m.block>>[i])
    BY <2>2
  <2>6. Receives(n, <<m.block>>)
    BY <2>1, <2>3, <2>4, <2>5 DEF Receives
  <2>7. QED
    BY <2>4, <2>5, <2>6 DEF Changes
<1>5. ASSUME NEW n \in Node, NEW i \in DOMAIN sync[n], HandleResponse(n, i)
      PROVE  Changes(n) /\ OnlyChanges(n)
  <2> DEFINE bs == sync[n][i].blocks
  <2>1. /\ sync[n][i].type = "ResponseChainSync"
        /\ nodes' = [nodes EXCEPT ![n] = ReceiveBlocks(nodes[n], bs)]
        /\ finalized' = finalized
    BY <1>5 DEF HandleResponse
  <2>2. bs \in Seq(Block) /\ \A j \in DOMAIN bs : Backed(bs[j])
    BY <2>1, StateTypes DEF SyncBacked
  <2>3. Receives(n, bs) /\ OnlyChanges(n)
    BY <2>1, <2>2 DEF TypeOK, Receives, OnlyChanges
  <2>4. QED
    BY <2>2, <2>3 DEF Changes
<1>6. ASSUME NEW n \in Node, NEW i \in DOMAIN sync[n], HandleRequest(n, i)
      PROVE  UNCHANGED <<nodes, finalized>>
  BY <1>6 DEF HandleRequest
<1>7. ASSUME NEW n \in Node, NEW b \in Offered[n], ProposeBlock(n, b)
      PROVE  UNCHANGED <<nodes, finalized>>
  BY <1>7 DEF ProposeBlock
<1>8. ASSUME NEW n \in Node, NEW p \in Node, RequestChainSync(n, p)
      PROVE  UNCHANGED <<nodes, finalized>>
  BY <1>8 DEF RequestChainSync
<1>9. ASSUME NEW n \in Node, NEW h \in Height, NEW v \in Hash, Decide(n, h, v)
      PROVE  UNCHANGED <<nodes, finalized>>
  BY <1>9 DEF Decide
<1>10. ASSUME NEW n \in Node, NEW h, NEW v, ProposeConsensusValue(n, h, v)
       PROVE  UNCHANGED <<nodes, finalized>>
  BY <1>10 DEF ProposeConsensusValue
<1>11. CASE UNCHANGED vars
  BY <1>11 DEF vars
<1>12. QED
  BY <1>1, <1>2, <1>3, <1>4, <1>5, <1>6, <1>7, <1>8, <1>9, <1>10, <1>11 DEF Next, HandleSync

-----------------------------------------------------------------------------
(* Chains. *)

ValidChain(node) ==
  /\ node.blocks # <<>>
  /\ IsLedgerHeightValid(node.blocks)
  /\ IsLedgerHashChainValid(node.blocks)
  /\ node.current_slot = Len(node.blocks)

Extends(s, t) == Len(s) <= Len(t) /\ \A i \in 1..Len(s) : t[i] = s[i]

\* node2 has the chain of node and blocks of bs after it, and has taken out of
\* the mempool nothing but what is in those.
Grown(node, node2, bs) ==
  /\ Extends(node.blocks, node2.blocks)
  /\ \A i \in DOMAIN node2.blocks \ DOMAIN node.blocks :
       \E j \in DOMAIN bs : node2.blocks[i] = bs[j]
  /\ \A tx \in node.mempool \ node2.mempool :
       \E i \in DOMAIN node2.blocks \ DOMAIN node.blocks :
         tx \in Range(node2.blocks[i].transactions)

\* A block that add_block accepts continues the chain, at the height that is
\* the length of the chain.
LEMMA AddBlockValid ==
  ASSUME NEW node \in NodeStates, NEW b \in Block, CanAdd(node.blocks, b), ValidChain(node),
         NEW node2 \in NodeStates,
         node2.blocks = Append(node.blocks, b), node2.current_slot = b.block_height + 1
  PROVE  ValidChain(node2) /\ b.block_height = Len(node.blocks)
<1> DEFINE s == node.blocks
           n == Len(s)
           t == Append(s, b)
<1>1. s \in Seq(Block) /\ n \in Nat /\ s # <<>>
  BY DEF NodeStates, ValidChain
<1>2. n > 0 /\ n \in DOMAIN s /\ DOMAIN s = 1..n
  BY <1>1
<1>3. Last(s) = s[n]
  BY <1>1 DEF Last
<1>4. s[n].block_height = n - 1
  BY <1>2 DEF ValidChain, IsLedgerHeightValid
<1>5. b.block_height = n /\ b.previous_hash = hash_data[s[n]]
  BY <1>1, <1>2, <1>3, <1>4 DEF CanAdd, IsBlockHeightValid, IsPreviousHashValid
<1>6. /\ t \in Seq(Block) /\ Len(t) = n + 1 /\ DOMAIN t = 1..(n + 1) /\ t # <<>>
      /\ t[n + 1] = b /\ \A i \in 1..n : t[i] = s[i]
  <2>1. t \in Seq(Block) /\ Len(t) = n + 1 /\ t[n + 1] = b
    BY <1>1
  <2>2. \A i \in 1..n : t[i] = s[i]
    BY <1>1
  <2> HIDE DEF t, n
  <2>3. DOMAIN t = 1..(n + 1) /\ t # <<>>
    BY <1>1, <2>1
  <2>4. QED
    BY <2>1, <2>2, <2>3
<1> HIDE DEF t, n
<1>7. IsLedgerHeightValid(t)
  <2> SUFFICES ASSUME NEW i \in 1..(n + 1) PROVE t[i].block_height = i - 1
    BY <1>6 DEF IsLedgerHeightValid
  <2>1. CASE i = n + 1
    BY <1>1, <1>5, <1>6, <2>1
  <2>2. CASE i # n + 1
    <3>1. i \in 1..n
      BY <1>1, <2>2
    <3>2. QED
      BY <1>2, <1>6, <3>1 DEF ValidChain, IsLedgerHeightValid
  <2>3. QED
    BY <2>1, <2>2
<1>8. IsLedgerHashChainValid(t)
  <2> SUFFICES ASSUME NEW i \in 1..(n + 1)
               PROVE  t[i].previous_hash = IF i = 1 THEN NoHash ELSE hash_data[t[i - 1]]
    BY <1>6 DEF IsLedgerHashChainValid
  <2>1. CASE i = n + 1
    <3>1. i # 1 /\ i - 1 = n /\ n \in 1..n
      BY <1>1, <1>2, <2>1
    <3>2. QED
      BY <1>5, <1>6, <2>1, <3>1
  <2>2. CASE i # n + 1
    <3>1. i \in 1..n /\ (i # 1 => i - 1 \in 1..n)
      BY <1>1, <2>2
    <3>2. s[i].previous_hash = IF i = 1 THEN NoHash ELSE hash_data[s[i - 1]]
      BY <1>2, <3>1 DEF ValidChain, IsLedgerHashChainValid
    <3>3. QED
      BY <1>6, <3>1, <3>2
  <2>3. QED
    BY <2>1, <2>2
<1>9. QED
  BY <1>5, <1>6, <1>7, <1>8 DEF ValidChain, t, n

\* One block received: the chain stays valid and grows by that block or not.
LEMMA ReceiveBlockGrows ==
  ASSUME NEW node \in NodeStates, NEW bs \in Seq(Block), NEW j \in DOMAIN bs
  PROVE  /\ Grown(node, ReceiveBlock(node, bs[j]), bs)
         /\ ValidChain(node) => ValidChain(ReceiveBlock(node, bs[j]))
<1> DEFINE b == bs[j]
           node2 == ReceiveBlock(node, b)
           n == Len(node.blocks)
<1>1. b \in Block /\ node.blocks \in Seq(Block) /\ n \in Nat /\ DOMAIN node.blocks = 1..n
  BY DEF NodeStates
<1>2. CASE ~CanAdd(node.blocks, b)
  <2>1. node2 = node
    BY <1>1, <1>2, ReceiveBlockType
  <2>2. QED
    BY <1>1, <2>1 DEF Grown, Extends
<1>3. CASE CanAdd(node.blocks, b)
  <2>1. /\ node2 \in NodeStates
        /\ node2.blocks = Append(node.blocks, b)
        /\ node2.current_slot = b.block_height + 1
        /\ node2.mempool = node.mempool \ Range(b.transactions)
    BY <1>1, <1>3, ReceiveBlockType
  <2>2. ValidChain(node) => ValidChain(node2)
    BY <1>1, <1>3, <2>1, AddBlockValid
  <2>3. /\ Len(node2.blocks) = n + 1 /\ DOMAIN node2.blocks = 1..(n + 1)
        /\ node2.blocks[n + 1] = b /\ \A i \in 1..n : node2.blocks[i] = node.blocks[i]
    BY <1>1, <2>1
  <2> HIDE DEF n, node2, b
  <2>4. DOMAIN node2.blocks \ DOMAIN node.blocks = {n + 1}
    BY <1>1, <2>3
  <2>5. Extends(node.blocks, node2.blocks)
    BY <1>1, <2>3 DEF Extends, n
  <2>6. \A i \in DOMAIN node2.blocks \ DOMAIN node.blocks : \E k \in DOMAIN bs : node2.blocks[i] = bs[k]
    BY <2>3, <2>4 DEF b
  <2>7. \A tx \in node.mempool \ node2.mempool :
          \E i \in DOMAIN node2.blocks \ DOMAIN node.blocks : tx \in Range(node2.blocks[i].transactions)
    BY <2>1, <2>3, <2>4
  <2>8. QED
    BY <2>2, <2>5, <2>6, <2>7 DEF Grown, node2, b
<1>4. QED
  BY <1>2, <1>3

\* Growing twice is growing.
LEMMA GrownTwice ==
  ASSUME NEW l \in NodeStates, NEW m \in NodeStates, NEW k \in NodeStates, NEW bs,
         Grown(l, m, bs), Grown(m, k, bs)
  PROVE  Grown(l, k, bs)
<1>1. /\ Len(l.blocks) \in Nat /\ DOMAIN l.blocks = 1..Len(l.blocks)
      /\ Len(m.blocks) \in Nat /\ DOMAIN m.blocks = 1..Len(m.blocks)
      /\ Len(k.blocks) \in Nat /\ DOMAIN k.blocks = 1..Len(k.blocks)
  BY DEF NodeStates
<1>2. Extends(l.blocks, m.blocks) /\ Extends(m.blocks, k.blocks)
  BY DEF Grown
<1>3. \A i \in 1..Len(l.blocks) : i \in 1..Len(m.blocks)
  BY <1>1, <1>2 DEF Extends
<1>4. Extends(l.blocks, k.blocks)
  BY <1>1, <1>2, <1>3 DEF Extends
<1>5. ASSUME NEW i \in DOMAIN k.blocks \ DOMAIN l.blocks
      PROVE  \E j \in DOMAIN bs : k.blocks[i] = bs[j]
  <2>1. CASE i \in DOMAIN m.blocks
    <3>1. k.blocks[i] = m.blocks[i] /\ i \in DOMAIN m.blocks \ DOMAIN l.blocks
      BY <1>1, <1>2, <2>1 DEF Extends
    <3>2. QED
      BY <3>1 DEF Grown
  <2>2. CASE i \notin DOMAIN m.blocks
    BY <2>2 DEF Grown
  <2>3. QED
    BY <2>1, <2>2
<1>6. ASSUME NEW tx \in l.mempool \ k.mempool
      PROVE  \E i \in DOMAIN k.blocks \ DOMAIN l.blocks : tx \in Range(k.blocks[i].transactions)
  <2>1. CASE tx \in m.mempool
    <3>1. PICK i \in DOMAIN k.blocks \ DOMAIN m.blocks : tx \in Range(k.blocks[i].transactions)
      BY <2>1 DEF Grown
    <3>2. i \in DOMAIN k.blocks \ DOMAIN l.blocks
      BY <1>1, <1>3
    <3>3. QED
      BY <3>1, <3>2
  <2>2. CASE tx \notin m.mempool
    <3>1. PICK i \in DOMAIN m.blocks \ DOMAIN l.blocks : tx \in Range(m.blocks[i].transactions)
      BY <2>2 DEF Grown
    <3>2. i \in DOMAIN k.blocks /\ k.blocks[i] = m.blocks[i]
      BY <1>1, <1>2 DEF Extends
    <3>3. QED
      BY <3>1, <3>2
  <2>3. QED
    BY <2>1, <2>2
<1>7. QED
  BY <1>4, <1>5, <1>6 DEF Grown

\* A whole sync response received.
LEMMA ReceiveBlocksGrows ==
  ASSUME NEW node \in NodeStates, NEW bs \in Seq(Block)
  PROVE  /\ Grown(node, ReceiveBlocks(node, bs), bs)
         /\ ValidChain(node) => ValidChain(ReceiveBlocks(node, bs))
<1>1. Len(bs) \in Nat /\ DOMAIN bs = 1..Len(bs)
  OBVIOUS
<1>2. PICK h : /\ AreSteps(h, NodeStates, Len(bs), ReceiveSteps(bs), node)
               /\ ReceiveBlocks(node, bs) = h[Len(bs)]
               /\ \A i \in 1..Len(bs) : h[i] = ReceiveBlock(h[i - 1], bs[i])
  BY ReceiveBlocksSteps
<1>3. h[0] = node /\ \A k \in 0..Len(bs) : h[k] \in NodeStates
  BY <1>2 DEF AreSteps
<1> DEFINE T == {k \in 0..Len(bs) : Grown(node, h[k], bs) /\ (ValidChain(node) => ValidChain(h[k]))}
<1>4. 0 \in T
  <2>1. Grown(node, node, bs)
    <3>1. Len(node.blocks) \in Nat
      BY DEF NodeStates
    <3>2. QED
      BY <3>1 DEF Grown, Extends
  <2>2. QED
    BY <1>1, <1>3, <2>1
<1>5. ASSUME NEW k \in 1..Len(bs), k - 1 \in T
      PROVE  k \in T
  <2>1. h[k - 1] \in NodeStates /\ h[k] \in NodeStates /\ h[k] = ReceiveBlock(h[k - 1], bs[k])
    BY <1>1, <1>2, <1>3
  <2>2. Grown(h[k - 1], h[k], bs) /\ (ValidChain(h[k - 1]) => ValidChain(h[k]))
    BY <1>1, <2>1, ReceiveBlockGrows
  <2>3. Grown(node, h[k], bs)
    BY <1>5, <2>1, <2>2, GrownTwice
  <2>4. QED
    BY <1>5, <2>2, <2>3
<1>6. \A k \in 1..Len(bs) : k - 1 \in T => k \in T
  BY <1>5
<1> HIDE DEF T
<1>7. 0..Len(bs) \subseteq T
  BY <1>1, <1>4, <1>6, InductiveInterval
<1>8. Len(bs) \in T
  BY <1>1, <1>7
<1>9. QED
  BY <1>2, <1>8 DEF T

-----------------------------------------------------------------------------
(* Queues. *)

\* Taking a message out of a queue leaves messages that were in it.
LEMMA RemoveAtType ==
  ASSUME NEW S, NEW q \in Seq(S), NEW i \in DOMAIN q
  PROVE  /\ RemoveAt(q, i) \in Seq(S)
         /\ \A j \in DOMAIN RemoveAt(q, i) : \E k \in DOMAIN q : RemoveAt(q, i)[j] = q[k]
<1> DEFINE n == Len(q)
           front == SubSeq(q, 1, i - 1)
           rest == SubSeq(q, i + 1, n)
<1>1. n \in Nat /\ DOMAIN q = 1..n /\ i \in 1..n
  OBVIOUS
<1>2. front \in Seq(S) /\ Len(front) = i - 1 /\ \A j \in 1..(i - 1) : front[j] = q[j]
  BY <1>1
<1>3. rest \in Seq(S) /\ Len(rest) = n - i /\ \A j \in 1..(n - i) : rest[j] = q[i + j]
  BY <1>1
<1> HIDE DEF front, rest, n
<1>4. RemoveAt(q, i) = front \o rest
  BY DEF RemoveAt, front, rest, n
<1>5. front \o rest \in Seq(S) /\ Len(front \o rest) = n - 1 /\ DOMAIN (front \o rest) = 1..(n - 1)
  <2>1. front \o rest \in Seq(S) /\ Len(front \o rest) = Len(front) + Len(rest)
    <3>1. front \in Seq(S) /\ rest \in Seq(S)
      BY <1>2, <1>3
    <3>2. QED
      BY <3>1
  <2>2. Len(front \o rest) = n - 1
    BY <1>1, <1>2, <1>3, <2>1
  <2>3. DOMAIN (front \o rest) = 1..Len(front \o rest)
    BY <2>1
  <2>4. QED
    BY <2>1, <2>2, <2>3
<1>6. ASSUME NEW j \in 1..(n - 1)
      PROVE  \E k \in DOMAIN q : (front \o rest)[j] = q[k]
  <2>1. CASE j <= i - 1
    BY <1>1, <1>2, <1>3, <2>1
  <2>2. CASE ~(j <= i - 1)
    <3>1. (front \o rest)[j] = rest[j - (i - 1)] /\ j - (i - 1) \in 1..(n - i)
      BY <1>1, <1>2, <1>3, <2>2
    <3>2. rest[j - (i - 1)] = q[i + (j - (i - 1))] /\ i + (j - (i - 1)) \in 1..n
      BY <1>1, <1>3, <3>1
    <3>3. QED
      BY <1>1, <3>1, <3>2
  <2>3. QED
    BY <2>1, <2>2
<1>7. QED
  BY <1>4, <1>5, <1>6

\* What is in a queue with new messages is in the queue or new.
LEMMA ConcatType ==
  ASSUME NEW S, NEW q \in Seq(S), NEW r \in Seq(S)
  PROVE  /\ q \o r \in Seq(S)
         /\ \A j \in DOMAIN (q \o r) : \/ \E k \in DOMAIN q : (q \o r)[j] = q[k]
                                       \/ \E k \in DOMAIN r : (q \o r)[j] = r[k]
<1>1. q \o r \in Seq(S) /\ Len(q \o r) = Len(q) + Len(r)
  OBVIOUS
<1>2. Len(q) \in Nat /\ Len(r) \in Nat /\ DOMAIN q = 1..Len(q) /\ DOMAIN r = 1..Len(r)
  OBVIOUS
<1>3. ASSUME NEW j \in 1..(Len(q) + Len(r))
      PROVE  \/ \E k \in DOMAIN q : (q \o r)[j] = q[k]
             \/ \E k \in DOMAIN r : (q \o r)[j] = r[k]
  <2>1. CASE j <= Len(q)
    BY <1>2, <2>1
  <2>2. CASE ~(j <= Len(q))
    <3>1. (q \o r)[j] = r[j - Len(q)] /\ j - Len(q) \in 1..Len(r)
      BY <1>2, <2>2
    <3>2. QED
      BY <1>2, <3>1
  <2>3. QED
    BY <2>1, <2>2
<1>4. QED
  BY <1>1, <1>2, <1>3

\* A message that a handler may send: a request, or a response with blocks of
\* the chain of a node.
FromChain(m) ==
  /\ m \in SyncMessage
  /\ m.type = "RequestChainSync" \/
     \E n \in Node : \A j \in DOMAIN m.blocks :
       \E k \in DOMAIN nodes[n].blocks : m.blocks[j] = nodes[n].blocks[k]

SyncFromChains ==
  \A p \in Node : \A i \in DOMAIN sync'[p] :
    \/ \E k \in DOMAIN sync[p] : sync'[p][i] = sync[p][k]
    \/ FromChain(sync'[p][i])

\* Putting messages into a queue.
QueuesFrom(queues, before, new) ==
  /\ queues \in [Node -> Seq(SyncMessage)]
  /\ \A n \in Node : \A i \in DOMAIN queues[n] :
       \/ \E k \in DOMAIN before[n] : queues[n][i] = before[n][k]
       \/ \E k \in DOMAIN new : queues[n][i] = new[k]

\* What is queued is what was queued before, or new.
LEMMA QueuedType ==
  ASSUME NEW queues \in [Node -> Seq(SyncMessage)], NEW p \in Node, NEW new \in Seq(SyncMessage)
  PROVE  QueuesFrom(Queued(queues, p, new), queues, new)
<1> DEFINE q == queues[p] \o new
<1>1. queues[p] \in Seq(SyncMessage)
  OBVIOUS
<1>2. /\ q \in Seq(SyncMessage)
      /\ \A j \in DOMAIN q : \/ \E k \in DOMAIN queues[p] : q[j] = queues[p][k]
                             \/ \E k \in DOMAIN new : q[j] = new[k]
  BY <1>1, ConcatType
<1>3. Queued(queues, p, new) = [queues EXCEPT ![p] = q]
  BY DEF Queued
<1> HIDE DEF q
<1>4. QED
  BY <1>2, <1>3 DEF QueuesFrom

\* What is left in the queues was there before.
LEMMA TakenType ==
  ASSUME TypeOK, NEW n \in Node, NEW i \in DOMAIN sync[n]
  PROVE  /\ Taken(n, i) \in [Node -> Seq(SyncMessage)]
         /\ \A p \in Node : \A j \in DOMAIN Taken(n, i)[p] :
              \E k \in DOMAIN sync[p] : Taken(n, i)[p][j] = sync[p][k]
<1> DEFINE q == RemoveAt(sync[n], i)
<1>1. /\ q \in Seq(SyncMessage)
      /\ \A j \in DOMAIN q : \E k \in DOMAIN sync[n] : q[j] = sync[n][k]
  BY RemoveAtType DEF TypeOK
<1>2. Taken(n, i) = [sync EXCEPT ![n] = q]
  BY DEF Taken
<1> HIDE DEF q
<1>3. sync \in [Node -> Seq(SyncMessage)]
  BY DEF TypeOK
<1>4. QED
  BY <1>1, <1>2, <1>3

\* The blocks of a reply are blocks of the chain of the node that replies.
LEMMA RepliesType ==
  ASSUME TypeOK, NEW n \in Node, NEW m \in SyncMessage, m.type = "RequestChainSync"
  PROVE  /\ Replies(n, m) \in Seq(SyncMessage)
         /\ \A i \in DOMAIN Replies(n, m) : FromChain(Replies(n, m)[i])
<1> DEFINE s == nodes[n].blocks
           h == m.current_height
           bs == SubSeq(s, h + 1, Len(s))
           r == [type |-> "ResponseChainSync", source |-> n, blocks |-> bs]
<1>1. s \in Seq(Block) /\ Len(s) \in Nat /\ DOMAIN s = 1..Len(s)
  BY StateTypes
<1>2. h \in Nat
  BY DEF SyncMessage
<1>3. CASE h < Len(s)
  <2>1. /\ bs \in Seq(Block) /\ Len(bs) = Len(s) - h
        /\ \A j \in 1..(Len(s) - h) : bs[j] = s[h + j] /\ h + j \in DOMAIN s
    <3>1. \A j \in (h + 1)..Len(s) : s[j] \in Block
      BY <1>1, <1>2
    <3>2. bs \in Seq(Block)
      BY <3>1, <1>1, <1>2, SubSeqProperties
    <3>3. Len(bs) = Len(s) - h
      BY <1>1, <1>2, <1>3
    <3>4. \A j \in 1..(Len(s) - h) : bs[j] = s[h + j]
      <4> SUFFICES ASSUME NEW j \in 1..(Len(s) - h) PROVE bs[j] = s[h + j]
        OBVIOUS
      <4>1. j \in 1..Len(bs)
        BY <3>3
      <4>2. bs[j] = s[(h + 1) + j - 1]
        BY <1>1, <1>2, <4>1
      <4>3. (h + 1) + j - 1 = h + j
        BY <1>2
      <4>4. QED
        BY <4>2, <4>3
    <3>5. \A j \in 1..(Len(s) - h) : h + j \in DOMAIN s
      BY <1>1, <1>2, <1>3
    <3>6. QED
      BY <3>2, <3>3, <3>4, <3>5
  <2>2. DOMAIN bs = 1..(Len(s) - h)
    <3> HIDE DEF bs, s, h
    <3>1. QED
      BY <2>1
  <2> HIDE DEF bs
  <2>3. r \in SyncMessage
    BY <2>1 DEF SyncMessage
  <2>4. r.blocks = bs
    OBVIOUS
  <2>5. Replies(n, m) = <<r>>
    BY <1>3 DEF Replies, bs
  <2> HIDE DEF r
  <2>6. FromChain(r)
    BY <2>1, <2>2, <2>3, <2>4 DEF FromChain
  <2>7. QED
    BY <2>3, <2>5, <2>6
<1>4. CASE ~(h < Len(s))
  <2>1. Replies(n, m) = <<>>
    BY <1>4 DEF Replies
  <2>2. QED
    BY <2>1
<1>5. QED
  BY <1>3, <1>4

\* Every step sends blocks of the chains only.
LEMMA NextQueues ==
  ASSUME TypeOK, [Next]_vars
  PROVE  sync' \in [Node -> Seq(SyncMessage)] /\ SyncFromChains
<1>0. sync \in [Node -> Seq(SyncMessage)]
  BY DEF TypeOK
<1>1. ASSUME NEW n \in Node, NEW p \in Node, RequestChainSync(n, p)
      PROVE  sync' \in [Node -> Seq(SyncMessage)] /\ SyncFromChains
  <2> DEFINE m == [type |-> "RequestChainSync", source |-> n,
                   current_height |-> Len(nodes[n].blocks)]
  <2>1. Len(nodes[n].blocks) \in Nat
    BY StateTypes
  <2>2. m \in SyncMessage /\ m.type = "RequestChainSync"
    BY <2>1 DEF SyncMessage
  <2>3. sync' = Queued(sync, p, <<m>>)
    BY <1>1 DEF RequestChainSync
  <2> HIDE DEF m
  <2>4. FromChain(m)
    BY <2>2 DEF FromChain
  <2> DEFINE new == <<m>>
  <2>5. new \in Seq(SyncMessage) /\ \A k \in DOMAIN new : new[k] = m
    BY <2>2
  <2>6. sync' = Queued(sync, p, new)
    BY <2>3
  <2> HIDE DEF new
  <2>7. QueuesFrom(sync', sync, new)
    BY <1>0, <2>5, <2>6, QueuedType
  <2>8. QED
    BY <2>4, <2>5, <2>7 DEF QueuesFrom, SyncFromChains
<1>2. ASSUME NEW n \in Node, NEW i \in DOMAIN sync[n], HandleRequest(n, i)
      PROVE  sync' \in [Node -> Seq(SyncMessage)] /\ SyncFromChains
  <2> DEFINE m == sync[n][i]
             rest == Taken(n, i)
             new == Replies(n, m)
  <2>1. m \in SyncMessage /\ m.type = "RequestChainSync" /\ m.source \in Node
    BY <1>2, StateTypes DEF HandleRequest
  <2>2. sync' = Queued(rest, m.source, new)
    BY <1>2 DEF HandleRequest
  <2>3. new \in Seq(SyncMessage) /\ \A k \in DOMAIN new : FromChain(new[k])
    BY <2>1, RepliesType
  <2>4. /\ rest \in [Node -> Seq(SyncMessage)]
        /\ \A p \in Node : \A j \in DOMAIN rest[p] : \E k \in DOMAIN sync[p] : rest[p][j] = sync[p][k]
    BY TakenType
  <2> HIDE DEF m, rest, new
  <2>5. QueuesFrom(sync', rest, new)
    BY <2>1, <2>2, <2>3, <2>4, QueuedType
  <2>6. ASSUME NEW p \in Node, NEW j \in DOMAIN sync'[p]
        PROVE  (\E k \in DOMAIN sync[p] : sync'[p][j] = sync[p][k]) \/ FromChain(sync'[p][j])
    <3>1. CASE \E k \in DOMAIN rest[p] : sync'[p][j] = rest[p][k]
      BY <2>4, <3>1
    <3>2. CASE \E k \in DOMAIN new : sync'[p][j] = new[k]
      BY <2>3, <3>2
    <3>3. QED
      BY <2>5, <3>1, <3>2 DEF QueuesFrom
  <2>7. QED
    BY <2>5, <2>6 DEF QueuesFrom, SyncFromChains
<1>3. ASSUME NEW n \in Node, NEW i \in DOMAIN sync[n], HandleResponse(n, i)
      PROVE  sync' \in [Node -> Seq(SyncMessage)] /\ SyncFromChains
  <2>1. sync' = Taken(n, i)
    BY <1>3 DEF HandleResponse
  <2>2. QED
    BY <2>1, TakenType DEF SyncFromChains
<1>4. ASSUME sync' = sync
      PROVE  sync' \in [Node -> Seq(SyncMessage)] /\ SyncFromChains
  BY <1>0, <1>4 DEF SyncFromChains
<1>5. QED
  BY <1>1, <1>2, <1>3, <1>4
     DEF Next, HandleSync, vars, BroadcastExtrinsic, ProposeConsensusValue, ProposeBlock,
         FinalizeConsensusBlock, HandleTransaction, HandleProposedBlock, Decide

-----------------------------------------------------------------------------
(* Nominations. *)

NominatorsIn(M, h, v) ==
  {m.from : m \in {q \in M : q.type = "ConsensusMessage" /\ q.slot = h /\ q.value = v}}

\* The nominators of a value, before and after a step.
LEMMA NominatorsAre ==
  ASSUME NEW h, NEW v
  PROVE  /\ Nominators(h, v) = NominatorsIn(msgs, h, v)
         /\ Nominators(h, v)' = NominatorsIn(msgs', h, v)
  BY DEF Nominators, Nominations, NominatorsIn

BackedIn(M, b) == b.block_height = 0 \/ NominatorsIn(M, b.block_height, hash_data[b]) # {}

\* Whether anyone nominated a block, before and after a step.
LEMMA BackedIs ==
  ASSUME NEW b
  PROVE  (Backed(b) <=> BackedIn(msgs, b)) /\ (Backed(b)' <=> BackedIn(msgs', b))
  BY NominatorsAre DEF Backed, BackedIn

\* What a step broadcasts is gossip, and a proposal comes with its nomination.
Sends(sent) ==
  /\ sent \subseteq Gossip
  /\ msgs' = msgs \cup sent
  /\ \A m \in sent : m.type = "ProposeBlock" => BackedIn(sent, m.block)

LEMMA NextSends ==
  ASSUME [Next]_vars
  PROVE  \E sent : Sends(sent)
<1>1. ASSUME NEW n \in Node, NEW tx \in Submitted[n], BroadcastExtrinsic(n, tx)
      PROVE  \E sent : Sends(sent)
  <2> DEFINE m == Transaction(n, tx)
  <2>1. tx \in Tx
    BY NodeAssumption
  <2>2. m \in Gossip /\ m.type # "ProposeBlock"
    BY <2>1 DEF Transaction, Gossip
  <2>3. msgs' = msgs \cup {m}
    BY <1>1 DEF BroadcastExtrinsic, Broadcast
  <2> HIDE DEF m
  <2>4. Sends({m})
    BY <2>2, <2>3 DEF Sends
  <2>5. QED
    BY <2>4
<1>2. ASSUME NEW n \in Node, NEW b \in Offered[n], ProposeBlock(n, b)
      PROVE  \E sent : Sends(sent)
  <2> DEFINE h == b.block_height
             v == hash_data[b]
             q == Nomination(n, h, v)
             m == Proposal(n, b)
  <2>1. b \in Block /\ h \in Height /\ v \in Hash
    BY NodeAssumption, BlockType DEF Height
  <2>2. /\ q \in Gossip /\ q.type = "ConsensusMessage" /\ q.from = n
        /\ q.slot = h /\ q.value = v
    BY <2>1 DEF Nomination, Gossip
  <2>3. m \in Gossip /\ m.type = "ProposeBlock" /\ m.block = b
    BY <2>1 DEF Proposal, Gossip
  <2>4. msgs' = msgs \cup {q, m}
    BY <1>2 DEF ProposeBlock, Broadcast
  <2> HIDE DEF q, m
  <2>5. n \in NominatorsIn({q, m}, h, v)
    BY <2>2 DEF NominatorsIn
  <2>6. BackedIn({q, m}, m.block)
    BY <2>3, <2>5 DEF BackedIn
  <2>7. Sends({q, m})
    BY <2>2, <2>3, <2>4, <2>6 DEF Sends
  <2>8. QED
    BY <2>7
<1>3. ASSUME NEW n \in Node, NEW p \in Nominated[n], ProposeConsensusValue(n, p[1], p[2])
      PROVE  \E sent : Sends(sent)
  <2> DEFINE q == Nomination(n, p[1], p[2])
  <2>1. p[1] \in Height /\ p[2] \in Hash
    BY NodeAssumption
  <2>2. q \in Gossip /\ q.type # "ProposeBlock"
    BY <2>1 DEF Nomination, Gossip
  <2>3. msgs' = msgs \cup {q}
    BY <1>3 DEF ProposeConsensusValue, Broadcast
  <2> HIDE DEF q
  <2>4. Sends({q})
    BY <2>2, <2>3 DEF Sends
  <2>5. QED
    BY <2>4
<1>4. ASSUME msgs' = msgs
      PROVE  \E sent : Sends(sent)
  <2>1. Sends({})
    BY <1>4 DEF Sends
  <2>2. QED
    BY <2>1
<1>5. QED
  BY <1>1, <1>2, <1>3, <1>4
     DEF Next, HandleSync, vars, RequestChainSync, HandleRequest, HandleResponse,
         FinalizeConsensusBlock, HandleTransaction, HandleProposedBlock, Decide

\* What is sent stays sent.
LEMMA NextMessages ==
  ASSUME TypeOK, [Next]_vars
  PROVE  msgs' \in SUBSET Gossip /\ msgs \subseteq msgs'
  BY NextSends DEF Sends, TypeOK

\* So nominators only grow in number, and a block that was backed stays backed.
LEMMA NominatorsGrow ==
  ASSUME msgs \subseteq msgs'
  PROVE  /\ \A h, v : Nominators(h, v) \subseteq Nominators(h, v)'
         /\ \A b : Backed(b) => Backed(b)'
<1>1. \A h, v : NominatorsIn(msgs, h, v) \subseteq NominatorsIn(msgs', h, v)
  BY DEF NominatorsIn
<1>2. \A h, v : Nominators(h, v) \subseteq Nominators(h, v)'
  BY <1>1, NominatorsAre
<1>3. ASSUME NEW b, Backed(b)
      PROVE  Backed(b)'
  <2>1. CASE b.block_height = 0
    BY <2>1 DEF Backed
  <2>2. CASE Nominators(b.block_height, hash_data[b]) # {}
    <3>1. NominatorsIn(msgs, b.block_height, hash_data[b]) # {}
      BY <2>2, NominatorsAre
    <3>2. NominatorsIn(msgs', b.block_height, hash_data[b]) # {}
      BY <1>1, <3>1
    <3>3. Nominators(b.block_height, hash_data[b])' # {}
      BY <3>2, NominatorsAre
    <3>4. QED
      BY <3>3 DEF Backed
  <2>3. QED
    BY <1>3, <2>1, <2>2 DEF Backed
<1>4. QED
  BY <1>2, <1>3

\* Only nodes nominate.
LEMMA NominatorsAreNodes ==
  ASSUME TypeOK, NEW h, NEW v
  PROVE  Nominators(h, v) \in SUBSET Node
  BY GossipType DEF Nominators, Nominations

\* A decision is made once, and by a slice of nominators.
LEMMA NextDecided ==
  ASSUME TypeOK, [Next]_vars
  PROVE  /\ decided' \in [Node -> [Height -> Hash \cup {None}]]
         /\ \A p \in Node, h \in Height :
              decided'[p][h] # decided[p][h] =>
                decided[p][h] = None /\ Nominators(h, decided'[p][h]) \in Slices
<1>1. ASSUME NEW n \in Node, NEW h \in Height, NEW v \in Hash, Decide(n, h, v)
      PROVE  /\ decided' \in [Node -> [Height -> Hash \cup {None}]]
             /\ \A p \in Node, k \in Height :
                  decided'[p][k] # decided[p][k] =>
                    decided[p][k] = None /\ Nominators(k, decided'[p][k]) \in Slices
  <2>1. decided[n][h] = None /\ Nominators(h, v) \in Slices
    BY <1>1 DEF Decide
  <2>2. decided' = [decided EXCEPT ![n][h] = v]
    BY <1>1 DEF Decide
  <2>3. decided' \in [Node -> [Height -> Hash \cup {None}]]
    BY <2>2 DEF TypeOK
  <2>4. \A p \in Node, k \in Height :
          decided'[p][k] = IF p = n /\ k = h THEN v ELSE decided[p][k]
    BY <2>2 DEF TypeOK
  <2>5. QED
    BY <2>1, <2>3, <2>4
<1>2. ASSUME decided' = decided
      PROVE  /\ decided' \in [Node -> [Height -> Hash \cup {None}]]
             /\ \A p \in Node, h \in Height : decided'[p][h] = decided[p][h]
  BY <1>2 DEF TypeOK
<1>3. QED
  BY <1>1, <1>2
     DEF Next, HandleSync, vars, BroadcastExtrinsic, ProposeConsensusValue, ProposeBlock,
         RequestChainSync, HandleRequest, HandleResponse, FinalizeConsensusBlock, HandleTransaction,
         HandleProposedBlock

-----------------------------------------------------------------------------
(***************************************************************************)
(* The inductive invariant.  Besides types and valid chains: a chain       *)
(* starts with the genesis block of its node; all other blocks, in chains  *)
(* and under way, were nominated by someone; a decision still has a slice  *)
(* of nominators; and what an application finalized is in its chain, with  *)
(* the hash that was decided.                                              *)
(***************************************************************************)
ChainBacked(n) ==
  /\ ValidChain(nodes[n])
  /\ nodes[n].blocks[1] = Genesis[n]
  /\ \A i \in DOMAIN nodes[n].blocks : Backed(nodes[n].blocks[i])

DecisionBacked(n) ==
  \A h \in Height : decided[n][h] # None => Nominators(h, decided[n][h]) \in Slices

FinalizedDecided(n) ==
  \A h \in finalized[n] :
    h + 1 \in DOMAIN nodes[n].blocks /\ decided[n][h] = hash_data[nodes[n].blocks[h + 1]]

NetInv ==
  /\ TypeOK
  /\ SyncBacked
  /\ ProposalsBacked
  /\ \A n \in Node : ChainBacked(n) /\ DecisionBacked(n) /\ FinalizedDecided(n)

\* A genesis block is a block of height zero, without a parent.
LEMMA GenesisType ==
  ASSUME NEW n \in Node
  PROVE  /\ Genesis[n] \in Block
         /\ Genesis[n].block_height = 0
         /\ Genesis[n].previous_hash = NoHash
<1>1. Genesis[n] \in Block /\ CanAdd(<<>>, Genesis[n])
  BY NodeAssumption
<1>2. QED
  BY <1>1 DEF CanAdd, IsBlockHeightValid, IsPreviousHashValid

\* The invariant holds of new nodes.
LEMMA InitNet == Init => NetInv
<1> SUFFICES ASSUME Init PROVE NetInv
  OBVIOUS
<1>1. ASSUME NEW n \in Node
      PROVE  /\ nodes[n] \in NodeStates
             /\ ChainBacked(n)
  <2> DEFINE g == Genesis[n]
             s == <<g>>
  <2>1. g \in Block /\ g.block_height = 0 /\ g.previous_hash = NoHash
    BY GenesisType
  <2>2. /\ nodes[n].blocks = s
        /\ nodes[n].current_slot = 1
        /\ nodes[n].accounts = NewLedgerState
        /\ nodes[n].mempool = {}
        /\ nodes[n] = [blocks |-> s, current_slot |-> 1, accounts |-> NewLedgerState, mempool |-> {}]
    <3>1. nodes[n] = NewNode(n)
      BY DEF Init
    <3>2. g.block_height + 1 = 1
      BY <2>1
    <3> HIDE DEF g
    <3>3. NewNode(n) = [blocks |-> s, current_slot |-> 1, accounts |-> NewLedgerState, mempool |-> {}]
      BY <3>2 DEF NewNode, g
    <3>4. QED
      BY <3>1, <3>3
  <2>3. s \in Seq(Block) /\ Len(s) = 1 /\ DOMAIN s = {1} /\ s[1] = g /\ s # <<>>
    BY <2>1
  <2> HIDE DEF s, g
  <2>4. nodes[n] \in NodeStates
    BY <2>2, <2>3, NewLedgerStateType DEF NodeStates
  <2>5. ValidChain(nodes[n])
    BY <2>1, <2>2, <2>3 DEF ValidChain, IsLedgerHeightValid, IsLedgerHashChainValid
  <2>6. QED
    BY <2>1, <2>2, <2>3, <2>4, <2>5 DEF ChainBacked, Backed, g
<1>2. TypeOK
  <2>1. nodes \in [Node -> NodeStates]
    BY <1>1 DEF Init
  <2>2. sync \in [Node -> Seq(SyncMessage)]
    BY DEF Init
  <2>3. QED
    BY <2>1, <2>2 DEF Init, TypeOK, NodeStates
<1>3. SyncBacked /\ ProposalsBacked
  BY DEF Init, SyncBacked, ProposalsBacked
<1>4. \A n \in Node : DecisionBacked(n) /\ FinalizedDecided(n)
  BY DEF Init, DecisionBacked, FinalizedDecided
<1>5. QED
  BY <1>1, <1>2, <1>3, <1>4 DEF NetInv

\* What a step leaves of a node that it does not change.
LEMMA OthersStay ==
  ASSUME TypeOK, NEW n \in Node, OnlyChanges(n), NEW p \in Node, p # n
  PROVE  nodes'[p] = nodes[p] /\ finalized'[p] = finalized[p]
  BY DEF TypeOK, OnlyChanges

\* The node that changes keeps its type, its chain stays valid and backed and
\* only grows, and it was added to by blocks that are backed.
LEMMA ChangesGrow ==
  ASSUME NetInv, NEW n \in Node, Changes(n)
  PROVE  /\ nodes'[n] \in NodeStates
         /\ finalized'[n] \in SUBSET Height
         /\ ValidChain(nodes'[n])
         /\ Extends(nodes[n].blocks, nodes'[n].blocks)
         /\ \A i \in DOMAIN nodes'[n].blocks \ DOMAIN nodes[n].blocks : Backed(nodes'[n].blocks[i])
<1>1. /\ nodes[n] \in NodeStates /\ ValidChain(nodes[n]) /\ nodes[n].blocks \in Seq(Block)
      /\ Len(nodes[n].blocks) \in Nat /\ DOMAIN nodes[n].blocks = 1..Len(nodes[n].blocks)
      /\ finalized[n] \in SUBSET Height
  BY StateTypes DEF NetInv, ChainBacked
<1>2. CASE Keeps(n)
  <2>1. nodes'[n] \in NodeStates /\ nodes'[n].blocks = nodes[n].blocks /\ finalized'[n] = finalized[n]
    BY <1>2 DEF Keeps
  <2>2. ValidChain(nodes'[n])
    BY <1>1, <1>2 DEF Keeps, ValidChain
  <2>3. QED
    BY <1>1, <2>1, <2>2 DEF Extends
<1>3. ASSUME NEW b \in Block, Finalizes(n, b)
      PROVE  /\ nodes'[n] \in NodeStates
             /\ finalized'[n] \in SUBSET Height
             /\ ValidChain(nodes'[n])
             /\ Extends(nodes[n].blocks, nodes'[n].blocks)
             /\ \A i \in DOMAIN nodes'[n].blocks \ DOMAIN nodes[n].blocks :
                  Backed(nodes'[n].blocks[i])
  <2> DEFINE s == nodes[n].blocks
             t == nodes'[n].blocks
             k == Len(s)
  <2>1. /\ CanAdd(s, b)
        /\ nodes'[n] \in NodeStates
        /\ t = Append(s, b)
        /\ nodes'[n].current_slot = b.block_height + 1
    BY <1>1, <1>3, AddBlockType DEF Finalizes
  <2>2. ValidChain(nodes'[n])
    BY <1>1, <2>1, AddBlockValid
  <2>3. k \in Nat /\ DOMAIN s = 1..k /\ t \in Seq(Block) /\ Len(t) = k + 1 /\ t[k + 1] = b
        /\ \A i \in 1..k : t[i] = s[i]
    BY <1>1, <2>1
  <2>4. b.block_height \in Height
    BY DEF Height
  <2>5. finalized'[n] \in SUBSET Height
    BY <1>1, <1>3, <2>4 DEF Finalizes
  <2>6. Backed(b)
    <3>1. decided[n][b.block_height] = hash_data[b] /\ hash_data[b] # None
      BY <1>3, BlockType DEF Finalizes
    <3>2. Nominators(b.block_height, hash_data[b]) \in Slices
      BY <2>4, <3>1 DEF NetInv, DecisionBacked
    <3>3. QED
      BY <3>2, NodeAssumption DEF Backed
  <2> HIDE DEF k, t
  <2>7. DOMAIN t \ DOMAIN s = {k + 1}
    BY <2>3
  <2>8. Extends(s, t)
    BY <2>3 DEF Extends, k
  <2>9. QED
    BY <2>1, <2>2, <2>3, <2>5, <2>6, <2>7, <2>8 DEF t
<1>4. ASSUME NEW bs \in Seq(Block), Receives(n, bs)
      PROVE  /\ nodes'[n] \in NodeStates
             /\ finalized'[n] \in SUBSET Height
             /\ ValidChain(nodes'[n])
             /\ Extends(nodes[n].blocks, nodes'[n].blocks)
             /\ \A i \in DOMAIN nodes'[n].blocks \ DOMAIN nodes[n].blocks :
                  Backed(nodes'[n].blocks[i])
  BY <1>1, <1>4, ReceiveBlocksType, ReceiveBlocksGrows DEF Receives, Grown
<1>5. QED
  BY <1>1, <1>2, <1>3, <1>4 DEF Changes, Keeps

\* Every step keeps the types.
LEMMA NextType ==
  ASSUME NetInv, [Next]_vars
  PROVE  TypeOK'
<1>1. decided' \in [Node -> [Height -> Hash \cup {None}]]
  BY NextDecided DEF NetInv
<1>2. msgs' \in SUBSET Gossip /\ sync' \in [Node -> Seq(SyncMessage)]
  BY NextMessages, NextQueues DEF NetInv
<1>3. nodes' \in [Node -> NodeStates] /\ finalized' \in [Node -> SUBSET Height]
  <2>1. CASE UNCHANGED <<nodes, finalized>>
    BY <2>1 DEF NetInv, TypeOK, NodeStates
  <2>2. ASSUME NEW n \in Node, Changes(n), OnlyChanges(n)
        PROVE  nodes' \in [Node -> NodeStates] /\ finalized' \in [Node -> SUBSET Height]
    <3>1. nodes'[n] \in NodeStates /\ finalized'[n] \in SUBSET Height
      BY <2>2, ChangesGrow
    <3>2. nodes \in [Node -> NodeStates] /\ finalized \in [Node -> SUBSET Height]
      BY DEF NetInv, TypeOK, NodeStates
    <3>3. QED
      BY <2>2, <3>1, <3>2 DEF OnlyChanges
  <2>3. QED
    BY <2>1, <2>2, NextChanges DEF NetInv
<1>4. QED
  BY <1>1, <1>2, <1>3 DEF TypeOK, NodeStates

\* Whatever is under way was in a chain when it was sent.
LEMMA NextSyncBacked ==
  ASSUME NetInv, [Next]_vars
  PROVE  SyncBacked'
<1>1. SyncFromChains /\ TypeOK /\ SyncBacked
  BY NextQueues DEF NetInv
<1>2. \A b : Backed(b) => Backed(b)'
  BY <1>1, NextMessages, NominatorsGrow
<1>3. ASSUME NEW p \in Node, NEW i \in DOMAIN sync'[p], sync'[p][i].type = "ResponseChainSync",
             NEW j \in DOMAIN sync'[p][i].blocks
      PROVE  BackedIn(msgs', sync'[p][i].blocks[j])
  <2>1. PICK b : b = sync'[p][i].blocks[j]
    OBVIOUS
  <2>2. Backed(b)
    <3>1. CASE \E k \in DOMAIN sync[p] : sync'[p][i] = sync[p][k]
      BY <1>1, <1>3, <2>1, <3>1 DEF SyncBacked
    <3>2. CASE FromChain(sync'[p][i])
      <4>1. PICK n \in Node : \E k \in DOMAIN nodes[n].blocks : b = nodes[n].blocks[k]
        BY <1>3, <2>1, <3>2 DEF FromChain
      <4>2. QED
        BY <4>1 DEF NetInv, ChainBacked
    <3>3. QED
      BY <1>1, <3>1, <3>2 DEF SyncFromChains
  <2>3. QED
    BY <1>2, <2>1, <2>2, BackedIs
<1>4. QED
  BY <1>3 DEF SyncBacked, Backed, BackedIn, Nominators, Nominations, NominatorsIn

\* Every proposal has its nomination.
LEMMA NextProposalsBacked ==
  ASSUME NetInv, [Next]_vars
  PROVE  ProposalsBacked'
<1>1. PICK sent : Sends(sent)
  BY NextSends
<1>2. \A h, v : /\ NominatorsIn(msgs, h, v) \subseteq NominatorsIn(msgs', h, v)
               /\ NominatorsIn(sent, h, v) \subseteq NominatorsIn(msgs', h, v)
  BY <1>1 DEF Sends, NominatorsIn
<1>3. \A b : BackedIn(msgs, b) \/ BackedIn(sent, b) => BackedIn(msgs', b)
  <2> SUFFICES ASSUME NEW b, BackedIn(msgs, b) \/ BackedIn(sent, b)
               PROVE  BackedIn(msgs', b)
    OBVIOUS
  <2>1. /\ NominatorsIn(msgs, b.block_height, hash_data[b])
             \subseteq NominatorsIn(msgs', b.block_height, hash_data[b])
        /\ NominatorsIn(sent, b.block_height, hash_data[b])
             \subseteq NominatorsIn(msgs', b.block_height, hash_data[b])
    BY <1>2
  <2>2. QED
    BY <2>1 DEF BackedIn
<1>4. ASSUME NEW m \in msgs', m.type = "ProposeBlock"
      PROVE  BackedIn(msgs', m.block)
  <2>1. CASE m \in msgs
    BY <1>3, <1>4, <2>1, BackedIs DEF NetInv, ProposalsBacked
  <2>2. CASE m \in sent
    BY <1>1, <1>3, <1>4, <2>2 DEF Sends
  <2>3. QED
    BY <1>1, <2>1, <2>2 DEF Sends
<1>5. QED
  BY <1>4 DEF ProposalsBacked, Backed, BackedIn, Nominators, Nominations, NominatorsIn

\* In a step, chains stay valid and grow, by blocks that are backed.
LEMMA NextGrows ==
  ASSUME NetInv, [Next]_vars, NEW p \in Node
  PROVE  /\ ValidChain(nodes'[p])
         /\ Extends(nodes[p].blocks, nodes'[p].blocks)
         /\ \A i \in DOMAIN nodes'[p].blocks \ DOMAIN nodes[p].blocks : Backed(nodes'[p].blocks[i])
<1>1. nodes[p].blocks \in Seq(Block) /\ ValidChain(nodes[p]) /\ TypeOK /\ SyncBacked
      /\ ProposalsBacked
  BY StateTypes DEF NetInv, ChainBacked
<1>2. CASE nodes'[p] = nodes[p]
  BY <1>1, <1>2 DEF Extends
<1>3. CASE UNCHANGED <<nodes, finalized>>
  BY <1>2, <1>3
<1>4. ASSUME NEW n \in Node, Changes(n), OnlyChanges(n)
      PROVE  /\ ValidChain(nodes'[p])
             /\ Extends(nodes[p].blocks, nodes'[p].blocks)
             /\ \A i \in DOMAIN nodes'[p].blocks \ DOMAIN nodes[p].blocks :
                  Backed(nodes'[p].blocks[i])
  <2>1. CASE p = n
    BY <1>4, <2>1, ChangesGrow
  <2>2. CASE p # n
    BY <1>1, <1>2, <1>4, <2>2, OthersStay
  <2>3. QED
    BY <2>1, <2>2
<1>5. QED
  BY <1>1, <1>3, <1>4, NextChanges

\* Every step keeps chains valid, and all their blocks nominated ones.
LEMMA NextChainBacked ==
  ASSUME NetInv, [Next]_vars, NEW p \in Node
  PROVE  ChainBacked(p)'
<1> DEFINE s == nodes[p].blocks
           t == nodes'[p].blocks
<1>1. ValidChain(nodes'[p]) /\ Extends(s, t) /\ TypeOK
  BY NextGrows DEF NetInv
<1>2. \A b : Backed(b) => BackedIn(msgs', b)
  BY <1>1, NextMessages, NominatorsGrow, BackedIs
<1>3. s \in Seq(Block) /\ s # <<>> /\ DOMAIN s = 1..Len(s) /\ Len(s) \in Nat /\ 1 \in 1..Len(s)
  BY <1>1, StateTypes DEF NetInv, ChainBacked, ValidChain
<1>4. t[1] = Genesis[p]
  BY <1>1, <1>3 DEF Extends, NetInv, ChainBacked
<1>5. ASSUME NEW i \in DOMAIN t
      PROVE  BackedIn(msgs', t[i])
  <2>1. CASE i \in DOMAIN s
    <3>1. t[i] = s[i] /\ Backed(s[i])
      BY <1>1, <1>3, <2>1 DEF Extends, NetInv, ChainBacked
    <3>2. QED
      BY <1>2, <3>1
  <2>2. CASE i \notin DOMAIN s
    BY <1>2, <2>2, NextGrows
  <2>3. QED
    BY <2>1, <2>2
<1>6. QED
  BY <1>1, <1>4, <1>5 DEF ChainBacked, Backed, BackedIn, Nominators, Nominations, NominatorsIn

\* Every step keeps decisions backed by a slice of nominators.
LEMMA NextDecisionBacked ==
  ASSUME NetInv, [Next]_vars, NEW p \in Node
  PROVE  DecisionBacked(p)'
<1>1. TypeOK /\ msgs \subseteq msgs'
  BY NextMessages DEF NetInv
<1>2. \A h, v : NominatorsIn(msgs, h, v) \in Slices => NominatorsIn(msgs', h, v) \in Slices
  <2> SUFFICES ASSUME NEW h, NEW v, NominatorsIn(msgs, h, v) \in Slices
               PROVE  NominatorsIn(msgs', h, v) \in Slices
    OBVIOUS
  <2>1. NominatorsIn(msgs, h, v) \subseteq NominatorsIn(msgs', h, v)
    BY <1>1 DEF NominatorsIn
  <2>2. NominatorsIn(msgs', h, v) \in SUBSET Node
    <3>1. \A m \in msgs' : m.from \in Node
      BY <1>1, NextMessages DEF Gossip
    <3>2. QED
      BY <3>1 DEF NominatorsIn
  <2>3. QED
    BY <2>1, <2>2, NodeAssumption
<1>3. ASSUME NEW h \in Height, decided'[p][h] # None
      PROVE  NominatorsIn(msgs', h, decided'[p][h]) \in Slices
  <2>1. CASE decided'[p][h] = decided[p][h]
    <3>1. NominatorsIn(msgs, h, decided'[p][h]) \in Slices
      BY <1>3, <2>1, NominatorsAre DEF NetInv, DecisionBacked
    <3>2. QED
      BY <1>2, <3>1
  <2>2. CASE decided'[p][h] # decided[p][h]
    <3>1. NominatorsIn(msgs, h, decided'[p][h]) \in Slices
      BY <1>1, <2>2, NextDecided, NominatorsAre
    <3>2. QED
      BY <1>2, <3>1
  <2>3. QED
    BY <2>1, <2>2
<1>4. QED
  BY <1>3 DEF DecisionBacked, Nominators, Nominations, NominatorsIn

\* Every step keeps finalized blocks decided, and in the chain.
LEMMA NextFinalizedDecided ==
  ASSUME NetInv, [Next]_vars, NEW p \in Node
  PROVE  FinalizedDecided(p)'
<1> DEFINE s == nodes[p].blocks
           t == nodes'[p].blocks
           In(b) == /\ b.block_height = Len(s)
                    /\ t = Append(s, b)
                    /\ decided[p][b.block_height] = hash_data[b]
                    /\ finalized'[p] = finalized[p] \cup {b.block_height}
<1>1. Extends(s, t) /\ TypeOK /\ s \in Seq(Block) /\ Len(s) \in Nat /\ DOMAIN s = 1..Len(s)
      /\ nodes[p] \in NodeStates /\ ValidChain(nodes[p])
  BY NextGrows, StateTypes DEF NetInv, ChainBacked
<1>2. t \in Seq(Block) /\ Len(t) \in Nat /\ DOMAIN t = 1..Len(t)
  BY NextType DEF TypeOK
<1>3. ASSUME NEW h \in Height, NEW v, v # None, decided[p][h] = v
      PROVE  decided'[p][h] = v
  BY <1>1, <1>3, NextDecided
<1>4. finalized'[p] = finalized[p] \/ \E b \in Block : In(b)
  <2>1. CASE UNCHANGED <<nodes, finalized>>
    BY <2>1
  <2>2. ASSUME NEW n \in Node, Changes(n), OnlyChanges(n)
        PROVE  finalized'[p] = finalized[p] \/ \E b \in Block : In(b)
    <3>1. CASE p # n
      BY <1>1, <2>2, <3>1, OthersStay
    <3>2. ASSUME NEW b \in Block, Finalizes(p, b)
          PROVE  In(b)
      <4>1. nodes'[p] = AddBlock(nodes[p], b) /\ CanAdd(s, b)
        BY <3>2 DEF Finalizes
      <4>2. /\ AddBlock(nodes[p], b) \in NodeStates
            /\ AddBlock(nodes[p], b).blocks = Append(s, b)
            /\ AddBlock(nodes[p], b).current_slot = b.block_height + 1
        BY <1>1, AddBlockType
      <4>3. b.block_height = Len(s)
        BY <1>1, <4>1, <4>2, AddBlockValid
      <4>4. QED
        BY <3>2, <4>1, <4>2, <4>3 DEF Finalizes
    <3>3. QED
      BY <2>2, <3>1, <3>2 DEF Changes, Keeps, Receives
  <2>3. QED
    BY <1>1, <2>1, <2>2, NextChanges DEF NetInv
<1>5. ASSUME NEW h \in finalized[p]
      PROVE  h + 1 \in DOMAIN t /\ decided'[p][h] = hash_data[t[h + 1]]
  <2>1. h \in Height /\ h + 1 \in DOMAIN s /\ decided[p][h] = hash_data[s[h + 1]]
    BY <1>1, StateTypes DEF NetInv, FinalizedDecided
  <2>2. h + 1 \in DOMAIN t /\ t[h + 1] = s[h + 1]
    BY <1>1, <1>2, <2>1 DEF Extends
  <2>3. hash_data[s[h + 1]] # None
    BY <1>1, <2>1, BlockType
  <2>4. QED
    BY <1>3, <2>1, <2>2, <2>3
<1>6. ASSUME NEW b \in Block, In(b)
      PROVE  /\ b.block_height + 1 \in DOMAIN t
             /\ decided'[p][b.block_height] = hash_data[t[b.block_height + 1]]
  <2>1. t = Append(s, b) /\ b.block_height = Len(s)
    BY <1>6
  <2>2. Len(t) = Len(s) + 1 /\ t[Len(s) + 1] = b
    BY <1>1, <2>1
  <2>3. Len(s) + 1 \in DOMAIN t /\ t[b.block_height + 1] = b
    BY <1>1, <1>2, <2>1, <2>2
  <2>4. b.block_height \in Height /\ hash_data[b] # None
    BY BlockType DEF Height
  <2>5. decided'[p][b.block_height] = hash_data[b]
    BY <1>3, <1>6, <2>4
  <2>6. QED
    BY <2>1, <2>3, <2>5
<1> HIDE DEF t, s
<1>7. \A h \in finalized'[p] : h + 1 \in DOMAIN t /\ decided'[p][h] = hash_data[t[h + 1]]
  BY <1>4, <1>5, <1>6
<1>8. QED
  BY <1>7 DEF FinalizedDecided, t

\* Every step keeps the invariant.
LEMMA NextNet == NetInv /\ [Next]_vars => NetInv'
  BY NextType, NextSyncBacked, NextProposalsBacked, NextChainBacked, NextDecisionBacked,
     NextFinalizedDecided DEF NetInv

\* The invariant holds in every reachable state.
LEMMA NetInvariant == Spec => []NetInv
  BY InitNet, NextNet, PTL DEF Spec

(***************************************************************************)
(* Types.                                                                  *)
(***************************************************************************)
THEOREM TypeCorrect == Spec => []TypeOK
<1>1. NetInv => TypeOK
  BY DEF NetInv
<1>2. QED
  BY <1>1, NetInvariant, PTL

(***************************************************************************)
(* Every chain passes the ledger's own checks of heights and hashes.       *)
(***************************************************************************)
THEOREM ChainsValid == Spec => []ChainsAreValid
<1>1. NetInv => ChainsAreValid
  BY DEF NetInv, ChainBacked, ValidChain, ChainsAreValid
<1>2. QED
  BY <1>1, NetInvariant, PTL

-----------------------------------------------------------------------------
(* What follows from the invariant for two chains. *)

\* The fields of a valid chain, block by block.
LEMMA ValidChainAt ==
  ASSUME NEW node \in NodeStates, ValidChain(node), NEW i \in DOMAIN node.blocks
  PROVE  /\ node.blocks[i] \in Block
         /\ i \in Nat \ {0}
         /\ node.blocks[i].block_height = i - 1
         /\ i # 1 => /\ i - 1 \in DOMAIN node.blocks
                    /\ node.blocks[i].previous_hash = hash_data[node.blocks[i - 1]]
<1>1. node.blocks \in Seq(Block) /\ Len(node.blocks) \in Nat /\ DOMAIN node.blocks = 1..Len(node.blocks)
  BY DEF NodeStates
<1>2. i \in Nat \ {0} /\ (i # 1 => i - 1 \in DOMAIN node.blocks)
  BY <1>1
<1>3. node.blocks[i] \in Block
  BY <1>1
<1>4. QED
  BY <1>2, <1>3 DEF ValidChain, IsLedgerHeightValid, IsLedgerHashChainValid

\* Two valid chains that have a block of the same hash have it at the same
\* place, and the same before it: downwards, from each block to the one whose
\* hash it carries.
LEMMA SameBefore ==
  ASSUME NEW l \in NodeStates, NEW m \in NodeStates, ValidChain(l), ValidChain(m),
         NEW i \in DOMAIN l.blocks, NEW j \in DOMAIN m.blocks,
         hash_data[l.blocks[i]] = hash_data[m.blocks[j]]
  PROVE  i = j /\ \A k \in 1..i : hash_data[l.blocks[k]] = hash_data[m.blocks[k]]
<1>1. i = j
  <2>1. l.blocks[i].block_height = i - 1 /\ m.blocks[j].block_height = j - 1 /\ i \in Nat /\ j \in Nat
    BY ValidChainAt
  <2>2. l.blocks[i].block_height = m.blocks[j].block_height
    BY ValidChainAt, HashDetermines
  <2>3. QED
    BY <2>1, <2>2
<1> DEFINE n == i - 1
           Same(k) == /\ i - k \in DOMAIN l.blocks /\ i - k \in DOMAIN m.blocks
                      /\ hash_data[l.blocks[i - k]] = hash_data[m.blocks[i - k]]
           T == {k \in 0..n : Same(k)}
<1>2. n \in Nat /\ i \in Nat /\ i - 0 = i
  BY ValidChainAt
<1>3. 0 \in T
  BY <1>1, <1>2
<1>4. ASSUME NEW k \in 1..n, k - 1 \in T
      PROVE  k \in T
  <2> DEFINE a == i - (k - 1)
  <2>1. a \in Int /\ a # 1 /\ a - 1 = i - k
    BY <1>2
  <2>2. a \in DOMAIN l.blocks /\ a \in DOMAIN m.blocks /\ hash_data[l.blocks[a]] = hash_data[m.blocks[a]]
    BY <1>4
  <2> HIDE DEF a
  <2>3. l.blocks[a].previous_hash = m.blocks[a].previous_hash
    BY <2>2, ValidChainAt, HashDetermines
  <2>4. /\ a - 1 \in DOMAIN l.blocks /\ a - 1 \in DOMAIN m.blocks
        /\ hash_data[l.blocks[a - 1]] = hash_data[m.blocks[a - 1]]
    BY <2>1, <2>2, <2>3, ValidChainAt
  <2>5. QED
    BY <1>2, <2>1, <2>4
<1>5. \A k \in 1..n : k - 1 \in T => k \in T
  BY <1>4
<1> HIDE DEF T
<1>6. 0..n \subseteq T
  BY <1>2, <1>3, <1>5, InductiveInterval
<1>7. ASSUME NEW k \in 1..i
      PROVE  hash_data[l.blocks[k]] = hash_data[m.blocks[k]]
  <2>1. i - k \in 0..n /\ i - (i - k) = k
    BY <1>2
  <2>2. Same(i - k)
    BY <1>6, <2>1 DEF T
  <2>3. QED
    BY <2>1, <2>2
<1>8. QED
  BY <1>1, <1>7

(***************************************************************************)
(* Chains are one chain up to where they part, and never meet again,       *)
(* whatever is proposed, synced and decided.                               *)
(***************************************************************************)
THEOREM HistoryIsCommon == Spec => []CommonHistory
<1>1. NetInv => CommonHistory
  <2> SUFFICES ASSUME NetInv, NEW n \in Node, NEW p \in Node, NEW i \in DOMAIN nodes[n].blocks,
                      NEW j \in DOMAIN nodes[p].blocks, HashAt(n, i) = HashAt(p, j)
               PROVE  i = j /\ \A k \in 1..i : HashAt(n, k) = HashAt(p, k)
    BY DEF CommonHistory
  <2>1. /\ nodes[n] \in NodeStates /\ ValidChain(nodes[n])
        /\ nodes[p] \in NodeStates /\ ValidChain(nodes[p])
    BY StateTypes DEF NetInv, ChainBacked
  <2>2. QED
    BY <2>1, SameBefore DEF HashAt
<1>2. QED
  BY <1>1, NetInvariant, PTL

\* Where slices intersect and each node nominates one value for a height, no
\* two nodes decide differently.
LEMMA DecisionsAgree ==
  ASSUME NetInv, SlicesIntersect, EachNominatesOnce, NEW n \in Node, NEW p \in Node,
         NEW h \in Height, decided[n][h] # None, decided[p][h] # None
  PROVE  decided[n][h] = decided[p][h]
<1>1. Nominators(h, decided[n][h]) \cap Nominators(h, decided[p][h]) # {}
  BY DEF NetInv, DecisionBacked, SlicesIntersect
<1>2. PICK q : q \in Nominators(h, decided[n][h]) /\ q \in Nominators(h, decided[p][h])
  BY <1>1
<1>3. PICK l \in Nominations : l.from = q /\ l.slot = h /\ l.value = decided[n][h]
  BY <1>2 DEF Nominators
<1>4. PICK m \in Nominations : m.from = q /\ m.slot = h /\ m.value = decided[p][h]
  BY <1>2 DEF Nominators
<1>5. QED
  BY <1>3, <1>4 DEF EachNominatesOnce, Rivals

(***************************************************************************)
(* Finality: two chains whose applications finalized a block of one height *)
(* are the same up to it, if slices intersect and no node nominates two    *)
(* values for one height, with a block or without.                         *)
(***************************************************************************)
THEOREM FinalityAgrees == Spec => []FinalizedHistoryAgrees
<1>1. NetInv => FinalizedHistoryAgrees
  <2> SUFFICES ASSUME NetInv, SlicesIntersect, EachNominatesOnce, NEW n \in Node, NEW p \in Node,
                      NEW h \in finalized[n] \cap finalized[p]
               PROVE  \A i \in 1..(h + 1) : HashAt(n, i) = HashAt(p, i)
    BY DEF FinalizedHistoryAgrees
  <2> DEFINE s == nodes[n].blocks
             t == nodes[p].blocks
  <2>1. /\ nodes[n] \in NodeStates /\ ValidChain(nodes[n]) /\ s \in Seq(Block)
        /\ nodes[p] \in NodeStates /\ ValidChain(nodes[p]) /\ t \in Seq(Block)
        /\ h \in Height
    BY StateTypes DEF NetInv, ChainBacked
  <2>2. /\ h + 1 \in DOMAIN s /\ decided[n][h] = hash_data[s[h + 1]]
        /\ h + 1 \in DOMAIN t /\ decided[p][h] = hash_data[t[h + 1]]
    BY DEF NetInv, FinalizedDecided
  <2>3. s[h + 1] \in Block /\ t[h + 1] \in Block
    BY <2>1, <2>2
  <2>4. decided[n][h] # None /\ decided[p][h] # None
    BY <2>2, <2>3, BlockType
  <2>5. hash_data[s[h + 1]] = hash_data[t[h + 1]]
    BY <2>1, <2>2, <2>4, DecisionsAgree
  <2>6. QED
    BY <2>1, <2>2, <2>5, SameBefore DEF HashAt
<1>2. QED
  BY <1>1, NetInvariant, PTL

-----------------------------------------------------------------------------
(* Chains as sequences of hashes. *)

\* The hashes of a chain are as many as its blocks.
LEMMA HashesType ==
  ASSUME NEW s \in Seq(Block)
  PROVE  /\ HashesOf(s) \in Seq(Hash)
         /\ Len(HashesOf(s)) = Len(s)
         /\ DOMAIN HashesOf(s) = 1..Len(s)
         /\ \A i \in 1..Len(s) : HashesOf(s)[i] = hash_data[s[i]]
<1> DEFINE n == Len(s)
           f == [i \in 1..n |-> hash_data[s[i]]]
<1>1. n \in Nat /\ \A i \in 1..n : hash_data[s[i]] \in Hash
  BY BlockType
<1>2. HashesOf(s) = f
  BY DEF HashesOf
<1> HIDE DEF n
<1>3. f \in Seq(Hash) /\ Len(f) = n
  BY <1>1
<1>4. QED
  BY <1>1, <1>2, <1>3 DEF n

\* A sequence that another one extends is a prefix of it.
LEMMA ExtendsIsPrefix ==
  ASSUME NEW S, NEW s \in Seq(S), NEW t \in Seq(S), Extends(s, t)
  PROVE  IsPrefix(s, t)
<1> DEFINE n == Len(s)
           u == SubSeq(t, 1, n)
           v == SubSeq(s, 1, n)
<1>1. n \in Nat /\ Len(t) \in Nat /\ n <= Len(t)
  BY DEF Extends
<1>2. Len(u) = n /\ \A i \in 1..n : u[i] = t[i]
  BY <1>1
<1>3. Len(v) = n /\ \A i \in 1..n : v[i] = s[i]
  BY <1>1
<1>4. u \in Seq(S) /\ v \in Seq(S)
  BY <1>1
<1>5. \A i \in 1..n : u[i] = v[i]
  BY <1>2, <1>3 DEF Extends
<1> HIDE DEF u, v, n
<1>6. u = v
  BY <1>1, <1>2, <1>3, <1>4, <1>5
<1>7. QED
  BY <1>1, <1>6 DEF IsPrefix, u, v, n

\* The other way round.
LEMMA PrefixIsExtended ==
  ASSUME NEW S, NEW s \in Seq(S), NEW t \in Seq(S), Len(s) <= Len(t),
         \A i \in 1..Len(s) : s[i] = t[i]
  PROVE  IsPrefix(s, t)
  BY ExtendsIsPrefix DEF Extends

(***************************************************************************)
(* As long as no two values are nominated for one height by anyone, nodes  *)
(* with the same genesis have one chain, some more of it than others.      *)
(***************************************************************************)
THEOREM OneChain == Spec => []OneChainWithoutRivals
<1>1. ASSUME NetInv, NoRivals, NEW n \in Node, NEW p \in Node, Genesis[n] = Genesis[p],
             Len(nodes[n].blocks) <= Len(nodes[p].blocks)
      PROVE  IsPrefix(ChainOf(n), ChainOf(p))
  <2> DEFINE s == nodes[n].blocks
             t == nodes[p].blocks
  <2>1. /\ nodes[n] \in NodeStates /\ ValidChain(nodes[n]) /\ s \in Seq(Block)
        /\ nodes[p] \in NodeStates /\ ValidChain(nodes[p]) /\ t \in Seq(Block)
        /\ s[1] = t[1]
    BY <1>1, StateTypes DEF NetInv, ChainBacked
  <2>2. Len(s) \in Nat /\ DOMAIN s = 1..Len(s) /\ Len(t) \in Nat /\ DOMAIN t = 1..Len(t)
    BY <2>1
  <2>3. ASSUME NEW i \in 1..Len(s)
        PROVE  hash_data[s[i]] = hash_data[t[i]]
    <3>1. i \in DOMAIN s /\ i \in DOMAIN t /\ i \in Nat
      BY <1>1, <2>2
    <3>2. CASE i = 1
      BY <2>1, <3>2
    <3>3. CASE i # 1
      <4>1. /\ s[i].block_height = i - 1 /\ t[i].block_height = i - 1
            /\ Backed(s[i]) /\ Backed(t[i])
        BY <1>1, <2>1, <3>1, ValidChainAt DEF NetInv, ChainBacked
      <4>2. Nominators(i - 1, hash_data[s[i]]) # {} /\ Nominators(i - 1, hash_data[t[i]]) # {}
        BY <3>1, <3>3, <4>1 DEF Backed
      <4>3. PICK l \in Nominations : l.slot = i - 1 /\ l.value = hash_data[s[i]]
        BY <4>2 DEF Nominators
      <4>4. PICK m \in Nominations : m.slot = i - 1 /\ m.value = hash_data[t[i]]
        BY <4>2 DEF Nominators
      <4>5. QED
        BY <1>1, <4>3, <4>4 DEF NoRivals, Rivals
    <3>4. QED
      BY <3>2, <3>3
  <2>4. /\ ChainOf(n) \in Seq(Hash) /\ Len(ChainOf(n)) = Len(s)
        /\ \A i \in 1..Len(s) : ChainOf(n)[i] = hash_data[s[i]]
    BY <2>1, HashesType DEF ChainOf
  <2>5. /\ ChainOf(p) \in Seq(Hash) /\ Len(ChainOf(p)) = Len(t)
        /\ \A i \in 1..Len(t) : ChainOf(p)[i] = hash_data[t[i]]
    BY <2>1, HashesType DEF ChainOf
  <2>6. \A i \in 1..Len(ChainOf(n)) : ChainOf(n)[i] = ChainOf(p)[i]
    BY <1>1, <2>2, <2>3, <2>4, <2>5
  <2>7. QED
    BY <1>1, <2>4, <2>5, <2>6, PrefixIsExtended
<1>2. NetInv => OneChainWithoutRivals
  <2> SUFFICES ASSUME NetInv, NoRivals, NEW n \in Node, NEW p \in Node, Genesis[n] = Genesis[p]
               PROVE  IsPrefix(ChainOf(n), ChainOf(p)) \/ IsPrefix(ChainOf(p), ChainOf(n))
    BY DEF OneChainWithoutRivals
  <2>1. Len(nodes[n].blocks) \in Nat /\ Len(nodes[p].blocks) \in Nat
    BY StateTypes DEF NetInv
  <2>2. Len(nodes[n].blocks) <= Len(nodes[p].blocks) \/ Len(nodes[p].blocks) <= Len(nodes[n].blocks)
    BY <2>1
  <2>3. QED
    BY <1>1, <2>2
<1>3. QED
  BY <1>2, NetInvariant, PTL

-----------------------------------------------------------------------------
(* Steps. *)

(***************************************************************************)
(* A pending extrinsic leaves a mempool only in a step that appends a      *)
(* block it is in.                                                         *)
(***************************************************************************)
THEOREM PendingStays == Spec => PendingIsKept
<1> DEFINE Kept(n) ==
      \A tx \in nodes[n].mempool \ nodes'[n].mempool :
        \E i \in DOMAIN nodes'[n].blocks :
          i \notin DOMAIN nodes[n].blocks /\ tx \in Range(nodes'[n].blocks[i].transactions)
<1>1. NetInv /\ [Next]_vars =>
        [\A n \in Node : \A tx \in nodes[n].mempool \ nodes'[n].mempool :
           \E i \in DOMAIN nodes'[n].blocks :
             /\ i \notin DOMAIN nodes[n].blocks
             /\ tx \in Range(nodes'[n].blocks[i].transactions)]_vars
  <2> SUFFICES ASSUME NetInv, [Next]_vars, NEW p \in Node PROVE Kept(p)
    OBVIOUS
  <2>1. nodes[p] \in NodeStates /\ TypeOK /\ SyncBacked /\ ProposalsBacked
    BY StateTypes DEF NetInv
  <2>2. CASE nodes'[p] = nodes[p]
    BY <2>2
  <2>3. ASSUME NEW n \in Node, Changes(n), OnlyChanges(n)
        PROVE  Kept(p)
    <3>1. CASE p # n
      BY <2>1, <2>2, <2>3, <3>1, OthersStay
    <3>2. CASE Keeps(p)
      BY <3>2 DEF Keeps
    <3>3. CASE \E b \in Block : Finalizes(p, b)
      BY <2>1, <3>3, AddBlockType DEF Finalizes
    <3>4. CASE \E bs \in Seq(Block) : Receives(p, bs)
      <4>1. PICK bs \in Seq(Block) : Grown(nodes[p], nodes'[p], bs)
        BY <2>1, <3>4, ReceiveBlocksGrows DEF Receives
      <4>2. QED
        BY <4>1 DEF Grown
    <3>5. QED
      BY <2>3, <3>1, <3>2, <3>3, <3>4 DEF Changes
  <2>4. QED
    BY <2>1, <2>2, <2>3, NextChanges
<1>2. QED
  BY <1>1, NetInvariant, PTL DEF Spec, PendingIsKept

-----------------------------------------------------------------------------
(* The tree of hashes that the nodes walk down. *)

\* The block of a hash carries the hash of its parent, whichever block of that
\* hash one looks at.
LEMMA ParentIs ==
  ASSUME NEW b \in Block
  PROVE  Parent[hash_data[b]] = b.previous_hash
<1> DEFINE v == hash_data[b]
           c == CHOOSE c \in Block : hash_data[c] = v
<1>1. v \in Hash
  BY BlockType
<1>2. c \in Block /\ hash_data[c] = v
  OBVIOUS
<1>3. c.previous_hash = b.previous_hash
  BY <1>2, HashDetermines
<1>4. Parent[v] = c.previous_hash
  BY <1>1 DEF Parent
<1>5. QED
  BY <1>3, <1>4

\* A valid chain is a path of the tree.
LEMMA ChainIsPath ==
  ASSUME NEW n \in Node, NEW node \in NodeStates, ValidChain(node), node.blocks[1] = Genesis[n]
  PROVE  Tree!IsPath(n, HashesOf(node.blocks))
<1> DEFINE s == node.blocks
           q == HashesOf(s)
<1>1. s \in Seq(Block) /\ s # <<>> /\ Len(s) \in Nat /\ DOMAIN s = 1..Len(s)
  BY DEF NodeStates, ValidChain
<1>2. Len(s) # 0 /\ 1 \in 1..Len(s)
  BY <1>1
<1>3. q \in Seq(Hash) /\ Len(q) = Len(s) /\ \A i \in 1..Len(s) : q[i] = hash_data[s[i]]
  BY <1>1, HashesType
<1> HIDE DEF q
<1>4. q \in Seq(Hash) \ {<<>>}
  BY <1>1, <1>2, <1>3
<1>5. q[1] = [m \in Node |-> hash_data[Genesis[m]]][n]
  BY <1>2, <1>3
<1>6. ASSUME NEW i \in 2..Len(q)
      PROVE  Parent[q[i]] = q[i - 1]
  <2>1. i \in 1..Len(s) /\ i - 1 \in 1..Len(s) /\ i # 1
    BY <1>1, <1>3
  <2>2. s[i] \in Block /\ s[i].previous_hash = hash_data[s[i - 1]]
    BY <1>1, <2>1, ValidChainAt
  <2>3. QED
    BY <1>3, <2>1, <2>2, ParentIs
<1>7. QED
  BY <1>4, <1>5, <1>6 DEF Tree!IsPath, q

(***************************************************************************)
(* Seen from outside, nodes walk down one tree of hashes, from their       *)
(* genesis, and never back up.                                             *)
(***************************************************************************)
THEOREM BlockTreeImplemented == Spec => ImplementsBlockTree
<1> DEFINE path == [n \in Node |-> ChainOf(n)]
<1>1. Init => Tree!Init
  <2> SUFFICES ASSUME Init PROVE Tree!Init
    OBVIOUS
  <2>1. ASSUME NEW n \in Node
        PROVE  ChainOf(n) = <<hash_data[Genesis[n]]>>
    <3> DEFINE g == <<Genesis[n]>>
               q == HashesOf(g)
    <3>1. nodes[n].blocks = g
      BY DEF Init, NewNode
    <3>2. g \in Seq(Block) /\ Len(g) = 1 /\ g[1] = Genesis[n]
      BY GenesisType
    <3> HIDE DEF g
    <3>3. q \in Seq(Hash) /\ Len(q) = 1 /\ q[1] = hash_data[Genesis[n]]
      BY <3>2, HashesType
    <3> HIDE DEF q
    <3>4. q = <<hash_data[Genesis[n]]>>
      BY <3>3
    <3>5. QED
      BY <3>1, <3>4 DEF ChainOf, q
  <2>2. QED
    BY <2>1 DEF Tree!Init
<1>2. NetInv /\ NetInv' /\ [Next]_vars => [Tree!Next]_path
  <2> SUFFICES ASSUME NetInv, NetInv', [Next]_vars PROVE [Tree!Next]_path
    OBVIOUS
  <2>1. TypeOK /\ SyncBacked /\ ProposalsBacked
    BY DEF NetInv
  <2>2. path' = [n \in Node |-> HashesOf(nodes'[n].blocks)]
    BY DEF ChainOf
  <2>3. CASE UNCHANGED <<nodes, finalized>>
    BY <2>2, <2>3 DEF ChainOf
  <2>4. ASSUME NEW n \in Node, OnlyChanges(n)
        PROVE  [Tree!Next]_path
    <3> DEFINE s == nodes[n].blocks
               t == nodes'[n].blocks
               q == HashesOf(s)
               r == HashesOf(t)
    <3>1. \A p \in Node : p # n => nodes'[p] = nodes[p]
      BY <2>1, <2>4, OthersStay
    <3>2. path' = [path EXCEPT ![n] = r]
      BY <2>2, <3>1 DEF ChainOf
    <3>3. /\ nodes'[n] \in NodeStates /\ ValidChain(nodes'[n])
          /\ t[1] = Genesis[n]
      BY DEF NetInv, TypeOK, NodeStates, ChainBacked
    <3>4. Tree!IsPath(n, r)
      BY <3>3, ChainIsPath
    <3>5. s \in Seq(Block) /\ t \in Seq(Block) /\ Extends(s, t)
      BY <2>1, <3>3, StateTypes, NextGrows DEF NodeStates
    <3>6. /\ q \in Seq(Hash) /\ Len(q) = Len(s) /\ \A i \in 1..Len(s) : q[i] = hash_data[s[i]]
          /\ r \in Seq(Hash) /\ Len(r) = Len(t) /\ \A i \in 1..Len(t) : r[i] = hash_data[t[i]]
      BY <3>5, HashesType
    <3>7. IsPrefix(q, r)
      <4> HIDE DEF q, r
      <4>1. Len(s) \in Nat /\ Len(t) \in Nat
        BY <3>5
      <4>2. \A i \in 1..Len(q) : q[i] = r[i]
        BY <3>5, <3>6, <4>1 DEF Extends
      <4>3. QED
        BY <3>5, <3>6, <4>2, PrefixIsExtended DEF Extends
    <3>8. path[n] = q /\ path'[n] = r
      BY <2>2 DEF ChainOf
    <3>9. CASE q = r
      BY <3>2, <3>8, <3>9
    <3>10. CASE q # r
      <4>1. Tree!IsStrictPrefix(q, r)
        BY <3>7, <3>10 DEF Tree!IsStrictPrefix, Tree!IsPrefix, IsPrefix
      <4>2. Tree!IsPath(n, path'[n]) /\ Tree!IsStrictPrefix(path[n], path'[n])
        BY <3>4, <3>8, <4>1
      <4>3. path' = [path EXCEPT ![n] = path'[n]]
        BY <3>2, <3>8
      <4>4. Tree!Descend(n)
        BY <4>2, <4>3 DEF Tree!Descend
      <4>5. QED
        BY <4>4 DEF Tree!Next
    <3>11. QED
      BY <3>9, <3>10
  <2>5. QED
    BY <2>1, <2>3, <2>4, NextChanges
<1>3. QED
  BY <1>1, <1>2, NetInvariant, PTL DEF Spec, ImplementsBlockTree, Tree!Spec

-----------------------------------------------------------------------------
(* The accounts as a result of the chain. *)

RunBlock(done, accounts, b) ==
  IF b.block_height \in done THEN accounts ELSE Apply(accounts, b.transactions)

\* The accounts that AccountsFollowChain demands, done being the finalized heights.
RunChain(done, bs) ==
  FoldLeft(LAMBDA accounts, b : IF b.block_height \in done THEN accounts
                                ELSE Apply(accounts, b.transactions),
           NewLedgerState, bs)

RunSteps(done, bs) ==
  [i \in 1..Len(bs) |-> [a \in LedgerStates |-> RunBlock(done, a, bs[i])]]

\* They are the last of the accounts after each block.
LEMMA RunChainSteps ==
  ASSUME NEW done, NEW bs \in Seq(Block)
  PROVE  \E h : /\ AreSteps(h, LedgerStates, Len(bs), RunSteps(done, bs), NewLedgerState)
                /\ RunChain(done, bs) = h[Len(bs)]
<1> DEFINE n == Len(bs)
           S == LedgerStates
           step == RunSteps(done, bs)
           Is(f) == f = [s \in SUBSET DOMAIN bs |->
                           IF s = {} THEN NewLedgerState
                           ELSE RunBlock(done, f[s \ {Max(s)}], bs[Max(s)])]
           f == CHOOSE g : Is(g)
<1>1. n \in Nat /\ DOMAIN bs = 1..n /\ \A i \in 1..n : bs[i] \in Block
  OBVIOUS
<1>2. step \in [1..n -> [S -> S]]
  BY <1>1, ApplyType, BlockType DEF RunBlock, RunSteps
<1>3. ASSUME NEW i \in 1..n, NEW a \in S
      PROVE  step[i][a] = RunBlock(done, a, bs[i])
  BY DEF RunSteps
<1>4. RunChain(done, bs) = f[1..n]
  BY <1>1, Zenon DEF RunChain, FoldLeft, MapThenFoldSet, RunBlock
<1>0. NewLedgerState \in S
  BY NewLedgerStateType
<1> HIDE DEF step, n, S
<1>5. \A s \in (SUBSET (1..n)) \ {{}} : Max(s) \in 1..n /\ s \ {Max(s)} \in SUBSET (1..n)
  BY <1>1, MaxOfSubset
<1>6. \E g : Is(g)
  <2>1. PICK g \in [SUBSET (1..n) -> S] : IsFold(g, S, n, step, NewLedgerState)
    BY <1>0, <1>1, <1>2, FoldCanBeTaken
  <2>2. \A s \in SUBSET (1..n) :
          g[s] = IF s = {} THEN NewLedgerState ELSE RunBlock(done, g[s \ {Max(s)}], bs[Max(s)])
    BY <1>3, <1>5, <2>1 DEF IsFold
  <2>3. Is(g)
    BY <1>1, <2>1, <2>2
  <2>4. QED
    BY <2>3
<1>7. Is(f)
  BY <1>6
<1> HIDE DEF f
<1>8. IsFold(f, S, n, step, NewLedgerState)
  BY <1>1, <1>3, <1>5, <1>7 DEF IsFold
<1>9. QED
  BY <1>0, <1>1, <1>2, <1>4, <1>8, FoldIsSteps DEF n, S, step

\* They depend on the finalized heights that occur in the chain, and on no others.
LEMMA RunChainSame ==
  ASSUME NEW bs \in Seq(Block), NEW done, NEW more,
         \A i \in 1..Len(bs) : bs[i].block_height \in done <=> bs[i].block_height \in more
  PROVE  RunChain(done, bs) = RunChain(more, bs)
<1> DEFINE n == Len(bs)
<1>1. n \in Nat /\ n \in 0..n
  OBVIOUS
<1>2. PICK h : AreSteps(h, LedgerStates, n, RunSteps(done, bs), NewLedgerState) /\ RunChain(done, bs) = h[n]
  BY RunChainSteps
<1>3. PICK g : AreSteps(g, LedgerStates, n, RunSteps(more, bs), NewLedgerState) /\ RunChain(more, bs) = g[n]
  BY RunChainSteps
<1>4. SameSteps(RunSteps(done, bs), RunSteps(more, bs), n, LedgerStates)
  BY DEF SameSteps, RunSteps, RunBlock
<1> HIDE DEF n
<1>5. h[n] = g[n]
  BY <1>1, <1>2, <1>3, <1>4, StepsAgree
<1>6. QED
  BY <1>2, <1>3, <1>5

\* A block more is run on the accounts so far.
LEMMA RunChainAppend ==
  ASSUME NEW done, NEW bs \in Seq(Block), NEW b \in Block
  PROVE  RunChain(done, Append(bs, b)) = RunBlock(done, RunChain(done, bs), b)
<1> DEFINE more == Append(bs, b)
           n == Len(bs)
<1>1. /\ n \in Nat /\ more \in Seq(Block) /\ Len(more) = n + 1
      /\ more[n + 1] = b /\ \A i \in 1..n : more[i] = bs[i]
  OBVIOUS
<1> HIDE DEF more
<1>2. PICK h : AreSteps(h, LedgerStates, n, RunSteps(done, bs), NewLedgerState) /\ RunChain(done, bs) = h[n]
  BY RunChainSteps
<1>3. PICK g : /\ AreSteps(g, LedgerStates, Len(more), RunSteps(done, more), NewLedgerState)
               /\ RunChain(done, more) = g[Len(more)]
  BY <1>1, RunChainSteps
<1> HIDE DEF n
<1>4. AreSteps(g, LedgerStates, n + 1, RunSteps(done, more), NewLedgerState) /\ RunChain(done, more) = g[n + 1]
  BY <1>1, <1>3
<1>5. SameSteps(RunSteps(done, more), RunSteps(done, bs), n, LedgerStates)
  BY <1>1 DEF SameSteps, RunSteps, n
<1>6. n + 1 \in Nat /\ n \in 0..(n + 1)
  BY <1>1
<1>7. \A k \in 0..n : g[k] = h[k]
  BY <1>2, <1>4, <1>5, <1>6, StepsAgree
<1>8. g[n] = h[n] /\ g[n] \in LedgerStates
  BY <1>1, <1>4, <1>7 DEF AreSteps
<1>9. g[n + 1] = RunSteps(done, more)[n + 1][g[n]]
  BY <1>1, <1>4 DEF AreSteps
<1>10. g[n + 1] = RunBlock(done, g[n], b)
  BY <1>1, <1>8, <1>9 DEF RunSteps
<1>11. QED
  BY <1>2, <1>4, <1>8, <1>10 DEF more

Follows(node, done) == node.accounts = RunChain(done, Tail(node.blocks))

\* Accounts follow the chain still when a block is appended that is run, or
\* counted as finalized.
LEMMA FollowsAppend ==
  ASSUME NEW node \in NodeStates, NEW node2 \in NodeStates, NEW done, NEW b \in Block,
         node.blocks # <<>>, Follows(node, done),
         node2.blocks = Append(node.blocks, b),
         node2.accounts = RunBlock(done, node.accounts, b)
  PROVE  Follows(node2, done)
<1>1. node.blocks \in Seq(Block)
  BY DEF NodeStates
<1>2. Tail(node2.blocks) = Append(Tail(node.blocks), b) /\ Tail(node.blocks) \in Seq(Block)
  BY <1>1, HeadTailAppend, HeadTailProperties
<1>3. QED
  BY <1>2, RunChainAppend DEF Follows

\* A block received is run if it is appended, and was not finalized before.
LEMMA FollowsReceive ==
  ASSUME NEW node \in NodeStates, ValidChain(node), NEW done, NEW b \in Block,
         \A h \in done : h \in Nat /\ h < Len(node.blocks), Follows(node, done)
  PROVE  Follows(ReceiveBlock(node, b), done)
<1>1. CASE ~CanAdd(node.blocks, b)
  BY <1>1, ReceiveBlockType
<1>2. CASE CanAdd(node.blocks, b)
  <2> DEFINE node2 == ReceiveBlock(node, b)
  <2>1. /\ node2 \in NodeStates
        /\ node2.blocks = Append(node.blocks, b)
        /\ node2.current_slot = b.block_height + 1
        /\ node2.accounts = Apply(node.accounts, b.transactions)
    BY <1>2, ReceiveBlockType
  <2> HIDE DEF node2
  <2>2. b.block_height = Len(node.blocks)
    BY <1>2, <2>1, AddBlockValid
  <2>3. b.block_height \notin done
    BY <2>2 DEF NodeStates
  <2>4. node2.accounts = RunBlock(done, node.accounts, b) /\ node.blocks # <<>>
    BY <2>1, <2>3 DEF RunBlock, ValidChain
  <2>5. Follows(node2, done)
    BY <2>1, <2>4, FollowsAppend
  <2>6. QED
    BY <2>5 DEF node2
<1>3. QED
  BY <1>1, <1>2

\* Accounts that follow a chain do so after a response of any length.
LEMMA FollowsReceives ==
  ASSUME NEW node \in NodeStates, ValidChain(node), NEW done, NEW bs \in Seq(Block),
         \A h \in done : h \in Nat /\ h < Len(node.blocks), Follows(node, done)
  PROVE  Follows(ReceiveBlocks(node, bs), done)
<1>1. Len(bs) \in Nat /\ Len(node.blocks) \in Nat
  BY DEF NodeStates
<1>2. PICK h : /\ AreSteps(h, NodeStates, Len(bs), ReceiveSteps(bs), node)
               /\ ReceiveBlocks(node, bs) = h[Len(bs)]
               /\ \A i \in 1..Len(bs) : h[i] = ReceiveBlock(h[i - 1], bs[i])
  BY ReceiveBlocksSteps
<1>3. h[0] = node /\ \A k \in 0..Len(bs) : h[k] \in NodeStates
  BY <1>2 DEF AreSteps
<1> DEFINE T == {k \in 0..Len(bs) : /\ ValidChain(h[k]) /\ Follows(h[k], done)
                                    /\ Len(node.blocks) <= Len(h[k].blocks)}
<1>4. 0 \in T
  BY <1>1, <1>3
<1>5. ASSUME NEW k \in 1..Len(bs), k - 1 \in T
      PROVE  k \in T
  <2> DEFINE m == h[k - 1]
             b == bs[k]
  <2>1. m \in NodeStates /\ b \in Block /\ h[k] = ReceiveBlock(m, b) /\ k \in DOMAIN bs /\ h[k] \in NodeStates
    BY <1>1, <1>2, <1>3
  <2>2. ValidChain(m) /\ Follows(m, done) /\ Len(node.blocks) <= Len(m.blocks)
    BY <1>5
  <2>3. ValidChain(h[k]) /\ Extends(m.blocks, h[k].blocks)
    BY <2>1, <2>2, ReceiveBlockGrows DEF Grown
  <2> HIDE DEF m, b
  <2>4. Len(m.blocks) \in Nat /\ Len(h[k].blocks) \in Nat
    BY <2>1 DEF NodeStates
  <2>5. \A i \in done : i \in Nat /\ i < Len(m.blocks)
    BY <1>1, <2>2, <2>4
  <2>6. Follows(h[k], done)
    BY <2>1, <2>2, <2>5, FollowsReceive
  <2>7. Len(node.blocks) <= Len(h[k].blocks)
    BY <1>1, <2>2, <2>3, <2>4 DEF Extends
  <2>8. QED
    BY <2>3, <2>6, <2>7
<1>6. \A k \in 1..Len(bs) : k - 1 \in T => k \in T
  BY <1>5
<1> HIDE DEF T
<1>7. 0..Len(bs) \subseteq T
  BY <1>1, <1>4, <1>6, InductiveInterval
<1>8. Len(bs) \in T
  BY <1>1, <1>7
<1>9. QED
  BY <1>2, <1>8 DEF T

(***************************************************************************)
(* The accounts of a node are what one gets by running the blocks of its   *)
(* chain, each once, in order, but for those that its application appended *)
(* by finalize_consensus_block.                                            *)
(***************************************************************************)
THEOREM AccountsAreOfChain == Spec => []AccountsFollowChain
<1> DEFINE Following == \A n \in Node : Follows(nodes[n], finalized[n])
<1>1. AccountsFollowChain <=> Following
  BY DEF AccountsFollowChain, Follows, RunChain
<1>2. Init => Following
  <2> SUFFICES ASSUME Init, NEW n \in Node PROVE Follows(nodes[n], finalized[n])
    OBVIOUS
  <2> DEFINE g == <<Genesis[n]>>
             e == Tail(g)
  <2>1. nodes[n].blocks = g /\ nodes[n].accounts = NewLedgerState
    BY DEF Init, NewNode
  <2>2. e \in Seq(Block) /\ Len(e) = 0
    BY GenesisType
  <2> HIDE DEF e, g
  <2>3. RunChain(finalized[n], e) = NewLedgerState
    BY <2>2, RunChainSteps DEF AreSteps
  <2>4. QED
    BY <2>1, <2>3 DEF Follows, e
<1>3. NetInv /\ Following /\ [Next]_vars => Following'
  <2> SUFFICES ASSUME NetInv, Following, [Next]_vars, NEW p \in Node
               PROVE  Follows(nodes'[p], finalized'[p])
    OBVIOUS
  <2> DEFINE s == nodes[p].blocks
             done == finalized[p]
  <2>1. /\ nodes[p] \in NodeStates /\ TypeOK /\ SyncBacked /\ ProposalsBacked
        /\ ValidChain(nodes[p])
        /\ Follows(nodes[p], done) /\ s \in Seq(Block) /\ Len(s) \in Nat /\ s # <<>>
        /\ DOMAIN s = 1..Len(s)
    BY StateTypes DEF NetInv, ChainBacked, ValidChain
  <2>2. \A h \in done : h \in Nat /\ h < Len(s)
    <3>1. \A h \in Height : h \in Nat
      BY BlockType DEF Height
    <3>2. QED
      BY <2>1, <3>1, StateTypes DEF NetInv, FinalizedDecided
  <2>3. CASE nodes'[p] = nodes[p] /\ finalized'[p] = finalized[p]
    BY <2>1, <2>3
  <2>4. ASSUME NEW n \in Node, Changes(n), OnlyChanges(n)
        PROVE  Follows(nodes'[p], finalized'[p])
    <3>1. CASE p # n
      BY <2>1, <2>3, <2>4, <3>1, OthersStay
    <3>2. CASE Keeps(p)
      BY <2>1, <3>2 DEF Keeps, Follows
    <3>3. ASSUME NEW b \in Block, Finalizes(p, b)
          PROVE  Follows(nodes'[p], finalized'[p])
      <4> DEFINE more == done \cup {b.block_height}
      <4>1. /\ nodes'[p] = AddBlock(nodes[p], b) /\ CanAdd(s, b)
            /\ finalized'[p] = more
        BY <3>3 DEF Finalizes
      <4>2. /\ nodes'[p] \in NodeStates
            /\ nodes'[p].blocks = Append(s, b)
            /\ nodes'[p].current_slot = b.block_height + 1
            /\ nodes'[p].accounts = nodes[p].accounts
        BY <2>1, <4>1, AddBlockType
      <4>3. b.block_height = Len(s)
        BY <2>1, <4>1, <4>2, AddBlockValid
      <4>4. /\ Tail(s) \in Seq(Block)
            /\ \A i \in 1..Len(Tail(s)) : i + 1 \in DOMAIN s /\ Tail(s)[i] = s[i + 1]
        BY <2>1, HeadTailProperties
      <4>5. \A i \in 1..Len(Tail(s)) : Tail(s)[i].block_height = i /\ i # Len(s)
        <5> SUFFICES ASSUME NEW i \in 1..Len(Tail(s)) PROVE Tail(s)[i].block_height = i /\ i # Len(s)
          OBVIOUS
        <5>1. s[i + 1].block_height = (i + 1) - 1
          BY <2>1, <4>4, ValidChainAt
        <5>2. QED
          BY <2>1, <4>4, <5>1
      <4>6. RunChain(done, Tail(s)) = RunChain(more, Tail(s))
        <5>1. \A i \in 1..Len(Tail(s)) :
                Tail(s)[i].block_height \in done <=> Tail(s)[i].block_height \in more
          BY <4>3, <4>5
        <5> HIDE DEF more, done, s
        <5>2. QED
          BY <4>4, <5>1, RunChainSame
      <4>7. Follows(nodes[p], more)
        BY <2>1, <4>6 DEF Follows
      <4>8. nodes'[p].accounts = RunBlock(more, nodes[p].accounts, b)
        BY <4>2 DEF RunBlock
      <4>9. QED
        BY <2>1, <4>1, <4>2, <4>7, <4>8, FollowsAppend
    <3>4. CASE \E bs \in Seq(Block) : Receives(p, bs)
      BY <2>1, <2>2, <3>4, FollowsReceives DEF Receives
    <3>5. QED
      BY <2>4, <3>1, <3>2, <3>3, <3>4 DEF Changes
  <2>5. QED
    BY <2>1, <2>3, <2>4, NextChanges
<1> HIDE DEF Following
<1>4. QED
  BY <1>1, <1>2, <1>3, NetInvariant, PTL DEF Spec
=============================================================================
