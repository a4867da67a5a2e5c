------------------------------- MODULE Blocks -------------------------------
(***************************************************************************)
(* Blocks and what makes a sequence of them a chain (ledger.rs): heights   *)
(* without a gap, and each block carrying the hash of the one before it.   *)
(***************************************************************************)
EXTENDS LedgerState

CONSTANTS
  Hash,       \* block hashes, as strings
  NoHash,     \* "", the previous hash of a first block
  Block,      \* the blocks that can be built
  hash_data   \* Block::hash_data

\* The timestamp only tells blocks apart, as the signer does.
ASSUME BlockAssumption ==
  /\ Block \subseteq [transactions : Seq(Tx), previous_hash : Hash \cup {NoHash},
                      signer : Key, block_height : Nat, signature : Key \cup {None}]
  /\ NoHash \notin Hash
  /\ None \notin Hash

\* What is hashed of an extrinsic and of a block: all but the signatures, and
\* no payload as the empty one.
HashedExtrinsic(tx) ==
  [tx EXCEPT !.signature = None, !.payload = IF @ = None THEN EmptyText ELSE @]

HashedBlock(b) ==
  [b EXCEPT !.transactions = [i \in DOMAIN @ |-> HashedExtrinsic(@[i])],
            !.signature    = None]

(***************************************************************************)
(* What is hashed determines the hash.  The other way round, only as much  *)
(* as freedom of collisions gives: the fields are hashed without           *)
(* separators, so the text of an extrinsic may be cut at another place,    *)
(* but the height is hashed in eight bytes at a fixed place from the end,  *)
(* and the previous hash is 64 digits or none between transaction hashes   *)
(* and a key.                                                              *)
(***************************************************************************)
ASSUME HashAssumption ==
  /\ hash_data \in [Block -> Hash]
  /\ \A b, c \in Block :
       /\ HashedBlock(b) = HashedBlock(c) => hash_data[b] = hash_data[c]
       /\ hash_data[b] = hash_data[c] =>
            b.block_height = c.block_height /\ b.previous_hash = c.previous_hash

\* Wallet::new_block.
NewBlock(public_key, transactions, previous_hash, block_height) ==
  [transactions |-> transactions, previous_hash |-> previous_hash,
   signer |-> public_key, block_height |-> block_height, signature |-> public_key]

\* The first block of a ledger that Ledger::new_with_genesis_signer makes.
NewGenesis(public_key) == NewBlock(public_key, <<>>, NoHash, 0)

IsBlockHeightValid(blocks, b) ==
  b.block_height = IF blocks = <<>> THEN 0 ELSE Last(blocks).block_height + 1

IsPreviousHashValid(blocks, b) ==
  b.previous_hash = IF blocks = <<>> THEN NoHash ELSE hash_data[Last(blocks)]

\* Deliberately wrong variants, used by mutation runs.
CanAddAtAnyHeight(blocks, b) == IsPreviousHashValid(blocks, b)

CanAddUnlinked(blocks, b) == IsBlockHeightValid(blocks, b)

CanAdd(blocks, b) == IsBlockHeightValid(blocks, b) /\ IsPreviousHashValid(blocks, b)

IsLedgerHeightValid(blocks) == \A i \in DOMAIN blocks : blocks[i].block_height = i - 1

IsLedgerHashChainValid(blocks) ==
  \A i \in DOMAIN blocks :
    blocks[i].previous_hash = IF i = 1 THEN NoHash ELSE hash_data[blocks[i - 1]]

HashesOf(blocks) == [i \in DOMAIN blocks |-> hash_data[blocks[i]]]
=============================================================================
