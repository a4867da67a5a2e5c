-------------------------- MODULE MCConsensusNode --------------------------
(* Instances of ConsensusNode: the quorum sets of self for TLC. *)
EXTENDS ConsensusNode

CONSTANTS n1, n2, n3

Uniform(threshold, validators) ==
  [n \in Node |-> [threshold |-> threshold, validators |-> validators]]

\* Both nodes are validators and both must vote.
TwoOfTwo == Uniform(2, <<n1, n2>>)

\* self is not on its own list, and n2 is listed twice.
Observer == Uniform(2, <<n2, n2, n3>>)
=============================================================================
