------------------------- MODULE MCConsensusNetwork -------------------------
(* Instances of ConsensusNetwork: quorum sets and symmetries for TLC. *)
EXTENDS ConsensusNetwork, TLC

CONSTANTS n1, n2, n3

Uniform(threshold, validators) ==
  [n \in Node |-> [threshold |-> threshold, validators |-> validators]]

\* Both nodes must vote.
TwoOfTwo == Uniform(2, <<n1, n2>>)

\* n1 decides alone (the default of Node::new), n2 follows n1.
Leader == Uniform(1, <<n1>>)

\* The usual majority.
TwoOfThree == Uniform(2, <<n1, n2, n3>>)

\* Different lists: n1 insists on n2; n2 also counts n3; n3, on no list of its
\* own, follows the other two.
Mixed == [n \in Node |->
  [threshold  |-> 2,
   validators |-> IF n = n2 THEN <<n1, n2, n3>> ELSE <<n1, n2>>]]

\* Bound: three nominations in all, so that each node may nominate, and some
\* node may nominate both values against one other.
FewNominations == Cardinality({m \in msgs : m.msg_type = "Nominate"}) <= 3

\* n1, whose application processes messages itself, is apart from the others.
OthersAndValues == Permutations({n2, n3}) \cup Permutations(Value)
=============================================================================
