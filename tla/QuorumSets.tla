----------------------------- MODULE QuorumSets -----------------------------
(***************************************************************************)
(* The quorum sets of consensus.rs.  Every node is configured with its own *)
(* QuorumSet: a threshold and a Vec of validator public keys.  A public    *)
(* key is abstracted to the node that holds it.  validators stays a        *)
(* sequence, because is_quorum_slice counts positions of the Vec: a key    *)
(* listed twice weighs two.                                                *)
(***************************************************************************)
EXTENDS Naturals, FiniteSets, Sequences

CONSTANTS
  Node,        \* the participants: validators, and nodes that only observe
  quorum_set   \* quorum_set[n]: the QuorumSet node n is started with

ASSUME QuorumSetAssumption ==
  quorum_set \in [Node -> [threshold : Nat, validators : Seq(Node)]]

\* The positions of n's validator list whose key occurs in votes.
Matches(n, votes) ==
  {i \in DOMAIN quorum_set[n].validators : quorum_set[n].validators[i] \in votes}

\* QuorumSet::is_quorum_slice
IsQuorumSlice(n, votes) ==
  \/ quorum_set[n].threshold = 0
  \/ Cardinality(Matches(n, votes)) >= quorum_set[n].threshold

\* The is_validator test of check_state_transitions.
IsValidator(n) ==
  \E i \in DOMAIN quorum_set[n].validators : quorum_set[n].validators[i] = n

(***************************************************************************)
(* Any two slices, of any two nodes, share a voter.  The code does not     *)
(* check this of the quorum sets it is given; it is a hypothesis of the    *)
(* agreement properties.                                                   *)
(***************************************************************************)
QuorumIntersection ==
  \A n1, n2 \in Node : \A V1, V2 \in SUBSET Node :
    IsQuorumSlice(n1, V1) /\ IsQuorumSlice(n2, V2) => V1 \cap V2 # {}
=============================================================================
