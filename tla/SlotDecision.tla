---------------------------- MODULE SlotDecision ----------------------------
(***************************************************************************)
(* What the consensus of a slot promises, without phases, votes, messages  *)
(* or quorum sets: nodes nominate values, and a node decides at most once  *)
(* in a slot, for a value whose nominators are a sufficient set.           *)
(***************************************************************************)
CONSTANTS
  Node, Slot, Value,
  None,        \* no decision
  Sufficient   \* the sets of nodes whose nomination is enough

VARIABLES
  nominators,  \* nominators[s][v]: the nodes that nominated v in slot s
  decided      \* decided[n][s]: the value node n decided in slot s, or None

vars == <<nominators, decided>>

Init ==
  /\ nominators = [s \in Slot |-> [v \in Value |-> {}]]
  /\ decided = [n \in Node |-> [s \in Slot |-> None]]

MayNominate(n, s, v) ==
  \/ UNCHANGED nominators
  \/ nominators' = [nominators EXCEPT ![s][v] = @ \cup {n}]

MayDecide(n, s, v) ==
  \/ UNCHANGED decided
  \/ /\ nominators'[s][v] \in Sufficient
     /\ decided' = [decided EXCEPT ![n][s] = v]

\* Both at once: a nomination may be the one that decides.
Step(n, s, v) ==
  /\ decided[n][s] = None
  /\ MayNominate(n, s, v)
  /\ MayDecide(n, s, v)

Next == \E n \in Node, s \in Slot, v \in Value : Step(n, s, v)

Spec == Init /\ [][Next]_vars
=============================================================================
