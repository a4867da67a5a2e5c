-------------------------- MODULE ConsensusNetwork --------------------------
(***************************************************************************)
(* Nodes that run the consensus of consensus.rs against each other, as     *)
(* node.rs drives it: propose_consensus_value and propose_block_consensus  *)
(* nominate and broadcast the signed nomination; handle_event feeds every  *)
(* ConsensusMessage that arrives to process_message, and signs and         *)
(* broadcasts the reply; process_consensus_message feeds one to it for the *)
(* application, which gets the reply.                                      *)
(*                                                                         *)
(* msgs is every message ever broadcast.  A message may be delivered to    *)
(* any node but its sender, any number of times, in any order, or never:   *)
(* the set covers duplication, reordering and loss.  An application may    *)
(* also process a message of its own node.  All nodes run this             *)
(* program, so a message in msgs is signed by its sender.  The ledger      *)
(* mutex makes an operation atomic; the broadcast that follows it outside  *)
(* the lock needs no step of its own, since delivery is arbitrarily late.  *)
(*                                                                         *)
(* A crashed node stops for good: consensus state is held in memory only.  *)
(***************************************************************************)
EXTENDS SlotState

CONSTANTS
  Proposer,    \* the nodes whose application proposes values
  Feeder,      \* the nodes whose application processes messages itself
  MaxCrashes   \* bound: how many nodes may crash

ASSUME NetworkAssumption ==
  Proposer \subseteq Node /\ Feeder \subseteq Node /\ MaxCrashes \in Nat

VARIABLES
  slot_states,  \* slot_states[n][s]: the SlotState of slot s at node n
  msgs,         \* the messages broadcast so far
  up            \* the nodes that have not crashed

vars == <<slot_states, msgs, up>>

Externalized(n, s) == slot_states[n][s].phase = "Externalized"

Init ==
  /\ slot_states = [n \in Node |-> [s \in Slot |-> NewSlotState]]
  /\ msgs = {}
  /\ up = Node

\* Consensus::nominate, through propose_consensus_value or
\* propose_block_consensus.  A transition it sets off is not announced.
Nominate(n, s, v) ==
  /\ n \in up
  /\ ~Externalized(n, s)
  /\ slot_states' = [slot_states EXCEPT ![n][s] = AfterNominate(n, @, v)]
  /\ msgs' = msgs \cup {Sign(n, NewMessage(s, n, "Nominate", v))}
  /\ UNCHANGED up

After(n, m) == AfterMessage(n, slot_states[n][m.slot], m)

\* The reply to m, signed, or none.
Answer(n, m) == {Sign(n, r) : r \in Replies(n, slot_states[n][m.slot], After(n, m), m)}

\* process_message accepts m, and sent is broadcast after it.
Process(n, m, sent) ==
  /\ n \in up
  /\ VerifySignature(m)
  /\ ~Externalized(n, m.slot)
  /\ slot_states' = [slot_states EXCEPT ![n][m.slot] = After(n, m)]
  /\ msgs' = msgs \cup sent
  /\ UNCHANGED up

\* handle_event on a ConsensusMessage, up to the broadcast of the reply.
Deliver(n, m) == n # m.sender_id /\ Process(n, m, Answer(n, m))

\* The reply is returned, not signed and not broadcast.
ProcessConsensusMessage(n, m) == Process(n, m, {})

\* The event loop takes a message from its queue.
HandleMessage(n) == \E m \in msgs : Deliver(n, m)

Crash(n) ==
  /\ n \in up
  /\ Cardinality(Node \ up) < MaxCrashes
  /\ up' = up \ {n}
  /\ UNCHANGED <<slot_states, msgs>>

Next ==
  \/ \E n \in Proposer, s \in Slot, v \in Value : Nominate(n, s, v)
  \/ \E n \in Node : HandleMessage(n)
  \/ \E n \in Feeder, m \in msgs : ProcessConsensusMessage(n, m)
  \/ \E n \in Node : Crash(n)

Spec == Init /\ [][Next]_vars

(***************************************************************************)
(* Fairness: as long as some node that is up has a message left that makes *)
(* a difference to it, some event loop handles one: the event queue is     *)
(* unbounded, handle_event never ends the loop, and the transport is taken *)
(* to deliver what is broadcast.  Votes only accumulate, so this is enough *)
(* for every message that matters to be handled in the end.  Nominating,   *)
(* crashing and processing by the application are under no fairness.       *)
(***************************************************************************)
HandleMessages == \E n \in Node : HandleMessage(n)

LiveSpec == Spec /\ WF_vars(HandleMessages)

-----------------------------------------------------------------------------
Decided(n, s) == slot_states[n][s].externalized_value

\* The nodes that nominated v themselves.
TrueNominators(s, v) ==
  {n \in Node : Sign(n, NewMessage(s, n, "Nominate", v)) \in msgs}

Supported(s, v) == \E k \in Node : Reaches(k, TrueNominators(s, v))

(***************************************************************************)
(* Type invariant; every message is signed by its sender, and a slot is    *)
(* externalized exactly when it has a value.                               *)
(***************************************************************************)
TypeOK ==
  /\ slot_states \in [Node -> [Slot -> SlotStates]]
  /\ msgs \in SUBSET ConsensusMessage
  /\ up \in SUBSET Node
  /\ \A m \in msgs : VerifySignature(m)
  /\ \A n \in Node, s \in Slot : Externalized(n, s) <=> Decided(n, s) # None

(***************************************************************************)
(* A vote is a certificate.  Whoever a node has recorded as preparing v    *)
(* holds a slice of nominations of v, and whoever it has recorded as       *)
(* committing v holds a slice of prepare votes of v: no order of messages  *)
(* makes a node speak for a quorum it does not have.                       *)
(***************************************************************************)
VotesAreBacked ==
  \A n, x \in Node, s \in Slot, v \in Value :
    /\ x \in slot_states[n][s].prepare_votes[v] =>
         Reaches(x, slot_states[x][s].nominations[v])
    /\ x \in slot_states[n][s].commit_votes[v] =>
         Reaches(x, slot_states[x][s].prepare_votes[v])

(***************************************************************************)
(* Nothing is pending: whatever the order in which votes arrived, a slot   *)
(* has made every transition its votes allow, so looking again (which only *)
(* another message for the value would cause) changes nothing.             *)
(***************************************************************************)
NothingPending ==
  \A n \in Node, s \in Slot, v \in Value :
    CheckStateTransitions(n, slot_states[n][s], v) = slot_states[n][s]

(***************************************************************************)
(* Whatever is voted for or decided anywhere was nominated, by their own   *)
(* calls, by enough nodes to make a slice of some node.  A node that       *)
(* counts a Prepare as a nomination (process_message does) cannot create   *)
(* support that was not there.                                             *)
(***************************************************************************)
VotesAreSupported ==
  \A n \in Node, s \in Slot, v \in Value :
    \/ slot_states[n][s].prepare_votes[v] # {}
    \/ slot_states[n][s].commit_votes[v] # {}
    \/ Decided(n, s) = v
    => Supported(s, v)

NominatesOnce(s) ==
  \A v, w \in Value : v # w => TrueNominators(s, v) \cap TrueNominators(s, w) = {}

AgreeOn(s) ==
  \A n1, n2 \in Node :
    Decided(n1, s) # None /\ Decided(n2, s) # None => Decided(n1, s) = Decided(n2, s)

(***************************************************************************)
(* Two nodes never externalize different values in a slot, provided that   *)
(* slices intersect and no node nominates two values in that slot.         *)
(***************************************************************************)
AgreementIfNominatedOnce ==
  QuorumIntersection => \A s \in Slot : NominatesOnce(s) => AgreeOn(s)

(***************************************************************************)
(* Agreement as federated byzantine agreement has it: no condition on what *)
(* the nodes nominate.  The code does not provide it: a node prepares and  *)
(* commits every value that gathers a slice, not one value.                *)
(***************************************************************************)
Agreement == QuorumIntersection => \A s \in Slot : AgreeOn(s)

PhaseRank == [Open |-> 0, Nominate |-> 1, Prepare |-> 2, Commit |-> 3, Externalized |-> 4]

(***************************************************************************)
(* A slot never goes back to an earlier phase, whatever arrives late, and  *)
(* a decision never changes.                                               *)
(***************************************************************************)
NeverRegresses ==
  [][\A n \in Node, s \in Slot :
       /\ PhaseRank[slot_states'[n][s].phase] >= PhaseRank[slot_states[n][s].phase]
       /\ Decided(n, s) # None => slot_states'[n][s] = slot_states[n][s]]_vars

(***************************************************************************)
(* The network implements SlotDecision: whatever the votes and messages,   *)
(* what can be seen from outside is nodes nominating, and deciding once,   *)
(* for a value with enough nominators of its own.                          *)
(***************************************************************************)
Slices == {V \in SUBSET Node : \E k \in Node : Reaches(k, V)}
NominatorMap == [s \in Slot |-> [v \in Value |-> TrueNominators(s, v)]]
DecisionMap == [n \in Node |-> [s \in Slot |-> Decided(n, s)]]

Abstract == INSTANCE SlotDecision WITH
  Sufficient <- Slices, nominators <- NominatorMap, decided <- DecisionMap

ImplementsSlotDecision == Abstract!Spec

-----------------------------------------------------------------------------
Contested(s, v) == \E w \in Value \ {v} : TrueNominators(s, w) # {}

EverywhereDecided(s, v) == \A n \in up : Decided(n, s) = v

(***************************************************************************)
(* Progress: once all nodes that are up have nominated v, they all         *)
(* externalize v, unless another value is nominated too.                   *)
(***************************************************************************)
NominatedIsExternalized ==
  \A s \in Slot, v \in Value :
    up \subseteq TrueNominators(s, v) ~> Contested(s, v) \/ EverywhereDecided(s, v)

(***************************************************************************)
(* Progress without the nodes that crashed before they nominated: as long  *)
(* as the nominators of v are exactly the nodes that are up, and they make *)
(* up a slice of each of them.                                             *)
(***************************************************************************)
SurvivorsHaveNominated(s, v) ==
  /\ TrueNominators(s, v) = up
  /\ \A n \in up : IsQuorumSlice(n, up)

SurvivorsExternalize ==
  \A s \in Slot, v \in Value :
    SurvivorsHaveNominated(s, v) ~>
      \/ Contested(s, v)
      \/ ~SurvivorsHaveNominated(s, v)
      \/ EverywhereDecided(s, v)
=============================================================================
