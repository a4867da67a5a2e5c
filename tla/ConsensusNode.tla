--------------------------- MODULE ConsensusNode ---------------------------
(***************************************************************************)
(* The Consensus object of one node (consensus.rs), against messages that  *)
(* arrive in any order, any number of times, signed or not, from any       *)
(* senders, the node itself among them, and local calls of nominate,       *)
(* prepare and commit at any time.                                         *)
(* The mutex of the ledger, which owns the object, makes every call atomic.*)
(*                                                                         *)
(* current_slot is not part of this module: no operation of consensus.rs   *)
(* reads it.                                                               *)
(***************************************************************************)
EXTENDS SlotState

CONSTANTS
  self,    \* the node that owns the object: node_id, node_pk
  Sender   \* bound: the nodes whose messages arrive

ASSUME SelfAssumption == self \in Node /\ Sender \subseteq Node

VARIABLES
  slot_states,  \* slot -> SlotState
  result,       \* the message the last call returned, as a set: {} for none
  heard,        \* history: the messages whose votes were recorded
  called        \* history: the local calls that were not refused

vars == <<slot_states, result, heard, called>>

Call == [slot : Slot, msg_type : {"Nominate", "Prepare", "Commit"}, value : Value]

\* Anything from a sender, and process_message does not ask whether that is
\* the node itself.
Incoming == {m \in ConsensusMessage : m.sender_id \in Sender}

Externalized(s) == slot_states[s].phase = "Externalized"

Init ==
  /\ slot_states = [s \in Slot |-> NewSlotState]
  /\ result = {}
  /\ heard = {}
  /\ called = {}

-----------------------------------------------------------------------------
(* The local calls.  Each returns its message whatever the transitions it  *)
(* set off: the phase check_state_transitions returns is dropped.          *)

LocalCall(s, t, v, after) ==
  /\ ~Externalized(s)
  /\ slot_states' = [slot_states EXCEPT ![s] = after]
  /\ result' = {NewMessage(s, self, t, v)}
  /\ called' = called \cup {[slot |-> s, msg_type |-> t, value |-> v]}
  /\ UNCHANGED heard

Nominate(s, v) == LocalCall(s, "Nominate", v, AfterNominate(self, slot_states[s], v))
Prepare(s, v)  == LocalCall(s, "Prepare", v, AfterPrepare(self, slot_states[s], v))
Commit(s, v)   == LocalCall(s, "Commit", v, AfterCommit(self, slot_states[s], v))

\* Err: the slot is already externalized.
RefuseCall(s) ==
  /\ Externalized(s)
  /\ result' = {}
  /\ UNCHANGED <<slot_states, heard, called>>

-----------------------------------------------------------------------------
(* process_message. *)

\* Deliberately wrong variants, used by mutation runs.
ProcessMessageUnverified(m) ==
  LET after == AfterMessage(self, slot_states[m.slot], m)
  IN /\ ~Externalized(m.slot)
     /\ slot_states' = [slot_states EXCEPT ![m.slot] = after]
     /\ result' = Replies(self, slot_states[m.slot], after, m)
     /\ heard' = heard \cup {m}
     /\ UNCHANGED called
ProcessMessageEvenExternalized(m) ==
  LET after == AfterMessage(self, slot_states[m.slot], m)
  IN /\ VerifySignature(m)
     /\ slot_states' = [slot_states EXCEPT ![m.slot] = after]
     /\ result' = Replies(self, slot_states[m.slot], after, m)
     /\ heard' = heard \cup {m}
     /\ UNCHANGED called

ProcessMessage(m) ==
  LET after == AfterMessage(self, slot_states[m.slot], m)
  IN /\ VerifySignature(m)
     /\ ~Externalized(m.slot)
     /\ slot_states' = [slot_states EXCEPT ![m.slot] = after]
     /\ result' = Replies(self, slot_states[m.slot], after, m)
     /\ heard' = heard \cup {m}
     /\ UNCHANGED called

\* Err for a bad signature, Ok(None) for an externalized slot.
IgnoreMessage(m) ==
  /\ ~VerifySignature(m) \/ Externalized(m.slot)
  /\ result' = {}
  /\ UNCHANGED <<slot_states, heard, called>>

Next ==
  \/ \E s \in Slot, v \in Value : Nominate(s, v)
  \/ \E s \in Slot, v \in Value : Prepare(s, v)
  \/ \E s \in Slot, v \in Value : Commit(s, v)
  \/ \E s \in Slot : RefuseCall(s)
  \/ \E m \in Incoming : ProcessMessage(m)
  \/ \E m \in Incoming : IgnoreMessage(m)

Spec == Init /\ [][Next]_vars

-----------------------------------------------------------------------------
(***************************************************************************)
(* Type invariant.  Its last conjunct ties the two ways the code asks      *)
(* whether a slot is decided (is_slot_externalized reads phase,            *)
(* get_externalized_value reads the value) to each other.                  *)
(***************************************************************************)
TypeOK ==
  /\ slot_states \in [Slot -> SlotStates]
  /\ result \in SUBSET ConsensusMessage
  /\ heard \in SUBSET Incoming
  /\ called \in SUBSET Call
  /\ \A s \in Slot : Externalized(s) <=> slot_states[s].externalized_value # None

\* The senders of the recorded messages about (s, v) of one of the types.
HeardFrom(s, v, types) ==
  {m.sender_id : m \in {h \in heard : /\ h.slot = s /\ h.value = v
                                      /\ h.msg_type \in types
                                      /\ h.signature = h.sender_id}}

OwnCall(s, t, v) ==
  IF [slot |-> s, msg_type |-> t, value |-> v] \in called THEN {self} ELSE {}

\* The votes the node should hold, from what it heard and called alone.
Nominators(s, v) == HeardFrom(s, v, MessageType) \cup OwnCall(s, "Nominate", v)

Preparers(s, v) ==
  HeardFrom(s, v, MessageType \ {"Nominate"}) \cup OwnCall(s, "Prepare", v)
    \cup (IF Reaches(self, Nominators(s, v)) THEN SelfVote(self) ELSE {})

Committers(s, v) ==
  HeardFrom(s, v, {"Commit", "Externalize"}) \cup OwnCall(s, "Commit", v)
    \cup (IF Reaches(self, Preparers(s, v)) THEN SelfVote(self) ELSE {})

(***************************************************************************)
(* Until a slot is externalized, the votes it holds are a function of the  *)
(* set of signed messages heard and calls made: their order, and           *)
(* duplicates, make no difference, an unsigned message counts for nothing, *)
(* the node adds its own votes exactly when the quorum they answer is      *)
(* there, and a commit quorum is never held without being acted upon.      *)
(***************************************************************************)
VotesDetermined ==
  \A s \in Slot : ~Externalized(s) =>
    \A v \in Value :
      /\ slot_states[s].nominations[v] = Nominators(s, v)
      /\ slot_states[s].prepare_votes[v] = Preparers(s, v)
      /\ slot_states[s].commit_votes[v] = Committers(s, v)
      /\ ~Reaches(self, Committers(s, v))

(***************************************************************************)
(* A decision is for the value whose committers, each of them heard        *)
(* committing or the node itself, form a slice of the node, and there is   *)
(* no second value with that many committers: externalized_value does not  *)
(* depend on which quorum the code looked at last.                         *)
(***************************************************************************)
DecisionJustified ==
  \A s \in Slot : Externalized(s) =>
    \A v \in Value :
      (v = slot_states[s].externalized_value) <=> Reaches(self, Committers(s, v))

(***************************************************************************)
(* What the node says is so.  A message returned by any call is of a value *)
(* whose votes the node holds: a validator that sends Prepare or Commit    *)
(* has cast that vote itself, and Externalize names the value decided.     *)
(***************************************************************************)
ResultIsTruthful ==
  \A m \in result :
    LET st == slot_states[m.slot]
    IN CASE m.msg_type = "Nominate"    -> self \in st.nominations[m.value]
         [] m.msg_type = "Prepare"     -> IsValidator(self) => self \in st.prepare_votes[m.value]
         [] m.msg_type = "Commit"      -> IsValidator(self) => self \in st.commit_votes[m.value]
         [] m.msg_type = "Externalize" -> st.externalized_value = m.value

(***************************************************************************)
(* A decided slot is left alone, by late and duplicated messages as by     *)
(* local calls: neither its value nor the votes that justify it change.    *)
(***************************************************************************)
DecisionIsFinal ==
  [][\A s \in Slot : Externalized(s) => slot_states'[s] = slot_states[s]]_vars
=============================================================================
