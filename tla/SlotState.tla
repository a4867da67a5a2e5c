------------------------------ MODULE SlotState ------------------------------
(***************************************************************************)
(* The per-slot state of consensus.rs and the functions that transform it. *)
(* Everything here is a constant-level operator: the modules that own a    *)
(* state apply them.                                                       *)
(*                                                                         *)
(* A value (a block hash in hexadecimal) is a member of Value.  A vote map *)
(* BTreeMap<String, Vec<key>> is a function from Value to the set of nodes *)
(* that voted; add_vote keeps the Vec free of duplicates, and an entry is  *)
(* only ever created together with its first vote, so a missing entry is   *)
(* exactly an empty set.  A slot that is missing from slot_states is       *)
(* treated by every operation as SlotState::new would be.                  *)
(***************************************************************************)
EXTENDS QuorumSets

CONSTANTS
  Slot,    \* slot numbers in use
  Value,   \* values that can be proposed
  None     \* Option::None

ASSUME NoneAssumption == None \notin Value /\ None \notin Node

Phase == {"Open", "Nominate", "Prepare", "Commit", "Externalized"}
MessageType == {"Nominate", "Prepare", "Commit", "Externalize"}

(***************************************************************************)
(* A ConsensusMessage.  signature is the node whose wallet signed it, or   *)
(* None: hash_data covers all the other fields, so a signature belongs to  *)
(* one message, and it verifies only against the key in sender_id.         *)
(***************************************************************************)
ConsensusMessage ==
  [slot : Slot, sender_id : Node, msg_type : MessageType, value : Value,
   signature : Node \cup {None}]

NewMessage(s, n, t, v) ==
  [slot |-> s, sender_id |-> n, msg_type |-> t, value |-> v, signature |-> None]

Sign(n, m) == [m EXCEPT !.signature = n]

VerifySignature(m) == m.signature = m.sender_id

VoteMap == [Value -> SUBSET Node]

SlotStates ==
  [phase : Phase, nominations : VoteMap, prepare_votes : VoteMap,
   commit_votes : VoteMap, externalized_value : Value \cup {None}]

NewSlotState ==
  LET noVotes == [v \in Value |-> {}]
  IN [phase |-> "Open", nominations |-> noVotes, prepare_votes |-> noVotes,
      commit_votes |-> noVotes, externalized_value |-> None]

-----------------------------------------------------------------------------
(***************************************************************************)
(* check_state_transitions, in its three steps.  Each looks at the votes   *)
(* for one value v, and a step sees the self-vote of the step before it.   *)
(***************************************************************************)
\* if let Some(voters) = votes.get(v) { if is_quorum_slice(voters) ... }
Reaches(n, voters) == voters # {} /\ IsQuorumSlice(n, voters)

\* The vote a node casts itself: none unless it is one of its validators.
SelfVote(n) == IF IsValidator(n) THEN {n} ELSE {}

\* Deliberately wrong variants, used by mutation runs.
NominationStepOfAnyone(n, st, v) ==
  IF ~Reaches(n, st.nominations[v]) THEN st
  ELSE [st EXCEPT !.phase = IF @ \in {"Open", "Nominate"} THEN "Prepare" ELSE @,
                  !.prepare_votes[v] = @ \cup {n}]
NominationStepAlways(n, st, v) ==
  IF st.nominations[v] = {} THEN st
  ELSE [st EXCEPT !.phase = IF @ \in {"Open", "Nominate"} THEN "Prepare" ELSE @,
                  !.prepare_votes[v] = @ \cup SelfVote(n)]
NominationStepResetting(n, st, v) ==
  IF ~Reaches(n, st.nominations[v]) THEN st
  ELSE [st EXCEPT !.phase = "Prepare",
                  !.prepare_votes[v] = @ \cup SelfVote(n)]

NominationStep(n, st, v) ==
  IF ~Reaches(n, st.nominations[v]) THEN st
  ELSE [st EXCEPT !.phase = IF @ \in {"Open", "Nominate"} THEN "Prepare" ELSE @,
                  !.prepare_votes[v] = @ \cup SelfVote(n)]

\* Deliberately wrong variants, used by mutation runs.
PrepareStepNoVote(n, st, v) ==
  IF ~Reaches(n, st.prepare_votes[v]) THEN st ELSE [st EXCEPT !.phase = "Commit"]
PrepareStepEarly(n, st, v) ==
  IF ~Reaches(n, st.nominations[v]) THEN st
  ELSE [st EXCEPT !.phase = "Commit", !.commit_votes[v] = @ \cup SelfVote(n)]

PrepareStep(n, st, v) ==
  IF ~Reaches(n, st.prepare_votes[v]) THEN st
  ELSE [st EXCEPT !.phase = "Commit",
                  !.commit_votes[v] = @ \cup SelfVote(n)]

\* Deliberately wrong variants, used by mutation runs.
CommitStepNoValue(n, st, v) ==
  IF ~Reaches(n, st.commit_votes[v]) THEN st
  ELSE [st EXCEPT !.phase = "Externalized"]
CommitStepOnPrepares(n, st, v) ==
  IF ~Reaches(n, st.prepare_votes[v]) THEN st
  ELSE [st EXCEPT !.phase = "Externalized", !.externalized_value = v]

CommitStep(n, st, v) ==
  IF ~Reaches(n, st.commit_votes[v]) THEN st
  ELSE [st EXCEPT !.phase = "Externalized", !.externalized_value = v]

\* Deliberately wrong variant, used by mutation runs: the steps in reverse.
CheckInReverse(n, st, v) ==
  IF st.phase = "Externalized" THEN st
  ELSE NominationStep(n, PrepareStep(n, CommitStep(n, st, v), v), v)

CheckStateTransitions(n, st, v) ==
  IF st.phase = "Externalized" THEN st
  ELSE CommitStep(n, PrepareStep(n, NominationStep(n, st, v), v), v)

-----------------------------------------------------------------------------
(***************************************************************************)
(* The three local calls, of a node n, on a slot that is not externalized. *)
(***************************************************************************)
AfterNominate(n, st, v) ==
  CheckStateTransitions(n,
    [st EXCEPT !.phase = IF @ = "Open" THEN "Nominate" ELSE @,
               !.nominations[v] = @ \cup {n}], v)

AfterPrepare(n, st, v) ==
  CheckStateTransitions(n,
    [st EXCEPT !.phase = "Prepare", !.prepare_votes[v] = @ \cup {n}], v)

AfterCommit(n, st, v) ==
  CheckStateTransitions(n,
    [st EXCEPT !.phase = "Commit", !.commit_votes[v] = @ \cup {n}], v)

(***************************************************************************)
(* process_message: a message carries the votes of its own type and of the *)
(* types before it, so a Prepare also nominates and a Commit also prepares.*)
(***************************************************************************)
\* Deliberately wrong variant, used by mutation runs.
RecordVotesOfOwnType(st, m) ==
  LET from == {m.sender_id}
  IN [st EXCEPT
       !.nominations[m.value] = @ \cup (IF m.msg_type = "Nominate" THEN from ELSE {}),
       !.prepare_votes[m.value] = @ \cup (IF m.msg_type = "Prepare" THEN from ELSE {}),
       !.commit_votes[m.value] =
          @ \cup (IF m.msg_type \in {"Commit", "Externalize"} THEN from ELSE {})]

RecordVotes(st, m) ==
  LET from == {m.sender_id}
  IN [st EXCEPT
       !.nominations[m.value] = @ \cup from,
       !.prepare_votes[m.value] =
          @ \cup (IF m.msg_type = "Nominate" THEN {} ELSE from),
       !.commit_votes[m.value] =
          @ \cup (IF m.msg_type \in {"Commit", "Externalize"} THEN from ELSE {})]

AfterMessage(n, st, m) == CheckStateTransitions(n, RecordVotes(st, m), m.value)

\* The type of the reply to a message that took the slot into phase p.
ReplyType(p) ==
  CASE p = "Prepare"      -> "Prepare"
    [] p = "Commit"       -> "Commit"
    [] p = "Externalized" -> "Externalize"

\* Deliberately wrong variant, used by mutation runs: no reply to a jump.
RepliesToOneStep(n, before, after, m) ==
  IF \/ after.phase = before.phase
     \/ after.phase = "Commit" /\ before.phase # "Prepare"
     \/ after.phase = "Externalized" /\ before.phase # "Commit"
     \/ after.phase \in {"Open", "Nominate"}
  THEN {}
  ELSE {NewMessage(m.slot, n, ReplyType(after.phase), m.value)}

\* The replies of process_message: at most one, when the phase has changed.
Replies(n, before, after, m) ==
  IF after.phase = before.phase \/ after.phase \in {"Open", "Nominate"} THEN {}
  ELSE {NewMessage(m.slot, n, ReplyType(after.phase), m.value)}
=============================================================================
