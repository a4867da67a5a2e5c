------------------------- MODULE ConsensusNodeProofs -------------------------
(***************************************************************************)
(* Theorems about ConsensusNode: the Consensus object of one node, against *)
(* any messages and local calls, for any quorum set, slots and values.     *)
(***************************************************************************)
EXTENDS ConsensusNode, SlotStateProofs

-----------------------------------------------------------------------------
(***************************************************************************)
(* The votes cast for v in slot s, from heard messages H and own calls K:  *)
(* everything but the votes the node adds itself when a quorum is there.   *)
(***************************************************************************)
HeardIn(H, s, v, types) ==
  {m.sender_id : m \in {h \in H : /\ h.slot = s /\ h.value = v
                                  /\ h.msg_type \in types
                                  /\ h.signature = h.sender_id}}

OwnIn(K, s, t, v) ==
  IF [slot |-> s, msg_type |-> t, value |-> v] \in K THEN {self} ELSE {}

\* The types of message that stand for a prepare vote, and for a commit vote.
PrepareTypes == MessageType \ {"Nominate"}
CommitTypes == {"Commit", "Externalize"}

CastNominations(H, K, s, v) == HeardIn(H, s, v, MessageType) \cup OwnIn(K, s, "Nominate", v)
CastPrepares(H, K, s, v) ==
  HeardIn(H, s, v, PrepareTypes) \cup OwnIn(K, s, "Prepare", v)
CastCommits(H, K, s, v) ==
  HeardIn(H, s, v, CommitTypes) \cup OwnIn(K, s, "Commit", v)

\* The votes N, P and C for v in slot s are cast, and no others.
Casts(s, v, N, P, C) ==
  \A s2 \in Slot, w \in Value :
    /\ CastNominations(heard', called', s2, w) =
         CastNominations(heard, called, s2, w) \cup (IF s2 = s /\ w = v THEN N ELSE {})
    /\ CastPrepares(heard', called', s2, w) =
         CastPrepares(heard, called, s2, w) \cup (IF s2 = s /\ w = v THEN P ELSE {})
    /\ CastCommits(heard', called', s2, w) =
         CastCommits(heard, called, s2, w) \cup (IF s2 = s /\ w = v THEN C ELSE {})

\* A slot that is not decided moves, by the votes cast.
SlotMoves(s, v, N, P, C, p) ==
  /\ ~Externalized(s)
  /\ slot_states' = [slot_states EXCEPT ![s] = Moved(self, slot_states[s], v, N, P, C, p)]
  /\ Casts(s, v, N, P, C)

\* The tallies a node should hold, in terms of the votes cast.
LEMMA TalliesAre ==
  ASSUME NEW s \in Slot, NEW v \in Value
  PROVE  /\ Nominators(s, v) = CastNominations(heard, called, s, v)
         /\ Preparers(s, v) = CastPrepares(heard, called, s, v) \cup OwnVote(self, Nominators(s, v))
         /\ Committers(s, v) = CastCommits(heard, called, s, v) \cup OwnVote(self, Preparers(s, v))
         /\ Nominators(s, v)' = CastNominations(heard', called', s, v)
         /\ Preparers(s, v)' =
              CastPrepares(heard', called', s, v) \cup OwnVote(self, Nominators(s, v)')
         /\ Committers(s, v)' =
              CastCommits(heard', called', s, v) \cup OwnVote(self, Preparers(s, v)')
  BY DEF Nominators, Preparers, Committers, CastNominations, CastPrepares, CastCommits,
         HeardFrom, HeardIn, OwnCall, OwnIn, OwnVote, PrepareTypes, CommitTypes

-----------------------------------------------------------------------------
(* The operations as moves. *)

\* Every slot is well formed.
LEMMA SlotType ==
  ASSUME TypeOK, NEW s \in Slot
  PROVE  slot_states[s] \in SlotStates /\ HasValueIffDecided(slot_states[s])
  BY DEF TypeOK, Externalized, HasValueIffDecided

\* A local call casts one vote, of its own kind.
LEMMA CallCasts ==
  ASSUME NEW s \in Slot, NEW v \in Value, NEW t \in {"Nominate", "Prepare", "Commit"},
         NEW after, LocalCall(s, t, v, after)
  PROVE  Casts(s, v, IF t = "Nominate" THEN {self} ELSE {},
                     IF t = "Prepare" THEN {self} ELSE {},
                     IF t = "Commit" THEN {self} ELSE {})
<1>1. heard' = heard /\ called' = called \cup {[slot |-> s, msg_type |-> t, value |-> v]}
  BY DEF LocalCall
<1>2. \A s2 \in Slot, w \in Value, t2 \in {"Nominate", "Prepare", "Commit"} :
        OwnIn(called', s2, t2, w) =
          OwnIn(called, s2, t2, w) \cup (IF s2 = s /\ w = v /\ t2 = t THEN {self} ELSE {})
  <2> TAKE s2 \in Slot, w \in Value, t2 \in {"Nominate", "Prepare", "Commit"}
  <2>1. [slot |-> s2, msg_type |-> t2, value |-> w] = [slot |-> s, msg_type |-> t, value |-> v]
          <=> s2 = s /\ w = v /\ t2 = t
    OBVIOUS
  <2>2. QED
    BY <1>1, <2>1 DEF OwnIn
<1>3. \A s2 \in Slot, w \in Value :
        /\ OwnIn(called', s2, "Nominate", w) = OwnIn(called, s2, "Nominate", w)
             \cup (IF s2 = s /\ w = v /\ "Nominate" = t THEN {self} ELSE {})
        /\ OwnIn(called', s2, "Prepare", w) = OwnIn(called, s2, "Prepare", w)
             \cup (IF s2 = s /\ w = v /\ "Prepare" = t THEN {self} ELSE {})
        /\ OwnIn(called', s2, "Commit", w) = OwnIn(called, s2, "Commit", w)
             \cup (IF s2 = s /\ w = v /\ "Commit" = t THEN {self} ELSE {})
  BY <1>2
<1>4. ASSUME NEW s2 \in Slot, NEW w \in Value
      PROVE  /\ CastNominations(heard', called', s2, w) = CastNominations(heard, called, s2, w)
                  \cup (IF s2 = s /\ w = v THEN IF t = "Nominate" THEN {self} ELSE {} ELSE {})
             /\ CastPrepares(heard', called', s2, w) = CastPrepares(heard, called, s2, w)
                  \cup (IF s2 = s /\ w = v THEN IF t = "Prepare" THEN {self} ELSE {} ELSE {})
             /\ CastCommits(heard', called', s2, w) = CastCommits(heard, called, s2, w)
                  \cup (IF s2 = s /\ w = v THEN IF t = "Commit" THEN {self} ELSE {} ELSE {})
  <2>1. CastNominations(heard', called', s2, w) = CastNominations(heard, called, s2, w)
          \cup (IF s2 = s /\ w = v THEN IF t = "Nominate" THEN {self} ELSE {} ELSE {})
    BY <1>1, <1>3 DEF CastNominations
  <2>2. CastPrepares(heard', called', s2, w) = CastPrepares(heard, called, s2, w)
          \cup (IF s2 = s /\ w = v THEN IF t = "Prepare" THEN {self} ELSE {} ELSE {})
    BY <1>1, <1>3 DEF CastPrepares
  <2>3. CastCommits(heard', called', s2, w) = CastCommits(heard, called, s2, w)
          \cup (IF s2 = s /\ w = v THEN IF t = "Commit" THEN {self} ELSE {} ELSE {})
    BY <1>1, <1>3 DEF CastCommits
  <2>4. QED
    BY <2>1, <2>2, <2>3
<1>5. QED
  BY <1>4 DEF Casts

\* nominate, prepare and commit.
LEMMA CallMoves ==
  ASSUME TypeOK, NEW s \in Slot, NEW v \in Value
  PROVE  /\ Nominate(s, v) =>
              /\ \E p \in Phase \ {"Externalized"} : SlotMoves(s, v, {self}, {}, {}, p)
              /\ result' = {NewMessage(s, self, "Nominate", v)}
              /\ heard' = heard
              /\ called' = called \cup {[slot |-> s, msg_type |-> "Nominate", value |-> v]}
         /\ Prepare(s, v) =>
              /\ SlotMoves(s, v, {}, {self}, {}, "Prepare")
              /\ result' = {NewMessage(s, self, "Prepare", v)}
              /\ heard' = heard
              /\ called' = called \cup {[slot |-> s, msg_type |-> "Prepare", value |-> v]}
         /\ Commit(s, v) =>
              /\ SlotMoves(s, v, {}, {}, {self}, "Commit")
              /\ result' = {NewMessage(s, self, "Commit", v)}
              /\ heard' = heard
              /\ called' = called \cup {[slot |-> s, msg_type |-> "Commit", value |-> v]}
<1> DEFINE st == slot_states[s]
           p == IF st.phase = "Open" THEN "Nominate" ELSE st.phase
<1>1. st \in SlotStates /\ self \in Node
  BY SlotType, SelfAssumption
<1>2. ASSUME ~Externalized(s)
      PROVE  /\ AfterNominate(self, st, v) = Moved(self, st, v, {self}, {}, {}, p)
             /\ AfterPrepare(self, st, v) = Moved(self, st, v, {}, {self}, {}, "Prepare")
             /\ AfterCommit(self, st, v) = Moved(self, st, v, {}, {}, {self}, "Commit")
             /\ p \in Phase \ {"Externalized"}
  <2>1. st.phase # "Externalized"
    BY <1>2 DEF Externalized
  <2>2. p \in Phase \ {"Externalized"}
    BY <1>1, <2>1 DEF Phase, SlotStates
  <2>3. QED
    BY <1>1, <2>1, <2>2, CallsAre
<1> HIDE DEF p
<1>3. ASSUME Nominate(s, v)
      PROVE  SlotMoves(s, v, {self}, {}, {}, p) /\ p \in Phase \ {"Externalized"}
  <2>1. LocalCall(s, "Nominate", v, AfterNominate(self, st, v))
    BY <1>3 DEF Nominate
  <2>2. Casts(s, v, {self}, {}, {})
    BY <2>1, CallCasts
  <2>3. QED
    BY <1>2, <2>1, <2>2 DEF LocalCall, SlotMoves
<1>4. ASSUME Prepare(s, v)
      PROVE  SlotMoves(s, v, {}, {self}, {}, "Prepare")
  <2>1. LocalCall(s, "Prepare", v, AfterPrepare(self, st, v))
    BY <1>4 DEF Prepare
  <2>2. Casts(s, v, {}, {self}, {})
    BY <2>1, CallCasts
  <2>3. QED
    BY <1>2, <2>1, <2>2 DEF LocalCall, SlotMoves
<1>5. ASSUME Commit(s, v)
      PROVE  SlotMoves(s, v, {}, {}, {self}, "Commit")
  <2>1. LocalCall(s, "Commit", v, AfterCommit(self, st, v))
    BY <1>5 DEF Commit
  <2>2. Casts(s, v, {}, {}, {self})
    BY <2>1, CallCasts
  <2>3. QED
    BY <1>2, <2>1, <2>2 DEF LocalCall, SlotMoves
<1>6. Nominate(s, v) => /\ result' = {NewMessage(s, self, "Nominate", v)}
                        /\ heard' = heard
                        /\ called' = called \cup {[slot |-> s, msg_type |-> "Nominate", value |-> v]}
  BY DEF Nominate, LocalCall
<1>7. Prepare(s, v) => /\ result' = {NewMessage(s, self, "Prepare", v)}
                       /\ heard' = heard
                       /\ called' = called \cup {[slot |-> s, msg_type |-> "Prepare", value |-> v]}
  BY DEF Prepare, LocalCall
<1>8. Commit(s, v) => /\ result' = {NewMessage(s, self, "Commit", v)}
                      /\ heard' = heard
                      /\ called' = called \cup {[slot |-> s, msg_type |-> "Commit", value |-> v]}
  BY DEF Commit, LocalCall
<1>9. QED
  BY <1>3, <1>4, <1>5, <1>6, <1>7, <1>8

\* process_message casts the votes the message stands for.
LEMMA MessageCasts ==
  ASSUME NEW m \in ConsensusMessage, VerifySignature(m),
         heard' = heard \cup {m}, called' = called
  PROVE  Casts(m.slot, m.value, {m.sender_id}, MessagePrepares(m), MessageCommits(m))
<1>1. ASSUME NEW s2, NEW w, NEW types
      PROVE  HeardIn(heard', s2, w, types) =
               HeardIn(heard, s2, w, types) \cup
                 (IF s2 = m.slot /\ w = m.value /\ m.msg_type \in types THEN {m.sender_id} ELSE {})
  BY DEF HeardIn, VerifySignature
<1>2. m.msg_type \in MessageType
  BY DEF ConsensusMessage
<1>3. \A s2 \in Slot, w \in Value :
        HeardIn(heard', s2, w, MessageType) =
          HeardIn(heard, s2, w, MessageType)
            \cup (IF s2 = m.slot /\ w = m.value THEN {m.sender_id} ELSE {})
  BY <1>1, <1>2
<1>4. \A s2 \in Slot, w \in Value :
        HeardIn(heard', s2, w, PrepareTypes) =
          HeardIn(heard, s2, w, PrepareTypes)
            \cup (IF s2 = m.slot /\ w = m.value THEN MessagePrepares(m) ELSE {})
  <2> TAKE s2 \in Slot, w \in Value
  <2>1. HeardIn(heard', s2, w, PrepareTypes) =
          HeardIn(heard, s2, w, PrepareTypes) \cup
            (IF s2 = m.slot /\ w = m.value /\ m.msg_type \in PrepareTypes
             THEN {m.sender_id} ELSE {})
    BY <1>1
  <2>2. QED
    BY <1>2, <2>1 DEF MessagePrepares, PrepareTypes
<1>5. \A s2 \in Slot, w \in Value :
        HeardIn(heard', s2, w, CommitTypes) =
          HeardIn(heard, s2, w, CommitTypes)
            \cup (IF s2 = m.slot /\ w = m.value THEN MessageCommits(m) ELSE {})
  <2> TAKE s2 \in Slot, w \in Value
  <2>1. HeardIn(heard', s2, w, CommitTypes) =
          HeardIn(heard, s2, w, CommitTypes) \cup
            (IF s2 = m.slot /\ w = m.value /\ m.msg_type \in CommitTypes
             THEN {m.sender_id} ELSE {})
    BY <1>1
  <2>2. QED
    BY <2>1 DEF MessageCommits, CommitTypes
<1>6. ASSUME NEW s2 \in Slot, NEW w \in Value
      PROVE  /\ CastNominations(heard', called', s2, w) = CastNominations(heard, called, s2, w)
                  \cup (IF s2 = m.slot /\ w = m.value THEN {m.sender_id} ELSE {})
             /\ CastPrepares(heard', called', s2, w) = CastPrepares(heard, called, s2, w)
                  \cup (IF s2 = m.slot /\ w = m.value THEN MessagePrepares(m) ELSE {})
             /\ CastCommits(heard', called', s2, w) = CastCommits(heard, called, s2, w)
                  \cup (IF s2 = m.slot /\ w = m.value THEN MessageCommits(m) ELSE {})
  <2>1. CastNominations(heard', called', s2, w) = CastNominations(heard, called, s2, w)
          \cup (IF s2 = m.slot /\ w = m.value THEN {m.sender_id} ELSE {})
    BY <1>3 DEF CastNominations
  <2>2. CastPrepares(heard', called', s2, w) = CastPrepares(heard, called, s2, w)
          \cup (IF s2 = m.slot /\ w = m.value THEN MessagePrepares(m) ELSE {})
    BY <1>4 DEF CastPrepares
  <2>3. CastCommits(heard', called', s2, w) = CastCommits(heard, called, s2, w)
          \cup (IF s2 = m.slot /\ w = m.value THEN MessageCommits(m) ELSE {})
    <3> DEFINE H == HeardIn(heard, s2, w, CommitTypes)
               K == OwnIn(called, s2, "Commit", w)
               C == IF s2 = m.slot /\ w = m.value THEN MessageCommits(m) ELSE {}
    <3>1. HeardIn(heard', s2, w, CommitTypes) = H \cup C
      BY <1>5
    <3>2. OwnIn(called', s2, "Commit", w) = K
      OBVIOUS
    <3>3. CastCommits(heard', called', s2, w) = H \cup C \cup K
      BY <3>1, <3>2 DEF CastCommits
    <3>4. CastCommits(heard, called, s2, w) = H \cup K
      BY DEF CastCommits
    <3> HIDE DEF H, K, C
    <3>5. CastCommits(heard', called', s2, w) = CastCommits(heard, called, s2, w) \cup C
      BY <3>3, <3>4
    <3>6. QED
      BY <3>5 DEF C
  <2>4. QED
    BY <2>1, <2>2, <2>3
<1>7. QED
  BY <1>6 DEF Casts

\* process_message is a move of the slot of the message.
LEMMA ProcessMoves ==
  ASSUME TypeOK, NEW m \in Incoming, ProcessMessage(m)
  PROVE  /\ m \in ConsensusMessage
         /\ SlotMoves(m.slot, m.value, {m.sender_id}, MessagePrepares(m), MessageCommits(m),
                      slot_states[m.slot].phase)
         /\ result' = Replies(self, slot_states[m.slot], slot_states'[m.slot], m)
         /\ heard' = heard \cup {m}
         /\ called' = called
<1> DEFINE st == slot_states[m.slot]
           after == AfterMessage(self, st, m)
<1>1. m \in ConsensusMessage /\ m.slot \in Slot
  BY DEF Incoming, ConsensusMessage
<1>2. st \in SlotStates /\ self \in Node
  BY <1>1, SlotType, SelfAssumption
<1>3. /\ VerifySignature(m) /\ ~Externalized(m.slot)
      /\ slot_states' = [slot_states EXCEPT ![m.slot] = after]
      /\ result' = Replies(self, st, after, m)
      /\ heard' = heard \cup {m}
      /\ called' = called
  BY DEF ProcessMessage
<1>4. after = Moved(self, st, m.value, {m.sender_id}, MessagePrepares(m), MessageCommits(m), st.phase)
  BY <1>1, <1>2, <1>3, MessageIs DEF Externalized
<1>5. Casts(m.slot, m.value, {m.sender_id}, MessagePrepares(m), MessageCommits(m))
  BY <1>1, <1>3, MessageCasts
<1>6. slot_states'[m.slot] = after
  BY <1>1, <1>3 DEF TypeOK
<1> HIDE DEF after
<1>7. QED
  BY <1>1, <1>3, <1>4, <1>5, <1>6 DEF SlotMoves

\* The votes a message casts are votes of nodes.
LEMMA MessageVotesType ==
  ASSUME NEW m \in ConsensusMessage
  PROVE  /\ {m.sender_id} \in SUBSET Node
         /\ MessagePrepares(m) \in SUBSET Node
         /\ MessageCommits(m) \in SUBSET Node
  BY DEF ConsensusMessage, MessagePrepares, MessageCommits

-----------------------------------------------------------------------------
(* Type correctness. *)

\* A new slot is open, without votes or value.
LEMMA InitType == Init => TypeOK
<1> SUFFICES ASSUME Init PROVE TypeOK
  OBVIOUS
<1>1. NewSlotState \in SlotStates
  BY DEF NewSlotState, SlotStates, VoteMap, Phase
<1>2. NewSlotState.phase # "Externalized" /\ NewSlotState.externalized_value = None
  BY DEF NewSlotState
<1>3. QED
  BY <1>1, <1>2 DEF Init, TypeOK, Externalized

\* A move of one slot keeps the slots well formed.
LEMMA MoveType ==
  ASSUME TypeOK, NEW s \in Slot, NEW v \in Value, NEW N \in SUBSET Node, NEW P \in SUBSET Node,
         NEW C \in SUBSET Node, NEW p \in Phase \ {"Externalized"}, SlotMoves(s, v, N, P, C, p),
         result' \in SUBSET ConsensusMessage, heard' \in SUBSET Incoming, called' \in SUBSET Call
  PROVE  TypeOK'
<1> DEFINE st2 == Moved(self, slot_states[s], v, N, P, C, p)
<1>1. st2 \in SlotStates /\ HasValueIffDecided(st2)
  BY SlotType, SelfAssumption, MovedType DEF SlotMoves, Externalized
<1>2. slot_states' = [slot_states EXCEPT ![s] = st2]
  BY DEF SlotMoves
<1> HIDE DEF st2
<1>3. QED
  BY <1>1, <1>2 DEF TypeOK, Externalized, HasValueIffDecided

\* What a local call returns and adds to the histories.
LEMMA CallType ==
  ASSUME TypeOK, NEW s \in Slot, NEW v \in Value, NEW t \in {"Nominate", "Prepare", "Commit"},
         result' = {NewMessage(s, self, t, v)}, heard' = heard,
         called' = called \cup {[slot |-> s, msg_type |-> t, value |-> v]}
  PROVE  /\ result' \in SUBSET ConsensusMessage
         /\ heard' \in SUBSET Incoming
         /\ called' \in SUBSET Call
<1>1. NewMessage(s, self, t, v) \in ConsensusMessage
  BY SelfAssumption DEF NewMessage, ConsensusMessage, MessageType
<1>2. [slot |-> s, msg_type |-> t, value |-> v] \in Call
  BY DEF Call
<1>3. QED
  BY <1>1, <1>2 DEF TypeOK

\* What process_message returns is a message.
LEMMA ReplyIsMessage ==
  ASSUME NEW m \in ConsensusMessage, NEW st \in SlotStates, NEW st2 \in SlotStates
  PROVE  Replies(self, st, st2, m) \in SUBSET ConsensusMessage
<1> SUFFICES ASSUME NEW r \in Replies(self, st, st2, m) PROVE r \in ConsensusMessage
  OBVIOUS
<1>1. r = NewMessage(m.slot, self, ReplyType(st2.phase), m.value)
  BY DEF Replies
<1>2. st2.phase \in {"Prepare", "Commit", "Externalized"}
  BY DEF Replies, SlotStates, Phase
<1>3. ReplyType(st2.phase) \in MessageType
  BY <1>2 DEF ReplyType, MessageType
<1>4. m.slot \in Slot /\ m.value \in Value
  BY DEF ConsensusMessage
<1>5. QED
  BY <1>1, <1>3, <1>4, SelfAssumption DEF NewMessage, ConsensusMessage

\* Every step keeps the types.
LEMMA NextType == TypeOK /\ [Next]_vars => TypeOK'
<1> SUFFICES ASSUME TypeOK, [Next]_vars PROVE TypeOK'
  OBVIOUS
<1>1. {self} \in SUBSET Node /\ {} \in SUBSET Node
  BY SelfAssumption
<1>2. "Prepare" \in Phase \ {"Externalized"} /\ "Commit" \in Phase \ {"Externalized"}
  BY DEF Phase
<1>3. ASSUME NEW s \in Slot, NEW v \in Value, Nominate(s, v)
      PROVE  TypeOK'
  <2>1. PICK p \in Phase \ {"Externalized"} : SlotMoves(s, v, {self}, {}, {}, p)
    BY <1>3, CallMoves
  <2>2. /\ result' \in SUBSET ConsensusMessage
        /\ heard' \in SUBSET Incoming
        /\ called' \in SUBSET Call
    BY <1>3, CallMoves, CallType
  <2>3. QED
    BY <1>1, <2>1, <2>2, MoveType
<1>4. ASSUME NEW s \in Slot, NEW v \in Value, Prepare(s, v)
      PROVE  TypeOK'
  <2>1. SlotMoves(s, v, {}, {self}, {}, "Prepare")
    BY <1>4, CallMoves
  <2>2. /\ result' \in SUBSET ConsensusMessage
        /\ heard' \in SUBSET Incoming
        /\ called' \in SUBSET Call
    BY <1>4, CallMoves, CallType
  <2>3. QED
    BY <1>1, <1>2, <2>1, <2>2, MoveType
<1>5. ASSUME NEW s \in Slot, NEW v \in Value, Commit(s, v)
      PROVE  TypeOK'
  <2>1. SlotMoves(s, v, {}, {}, {self}, "Commit")
    BY <1>5, CallMoves
  <2>2. /\ result' \in SUBSET ConsensusMessage
        /\ heard' \in SUBSET Incoming
        /\ called' \in SUBSET Call
    BY <1>5, CallMoves, CallType
  <2>3. QED
    BY <1>1, <1>2, <2>1, <2>2, MoveType
<1>6. ASSUME NEW m \in Incoming, ProcessMessage(m)
      PROVE  TypeOK'
  <2> DEFINE p == slot_states[m.slot].phase
  <2>1. m \in ConsensusMessage /\ m.slot \in Slot /\ m.value \in Value
    BY DEF Incoming, ConsensusMessage
  <2>2. /\ SlotMoves(m.slot, m.value, {m.sender_id}, MessagePrepares(m), MessageCommits(m), p)
        /\ result' = Replies(self, slot_states[m.slot], slot_states'[m.slot], m)
        /\ heard' = heard \cup {m}
        /\ called' = called
    BY <1>6, ProcessMoves
  <2>3. p \in Phase \ {"Externalized"} /\ slot_states[m.slot] \in SlotStates
    BY <2>1, <2>2, SlotType DEF SlotMoves, Externalized, SlotStates
  <2>4. slot_states'[m.slot] \in SlotStates
    <3>1. slot_states'[m.slot] = Moved(self, slot_states[m.slot], m.value, {m.sender_id},
                                       MessagePrepares(m), MessageCommits(m), p)
      BY <2>1, <2>2 DEF SlotMoves, TypeOK
    <3>2. slot_states[m.slot].phase # "Externalized" /\ HasValueIffDecided(slot_states[m.slot])
      BY <2>1, <2>3, SlotType
    <3> HIDE DEF p
    <3>3. QED
      BY <2>1, <2>3, <3>1, <3>2, MessageVotesType, MovedType, SelfAssumption
  <2>5. result' \in SUBSET ConsensusMessage
    BY <2>1, <2>2, <2>3, <2>4, ReplyIsMessage
  <2>6. heard' \in SUBSET Incoming /\ called' \in SUBSET Call
    BY <2>2 DEF TypeOK
  <2> HIDE DEF p
  <2>7. QED
    BY <2>1, <2>2, <2>3, <2>5, <2>6, MessageVotesType, MoveType
<1>7. ASSUME result' = {}, UNCHANGED <<slot_states, heard, called>>
      PROVE  TypeOK'
  BY <1>7 DEF TypeOK, Externalized
<1>8. CASE UNCHANGED vars
  BY <1>8 DEF vars, TypeOK, Externalized
<1>9. QED
  BY <1>3, <1>4, <1>5, <1>6, <1>7, <1>8 DEF Next, RefuseCall, IgnoreMessage

(***************************************************************************)
(* Type correctness of the Consensus object: its slots, the messages it    *)
(* returns, and is_slot_externalized and get_externalized_value agree.     *)
(***************************************************************************)
THEOREM TypeCorrect == Spec => []TypeOK
  BY InitType, NextType, PTL DEF Spec
-----------------------------------------------------------------------------
(***************************************************************************)
(* The votes of a slot.  VotesDetermined speaks of slots that are not      *)
(* decided and DecisionJustified of those that are; neither is inductive   *)
(* alone.  The invariant says of every slot that it holds the votes that   *)
(* were cast, with the node's own where a quorum is there, and that it is  *)
(* decided for exactly the values whose committers reach a slice.          *)
(***************************************************************************)
VotesHeld ==
  \A s \in Slot, v \in Value :
    /\ slot_states[s].nominations[v] = Nominators(s, v)
    /\ slot_states[s].prepare_votes[v] = Preparers(s, v)
    /\ slot_states[s].commit_votes[v] = Committers(s, v)

DecidedByCommits ==
  \A s \in Slot, v \in Value :
    slot_states[s].externalized_value = v <=> Reaches(self, slot_states[s].commit_votes[v])

VotesInv == TypeOK /\ VotesHeld /\ DecidedByCommits

\* A new slot has no votes, and nothing has been heard or called.
LEMMA InitVotes == Init => VotesInv
<1> SUFFICES ASSUME Init PROVE VotesInv
  OBVIOUS
<1>1. ASSUME NEW s \in Slot, NEW v \in Value
      PROVE  /\ slot_states[s].nominations[v] = {}
             /\ slot_states[s].prepare_votes[v] = {}
             /\ slot_states[s].commit_votes[v] = {}
             /\ slot_states[s].externalized_value # v
  BY NoneAssumption DEF Init, NewSlotState
<1>2. ~Reaches(self, {})
  BY DEF Reaches
<1>3. ASSUME NEW s \in Slot, NEW v \in Value
      PROVE  Nominators(s, v) = {} /\ Preparers(s, v) = {} /\ Committers(s, v) = {}
  <2>1. \A types : HeardIn(heard, s, v, types) = {}
    BY DEF Init, HeardIn
  <2>2. \A t : OwnIn(called, s, t, v) = {}
    BY DEF Init, OwnIn
  <2>3. /\ CastNominations(heard, called, s, v) = {}
        /\ CastPrepares(heard, called, s, v) = {}
        /\ CastCommits(heard, called, s, v) = {}
    BY <2>1, <2>2 DEF CastNominations, CastPrepares, CastCommits
  <2>4. OwnVote(self, {}) = {}
    BY <1>2 DEF OwnVote
  <2>5. Nominators(s, v) = {}
    BY <2>3, TalliesAre
  <2>6. Preparers(s, v) = {}
    BY <2>3, <2>4, <2>5, TalliesAre
  <2>7. Committers(s, v) = {}
    BY <2>3, <2>4, <2>6, TalliesAre
  <2>8. QED
    BY <2>5, <2>6, <2>7
<1>4. VotesHeld
  BY <1>1, <1>3 DEF VotesHeld
<1>5. DecidedByCommits
  BY <1>1, <1>2 DEF DecidedByCommits
<1>6. QED
  BY <1>4, <1>5, InitType DEF VotesInv

\* More votes never take the node's own vote back.
LEMMA OwnVoteGrows ==
  ASSUME NEW V \in SUBSET Node, NEW W \in SUBSET Node, V \subseteq W
  PROVE  OwnVote(self, V) \subseteq OwnVote(self, W)
  BY ReachesMonotone, SelfAssumption DEF OwnVote

(***************************************************************************)
(* A move keeps both: what check_state_transitions computes from the votes *)
(* it finds and those just recorded is what the set of all votes cast      *)
(* gives, whatever came first.                                             *)
(***************************************************************************)
LEMMA MoveVotes ==
  ASSUME VotesInv, TypeOK', NEW s \in Slot, NEW v \in Value,
         NEW N \in SUBSET Node, NEW P \in SUBSET Node, NEW C \in SUBSET Node,
         NEW p, SlotMoves(s, v, N, P, C, p)
  PROVE  VotesInv'
<1> DEFINE st == slot_states[s]
           st2 == slot_states'[s]
           nom == NominatedBy(st, v, N)
           pre == PreparedBy(self, st, v, N, P)
           com == CommittedBy(self, st, v, N, P, C)
<1>1. /\ TypeOK /\ self \in Node
      /\ st \in SlotStates /\ HasValueIffDecided(st) /\ st.phase # "Externalized"
  BY SlotType, SelfAssumption DEF VotesInv, SlotMoves, Externalized
<1>2. /\ st2 = Moved(self, st, v, N, P, C, p)
      /\ \A s2 \in Slot \ {s} : slot_states'[s2] = slot_states[s2]
  BY <1>1 DEF SlotMoves, TypeOK
<1>3. \A w \in Value :
        /\ st2.nominations[w] = IF w = v THEN nom ELSE st.nominations[w]
        /\ st2.prepare_votes[w] = IF w = v THEN pre ELSE st.prepare_votes[w]
        /\ st2.commit_votes[w] = IF w = v THEN com ELSE st.commit_votes[w]
  BY <1>1, <1>2, MovedTallies
<1>4. st2.externalized_value = IF Reaches(self, com) THEN v ELSE st.externalized_value
  BY <1>2 DEF Moved
<1>5. /\ nom = st.nominations[v] \cup N
      /\ pre = st.prepare_votes[v] \cup P \cup OwnVote(self, nom)
      /\ com = st.commit_votes[v] \cup C \cup OwnVote(self, pre)
  BY DEF NominatedBy, PreparedBy, CommittedBy
<1>6. /\ st.nominations[v] \in SUBSET Node /\ nom \in SUBSET Node
      /\ st.prepare_votes[v] \in SUBSET Node /\ pre \in SUBSET Node
  BY <1>1, TalliesType DEF SlotStates, VoteMap
<1> HIDE DEF st, st2, nom, pre, com
<1>7. /\ st.nominations[v] = Nominators(s, v)
      /\ st.prepare_votes[v] = Preparers(s, v)
      /\ st.commit_votes[v] = Committers(s, v)
  BY DEF VotesInv, VotesHeld, st
<1>8. /\ CastNominations(heard', called', s, v) = CastNominations(heard, called, s, v) \cup N
      /\ CastPrepares(heard', called', s, v) = CastPrepares(heard, called, s, v) \cup P
      /\ CastCommits(heard', called', s, v) = CastCommits(heard, called, s, v) \cup C
  BY DEF SlotMoves, Casts
<1>9. nom = Nominators(s, v)'
  BY <1>5, <1>7, <1>8, TalliesAre
<1>10. pre = Preparers(s, v)'
  <2>1. OwnVote(self, Nominators(s, v)) \subseteq OwnVote(self, nom)
    BY <1>5, <1>6, <1>7, OwnVoteGrows
  <2>2. Preparers(s, v) = CastPrepares(heard, called, s, v) \cup OwnVote(self, Nominators(s, v))
    BY TalliesAre
  <2>3. Preparers(s, v)' = CastPrepares(heard, called, s, v) \cup P \cup OwnVote(self, nom)
    BY <1>8, <1>9, TalliesAre
  <2>4. QED
    BY <1>5, <1>7, <2>1, <2>2, <2>3
<1>11. com = Committers(s, v)'
  <2>1. OwnVote(self, Preparers(s, v)) \subseteq OwnVote(self, pre)
    BY <1>5, <1>6, <1>7, OwnVoteGrows
  <2>2. Committers(s, v) = CastCommits(heard, called, s, v) \cup OwnVote(self, Preparers(s, v))
    BY TalliesAre
  <2>3. Committers(s, v)' = CastCommits(heard, called, s, v) \cup C \cup OwnVote(self, pre)
    BY <1>8, <1>10, TalliesAre
  <2>4. QED
    BY <1>5, <1>7, <2>1, <2>2, <2>3
<1>12. ASSUME NEW s2 \in Slot, NEW w \in Value, ~(s2 = s /\ w = v)
       PROVE  /\ Nominators(s2, w)' = Nominators(s2, w)
              /\ Preparers(s2, w)' = Preparers(s2, w)
              /\ Committers(s2, w)' = Committers(s2, w)
  <2>1. /\ CastNominations(heard', called', s2, w) = CastNominations(heard, called, s2, w)
        /\ CastPrepares(heard', called', s2, w) = CastPrepares(heard, called, s2, w)
        /\ CastCommits(heard', called', s2, w) = CastCommits(heard, called, s2, w)
    <3>1. Casts(s, v, N, P, C)
      BY DEF SlotMoves
    <3>2. /\ CastNominations(heard', called', s2, w) =
               CastNominations(heard, called, s2, w) \cup (IF s2 = s /\ w = v THEN N ELSE {})
          /\ CastPrepares(heard', called', s2, w) =
               CastPrepares(heard, called, s2, w) \cup (IF s2 = s /\ w = v THEN P ELSE {})
          /\ CastCommits(heard', called', s2, w) =
               CastCommits(heard, called, s2, w) \cup (IF s2 = s /\ w = v THEN C ELSE {})
      BY <3>1 DEF Casts
    <3>3. QED
      BY <1>12, <3>2
  <2>2. Nominators(s2, w)' = Nominators(s2, w)
    BY <2>1, TalliesAre
  <2>3. Preparers(s2, w)' = Preparers(s2, w)
    BY <2>1, <2>2, TalliesAre
  <2>4. Committers(s2, w)' = Committers(s2, w)
    <3>1. Committers(s2, w) = CastCommits(heard, called, s2, w) \cup OwnVote(self, Preparers(s2, w))
      BY TalliesAre
    <3>2. Committers(s2, w)' =
            CastCommits(heard', called', s2, w) \cup OwnVote(self, Preparers(s2, w)')
      BY TalliesAre
    <3>3. QED
      BY <2>1, <2>3, <3>1, <3>2
  <2>5. QED
    BY <2>2, <2>3, <2>4
<1>13. ASSUME NEW s2 \in Slot, NEW w \in Value
       PROVE  /\ slot_states'[s2].nominations[w] = Nominators(s2, w)'
              /\ slot_states'[s2].prepare_votes[w] = Preparers(s2, w)'
              /\ slot_states'[s2].commit_votes[w] = Committers(s2, w)'
  <2>1. CASE s2 = s /\ w = v
    BY <1>3, <1>9, <1>10, <1>11, <2>1 DEF st2
  <2>2. CASE s2 = s /\ w # v
    <3>1. /\ slot_states'[s2].nominations[w] = slot_states[s2].nominations[w]
          /\ slot_states'[s2].prepare_votes[w] = slot_states[s2].prepare_votes[w]
          /\ slot_states'[s2].commit_votes[w] = slot_states[s2].commit_votes[w]
      BY <1>3, <2>2 DEF st, st2
    <3>2. QED
      BY <1>12, <2>2, <3>1 DEF VotesInv, VotesHeld
  <2>3. CASE s2 # s
    <3>1. slot_states'[s2] = slot_states[s2]
      BY <1>2, <2>3
    <3>2. QED
      BY <1>12, <2>3, <3>1 DEF VotesInv, VotesHeld
  <2>4. QED
    BY <2>1, <2>2, <2>3
<1>14. VotesHeld'
  BY <1>13 DEF VotesHeld
<1>15. \A w \in Value : ~Reaches(self, st.commit_votes[w])
  BY <1>1, NoneAssumption DEF VotesInv, DecidedByCommits, HasValueIffDecided, st
<1>16. st.externalized_value = None
  BY <1>1 DEF HasValueIffDecided
<1>17. \A w \in Value : st2.externalized_value = w <=> Reaches(self, st2.commit_votes[w])
  BY <1>3, <1>4, <1>15, <1>16, NoneAssumption
<1>18. DecidedByCommits'
  BY <1>2, <1>17 DEF VotesInv, DecidedByCommits, st2
<1>19. QED
  BY <1>14, <1>18 DEF VotesInv

\* Every step keeps the invariant.
LEMMA NextVotes == VotesInv /\ [Next]_vars => VotesInv'
<1> SUFFICES ASSUME VotesInv, [Next]_vars PROVE VotesInv'
  OBVIOUS
<1>1. TypeOK /\ TypeOK'
  BY NextType DEF VotesInv
<1>2. {self} \in SUBSET Node /\ {} \in SUBSET Node
  BY SelfAssumption
<1>3. ASSUME NEW s \in Slot, NEW v \in Value, Nominate(s, v)
      PROVE  VotesInv'
  <2>1. PICK p \in Phase \ {"Externalized"} : SlotMoves(s, v, {self}, {}, {}, p)
    BY <1>1, <1>3, CallMoves
  <2>2. QED
    BY <1>1, <1>2, <2>1, MoveVotes
<1>4. ASSUME NEW s \in Slot, NEW v \in Value, Prepare(s, v)
      PROVE  VotesInv'
  <2>1. SlotMoves(s, v, {}, {self}, {}, "Prepare")
    BY <1>1, <1>4, CallMoves
  <2>2. QED
    BY <1>1, <1>2, <2>1, MoveVotes
<1>5. ASSUME NEW s \in Slot, NEW v \in Value, Commit(s, v)
      PROVE  VotesInv'
  <2>1. SlotMoves(s, v, {}, {}, {self}, "Commit")
    BY <1>1, <1>5, CallMoves
  <2>2. QED
    BY <1>1, <1>2, <2>1, MoveVotes
<1>6. ASSUME NEW m \in Incoming, ProcessMessage(m)
      PROVE  VotesInv'
  <2>1. m \in ConsensusMessage /\ m.slot \in Slot /\ m.value \in Value
    BY DEF Incoming, ConsensusMessage
  <2>2. SlotMoves(m.slot, m.value, {m.sender_id}, MessagePrepares(m), MessageCommits(m),
                  slot_states[m.slot].phase)
    BY <1>1, <1>6, ProcessMoves
  <2>3. QED
    BY <1>1, <2>1, <2>2, MessageVotesType, MoveVotes
<1>7. ASSUME UNCHANGED <<slot_states, heard, called>>
      PROVE  VotesInv'
  <2>1. \A s \in Slot, v \in Value : /\ Nominators(s, v)' = Nominators(s, v)
                                     /\ Preparers(s, v)' = Preparers(s, v)
                                     /\ Committers(s, v)' = Committers(s, v)
    BY <1>7 DEF Nominators, Preparers, Committers, HeardFrom, OwnCall
  <2>2. VotesHeld'
    BY <1>7, <2>1 DEF VotesInv, VotesHeld
  <2>3. DecidedByCommits'
    BY <1>7 DEF VotesInv, DecidedByCommits
  <2>4. QED
    BY <1>1, <2>2, <2>3 DEF VotesInv
<1>8. CASE UNCHANGED vars
  BY <1>7, <1>8 DEF vars
<1>9. QED
  BY <1>3, <1>4, <1>5, <1>6, <1>7, <1>8 DEF Next, RefuseCall, IgnoreMessage

\* The invariant holds in every reachable state.
LEMMA VotesInvariant == Spec => []VotesInv
  BY InitVotes, NextVotes, PTL DEF Spec

(***************************************************************************)
(* The votes of an undecided slot are a function of the set of signed      *)
(* messages heard and calls made, whatever their order and multiplicity,   *)
(* and no commit quorum waits in it.                                       *)
(***************************************************************************)
THEOREM OrderDoesNotMatter == Spec => []VotesDetermined
<1>1. VotesInv => VotesDetermined
  <2> SUFFICES ASSUME VotesInv, NEW s \in Slot, ~Externalized(s), NEW v \in Value
               PROVE  /\ slot_states[s].nominations[v] = Nominators(s, v)
                      /\ slot_states[s].prepare_votes[v] = Preparers(s, v)
                      /\ slot_states[s].commit_votes[v] = Committers(s, v)
                      /\ ~Reaches(self, Committers(s, v))
    BY DEF VotesDetermined
  <2>1. slot_states[s].externalized_value = None
    BY DEF VotesInv, TypeOK
  <2>2. ~Reaches(self, slot_states[s].commit_votes[v])
    BY <2>1, NoneAssumption DEF VotesInv, DecidedByCommits
  <2>3. QED
    BY <2>2 DEF VotesInv, VotesHeld
<1>2. QED
  BY <1>1, VotesInvariant, PTL

(***************************************************************************)
(* A decided slot is decided for the one value whose committers form a     *)
(* slice of the node.                                                      *)
(***************************************************************************)
THEOREM DecisionIsJustified == Spec => []DecisionJustified
<1>1. VotesInv => DecisionJustified
  BY DEF VotesInv, VotesHeld, DecidedByCommits, DecisionJustified
<1>2. QED
  BY <1>1, VotesInvariant, PTL

-----------------------------------------------------------------------------
(* What the node says. *)

\* What ResultIsTruthful asks of one message, of a slot in state st.
Truthful(st, t, v) ==
  /\ t = "Nominate" => self \in st.nominations[v]
  /\ t = "Prepare" => (IsValidator(self) => self \in st.prepare_votes[v])
  /\ t = "Commit" => (IsValidator(self) => self \in st.commit_votes[v])
  /\ t = "Externalize" => st.externalized_value = v

\* Truthful is the case distinction of ResultIsTruthful.
LEMMA TruthfulIs ==
  ASSUME NEW m, m.msg_type \in MessageType
  PROVE  Truthful(slot_states[m.slot], m.msg_type, m.value) <=>
           LET st == slot_states[m.slot]
           IN CASE m.msg_type = "Nominate"    -> self \in st.nominations[m.value]
                [] m.msg_type = "Prepare"     -> IsValidator(self) => self \in st.prepare_votes[m.value]
                [] m.msg_type = "Commit"      -> IsValidator(self) => self \in st.commit_votes[m.value]
                [] m.msg_type = "Externalize" -> st.externalized_value = m.value
<1>1. CASE m.msg_type = "Nominate"
  BY <1>1 DEF Truthful
<1>2. CASE m.msg_type = "Prepare"
  BY <1>2 DEF Truthful
<1>3. CASE m.msg_type = "Commit"
  BY <1>3 DEF Truthful
<1>4. CASE m.msg_type = "Externalize"
  BY <1>4 DEF Truthful
<1>5. QED
  BY <1>1, <1>2, <1>3, <1>4 DEF MessageType

\* The votes that come with a move are in the slot it leaves.
LEMMA MoveHolds ==
  ASSUME TypeOK, NEW s \in Slot, NEW v \in Value, NEW N, NEW P, NEW C, NEW p,
         SlotMoves(s, v, N, P, C, p)
  PROVE  LET st2 == slot_states'[s] IN
         /\ N \subseteq st2.nominations[v]
         /\ P \subseteq st2.prepare_votes[v]
         /\ C \subseteq st2.commit_votes[v]
         /\ st2.phase = "Prepare" /\ p # "Prepare" => SelfVote(self) \subseteq st2.prepare_votes[v]
         /\ st2.phase = "Commit" /\ p # "Commit" => SelfVote(self) \subseteq st2.commit_votes[v]
         /\ st2.phase = "Externalized" /\ p # "Externalized" => st2.externalized_value = v
<1> DEFINE st == slot_states[s]
           st2 == slot_states'[s]
           nom == NominatedBy(st, v, N)
           pre == PreparedBy(self, st, v, N, P)
           com == CommittedBy(self, st, v, N, P, C)
<1>1. st \in SlotStates /\ self \in Node
  BY SlotType, SelfAssumption
<1>2. st2 = Moved(self, st, v, N, P, C, p)
  BY DEF SlotMoves, TypeOK
<1>3. st2.nominations[v] = nom /\ st2.prepare_votes[v] = pre /\ st2.commit_votes[v] = com
  BY <1>1, <1>2, MovedTallies
<1>4. /\ st2.phase = MovedPhase(self, nom, pre, com, p)
      /\ st2.externalized_value = IF Reaches(self, com) THEN v ELSE st.externalized_value
  BY <1>2 DEF Moved
<1>5. /\ N \subseteq nom
      /\ P \subseteq pre /\ OwnVote(self, nom) \subseteq pre
      /\ C \subseteq com /\ OwnVote(self, pre) \subseteq com
  BY DEF NominatedBy, PreparedBy, CommittedBy
<1> HIDE DEF st, st2, nom, pre, com
<1>6. st2.phase = "Prepare" /\ p # "Prepare" => SelfVote(self) \subseteq st2.prepare_votes[v]
  BY <1>3, <1>4, <1>5 DEF MovedPhase, OwnVote
<1>7. st2.phase = "Commit" /\ p # "Commit" => SelfVote(self) \subseteq st2.commit_votes[v]
  BY <1>3, <1>4, <1>5 DEF MovedPhase, OwnVote
<1>8. st2.phase = "Externalized" /\ p # "Externalized" => st2.externalized_value = v
  BY <1>4 DEF MovedPhase
<1>9. QED
  BY <1>3, <1>5, <1>6, <1>7, <1>8 DEF st2

TruthfulResult ==
  \A m \in result : /\ m.msg_type \in MessageType
                    /\ Truthful(slot_states[m.slot], m.msg_type, m.value)

\* What any step returns is true of the slot it leaves.
LEMMA NextTruthful == TypeOK /\ TruthfulResult /\ [Next]_vars => TruthfulResult'
<1> SUFFICES ASSUME TypeOK, TruthfulResult, [Next]_vars PROVE TruthfulResult'
  OBVIOUS
<1>1. ASSUME NEW s \in Slot, NEW v \in Value, NEW t \in {"Nominate", "Prepare", "Commit"},
             result' = {NewMessage(s, self, t, v)}, Truthful(slot_states'[s], t, v)
      PROVE  TruthfulResult'
  <2>1. ASSUME NEW m \in result'
        PROVE  m.slot = s /\ m.value = v /\ m.msg_type = t
    BY <1>1, <2>1 DEF NewMessage
  <2>2. t \in MessageType
    BY DEF MessageType
  <2>3. QED
    BY <1>1, <2>1, <2>2 DEF TruthfulResult, Truthful
<1>2. ASSUME NEW s \in Slot, NEW v \in Value, Nominate(s, v)
      PROVE  TruthfulResult'
  <2>1. PICK p : SlotMoves(s, v, {self}, {}, {}, p)
    BY <1>2, CallMoves
  <2>2. Truthful(slot_states'[s], "Nominate", v)
    BY <2>1, MoveHolds DEF Truthful
  <2>3. QED
    BY <1>1, <1>2, <2>2, CallMoves
<1>3. ASSUME NEW s \in Slot, NEW v \in Value, Prepare(s, v)
      PROVE  TruthfulResult'
  <2>1. Truthful(slot_states'[s], "Prepare", v)
    BY <1>3, CallMoves, MoveHolds DEF Truthful
  <2>2. QED
    BY <1>1, <1>3, <2>1, CallMoves
<1>4. ASSUME NEW s \in Slot, NEW v \in Value, Commit(s, v)
      PROVE  TruthfulResult'
  <2>1. Truthful(slot_states'[s], "Commit", v)
    BY <1>4, CallMoves, MoveHolds DEF Truthful
  <2>2. QED
    BY <1>1, <1>4, <2>1, CallMoves
<1>5. ASSUME NEW m \in Incoming, ProcessMessage(m)
      PROVE  TruthfulResult'
  <2> DEFINE st == slot_states[m.slot]
             st2 == slot_states'[m.slot]
  <2>1. m \in ConsensusMessage /\ m.slot \in Slot /\ m.value \in Value
    BY DEF Incoming, ConsensusMessage
  <2>2. /\ SlotMoves(m.slot, m.value, {m.sender_id}, MessagePrepares(m), MessageCommits(m), st.phase)
        /\ result' = Replies(self, st, st2, m)
    BY <1>5, ProcessMoves
  <2>3. /\ st2.phase = "Prepare" /\ st.phase # "Prepare" =>
             SelfVote(self) \subseteq st2.prepare_votes[m.value]
        /\ st2.phase = "Commit" /\ st.phase # "Commit" =>
             SelfVote(self) \subseteq st2.commit_votes[m.value]
        /\ st2.phase = "Externalized" /\ st.phase # "Externalized" => st2.externalized_value = m.value
    BY <2>1, <2>2, MoveHolds
  <2>4. st2.phase \in Phase
    BY <2>1, NextType, SlotType DEF TypeOK, SlotStates
  <2>5. IsValidator(self) => SelfVote(self) = {self}
    BY DEF SelfVote
  <2> HIDE DEF st, st2
  <2>6. ASSUME NEW r \in result'
        PROVE  /\ r.slot = m.slot /\ r.value = m.value /\ r.msg_type = ReplyType(st2.phase)
               /\ st2.phase \in {"Prepare", "Commit", "Externalized"}
               /\ st2.phase # st.phase
    BY <2>2, <2>4, <2>6 DEF Replies, NewMessage, Phase
  <2>7. ASSUME NEW r \in result'
        PROVE  r.msg_type \in MessageType /\ Truthful(st2, r.msg_type, m.value)
    <3>1. CASE st2.phase = "Prepare"
      BY <2>3, <2>5, <2>6, <3>1 DEF Truthful, ReplyType, MessageType
    <3>2. CASE st2.phase = "Commit"
      BY <2>3, <2>5, <2>6, <3>2 DEF Truthful, ReplyType, MessageType
    <3>3. CASE st2.phase = "Externalized"
      BY <2>3, <2>5, <2>6, <3>3 DEF Truthful, ReplyType, MessageType
    <3>4. QED
      BY <2>6, <3>1, <3>2, <3>3
  <2>8. QED
    BY <2>6, <2>7 DEF TruthfulResult, st2
<1>6. ASSUME result' = {}
      PROVE  TruthfulResult'
  BY <1>6 DEF TruthfulResult
<1>7. CASE UNCHANGED vars
  BY <1>7 DEF vars, TruthfulResult
<1>8. QED
  BY <1>2, <1>3, <1>4, <1>5, <1>6, <1>7 DEF Next, RefuseCall, IgnoreMessage

(***************************************************************************)
(* What a call or process_message returns is so: a validator that says     *)
(* Prepare or Commit holds its own vote, and Externalize names the value   *)
(* decided.                                                                *)
(***************************************************************************)
THEOREM SaysWhatItHolds == Spec => []ResultIsTruthful
<1>1. Init => TruthfulResult
  BY DEF Init, TruthfulResult
<1>2. TruthfulResult => ResultIsTruthful
  BY TruthfulIs DEF TruthfulResult, ResultIsTruthful
<1>3. QED
  BY <1>1, <1>2, NextTruthful, TypeCorrect, PTL DEF Spec

-----------------------------------------------------------------------------
(* Decisions are final. *)

\* What DecisionIsFinal says, of one step.
LEMMA NextKeepsDecided ==
  TypeOK /\ [Next]_vars => \A s \in Slot : Externalized(s) => slot_states'[s] = slot_states[s]
<1> SUFFICES ASSUME TypeOK, [Next]_vars, NEW s \in Slot, Externalized(s)
             PROVE  slot_states'[s] = slot_states[s]
  OBVIOUS
<1>1. ASSUME NEW s2 \in Slot, NEW after, ~Externalized(s2),
             slot_states' = [slot_states EXCEPT ![s2] = after]
      PROVE  slot_states'[s] = slot_states[s]
  BY <1>1 DEF TypeOK
<1>2. ASSUME NEW m \in Incoming, ProcessMessage(m)
      PROVE  slot_states'[s] = slot_states[s]
  <2>1. m.slot \in Slot
    BY DEF Incoming, ConsensusMessage
  <2>2. QED
    BY <1>1, <1>2, <2>1 DEF ProcessMessage
<1>3. ASSUME NEW s2 \in Slot, NEW t, NEW v, NEW after, LocalCall(s2, t, v, after)
      PROVE  slot_states'[s] = slot_states[s]
  BY <1>1, <1>3 DEF LocalCall
<1>4. CASE slot_states' = slot_states
  BY <1>4
<1>5. QED
  BY <1>2, <1>3, <1>4 DEF Next, Nominate, Prepare, Commit, RefuseCall, IgnoreMessage, vars

(***************************************************************************)
(* No late message and no call changes a slot that is externalized.        *)
(***************************************************************************)
THEOREM DecisionStays == Spec => DecisionIsFinal
<1>1. TypeOK /\ [Next]_vars =>
        [\A s \in Slot : Externalized(s) => slot_states'[s] = slot_states[s]]_vars
  BY NextKeepsDecided
<1>2. QED
  BY <1>1, TypeCorrect, PTL DEF Spec, DecisionIsFinal
=============================================================================
