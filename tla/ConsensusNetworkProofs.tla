----------------------- MODULE ConsensusNetworkProofs -----------------------
(***************************************************************************)
(* Theorems about ConsensusNetwork, for any number of nodes, slots, values *)
(* and crashes, and any quorum sets.                                       *)
(***************************************************************************)
EXTENDS ConsensusNetwork, SlotStateProofs

-----------------------------------------------------------------------------
\* The event loop and the application process messages alike, but for the
\* reply, which the event loop broadcasts.
LEMMA NextSteps ==
  ASSUME [Next]_vars
  PROVE  \/ \E n \in Node, s \in Slot, v \in Value : Nominate(n, s, v)
         \/ \E n \in Node, m \in msgs : \E R \in SUBSET Answer(n, m) : Process(n, m, R)
         \/ UNCHANGED <<slot_states, msgs>> /\ up' \subseteq up
<1>1. ASSUME NEW n \in Node, NEW m \in msgs, Deliver(n, m)
      PROVE  \E R \in SUBSET Answer(n, m) : Process(n, m, R)
  BY <1>1 DEF Deliver
<1>2. ASSUME NEW n \in Feeder, NEW m \in msgs, ProcessConsensusMessage(n, m)
      PROVE  n \in Node /\ \E R \in SUBSET Answer(n, m) : Process(n, m, R)
  <2>1. {} \in SUBSET Answer(n, m)
    OBVIOUS
  <2>2. QED
    BY <1>2, <2>1, NetworkAssumption DEF ProcessConsensusMessage
<1>3. ASSUME NEW n \in Node, Crash(n)
      PROVE  UNCHANGED <<slot_states, msgs>> /\ up' \subseteq up
  BY <1>3 DEF Crash
<1>4. CASE UNCHANGED vars
  BY <1>4 DEF vars
<1>5. QED
  BY <1>1, <1>2, <1>3, <1>4, NetworkAssumption DEF Next, HandleMessage

\* What processing a message does, with the state of its slot named.
LEMMA ProcessIs ==
  ASSUME NEW n, NEW m, NEW R \in SUBSET Answer(n, m), Process(n, m, R),
         NEW st, st = slot_states[n][m.slot]
  PROVE  /\ ~Externalized(n, m.slot)
         /\ slot_states' = [slot_states EXCEPT ![n][m.slot] = AfterMessage(n, st, m)]
         /\ msgs' = msgs \cup R
         /\ R \subseteq {Sign(n, r) : r \in Replies(n, st, AfterMessage(n, st, m), m)}
         /\ up' = up
  BY DEF Process, After, Answer

(* Type correctness. *)

\* A new slot is open, without votes or value.
LEMMA InitType == Init => TypeOK
<1> SUFFICES ASSUME Init PROVE TypeOK
  OBVIOUS
<1>1. NewSlotState \in SlotStates
  BY DEF NewSlotState, SlotStates, VoteMap, Phase
<1>2. NewSlotState.phase # "Externalized" /\ NewSlotState.externalized_value = None
  BY DEF NewSlotState
<1>3. QED
  BY <1>1, <1>2 DEF Init, TypeOK, Externalized, Decided

\* What replacing one slot state does to the type invariant.
LEMMA UpdateType ==
  ASSUME TypeOK, NEW n \in Node, NEW s \in Slot, NEW st \in SlotStates,
         HasValueIffDecided(st),
         slot_states' = [slot_states EXCEPT ![n][s] = st],
         msgs' \in SUBSET ConsensusMessage, \A m \in msgs' : VerifySignature(m),
         up' \in SUBSET Node
  PROVE  TypeOK'
  BY DEF TypeOK, Externalized, Decided, HasValueIffDecided

\* Every slot of every node is well formed.
LEMMA SlotStateType ==
  ASSUME TypeOK, NEW n \in Node, NEW s \in Slot
  PROVE  slot_states[n][s] \in SlotStates /\ HasValueIffDecided(slot_states[n][s])
  BY DEF TypeOK, Externalized, Decided, HasValueIffDecided

\* Consensus::nominate keeps the types, and signs what it sends.
LEMMA NominateType ==
  ASSUME TypeOK, NEW n \in Node, NEW s \in Slot, NEW v \in Value, Nominate(n, s, v)
  PROVE  TypeOK'
<1> DEFINE st == slot_states[n][s]
           m == Sign(n, NewMessage(s, n, "Nominate", v))
<1>1. st \in SlotStates /\ HasValueIffDecided(st)
  BY SlotStateType
<1>2. st.phase # "Externalized"
  BY DEF Nominate, Externalized
<1>3. AfterNominate(n, st, v) \in SlotStates /\ HasValueIffDecided(AfterNominate(n, st, v))
  BY <1>1, <1>2, AfterNominateType
<1>4. m \in ConsensusMessage /\ VerifySignature(m)
  BY DEF Sign, NewMessage, ConsensusMessage, MessageType, VerifySignature
<1>5. slot_states' = [slot_states EXCEPT ![n][s] = AfterNominate(n, st, v)]
  BY DEF Nominate, TypeOK
<1>6. msgs' = msgs \cup {m} /\ up' = up
  BY DEF Nominate
<1> HIDE DEF m, st
<1>7. msgs' \in SUBSET ConsensusMessage /\ \A k \in msgs' : VerifySignature(k)
  BY <1>4, <1>6 DEF TypeOK
<1>8. up' \in SUBSET Node
  BY <1>6 DEF TypeOK
<1>9. QED
  BY <1>3, <1>5, <1>7, <1>8, UpdateType

\* process_message keeps the types, and its reply is signed.
LEMMA ProcessType ==
  ASSUME TypeOK, NEW n \in Node, NEW m \in msgs,
         NEW R \in SUBSET Answer(n, m), Process(n, m, R)
  PROVE  TypeOK'
<1> DEFINE st == slot_states[n][m.slot]
           after == AfterMessage(n, st, m)
<1>1. m \in ConsensusMessage /\ m.slot \in Slot
  BY DEF TypeOK, ConsensusMessage
<1>2. st \in SlotStates /\ HasValueIffDecided(st)
  BY <1>1, SlotStateType
<1>3. after \in SlotStates /\ HasValueIffDecided(after)
  BY <1>1, <1>2, AfterMessageType
<1>4. /\ slot_states' = [slot_states EXCEPT ![n][m.slot] = after]
      /\ msgs' = msgs \cup R
      /\ R \subseteq {Sign(n, r) : r \in Replies(n, st, after, m)}
      /\ up' = up
  BY ProcessIs
<1> HIDE DEF st, after
<1>5. \A r \in Replies(n, st, after, m) :
        Sign(n, r) \in ConsensusMessage /\ VerifySignature(Sign(n, r))
  BY <1>1, <1>2, <1>3, RepliesType
<1>6. msgs' \in SUBSET ConsensusMessage /\ \A k \in msgs' : VerifySignature(k)
  BY <1>4, <1>5 DEF TypeOK
<1>7. up' \in SUBSET Node
  BY <1>4 DEF TypeOK
<1>8. QED
  BY <1>1, <1>3, <1>4, <1>6, <1>7, UpdateType

\* Every step keeps the types.
LEMMA NextType == TypeOK /\ [Next]_vars => TypeOK'
<1> SUFFICES ASSUME TypeOK, [Next]_vars PROVE TypeOK'
  OBVIOUS
<1>1. ASSUME NEW n \in Node, NEW s \in Slot, NEW v \in Value, Nominate(n, s, v)
      PROVE  TypeOK'
  BY <1>1, NominateType
<1>2. ASSUME NEW n \in Node, NEW m \in msgs,
             NEW R \in SUBSET Answer(n, m), Process(n, m, R)
      PROVE  TypeOK'
  BY <1>2, ProcessType
<1>3. CASE UNCHANGED <<slot_states, msgs>> /\ up' \subseteq up
  BY <1>3 DEF TypeOK, Externalized, Decided
<1>4. QED
  BY <1>1, <1>2, <1>3, NextSteps

(***************************************************************************)
(* Type correctness of the network: slot states, messages and their        *)
(* signatures, and the agreement of phase and externalized_value           *)
(* (consensus.rs), in every reachable state.                               *)
(***************************************************************************)
THEOREM TypeCorrect == Spec => []TypeOK
  BY InitType, NextType, PTL DEF Spec
-----------------------------------------------------------------------------
(***************************************************************************)
(* Support.  VotesAreSupported is not inductive: a prepare vote appears    *)
(* when the nominations a node holds form a slice, and a node counts as    *)
(* nominators those it heard a Prepare, Commit or Externalize from.  The   *)
(* strengthening says of every nomination held that it is either real or   *)
(* of a value already supported, and of every message on the network that  *)
(* its value is supported unless it is a nomination.                       *)
(***************************************************************************)
NominatorsIn(M, s, v) == {n \in Node : Sign(n, NewMessage(s, n, "Nominate", v)) \in M}

VotesRest ==
  \A n \in Node, s \in Slot, v \in Value :
    /\ RestsOn(slot_states[n][s], v, NominatorsIn(msgs, s, v))
    /\ Decided(n, s) = v => SupportedBy(NominatorsIn(msgs, s, v))

MessagesRest ==
  \A m \in msgs :
    m.msg_type # "Nominate" => SupportedBy(NominatorsIn(msgs, m.slot, m.value))

SupportInv == TypeOK /\ VotesRest /\ MessagesRest

\* Only nodes nominate.
LEMMA NominatorsAreNodes ==
  ASSUME NEW M, NEW s, NEW v PROVE NominatorsIn(M, s, v) \in SUBSET Node
  BY DEF NominatorsIn

\* A nomination on the network is its sender's.
LEMMA NominationIsReal ==
  ASSUME TypeOK, NEW m \in msgs, m.msg_type = "Nominate"
  PROVE  m.sender_id \in NominatorsIn(msgs, m.slot, m.value)
<1>1. m \in ConsensusMessage /\ m.signature = m.sender_id
  BY DEF TypeOK, VerifySignature
<1>2. m = [slot |-> m.slot, sender_id |-> m.sender_id, msg_type |-> "Nominate",
           value |-> m.value, signature |-> m.sender_id]
  BY <1>1 DEF ConsensusMessage
<1>3. m = Sign(m.sender_id, NewMessage(m.slot, m.sender_id, "Nominate", m.value))
  BY <1>2 DEF Sign, NewMessage
<1>4. m.sender_id \in Node
  BY <1>1 DEF ConsensusMessage
<1>5. QED
  BY <1>3, <1>4 DEF NominatorsIn

\* Messages are never taken back.
LEMMA NominatorsGrow ==
  ASSUME NEW s, NEW v, NEW M, NEW M2, M \subseteq M2
  PROVE  NominatorsIn(M, s, v) \subseteq NominatorsIn(M2, s, v)
  BY DEF NominatorsIn

(***************************************************************************)
(* A step that changes one slot, at one node and for one value, without    *)
(* creating support, and sends messages about it that rest on support.     *)
(***************************************************************************)
RestingUpdate(n, s, v) ==
  LET st  == slot_states[n][s]
      st2 == slot_states'[n][s]
      T   == NominatorsIn(msgs', s, v)
  IN /\ \A n2 \in Node, s2 \in Slot :
          ~(n2 = n /\ s2 = s) => slot_states'[n2][s2] = slot_states[n2][s2]
     /\ msgs \subseteq msgs'
     /\ RestsOn(st2, v, T)
     /\ \A w \in Value \ {v} : /\ st2.nominations[w] = st.nominations[w]
                               /\ st2.prepare_votes[w] = st.prepare_votes[w]
                               /\ st2.commit_votes[w] = st.commit_votes[w]
     /\ st2.externalized_value # st.externalized_value =>
          SupportedBy(T) /\ st2.externalized_value = v
     /\ \A m \in msgs' \ msgs :
          m.msg_type # "Nominate" => m.slot = s /\ m.value = v /\ SupportedBy(T)

\* A change of one slot that rests on nominations keeps the invariant.
LEMMA UpdateRests ==
  ASSUME SupportInv, TypeOK', NEW n \in Node, NEW s \in Slot, NEW v \in Value,
         RestingUpdate(n, s, v)
  PROVE  SupportInv'
<1>0. msgs \subseteq msgs'
  BY DEF RestingUpdate
<1>1. \A s2 \in Slot, w \in Value :
        /\ NominatorsIn(msgs, s2, w) \subseteq NominatorsIn(msgs', s2, w)
        /\ NominatorsIn(msgs, s2, w) \in SUBSET Node
        /\ NominatorsIn(msgs', s2, w) \in SUBSET Node
  BY <1>0, NominatorsGrow DEF NominatorsIn
<1>2. \A s2 \in Slot, w \in Value :
        SupportedBy(NominatorsIn(msgs, s2, w)) => SupportedBy(NominatorsIn(msgs', s2, w))
  BY <1>1, RestsOnMonotone
<1>4. VotesRest'
  <2> SUFFICES ASSUME NEW n2 \in Node, NEW s2 \in Slot, NEW w \in Value
               PROVE  /\ RestsOn(slot_states'[n2][s2], w, NominatorsIn(msgs', s2, w))
                      /\ slot_states'[n2][s2].externalized_value = w
                           => SupportedBy(NominatorsIn(msgs', s2, w))
    BY DEF VotesRest, Decided
  <2>1. /\ RestsOn(slot_states[n2][s2], w, NominatorsIn(msgs, s2, w))
        /\ slot_states[n2][s2].externalized_value = w => SupportedBy(NominatorsIn(msgs, s2, w))
    BY DEF SupportInv, VotesRest, Decided
  <2>2. /\ RestsOn(slot_states[n2][s2], w, NominatorsIn(msgs', s2, w))
        /\ slot_states[n2][s2].externalized_value = w => SupportedBy(NominatorsIn(msgs', s2, w))
    BY <1>1, <2>1, RestsOnMonotone
  <2>3. CASE ~(n2 = n /\ s2 = s)
    BY <2>2, <2>3 DEF RestingUpdate
  <2>4. CASE n2 = n /\ s2 = s /\ w = v
    BY <2>2, <2>4 DEF RestingUpdate
  <2>5. CASE n2 = n /\ s2 = s /\ w # v
    <3>1. RestsOn(slot_states'[n2][s2], w, NominatorsIn(msgs', s2, w))
      BY <2>2, <2>5 DEF RestsOn, RestingUpdate
    <3>2. slot_states'[n2][s2].externalized_value = w
            => slot_states[n2][s2].externalized_value = w
      BY <2>5 DEF RestingUpdate
    <3>3. QED
      BY <2>2, <3>1, <3>2
  <2>6. QED
    BY <2>3, <2>4, <2>5
<1>5. MessagesRest'
  <2> SUFFICES ASSUME NEW m \in msgs', m.msg_type # "Nominate"
               PROVE  SupportedBy(NominatorsIn(msgs', m.slot, m.value))
    BY DEF MessagesRest
  <2>1. CASE m \in msgs
    <3>1. m.slot \in Slot /\ m.value \in Value
      BY <2>1 DEF SupportInv, TypeOK, ConsensusMessage
    <3>2. SupportedBy(NominatorsIn(msgs, m.slot, m.value))
      BY <2>1 DEF SupportInv, MessagesRest
    <3>3. QED
      BY <1>2, <3>1, <3>2
  <2>2. CASE m \notin msgs
    BY <2>2 DEF RestingUpdate
  <2>3. QED
    BY <2>1, <2>2
<1>6. QED
  BY <1>4, <1>5 DEF SupportInv

\* Without votes and messages there is nothing to support.
LEMMA InitRests == Init => SupportInv
<1> SUFFICES ASSUME Init PROVE SupportInv
  OBVIOUS
<1>1. TypeOK
  BY InitType
<1>2. \A n \in Node, s \in Slot : slot_states[n][s] = NewSlotState
  BY DEF Init
<1>3. VotesRest
  BY <1>2, NoneAssumption DEF VotesRest, RestsOn, NewSlotState, Decided
<1>4. MessagesRest
  BY DEF Init, MessagesRest
<1>5. QED
  BY <1>1, <1>3, <1>4 DEF SupportInv

\* A nomination of the node's own adds a true nominator, so what follows from
\* it rests on one.
LEMMA NominateRests ==
  ASSUME SupportInv, NEW n \in Node, NEW s \in Slot, NEW v \in Value, Nominate(n, s, v)
  PROVE  RestingUpdate(n, s, v) /\ SupportInv'
<1> DEFINE st  == slot_states[n][s]
           m   == Sign(n, NewMessage(s, n, "Nominate", v))
           st0 == [st EXCEPT !.phase = IF @ = "Open" THEN "Nominate" ELSE @,
                             !.nominations[v] = @ \cup {n}]
           st2 == AfterNominate(n, st, v)
           T   == NominatorsIn(msgs', s, v)
<1>1. TypeOK /\ TypeOK'
  BY NominateType DEF SupportInv
<1>2. st \in SlotStates /\ st.externalized_value = Decided(n, s)
  BY <1>1, SlotStateType DEF Decided
<1>3. /\ slot_states' = [slot_states EXCEPT ![n][s] = st2]
      /\ msgs' = msgs \cup {m}
  BY DEF Nominate, TypeOK, SupportInv
<1>4. NominatorsIn(msgs, s, v) \subseteq T /\ n \in T /\ T \in SUBSET Node
  BY <1>3 DEF NominatorsIn
<1>5. RestsOn(st, v, T)
  <2>1. RestsOn(st, v, NominatorsIn(msgs, s, v)) /\ NominatorsIn(msgs, s, v) \in SUBSET Node
    BY NominatorsAreNodes DEF SupportInv, VotesRest
  <2>2. QED
    BY <1>4, <2>1, RestsOnMonotone
<1>6. st0 \in SlotStates
  BY <1>2 DEF SlotStates, VoteMap, Phase
<1>7. /\ st0.nominations[v] = st.nominations[v] \cup {n}
      /\ \A w \in Value \ {v} : st0.nominations[w] = st.nominations[w]
      /\ st0.prepare_votes = st.prepare_votes
      /\ st0.commit_votes = st.commit_votes
      /\ st0.externalized_value = st.externalized_value
  BY <1>2 DEF SlotStates, VoteMap
<1>8. st2 = CheckStateTransitions(n, st0, v)
  BY DEF AfterNominate
<1>9. m.msg_type = "Nominate"
  BY DEF Sign, NewMessage
<1> HIDE DEF st, st0, st2, m, T
<1>10. RestsOn(st0, v, T)
  BY <1>4, <1>5, <1>7 DEF RestsOn
<1>11. RestsOn(st2, v, T) /\ SupportedChange(st0, st2, v, T)
  BY <1>4, <1>6, <1>8, <1>10, TransitionsRest
<1>12. \A w \in Value \ {v} :
         /\ st2.nominations[w] = st.nominations[w]
         /\ st2.prepare_votes[w] = st.prepare_votes[w]
         /\ st2.commit_votes[w] = st.commit_votes[w]
  BY <1>7, <1>11 DEF SupportedChange
<1>13. st2.externalized_value # Decided(n, s) =>
         SupportedBy(T) /\ st2.externalized_value = v
  BY <1>2, <1>7, <1>11 DEF SupportedChange
<1>14. msgs \subseteq msgs' /\ \A k \in msgs' \ msgs : k.msg_type = "Nominate"
  BY <1>3, <1>9
<1>15. slot_states'[n][s] = st2
  BY <1>1, <1>3 DEF TypeOK
<1>16. \A n2 \in Node, s2 \in Slot :
         ~(n2 = n /\ s2 = s) => slot_states'[n2][s2] = slot_states[n2][s2]
  BY <1>1, <1>3 DEF TypeOK
<1>17. RestingUpdate(n, s, v)
  BY <1>2, <1>11, <1>12, <1>13, <1>14, <1>15, <1>16 DEF RestingUpdate, T, st
<1>18. QED
  BY <1>1, <1>17, UpdateRests

\* The votes of a message are of a true nominator, or of a value supported already.
LEMMA ProcessRests ==
  ASSUME SupportInv, NEW n \in Node, NEW m \in msgs,
         NEW R \in SUBSET Answer(n, m), Process(n, m, R)
  PROVE  RestingUpdate(n, m.slot, m.value) /\ SupportInv'
<1> DEFINE s   == m.slot
           v   == m.value
           st  == slot_states[n][s]
           st0 == RecordVotes(st, m)
           st2 == AfterMessage(n, st, m)
           T   == NominatorsIn(msgs, s, v)
           T2  == NominatorsIn(msgs', s, v)
<1>1. TypeOK /\ TypeOK'
  BY ProcessType DEF SupportInv
<1>2. m \in ConsensusMessage /\ s \in Slot /\ v \in Value /\ m.sender_id \in Node
  BY <1>1 DEF TypeOK, ConsensusMessage
<1>3. st \in SlotStates /\ HasValueIffDecided(st)
  BY <1>1, <1>2, SlotStateType
<1>4. st0 \in SlotStates /\ st2 \in SlotStates
  BY <1>2, <1>3, AfterMessageType DEF RecordVotes, SlotStates, VoteMap
<1>5. /\ slot_states' = [slot_states EXCEPT ![n][s] = st2]
      /\ msgs' = msgs \cup R
      /\ R \subseteq {Sign(n, r) : r \in Replies(n, st, st2, m)}
  BY ProcessIs
<1>6. T \in SUBSET Node /\ T2 \in SUBSET Node /\ T \subseteq T2
  BY <1>5, NominatorsAreNodes, NominatorsGrow
<1>7. RestsOn(st, v, T)
  BY <1>2 DEF SupportInv, VotesRest
<1>8. IF m.msg_type = "Nominate" THEN m.sender_id \in T ELSE SupportedBy(T)
  BY <1>1, <1>2, NominationIsReal DEF SupportInv, MessagesRest
<1>9. /\ st0.nominations[v] = st.nominations[v] \cup {m.sender_id}
      /\ \A w \in Value \ {v} : /\ st0.nominations[w] = st.nominations[w]
                                /\ st0.prepare_votes[w] = st.prepare_votes[w]
                                /\ st0.commit_votes[w] = st.commit_votes[w]
      /\ m.msg_type = "Nominate" => /\ st0.prepare_votes[v] = st.prepare_votes[v]
                                    /\ st0.commit_votes[v] = st.commit_votes[v]
      /\ st0.phase = st.phase
      /\ st0.externalized_value = st.externalized_value
  BY <1>2, <1>3 DEF RecordVotes, SlotStates, VoteMap
<1>10. st2 = CheckStateTransitions(n, st0, v)
  BY DEF AfterMessage
<1>11. \A k \in R : k.slot = s /\ k.value = v /\ st2.phase # st.phase
  BY <1>2, <1>3, <1>4, <1>5, RepliesType
<1>12. slot_states'[n][s] = st2
  BY <1>1, <1>2, <1>5 DEF TypeOK
<1>13. \A n2 \in Node, s2 \in Slot :
         ~(n2 = n /\ s2 = s) => slot_states'[n2][s2] = slot_states[n2][s2]
  BY <1>1, <1>2, <1>5 DEF TypeOK
<1> HIDE DEF st, st0, st2, T, T2
<1>14. RestsOn(st0, v, T)
  BY <1>7, <1>8, <1>9 DEF RestsOn
<1>15. RestsOn(st2, v, T) /\ SupportedChange(st0, st2, v, T)
  BY <1>2, <1>4, <1>6, <1>10, <1>14, TransitionsRest
<1>16. RestsOn(st2, v, T2) /\ (SupportedBy(T) => SupportedBy(T2))
  BY <1>2, <1>6, <1>15, RestsOnMonotone
<1>17. \A w \in Value \ {v} : /\ st2.nominations[w] = st.nominations[w]
                              /\ st2.prepare_votes[w] = st.prepare_votes[w]
                              /\ st2.commit_votes[w] = st.commit_votes[w]
  BY <1>9, <1>15 DEF SupportedChange
<1>18. st2.externalized_value # st.externalized_value =>
         SupportedBy(T2) /\ st2.externalized_value = v
  BY <1>9, <1>15, <1>16 DEF SupportedChange
<1>19. \A k \in msgs' \ msgs : k.slot = s /\ k.value = v /\ SupportedBy(T2)
  BY <1>5, <1>9, <1>11, <1>15, <1>16 DEF SupportedChange
<1>20. RestingUpdate(n, s, v)
  BY <1>5, <1>12, <1>13, <1>16, <1>17, <1>18, <1>19 DEF RestingUpdate, T2, st
<1>21. QED
  BY <1>1, <1>2, <1>20, UpdateRests

\* Every step keeps the invariant.
LEMMA NextRests == SupportInv /\ [Next]_vars => SupportInv'
<1> SUFFICES ASSUME SupportInv, [Next]_vars PROVE SupportInv'
  OBVIOUS
<1>1. ASSUME NEW n \in Node, NEW s \in Slot, NEW v \in Value, Nominate(n, s, v)
      PROVE  SupportInv'
  BY <1>1, NominateRests
<1>2. ASSUME NEW n \in Node, NEW m \in msgs,
             NEW R \in SUBSET Answer(n, m), Process(n, m, R)
      PROVE  SupportInv'
  BY <1>2, ProcessRests
<1>3. ASSUME UNCHANGED <<slot_states, msgs>>
      PROVE  SupportInv'
  <2>1. TypeOK'
    BY NextType DEF SupportInv
  <2>2. VotesRest'
    BY <1>3 DEF SupportInv, VotesRest, Decided
  <2>3. MessagesRest'
    BY <1>3 DEF SupportInv, MessagesRest
  <2>4. QED
    BY <2>1, <2>2, <2>3 DEF SupportInv
<1>4. QED
  BY <1>1, <1>2, <1>3, NextSteps

\* The invariant holds in every reachable state.
LEMMA SupportInvariant == Spec => []SupportInv
  BY InitRests, NextRests, PTL DEF Spec

(***************************************************************************)
(* No vote and no decision without a slice of true nominations, whatever   *)
(* the quorum sets: process_message, which also records a Prepare or a     *)
(* Commit as a nomination, never makes up support.                         *)
(***************************************************************************)
THEOREM SupportCorrect == Spec => []VotesAreSupported
<1>1. SupportInv => VotesAreSupported
  BY DEF SupportInv, VotesRest, RestsOn, VotesAreSupported, Supported, SupportedBy,
         NominatorsIn, TrueNominators
<1>2. QED
  BY <1>1, SupportInvariant, PTL

(***************************************************************************)
(* Agreement: with intersecting slices, and no node nominating two values  *)
(* in a slot, no two nodes externalize different values in it.             *)
(***************************************************************************)
THEOREM AgreementCorrect == Spec => []AgreementIfNominatedOnce
<1>1. SupportInv => AgreementIfNominatedOnce
  <2> SUFFICES ASSUME SupportInv, QuorumIntersection, NEW s \in Slot, NominatesOnce(s),
                      NEW n1 \in Node, NEW n2 \in Node,
                      Decided(n1, s) # None, Decided(n2, s) # None
               PROVE  Decided(n1, s) = Decided(n2, s)
    BY DEF AgreementIfNominatedOnce, AgreeOn
  <2> DEFINE v == Decided(n1, s)
             w == Decided(n2, s)
  <2>1. v \in Value /\ w \in Value
    BY DEF SupportInv, TypeOK, Decided, SlotStates
  <2>2. SupportedBy(NominatorsIn(msgs, s, v)) /\ SupportedBy(NominatorsIn(msgs, s, w))
    BY <2>1 DEF SupportInv, VotesRest
  <2>3. NominatorsIn(msgs, s, v) \cap NominatorsIn(msgs, s, w) # {}
    BY <2>2, NominatorsAreNodes DEF QuorumIntersection, SupportedBy, Reaches
  <2>4. TrueNominators(s, v) \cap TrueNominators(s, w) # {}
    BY <2>3 DEF NominatorsIn, TrueNominators
  <2>5. QED
    BY <2>1, <2>4 DEF NominatesOnce
<1>2. QED
  BY <1>1, SupportInvariant, PTL
-----------------------------------------------------------------------------
(* Refinement of SlotDecision. *)

\* What NodeNetwork assumes of the slices it is given holds of these.
LEMMA SlicesSuit ==
  /\ Slices \subseteq SUBSET Node
  /\ \A V \in Slices, W \in SUBSET Node : V \subseteq W => W \in Slices
  /\ {} \notin Slices
<1>1. ASSUME NEW V \in Slices, NEW W \in SUBSET Node, V \subseteq W
      PROVE  W \in Slices
  <2>1. PICK k \in Node : Reaches(k, V)
    BY DEF Slices
  <2>2. Reaches(k, W)
    BY <1>1, <2>1, ReachesMonotone DEF Slices
  <2>3. QED
    BY <2>2 DEF Slices
<1>2. QED
  BY <1>1 DEF Slices, Reaches

NominatorsMapped(M) == [s \in Slot |-> [v \in Value |-> NominatorsIn(M, s, v)]]

\* The nominators of the refinement mapping, before and after a step.
LEMMA NominatorMapIs ==
  /\ NominatorMap = NominatorsMapped(msgs)
  /\ NominatorMap' = NominatorsMapped(msgs')
  BY DEF NominatorMap, NominatorsMapped, TrueNominators, NominatorsIn

\* A node that has nominated adds itself to the nominators, and nobody else.
LEMMA NominateAdds ==
  ASSUME NEW n \in Node, NEW s \in Slot, NEW v \in Value, Nominate(n, s, v)
  PROVE  NominatorMap' = [NominatorMap EXCEPT ![s][v] = @ \cup {n}]
<1> DEFINE m == Sign(n, NewMessage(s, n, "Nominate", v))
<1>1. msgs' = msgs \cup {m}
  BY DEF Nominate
<1>2. \A s2 \in Slot, v2 \in Value, n2 \in Node :
        Sign(n2, NewMessage(s2, n2, "Nominate", v2)) = m
          <=> n2 = n /\ s2 = s /\ v2 = v
  BY DEF Sign, NewMessage
<1>3. \A s2 \in Slot, v2 \in Value :
        NominatorsIn(msgs', s2, v2) =
          IF s2 = s /\ v2 = v THEN NominatorsIn(msgs, s, v) \cup {n}
          ELSE NominatorsIn(msgs, s2, v2)
  BY <1>1, <1>2 DEF NominatorsIn
<1>4. NominatorsMapped(msgs') =
        [NominatorsMapped(msgs) EXCEPT ![s][v] = NominatorsIn(msgs, s, v) \cup {n}]
  BY <1>3 DEF NominatorsMapped
<1>5. NominatorsMapped(msgs)[s][v] = NominatorsIn(msgs, s, v)
  BY DEF NominatorsMapped
<1>6. QED
  BY <1>4, <1>5, NominatorMapIs

\* Handling a message nominates nothing.
LEMMA ProcessAddsNone ==
  ASSUME TypeOK, NEW n \in Node, NEW m \in msgs,
         NEW R \in SUBSET Answer(n, m), Process(n, m, R)
  PROVE  NominatorMap' = NominatorMap
<1> DEFINE st    == slot_states[n][m.slot]
           after == AfterMessage(n, st, m)
<1>1. m \in ConsensusMessage /\ m.slot \in Slot
  BY DEF TypeOK, ConsensusMessage
<1>2. st \in SlotStates /\ after \in SlotStates
  BY <1>1, SlotStateType, AfterMessageType
<1>3. msgs' = msgs \cup R /\ R \subseteq {Sign(n, r) : r \in Replies(n, st, after, m)}
  BY ProcessIs
<1>4. \A k \in R : k.msg_type # "Nominate"
  BY <1>1, <1>2, <1>3, RepliesType
<1>5. \A s2 \in Slot, v2 \in Value, n2 \in Node :
        Sign(n2, NewMessage(s2, n2, "Nominate", v2)).msg_type = "Nominate"
  BY DEF Sign, NewMessage
<1>6. \A s2 \in Slot, v2 \in Value : NominatorsIn(msgs', s2, v2) = NominatorsIn(msgs, s2, v2)
  BY <1>3, <1>4, <1>5 DEF NominatorsIn
<1>7. QED
  BY <1>6, NominatorMapIs DEF NominatorsMapped

\* A supported decision is one SlotDecision allows.
LEMMA UpdateMayDecide ==
  ASSUME SupportInv, SupportInv', NEW n \in Node, NEW s \in Slot, NEW v \in Value,
         RestingUpdate(n, s, v)
  PROVE  Abstract!MayDecide(n, s, v)
<1>1. NominatorsIn(msgs', s, v) = NominatorMap'[s][v]
  BY NominatorMapIs DEF NominatorsMapped
<1>2. SupportedBy(NominatorsIn(msgs', s, v)) => NominatorMap'[s][v] \in Slices
  BY <1>1, NominatorsAreNodes DEF SupportedBy, Slices
<1>3. \A n2 \in Node, s2 \in Slot :
        ~(n2 = n /\ s2 = s) => Decided(n2, s2)' = Decided(n2, s2)
  BY DEF RestingUpdate, Decided
<1>4. CASE Decided(n, s)' = Decided(n, s)
  <2>1. \A n2 \in Node, s2 \in Slot : Decided(n2, s2)' = Decided(n2, s2)
    BY <1>3, <1>4
  <2>2. UNCHANGED DecisionMap
    BY <2>1 DEF DecisionMap
  <2>3. QED
    BY <2>2 DEF Abstract!MayDecide
<1>5. CASE Decided(n, s)' # Decided(n, s)
  <2>1. Decided(n, s)' = v /\ SupportedBy(NominatorsIn(msgs', s, v))
    BY <1>5 DEF RestingUpdate, Decided
  <2>2. DecisionMap' = [DecisionMap EXCEPT ![n][s] = v]
    BY <1>3, <2>1 DEF DecisionMap
  <2>3. QED
    BY <1>2, <2>1, <2>2 DEF Abstract!MayDecide
<1>6. QED
  BY <1>4, <1>5

\* Initial states map to initial states.
LEMMA AbstractInit == Init => Abstract!Init
<1> SUFFICES ASSUME Init PROVE Abstract!Init
  OBVIOUS
<1>1. NominatorMap = [s \in Slot |-> [v \in Value |-> {}]]
  BY DEF Init, NominatorMap, TrueNominators
<1>2. DecisionMap = [n \in Node |-> [s \in Slot |-> None]]
  BY DEF Init, DecisionMap, Decided, NewSlotState
<1>3. QED
  BY <1>1, <1>2 DEF Abstract!Init

\* Every step maps to a step of SlotDecision or to a stutter.
LEMMA AbstractNext ==
  SupportInv /\ SupportInv' /\ [Next]_vars => [Abstract!Next]_(Abstract!vars)
<1> SUFFICES ASSUME SupportInv, SupportInv', [Next]_vars
             PROVE  [Abstract!Next]_(Abstract!vars)
  OBVIOUS
<1>1. ASSUME NEW n \in Node, NEW s \in Slot, ~Externalized(n, s)
      PROVE  DecisionMap[n][s] = None
  BY <1>1 DEF SupportInv, TypeOK, DecisionMap, Decided
<1>2. ASSUME NEW n \in Node, NEW s \in Slot, NEW v \in Value, Nominate(n, s, v)
      PROVE  Abstract!Next
  <2>1. DecisionMap[n][s] = None
    BY <1>1, <1>2 DEF Nominate
  <2>2. Abstract!MayDecide(n, s, v)
    BY <1>2, NominateRests, UpdateMayDecide
  <2>3. Abstract!MayNominate(n, s, v)
    BY <1>2, NominateAdds DEF Abstract!MayNominate
  <2>4. QED
    BY <2>1, <2>2, <2>3 DEF Abstract!Next, Abstract!Step
<1>3. ASSUME NEW n \in Node, NEW m \in msgs,
             NEW R \in SUBSET Answer(n, m), Process(n, m, R)
      PROVE  Abstract!Next
  <2>1. m.slot \in Slot /\ m.value \in Value
    BY DEF SupportInv, TypeOK, ConsensusMessage
  <2>2. DecisionMap[n][m.slot] = None
    BY <1>1, <1>3, <2>1, ProcessIs
  <2>3. Abstract!MayDecide(n, m.slot, m.value)
    BY <1>3, <2>1, ProcessRests, UpdateMayDecide
  <2>4. Abstract!MayNominate(n, m.slot, m.value)
    BY <1>3, ProcessAddsNone DEF Abstract!MayNominate, SupportInv
  <2>5. QED
    BY <2>1, <2>2, <2>3, <2>4 DEF Abstract!Next, Abstract!Step
<1>4. ASSUME UNCHANGED <<slot_states, msgs>>
      PROVE  UNCHANGED Abstract!vars
  BY <1>4 DEF Abstract!vars, NominatorMap, DecisionMap, TrueNominators, Decided
<1>5. QED
  BY <1>2, <1>3, <1>4, NextSteps

(***************************************************************************)
(* The network of consensus.rs nodes implements SlotDecision.              *)
(***************************************************************************)
THEOREM RefinesSlotDecision == Spec => ImplementsSlotDecision
  BY AbstractInit, AbstractNext, SupportInvariant, PTL
     DEF Spec, ImplementsSlotDecision, Abstract!Spec
-----------------------------------------------------------------------------
(***************************************************************************)
(* Every step of the network is, for the slots, one move of one slot that  *)
(* is not decided, or leaves them all alone.                               *)
(***************************************************************************)
SlotMoves(n, s, v, N, P, C, p) ==
  /\ ~Externalized(n, s)
  /\ KeepsPhase(slot_states[n][s], p)
  /\ slot_states' = [slot_states EXCEPT ![n][s] = Moved(n, slot_states[n][s], v, N, P, C, p)]

\* A nomination of n's own: its vote, and the message that announces it.
LEMMA NominateMoves ==
  ASSUME TypeOK, NEW n \in Node, NEW s \in Slot, NEW v \in Value, Nominate(n, s, v)
  PROVE  /\ \E p \in Phase : SlotMoves(n, s, v, {n}, {}, {}, p)
         /\ \A k \in msgs' : k \in msgs \/ k.msg_type = "Nominate"
<1> DEFINE st == slot_states[n][s]
           p == IF st.phase = "Open" THEN "Nominate" ELSE st.phase
<1>1. st \in SlotStates
  BY SlotStateType
<1>2. st.phase # "Externalized"
  BY DEF Nominate, Externalized
<1>3. AfterNominate(n, st, v) = Moved(n, st, v, {n}, {}, {}, p)
  BY <1>1, <1>2, CallsAre
<1>4. slot_states' = [slot_states EXCEPT ![n][s] = AfterNominate(n, st, v)]
  BY DEF Nominate, TypeOK
<1>5. p \in Phase /\ KeepsPhase(st, p)
  BY <1>1 DEF KeepsPhase, Phase, SlotStates
<1>6. msgs' = msgs \cup {Sign(n, NewMessage(s, n, "Nominate", v))}
  BY DEF Nominate
<1>7. Sign(n, NewMessage(s, n, "Nominate", v)).msg_type = "Nominate"
  BY DEF Sign, NewMessage
<1>8. \A k \in msgs' : k \in msgs \/ k.msg_type = "Nominate"
  BY <1>6, <1>7
<1> HIDE DEF p
<1>9. SlotMoves(n, s, v, {n}, {}, {}, p)
  BY <1>2, <1>3, <1>4, <1>5 DEF SlotMoves, Externalized
<1>10. QED
  BY <1>5, <1>8, <1>9

\* A message: the votes it casts, and a reply of the type of the phase entered.
LEMMA ProcessMoves ==
  ASSUME TypeOK, NEW n \in Node, NEW m \in msgs,
         NEW R \in SUBSET Answer(n, m), Process(n, m, R)
  PROVE  /\ SlotMoves(n, m.slot, m.value, {m.sender_id}, MessagePrepares(m), MessageCommits(m),
                      slot_states[n][m.slot].phase)
         /\ m \in ConsensusMessage
         /\ \A k \in msgs' :
              \/ k \in msgs
              \/ /\ k.sender_id = n /\ k.slot = m.slot /\ k.value = m.value
                 /\ slot_states'[n][m.slot].phase # slot_states[n][m.slot].phase
                 /\ k.msg_type = ReplyType(slot_states'[n][m.slot].phase)
<1> DEFINE s == m.slot
           st == slot_states[n][s]
           after == AfterMessage(n, st, m)
<1>1. m \in ConsensusMessage /\ s \in Slot
  BY DEF TypeOK, ConsensusMessage
<1>2. st \in SlotStates
  BY <1>1, SlotStateType
<1>3. st.phase # "Externalized"
  BY ProcessIs DEF Externalized
<1>4. after = Moved(n, st, m.value, {m.sender_id}, MessagePrepares(m), MessageCommits(m), st.phase)
  BY <1>1, <1>2, <1>3, MessageIs
<1>5. /\ slot_states' = [slot_states EXCEPT ![n][s] = after]
      /\ msgs' = msgs \cup R
      /\ R \subseteq {Sign(n, r) : r \in Replies(n, st, after, m)}
  BY ProcessIs
<1>6. slot_states'[n][s] = after
  BY <1>1, <1>5 DEF TypeOK
<1> HIDE DEF after
<1>7. ASSUME NEW r \in Replies(n, st, after, m)
      PROVE  /\ Sign(n, r).sender_id = n /\ Sign(n, r).slot = m.slot /\ Sign(n, r).value = m.value
             /\ after.phase # st.phase
             /\ Sign(n, r).msg_type = ReplyType(after.phase)
  <2>1. r = NewMessage(m.slot, n, ReplyType(after.phase), m.value) /\ after.phase # st.phase
    BY DEF Replies
  <2>2. QED
    BY <2>1 DEF Sign, NewMessage
<1>8. SlotMoves(n, s, m.value, {m.sender_id}, MessagePrepares(m), MessageCommits(m), st.phase)
  BY <1>3, <1>4, <1>5 DEF SlotMoves, Externalized, KeepsPhase
<1>9. QED
  BY <1>1, <1>3, <1>5, <1>6, <1>7, <1>8

\* Nominations and deliveries are such moves; a crash leaves the slots alone.
LEMMA NextMoves ==
  ASSUME TypeOK, [Next]_vars
  PROVE  \/ UNCHANGED slot_states
         \/ \E n \in Node, s \in Slot, v \in Value : \E N, P, C \in SUBSET Node, p \in Phase :
              SlotMoves(n, s, v, N, P, C, p)
<1>1. ASSUME NEW n \in Node, NEW s \in Slot, NEW v \in Value, Nominate(n, s, v)
      PROVE  \E N, P, C \in SUBSET Node, p \in Phase : SlotMoves(n, s, v, N, P, C, p)
  <2>1. PICK p \in Phase : SlotMoves(n, s, v, {n}, {}, {}, p)
    BY <1>1, NominateMoves
  <2>2. {n} \in SUBSET Node /\ {} \in SUBSET Node
    OBVIOUS
  <2>3. QED
    BY <2>1, <2>2
<1>2. ASSUME NEW n \in Node, NEW m \in msgs,
             NEW R \in SUBSET Answer(n, m), Process(n, m, R)
      PROVE  \E s \in Slot, v \in Value : \E N, P, C \in SUBSET Node, p \in Phase :
               SlotMoves(n, s, v, N, P, C, p)
  <2> DEFINE ph == slot_states[n][m.slot].phase
  <2>1. m \in ConsensusMessage
    BY <1>2, ProcessMoves
  <2>2. SlotMoves(n, m.slot, m.value, {m.sender_id}, MessagePrepares(m), MessageCommits(m), ph)
    BY <1>2, ProcessMoves
  <2>3. m.slot \in Slot /\ m.value \in Value /\ m.sender_id \in Node
    BY <2>1 DEF ConsensusMessage
  <2>4. ph \in Phase
    BY <2>3, SlotStateType DEF SlotStates
  <2>5. /\ {m.sender_id} \in SUBSET Node
        /\ MessagePrepares(m) \in SUBSET Node
        /\ MessageCommits(m) \in SUBSET Node
    BY <2>3 DEF MessagePrepares, MessageCommits
  <2> HIDE DEF ph
  <2>6. QED
    BY <2>2, <2>3, <2>4, <2>5
<1>3. QED
  BY <1>1, <1>2, NextSteps

\* What such a move leaves alone, and what it does.
LEMMA MoveIs ==
  ASSUME TypeOK, NEW n \in Node, NEW s \in Slot, NEW v, NEW N, NEW P, NEW C, NEW p,
         SlotMoves(n, s, v, N, P, C, p)
  PROVE  /\ slot_states'[n][s] = Moved(n, slot_states[n][s], v, N, P, C, p)
         /\ \A n2 \in Node, s2 \in Slot :
              ~(n2 = n /\ s2 = s) => slot_states'[n2][s2] = slot_states[n2][s2]
  BY DEF TypeOK, SlotMoves

-----------------------------------------------------------------------------
(* Nothing pending. *)

AllSettled == \A n \in Node, s \in Slot : Settled(n, slot_states[n][s])

SettledInv == TypeOK /\ AllSettled

\* A new slot has no votes, so no transition is due.
LEMMA InitSettled == Init => SettledInv
<1> SUFFICES ASSUME Init PROVE AllSettled
  BY InitType DEF SettledInv
<1>1. \A n \in Node : Settled(n, NewSlotState)
  BY DEF Settled, SettledFor, NewSlotState, Reaches
<1>2. QED
  BY <1>1 DEF AllSettled, Init

\* Every step leaves every slot settled.
LEMMA NextSettled == SettledInv /\ [Next]_vars => SettledInv'
<1> SUFFICES ASSUME SettledInv, [Next]_vars PROVE SettledInv'
  OBVIOUS
<1>1. TypeOK /\ TypeOK'
  BY NextType DEF SettledInv
<1>2. CASE UNCHANGED slot_states
  BY <1>1, <1>2 DEF SettledInv, AllSettled
<1>3. ASSUME NEW n \in Node, NEW s \in Slot, NEW v \in Value,
             NEW N \in SUBSET Node, NEW P \in SUBSET Node, NEW C \in SUBSET Node,
             NEW p \in Phase, SlotMoves(n, s, v, N, P, C, p)
      PROVE  SettledInv'
  <2> DEFINE st == slot_states[n][s]
  <2>1. st \in SlotStates /\ st.phase # "Externalized" /\ KeepsPhase(st, p) /\ Settled(n, st)
    BY <1>1, <1>3, SlotStateType DEF SlotMoves, Externalized, SettledInv, AllSettled
  <2>2. Settled(n, Moved(n, st, v, N, P, C, p))
    BY <2>1, MovedSettles
  <2> HIDE DEF st
  <2>3. Settled(n, slot_states'[n][s])
    BY <1>1, <1>3, <2>2, MoveIs DEF st
  <2>4. \A n2 \in Node, s2 \in Slot :
          ~(n2 = n /\ s2 = s) => slot_states'[n2][s2] = slot_states[n2][s2]
    BY <1>1, <1>3, MoveIs
  <2>5. \A n2 \in Node, s2 \in Slot : Settled(n2, slot_states'[n2][s2])
    BY <2>3, <2>4 DEF SettledInv, AllSettled
  <2>6. QED
    BY <1>1, <2>5 DEF SettledInv, AllSettled
<1>4. QED
  BY <1>1, <1>2, <1>3, NextMoves

(***************************************************************************)
(* In every reachable state, every slot of every node has made all the     *)
(* transitions its votes allow: check_state_transitions looks only at the  *)
(* value of the last vote, and no other value can be waiting for it.       *)
(***************************************************************************)
THEOREM NoTransitionIsMissed == Spec => []NothingPending
<1>1. SettledInv => NothingPending
  <2> SUFFICES ASSUME SettledInv, NEW n \in Node, NEW s \in Slot, NEW v \in Value
               PROVE  CheckStateTransitions(n, slot_states[n][s], v) = slot_states[n][s]
    BY DEF NothingPending
  <2>1. slot_states[n][s] \in SlotStates /\ Settled(n, slot_states[n][s])
    BY SlotStateType DEF SettledInv, AllSettled
  <2>2. QED
    BY <2>1, SettledStays
<1>2. QED
  BY <1>1, InitSettled, NextSettled, PTL DEF Spec

-----------------------------------------------------------------------------
(* Phases only advance, and decisions stay. *)

\* What a move may do to the phase of one slot.
LEMMA PhaseAdvances ==
  ASSUME NEW n \in Node, NEW st \in SlotStates, st.phase # "Externalized",
         NEW v, NEW N, NEW P, NEW C, NEW p \in Phase, KeepsPhase(st, p)
  PROVE  PhaseRank[Moved(n, st, v, N, P, C, p).phase] >= PhaseRank[st.phase]
<1> DEFINE A == NominatedBy(st, v, N)
           B == PreparedBy(n, st, v, N, P)
           D == CommittedBy(n, st, v, N, P, C)
           q == MovedPhase(n, A, B, D, p)
<1>1. Moved(n, st, v, N, P, C, p).phase = q
  BY DEF Moved
<1> HIDE DEF A, B, D
<1>2. q \in {"Externalized", "Commit"} \/ (q = "Prepare" /\ p \in {"Open", "Nominate"}) \/ q = p
  BY DEF MovedPhase
<1> HIDE DEF q
<1>3. /\ PhaseRank["Open"] = 0 /\ PhaseRank["Nominate"] = 1 /\ PhaseRank["Prepare"] = 2
      /\ PhaseRank["Commit"] = 3 /\ PhaseRank["Externalized"] = 4
  BY DEF PhaseRank
<1>4. st.phase \in {"Open", "Nominate", "Prepare", "Commit"}
  BY DEF SlotStates, Phase
<1>5. PhaseRank[q] >= PhaseRank[st.phase]
  BY <1>2, <1>3, <1>4 DEF KeepsPhase
<1>6. QED
  BY <1>1, <1>5

\* What NeverRegresses says, of one step.
LEMMA StepAdvances ==
  TypeOK /\ [Next]_vars =>
    \A n \in Node, s \in Slot :
       /\ PhaseRank[slot_states'[n][s].phase] >= PhaseRank[slot_states[n][s].phase]
       /\ Decided(n, s) # None => slot_states'[n][s] = slot_states[n][s]
<1> SUFFICES ASSUME TypeOK, [Next]_vars, NEW n \in Node, NEW s \in Slot
             PROVE  /\ PhaseRank[slot_states'[n][s].phase] >= PhaseRank[slot_states[n][s].phase]
                    /\ Decided(n, s) # None => slot_states'[n][s] = slot_states[n][s]
  OBVIOUS
<1> DEFINE st == slot_states[n][s]
<1>1. st \in SlotStates /\ HasValueIffDecided(st)
  BY SlotStateType
<1>2. PhaseRank[st.phase] >= PhaseRank[st.phase]
  BY <1>1 DEF PhaseRank, SlotStates, Phase
<1>3. CASE slot_states'[n][s] = st
  BY <1>2, <1>3
<1>4. ASSUME NEW v \in Value, NEW N \in SUBSET Node, NEW P \in SUBSET Node, NEW C \in SUBSET Node,
             NEW p \in Phase, SlotMoves(n, s, v, N, P, C, p)
      PROVE  /\ PhaseRank[slot_states'[n][s].phase] >= PhaseRank[st.phase]
             /\ Decided(n, s) = None
  <2>1. st.phase # "Externalized" /\ KeepsPhase(st, p)
    BY <1>4 DEF SlotMoves, Externalized
  <2>2. slot_states'[n][s] = Moved(n, st, v, N, P, C, p)
    BY <1>4, MoveIs
  <2>3. Decided(n, s) = None
    BY <1>1, <2>1 DEF Decided, HasValueIffDecided
  <2> HIDE DEF st
  <2>4. QED
    BY <1>1, <2>1, <2>2, <2>3, PhaseAdvances
<1>5. ASSUME NEW n2 \in Node, NEW s2 \in Slot, NEW v \in Value,
             NEW N \in SUBSET Node, NEW P \in SUBSET Node, NEW C \in SUBSET Node,
             NEW p \in Phase, SlotMoves(n2, s2, v, N, P, C, p), ~(n = n2 /\ s = s2)
      PROVE  slot_states'[n][s] = st
  BY <1>5, MoveIs
<1>6. QED
  BY <1>3, <1>4, <1>5, NextMoves

(***************************************************************************)
(* No message that arrives late, twice or out of order takes a slot back   *)
(* to an earlier phase, or changes anything of a slot that is decided.     *)
(***************************************************************************)
THEOREM PhasesAdvance == Spec => NeverRegresses
<1>1. TypeOK /\ [Next]_vars =>
        [\A n \in Node, s \in Slot :
           /\ PhaseRank[slot_states'[n][s].phase] >= PhaseRank[slot_states[n][s].phase]
           /\ Decided(n, s) # None => slot_states'[n][s] = slot_states[n][s]]_vars
  BY StepAdvances
<1>2. QED
  BY <1>1, TypeCorrect, PTL DEF Spec, NeverRegresses
-----------------------------------------------------------------------------
(***************************************************************************)
(* Votes are certificates.  VotesAreBacked is not inductive: a vote is     *)
(* recorded when a message arrives, so the messages on the network must be *)
(* backed by the votes their senders hold; and a node that sends Commit    *)
(* because prepare votes form a slice must be known to hold a slice of     *)
(* nominations too, which SlotBacked gives.                                *)
(***************************************************************************)
Prepares(n, s, v) == slot_states[n][s].prepare_votes[v]
Nominates(n, s, v) == slot_states[n][s].nominations[v]

SlotsBacked == \A n \in Node, s \in Slot : SlotBacked(n, slot_states[n][s])

MessagesBacked ==
  \A m \in msgs :
    /\ m.msg_type # "Nominate" => Reaches(m.sender_id, Nominates(m.sender_id, m.slot, m.value))
    /\ m.msg_type \in {"Commit", "Externalize"} =>
         Reaches(m.sender_id, Prepares(m.sender_id, m.slot, m.value))

BackedInv == TypeOK /\ SlotsBacked /\ VotesAreBacked /\ MessagesBacked

\* A new slot has no votes to back.
LEMMA InitBacked == Init => BackedInv
<1> SUFFICES ASSUME Init PROVE BackedInv
  OBVIOUS
<1>1. \A n \in Node : SlotBacked(n, NewSlotState)
  BY DEF SlotBacked, BackedFor, NewSlotState
<1>2. SlotsBacked
  BY <1>1 DEF SlotsBacked, Init
<1>3. VotesAreBacked
  BY DEF VotesAreBacked, Init, NewSlotState
<1>4. MessagesBacked
  BY DEF MessagesBacked, Init
<1>5. QED
  BY <1>2, <1>3, <1>4, InitType DEF BackedInv

\* A move takes no vote from any slot, so no quorum is lost.
LEMMA MoveKeepsQuorums ==
  ASSUME TypeOK, TypeOK', NEW n \in Node, NEW s \in Slot, NEW v \in Value,
         NEW N, NEW P, NEW C, NEW p, SlotMoves(n, s, v, N, P, C, p)
  PROVE  \A x \in Node, s2 \in Slot, w \in Value :
           /\ Reaches(x, Nominates(x, s2, w)) => Reaches(x, Nominates(x, s2, w)')
           /\ Reaches(x, Prepares(x, s2, w)) => Reaches(x, Prepares(x, s2, w)')
<1> SUFFICES ASSUME NEW x \in Node, NEW s2 \in Slot, NEW w \in Value
             PROVE  /\ Reaches(x, Nominates(x, s2, w)) => Reaches(x, Nominates(x, s2, w)')
                    /\ Reaches(x, Prepares(x, s2, w)) => Reaches(x, Prepares(x, s2, w)')
  OBVIOUS
<1> DEFINE st == slot_states[x][s2]
           st2 == slot_states'[x][s2]
<1>1. st \in SlotStates /\ st2 \in SlotStates
  BY DEF TypeOK
<1>2. Grows(st, st2)
  <2>1. CASE x = n /\ s2 = s
    BY <1>1, <2>1, MoveIs, MovedGrows
  <2>2. CASE ~(x = n /\ s2 = s)
    BY <2>2, MoveIs DEF Grows
  <2>3. QED
    BY <2>1, <2>2
<1> HIDE DEF st, st2
<1>3. /\ st.nominations[w] \in SUBSET Node /\ st2.nominations[w] \in SUBSET Node
      /\ st.prepare_votes[w] \in SUBSET Node /\ st2.prepare_votes[w] \in SUBSET Node
  BY <1>1 DEF SlotStates, VoteMap
<1>4. /\ Reaches(x, st.nominations[w]) => Reaches(x, st2.nominations[w])
      /\ Reaches(x, st.prepare_votes[w]) => Reaches(x, st2.prepare_votes[w])
  BY <1>2, <1>3, ReachesMonotone DEF Grows
<1>5. QED
  BY <1>4 DEF st, st2, Nominates, Prepares

(***************************************************************************)
(* A move that records only votes backed by their voters keeps all votes   *)
(* backed.                                                                 *)
(***************************************************************************)
LEMMA MoveBacked ==
  ASSUME TypeOK, TypeOK', SlotsBacked, VotesAreBacked,
         NEW n \in Node, NEW s \in Slot, NEW v \in Value,
         NEW N \in SUBSET Node, NEW P \in SUBSET N, NEW C \in SUBSET P,
         NEW p \in Phase, SlotMoves(n, s, v, N, P, C, p),
         \A x \in P : Reaches(x, Nominates(x, s, v)),
         \A x \in C : Reaches(x, Prepares(x, s, v))
  PROVE  SlotsBacked' /\ VotesAreBacked'
<1> DEFINE st == slot_states[n][s]
           st2 == slot_states'[n][s]
<1>1. st \in SlotStates /\ SlotBacked(n, st)
  BY SlotStateType DEF SlotsBacked
<1>2. st2 = Moved(n, st, v, N, P, C, p)
  BY MoveIs
<1>3. \A n2 \in Node, s2 \in Slot :
        ~(n2 = n /\ s2 = s) => slot_states'[n2][s2] = slot_states[n2][s2]
  BY MoveIs
<1>4. SlotBacked(n, st2)
  <2>1. /\ n \in P => Reaches(n, st.nominations[v])
        /\ n \in C => Reaches(n, st.prepare_votes[v])
    BY DEF Nominates, Prepares
  <2> HIDE DEF st, st2
  <2>2. QED
    BY <1>1, <1>2, <2>1, MovedBacked
<1>5. \A w \in Value :
        /\ st2.prepare_votes[w] = IF w = v THEN PreparedBy(n, st, v, N, P) ELSE st.prepare_votes[w]
        /\ st2.commit_votes[w] = IF w = v THEN CommittedBy(n, st, v, N, P, C) ELSE st.commit_votes[w]
  BY <1>1, <1>2, MovedTallies
<1>6. \A w \in Value, x \in Node :
        /\ x \in st2.prepare_votes[w] => x \in st.prepare_votes[w] \/ (w = v /\ x \in P) \/ x = n
        /\ x \in st2.commit_votes[w] => x \in st.commit_votes[w] \/ (w = v /\ x \in C) \/ x = n
  BY <1>5 DEF PreparedBy, CommittedBy, OwnVote, SelfVote
<1>7. \A w \in Value :
        /\ n \in st2.prepare_votes[w] => Reaches(n, Nominates(n, s, w)')
        /\ n \in st2.commit_votes[w] => Reaches(n, Prepares(n, s, w)')
  BY <1>4 DEF SlotBacked, BackedFor, Nominates, Prepares
<1>8. \A x \in Node, s2 \in Slot, w \in Value :
        /\ Reaches(x, Nominates(x, s2, w)) => Reaches(x, Nominates(x, s2, w)')
        /\ Reaches(x, Prepares(x, s2, w)) => Reaches(x, Prepares(x, s2, w)')
  BY MoveKeepsQuorums
<1>9. \A n2, x \in Node, s2 \in Slot, w \in Value :
        /\ x \in slot_states[n2][s2].prepare_votes[w] => Reaches(x, Nominates(x, s2, w))
        /\ x \in slot_states[n2][s2].commit_votes[w] => Reaches(x, Prepares(x, s2, w))
  BY DEF VotesAreBacked, Nominates, Prepares
<1>10. SlotsBacked'
  BY <1>3, <1>4 DEF SlotsBacked
<1>11. ASSUME NEW n2 \in Node, NEW x \in Node, NEW s2 \in Slot, NEW w \in Value
       PROVE  /\ x \in slot_states'[n2][s2].prepare_votes[w] => Reaches(x, Nominates(x, s2, w)')
              /\ x \in slot_states'[n2][s2].commit_votes[w] => Reaches(x, Prepares(x, s2, w)')
  <2>1. CASE n2 = n /\ s2 = s
    <3> HIDE DEF st, st2
    <3>1. x \in st2.prepare_votes[w] => Reaches(x, Nominates(x, s, w)')
      BY <1>6, <1>7, <1>8, <1>9 DEF st
    <3>2. x \in st2.commit_votes[w] => Reaches(x, Prepares(x, s, w)')
      BY <1>6, <1>7, <1>8, <1>9 DEF st
    <3>3. QED
      BY <2>1, <3>1, <3>2 DEF st2
  <2>2. CASE ~(n2 = n /\ s2 = s)
    BY <1>3, <1>8, <1>9, <2>2
  <2>3. QED
    BY <2>1, <2>2
<1>12. VotesAreBacked'
  BY <1>11 DEF VotesAreBacked, Nominates, Prepares
<1>13. QED
  BY <1>10, <1>12

\* A nomination brings no vote that needs backing but those the node adds itself.
LEMMA NominateBacked ==
  ASSUME BackedInv, NEW n \in Node, NEW s \in Slot, NEW v \in Value, Nominate(n, s, v)
  PROVE  BackedInv'
<1>1. TypeOK /\ TypeOK'
  BY NominateType DEF BackedInv
<1>2. PICK p \in Phase : SlotMoves(n, s, v, {n}, {}, {}, p)
  BY <1>1, NominateMoves
<1>3. {n} \in SUBSET Node /\ {} \in SUBSET {n} /\ {} \in SUBSET {}
  OBVIOUS
<1>4. SlotsBacked' /\ VotesAreBacked'
  BY <1>1, <1>2, <1>3, MoveBacked DEF BackedInv
<1>5. \A k \in msgs' : k \in msgs \/ k.msg_type = "Nominate"
  BY <1>1, NominateMoves
<1>6. \A x \in Node, s2 \in Slot, w \in Value :
        /\ Reaches(x, Nominates(x, s2, w)) => Reaches(x, Nominates(x, s2, w)')
        /\ Reaches(x, Prepares(x, s2, w)) => Reaches(x, Prepares(x, s2, w)')
  BY <1>1, <1>2, MoveKeepsQuorums
<1>7. \A k \in msgs : k.sender_id \in Node /\ k.slot \in Slot /\ k.value \in Value
  BY <1>1 DEF TypeOK, ConsensusMessage
<1>8. MessagesBacked'
  BY <1>5, <1>6, <1>7 DEF BackedInv, MessagesBacked, Nominates, Prepares
<1>9. QED
  BY <1>1, <1>4, <1>8 DEF BackedInv

\* The votes of a message are backed, and so is the reply.
LEMMA ProcessBacked ==
  ASSUME BackedInv, NEW n \in Node, NEW m \in msgs,
         NEW R \in SUBSET Answer(n, m), Process(n, m, R)
  PROVE  BackedInv'
<1> DEFINE s == m.slot
           v == m.value
           st == slot_states[n][s]
           st2 == slot_states'[n][s]
           N == {m.sender_id}
           P == MessagePrepares(m)
           C == MessageCommits(m)
<1>1. TypeOK /\ TypeOK'
  BY ProcessType DEF BackedInv
<1>2. /\ SlotMoves(n, s, v, N, P, C, st.phase)
      /\ m \in ConsensusMessage
      /\ \A k \in msgs' :
           \/ k \in msgs
           \/ /\ k.sender_id = n /\ k.slot = s /\ k.value = v
              /\ st2.phase # st.phase
              /\ k.msg_type = ReplyType(st2.phase)
  BY <1>1, ProcessMoves
<1>3. s \in Slot /\ v \in Value /\ m.sender_id \in Node
  BY <1>2 DEF ConsensusMessage
<1>4. st \in SlotStates /\ st.phase \in Phase /\ SlotBacked(n, st)
  BY <1>1, <1>3, SlotStateType DEF SlotStates, BackedInv, SlotsBacked
<1>5. N \in SUBSET Node /\ P \in SUBSET N /\ C \in SUBSET P
  BY <1>2, <1>3 DEF MessagePrepares, MessageCommits
<1>6. /\ \A x \in P : Reaches(x, Nominates(x, s, v))
      /\ \A x \in C : Reaches(x, Prepares(x, s, v))
  BY DEF BackedInv, MessagesBacked, MessagePrepares, MessageCommits
<1>7. /\ n \in P => Reaches(n, st.nominations[v])
      /\ n \in C => Reaches(n, st.prepare_votes[v])
  BY <1>6 DEF Nominates, Prepares
<1>8. \A x \in Node, s2 \in Slot, w \in Value :
        /\ Reaches(x, Nominates(x, s2, w)) => Reaches(x, Nominates(x, s2, w)')
        /\ Reaches(x, Prepares(x, s2, w)) => Reaches(x, Prepares(x, s2, w)')
  BY <1>1, <1>2, <1>3, MoveKeepsQuorums
<1>9. st2 = Moved(n, st, v, N, P, C, st.phase)
  BY <1>1, <1>2, <1>3, MoveIs
<1> HIDE DEF s, v, st, st2, N, P, C
<1>10. SlotsBacked' /\ VotesAreBacked'
  BY <1>1, <1>2, <1>3, <1>4, <1>5, <1>6, MoveBacked DEF BackedInv
<1>11. ASSUME NEW k \in msgs
       PROVE  /\ k.msg_type # "Nominate" => Reaches(k.sender_id, Nominates(k.sender_id, k.slot, k.value)')
              /\ k.msg_type \in {"Commit", "Externalize"} =>
                   Reaches(k.sender_id, Prepares(k.sender_id, k.slot, k.value)')
  <2>1. k.sender_id \in Node /\ k.slot \in Slot /\ k.value \in Value
    BY <1>1 DEF TypeOK, ConsensusMessage
  <2>2. QED
    BY <1>8, <2>1 DEF BackedInv, MessagesBacked
<1>12. ASSUME st2.phase # st.phase
       PROVE  /\ Reaches(n, Nominates(n, s, v)')
              /\ ReplyType(st2.phase) \in {"Commit", "Externalize"} => Reaches(n, Prepares(n, s, v)')
  <2> DEFINE A == NominatedBy(st, v, N)
             B == PreparedBy(n, st, v, N, P)
             D == CommittedBy(n, st, v, N, P, C)
  <2>1. P \in SUBSET Node /\ C \in SUBSET Node
    BY <1>5
  <2>2. A \in SUBSET Node /\ B \in SUBSET Node /\ D \in SUBSET Node
    BY <1>3, <1>4, <1>5, <2>1, TalliesType
  <2>3. BackedFor(n, A, B, D)
    BY <1>3, <1>4, <1>5, <1>7, MovedBacked
  <2>4. st2.phase = MovedPhase(n, A, B, D, st.phase)
    BY <1>9 DEF Moved
  <2>5. st2.nominations[v] = A /\ st2.prepare_votes[v] = B
    BY <1>3, <1>4, <1>9, MovedTallies
  <2> HIDE DEF A, B, D
  <2>6. /\ st2.phase \in {"Prepare", "Commit", "Externalized"}
        /\ Reaches(n, A)
        /\ st2.phase \in {"Commit", "Externalized"} => Reaches(n, B)
    <3>1. st.phase \in Phase /\ MovedPhase(n, A, B, D, st.phase) # st.phase
      BY <1>4, <1>12, <2>4
    <3>2. /\ MovedPhase(n, A, B, D, st.phase) \in {"Prepare", "Commit", "Externalized"}
          /\ Reaches(n, A)
          /\ MovedPhase(n, A, B, D, st.phase) \in {"Commit", "Externalized"} => Reaches(n, B)
      BY <2>2, <2>3, <3>1, PhaseSays
    <3>3. QED
      BY <2>4, <3>2
  <2>7. Nominates(n, s, v)' = A /\ Prepares(n, s, v)' = B
    BY <2>5 DEF Nominates, Prepares, st2
  <2>8. QED
    BY <2>6, <2>7 DEF ReplyType
<1>13. ASSUME NEW k \in msgs', k \notin msgs
       PROVE  /\ Reaches(k.sender_id, Nominates(k.sender_id, k.slot, k.value)')
              /\ k.msg_type \in {"Commit", "Externalize"} =>
                   Reaches(k.sender_id, Prepares(k.sender_id, k.slot, k.value)')
  <2>1. /\ k.sender_id = n /\ k.slot = s /\ k.value = v
        /\ st2.phase # st.phase
        /\ k.msg_type = ReplyType(st2.phase)
    BY <1>2, <1>13
  <2>2. QED
    BY <1>12, <2>1 DEF Nominates, Prepares
<1>14. MessagesBacked'
  BY <1>11, <1>13 DEF MessagesBacked, Nominates, Prepares
<1>15. QED
  BY <1>1, <1>10, <1>14 DEF BackedInv

\* Every step keeps the invariant.
LEMMA NextBacked == BackedInv /\ [Next]_vars => BackedInv'
<1> SUFFICES ASSUME BackedInv, [Next]_vars PROVE BackedInv'
  OBVIOUS
<1>1. ASSUME NEW n \in Node, NEW s \in Slot, NEW v \in Value, Nominate(n, s, v)
      PROVE  BackedInv'
  BY <1>1, NominateBacked
<1>2. ASSUME NEW n \in Node, NEW m \in msgs,
             NEW R \in SUBSET Answer(n, m), Process(n, m, R)
      PROVE  BackedInv'
  BY <1>2, ProcessBacked
<1>3. ASSUME UNCHANGED <<slot_states, msgs>>
      PROVE  BackedInv'
  <2>1. TypeOK'
    BY NextType DEF BackedInv
  <2>2. SlotsBacked' /\ VotesAreBacked'
    BY <1>3 DEF BackedInv, SlotsBacked, VotesAreBacked
  <2>3. MessagesBacked'
    BY <1>3 DEF BackedInv, MessagesBacked, Nominates, Prepares
  <2>4. QED
    BY <2>1, <2>2, <2>3 DEF BackedInv
<1>4. QED
  BY <1>1, <1>2, <1>3, NextSteps

(***************************************************************************)
(* A node recorded anywhere as preparing a value holds a slice of          *)
(* nominations of it, and one recorded as committing it a slice of prepare *)
(* votes: no order of messages makes check_state_transitions speak for a   *)
(* quorum the node does not have.                                          *)
(***************************************************************************)
THEOREM VotesAreCertificates == Spec => []VotesAreBacked
<1>1. BackedInv => VotesAreBacked
  BY DEF BackedInv
<1>2. QED
  BY <1>1, InitBacked, NextBacked, PTL DEF Spec
=============================================================================
