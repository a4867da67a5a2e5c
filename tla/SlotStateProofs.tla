--------------------------- MODULE SlotStateProofs ---------------------------
(***************************************************************************)
(* Lemmas about quorum slices and about the transitions of a slot, for     *)
(* every quorum set, slot state and message.  The proofs about nodes and   *)
(* networks use nothing else of check_state_transitions.                   *)
(***************************************************************************)
EXTENDS SlotState, FiniteSetTheorems, TLAPS

\* More votes never lose a slice (QuorumSet::is_quorum_slice).
LEMMA SliceMonotone ==
  ASSUME NEW n \in Node, NEW V \in SUBSET Node, NEW W \in SUBSET Node,
         V \subseteq W, IsQuorumSlice(n, V)
  PROVE  IsQuorumSlice(n, W)
<1> DEFINE q == quorum_set[n]
<1>1. q \in [threshold : Nat, validators : Seq(Node)]
  BY QuorumSetAssumption
<1>2. q.threshold \in Nat /\ q.validators \in Seq(Node)
  BY <1>1
<1>3. DOMAIN q.validators = 1..Len(q.validators) /\ Len(q.validators) \in Nat
  BY <1>2
<1>4. IsFiniteSet(DOMAIN q.validators)
  BY <1>3, FS_Interval
<1>5. Matches(n, W) \subseteq DOMAIN q.validators /\ Matches(n, V) \subseteq Matches(n, W)
  BY DEF Matches
<1>6. IsFiniteSet(Matches(n, W))
  BY <1>4, <1>5, FS_Subset
<1>7. IsFiniteSet(Matches(n, V)) /\ Cardinality(Matches(n, V)) <= Cardinality(Matches(n, W))
  BY <1>5, <1>6, FS_Subset
<1>8. Cardinality(Matches(n, V)) \in Nat /\ Cardinality(Matches(n, W)) \in Nat
  BY <1>6, <1>7, FS_CardinalityType
<1>9. QED
  BY <1>2, <1>7, <1>8 DEF IsQuorumSlice

\* A node's own vote is a vote of a node.
LEMMA SelfVoteType == ASSUME NEW n \in Node PROVE SelfVote(n) \in SUBSET Node
  BY DEF SelfVote

-----------------------------------------------------------------------------
\* A slot that is decided has a value, and only such a slot.
HasValueIffDecided(st) == st.phase = "Externalized" <=> st.externalized_value # None

\* The three steps of check_state_transitions, on a slot that is not decided.
LEMMA StepTypes ==
  ASSUME NEW n \in Node, NEW v \in Value, NEW st \in SlotStates
  PROVE  /\ NominationStep(n, st, v) \in SlotStates
         /\ PrepareStep(n, st, v) \in SlotStates
         /\ CommitStep(n, st, v) \in SlotStates
<1> USE SelfVoteType DEF SlotStates, VoteMap, Phase
<1>1. NominationStep(n, st, v) \in SlotStates
  BY DEF NominationStep
<1>2. PrepareStep(n, st, v) \in SlotStates
  BY DEF PrepareStep
<1>3. CommitStep(n, st, v) \in SlotStates
  BY DEF CommitStep
<1>4. QED
  BY <1>1, <1>2, <1>3

\* check_state_transitions keeps a slot well formed.
LEMMA CheckStateTransitionsType ==
  ASSUME NEW n \in Node, NEW v \in Value, NEW st \in SlotStates, HasValueIffDecided(st)
  PROVE  /\ CheckStateTransitions(n, st, v) \in SlotStates
         /\ HasValueIffDecided(CheckStateTransitions(n, st, v))
<1> DEFINE st1 == NominationStep(n, st, v)
           st2 == PrepareStep(n, st1, v)
           st3 == CommitStep(n, st2, v)
<1>1. CASE st.phase = "Externalized"
  BY <1>1 DEF CheckStateTransitions
<1>2. CASE st.phase # "Externalized"
  <2>1. st1 \in SlotStates
    BY StepTypes
  <2>2. st2 \in SlotStates
    BY <2>1, StepTypes
  <2>3. st3 \in SlotStates
    BY <2>2, StepTypes
  <2>4. st1.phase # "Externalized" /\ st1.externalized_value = None
    BY <1>2 DEF NominationStep, SlotStates, HasValueIffDecided
  <2>5. st2.phase # "Externalized" /\ st2.externalized_value = None
    BY <2>1, <2>4 DEF PrepareStep, SlotStates
  <2>6. HasValueIffDecided(st3)
    BY <2>2, <2>5, NoneAssumption DEF CommitStep, SlotStates, HasValueIffDecided
  <2>7. CheckStateTransitions(n, st, v) = st3
    BY <1>2 DEF CheckStateTransitions
  <2>8. QED
    BY <2>3, <2>6, <2>7
<1>3. QED
  BY <1>1, <1>2
-----------------------------------------------------------------------------
(***************************************************************************)
(* Where support comes from.  T is the set of nodes that nominated v by    *)
(* their own calls.                                                        *)
(***************************************************************************)
SupportedBy(T) == \E k \in Node : Reaches(k, T)

\* Every vote in st for v rests on a slice of T, or is one of T's nominations.
RestsOn(st, v, T) ==
  /\ st.nominations[v] \subseteq T \/ SupportedBy(T)
  /\ st.prepare_votes[v] # {} => SupportedBy(T)
  /\ st.commit_votes[v] # {} => SupportedBy(T)

\* st2 differs from st1 in prepare and commit votes for v, phase and decision
\* only, and in phase and decision only if v is supported.
SupportedChange(st1, st2, v, T) ==
  /\ st2.nominations = st1.nominations
  /\ \A w \in Value \ {v} : /\ st2.prepare_votes[w] = st1.prepare_votes[w]
                            /\ st2.commit_votes[w] = st1.commit_votes[w]
  /\ st2.phase # st1.phase => SupportedBy(T)
  /\ st2.externalized_value # st1.externalized_value =>
       SupportedBy(T) /\ st2.externalized_value = v

\* Nominations only add support.
LEMMA RestsOnMonotone ==
  ASSUME NEW st, NEW v, NEW T \in SUBSET Node, NEW T2 \in SUBSET Node, T \subseteq T2
  PROVE  /\ SupportedBy(T) => SupportedBy(T2)
         /\ RestsOn(st, v, T) => RestsOn(st, v, T2)
<1>1. SupportedBy(T) => SupportedBy(T2)
  BY SliceMonotone DEF SupportedBy, Reaches
<1>2. QED
  BY <1>1 DEF RestsOn

\* A prepare vote is added only when nominations form a slice.
LEMMA NominationStepRests ==
  ASSUME NEW n \in Node, NEW v \in Value, NEW st \in SlotStates,
         NEW T \in SUBSET Node, RestsOn(st, v, T)
  PROVE  /\ RestsOn(NominationStep(n, st, v), v, T)
         /\ SupportedChange(st, NominationStep(n, st, v), v, T)
<1> DEFINE st2 == NominationStep(n, st, v)
<1>1. st.nominations[v] \in SUBSET Node
  BY DEF SlotStates, VoteMap
<1>2. Reaches(n, st.nominations[v]) => SupportedBy(T)
  BY <1>1, SliceMonotone DEF Reaches, RestsOn, SupportedBy
<1>3. CASE ~Reaches(n, st.nominations[v])
  BY <1>3 DEF NominationStep, SupportedChange
<1>4. CASE Reaches(n, st.nominations[v])
  <2>1. SupportedBy(T)
    BY <1>2, <1>4
  <2>2. /\ st2.nominations = st.nominations
        /\ st2.commit_votes = st.commit_votes
        /\ st2.externalized_value = st.externalized_value
        /\ \A w \in Value \ {v} : st2.prepare_votes[w] = st.prepare_votes[w]
    BY <1>4, SelfVoteType DEF NominationStep, SlotStates, VoteMap
  <2>3. QED
    BY <2>1, <2>2 DEF RestsOn, SupportedChange
<1>5. QED
  BY <1>3, <1>4

\* A commit vote is added only when prepare votes form a slice.
LEMMA PrepareStepRests ==
  ASSUME NEW n \in Node, NEW v \in Value, NEW st \in SlotStates,
         NEW T \in SUBSET Node, RestsOn(st, v, T)
  PROVE  /\ RestsOn(PrepareStep(n, st, v), v, T)
         /\ SupportedChange(st, PrepareStep(n, st, v), v, T)
<1> DEFINE st2 == PrepareStep(n, st, v)
<1>1. CASE ~Reaches(n, st.prepare_votes[v])
  BY <1>1 DEF PrepareStep, SupportedChange
<1>2. CASE Reaches(n, st.prepare_votes[v])
  <2>1. SupportedBy(T)
    BY <1>2 DEF Reaches, RestsOn
  <2>2. /\ st2.nominations = st.nominations
        /\ st2.prepare_votes = st.prepare_votes
        /\ st2.externalized_value = st.externalized_value
        /\ \A w \in Value \ {v} : st2.commit_votes[w] = st.commit_votes[w]
    BY <1>2, SelfVoteType DEF PrepareStep, SlotStates, VoteMap
  <2>3. QED
    BY <2>1, <2>2 DEF RestsOn, SupportedChange
<1>3. QED
  BY <1>1, <1>2

\* A decision is made only when commit votes form a slice.
LEMMA CommitStepRests ==
  ASSUME NEW n \in Node, NEW v \in Value, NEW st \in SlotStates,
         NEW T \in SUBSET Node, RestsOn(st, v, T)
  PROVE  /\ RestsOn(CommitStep(n, st, v), v, T)
         /\ SupportedChange(st, CommitStep(n, st, v), v, T)
<1> DEFINE st2 == CommitStep(n, st, v)
<1>1. CASE ~Reaches(n, st.commit_votes[v])
  BY <1>1 DEF CommitStep, SupportedChange
<1>2. CASE Reaches(n, st.commit_votes[v])
  <2>1. SupportedBy(T)
    BY <1>2 DEF Reaches, RestsOn
  <2>2. /\ st2.nominations = st.nominations
        /\ st2.prepare_votes = st.prepare_votes
        /\ st2.commit_votes = st.commit_votes
        /\ st2.externalized_value = v
    BY <1>2 DEF CommitStep, SlotStates
  <2>3. QED
    BY <2>1, <2>2 DEF RestsOn, SupportedChange
<1>3. QED
  BY <1>1, <1>2

(***************************************************************************)
(* check_state_transitions creates no support: if every vote for v rests   *)
(* on the nominators T, so does every vote, phase and decision after it.   *)
(***************************************************************************)
LEMMA TransitionsRest ==
  ASSUME NEW n \in Node, NEW v \in Value, NEW st \in SlotStates,
         NEW T \in SUBSET Node, RestsOn(st, v, T)
  PROVE  /\ RestsOn(CheckStateTransitions(n, st, v), v, T)
         /\ SupportedChange(st, CheckStateTransitions(n, st, v), v, T)
<1> DEFINE st1 == NominationStep(n, st, v)
           st2 == PrepareStep(n, st1, v)
           st3 == CommitStep(n, st2, v)
<1>1. st1 \in SlotStates /\ st2 \in SlotStates
  BY StepTypes
<1>2. RestsOn(st1, v, T) /\ SupportedChange(st, st1, v, T)
  BY NominationStepRests
<1>3. RestsOn(st2, v, T) /\ SupportedChange(st1, st2, v, T)
  BY <1>1, <1>2, PrepareStepRests
<1>4. RestsOn(st3, v, T) /\ SupportedChange(st2, st3, v, T)
  BY <1>1, <1>3, CommitStepRests
<1> HIDE DEF st1, st2, st3
<1>5. SupportedChange(st, st3, v, T)
  BY <1>2, <1>3, <1>4 DEF SupportedChange
<1>6. SupportedChange(st, st, v, T)
  BY DEF SupportedChange
<1>7. CheckStateTransitions(n, st, v) = IF st.phase = "Externalized" THEN st ELSE st3
  BY DEF CheckStateTransitions, st1, st2, st3
<1>8. QED
  BY <1>4, <1>5, <1>6, <1>7

-----------------------------------------------------------------------------
(***************************************************************************)
(* The same for the two ways the network changes a slot that is not        *)
(* decided: a nomination of the node's own, and a message.                 *)
(***************************************************************************)
LEMMA AfterNominateType ==
  ASSUME NEW n \in Node, NEW v \in Value, NEW st \in SlotStates,
         HasValueIffDecided(st), st.phase # "Externalized"
  PROVE  /\ AfterNominate(n, st, v) \in SlotStates
         /\ HasValueIffDecided(AfterNominate(n, st, v))
<1> DEFINE st0 == [st EXCEPT !.phase = IF @ = "Open" THEN "Nominate" ELSE @,
                             !.nominations[v] = @ \cup {n}]
<1>1. st0 \in SlotStates
  BY DEF SlotStates, VoteMap, Phase
<1>2. HasValueIffDecided(st0)
  BY DEF HasValueIffDecided, SlotStates
<1> HIDE DEF st0
<1>3. AfterNominate(n, st, v) = CheckStateTransitions(n, st0, v)
  BY DEF AfterNominate, st0
<1>4. QED
  BY <1>1, <1>2, <1>3, CheckStateTransitionsType

\* A message leaves a slot well formed.
LEMMA AfterMessageType ==
  ASSUME NEW n \in Node, NEW m \in ConsensusMessage, NEW st \in SlotStates,
         HasValueIffDecided(st)
  PROVE  /\ AfterMessage(n, st, m) \in SlotStates
         /\ HasValueIffDecided(AfterMessage(n, st, m))
<1>1. m.value \in Value /\ m.sender_id \in Node
  BY DEF ConsensusMessage
<1>2. RecordVotes(st, m) \in SlotStates
  BY <1>1 DEF RecordVotes, SlotStates, VoteMap
<1>3. HasValueIffDecided(RecordVotes(st, m))
  BY DEF RecordVotes, HasValueIffDecided, SlotStates
<1>4. QED
  BY <1>1, <1>2, <1>3, CheckStateTransitionsType DEF AfterMessage

\* process_message replies with a message of the node about the same value.
LEMMA RepliesType ==
  ASSUME NEW n \in Node, NEW m \in ConsensusMessage, NEW st \in SlotStates,
         NEW st2 \in SlotStates, NEW r \in Replies(n, st, st2, m)
  PROVE  /\ Sign(n, r) \in ConsensusMessage
         /\ VerifySignature(Sign(n, r))
         /\ Sign(n, r).msg_type # "Nominate"
         /\ Sign(n, r).slot = m.slot
         /\ Sign(n, r).value = m.value
         /\ st2.phase # st.phase
<1>1. /\ st2.phase # st.phase
      /\ st2.phase \in {"Prepare", "Commit", "Externalized"}
      /\ r = NewMessage(m.slot, n, ReplyType(st2.phase), m.value)
  BY DEF Replies, SlotStates, Phase
<1>2. ReplyType(st2.phase) \in {"Prepare", "Commit", "Externalize"}
  BY <1>1 DEF ReplyType
<1>3. m.slot \in Slot /\ m.value \in Value
  BY DEF ConsensusMessage
<1>4. Sign(n, r) = [slot |-> m.slot, sender_id |-> n, msg_type |-> ReplyType(st2.phase),
                    value |-> m.value, signature |-> n]
  BY <1>1 DEF Sign, NewMessage
<1>5. QED
  BY <1>1, <1>2, <1>3, <1>4 DEF ConsensusMessage, MessageType, VerifySignature

-----------------------------------------------------------------------------
(***************************************************************************)
(* check_state_transitions in closed form: what becomes of a slot that is  *)
(* not decided when the votes N, P and C of the three kinds arrive for v,  *)
(* and its phase is set to p.                                              *)
(***************************************************************************)
OwnVote(n, voters) == IF Reaches(n, voters) THEN SelfVote(n) ELSE {}

NominatedBy(st, v, N) == st.nominations[v] \cup N
PreparedBy(n, st, v, N, P) == st.prepare_votes[v] \cup P \cup OwnVote(n, NominatedBy(st, v, N))
CommittedBy(n, st, v, N, P, C) ==
  st.commit_votes[v] \cup C \cup OwnVote(n, PreparedBy(n, st, v, N, P))

MovedPhase(n, nominated, prepared, committed, p) ==
  IF Reaches(n, committed) THEN "Externalized"
  ELSE IF Reaches(n, prepared) THEN "Commit"
  ELSE IF Reaches(n, nominated) /\ p \in {"Open", "Nominate"} THEN "Prepare" ELSE p

Moved(n, st, v, N, P, C, p) ==
  [phase |-> MovedPhase(n, NominatedBy(st, v, N), PreparedBy(n, st, v, N, P),
                        CommittedBy(n, st, v, N, P, C), p),
   nominations |-> [st.nominations EXCEPT ![v] = NominatedBy(st, v, N)],
   prepare_votes |-> [st.prepare_votes EXCEPT ![v] = PreparedBy(n, st, v, N, P)],
   commit_votes |-> [st.commit_votes EXCEPT ![v] = CommittedBy(n, st, v, N, P, C)],
   externalized_value |-> IF Reaches(n, CommittedBy(n, st, v, N, P, C)) THEN v
                          ELSE st.externalized_value]

\* The three steps of check_state_transitions, one after the other.
LEMMA CheckIs ==
  ASSUME NEW n \in Node, NEW v \in Value, NEW st \in SlotStates, st.phase # "Externalized"
  PROVE  CheckStateTransitions(n, st, v) = Moved(n, st, v, {}, {}, {}, st.phase)
<1> DEFINE st1 == NominationStep(n, st, v)
           st2 == PrepareStep(n, st1, v)
           st3 == CommitStep(n, st2, v)
           nom == NominatedBy(st, v, {})
           pre == PreparedBy(n, st, v, {}, {})
           com == CommittedBy(n, st, v, {}, {}, {})
<1>1. st1 \in SlotStates /\ st2 \in SlotStates /\ st3 \in SlotStates
  BY StepTypes
<1>2. nom = st.nominations[v]
  BY DEF NominatedBy
<1>3. /\ st1.nominations = st.nominations
      /\ st1.prepare_votes = [st.prepare_votes EXCEPT ![v] = pre]
      /\ st1.commit_votes = st.commit_votes
      /\ st1.externalized_value = st.externalized_value
      /\ st1.phase = IF Reaches(n, nom) /\ st.phase \in {"Open", "Nominate"} THEN "Prepare" ELSE st.phase
  <2>1. CASE ~Reaches(n, st.nominations[v])
    BY <1>2, <2>1 DEF NominationStep, PreparedBy, OwnVote, SlotStates, VoteMap
  <2>2. CASE Reaches(n, st.nominations[v])
    BY <1>2, <2>2 DEF NominationStep, PreparedBy, OwnVote, SlotStates, VoteMap
  <2>3. QED
    BY <2>1, <2>2
<1>4. st1.prepare_votes[v] = pre
  BY <1>3 DEF SlotStates, VoteMap
<1> HIDE DEF st1, nom, pre
<1>5. com = st.commit_votes[v] \cup OwnVote(n, pre)
  BY DEF CommittedBy, pre
<1>6. /\ st2.nominations = st1.nominations
      /\ st2.prepare_votes = st1.prepare_votes
      /\ st2.commit_votes = [st.commit_votes EXCEPT ![v] = com]
      /\ st2.externalized_value = st1.externalized_value
      /\ st2.phase = IF Reaches(n, pre) THEN "Commit" ELSE st1.phase
  <2> HIDE DEF com
  <2>1. CASE ~Reaches(n, pre)
    BY <1>1, <1>3, <1>4, <1>5, <2>1 DEF PrepareStep, OwnVote, SlotStates, VoteMap
  <2>2. CASE Reaches(n, pre)
    BY <1>1, <1>3, <1>4, <1>5, <2>2 DEF PrepareStep, OwnVote, SlotStates, VoteMap
  <2>3. QED
    BY <2>1, <2>2
<1>7. st2.commit_votes[v] = com
  BY <1>6 DEF SlotStates, VoteMap
<1> HIDE DEF st2, com
<1>8. /\ st3.nominations = st2.nominations
      /\ st3.prepare_votes = st2.prepare_votes
      /\ st3.commit_votes = st2.commit_votes
      /\ st3.externalized_value = IF Reaches(n, com) THEN v ELSE st2.externalized_value
      /\ st3.phase = IF Reaches(n, com) THEN "Externalized" ELSE st2.phase
  BY <1>1, <1>7 DEF CommitStep, SlotStates
<1> HIDE DEF st3
<1>9. st3 = [phase |-> st3.phase, nominations |-> st3.nominations, prepare_votes |-> st3.prepare_votes,
             commit_votes |-> st3.commit_votes, externalized_value |-> st3.externalized_value]
  BY <1>1 DEF SlotStates
<1>10. st3.phase = MovedPhase(n, nom, pre, com, st.phase)
  BY <1>3, <1>6, <1>8 DEF MovedPhase
<1>11. st3.nominations = [st.nominations EXCEPT ![v] = nom]
  BY <1>2, <1>3, <1>6, <1>8 DEF SlotStates, VoteMap
<1>12. st3 = Moved(n, st, v, {}, {}, {}, st.phase)
  BY <1>3, <1>6, <1>8, <1>9, <1>10, <1>11 DEF Moved, nom, pre, com
<1>13. QED
  BY <1>12 DEF CheckStateTransitions, st1, st2, st3

\* st0 is st with the votes N, P and C for v, in phase p.
Recorded(st, st0, v, N, P, C, p) ==
  /\ st0 \in SlotStates
  /\ st0.phase = p
  /\ st0.nominations = [st.nominations EXCEPT ![v] = st.nominations[v] \cup N]
  /\ st0.prepare_votes = [st.prepare_votes EXCEPT ![v] = st.prepare_votes[v] \cup P]
  /\ st0.commit_votes = [st.commit_votes EXCEPT ![v] = st.commit_votes[v] \cup C]
  /\ st0.externalized_value = st.externalized_value

\* Votes recorded, then checked.
LEMMA RecordedIs ==
  ASSUME NEW n \in Node, NEW v \in Value, NEW st \in SlotStates, NEW st0,
         NEW N, NEW P, NEW C, NEW p,
         p # "Externalized", Recorded(st, st0, v, N, P, C, p)
  PROVE  CheckStateTransitions(n, st0, v) = Moved(n, st, v, N, P, C, p)
<1> DEFINE nom == NominatedBy(st, v, N)
           pre == PreparedBy(n, st, v, N, P)
           com == CommittedBy(n, st, v, N, P, C)
<1>1. /\ st0 \in SlotStates /\ st0.phase = p
      /\ st0.nominations[v] = st.nominations[v] \cup N
      /\ st0.prepare_votes[v] = st.prepare_votes[v] \cup P
      /\ st0.commit_votes[v] = st.commit_votes[v] \cup C
  BY DEF Recorded, SlotStates, VoteMap
<1>2. NominatedBy(st0, v, {}) = nom
  BY <1>1 DEF NominatedBy
<1>3. PreparedBy(n, st0, v, {}, {}) = pre
  BY <1>1, <1>2 DEF PreparedBy
<1>4. CommittedBy(n, st0, v, {}, {}, {}) = com
  BY <1>1, <1>3 DEF CommittedBy
<1> HIDE DEF nom, pre, com
<1>5. /\ [st0.nominations EXCEPT ![v] = nom] = [st.nominations EXCEPT ![v] = nom]
      /\ [st0.prepare_votes EXCEPT ![v] = pre] = [st.prepare_votes EXCEPT ![v] = pre]
      /\ [st0.commit_votes EXCEPT ![v] = com] = [st.commit_votes EXCEPT ![v] = com]
  BY DEF Recorded, SlotStates, VoteMap
<1>6. st0.externalized_value = st.externalized_value
  BY DEF Recorded
<1>7. Moved(n, st0, v, {}, {}, {}, p) = Moved(n, st, v, N, P, C, p)
  BY <1>2, <1>3, <1>4, <1>5, <1>6 DEF Moved, nom, pre, com
<1>8. CheckStateTransitions(n, st0, v) = Moved(n, st0, v, {}, {}, {}, p)
  BY <1>1, CheckIs
<1>9. QED
  BY <1>7, <1>8

\* The local calls and a message, as such votes.
LEMMA CallsAre ==
  ASSUME NEW n \in Node, NEW v \in Value, NEW st \in SlotStates, st.phase # "Externalized"
  PROVE  /\ AfterNominate(n, st, v) =
              Moved(n, st, v, {n}, {}, {}, IF st.phase = "Open" THEN "Nominate" ELSE st.phase)
         /\ AfterPrepare(n, st, v) = Moved(n, st, v, {}, {n}, {}, "Prepare")
         /\ AfterCommit(n, st, v) = Moved(n, st, v, {}, {}, {n}, "Commit")
<1>1. AfterNominate(n, st, v) =
        Moved(n, st, v, {n}, {}, {}, IF st.phase = "Open" THEN "Nominate" ELSE st.phase)
  <2> DEFINE p == IF st.phase = "Open" THEN "Nominate" ELSE st.phase
             st0 == [st EXCEPT !.phase = IF @ = "Open" THEN "Nominate" ELSE @,
                               !.nominations[v] = @ \cup {n}]
  <2>1. Recorded(st, st0, v, {n}, {}, {}, p) /\ p # "Externalized"
    BY DEF Recorded, SlotStates, VoteMap, Phase
  <2> HIDE DEF st0, p
  <2>2. CheckStateTransitions(n, st0, v) = Moved(n, st, v, {n}, {}, {}, p)
    BY <2>1, RecordedIs
  <2>3. QED
    BY <2>2 DEF AfterNominate, p, st0
<1>2. AfterPrepare(n, st, v) = Moved(n, st, v, {}, {n}, {}, "Prepare")
  <2> DEFINE st0 == [st EXCEPT !.phase = "Prepare", !.prepare_votes[v] = @ \cup {n}]
  <2>1. Recorded(st, st0, v, {}, {n}, {}, "Prepare")
    BY DEF Recorded, SlotStates, VoteMap, Phase
  <2> HIDE DEF st0
  <2>2. CheckStateTransitions(n, st0, v) = Moved(n, st, v, {}, {n}, {}, "Prepare")
    BY <2>1, RecordedIs
  <2>3. QED
    BY <2>2 DEF AfterPrepare, st0
<1>3. AfterCommit(n, st, v) = Moved(n, st, v, {}, {}, {n}, "Commit")
  <2> DEFINE st0 == [st EXCEPT !.phase = "Commit", !.commit_votes[v] = @ \cup {n}]
  <2>1. Recorded(st, st0, v, {}, {}, {n}, "Commit")
    BY DEF Recorded, SlotStates, VoteMap, Phase
  <2> HIDE DEF st0
  <2>2. CheckStateTransitions(n, st0, v) = Moved(n, st, v, {}, {}, {n}, "Commit")
    BY <2>1, RecordedIs
  <2>3. QED
    BY <2>2 DEF AfterCommit, st0
<1>4. QED
  BY <1>1, <1>2, <1>3

MessagePrepares(m) == IF m.msg_type = "Nominate" THEN {} ELSE {m.sender_id}
MessageCommits(m) == IF m.msg_type \in {"Commit", "Externalize"} THEN {m.sender_id} ELSE {}

\* A message casts the votes of its own type and of the types before it.
LEMMA MessageIs ==
  ASSUME NEW n \in Node, NEW m \in ConsensusMessage, NEW st \in SlotStates,
         st.phase # "Externalized"
  PROVE  AfterMessage(n, st, m) =
           Moved(n, st, m.value, {m.sender_id}, MessagePrepares(m), MessageCommits(m), st.phase)
<1> DEFINE v == m.value
           st0 == RecordVotes(st, m)
<1>1. v \in Value /\ m.sender_id \in Node
  BY DEF ConsensusMessage
<1>2. Recorded(st, st0, v, {m.sender_id}, MessagePrepares(m), MessageCommits(m), st.phase)
  BY <1>1 DEF Recorded, RecordVotes, MessagePrepares, MessageCommits, SlotStates, VoteMap
<1> HIDE DEF v, st0
<1>3. CheckStateTransitions(n, st0, v) =
        Moved(n, st, v, {m.sender_id}, MessagePrepares(m), MessageCommits(m), st.phase)
  BY <1>1, <1>2, RecordedIs
<1>4. QED
  BY <1>3 DEF AfterMessage, v, st0
-----------------------------------------------------------------------------
\* Reaches asks for a voter, and for a slice.
LEMMA ReachesMonotone ==
  ASSUME NEW n \in Node, NEW V \in SUBSET Node, NEW W \in SUBSET Node,
         V \subseteq W, Reaches(n, V)
  PROVE  Reaches(n, W)
  BY SliceMonotone DEF Reaches

\* The votes recorded for v are sets of nodes.
LEMMA TalliesType ==
  ASSUME NEW n \in Node, NEW v \in Value, NEW st \in SlotStates,
         NEW N \in SUBSET Node, NEW P \in SUBSET Node, NEW C \in SUBSET Node
  PROVE  /\ NominatedBy(st, v, N) \in SUBSET Node
         /\ PreparedBy(n, st, v, N, P) \in SUBSET Node
         /\ CommittedBy(n, st, v, N, P, C) \in SUBSET Node
<1>1. /\ st.nominations[v] \in SUBSET Node
      /\ st.prepare_votes[v] \in SUBSET Node
      /\ st.commit_votes[v] \in SUBSET Node
  BY DEF SlotStates, VoteMap
<1>2. \A V : OwnVote(n, V) \in SUBSET Node
  BY SelfVoteType DEF OwnVote
<1>3. QED
  BY <1>1, <1>2 DEF NominatedBy, PreparedBy, CommittedBy

\* The tallies of a slot after a move: v's are as computed, the others as before.
LEMMA MovedTallies ==
  ASSUME NEW n \in Node, NEW v \in Value, NEW st \in SlotStates,
         NEW N, NEW P, NEW C, NEW p, NEW w \in Value
  PROVE  LET st2 == Moved(n, st, v, N, P, C, p) IN
         /\ st2.nominations[w] = IF w = v THEN NominatedBy(st, v, N) ELSE st.nominations[w]
         /\ st2.prepare_votes[w] = IF w = v THEN PreparedBy(n, st, v, N, P) ELSE st.prepare_votes[w]
         /\ st2.commit_votes[w] = IF w = v THEN CommittedBy(n, st, v, N, P, C) ELSE st.commit_votes[w]
  BY DEF Moved, SlotStates, VoteMap

\* A move keeps the slot well formed.
LEMMA MovedType ==
  ASSUME NEW n \in Node, NEW v \in Value, NEW st \in SlotStates, HasValueIffDecided(st),
         st.phase # "Externalized",
         NEW N \in SUBSET Node, NEW P \in SUBSET Node, NEW C \in SUBSET Node,
         NEW p \in Phase \ {"Externalized"}
  PROVE  /\ Moved(n, st, v, N, P, C, p) \in SlotStates
         /\ HasValueIffDecided(Moved(n, st, v, N, P, C, p))
<1> DEFINE nom == NominatedBy(st, v, N)
           pre == PreparedBy(n, st, v, N, P)
           com == CommittedBy(n, st, v, N, P, C)
<1>1. nom \in SUBSET Node /\ pre \in SUBSET Node /\ com \in SUBSET Node
  BY TalliesType
<1>2. Moved(n, st, v, N, P, C, p) =
        [phase |-> MovedPhase(n, nom, pre, com, p),
         nominations |-> [st.nominations EXCEPT ![v] = nom],
         prepare_votes |-> [st.prepare_votes EXCEPT ![v] = pre],
         commit_votes |-> [st.commit_votes EXCEPT ![v] = com],
         externalized_value |-> IF Reaches(n, com) THEN v ELSE st.externalized_value]
  BY DEF Moved
<1> HIDE DEF nom, pre, com
<1>3. MovedPhase(n, nom, pre, com, p) \in Phase
  BY DEF MovedPhase, Phase
<1>4. MovedPhase(n, nom, pre, com, p) = "Externalized" <=> Reaches(n, com)
  BY DEF MovedPhase, Phase
<1>5. st.externalized_value = None
  BY DEF HasValueIffDecided
<1>6. Moved(n, st, v, N, P, C, p) \in SlotStates
  BY <1>1, <1>2, <1>3, <1>5 DEF SlotStates, VoteMap
<1>7. v # None
  BY NoneAssumption
<1>8. QED
  BY <1>2, <1>4, <1>5, <1>6, <1>7 DEF HasValueIffDecided

-----------------------------------------------------------------------------
(***************************************************************************)
(* A slot is settled at n when it has made every transition its votes      *)
(* allow, for every value and not only the last one checked.               *)
(***************************************************************************)
SettledFor(n, st, v) ==
  /\ Reaches(n, st.nominations[v]) =>
       SelfVote(n) \subseteq st.prepare_votes[v] /\ st.phase \notin {"Open", "Nominate"}
  /\ Reaches(n, st.prepare_votes[v]) =>
       SelfVote(n) \subseteq st.commit_votes[v] /\ st.phase = "Commit"
  /\ ~Reaches(n, st.commit_votes[v])

Settled(n, st) == st.phase # "Externalized" => \A v \in Value : SettledFor(n, st, v)

\* Looking again at a settled slot changes nothing.
LEMMA SettledStays ==
  ASSUME NEW n \in Node, NEW v \in Value, NEW st \in SlotStates, Settled(n, st)
  PROVE  CheckStateTransitions(n, st, v) = st
<1>1. CASE st.phase = "Externalized"
  BY <1>1 DEF CheckStateTransitions
<1>2. CASE st.phase # "Externalized"
  <2> DEFINE nom == NominatedBy(st, v, {})
             pre == PreparedBy(n, st, v, {}, {})
             com == CommittedBy(n, st, v, {}, {}, {})
  <2>1. SettledFor(n, st, v)
    BY <1>2 DEF Settled
  <2>2. nom = st.nominations[v]
    BY DEF NominatedBy
  <2>3. pre = st.prepare_votes[v]
    BY <2>1, <2>2 DEF PreparedBy, OwnVote, SettledFor
  <2>4. com = st.commit_votes[v]
    BY <2>1, <2>3 DEF CommittedBy, OwnVote, SettledFor
  <2>5. Moved(n, st, v, {}, {}, {}, st.phase) =
          [phase |-> MovedPhase(n, nom, pre, com, st.phase),
           nominations |-> [st.nominations EXCEPT ![v] = nom],
           prepare_votes |-> [st.prepare_votes EXCEPT ![v] = pre],
           commit_votes |-> [st.commit_votes EXCEPT ![v] = com],
           externalized_value |-> IF Reaches(n, com) THEN v ELSE st.externalized_value]
    BY DEF Moved
  <2> HIDE DEF nom, pre, com
  <2>6. MovedPhase(n, nom, pre, com, st.phase) = st.phase
    BY <2>1, <2>2, <2>3, <2>4 DEF MovedPhase, SettledFor
  <2>7. ~Reaches(n, com)
    BY <2>1, <2>4 DEF SettledFor
  <2>8. /\ [st.nominations EXCEPT ![v] = nom] = st.nominations
        /\ [st.prepare_votes EXCEPT ![v] = pre] = st.prepare_votes
        /\ [st.commit_votes EXCEPT ![v] = com] = st.commit_votes
    BY <2>2, <2>3, <2>4 DEF SlotStates, VoteMap
  <2>9. st = [phase |-> st.phase, nominations |-> st.nominations,
              prepare_votes |-> st.prepare_votes, commit_votes |-> st.commit_votes,
              externalized_value |-> st.externalized_value]
    BY DEF SlotStates
  <2>10. Moved(n, st, v, {}, {}, {}, st.phase) = st
    BY <2>5, <2>6, <2>7, <2>8, <2>9
  <2>11. QED
    BY <1>2, <2>10, CheckIs
<1>3. QED
  BY <1>1, <1>2

\* The phase a slot is in when votes other than prepare and commit calls reach it.
KeepsPhase(st, p) == p = st.phase \/ (st.phase = "Open" /\ p = "Nominate")

\* A move that keeps the phase leaves a settled slot settled.
LEMMA MovedSettles ==
  ASSUME NEW n \in Node, NEW v \in Value, NEW st \in SlotStates, Settled(n, st),
         st.phase # "Externalized", NEW N, NEW P, NEW C, NEW p, KeepsPhase(st, p)
  PROVE  Settled(n, Moved(n, st, v, N, P, C, p))
<1> DEFINE nom == NominatedBy(st, v, N)
           pre == PreparedBy(n, st, v, N, P)
           com == CommittedBy(n, st, v, N, P, C)
           st2 == Moved(n, st, v, N, P, C, p)
<1> SUFFICES ASSUME st2.phase # "Externalized", NEW w \in Value
             PROVE  SettledFor(n, st2, w)
  BY DEF Settled
<1>1. st2.phase = MovedPhase(n, nom, pre, com, p)
  BY DEF Moved
<1>2. /\ st2.nominations[w] = IF w = v THEN nom ELSE st.nominations[w]
      /\ st2.prepare_votes[w] = IF w = v THEN pre ELSE st.prepare_votes[w]
      /\ st2.commit_votes[w] = IF w = v THEN com ELSE st.commit_votes[w]
  BY MovedTallies
<1>3. OwnVote(n, nom) \subseteq pre /\ OwnVote(n, pre) \subseteq com
  BY DEF PreparedBy, CommittedBy
<1>4. SettledFor(n, st, w)
  BY DEF Settled
<1> HIDE DEF nom, pre, com, st2
<1>5. ~Reaches(n, com)
  BY <1>1 DEF MovedPhase
<1>6. CASE w = v
  <2>1. Reaches(n, nom) => SelfVote(n) \subseteq pre /\ st2.phase \notin {"Open", "Nominate"}
    BY <1>1, <1>3, <1>5 DEF MovedPhase, OwnVote
  <2>2. Reaches(n, pre) => SelfVote(n) \subseteq com /\ st2.phase = "Commit"
    BY <1>1, <1>3, <1>5 DEF MovedPhase, OwnVote
  <2>3. QED
    BY <1>2, <1>5, <1>6, <2>1, <2>2 DEF SettledFor
<1>7. CASE w # v
  <2>1. st.phase = "Commit" => st2.phase = "Commit"
    BY <1>1, <1>5 DEF MovedPhase, KeepsPhase
  <2>2. st.phase \notin {"Open", "Nominate"} => st2.phase \notin {"Open", "Nominate"}
    BY <1>1, <1>5 DEF MovedPhase, KeepsPhase
  <2>3. QED
    BY <1>2, <1>4, <1>7, <2>1, <2>2 DEF SettledFor
<1>8. QED
  BY <1>6, <1>7
-----------------------------------------------------------------------------
(***************************************************************************)
(* The votes of a slot at node n back each other: who prepares has         *)
(* nominated and who commits has prepared, n itself apart, which votes     *)
(* only when the votes before it reach a slice.                            *)
(***************************************************************************)
BackedFor(n, nominated, prepared, committed) ==
  /\ prepared \subseteq nominated \cup {n}
  /\ committed \subseteq prepared \cup {n}
  /\ n \in prepared => Reaches(n, nominated)
  /\ n \in committed => Reaches(n, prepared)

SlotBacked(n, st) ==
  \A v \in Value : BackedFor(n, st.nominations[v], st.prepare_votes[v], st.commit_votes[v])

\* In such a slot the quorums back each other too.
LEMMA QuorumsAreBacked ==
  ASSUME NEW n \in Node, NEW A \in SUBSET Node, NEW B \in SUBSET Node, NEW C \in SUBSET Node,
         BackedFor(n, A, B, C)
  PROVE  /\ Reaches(n, B) => Reaches(n, A)
         /\ Reaches(n, C) => Reaches(n, B)
<1>1. ASSUME NEW V \in SUBSET Node, NEW W \in SUBSET Node, W \subseteq V \cup {n},
             n \in W => Reaches(n, V), Reaches(n, W)
      PROVE  Reaches(n, V)
  <2>1. CASE n \in W
    BY <1>1, <2>1
  <2>2. CASE n \notin W
    <3>1. W \subseteq V
      BY <1>1, <2>2
    <3>2. QED
      BY <1>1, <3>1, ReachesMonotone
  <2>3. QED
    BY <2>1, <2>2
<1>2. QED
  BY <1>1 DEF BackedFor

\* Votes that come with all the votes before them keep it so, and votes of n's
\* own that n is entitled to.
LEMMA MovedBacked ==
  ASSUME NEW n \in Node, NEW v \in Value, NEW st \in SlotStates, SlotBacked(n, st),
         NEW N \in SUBSET Node, NEW P \in SUBSET N, NEW C \in SUBSET P, NEW p,
         n \in P => Reaches(n, st.nominations[v]), n \in C => Reaches(n, st.prepare_votes[v])
  PROVE  /\ SlotBacked(n, Moved(n, st, v, N, P, C, p))
         /\ BackedFor(n, NominatedBy(st, v, N), PreparedBy(n, st, v, N, P),
                      CommittedBy(n, st, v, N, P, C))
<1> DEFINE nom == NominatedBy(st, v, N)
           pre == PreparedBy(n, st, v, N, P)
           com == CommittedBy(n, st, v, N, P, C)
           st2 == Moved(n, st, v, N, P, C, p)
           A == st.nominations[v]
           B == st.prepare_votes[v]
           D == st.commit_votes[v]
<1>1. A \in SUBSET Node /\ B \in SUBSET Node /\ D \in SUBSET Node
  BY DEF SlotStates, VoteMap
<1>2. BackedFor(n, A, B, D)
  BY DEF SlotBacked
<1>3. nom \in SUBSET Node /\ pre \in SUBSET Node /\ com \in SUBSET Node
  BY TalliesType
<1>4. nom = A \cup N /\ pre = B \cup P \cup OwnVote(n, nom) /\ com = D \cup C \cup OwnVote(n, pre)
  BY DEF NominatedBy, PreparedBy, CommittedBy
<1>5. \A w \in Value :
        /\ st2.nominations[w] = IF w = v THEN nom ELSE st.nominations[w]
        /\ st2.prepare_votes[w] = IF w = v THEN pre ELSE st.prepare_votes[w]
        /\ st2.commit_votes[w] = IF w = v THEN com ELSE st.commit_votes[w]
  BY MovedTallies
<1> HIDE DEF nom, pre, com, st2, A, B, D
<1>6. \A V : OwnVote(n, V) \subseteq {n} /\ (n \in OwnVote(n, V) => Reaches(n, V))
  BY DEF OwnVote, SelfVote
<1>7. n \in pre => Reaches(n, nom)
  <2>1. n \in B \cup P => Reaches(n, nom)
    <3>1. n \in B \cup P => Reaches(n, A)
      BY <1>2 DEF BackedFor, A
    <3>2. A \subseteq nom
      BY <1>4
    <3>3. QED
      BY <1>1, <1>3, <3>1, <3>2, ReachesMonotone
  <2>2. QED
    BY <1>4, <1>6, <2>1
<1>8. n \in com => Reaches(n, pre)
  <2>1. n \in D \cup C => Reaches(n, pre)
    <3>1. n \in D \cup C => Reaches(n, B)
      BY <1>2 DEF BackedFor, B
    <3>2. B \subseteq pre
      BY <1>4
    <3>3. QED
      BY <1>1, <1>3, <3>1, <3>2, ReachesMonotone
  <2>2. QED
    BY <1>4, <1>6, <2>1
<1>9. pre \subseteq nom \cup {n}
  BY <1>2, <1>4, <1>6 DEF BackedFor
<1>10. com \subseteq pre \cup {n}
  BY <1>2, <1>4, <1>6 DEF BackedFor
<1>11. BackedFor(n, nom, pre, com)
  BY <1>7, <1>8, <1>9, <1>10 DEF BackedFor
<1>12. SlotBacked(n, st2)
  BY <1>5, <1>11 DEF SlotBacked
<1>13. QED
  BY <1>11, <1>12 DEF nom, pre, com, st2

\* The phase a slot enters says which quorums are there.
LEMMA PhaseSays ==
  ASSUME NEW n \in Node, NEW A \in SUBSET Node, NEW B \in SUBSET Node, NEW C \in SUBSET Node,
         NEW p \in Phase, BackedFor(n, A, B, C), MovedPhase(n, A, B, C, p) # p
  PROVE  /\ MovedPhase(n, A, B, C, p) \in {"Prepare", "Commit", "Externalized"}
         /\ Reaches(n, A)
         /\ MovedPhase(n, A, B, C, p) \in {"Commit", "Externalized"} => Reaches(n, B)
<1>1. /\ Reaches(n, B) => Reaches(n, A)
      /\ Reaches(n, C) => Reaches(n, B)
  BY QuorumsAreBacked
<1>2. QED
  BY <1>1 DEF MovedPhase, Phase

\* Every tally of st1 is contained in that of st2.
Grows(st1, st2) ==
  \A v \in Value : /\ st1.nominations[v] \subseteq st2.nominations[v]
                   /\ st1.prepare_votes[v] \subseteq st2.prepare_votes[v]
                   /\ st1.commit_votes[v] \subseteq st2.commit_votes[v]

\* A move takes no vote back.
LEMMA MovedGrows ==
  ASSUME NEW n \in Node, NEW v \in Value, NEW st \in SlotStates,
         NEW N, NEW P, NEW C, NEW p
  PROVE  Grows(st, Moved(n, st, v, N, P, C, p))
<1> DEFINE st2 == Moved(n, st, v, N, P, C, p)
<1>1. \A w \in Value :
        /\ st2.nominations[w] = IF w = v THEN NominatedBy(st, v, N) ELSE st.nominations[w]
        /\ st2.prepare_votes[w] = IF w = v THEN PreparedBy(n, st, v, N, P) ELSE st.prepare_votes[w]
        /\ st2.commit_votes[w] = IF w = v THEN CommittedBy(n, st, v, N, P, C) ELSE st.commit_votes[w]
  BY MovedTallies
<1> HIDE DEF st2
<1>2. /\ st.nominations[v] \subseteq NominatedBy(st, v, N)
      /\ st.prepare_votes[v] \subseteq PreparedBy(n, st, v, N, P)
      /\ st.commit_votes[v] \subseteq CommittedBy(n, st, v, N, P, C)
  BY DEF NominatedBy, PreparedBy, CommittedBy
<1>3. Grows(st, st2)
  BY <1>1, <1>2 DEF Grows
<1>4. QED
  BY <1>3 DEF st2
=============================================================================
