-------------------------- MODULE StunAgentProofs --------------------------
(***************************************************************************)
(* Proofs about the transaction table of StunAgent, for every number of    *)
(* slots, every set of messages and every combination of usage flags.      *)
(*                                                                         *)
(* The inductive invariant adds to the properties what ties a slot to the  *)
(* history of its transaction: a valid slot holds an id that was used and  *)
(* not yet accepted, and the key its request was sent with.                *)
(***************************************************************************)
EXTENDS StunAgent, TLAPS

SlotsFaithful ==
  \A i \in Slots : sent_ids[i].valid =>
    /\ sent_ids[i].id \in used
    /\ sent_ids[i].id \notin accepted
    /\ sent_ids[i].key = sent_key[sent_ids[i].id]

HistoryFaithful ==
  /\ accepted \subseteq used
  /\ IsAnswer(last) /\ last.status = "SUCCESS" => last.id \in accepted

IInv == TypeOK /\ UniqueIds /\ SlotsFaithful /\ HistoryFaithful /\ Authentic /\ StillMatchable

-----------------------------------------------------------------------------
(* What each kind of change does to the pending transactions.              *)

\* The pending transactions are the ids of the valid slots.
LEMMA PendingMember ==
  \A x : x \in Pending <=> \E i \in Slots : sent_ids[i].valid /\ sent_ids[i].id = x
BY DEF Pending

\* Filling a free slot adds its transaction and no other.
LEMMA SaveAdds ==
  ASSUME TypeOK, NEW i \in Slots, ~sent_ids[i].valid,
         NEW id \in Ids, NEW method \in Methods, NEW key \in Keys \cup {NoKey},
         sent_ids' = [sent_ids EXCEPT ![i] =
                       [valid |-> TRUE, id |-> id, method |-> method, key |-> key]]
  PROVE  Pending' = Pending \cup {id}
<1>1. sent_ids'[i].valid /\ sent_ids'[i].id = id
  BY DEF TypeOK
<1>2. \A j \in Slots \ {i} : sent_ids'[j] = sent_ids[j]
  BY DEF TypeOK
<1>3. \A x : x \in Pending' <=> x \in Pending \/ x = id
  BY <1>1, <1>2 DEF Pending
<1> QED
  BY <1>3

\* Releasing a valid slot removes its transaction: no other slot has its id.
LEMMA ReleaseRemoves ==
  ASSUME TypeOK, UniqueIds, NEW i \in Slots, sent_ids[i].valid,
         sent_ids' = Released(i)
  PROVE  Pending' = Pending \ {sent_ids[i].id}
<1>1. ~sent_ids'[i].valid
  BY DEF TypeOK, Released
<1>2. \A j \in Slots \ {i} : sent_ids'[j] = sent_ids[j]
  BY DEF TypeOK, Released
<1>3. \A x : x \in Pending' <=> x \in Pending /\ x # sent_ids[i].id
  BY <1>1, <1>2 DEF Pending, UniqueIds
<1> QED
  BY <1>3

\* Forgetting a transaction releases its only slot, or changes nothing.
LEMMA ForgetReleases ==
  ASSUME TypeOK, UniqueIds, NEW id \in Ids, stun_agent_forget_transaction(id)
  PROVE  \/ id \notin Pending /\ sent_ids' = sent_ids
         \/ \E i \in Slots : /\ sent_ids[i].valid /\ sent_ids[i].id = id
                             /\ sent_ids' = Released(i)
<1>0. /\ sent_ids \in [Slots -> SlotType]
      /\ sent_ids' = [i \in Slots |->
           IF /\ sent_ids[i].valid /\ sent_ids[i].id = id
              /\ \A j \in Slots : j < i => ~(sent_ids[j].valid /\ sent_ids[j].id = id)
           THEN [valid |-> FALSE, id |-> sent_ids[i].id, method |-> sent_ids[i].method,
                 key |-> sent_ids[i].key]
           ELSE sent_ids[i]]
  BY DEF TypeOK, stun_agent_forget_transaction
<1>1. CASE \A i \in Slots : ~(sent_ids[i].valid /\ sent_ids[i].id = id)
  <2>1. id \notin Pending
    BY <1>1 DEF Pending
  <2>2. \A i \in Slots : sent_ids'[i] = sent_ids[i]
    BY <1>0, <1>1
  <2>3. sent_ids' = [i \in Slots |-> sent_ids'[i]] /\ sent_ids = [i \in Slots |-> sent_ids[i]]
    BY <1>0
  <2> QED
    BY <2>1, <2>2, <2>3
<1>2. CASE \E i \in Slots : sent_ids[i].valid /\ sent_ids[i].id = id
  <2>1. PICK i \in Slots : sent_ids[i].valid /\ sent_ids[i].id = id
    BY <1>2
  <2>2. \A j \in Slots : sent_ids[j].valid /\ sent_ids[j].id = id => j = i
    BY <2>1 DEF UniqueIds
  <2>3. \A j \in Slots : j < i => j # i
    BY DEF Slots
  <2>4. sent_ids'[i] = Released(i)[i]
    BY <1>0, <2>1, <2>2, <2>3 DEF Released
  <2>5. \A j \in Slots \ {i} : sent_ids'[j] = Released(i)[j]
    BY <1>0, <2>2 DEF Released
  <2>6. /\ sent_ids' = [j \in Slots |-> sent_ids'[j]]
        /\ Released(i) = [j \in Slots |-> Released(i)[j]]
    BY <1>0 DEF Released
  <2> QED
    BY <2>1, <2>4, <2>5, <2>6
<1> QED
  BY <1>1, <1>2
-----------------------------------------------------------------------------
(* The invariant.                                                          *)

\* The table starts empty, so every conjunct holds.
LEMMA InitInvariant == Init => IInv
<1> SUFFICES ASSUME Init PROVE IInv
  OBVIOUS
<1>1. TypeOK
  BY DEF Init, TypeOK, SlotType, Empty
<1>2. \A i \in Slots : ~sent_ids[i].valid
  BY DEF Init, Empty
<1>3. ~IsAnswer(last)
  BY DEF Init, IsAnswer
<1> QED
  BY <1>1, <1>2, <1>3
  DEF Init, IInv, UniqueIds, SlotsFaithful, HistoryFaithful, Authentic, StillMatchable

\* Saving a request under a fresh id keeps the invariant.
LEMMA FinishPreserves ==
  ASSUME IInv, NEW id \in Ids, NEW method \in Methods, NEW key \in Keys \cup {NoKey},
         stun_agent_finish_message(id, method, key)
  PROVE  IInv'
<1>1. /\ TypeOK /\ UniqueIds /\ SlotsFaithful /\ HistoryFaithful
      /\ Authentic /\ StillMatchable
  BY DEF IInv
<1>2. /\ id \notin used /\ used' = used \cup {id} /\ waiting' = waiting \cup {id}
      /\ sent_key' = [sent_key EXCEPT ![id] = key]
      /\ UNCHANGED <<accepted, discarded, last>>
  BY DEF stun_agent_finish_message
<1>3. PICK i \in Slots :
        /\ FirstFree(i)
        /\ sent_ids' = [sent_ids EXCEPT ![i] =
                         [valid |-> TRUE, id |-> id, method |-> method, key |-> key]]
  BY DEF stun_agent_finish_message
<1>4. sent_ids'[i] = [valid |-> TRUE, id |-> id, method |-> method, key |-> key]
  BY <1>1, <1>3 DEF TypeOK
<1>5. \A j \in Slots \ {i} : sent_ids'[j] = sent_ids[j]
  BY <1>1, <1>3 DEF TypeOK
<1>6. sent_key'[id] = key /\ \A x \in Ids \ {id} : sent_key'[x] = sent_key[x]
  BY <1>1, <1>2 DEF TypeOK
<1>7. TypeOK'
  BY <1>1, <1>2, <1>3, <1>4, <1>5 DEF TypeOK, SlotType
<1>8. UniqueIds'
  BY <1>1, <1>2, <1>4, <1>5 DEF UniqueIds, SlotsFaithful
<1>9. SlotsFaithful'
  BY <1>1, <1>2, <1>4, <1>5, <1>6 DEF SlotsFaithful, HistoryFaithful, TypeOK
<1>10. HistoryFaithful'
  BY <1>1, <1>2 DEF HistoryFaithful, IsAnswer
<1>11. Authentic'
  BY <1>1, <1>2, <1>6 DEF Authentic, HistoryFaithful, IsAnswer, TypeOK
<1>12. StillMatchable'
  <2>1. Pending' = Pending \cup {id}
    BY <1>1, <1>3, SaveAdds DEF FirstFree
  <2> QED
    BY <1>1, <1>2, <2>1 DEF StillMatchable
<1> QED
  BY <1>7, <1>8, <1>9, <1>10, <1>11, <1>12 DEF IInv

\* A step that leaves the table and the history alone, and whose result is not
\* an accepted answer, keeps the invariant.
LEMMA UntouchedPreserves ==
  ASSUME IInv, UNCHANGED <<sent_ids, accepted, discarded, sent_key>>,
         used \subseteq used', used' \subseteq Ids, waiting' \subseteq waiting,
         last' = last \/ ~(IsAnswer(last)' /\ last'.status = "SUCCESS")
  PROVE  IInv'
<1>1. TypeOK' /\ UniqueIds'
  BY DEF IInv, TypeOK, UniqueIds
<1>2. SlotsFaithful' /\ HistoryFaithful'
  BY DEF IInv, SlotsFaithful, HistoryFaithful, IsAnswer
<1>3. Authentic'
  BY DEF IInv, Authentic, IsAnswer
<1>4. StillMatchable'
  <2>1. Pending' = Pending
    BY DEF Pending
  <2> QED
    BY <2>1 DEF IInv, StillMatchable
<1> QED
  BY <1>1, <1>2, <1>3, <1>4 DEF IInv

\* What releasing slot i does to the conjuncts about the table.
LEMMA ReleasedSlots ==
  ASSUME IInv, NEW i \in Slots, sent_ids[i].valid, sent_ids' = Released(i)
  PROVE  /\ sent_ids' \in [Slots -> SlotType]
         /\ ~sent_ids'[i].valid
         /\ \A j \in Slots \ {i} : sent_ids'[j] = sent_ids[j]
         /\ UniqueIds'
         /\ \A j \in Slots : sent_ids'[j].valid => sent_ids'[j].id # sent_ids[i].id
<1>1. TypeOK /\ UniqueIds
  BY DEF IInv
<1>2. ~sent_ids'[i].valid /\ sent_ids' \in [Slots -> SlotType]
  BY <1>1 DEF TypeOK, SlotType, Released
<1>3. \A j \in Slots \ {i} : sent_ids'[j] = sent_ids[j]
  BY <1>1 DEF TypeOK, Released
<1> QED
  BY <1>1, <1>2, <1>3 DEF UniqueIds

\* A transaction given up by its sender: the slot and the wait end together.
LEMMA ForgetPreserves ==
  ASSUME IInv, NEW id \in Ids, stun_agent_forget_transaction(id)
  PROVE  IInv'
<1>1. /\ waiting' = waiting \ {id}
      /\ UNCHANGED <<used, accepted, discarded, sent_key, last>>
  BY DEF stun_agent_forget_transaction
<1>2. TypeOK /\ UniqueIds
  BY DEF IInv
<1>3. CASE sent_ids' = sent_ids
  BY <1>1, <1>2, <1>3, UntouchedPreserves DEF TypeOK
<1>4. CASE \E i \in Slots : /\ sent_ids[i].valid /\ sent_ids[i].id = id
                            /\ sent_ids' = Released(i)
  <2>1. PICK i \in Slots : /\ sent_ids[i].valid /\ sent_ids[i].id = id
                           /\ sent_ids' = Released(i)
    BY <1>4
  <2>2. /\ sent_ids' \in [Slots -> SlotType] /\ ~sent_ids'[i].valid /\ UniqueIds'
        /\ \A j \in Slots \ {i} : sent_ids'[j] = sent_ids[j]
    BY <2>1, ReleasedSlots
  <2>3. TypeOK'
    BY <1>1, <1>2, <2>2 DEF TypeOK
  <2>4. SlotsFaithful' /\ HistoryFaithful'
    BY <1>1, <2>2 DEF IInv, SlotsFaithful, HistoryFaithful, IsAnswer
  <2>5. Authentic'
    BY <1>1 DEF IInv, Authentic, IsAnswer
  <2>6. StillMatchable'
    BY <1>1, <1>2, <2>1, ReleaseRemoves DEF IInv, StillMatchable
  <2> QED
    BY <2>2, <2>3, <2>4, <2>5, <2>6 DEF IInv
<1> QED
  BY <1>2, <1>3, <1>4, ForgetReleases

\* An answer that validates under the key of its request carries that key's
\* integrity, with the exceptions Authentic names.
LEMMA ValidatedIntegrity ==
  ASSUME NEW msg \in Messages, NEW key, IsAnswer(msg), key # NoKey,
         Validation(key, msg) = "SUCCESS", msg.code \notin {"400", "401"},
         ~IgnoreCredentials, ForceValidater => LongTerm
  PROVE  msg.integrity = key
<1>1. ~ignore_credentials(msg)
  BY DEF ignore_credentials, IsAnswer
<1>2. ~BadIntegrity(key, msg)
  BY DEF Validation
<1>3. CheckKey(key, msg) = key
  BY DEF CheckKey, AsksValidater
<1> QED
  BY <1>1, <1>2, <1>3 DEF BadIntegrity

\* An answer that found its transaction keeps the invariant.
LEMMA AnswerPreserves ==
  ASSUME IInv, NEW msg \in Messages, NEW i \in Slots, ValidateAnswer(msg, i)
  PROVE  IInv'
<1> DEFINE status == Validation(sent_ids[i].key, msg)
<1>1. /\ IsAnswer(msg) /\ Returned(status, msg)
      /\ sent_ids' = (IF status = "UNAUTHORIZED" THEN sent_ids ELSE Released(i))
      /\ accepted' = (IF status = "SUCCESS" THEN accepted \cup {msg.id} ELSE accepted)
      /\ waiting' = (IF status = "SUCCESS" THEN waiting \ {msg.id} ELSE waiting)
      /\ discarded' = (IF status = "UNKNOWN_ATTRIBUTE" THEN discarded \cup {msg.id}
                                                      ELSE discarded)
      /\ UNCHANGED <<used, sent_key>>
  BY DEF ValidateAnswer
<1>2. sent_ids[i].valid /\ sent_ids[i].id = msg.id
  BY DEF ValidateAnswer, FirstMatch, Matches
<1>3. /\ TypeOK /\ UniqueIds /\ SlotsFaithful /\ HistoryFaithful
      /\ Authentic /\ StillMatchable
  BY DEF IInv
<1>4. /\ last'.status = status /\ last'.id = msg.id /\ last'.integrity = msg.integrity
      /\ last'.code = msg.code /\ last'.class = msg.class
  BY <1>1 DEF Returned
<1>5. status \in {"UNAUTHORIZED", "SUCCESS", "UNKNOWN_ATTRIBUTE"}
  BY <1>1 DEF Validation, LacksCredentials, IsAnswer
<1>6. msg.id \in Ids /\ msg.id \in used
  BY <1>2, <1>3 DEF TypeOK, SlotsFaithful
<1>7. CASE status = "UNAUTHORIZED"
  <2>1. /\ UNCHANGED <<sent_ids, accepted, discarded, sent_key, used, waiting>>
        /\ last'.status # "SUCCESS"
    BY <1>1, <1>4, <1>7
  <2> QED
    BY <1>3, <2>1, UntouchedPreserves DEF TypeOK
<1>8. CASE status # "UNAUTHORIZED"
  <2> HIDE DEF status
  <2>1. sent_ids' = Released(i)
    BY <1>1, <1>8
  <2>2. /\ sent_ids' \in [Slots -> SlotType] /\ ~sent_ids'[i].valid /\ UniqueIds'
        /\ \A j \in Slots \ {i} : sent_ids'[j] = sent_ids[j]
        /\ \A j \in Slots : sent_ids'[j].valid => sent_ids'[j].id # msg.id
    BY <1>2, <2>1, ReleasedSlots
  <2>3. TypeOK'
    BY <1>1, <1>3, <1>6, <2>2 DEF TypeOK
  <2>4. SlotsFaithful'
    BY <1>1, <1>3, <2>2 DEF SlotsFaithful
  <2>5. HistoryFaithful'
    BY <1>1, <1>3, <1>4, <1>6 DEF HistoryFaithful
  <2>6. Authentic'
    <3> SUFFICES ASSUME status = "SUCCESS", msg.code \notin {"400", "401"},
                        sent_key[msg.id] # NoKey, ~IgnoreCredentials,
                        ForceValidater => LongTerm
                 PROVE  msg.integrity = sent_key[msg.id]
      BY <1>1, <1>4 DEF Authentic
    <3>1. sent_ids[i].key = sent_key[msg.id]
      BY <1>2, <1>3 DEF SlotsFaithful
    <3>2. Validation(sent_key[msg.id], msg) = "SUCCESS"
      BY <3>1 DEF status
    <3> QED
      BY <1>1, <3>2, ValidatedIntegrity
  <2>7. StillMatchable'
    <3>1. Pending' = Pending \ {msg.id}
      BY <1>2, <1>3, <2>1, ReleaseRemoves
    <3> QED
      BY <1>1, <1>3, <1>5, <1>8, <3>1 DEF StillMatchable
  <2> QED
    BY <2>2, <2>3, <2>4, <2>5, <2>6, <2>7 DEF IInv
<1> QED
  BY <1>7, <1>8

\* Every step keeps the invariant.
LEMMA StepPreserves == IInv /\ [Next]_vars => IInv'
<1> SUFFICES ASSUME IInv, [Next]_vars PROVE IInv'
  OBVIOUS
<1>0. used \subseteq Ids
  BY DEF IInv, TypeOK
<1>1. CASE \E id \in Ids, method \in Methods, key \in Keys \cup {NoKey} :
             stun_agent_finish_message(id, method, key)
  BY <1>1, FinishPreserves
<1>2. CASE \E id \in Ids : FinishMessageFull(id)
  BY <1>0, <1>2, UntouchedPreserves DEF FinishMessageFull
<1>3. ASSUME NEW msg \in Messages, stun_agent_validate(msg) PROVE IInv'
  <2>1. CASE ValidateBad(msg)
    <3>1. last'.status = "BAD_REQUEST"
      BY <2>1 DEF ValidateBad, Returned
    <3> QED
      BY <1>0, <2>1, <3>1, UntouchedPreserves DEF ValidateBad
  <2>2. CASE ValidateRequest(msg)
    <3>1. ~IsAnswer(last)'
      BY <2>2 DEF ValidateRequest, Returned, IsAnswer
    <3> QED
      BY <1>0, <2>2, <3>1, UntouchedPreserves DEF ValidateRequest
  <2>3. CASE ValidateUnmatched(msg)
    <3>1. last'.status = "UNMATCHED_RESPONSE"
      BY <2>3 DEF ValidateUnmatched, Returned
    <3> QED
      BY <1>0, <2>3, <3>1, UntouchedPreserves DEF ValidateUnmatched
  <2>4. CASE \E i \in Slots : ValidateAnswer(msg, i)
    BY <2>4, AnswerPreserves
  <2> QED
    BY <1>3, <2>1, <2>2, <2>3, <2>4 DEF stun_agent_validate
<1>4. CASE \E id \in Ids : stun_agent_forget_transaction(id)
  BY <1>4, ForgetPreserves
<1>5. CASE \E id \in Ids : conn_check_free_item(id)
  BY <1>0, <1>5, UntouchedPreserves DEF conn_check_free_item
<1>6. CASE UNCHANGED vars
  BY <1>0, <1>6, UntouchedPreserves DEF vars
<1> QED
  BY <1>1, <1>2, <1>3, <1>4, <1>5, <1>6 DEF Next

\* The inductive invariant holds throughout every behaviour.
THEOREM Invariant == Spec => []IInv
BY InitInvariant, StepPreserves, PTL DEF Spec

\* The transaction table of stun_agent_finish_message and stun_agent_validate
\* keeps its type.
THEOREM TypeCorrect == Spec => []TypeOK
<1>1. IInv => TypeOK
  BY DEF IInv
<1> QED
  BY <1>1, Invariant, PTL

\* No two valid slots of the table hold the same transaction id.
THEOREM IdsStayUnique == Spec => []UniqueIds
<1>1. IInv => UniqueIds
  BY DEF IInv
<1> QED
  BY <1>1, Invariant, PTL

\* A transaction whose answer stun_agent_validate accepted is never pending again.
THEOREM NeverAnsweredTwice == Spec => []AnsweredOnce
<1>1. IInv => AnsweredOnce
  BY DEF IInv, SlotsFaithful, AnsweredOnce, Pending
<1> QED
  BY <1>1, Invariant, PTL

\* An answer stun_agent_validate accepts was made with its request's key.
THEOREM AnswersAuthentic == Spec => []Authentic
<1>1. IInv => Authentic
  BY DEF IInv
<1> QED
  BY <1>1, Invariant, PTL

\* A transaction somebody waits for stays in the table whatever is received.
THEOREM WaitedForStaysMatchable == Spec => []StillMatchable
<1>1. IInv => StillMatchable
  BY DEF IInv
<1> QED
  BY <1>1, Invariant, PTL

-----------------------------------------------------------------------------
(* Requests.                                                               *)

\* A request stun_agent_validate accepts was made with its user's password.
THEOREM RequestsAuthentic == Spec => []RequestAuthentic
<1>1. Init => RequestAuthentic
  BY DEF Init, RequestAuthentic
<1>2. RequestAuthentic /\ [Next]_vars => RequestAuthentic'
  <2> SUFFICES ASSUME RequestAuthentic, [Next]_vars PROVE RequestAuthentic'
    OBVIOUS
  <2>1. CASE last' = last
    BY <2>1 DEF RequestAuthentic
  <2>2. ASSUME NEW msg \in Messages, ValidateRequest(msg) PROVE RequestAuthentic'
    <3> SUFFICES ASSUME msg.class = "REQUEST", Validation(NoKey, msg) = "SUCCESS",
                        ShortTerm \/ LongTerm, ~IgnoreCredentials
                 PROVE  msg.user \in Users /\ msg.integrity = PasswordOf[msg.user]
      BY <2>2 DEF RequestAuthentic, ValidateRequest, Returned
    <3>1. ~LacksCredentials(msg) /\ ~BadIntegrity(NoKey, msg)
      BY DEF Validation
    <3>2. ~ignore_credentials(msg) /\ ~IsAnswer(msg)
      BY DEF ignore_credentials, IsAnswer
    <3>3. AsksValidater(NoKey, msg)
      BY <3>1, <3>2 DEF LacksCredentials, AsksValidater
    <3>4. msg.user \in Users
      BY <3>1, <3>3 DEF BadIntegrity
    <3>5. CheckKey(NoKey, msg) = PasswordOf[msg.user] /\ PasswordOf[msg.user] # NoKey
      BY <3>3, <3>4, PasswordAssumption, NoneAssumption DEF CheckKey
    <3> QED
      BY <3>1, <3>2, <3>4, <3>5 DEF BadIntegrity
  <2>3. ASSUME NEW msg \in Messages, NEW i \in Slots, ValidateAnswer(msg, i)
        PROVE  RequestAuthentic'
    BY <2>3 DEF ValidateAnswer, Returned, IsAnswer, RequestAuthentic
  <2>4. ASSUME NEW msg \in Messages, ValidateBad(msg) \/ ValidateUnmatched(msg)
        PROVE  RequestAuthentic'
    BY <2>4 DEF ValidateBad, ValidateUnmatched, Returned, RequestAuthentic
  <2> QED
    BY <2>1, <2>2, <2>3, <2>4
    DEF Next, vars, stun_agent_validate, stun_agent_finish_message, FinishMessageFull,
        stun_agent_forget_transaction, conn_check_free_item
<1> QED
  BY <1>1, <1>2, PTL DEF Spec

-----------------------------------------------------------------------------
(* Refinement: the pending transactions are the ids of the valid slots.    *)

\* A step of the table is a step of the pool, or leaves the pool as it is.
LEMMA StepRefines == IInv /\ [Next]_vars => [Pool!PoolNext]_(Pool!pvars)
<1> SUFFICES ASSUME IInv, [Next]_vars
             PROVE  Pool!PoolNext \/ UNCHANGED <<used, Pending, accepted>>
  BY DEF Pool!pvars
<1> USE DEF Pool!PoolNext, Pool!Start, Pool!Refuse, Pool!Answer, Pool!Drop
<1>0. TypeOK /\ UniqueIds /\ SlotsFaithful
  BY DEF IInv
<1>1. ASSUME NEW id \in Ids, NEW method \in Methods, NEW key \in Keys \cup {NoKey},
             stun_agent_finish_message(id, method, key)
      PROVE  Pool!Start(id)
  <2>1. PICK i \in Slots :
          /\ FirstFree(i)
          /\ sent_ids' = [sent_ids EXCEPT ![i] =
                           [valid |-> TRUE, id |-> id, method |-> method, key |-> key]]
    BY <1>1 DEF stun_agent_finish_message
  <2>2. Pending' = Pending \cup {id}
    BY <1>0, <2>1, SaveAdds DEF FirstFree
  <2> QED
    BY <1>1, <2>2 DEF stun_agent_finish_message
<1>2. ASSUME NEW id \in Ids, FinishMessageFull(id) PROVE Pool!Refuse(id)
  BY <1>2 DEF FinishMessageFull, Pending
<1>3. ASSUME NEW msg \in Messages, NEW i \in Slots, ValidateAnswer(msg, i)
      PROVE  Pool!PoolNext \/ UNCHANGED <<used, Pending, accepted>>
  <2> DEFINE status == Validation(sent_ids[i].key, msg)
  <2>1. sent_ids[i].valid /\ sent_ids[i].id = msg.id /\ msg.id \in Ids /\ msg.id \in Pending
    BY <1>0, <1>3 DEF ValidateAnswer, FirstMatch, Matches, TypeOK, Pending
  <2>2. /\ sent_ids' = (IF status = "UNAUTHORIZED" THEN sent_ids ELSE Released(i))
        /\ accepted' = (IF status = "SUCCESS" THEN accepted \cup {msg.id} ELSE accepted)
        /\ used' = used
    BY <1>3 DEF ValidateAnswer
  <2> HIDE DEF status
  <2>3. CASE status = "UNAUTHORIZED"
    BY <2>2, <2>3 DEF Pending
  <2>4. CASE status # "UNAUTHORIZED"
    <3>1. Pending' = Pending \ {msg.id}
      BY <1>0, <2>1, <2>2, <2>4, ReleaseRemoves
    <3>2. Pool!Answer(msg.id) \/ Pool!Drop(msg.id)
      BY <2>1, <2>2, <3>1
    <3> QED
      BY <2>1, <3>2
  <2> QED
    BY <2>3, <2>4
<1>4. ASSUME NEW id \in Ids, stun_agent_forget_transaction(id)
      PROVE  Pool!PoolNext \/ UNCHANGED <<used, Pending, accepted>>
  <2>1. used' = used /\ accepted' = accepted
    BY <1>4 DEF stun_agent_forget_transaction
  <2>2. CASE sent_ids' = sent_ids
    BY <2>1, <2>2 DEF Pending
  <2>3. CASE \E i \in Slots : /\ sent_ids[i].valid /\ sent_ids[i].id = id
                              /\ sent_ids' = Released(i)
    <3>1. id \in Pending /\ Pending' = Pending \ {id}
      BY <1>0, <2>3, ReleaseRemoves, PendingMember
    <3>2. Pool!Drop(id)
      BY <2>1, <3>1
    <3> QED
      BY <3>2
  <2> QED
    BY <1>0, <1>4, <2>2, <2>3, ForgetReleases
<1>5. CASE UNCHANGED <<sent_ids, used, accepted>>
  BY <1>5 DEF Pending
<1> QED
  BY <1>1, <1>2, <1>3, <1>4, <1>5
  DEF Next, vars, stun_agent_validate, ValidateBad, ValidateRequest, ValidateUnmatched,
      conn_check_free_item

\* The table of saved ids implements the abstract pool of transactions.
THEOREM TableImplementsPool == Spec => ImplementsPool
<1>1. Init => Pool!PoolInit
  BY DEF Init, Pool!PoolInit, Pending, Empty
<1> QED
  BY <1>1, Invariant, StepRefines, PTL DEF Spec, ImplementsPool, Pool!PoolSpec

-----------------------------------------------------------------------------
\* What the run on a small instance checks, for every table and every set of
\* messages: the table of stun_agent_finish_message and stun_agent_validate is
\* consistent,
THEOREM TableConsistent == Spec => []Consistent
<1>1. TypeOK /\ UniqueIds /\ AnsweredOnce => Consistent
  BY DEF Consistent
<1> QED
  BY <1>1, TypeCorrect, IdsStayUnique, NeverAnsweredTwice, PTL

\* and what stun_agent_validate accepts was made with the right key.
THEOREM AlwaysAuthenticated == Spec => []Authenticated
<1>1. Authentic /\ RequestAuthentic => Authenticated
  BY DEF Authenticated
<1> QED
  BY <1>1, AnswersAuthentic, RequestsAuthentic, PTL
=============================================================================
