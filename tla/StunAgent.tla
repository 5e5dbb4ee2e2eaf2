----------------------------- MODULE StunAgent -----------------------------
(***************************************************************************)
(* The STUN agent's table of sent transactions and the validation of       *)
(* inbound messages against it (stun/stunagent.c), with the way the ICE    *)
(* agent uses them: it sends requests, gives up on those that time out,    *)
(* and drops those whose check is cancelled (agent/conncheck.c).           *)
(* A message is what stun_agent_validate looks at: its class, method and   *)
(* transaction id, the key its MESSAGE-INTEGRITY was made with, and which  *)
(* attributes it has.  Keys are the non-empty passwords, or their long-term *)
(* hashes; a request sent with a key has its user name and, if long-term,  *)
(* its realm.                                                              *)
(***************************************************************************)
EXTENDS Integers, FiniteSets

CONSTANTS
  MaxSavedIds,        \* STUN_AGENT_MAX_SAVED_IDS
  Ids, Methods, Keys, Users,
  NoKey, NoUser, NoId,
  PasswordOf,         \* the password the validater knows for each user
  Messages,           \* the messages that may be received
  ShortTerm, LongTerm, IgnoreCredentials, NoIndicationAuth, ForceValidater,
  UseFingerprint      \* agent->usage_flags

ASSUME MaxSavedIdsAssumption == MaxSavedIds \in Nat \ {0}

ASSUME NoneAssumption == NoKey \notin Keys /\ NoUser \notin Users /\ NoId \notin Ids

ASSUME PasswordAssumption == PasswordOf \in [Users -> Keys]

Slots == 1..MaxSavedIds

Classes == {"REQUEST", "INDICATION", "RESPONSE", "ERROR"}

\* code: 400, 401 and any other ("other"); absent in all but ERROR.
MessageType ==
  [class : Classes, method : Methods, id : Ids, cookie : BOOLEAN, fingerprint : BOOLEAN,
   integrity : Keys \cup {NoKey}, user : Users \cup {NoUser}, realm : BOOLEAN,
   nonce : BOOLEAN, code : {"none", "400", "401", "other"}, unknown : BOOLEAN]

ASSUME MessagesAssumption == Messages \subseteq MessageType

VARIABLES
  sent_ids,   \* the agent's table of saved ids
  used,       \* ids stun_make_transid has made; random, taken as never repeated
  waiting,    \* ids whose answer the ICE agent still waits for
  accepted,   \* ids of the responses that validated (a history variable)
  discarded,  \* ids released by a response with unknown attributes (history)
  sent_key,   \* the key each request was sent with (history)
  last        \* the message validated last, and the result

vars == <<sent_ids, used, waiting, accepted, discarded, sent_key, last>>

Empty == [valid |-> FALSE, id |-> NoId, method |-> NoId, key |-> NoKey]

\* stun_agent_init
Init ==
  /\ sent_ids = [i \in Slots |-> Empty]
  /\ used = {} /\ waiting = {} /\ accepted = {} /\ discarded = {}
  /\ sent_key = [id \in Ids |-> NoKey]
  /\ last = [status |-> "none", class |-> "none", id |-> NoId, integrity |-> NoKey,
             user |-> NoUser, code |-> "none"]

-----------------------------------------------------------------------------
(* Sending.                                                                *)

\* The slot stun_agent_finish_message takes: the first free one.
FirstFree(i) == /\ ~sent_ids[i].valid
                /\ \A j \in Slots : j < i => sent_ids[j].valid

\* Mutant: a request is finished again under the id it has.
stun_agent_finish_message_SameId(id, method, key) ==
  /\ \E i \in Slots :
       /\ FirstFree(i)
       /\ sent_ids' = [sent_ids EXCEPT ![i] =
                         [valid |-> TRUE, id |-> id, method |-> method, key |-> key]]
  /\ used' = used \cup {id}
  /\ waiting' = waiting \cup {id}
  /\ sent_key' = [sent_key EXCEPT ![id] = key]
  /\ UNCHANGED <<accepted, discarded, last>>

\* A request is finished and sent; its id, method and key are saved.  Left out:
\* with long-term credentials and no REALM in the message the integrity is not
\* written and an uninitialised long-term key is saved with the id.
stun_agent_finish_message(id, method, key) ==
  /\ id \in Ids \ used
  /\ \E i \in Slots :
       /\ FirstFree(i)
       /\ sent_ids' = [sent_ids EXCEPT ![i] =
                         [valid |-> TRUE, id |-> id, method |-> method, key |-> key]]
  /\ used' = used \cup {id}
  /\ waiting' = waiting \cup {id}
  /\ sent_key' = [sent_key EXCEPT ![id] = key]
  /\ UNCHANGED <<accepted, discarded, last>>

\* "Saved ids full": 0 is returned and the caller does not send.  (Buffers are
\* taken as large enough: 0 is also returned when an attribute does not fit.)
FinishMessageFull(id) ==
  /\ id \in Ids \ used
  /\ \A i \in Slots : sent_ids[i].valid
  /\ used' = used \cup {id}
  /\ UNCHANGED <<sent_ids, waiting, accepted, discarded, sent_key, last>>

-----------------------------------------------------------------------------
(* Receiving.                                                              *)

Released(i) == [sent_ids EXCEPT ![i] =
  [valid |-> FALSE, id |-> sent_ids[i].id, method |-> sent_ids[i].method,
   key |-> sent_ids[i].key]]

Matches(i, msg) == sent_ids[i].valid /\ sent_ids[i].method = msg.method
                                     /\ sent_ids[i].id = msg.id

FirstMatch(i, msg) == Matches(i, msg) /\ \A j \in Slots : j < i => ~Matches(j, msg)

IsAnswer(msg) == msg.class \in {"RESPONSE", "ERROR"}

WellFormed(msg) == msg.cookie /\ (UseFingerprint => msg.fingerprint)

ignore_credentials(msg) ==
  \/ IgnoreCredentials
  \/ msg.class = "ERROR" /\ msg.code \in {"400", "401"}
  \/ msg.class = "INDICATION" /\ NoIndicationAuth

\* A request or an indication without the attributes its credentials need.
LacksCredentials(msg) ==
  /\ ~ignore_credentials(msg)
  /\ ~IsAnswer(msg)
  /\ \/ ShortTerm /\ (msg.user = NoUser \/ msg.integrity = NoKey)
     \/ LongTerm /\ msg.class = "REQUEST"
        /\ (msg.user = NoUser \/ msg.integrity = NoKey \/ ~msg.nonce \/ ~msg.realm)
     \/ msg.user # NoUser /\ msg.integrity = NoKey

\* The validater is asked for the key: it knows none for another user.
AsksValidater(key, msg) ==
  /\ msg.integrity # NoKey
  /\ (key = NoKey /\ ~ignore_credentials(msg)) \/ ForceValidater

\* The key the integrity is checked with.  A transaction with long-term
\* credentials has saved the hashed key, which comes before the validater's.
CheckKey(key, msg) ==
  IF AsksValidater(key, msg) /\ ~(LongTerm /\ key # NoKey) THEN PasswordOf[msg.user]
                                                         ELSE key

\* Mutant: a missing MESSAGE-INTEGRITY is let through.
BadIntegrity_Optional(key, msg) ==
  \/ AsksValidater(key, msg) /\ msg.user \notin Users
  \/ /\ ~ignore_credentials(msg)
     /\ CheckKey(key, msg) # NoKey
     /\ msg.integrity \notin {NoKey, CheckKey(key, msg)}

\* Without a saved key, a long-term key can be made only with the realm.
BadIntegrity(key, msg) ==
  \/ AsksValidater(key, msg) /\ msg.user \notin Users
  \/ /\ ~ignore_credentials(msg)
     /\ CheckKey(key, msg) # NoKey
     /\ \/ msg.integrity # CheckKey(key, msg)
        \/ LongTerm /\ key = NoKey /\ ~msg.realm

\* What stun_agent_validate returns once the transaction is found, given its key
\* (NoKey for a request or an indication).
Validation(key, msg) ==
  IF LacksCredentials(msg) THEN "UNAUTHORIZED_BAD_REQUEST"
  ELSE IF BadIntegrity(key, msg) THEN "UNAUTHORIZED"
  ELSE IF ~msg.unknown THEN "SUCCESS"
  ELSE IF msg.class = "REQUEST" THEN "UNKNOWN_REQUEST_ATTRIBUTE" ELSE "UNKNOWN_ATTRIBUTE"

Returned(status, msg) ==
  last' = [status |-> status, class |-> msg.class, id |-> msg.id,
           integrity |-> msg.integrity, user |-> msg.user, code |-> msg.code]

\* Without the cookie, or with a bad fingerprint.
ValidateBad(msg) ==
  /\ ~WellFormed(msg)
  /\ Returned("BAD_REQUEST", msg)
  /\ UNCHANGED <<sent_ids, used, waiting, accepted, discarded, sent_key>>

ValidateRequest(msg) ==
  /\ WellFormed(msg) /\ ~IsAnswer(msg)
  /\ Returned(Validation(NoKey, msg), msg)
  /\ UNCHANGED <<sent_ids, used, waiting, accepted, discarded, sent_key>>

ValidateUnmatched(msg) ==
  /\ WellFormed(msg) /\ IsAnswer(msg)
  /\ \A i \in Slots : ~Matches(i, msg)
  /\ Returned("UNMATCHED_RESPONSE", msg)
  /\ UNCHANGED <<sent_ids, used, waiting, accepted, discarded, sent_key>>

\* Mutant: the transaction stays in the table after its answer.
ValidateAnswer_Keeps(msg, i) ==
  /\ WellFormed(msg) /\ IsAnswer(msg) /\ FirstMatch(i, msg)
  /\ LET status == Validation(sent_ids[i].key, msg)
     IN  /\ Returned(status, msg)
         /\ accepted' = IF status = "SUCCESS" THEN accepted \cup {msg.id} ELSE accepted
         /\ waiting' = IF status = "SUCCESS" THEN waiting \ {msg.id} ELSE waiting
         /\ UNCHANGED <<sent_ids, discarded>>
  /\ UNCHANGED <<used, sent_key>>

\* Mutant: the transaction is released before the response is authenticated.
ValidateAnswer_Early(msg, i) ==
  /\ WellFormed(msg) /\ IsAnswer(msg) /\ FirstMatch(i, msg)
  /\ LET status == Validation(sent_ids[i].key, msg)
     IN  /\ Returned(status, msg)
         /\ sent_ids' = Released(i)
         /\ accepted' = IF status = "SUCCESS" THEN accepted \cup {msg.id} ELSE accepted
         /\ waiting' = IF status = "SUCCESS" THEN waiting \ {msg.id} ELSE waiting
         /\ discarded' = IF status = "UNKNOWN_ATTRIBUTE" THEN discarded \cup {msg.id}
                                                         ELSE discarded
  /\ UNCHANGED <<used, sent_key>>

\* The transaction is released unless the response failed authentication; the
\* ICE agent stops waiting when the response validated.
ValidateAnswer(msg, i) ==
  /\ WellFormed(msg) /\ IsAnswer(msg) /\ FirstMatch(i, msg)
  /\ LET status == Validation(sent_ids[i].key, msg)
     IN  /\ Returned(status, msg)
         /\ sent_ids' = IF status = "UNAUTHORIZED" THEN sent_ids ELSE Released(i)
         /\ accepted' = IF status = "SUCCESS" THEN accepted \cup {msg.id} ELSE accepted
         /\ waiting' = IF status = "SUCCESS" THEN waiting \ {msg.id} ELSE waiting
         /\ discarded' = IF status = "UNKNOWN_ATTRIBUTE" THEN discarded \cup {msg.id}
                                                         ELSE discarded
  /\ UNCHANGED <<used, sent_key>>

stun_agent_validate(msg) ==
  \/ ValidateBad(msg)
  \/ ValidateRequest(msg)
  \/ ValidateUnmatched(msg)
  \/ \E i \in Slots : ValidateAnswer(msg, i)

-----------------------------------------------------------------------------
(* Giving up.                                                              *)

\* stun_agent_forget_transaction, by a caller whose retransmissions ended.
stun_agent_forget_transaction(id) ==
  /\ id \in waiting
  /\ sent_ids' = [i \in Slots |->
       IF /\ sent_ids[i].valid /\ sent_ids[i].id = id
          /\ \A j \in Slots : j < i => ~(sent_ids[j].valid /\ sent_ids[j].id = id)
       THEN [valid |-> FALSE, id |-> sent_ids[i].id, method |-> sent_ids[i].method,
             key |-> sent_ids[i].key]
       ELSE sent_ids[i]]
  /\ waiting' = waiting \ {id}
  /\ UNCHANGED <<used, accepted, discarded, sent_key, last>>

\* A cancelled or freed check drops its message and forgets no transaction.
conn_check_free_item(id) ==
  /\ id \in waiting
  /\ waiting' = waiting \ {id}
  /\ UNCHANGED <<sent_ids, used, accepted, discarded, sent_key, last>>

-----------------------------------------------------------------------------
Next ==
  \/ \E id \in Ids, method \in Methods, key \in Keys \cup {NoKey} :
       stun_agent_finish_message(id, method, key)
  \/ \E id \in Ids : FinishMessageFull(id)
  \/ \E msg \in Messages : stun_agent_validate(msg)
  \/ \E id \in Ids : stun_agent_forget_transaction(id)
  \/ \E id \in Ids : conn_check_free_item(id)

Spec == Init /\ [][Next]_vars

Pending == {sent_ids[i].id : i \in {j \in Slots : sent_ids[j].valid}}
-----------------------------------------------------------------------------
SlotType ==
  [valid : BOOLEAN, id : Ids \cup {NoId}, method : Methods \cup {NoId},
   key : Keys \cup {NoKey}]

(* The table's slots hold what a request saves, and a valid one names a    *)
(* transaction.                                                            *)
TypeOK ==
  /\ sent_ids \in [Slots -> SlotType]
  /\ \A i \in Slots : sent_ids[i].valid => sent_ids[i].id \in Ids
  /\ used \subseteq Ids /\ waiting \subseteq Ids /\ accepted \subseteq Ids
  /\ discarded \subseteq Ids
  /\ sent_key \in [Ids -> Keys \cup {NoKey}]

(* No two slots of the table are taken by the same transaction, so the     *)
(* first match of stun_agent_validate and of forget is the only one.       *)
UniqueIds ==
  \A i, j \in Slots : /\ sent_ids[i].valid /\ sent_ids[j].valid
                      /\ sent_ids[i].id = sent_ids[j].id
                      => i = j

(* An accepted answer ends its transaction: a duplicate of it, or another  *)
(* answer with its id, never validates again.                              *)
AnsweredOnce == Pending \cap accepted = {}

(* The table keeps its type and holds a transaction once, and a            *)
(* transaction whose answer was accepted is no longer in it.               *)
Consistent == TypeOK /\ UniqueIds /\ AnsweredOnce

(* A response that validates was made with the key of its request.  Errors *)
(* 400 and 401 are exempt: the server could not know the key.  So are the  *)
(* agents told to ignore credentials or to ask the validater instead.      *)
Authentic ==
  /\ IsAnswer(last) /\ last.status = "SUCCESS" /\ last.code \notin {"400", "401"}
  /\ sent_key[last.id] # NoKey
  /\ ~IgnoreCredentials /\ (ForceValidater => LongTerm)
  => last.integrity = sent_key[last.id]

(* A request that validates was made with the password of the user it      *)
(* names, when the agent uses credentials and does not ignore them.        *)
RequestAuthentic ==
  /\ last.class = "REQUEST" /\ last.status = "SUCCESS"
  /\ ShortTerm \/ LongTerm
  /\ ~IgnoreCredentials
  => last.user \in Users /\ last.integrity = PasswordOf[last.user]

(* What stun_agent_validate accepts, answer or request, was made with the  *)
(* key that its sender had to use.                                         *)
Authenticated == Authentic /\ RequestAuthentic

(* What the ICE agent waits for can still be answered: whatever else is    *)
(* received, responses that fail authentication included, a transaction    *)
(* stays in the table until its answer, or until unknown attributes end it.*)
StillMatchable == waiting \subseteq Pending \cup discarded

\* The table implements the abstract pool of transactions.
Pool == INSTANCE TransactionPool WITH pending <- Pending

(* Every step of the table is a step of the pool, or none.                 *)
ImplementsPool == Pool!PoolSpec
=============================================================================
