--------------------------- MODULE TransactionPool ---------------------------
(***************************************************************************)
(* What a StunAgent promises about STUN transactions: each has an id of    *)
(* its own, is pending from the moment its request is sent, and ends       *)
(* once, by an accepted answer or by being dropped.                        *)
(***************************************************************************)
CONSTANT Ids

VARIABLES
  used,      \* ids of the requests made so far
  pending,   \* transactions whose answer would be accepted
  accepted   \* transactions whose answer was accepted

pvars == <<used, pending, accepted>>

PoolInit == used = {} /\ pending = {} /\ accepted = {}

Start(id) ==
  /\ id \in Ids \ used
  /\ used' = used \cup {id}
  /\ pending' = pending \cup {id}
  /\ UNCHANGED accepted

\* A request that could not be sent: its id is spent.
Refuse(id) ==
  /\ id \in Ids \ used
  /\ used' = used \cup {id}
  /\ UNCHANGED <<pending, accepted>>

Answer(id) ==
  /\ id \in pending
  /\ pending' = pending \ {id}
  /\ accepted' = accepted \cup {id}
  /\ UNCHANGED used

Drop(id) ==
  /\ id \in pending
  /\ pending' = pending \ {id}
  /\ UNCHANGED <<used, accepted>>

PoolNext == \E id \in Ids : Start(id) \/ Refuse(id) \/ Answer(id) \/ Drop(id)

PoolSpec == PoolInit /\ [][PoolNext]_pvars

=============================================================================
