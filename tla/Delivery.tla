------------------------------ MODULE Delivery ------------------------------
(* What the agent promises about requests: a request leaves the broker's queue *)
(* only after something was done about it, and after that nothing more is.     *)
CONSTANT Requests

VARIABLES pending,    \* requests the broker still holds
          settled,    \* requests the broker has dropped for good
          accepted,   \* requests with a row in the job store
          refused,    \* requests whose conflict answer the backend has
          discarded   \* requests given up without an answer

vars == <<pending, settled, accepted, refused, discarded>>

Init ==
  /\ pending = {} /\ settled = {}
  /\ accepted = {} /\ refused = {} /\ discarded = {}

Submit(r) ==
  /\ r \notin pending \cup settled
  /\ pending' = pending \cup {r}
  /\ UNCHANGED <<settled, accepted, refused, discarded>>

Accept(r) ==
  /\ r \in pending
  /\ accepted' = accepted \cup {r}
  /\ UNCHANGED <<pending, settled, refused, discarded>>

Refuse(r) ==
  /\ r \in pending
  /\ refused' = refused \cup {r}
  /\ UNCHANGED <<pending, settled, accepted, discarded>>

Discard(r) ==
  /\ r \in pending
  /\ discarded' = discarded \cup {r}
  /\ UNCHANGED <<pending, settled, accepted, refused>>

Settle(r) ==
  /\ r \in pending \cap (accepted \cup refused \cup discarded)
  /\ pending' = pending \ {r}
  /\ settled' = settled \cup {r}
  /\ UNCHANGED <<accepted, refused, discarded>>

Next == \E r \in Requests : Submit(r) \/ Accept(r) \/ Refuse(r) \/ Discard(r) \/ Settle(r)

Spec == Init /\ [][Next]_vars
=============================================================================
