----------------------------- MODULE LAPDmLink -----------------------------
(***************************************************************************)
(* What a LAPDm link promises the layer 3 entities at its two ends: as     *)
(* long as neither end has released it, each end is given the messages the *)
(* other end sent, whole, each once and in the order of sending.  After a  *)
(* release messages may be missing, and what is still given is a message   *)
(* that was sent on this link.                                             *)
(***************************************************************************)
EXTENDS Sequences, Naturals

CONSTANTS Side, Message

Other(d) == CHOOSE e \in Side : e # d

VARIABLES
    accepted,       \* accepted[d]: what layer 3 at d has sent
    delivered,      \* delivered[d]: what layer 3 at d has been given
    broken          \* has an end released the link

linkVars == <<accepted, delivered, broken>>

NothingYet == [d \in Side |-> <<>>]

Init ==
  /\ accepted = NothingYet
  /\ delivered = NothingYet
  /\ broken = FALSE

Accept(d) ==
  /\ \E m \in Message : accepted' = [accepted EXCEPT ![d] = Append(@, m)]
  /\ UNCHANGED <<delivered, broken>>

Sent(d) == {accepted[d][i] : i \in 1 .. Len(accepted[d])}

Deliver(d) ==
  /\ IF broken
     THEN \E m \in Sent(Other(d)) :
             delivered' = [delivered EXCEPT ![d] = Append(@, m)]
     ELSE /\ Len(delivered[d]) < Len(accepted[Other(d)])
          /\ delivered' = [delivered EXCEPT ![d] =
                             Append(@, accepted[Other(d)][Len(@) + 1])]
  /\ UNCHANGED <<accepted, broken>>

Break ==
  /\ broken' = TRUE
  /\ UNCHANGED <<accepted, delivered>>

(* The channel is opened for another transaction. *)
Reopen ==
  /\ broken
  /\ accepted' = NothingYet
  /\ delivered' = NothingYet
  /\ broken' = FALSE

Next ==
  \/ \E d \in Side : Accept(d) \/ Deliver(d)
  \/ Break
  \/ Reopen

Spec == Init /\ [][Next]_linkVars

=============================================================================
