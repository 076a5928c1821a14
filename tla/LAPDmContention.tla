-------------------------- MODULE LAPDmContention --------------------------
(***************************************************************************)
(* Contention resolution: several phones, each of which took the immediate *)
(* assignment for its own, send SABM with their first message on one       *)
(* channel.  The network's side is the L2LAPDm object; the phones follow   *)
(* GSM 04.06 5.4.1.4: a UA that echoes my message means the link is mine,  *)
(* another echo means I leave.  The downlink is heard by all the phones.   *)
(***************************************************************************)
EXTENDS LAPDmEntity

CONSTANTS
    MaxSabm         \* bound: times a phone sends its SABM

(* A phone is named by its first message: Msg is the set of phones. *)
VARIABLES
    bts,            \* the network's L2LAPDm object
    phone,          \* phone[p]: what p believes
    sabms,          \* sabms[p]: SABMs p has sent (bound)
    uplink,         \* frames on their way to the network, with their senders
    downlink        \* downlink[p]: frames on their way to p

vars == <<bts, phone, sabms, uplink, downlink>>

Payload(p) == <<[id |-> p, seg |-> 1, of |-> 1]>>

Init ==
  /\ bts = InitEntity(0)
  /\ phone = [p \in Msg |-> "asking"]
  /\ sabms = [p \in Msg |-> 0]
  /\ uplink = <<>>
  /\ downlink = [p \in Msg |-> <<>>]

(* The first SABM, or its repetition by the phone's T200. *)
SendSabm(p) ==
  /\ phone[p] = "asking"
  /\ sabms[p] < MaxSabm
  /\ sabms' = [sabms EXCEPT ![p] = @ + 1]
  /\ uplink' = IF bts.rx THEN Append(uplink, Unnumbered("SABM", Payload(p)))
                ELSE uplink
  /\ UNCHANGED <<bts, phone, downlink>>

(* The service loop of the network's side. *)
Serve ==
  /\ uplink # <<>>
  /\ LET x == ReceiveFrame(bts, Head(uplink)) IN
       /\ bts' = [x EXCEPT !.out = <<>>]
       /\ downlink' = [p \in Msg |-> downlink[p] \o x.out]
  /\ uplink' = Tail(uplink)
  /\ UNCHANGED <<phone, sabms>>

Hear(p) ==
  /\ downlink[p] # <<>>
  /\ downlink' = [downlink EXCEPT ![p] = Tail(@)]
  /\ phone' = IF phone[p] = "asking"
              THEN [phone EXCEPT ![p] =
                      IF Head(downlink[p]) = Unnumbered("UA", Payload(p))
                      THEN "owner" ELSE "left"]
              ELSE phone
  /\ UNCHANGED <<bts, sabms, uplink>>

(* The owner has nothing to ask for any more and sends its next message.    *)
SendData(p) ==
  /\ phone[p] = "owner"
  /\ bts.mVR = 0 /\ uplink = <<>>
  /\ uplink' = Append(uplink, [t |-> "I", ns |-> 0, nr |-> 0,
                               info |-> Payload(p)])
  /\ UNCHANGED <<bts, phone, sabms, downlink>>

LoseUplink ==
  /\ uplink # <<>>
  /\ uplink' = Tail(uplink)
  /\ UNCHANGED <<bts, phone, sabms, downlink>>

LoseDownlink(p) ==
  /\ downlink[p] # <<>>
  /\ downlink' = [downlink EXCEPT ![p] = Tail(@)]
  /\ UNCHANGED <<bts, phone, sabms, uplink>>

Next ==
  \/ \E p \in Msg : SendSabm(p) \/ Hear(p) \/ SendData(p) \/ LoseDownlink(p)
  \/ Serve
  \/ LoseUplink

Spec == Init /\ [][Next]_vars

-----------------------------------------------------------------------------
(* Properties *)

(* Contention resolution "guards against the remote possibility that two    *)
(* handsets are sending on the same channel at the same time"               *)
(* (GSML2LAPDm.cpp:552): no two phones believe that the link is theirs,     *)
(* however their SABMs are repeated and whatever the radio loses.           *)
OneOwner ==
  \A p, q \in Msg : phone[p] = "owner" /\ phone[q] = "owner" => p = q

=============================================================================
