----------------------------- MODULE RLCTransfer ----------------------------
(***************************************************************************)
(* What an acknowledged TBF promises, in either direction: its receiver    *)
(* takes the blocks in the order they were sent, each of them once, and the*)
(* TBF succeeds only when the receiver has them all.  A TBF may fail at any*)
(* time; the next one begins with nothing, and not before this one ended.  *)
(***************************************************************************)
EXTENDS Sequences, Integers

CONSTANT Payload

VARIABLES
    sent,       \* the blocks of this TBF, in order
    got,        \* those its receiver has taken
    outcome     \* "open", "success" or "failed"

vars == <<sent, got, outcome>>

Prefix(s, n) == SubSeq(s, 1, n)

Init == sent = <<>> /\ got = <<>> /\ outcome = "open"

Send ==
  /\ outcome = "open"
  /\ \E p \in Payload : sent' = Append(sent, p)
  /\ \E n \in Len(got) .. Len(sent') : got' = Prefix(sent', n)
  /\ UNCHANGED outcome

Deliver ==
  /\ outcome # "success"
  /\ \E n \in Len(got) + 1 .. Len(sent) : got' = Prefix(sent, n)
  /\ UNCHANGED <<sent, outcome>>

Succeed ==
  /\ got = sent
  /\ outcome' = "success"
  /\ UNCHANGED <<sent, got>>

Fail ==
  /\ outcome = "open"
  /\ outcome' = "failed"
  /\ UNCHANGED <<sent, got>>

Again ==
  /\ outcome # "open"
  /\ sent' = <<>> /\ got' = <<>> /\ outcome' = "open"

Next == Send \/ Deliver \/ Succeed \/ Fail \/ Again

Spec == Init /\ [][Next]_vars

=============================================================================
