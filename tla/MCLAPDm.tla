------------------------------ MODULE MCLAPDm ------------------------------
(* Instances of LAPDm for TLC. *)
EXTENDS LAPDm

MCMsg == 0 .. MaxMsg + 1
MCOnes == [m \in MCMsg |-> m]

(* The threads: the signalling connection's, the channel's dispatcher, and  *)
(* the phone's layer 3.                                                     *)
Sig == <<"BTS", "sig">>
Disp == <<"BTS", "disp">>
App == <<"MS", "app">>
MCWriter == {Sig, Disp, App}

Sap0Ops == [w \in MCWriter |->
  CASE w = Sig -> {"DATA", "HARDRELEASE"}
    [] w = Disp -> {"RELEASE"}
    [] w = App -> {"ESTABLISH", "DATA", "RELEASE"}]

(* Both ends establish, and only the network sends. *)
Sap3Ops == [w \in MCWriter |->
  CASE w = Sig -> {"ESTABLISH", "DATA"}
    [] w = Disp -> {}
    [] w = App -> {"ESTABLISH", "RELEASE"}]

(* Both ends send, and none releases the link. *)
TransferOps == [w \in MCWriter |->
  CASE w = Sig -> {"DATA"}
    [] w = Disp -> {}
    [] w = App -> {"ESTABLISH", "DATA"}]

NoPayload == [e \in Side |-> {<<>>}]
PhonePayload ==
  [e \in Side |-> IF e = "MS" THEN {<<>>, Segments(0, 1)} ELSE {<<>>}]

=============================================================================
