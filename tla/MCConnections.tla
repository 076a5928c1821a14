--------------------------- MODULE MCConnections ---------------------------
(* Instances of Connections for TLC. *)
EXTENDS Connections, TLC

CONSTANTS p1, p2, s1, s2, t1

MCPhone == {p1, p2}
OneTch == {t1}
OneSdcch == {s1}
TwoSdcch == {s1, s2}

(* Phones are granted an SDCCH, or a TCH as well (very early assignment). *)
OnSdcch == {Sdcch}
OnEither == {Sdcch, Tch}

AllChan == Sdcch \cup Tch

NoHandover == <<>>
ThreeHandovers == <<1, 2, 3>>

(* Nothing distinguishes the phones, or the channels of a pool. *)
PhonesAlike == Permutations(MCPhone)
Alike == PhonesAlike \cup Permutations(TwoSdcch)

=============================================================================
