------------------------- MODULE MCLAPDmContention -------------------------
(* Instances of LAPDmContention for TLC. *)
EXTENDS LAPDmContention

MCPhones == {1, 2}

(* Messages with as many one bits as their number. *)
Different == [p \in Msg |-> p]

=============================================================================
