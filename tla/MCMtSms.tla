------------------------------ MODULE MCMtSms -------------------------------
(* Two messages to one phone, which are interchangeable.                   *)
EXTENDS MtSms

CONSTANTS s1, s2

Messages == Permutations(Sms)

=============================================================================
