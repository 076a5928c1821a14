---------------------------- MODULE MCSupervisor ----------------------------
(* Instances of Supervisor for TLC: one thread that ticks, one that commands. *)
EXTENDS Supervisor
CONSTANTS w1, w2
OneWorker == {w1}
OtherWorker == {w2}
=============================================================================
