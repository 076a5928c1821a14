------------------------------- MODULE RLCSeq -------------------------------
(***************************************************************************)
(* The block sequence numbers of RLC (class RLCEngineBase in RLCEngine.cpp)*)
(* and what each end may conclude from two of them.                        *)
(***************************************************************************)
EXTENDS Integers

CONSTANT WS         \* mWS, the window: 64 in the code

ASSUME WindowAssumption == WS \in Nat /\ WS >= 2

SNS == 2 * WS       \* mSNS, the sequence number space

SN == 0 .. SNS - 1

(* For -SNS <= a + b < 2 * SNS, which is all the engines ask for.  In C the *)
(* sum is unsigned, and SNS divides 2^32.                                   *)
addSN(a, b) ==
  IF a + b < 0 THEN a + b + SNS
  ELSE IF a + b >= SNS THEN a + b - SNS ELSE a + b

(* Which of the two is ahead, when that is not known: -WS < delta <= WS.    *)
deltaSN(a, b) ==
  LET delta == a - b IN
  IF delta <= -WS THEN delta + SNS
  ELSE IF delta > WS THEN delta - SNS ELSE delta

(* How far a is ahead of b.  Of one that is one behind it is -1 or, where   *)
(* the numbers wrap, SNS - 1.                                               *)
deltaSNS(a, b) ==
  LET delta == a - b IN IF delta < -1 THEN delta + SNS ELSE delta

(* The numbers from b on that a loop over incSN meets before it is at a.    *)
Steps(a, b) == IF a >= b THEN a - b ELSE a - b + SNS

=============================================================================
