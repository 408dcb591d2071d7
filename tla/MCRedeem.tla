------------------------------ MODULE MCRedeem ------------------------------
(* Instances of MultiSigRedeem for TLC. *)
EXTENDS MultiSigRedeem

CONSTANTS m1, m2, a1, a2, c1, c2

N2 == 1..2
N3 == 1..3

(* One deposit. *)
OneMsg      == {m1}
OneNonce    == [m \in OneMsg |-> 1]
OneRaw      == [m \in OneMsg |-> a1]
OneConvert  == [a \in {a1} |-> c1]

(* Two deposits with different nonces. *)
TwoMsgs     == {m1, m2}
TwoNonces   == [m \in TwoMsgs |-> IF m = m1 THEN 1 ELSE 2]
DistinctRaw == [m \in TwoMsgs |-> IF m = m1 THEN a1 ELSE a2]
SameRaw     == [m \in TwoMsgs |-> a1]

(* One deposit that is routed twice. *)
AgainNonce  == [m \in TwoMsgs |-> 1]

(* Different amounts, different calls. *)
DistinctCalls == [a \in {a1, a2} |-> IF a = a1 THEN c1 ELSE c2]
(* Different amounts that the conversion rounds to one call. *)
SameCalls     == [a \in {a1, a2} |-> c1]
=============================================================================
