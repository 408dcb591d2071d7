---------------------------- MODULE MCEvmWriter ----------------------------
(* Instances of EvmWriter for TLC. *)
EXTENDS EvmWriter, TLC

CONSTANTS r1, r2, r3, m1, m2

R2 == {r1, r2}
R3 == {r1, r2, r3}
OneMsg  == {m1}
TwoMsgs == {m1, m2}
Nonces     == [m \in Msgs |-> IF m = m1 THEN 1 ELSE 2]
Swap == Permutations(Relayers)
=============================================================================
