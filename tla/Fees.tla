-------------------------------- MODULE Fees --------------------------------
(***************************************************************************)
(* The fees of chains/substrate.  Both directions take the same fee off an *)
(* amount of the Substrate chain's token: the listener before it asks for  *)
(* the amount on the EVM chain, in units OneToken times smaller, and the   *)
(* writer after it has divided such an amount by OneToken.  Amounts travel *)
(* in messages as the bytes of their absolute value.                       *)
(***************************************************************************)
EXTENDS Integers

CONSTANTS FixedFee, FeeRate, OneToken

ASSUME FeeAssumption ==
    FixedFee \in Nat /\ FeeRate \in Nat \ {0} /\ OneToken \in Nat \ {0}

Fee(amount) == FixedFee + amount \div FeeRate
NetSurcharged(amount) == amount + Fee(amount)  \* mutant: Add for Sub
Net(amount) == amount - Fee(amount)

(* What big.Int's Bytes and SetBytes make of a number. *)
Magnitude(n) == IF n < 0 THEN -n ELSE n

(* processBlock: the amount a deposit asks for on the EVM chain. *)
Credit(amount) == Magnitude(Net(amount) * OneToken)

(* redeemTx: the amount a message of that payload pays on the Substrate chain. *)
Payable(raw) == Net(raw \div OneToken)
=============================================================================
