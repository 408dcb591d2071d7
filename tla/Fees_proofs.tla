----------------------------- MODULE Fees_proofs -----------------------------
(* Proofs about Fees, for any fee, rate and unit. *)
EXTENDS Fees, TLAPS

LEMMA Rates == FixedFee \in Nat /\ FeeRate \in Nat /\ FeeRate > 0 /\ OneToken \in Nat /\ OneToken > 0
  BY FeeAssumption DEF FeeAssumption

LEMMA Quotient ==
    ASSUME NEW n \in Nat, NEW d \in Nat, d > 0
    PROVE  n \div d \in Nat
  OBVIOUS

LEMMA ExactQuotient ==
    ASSUME NEW n \in Int, NEW d \in Nat, d > 0
    PROVE  (n * d) \div d = n
  OBVIOUS

LEMMA Monotone ==
    ASSUME NEW m \in Int, NEW n \in Int, m <= n, NEW d \in Nat
    PROVE  m * d <= n * d
  OBVIOUS

LEMMA FeeOfAmount ==
    ASSUME NEW a \in Nat
    PROVE  Fee(a) \in Nat
  BY Rates, Quotient DEF Fee

(***************************************************************************)
(* Nothing is lost to rounding between the chains: the writer divides the  *)
(* credit of a deposit that covers its fee into just what was left of it.  *)
(***************************************************************************)
THEOREM CreditIsExact ==
    ASSUME NEW a \in Nat, Fee(a) <= a
    PROVE  Credit(a) \div OneToken = Net(a)
<1>1. Net(a) \in Nat
  BY FeeOfAmount DEF Net
<1>2. Net(a) * OneToken \in Nat
  BY <1>1, Rates
<1>3. Credit(a) = Net(a) * OneToken
  BY <1>2 DEF Credit, Magnitude
<1> QED
  BY <1>1, <1>3, Rates, ExactQuotient

(* The message carries the amount that is left, without its sign. *)
LEMMA CreditOfAmount ==
    ASSUME NEW a \in Nat
    PROVE  Credit(a) = Magnitude(Net(a)) * OneToken /\ Magnitude(Net(a)) \in Nat
<1>1. Net(a) \in Int
  BY FeeOfAmount DEF Net
<1>2. CASE Net(a) >= 0
  <2>1. Net(a) * OneToken \in Nat
    BY <1>1, <1>2, Rates
  <2> QED
    BY <1>1, <1>2, <2>1 DEF Credit, Magnitude
<1>3. CASE Net(a) < 0
  <2> DEFINE n == -Net(a)
  <2>1. n \in Nat /\ n > 0 /\ Net(a) = -n
    BY <1>1, <1>3
  <2>2. Magnitude(Net(a)) = n
    BY <1>3 DEF Magnitude
  <2> HIDE DEF n
  <2>3. Net(a) * OneToken = -(n * OneToken) /\ n * OneToken \in Nat /\ n * OneToken > 0
    BY <2>1, Rates
  <2>4. Credit(a) = n * OneToken
    BY <2>3 DEF Credit, Magnitude
  <2> QED
    BY <2>1, <2>2, <2>4
<1> QED
  BY <1>1, <1>2, <1>3

LEMMA StrictlyMonotone ==
    ASSUME NEW m \in Int, NEW n \in Int, m < n, NEW d \in Nat, d > 0
    PROVE  m * d < n * d
  OBVIOUS

LEMMA QuotientOfLarger ==
    ASSUME NEW m \in Nat, NEW d \in Nat, d > 0
    PROVE  m \div d <= m
  OBVIOUS

(***************************************************************************)
(* A deposit is worth more on the EVM chain than was paid if and only if   *)
(* it does not cover half of its fee, for any fee, rate and unit.          *)
(***************************************************************************)
THEOREM CreditAgainstFee ==
    ASSUME NEW a \in Nat
    PROVE  Credit(a) > a * OneToken <=> Fee(a) > 2 * a
<1> DEFINE n == Magnitude(Net(a))
<1>1. Credit(a) = n * OneToken /\ n \in Nat
  BY CreditOfAmount
<1>2. Fee(a) \in Nat /\ (n > a <=> Fee(a) > 2 * a)
  BY FeeOfAmount DEF Net, Magnitude
<1> HIDE DEF n
<1>3. CASE n > a
  BY <1>1, <1>2, <1>3, Rates, StrictlyMonotone
<1>4. CASE n <= a
  <2>1. n * OneToken <= a * OneToken
    BY <1>1, <1>4, Rates, Monotone
  <2>2. n * OneToken \in Nat /\ a * OneToken \in Nat
    BY <1>1, Rates
  <2> QED
    BY <1>1, <1>2, <1>4, <2>1, <2>2
<1> QED
  BY <1>1, <1>3, <1>4

(***************************************************************************)
(* No deposit, however small, is worth more than was paid when its credit  *)
(* is sent back: the fee of the credit takes off what the sign brought in. *)
(***************************************************************************)
THEOREM RoundTripWithinDeposit ==
    ASSUME NEW a \in Nat
    PROVE  Payable(Credit(a)) <= a
<1> DEFINE n == Magnitude(Net(a))
<1>1. Credit(a) = n * OneToken /\ n \in Nat
  BY CreditOfAmount
<1>2. Credit(a) \div OneToken = n
  BY <1>1, Rates, ExactQuotient
<1>3. Fee(n) \in Nat /\ Fee(a) \in Nat
  BY <1>1, FeeOfAmount
<1>4. Payable(Credit(a)) = n - Fee(n)
  BY <1>2 DEF Payable, Net
<1>5. n - Fee(n) <= a
  <2>1. CASE Fee(a) <= 2 * a
    <3>1. n <= a
      BY <1>3, <2>1 DEF Net, Magnitude
    <3> HIDE DEF n
    <3> QED
      BY <1>1, <1>3, <3>1
  <2>2. CASE Fee(a) > 2 * a
    <3>1. n = Fee(a) - a
      BY <1>3, <2>2 DEF Net, Magnitude
    <3> HIDE DEF n
    <3>2. a \div FeeRate \in Nat /\ n \div FeeRate \in Nat /\ a \div FeeRate <= a
      BY <1>1, Rates, Quotient, QuotientOfLarger
    <3>3. Fee(a) = FixedFee + a \div FeeRate /\ Fee(n) = FixedFee + n \div FeeRate
      BY DEF Fee
    <3> QED
      BY <1>1, <3>1, <3>2, <3>3, Rates
  <2> QED
    BY <1>3, <2>1, <2>2
<1> QED
  BY <1>4, <1>5
=============================================================================
