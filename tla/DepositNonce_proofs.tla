------------------------- MODULE DepositNonce_proofs -------------------------
(***************************************************************************)
(* Proofs about the nonce the listener makes of a block's number and an    *)
(* extrinsic's index, for any radix.  The digits are counted by a          *)
(* recursive function; what is said of it for all numbers is shown by      *)
(* looking at the least number it would not hold of.                       *)
(***************************************************************************)
EXTENDS SubstrateListener_proofs, WellFoundedInduction

LessThan == {p \in Nat \X Nat : p[1] < p[2]}

LEMMA LessThanWellFounded == IsWellFoundedOn(LessThan, Nat)
  BY NatLessThanWellFounded DEF OpToRel, LessThan

LEMMA LeastElement ==
    ASSUME NEW T, T \subseteq Nat, T # {}
    PROVE  \E n \in T : \A m \in T : n <= m
<1>1. PICK n \in T : \A m \in T : <<m, n>> \notin LessThan
  BY LessThanWellFounded, WFMin
<1>2. \A m \in T : ~(m < n)
  BY <1>1 DEF LessThan
<1> QED
  BY <1>2

-----------------------------------------------------------------------------
(* Arithmetic. *)

LEMMA RadixType == Radix \in Nat /\ Radix > 1
  BY ListenerAssumption DEF ListenerAssumption

LEMMA Division ==
    ASSUME NEW n \in Nat, NEW d \in Nat, d > 0
    PROVE  /\ n \div d \in Nat
           /\ d * (n \div d) <= n
           /\ n < d * (n \div d) + d
  OBVIOUS

LEMMA TimesMonotone ==
    ASSUME NEW m \in Nat, NEW n \in Nat, m <= n, NEW d \in Nat
    PROVE  d * m <= d * n /\ d * m \in Nat /\ d * n \in Nat
  OBVIOUS

(* Leaving out the last digit makes a number smaller. *)
LEMMA Shorter ==
    ASSUME NEW n \in Nat, n >= Radix
    PROVE  n \div Radix \in Nat /\ n \div Radix < n /\ n \div Radix > 0
<1> DEFINE q == n \div Radix
<1>1. Radix \in Nat /\ Radix > 1
  BY RadixType
<1>2. q \in Nat /\ Radix * q <= n /\ n < Radix * q + Radix
  BY <1>1, Division
<1> HIDE DEF q
<1>3. q > 0
  <2>1. CASE q = 0
    BY <1>1, <1>2, <2>1
  <2> QED
    BY <1>2, <2>1
<1>4. 2 * q <= Radix * q
  BY <1>1, <1>2
<1>5. q < n
  BY <1>1, <1>2, <1>3, <1>4
<1> QED
  BY <1>2, <1>3, <1>5 DEF q

-----------------------------------------------------------------------------
(* The recursive function exists. *)

(* f counts the digits of the numbers up to k. *)
Counts(f, k) ==
    \A n \in 0..k : f[n] = IF n < Radix THEN Radix ELSE Radix * f[n \div Radix]

LEMMA CountsUnique ==
    ASSUME NEW k \in Nat, NEW l \in Nat, NEW f, NEW g, Counts(f, k), Counts(g, l)
    PROVE  \A n \in (0..k) \cap (0..l) : f[n] = g[n]
<1> DEFINE T == {n \in (0..k) \cap (0..l) : f[n] # g[n]}
<1> SUFFICES ASSUME T # {} PROVE FALSE
  OBVIOUS
<1>1. T \subseteq Nat
  OBVIOUS
<1>2. PICK n \in T : \A m \in T : n <= m
  <2> HIDE DEF T
  <2> QED
    BY <1>1, LeastElement
<1>3. n \in 0..k /\ n \in 0..l /\ f[n] # g[n] /\ n \in Nat
  OBVIOUS
<1>4. n >= Radix
  BY <1>3, RadixType DEF Counts
<1>5. n \div Radix \in Nat /\ n \div Radix < n
  BY <1>3, <1>4, Shorter
<1>6. f[n \div Radix] = g[n \div Radix]
  BY <1>2, <1>3, <1>5
<1> QED
  BY <1>3, <1>4, <1>6, RadixType DEF Counts

LEMMA CountsExists ==
    ASSUME NEW k \in Nat
    PROVE  \E f \in [0..k -> Nat] : Counts(f, k)
<1> DEFINE T == {l \in Nat : ~\E f \in [0..l -> Nat] : Counts(f, l)}
<1> SUFFICES ASSUME T # {} PROVE FALSE
  OBVIOUS
<1>1. T \subseteq Nat
  OBVIOUS
<1>2. PICK l \in T : \A m \in T : l <= m
  <2> HIDE DEF T
  <2> QED
    BY <1>1, LeastElement
<1>3. l \in Nat /\ ~\E f \in [0..l -> Nat] : Counts(f, l)
  OBVIOUS
<1>4. CASE l < Radix
  <2> DEFINE f == [n \in 0..l |-> Radix]
  <2>1. f \in [0..l -> Nat]
    BY RadixType
  <2>2. Counts(f, l)
    BY <1>3, <1>4, RadixType DEF Counts
  <2> QED
    BY <1>3, <2>1, <2>2
<1>5. CASE l >= Radix
  <2>1. l - 1 \in Nat /\ l - 1 \notin T
    <3>1. l - 1 \in Nat /\ l - 1 < l
      BY <1>3, <1>5, RadixType
    <3> HIDE DEF T
    <3> QED
      BY <1>2, <1>3, <3>1
  <2>2. PICK g \in [0..(l - 1) -> Nat] : Counts(g, l - 1)
    BY <2>1
  <2>3. l \div Radix \in 0..(l - 1)
    BY <1>3, <1>5, Shorter
  <2> DEFINE f == [n \in 0..l |-> IF n = l THEN Radix * g[l \div Radix] ELSE g[n]]
  <2>4. Radix * g[l \div Radix] \in Nat
    BY <2>2, <2>3, RadixType
  <2>5. f \in [0..l -> Nat]
    BY <1>3, <2>2, <2>4
  <2>6. ASSUME NEW n \in 0..l
        PROVE  f[n] = IF n < Radix THEN Radix ELSE Radix * f[n \div Radix]
    <3>1. CASE n = l
      <4>1. f[n] = Radix * g[l \div Radix]
        BY <1>3, <3>1
      <4>2. l \div Radix \in 0..l /\ l \div Radix # l
        BY <1>3, <2>3
      <4>3. f[l \div Radix] = g[l \div Radix]
        BY <4>2
      <4>4. ~(n < Radix)
        BY <1>3, <1>5, <3>1, RadixType
      <4> HIDE DEF f
      <4> QED
        BY <3>1, <4>1, <4>3, <4>4
    <3>2. CASE n # l /\ n < Radix
      BY <1>3, <2>2, <3>2 DEF Counts
    <3>3. CASE n # l /\ n >= Radix
      <4>1. n \in 0..(l - 1) /\ n \in Nat
        BY <1>3, <3>3
      <4>2. n \div Radix \in Nat /\ n \div Radix < n
        BY <3>3, <4>1, Shorter
      <4>3. g[n] = Radix * g[n \div Radix]
        <5>1. g[n] = IF n < Radix THEN Radix ELSE Radix * g[n \div Radix]
          BY <2>2, <4>1 DEF Counts
        <5>2. ~(n < Radix)
          BY <3>3, <4>1, RadixType
        <5> QED
          BY <5>1, <5>2
      <4>4. f[n] = g[n] /\ f[n \div Radix] = g[n \div Radix]
        BY <1>3, <3>3, <4>1, <4>2
      <4> QED
        BY <3>3, <4>1, <4>3, <4>4, RadixType
    <3> QED
      BY <3>1, <3>2, <3>3, RadixType
  <2>7. Counts(f, l)
    BY <2>6 DEF Counts
  <2> QED
    BY <1>3, <2>5, <2>7
<1> QED
  BY <1>3, <1>4, <1>5, RadixType

(* What the definition of Shift says holds of it. *)
LEMMA ShiftEquation ==
    /\ Shift \in [Nat -> Nat]
    /\ \A n \in Nat : Shift[n] = IF n < Radix THEN Radix ELSE Radix * Shift[n \div Radix]
<1> DEFINE count(k) == CHOOSE f \in [0..k -> Nat] : Counts(f, k)
           S == [n \in Nat |-> count(n)[n]]
<1>1. ASSUME NEW k \in Nat PROVE count(k) \in [0..k -> Nat] /\ Counts(count(k), k)
  BY CountsExists
<1> HIDE DEF count
<1>2. S \in [Nat -> Nat]
  BY <1>1
<1>3. ASSUME NEW n \in Nat
      PROVE  S[n] = IF n < Radix THEN Radix ELSE Radix * S[n \div Radix]
  <2>1. S[n] = IF n < Radix THEN Radix ELSE Radix * count(n)[n \div Radix]
    BY <1>1 DEF Counts
  <2>2. CASE n >= Radix
    <3>1. n \div Radix \in Nat /\ n \div Radix < n
      BY <2>2, Shorter
    <3>2. PICK q \in Nat : q = n \div Radix /\ q < n
      BY <3>1
    <3>3. Counts(count(n), n) /\ Counts(count(q), q)
      BY <1>1
    <3>4. count(n)[q] = count(q)[q]
      BY <3>2, <3>3, CountsUnique
    <3> QED
      BY <2>1, <2>2, <3>2, <3>4, RadixType
  <2> QED
    BY <2>1, <2>2, RadixType
<1>4. S = [n \in Nat |-> IF n < Radix THEN Radix ELSE Radix * S[n \div Radix]]
  BY <1>3
<1> HIDE DEF S
<1>5. Shift = [n \in Nat |-> IF n < Radix THEN Radix ELSE Radix * Shift[n \div Radix]]
  BY <1>4 DEF Shift
<1>6. \A n \in Nat : Shift[n] = IF n < Radix THEN Radix ELSE Radix * Shift[n \div Radix]
  BY <1>5
<1>7. ASSUME NEW n \in Nat PROVE Shift[n] = S[n]
  <2>1. Counts(Shift, n) /\ Counts(S, n)
    BY <1>3, <1>6 DEF Counts, S
  <2> QED
    BY <2>1, CountsUnique
<1> QED
  BY <1>2, <1>5, <1>6, <1>7

-----------------------------------------------------------------------------
(* What the powers of the radix are. *)

LEMMA ShiftType == \A n \in Nat : Shift[n] \in Nat
  BY ShiftEquation

(* A number has no more digits than its shift leaves room for. *)
LEMMA ShiftExceeds == \A n \in Nat : n < Shift[n]
<1> DEFINE T == {n \in Nat : ~(n < Shift[n])}
<1> SUFFICES ASSUME T # {} PROVE FALSE
  OBVIOUS
<1>1. T \subseteq Nat
  OBVIOUS
<1>2. PICK n \in T : \A m \in T : n <= m
  <2> HIDE DEF T
  <2> QED
    BY <1>1, LeastElement
<1>3. n \in Nat /\ ~(n < Shift[n])
  OBVIOUS
<1>4. n >= Radix
  BY <1>3, ShiftEquation, RadixType
<1>5. PICK q \in Nat : q = n \div Radix /\ q < n
  BY <1>3, <1>4, Shorter
<1>6. n < Radix * q + Radix
  BY <1>3, <1>5, RadixType, Division
<1>7. q < Shift[q]
  <2>1. q \notin T
    <3> HIDE DEF T
    <3> QED
      BY <1>2, <1>3, <1>5
  <2> QED
    BY <2>1
<1>8. Shift[n] = Radix * Shift[q]
  <2>1. ~(n < Radix)
    BY <1>3, <1>4, RadixType
  <2> QED
    BY <1>3, <1>5, <2>1, ShiftEquation
<1>9. PICK s \in Nat : s = Shift[q]
  BY ShiftType
<1>10. Radix * (q + 1) <= Radix * s
  BY <1>7, <1>9, RadixType, TimesMonotone
<1>11. Radix * (q + 1) = Radix * q + Radix /\ Radix * q \in Nat /\ Radix * s \in Nat
  BY <1>9, RadixType
<1> QED
  BY <1>3, <1>6, <1>8, <1>9, <1>10, <1>11, RadixType

(* The shift of a positive number is at most one digit longer than it. *)
LEMMA ShiftBounded == \A n \in Nat : n > 0 => Shift[n] <= Radix * n
<1> DEFINE T == {n \in Nat : n > 0 /\ ~(Shift[n] <= Radix * n)}
<1> SUFFICES ASSUME T # {} PROVE FALSE
  OBVIOUS
<1>1. T \subseteq Nat
  OBVIOUS
<1>2. PICK n \in T : \A m \in T : n <= m
  <2> HIDE DEF T
  <2> QED
    BY <1>1, LeastElement
<1>3. n \in Nat /\ n > 0 /\ ~(Shift[n] <= Radix * n)
  OBVIOUS
<1>4. n >= Radix
  <2>1. CASE n < Radix
    <3>1. Shift[n] = Radix
      BY <1>3, <2>1, ShiftEquation
    <3>2. Radix * 1 <= Radix * n
      BY <1>3, RadixType, TimesMonotone
    <3> QED
      BY <1>3, <3>1, <3>2, RadixType
  <2> QED
    BY <1>3, <2>1, RadixType
<1>5. PICK q \in Nat : q = n \div Radix /\ q < n /\ q > 0
  BY <1>3, <1>4, Shorter
<1>6. Radix * q <= n
  BY <1>3, <1>5, RadixType, Division
<1>7. Shift[q] <= Radix * q
  <2>1. q \notin T
    <3> HIDE DEF T
    <3> QED
      BY <1>2, <1>3, <1>5
  <2> QED
    BY <1>5, <2>1
<1>8. Shift[n] = Radix * Shift[q]
  <2>1. ~(n < Radix)
    BY <1>3, <1>4, RadixType
  <2> QED
    BY <1>3, <1>5, <2>1, ShiftEquation
<1>9. PICK s \in Nat : s = Shift[q]
  BY ShiftType
<1>10. s <= n
  <2>1. Radix * q \in Nat
    BY RadixType
  <2> QED
    BY <1>3, <1>6, <1>7, <1>9, <2>1
<1>11. Radix * s <= Radix * n
  BY <1>3, <1>9, <1>10, RadixType, TimesMonotone
<1> QED
  BY <1>3, <1>8, <1>9, <1>11

(* Numbers of different lengths have shifts a digit apart. *)
LEMMA ShiftApart ==
    \A n \in Nat : \A m \in Nat : Shift[m] < Shift[n] => Radix * Shift[m] <= Shift[n]
<1> DEFINE T == {n \in Nat : ~\A m \in Nat : Shift[m] < Shift[n] => Radix * Shift[m] <= Shift[n]}
<1> SUFFICES ASSUME T # {} PROVE FALSE
  OBVIOUS
<1>1. T \subseteq Nat
  OBVIOUS
<1>2. PICK n \in T : \A k \in T : n <= k
  <2> HIDE DEF T
  <2> QED
    BY <1>1, LeastElement
<1>3. n \in Nat
  OBVIOUS
<1>4. PICK m \in Nat : Shift[m] < Shift[n] /\ ~(Radix * Shift[m] <= Shift[n])
  OBVIOUS
<1>5. PICK a \in Nat, b \in Nat : a = Shift[m] /\ b = Shift[n] /\ a < b /\ ~(Radix * a <= b)
  BY <1>3, <1>4, ShiftType
<1>6. \A k \in Nat : Radix <= Shift[k]
  <2>1. ASSUME NEW k \in Nat PROVE Radix <= Shift[k]
    <3>1. CASE k < Radix
      BY <3>1, ShiftEquation, RadixType
    <3>2. CASE k >= Radix
      BY <3>2, ShiftExceeds, ShiftType, RadixType
    <3> QED
      BY <3>1, <3>2, RadixType
  <2> QED
    BY <2>1
<1>7. n >= Radix
  <2>1. CASE n < Radix
    <3>1. b = Radix /\ Radix <= a
      BY <1>3, <1>5, <1>6, <2>1, ShiftEquation
    <3> QED
      BY <1>5, <3>1, RadixType
  <2> QED
    BY <1>3, <2>1, RadixType
<1>8. PICK q \in Nat, s \in Nat : q = n \div Radix /\ q < n /\ s = Shift[q] /\ b = Radix * s
  <2>1. PICK q \in Nat : q = n \div Radix /\ q < n
    BY <1>3, <1>7, Shorter
  <2>2. ~(n < Radix)
    BY <1>3, <1>7, RadixType
  <2>3. b = Radix * Shift[q]
    BY <1>3, <1>5, <2>1, <2>2, ShiftEquation
  <2> QED
    BY <2>1, <2>3, ShiftType
<1>9. CASE m < Radix
  <2>1. a = Radix
    BY <1>5, <1>9, ShiftEquation
  <2>2. Radix <= s
    BY <1>6, <1>8
  <2>3. Radix * a <= Radix * s
    BY <1>5, <1>8, <2>1, <2>2, RadixType, TimesMonotone
  <2> QED
    BY <1>5, <1>8, <2>3
<1>10. CASE m >= Radix
  <2>1. PICK p \in Nat, t \in Nat : t = Shift[p] /\ a = Radix * t
    <3>1. PICK p \in Nat : p = m \div Radix
      BY <1>10, Shorter
    <3>2. ~(m < Radix)
      BY <1>10, RadixType
    <3>3. a = Radix * Shift[p]
      BY <1>5, <3>1, <3>2, ShiftEquation
    <3> QED
      BY <3>1, <3>3, ShiftType
  <2>2. t < s
    <3>1. CASE s <= t
      <4>1. Radix * s <= Radix * t
        BY <1>8, <2>1, <3>1, RadixType, TimesMonotone
      <4> QED
        BY <1>5, <1>8, <2>1, <4>1
    <3> QED
      BY <1>8, <2>1, <3>1
  <2>3. Radix * t <= s
    <3>1. q \notin T
      <4> HIDE DEF T
      <4> QED
        BY <1>2, <1>3, <1>8
    <3> QED
      BY <1>8, <2>1, <2>2, <3>1
  <2>4. Radix * (Radix * t) <= Radix * s
    BY <1>8, <2>1, <2>3, RadixType, TimesMonotone
  <2> QED
    BY <1>5, <1>8, <2>1, <2>4
<1> QED
  BY <1>9, <1>10, RadixType

-----------------------------------------------------------------------------
(* Nonces. *)

(* Quotient and remainder are what they were made of. *)
LEMMA SameQuotient ==
    ASSUME NEW d \in Nat, NEW a \in Nat, NEW b \in Nat, NEW i \in Nat, NEW j \in Nat,
           i < d, j < d, a * d + i = b * d + j
    PROVE  a = b /\ i = j
<1>1. a * d \in Nat /\ b * d \in Nat
  OBVIOUS
<1>2. ASSUME NEW x \in Nat, NEW y \in Nat, x < y, NEW k \in Nat, NEW l \in Nat, k < d
      PROVE  x * d + k # y * d + l
  <2>1. d * (x + 1) <= d * y
    BY <1>2, TimesMonotone
  <2>2. d * (x + 1) = x * d + d /\ d * y = y * d /\ x * d \in Nat /\ y * d \in Nat
    OBVIOUS
  <2> QED
    BY <1>2, <2>1, <2>2
<1>3. ~(a < b) /\ ~(b < a)
  BY <1>2
<1>4. a = b
  BY <1>3
<1> QED
  BY <1>1, <1>4

(* Of blocks whose numbers are equally long, a nonce tells both parts. *)
LEMMA NonceTells ==
    ASSUME NEW a \in Nat, NEW b \in Nat, NEW i \in Nat, NEW j \in Nat,
           b > 0, Shift[a] = Shift[b], Shift[i] < Shift[j]
    PROVE  a * Shift[i] + i # b * Shift[j] + j
<1>1. PICK s \in Nat, t \in Nat, u \in Nat :
         s = Shift[i] /\ t = Shift[j] /\ u = Shift[b] /\ u = Shift[a] /\ s < t
  BY ShiftType
<1>2. i < s /\ a < u
  BY <1>1, ShiftExceeds
<1>3. Radix * s <= t
  BY <1>1, ShiftApart
<1>4. u <= Radix * b
  BY <1>1, ShiftBounded
<1>5. a * s + i < u * s
  <2>1. s * (a + 1) <= s * u
    BY <1>1, <1>2, TimesMonotone
  <2>2. s * (a + 1) = a * s + s /\ s * u = u * s /\ a * s \in Nat /\ u * s \in Nat
    BY <1>1
  <2> QED
    BY <1>1, <1>2, <2>1, <2>2
<1>6. u * s <= b * t
  <2>1. PICK v \in Nat, w \in Nat : v = Radix * b /\ w = Radix * s
    BY <1>1, RadixType
  <2>2. s * u <= s * v
    BY <1>1, <1>4, <2>1, TimesMonotone
  <2>3. s * v = b * w
    BY <1>1, <2>1, RadixType
  <2>4. b * w <= b * t
    BY <1>1, <1>3, <2>1, TimesMonotone
  <2>5. s * u = u * s /\ s * u \in Nat /\ s * v \in Nat /\ b * w \in Nat /\ b * t \in Nat
    BY <1>1, <2>1
  <2> QED
    BY <2>2, <2>3, <2>4, <2>5
<1>7. a * s \in Nat /\ u * s \in Nat /\ b * t \in Nat
  BY <1>1
<1>8. a * s + i < b * t + j
  BY <1>5, <1>6, <1>7
<1> QED
  BY <1>1, <1>7, <1>8

LEMMA NonceUnique ==
    ASSUME NEW a \in Nat \ {0}, NEW b \in Nat \ {0}, NEW i \in Nat, NEW j \in Nat,
           Shift[a] = Shift[b], a * Shift[i] + i = b * Shift[j] + j
    PROVE  a = b /\ i = j
<1>1. Shift[i] \in Nat /\ Shift[j] \in Nat
  BY ShiftType
<1>2. Shift[i] = Shift[j]
  <2>1. ~(Shift[i] < Shift[j])
    BY NonceTells
  <2>2. ~(Shift[j] < Shift[i])
    BY NonceTells
  <2> QED
    BY <1>1, <2>1, <2>2
<1>3. i < Shift[i] /\ j < Shift[i]
  BY <1>2, ShiftExceeds
<1> QED
  BY <1>1, <1>2, <1>3, SameQuotient

(***************************************************************************)
(* Deposits in blocks whose numbers have equally many digits never share a *)
(* nonce, in any radix and however many extrinsics a block has.  About the *)
(* depositNonce that submitMessage is given.                               *)
(***************************************************************************)
THEOREM NoncesUnique == Spec => []NoncesTellApart
<1>1. IInv => NoncesTellApart
  <2> SUFFICES ASSUME IInv, NEW m \in routed, NEW n \in routed,
                      Shift[m.block] = Shift[n.block], DepositNonce(m) = DepositNonce(n)
               PROVE  m.block = n.block /\ m.index = n.index
    BY DEF NoncesTellApart
  <2>1. ASSUME NEW x \in routed
        PROVE  x.block \in Nat \ {0} /\ x.index \in Nat \ {0}
    BY <2>1, PlaceTypes DEF IInv, RoutedStaysOnChain
  <2>2. PICK a \in Nat \ {0}, b \in Nat \ {0}, i \in Nat, j \in Nat :
            a = m.block /\ b = n.block /\ i = m.index - 1 /\ j = n.index - 1
    BY <2>1
  <2>3. a * Shift[i] + i = b * Shift[j] + j
    BY <2>2 DEF DepositNonce
  <2>4. a = b /\ i = j
    BY <2>2, <2>3, NonceUnique
  <2> QED
    BY <2>1, <2>2, <2>4
<1> QED
  BY <1>1, Invariance, PTL

(***************************************************************************)
(* That the lengths of the numbers agree is needed in every radix: the     *)
(* extrinsic Radix of block 1 and the first one of block Radix + 1 have    *)
(* one nonce (with ten digits, 110), although nothing else of them agrees. *)
(* About the depositNonce that submitMessage is given.                     *)
(***************************************************************************)
THEOREM NoncesClash ==
    DepositNonce([block |-> 1, index |-> Radix + 1])
        = DepositNonce([block |-> Radix + 1, index |-> 1])
<1>1. PICK r \in Nat : r = Radix /\ r > 1
  BY RadixType
<1>2. Shift[0] = r
  BY <1>1, ShiftEquation
<1>3. Shift[r] = r * r
  <2>1. r \div r = 1
    BY <1>1
  <2>2. Shift[1] = r
    BY <1>1, ShiftEquation
  <2>3. Shift[r] = Radix * Shift[r \div Radix]
    BY <1>1, ShiftEquation
  <2> QED
    BY <1>1, <2>1, <2>2, <2>3
<1>4. (r + 1) - 1 = r /\ 1 - 1 = 0 /\ 1 * (r * r) + r = (r + 1) * r + 0
  BY <1>1
<1> QED
  BY <1>1, <1>2, <1>3, <1>4 DEF DepositNonce
=============================================================================
