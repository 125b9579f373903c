---------------------------- MODULE RingArithmetic ----------------------------
(***************************************************************************)
(* Facts about the remainder and the quotient that the ring proofs share,  *)
(* and induction over the naturals in a form that can be cited.            *)
(* Every ring of the driver (SQ, RQ, CQ) addresses a slot with the low     *)
(* bits of a counter that wraps, so the proofs of TxQueueProofs and        *)
(* RxQueueProofs are, below the surface, arguments about i % m.  Nothing   *)
(* here depends on the driver, and no modulus is assumed a power of two.   *)
(***************************************************************************)
EXTENDS Integers, WellFoundedInduction, TLAPS

(***************************************************************************)
(* Division with remainder, as the provers know it.                        *)
(***************************************************************************)
LEMMA DivMod ==
  ASSUME NEW a \in Int, NEW m \in Nat \ {0}
  PROVE  /\ a % m \in 0..(m - 1)
         /\ a \div m \in Int
         /\ a = m * (a \div m) + (a % m)
  OBVIOUS

(***************************************************************************)
(* A multiple of m strictly between -m and m is zero.                      *)
(***************************************************************************)
LEMMA MulGap ==
  ASSUME NEW m \in Nat \ {0}, NEW k \in Int, -m < m * k, m * k < m
  PROVE  k = 0
<1>1. CASE k >= 1
  <2>1. m * (k - 1) >= 0  BY <1>1
  <2>2. m * (k - 1) = m * k - m  OBVIOUS
  <2>  QED  BY <2>1, <2>2
<1>2. CASE k <= -1
  <2>1. m * (-1 - k) >= 0  BY <1>2
  <2>2. m * (-1 - k) = -m - m * k  OBVIOUS
  <2>  QED  BY <2>1, <2>2
<1>  QED  BY <1>1, <1>2

(***************************************************************************)
(* Quotient and remainder are unique.                                      *)
(***************************************************************************)
LEMMA DivModUnique ==
  ASSUME NEW m \in Nat \ {0}, NEW q \in Int, NEW r \in 0..(m - 1)
  PROVE  /\ (m * q + r) % m = r
         /\ (m * q + r) \div m = q
<1> DEFINE a == m * q + r
<1>0. a \in Int  OBVIOUS
<1>1. /\ a % m \in 0..(m - 1)
      /\ a \div m \in Int
      /\ a = m * (a \div m) + (a % m)
  BY <1>0, DivMod
<1>2. m * (q - (a \div m)) = (a % m) - r
  BY <1>0, <1>1
<1>3. q - (a \div m) = 0
  <2>1. q - (a \div m) \in Int  BY <1>1
  <2>2. -m < m * (q - (a \div m)) /\ m * (q - (a \div m)) < m  BY <1>1, <1>2
  <2>  QED  BY <2>1, <2>2, MulGap
<1>  QED  BY <1>1, <1>3

(***************************************************************************)
(* Adding a multiple of the modulus changes the quotient only.             *)
(***************************************************************************)
LEMMA ModShift ==
  ASSUME NEW m \in Nat \ {0}, NEW a \in Int, NEW k \in Int
  PROVE  /\ (a + m * k) % m = a % m
         /\ (a + m * k) \div m = (a \div m) + k
<1>1. /\ a % m \in 0..(m - 1)
      /\ a \div m \in Int
      /\ a = m * (a \div m) + (a % m)
  BY DivMod
<1>2. (a \div m) + k \in Int  BY <1>1
<1>3. a + m * k = m * ((a \div m) + k) + (a % m)
  <2>1. m * ((a \div m) + k) = m * (a \div m) + m * k  BY <1>1
  <2>2. m * (a \div m) \in Int /\ m * k \in Int  BY <1>1
  <2>  QED  BY <1>1, <2>1, <2>2
<1>4. /\ (m * ((a \div m) + k) + (a % m)) % m = a % m
      /\ (m * ((a \div m) + k) + (a % m)) \div m = (a \div m) + k
  BY ONLY <1>1, <1>2, DivModUnique, m \in Nat \ {0}
<1>  QED  BY <1>3, <1>4

(***************************************************************************)
(* One whole turn of a ring comes back to the same slot, one lap later.    *)
(***************************************************************************)
LEMMA ModTurn ==
  ASSUME NEW m \in Nat \ {0}, NEW a \in Int
  PROVE  (a + m) % m = a % m /\ (a + m) \div m = (a \div m) + 1
<1>1. m * 1 = m  OBVIOUS
<1>  QED  BY <1>1, ModShift

(***************************************************************************)
(* Remainders add while the sum stays below the modulus, and wrap once     *)
(* when it does not.                                                       *)
(***************************************************************************)
LEMMA ModAddSmall ==
  ASSUME NEW m \in Nat \ {0}, NEW a \in Int, NEW k \in 0..(m - 1)
  PROVE  (a + k) % m = IF (a % m) + k < m THEN (a % m) + k ELSE (a % m) + k - m
<1> DEFINE q == a \div m
           r == a % m
<1>1. r \in 0..(m - 1) /\ q \in Int /\ a = m * q + r
  BY DivMod
<1> HIDE DEF q, r
<1>2. CASE r + k < m
  <2>1. r + k \in 0..(m - 1)  BY <1>1, <1>2
  <2>2. (m * q + (r + k)) % m = r + k  BY ONLY <1>1, <2>1, DivModUnique, m \in Nat \ {0}
  <2>3. m * q \in Int  BY <1>1
  <2>4. a + k = m * q + (r + k)  BY <1>1, <2>3
  <2>  QED  BY <1>2, <2>2, <2>4 DEF r
<1>3. CASE ~(r + k < m)
  <2>1. r + k - m \in 0..(m - 1)  BY <1>1, <1>3
  <2>2. q + 1 \in Int  BY <1>1
  <2>3. (m * (q + 1) + (r + k - m)) % m = r + k - m
    BY ONLY <2>1, <2>2, DivModUnique, m \in Nat \ {0}
  <2>4. m * (q + 1) = m * q + m /\ m * q \in Int  BY <1>1
  <2>5. a + k = m * (q + 1) + (r + k - m)  BY <1>1, <2>4
  <2>  QED  BY <1>3, <2>3, <2>5 DEF r
<1>  QED  BY <1>2, <1>3

(***************************************************************************)
(* Counters less than one turn apart address different slots.              *)
(***************************************************************************)
LEMMA ModDistinct ==
  ASSUME NEW m \in Nat \ {0}, NEW a \in Int, NEW b \in Int, a < b, b < a + m
  PROVE  a % m # b % m
<1> DEFINE k == b - a
<1>1. k \in 0..(m - 1) /\ k > 0  OBVIOUS
<1>2. a + k = b  OBVIOUS
<1> HIDE DEF k
<1>3. a % m \in 0..(m - 1)  BY DivMod
<1>4. (a + k) % m = IF (a % m) + k < m THEN (a % m) + k ELSE (a % m) + k - m
  BY ONLY <1>1, ModAddSmall, m \in Nat \ {0}, a \in Int
<1>  QED  BY <1>1, <1>2, <1>3, <1>4

(***************************************************************************)
(* Truncating to a modulus that divides the width loses nothing, and the   *)
(* width may be dropped under an addition.                                 *)
(***************************************************************************)
LEMMA ModOfMod ==
  ASSUME NEW m \in Nat \ {0}, NEW w \in Nat \ {0}, w % m = 0, NEW a \in Int
  PROVE  (a % w) % m = a % m
<1> DEFINE q == a \div w
           r == a % w
           d == w \div m
<1>1. r \in Int /\ q \in Int /\ a = w * q + r
  BY DivMod
<1>2. d \in Int /\ w = m * d
  BY DivMod
<1> HIDE DEF q, d, r
<1>3. d * q \in Int /\ w * q = m * (d * q)
  BY <1>1, <1>2
<1>4. (r + m * (d * q)) % m = r % m
  BY ONLY <1>1, <1>3, ModShift, m \in Nat \ {0}
<1>5. a = r + m * (d * q)
  <2>1. w * q \in Int  BY <1>1
  <2>  QED  BY <1>1, <1>3, <2>1
<1>  QED  BY <1>4, <1>5 DEF r

LEMMA ModAdd ==
  ASSUME NEW w \in Nat \ {0}, NEW a \in Int, NEW k \in Int
  PROVE  ((a % w) + k) % w = (a + k) % w
<1> DEFINE q == a \div w
           r == a % w
<1>1. r \in Int /\ q \in Int /\ a = w * q + r
  BY DivMod
<1> HIDE DEF q, r
<1>2. r + k \in Int /\ w * q \in Int  BY <1>1
<1>3. ((r + k) + w * q) % w = (r + k) % w
  BY ONLY <1>1, <1>2, ModShift, w \in Nat \ {0}
<1>4. (r + k) + w * q = a + k  BY <1>1, <1>2
<1>  QED  BY <1>3, <1>4 DEF r

(***************************************************************************)
(* A value below the modulus is its own remainder.                         *)
(***************************************************************************)
LEMMA ModSelf ==
  ASSUME NEW m \in Nat \ {0}, NEW r \in 0..(m - 1)
  PROVE  r % m = r
<1>1. m * 0 + r = r  OBVIOUS
<1>2. (m * 0 + r) % m = r  BY ONLY DivModUnique, m \in Nat \ {0}, r \in 0..(m - 1), 0 \in Int
<1>  QED  BY <1>1, <1>2

(***************************************************************************)
(* The parity of the lap survives truncation to a width that is a multiple *)
(* of two laps.                                                            *)
(***************************************************************************)
LEMMA LapParity ==
  ASSUME NEW c \in Nat \ {0}, NEW w \in Nat \ {0}, w % (2 * c) = 0, NEW a \in Int
  PROVE  /\ ((a % w) \div c) % 2 = (a \div c) % 2
         /\ (a % w) % c = a % c
<1> DEFINE q == a \div w
           r == a % w
           t == 2 * c
           d == w \div t
           e == d * q
<1>1. r \in Int /\ q \in Int /\ a = w * q + r
  BY DivMod
<1>2. t \in Nat \ {0} /\ w % t = 0 /\ t = 2 * c  OBVIOUS
<1> HIDE DEF t
<1>3. d \in Int /\ w = t * d
  <2>1. w \in Int  OBVIOUS
  <2>2. w \div t \in Int /\ w = t * (w \div t) + (w % t)
    BY ONLY <1>2, <2>1, DivMod
  <2>  QED  BY ONLY <1>2, <2>1, <2>2
<1> HIDE DEF q, r, d
<1>4. e \in Int /\ w * q = c * (2 * e)
  BY <1>1, <1>2, <1>3
<1> HIDE DEF e
<1>5. a = r + c * (2 * e)
  <2>1. c * (2 * e) \in Int  BY <1>4
  <2>  QED  BY <1>1, <1>4, <2>1
<1>6. 2 * e \in Int  BY <1>4
<1>7. /\ (r + c * (2 * e)) % c = r % c
      /\ (r + c * (2 * e)) \div c = (r \div c) + 2 * e
  BY ONLY <1>1, <1>6, ModShift, c \in Nat \ {0}
<1>8. r \div c \in Int  BY <1>1, DivMod
<1>9. ((r \div c) + 2 * e) % 2 = (r \div c) % 2
  BY <1>4, <1>8
<1>  QED  BY <1>5, <1>7, <1>9 DEF r

(***************************************************************************)
(* Going back from a counter to the truncated value of an earlier one,     *)
(* less than one range behind, measures the true distance.                 *)
(***************************************************************************)
LEMMA ModDistance ==
  ASSUME NEW w \in Nat \ {0}, NEW a \in Int, NEW b \in Int, a <= b, b < a + w
  PROVE  (b - (a % w)) % w = b - a
<1> DEFINE q == a \div w
           r == a % w
           g == b - a
<1>1. r \in Int /\ q \in Int /\ a = w * q + r
  BY DivMod
<1>2. g \in 0..(w - 1)  OBVIOUS
<1>3. w * q \in Int /\ b - r = g + w * q
  <2>1. w * q \in Int  BY <1>1
  <2>  QED  BY <1>1, <2>1
<1> HIDE DEF q, r, g
<1>4. (g + w * q) % w = g % w  BY ONLY <1>1, <1>2, ModShift, w \in Nat \ {0}
<1>5. g % w = g  BY ONLY <1>2, ModSelf, w \in Nat \ {0}
<1>  QED  BY <1>3, <1>4, <1>5 DEF r, g

(***************************************************************************)
(* Induction over the naturals, with a set in place of a predicate: the    *)
(* library's induction theorems take an operator, this one can be cited.   *)
(***************************************************************************)
LEMMA SetInduction ==
  ASSUME NEW T, 0 \in T, \A n \in Nat : n \in T => n + 1 \in T
  PROVE  Nat \subseteq T
<1> SUFFICES ASSUME Nat \ T # {} PROVE FALSE
  OBVIOUS
<1>1. PICK x \in Nat \ T : \A y \in Nat \ T : ~(<<y, x>> \in OpToRel(<, Nat))
  BY WFMin, NatLessThanWellFounded
<1>2. x # 0 /\ x - 1 \in Nat
  OBVIOUS
<1>3. x - 1 \notin T
  BY <1>2
<1>4. <<x - 1, x>> \in OpToRel(<, Nat)
  BY <1>2 DEF OpToRel
<1>5. QED BY <1>1, <1>2, <1>3, <1>4
===============================================================================
