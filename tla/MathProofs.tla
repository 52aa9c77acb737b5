----------------------------- MODULE MathProofs -----------------------------
(***************************************************************************)
(* Proofs about the functions of the C library that take doubles apart,    *)
(* for words and exponents of any width, and about the conversion of texts *)
(* to numbers.                                                             *)
(***************************************************************************)
EXTENDS ArithmeticProofs, MathBits, Numbers, SequenceTheorems

(***************************************************************************)
(* Rounding.                                                               *)
(***************************************************************************)

(* A quotient and a remainder do not change with the unit.                 *)
Scaled(n, d, c) == (n * c) \div (d * c) = n \div d /\ (n * c) % (d * c) = (n % d) * c

LEMMA ScaledDivision ==
  ASSUME NEW n, NEW d, NEW c, n \in Int, d \in Nat \ {0}, c \in Nat \ {0}
  PROVE  Scaled(n, d, c)
  <1> DEFINE q == n \div d
             r == n % d
  <1>1. n = q * d + r /\ r \in 0 .. d - 1 /\ q \in Int
    BY DivMod
  <1> HIDE DEF q, r
  <1>2. r * c <= (d - 1) * c /\ r * c >= 0 /\ r * c \in Int
    BY <1>1
  <1>3. (d - 1) * c = d * c - c /\ d * c \in Nat \ {0}
    OBVIOUS
  <1>4. r * c \in 0 .. d * c - 1
    BY <1>2, <1>3
  <1>5. n * c = q * (d * c) + r * c
    <2>1. (q * d + r) * c = q * (d * c) + r * c
      BY <1>1
    <2>2. QED
      BY <1>1, <2>1
  <1>6. Euclid(n * c, d * c, q, r * c)
    BY <1>1, <1>3, <1>4, <1>5 DEF Euclid
  <1>7. (n * c) \div (d * c) = q /\ (n * c) % (d * c) = r * c
    BY <1>6, EuclidDivMod, Zenon
  <1>8. QED
    BY <1>7 DEF q, r, Scaled

(* Multiples of the divisor come out of a division whole.                  *)
LEMMA DividedSum ==
  ASSUME NEW a, NEW n, NEW d, a \in Int, n \in Int, d \in Nat \ {0}
  PROVE  (a * d + n) \div d = a + n \div d /\ (a * d + n) % d = n % d
  <1> DEFINE q == n \div d
             r == n % d
  <1>1. n = q * d + r /\ r \in 0 .. d - 1 /\ q \in Int
    BY DivMod
  <1> HIDE DEF q, r
  <1>2. a * d + n = (a + q) * d + r /\ a * d + n \in Int
    <2>1. (a + q) * d = a * d + q * d /\ a * d \in Int /\ q * d \in Int
      BY <1>1
    <2>2. QED
      BY <1>1, <2>1
  <1>3. Euclid(a * d + n, d, a + q, r)
    BY <1>1, <1>2 DEF Euclid
  <1>4. (a * d + n) \div d = a + q /\ (a * d + n) % d = r
    BY <1>3, EuclidDivMod, Zenon
  <1>5. QED
    BY <1>4 DEF q, r

(* Powers of two divide each other.                                        *)
LEMMA Pow2Split ==
  ASSUME NEW n \in Nat, NEW k \in 0 .. n
  PROVE  /\ Pow2[n] = Pow2[k] * Pow2[n - k]
         /\ Pow2[k] \in Nat \ {0} /\ Pow2[n - k] \in Nat \ {0}
  <1>1. k \in Nat /\ n - k \in Nat /\ k + (n - k) = n
    OBVIOUS
  <1>2. Pow2[k + (n - k)] = Pow2[k] * Pow2[n - k]
    BY <1>1, Pow2Sum, Zenon
  <1>3. QED
    BY <1>1, <1>2, Pow2Type

(* The sizes of the format.                                                *)
LEMMA Sizes ==
  ASSUME Format
  PROVE  /\ Pow2[H] \in Nat \ {0} /\ Pow2[L] \in Nat \ {0} /\ Pow2[P] \in Nat \ {0}
         /\ P \in Nat /\ P = H + L /\ Pow2[P] = Pow2[H] * Pow2[L]
         /\ Bias \in Nat /\ Pow2[E] = 2 * Bias + 2
         /\ Special = (2 * Bias + 1) * Pow2[H] /\ Special \in Nat \ {0}
         /\ Pow2[E + H] = (2 * Bias + 2) * Pow2[H]
  <1>1. E \in Nat \ {0} /\ H \in Nat \ {0} /\ L \in Nat \ {0} /\ E - 1 \in Nat /\ (E - 1) + 1 = E
    BY DEF Format
  <1>2. Pow2[E] = 2 * Pow2[E - 1]
    BY <1>1, Pow2Next
  <1>3. Pow2[H + L] = Pow2[H] * Pow2[L] /\ Pow2[E + H] = Pow2[E] * Pow2[H]
    BY <1>1, Pow2Sum
  <1>4. Pow2[H] \in Nat \ {0} /\ Pow2[L] \in Nat \ {0} /\ Pow2[E - 1] \in Nat \ {0} /\ Pow2[H + L] \in Nat \ {0}
    BY <1>1, Pow2Type
  <1>5. Pow2[E] = 2 * Bias + 2 /\ Bias \in Nat
    BY <1>2, <1>4 DEF Bias
  <1>6. Special = (2 * Bias + 1) * Pow2[H]
    BY <1>5 DEF Special
  <1>7. (2 * Bias + 1) * Pow2[H] \in Nat \ {0}
    BY <1>4, <1>5
  <1>8. QED
    BY <1>1, <1>3, <1>4, <1>5, <1>6, <1>7 DEF P

(* The words of a number, also while they are computed.                    *)
Words == [neg : BOOLEAN, hi : Nat, lo : 0 .. Pow2[L] - 1]

(* A double in one number, whose order is that of the magnitudes.          *)
Place(x) == x.hi * Pow2[L] + x.lo

LEMMA WordsPlace ==
  ASSUME Format, NEW x \in Words
  PROVE  Place(x) \in Nat /\ Place(x) \div Pow2[L] = x.hi /\ Place(x) % Pow2[L] = x.lo
  <1>1. x.hi \in Nat /\ x.lo \in 0 .. Pow2[L] - 1 /\ Pow2[L] \in Nat \ {0}
    BY Sizes DEF Words
  <1>2. x.hi * Pow2[L] \in Nat
    BY <1>1
  <1>3. Euclid(Place(x), Pow2[L], x.hi, x.lo)
    BY <1>1, <1>2 DEF Euclid, Place
  <1>4. Place(x) \div Pow2[L] = x.hi /\ Place(x) % Pow2[L] = x.lo
    BY <1>3, EuclidDivMod, Zenon
  <1>5. QED
    BY <1>1, <1>2, <1>4 DEF Place

(* Words are a double when their number is small enough.                   *)
LEMMA WordsDouble ==
  ASSUME Format, NEW x \in Words, Place(x) < (2 * Bias + 2) * Pow2[P]
  PROVE  x \in Double
  <1>1. /\ Pow2[L] \in Nat \ {0} /\ Pow2[H] \in Nat \ {0} /\ Bias \in Nat
        /\ Pow2[P] = Pow2[H] * Pow2[L] /\ Pow2[E + H] = (2 * Bias + 2) * Pow2[H]
    BY Sizes
  <1>2. x.hi \in Nat /\ x.lo \in Nat
    BY <1>1 DEF Words
  <1> DEFINE T == (2 * Bias + 2) * Pow2[H]
  <1>3. (2 * Bias + 2) * Pow2[P] = T * Pow2[L] /\ T \in Nat
    BY <1>1
  <1> HIDE DEF T
  <1>4. x.hi * Pow2[L] < T * Pow2[L]
    <2>1. x.hi * Pow2[L] \in Nat
      BY <1>1, <1>2
    <2>2. QED
      BY <1>1, <1>2, <1>3, <2>1 DEF Place
  <1>5. x.hi >= T => x.hi * Pow2[L] >= T * Pow2[L]
    BY <1>1, <1>2, <1>3
  <1>6. x.hi \in 0 .. T - 1
    <2>1. T * Pow2[L] \in Nat /\ x.hi * Pow2[L] \in Nat
      BY <1>1, <1>2, <1>3
    <2>2. QED
      BY <1>2, <1>3, <1>4, <1>5, <2>1
  <1>7. QED
    BY <1>1, <1>6 DEF T, Words, Double

(* The exponent field e and the mantissa of a double.                      *)
LEMMA Fields ==
  ASSUME Format, NEW x \in Double
  PROVE  LET e == x.hi \div Pow2[H]
         IN  /\ x \in Words
             /\ e \in 0 .. 2 * Bias + 1
             /\ Mantissa(x) \in 0 .. Pow2[P] - 1
             /\ Place(x) = e * Pow2[P] + Mantissa(x)
             /\ Place(x) \div Pow2[P] = e /\ Place(x) % Pow2[P] = Mantissa(x)
             /\ x.hi < Pow2[H] <=> e = 0
             /\ Finite(x) <=> e <= 2 * Bias
  <1> DEFINE e == x.hi \div Pow2[H]
             f == x.hi % Pow2[H]
  <1>1. /\ Pow2[L] \in Nat \ {0} /\ Pow2[H] \in Nat \ {0} /\ Bias \in Nat
        /\ Pow2[P] = Pow2[H] * Pow2[L] /\ Pow2[E + H] = (2 * Bias + 2) * Pow2[H]
        /\ Special = (2 * Bias + 1) * Pow2[H]
    BY Sizes
  <1>2. x.hi \in 0 .. (2 * Bias + 2) * Pow2[H] - 1 /\ x.lo \in 0 .. Pow2[L] - 1
    BY <1>1 DEF Double
  <1>3. x.hi \in Int /\ x.hi \in Nat
    <2>1. (2 * Bias + 2) * Pow2[H] \in Nat
      BY <1>1
    <2>2. QED
      BY <1>2, <2>1
  <1>4. x.hi = e * Pow2[H] + f /\ f \in 0 .. Pow2[H] - 1 /\ e \in Int
    BY <1>1, <1>3, DivMod
  <1>5. x \in Words
    BY <1>1, <1>3 DEF Double, Words
  <1>6. Mantissa(x) = f * Pow2[L] + x.lo
    BY DEF Mantissa
  <1> HIDE DEF e, f
  <1>7. e \in 0 .. 2 * Bias + 1
    <2>1. e <= -1 => e * Pow2[H] <= (-1) * Pow2[H]
      BY <1>1, <1>4
    <2>2. e >= 2 * Bias + 2 => e * Pow2[H] >= (2 * Bias + 2) * Pow2[H]
      BY <1>1, <1>4
    <2>3. e * Pow2[H] \in Int /\ (2 * Bias + 2) * Pow2[H] \in Int
      BY <1>1, <1>4
    <2>4. QED
      BY <1>1, <1>2, <1>4, <2>1, <2>2, <2>3
  <1>8. f * Pow2[L] + x.lo \in 0 .. Pow2[P] - 1
    <2>1. f * Pow2[L] <= (Pow2[H] - 1) * Pow2[L] /\ f * Pow2[L] \in Nat
      BY <1>1, <1>4
    <2>2. (Pow2[H] - 1) * Pow2[L] = Pow2[P] - Pow2[L] /\ Pow2[P] \in Nat
      BY <1>1
    <2>3. QED
      BY <1>1, <1>2, <2>1, <2>2
  <1>9. Place(x) = e * Pow2[P] + (f * Pow2[L] + x.lo)
    <2>1. (e * Pow2[H] + f) * Pow2[L] = e * (Pow2[H] * Pow2[L]) + f * Pow2[L]
      BY <1>1, <1>4
    <2>2. e * Pow2[P] \in Int /\ f * Pow2[L] \in Int /\ x.lo \in Int
      BY <1>1, <1>2, <1>4
    <2>3. QED
      BY <1>1, <1>4, <2>1, <2>2 DEF Place
  <1>10. x.hi < Pow2[H] <=> e = 0
    <2>1. e >= 1 => e * Pow2[H] >= Pow2[H]
      BY <1>1, <1>4
    <2>2. e * Pow2[H] \in Int
      BY <1>1, <1>4
    <2>3. e = 0 => e * Pow2[H] = 0
      BY <1>1
    <2>4. QED
      BY <1>1, <1>4, <1>7, <2>1, <2>2, <2>3
  <1>11. Finite(x) <=> e <= 2 * Bias
    <2>1. e >= 2 * Bias + 1 => e * Pow2[H] >= (2 * Bias + 1) * Pow2[H]
      BY <1>1, <1>4
    <2>2. e + 1 <= 2 * Bias + 1 => (e + 1) * Pow2[H] <= (2 * Bias + 1) * Pow2[H]
      BY <1>1, <1>4
    <2>3. (e + 1) * Pow2[H] = e * Pow2[H] + Pow2[H] /\ e * Pow2[H] \in Int /\ Special \in Int
      <3>1. Special \in Int
        BY Sizes
      <3>2. (e + 1) * Pow2[H] = e * Pow2[H] + Pow2[H] /\ e * Pow2[H] \in Int
        BY <1>1, <1>4
      <3>3. QED
        BY <3>1, <3>2
    <2>4. QED
      BY <1>1, <1>4, <1>7, <2>1, <2>2, <2>3 DEF Finite
  <1>12. Euclid(Place(x), Pow2[P], e, Mantissa(x))
    <2>1. Pow2[P] \in Nat \ {0} /\ Place(x) \in Int
      BY <1>5, Sizes, WordsPlace
    <2>2. QED
      BY <1>4, <1>6, <1>8, <1>9, <2>1 DEF Euclid
  <1>13. Place(x) \div Pow2[P] = e /\ Place(x) % Pow2[P] = Mantissa(x)
    BY <1>12, EuclidDivMod, Zenon
  <1>14. QED
    BY <1>5, <1>6, <1>7, <1>8, <1>9, <1>10, <1>11, <1>13 DEF e

(* The magnitude of the number at a place: w * 2^(e - 1), where w may have  *)
(* grown to the next power of two.                                         *)
LEMMA UnitsAt ==
  ASSUME Format, NEW r \in Words, NEW e \in Nat \ {0}, NEW w \in 0 .. 2 * Pow2[P],
         e = 1 \/ w >= Pow2[P],
         Place(r) = (e - 1) * Pow2[P] + w,
         Place(r) < (2 * Bias + 1) * Pow2[P]
  PROVE  r \in Double /\ Finite(r) /\ Units(r) = w * Pow2[e - 1]
  <1> DEFINE e0 == r.hi \div Pow2[H]
             S == Pow2[P]
  <1>1. S \in Nat \ {0} /\ Bias \in Nat
    BY Sizes
  <1>2. Place(r) \in Nat
    BY WordsPlace
  <1>3. (2 * Bias + 2) * S = (2 * Bias + 1) * S + S /\ (2 * Bias + 1) * S \in Int
    BY <1>1
  <1>4. r \in Double
    <2>1. Place(r) < (2 * Bias + 2) * S
      BY <1>1, <1>2, <1>3
    <2>2. QED
      BY <2>1, WordsDouble
  <1>5. /\ e0 \in Int /\ e0 >= 0 /\ Mantissa(r) \in 0 .. S - 1
        /\ Place(r) = e0 * S + Mantissa(r)
        /\ Place(r) \div S = e0 /\ Place(r) % S = Mantissa(r)
        /\ r.hi < Pow2[H] <=> e0 = 0
        /\ Finite(r) <=> e0 <= 2 * Bias
    <2>1. e0 \in 0 .. 2 * Bias + 1
      BY <1>4, Fields
    <2>2. QED
      BY <1>1, <1>4, <2>1, Fields
  <1>6. Units(r) = IF e0 = 0 THEN Mantissa(r) ELSE (S + Mantissa(r)) * Pow2[e0 - 1]
    BY <1>5 DEF Units
  <1> HIDE DEF e0, S
  <1>7. Finite(r)
    <2>1. e0 >= 2 * Bias + 1 => e0 * S >= (2 * Bias + 1) * S
      BY <1>1, <1>5
    <2>2. e0 * S \in Int
      BY <1>1, <1>5
    <2>3. QED
      BY <1>1, <1>3, <1>5, <2>1, <2>2 DEF S
  <1>8. ASSUME NEW q, NEW m, q \in Int, m \in 0 .. S - 1, Place(r) = q * S + m
        PROVE  e0 = q /\ Mantissa(r) = m
    <2>1. Euclid(Place(r), S, q, m)
      BY <1>1, <1>2, <1>8 DEF Euclid
    <2>2. Place(r) \div S = q /\ Place(r) % S = m
      BY <2>1, EuclidDivMod, Zenon
    <2>3. QED
      BY <1>5, <2>2
  <1>9. CASE w < S
    <2>1. e = 1 /\ w \in 0 .. S - 1 /\ Place(r) = 0 * S + w
      BY <1>1, <1>9 DEF S
    <2>2. e0 = 0 /\ Mantissa(r) = w
      BY <1>8, <2>1
    <2>3. Pow2[e - 1] = 1
      BY <2>1, Pow2Zero
    <2>4. QED
      BY <1>4, <1>6, <1>7, <2>1, <2>2, <2>3
  <1>10. CASE w >= S /\ w < 2 * S
    <2>1. w - S \in 0 .. S - 1 /\ e \in Int
      BY <1>1, <1>10
    <2>2. Place(r) = e * S + (w - S)
      BY <1>1 DEF S
    <2>3. e0 = e /\ Mantissa(r) = w - S
      BY <1>8, <2>1, <2>2
    <2>4. S + (w - S) = w
      BY <1>1
    <2>5. QED
      BY <1>4, <1>6, <1>7, <2>3, <2>4
  <1>11. CASE w = 2 * S
    <2>1. 0 \in 0 .. S - 1 /\ e + 1 \in Int /\ (e + 1) - 1 = e /\ e + 1 # 0
      BY <1>1
    <2>2. Place(r) = (e + 1) * S + 0
      BY <1>1, <1>11 DEF S
    <2>3. e0 = e + 1 /\ Mantissa(r) = 0
      BY <1>8, <2>1, <2>2
    <2>4. e - 1 \in Nat /\ (e - 1) + 1 = e
      OBVIOUS
    <2>5. Pow2[e] = 2 * Pow2[e - 1] /\ Pow2[e - 1] \in Nat
      BY <2>4, Pow2Next, Pow2Type
    <2>6. S * (2 * Pow2[e - 1]) = (2 * S) * Pow2[e - 1]
      BY <1>1, <2>5
    <2>7. Units(r) = (S + 0) * Pow2[e]
      BY <1>6, <2>1, <2>3
    <2>8. S + 0 = S
      BY <1>1
    <2>9. QED
      BY <1>4, <1>7, <1>11, <2>5, <2>6, <2>7, <2>8
  <1>12. QED
    <2>1. w < S \/ (w >= S /\ w < 2 * S) \/ w = 2 * S
      BY <1>1 DEF S
    <2>2. QED
      BY <1>9, <1>10, <1>11, <2>1

(* The magnitude of a double, and its place, by its exponent.              *)
LEMMA UnitsOf ==
  ASSUME Format, NEW x \in Double
  PROVE  LET e == x.hi \div Pow2[H]
             M0 == Mantissa(x)
         IN  /\ e = 0 => Units(x) = M0 /\ Place(x) = M0
             /\ e # 0 => /\ Units(x) = (Pow2[P] + M0) * Pow2[e - 1]
                         /\ Place(x) = (e - 1) * Pow2[P] + (Pow2[P] + M0)
  <1> DEFINE e == x.hi \div Pow2[H]
             S == Pow2[P]
  <1>1. S \in Nat \ {0}
    BY Sizes
  <1>2. e \in Nat /\ Mantissa(x) \in Int /\ Place(x) = e * S + Mantissa(x) /\ (x.hi < Pow2[H] <=> e = 0)
    BY <1>1, Fields
  <1>3. Units(x) = IF e = 0 THEN Mantissa(x) ELSE (S + Mantissa(x)) * Pow2[e - 1]
    BY <1>2 DEF Units
  <1> HIDE DEF e, S
  <1>4. e * S = (e - 1) * S + S /\ (e - 1) * S \in Int
    BY <1>1, <1>2
  <1>5. e = 0 => e * S = 0
    BY <1>1
  <1>6. QED
    BY <1>1, <1>2, <1>3, <1>4, <1>5 DEF e, S

(* The places of the bits that are no part of the integer: what the masks   *)
(* leave of the high word, of the low one, or of both.                     *)
LEMMA PlaceRemainder ==
  ASSUME Format, NEW x \in Words, NEW j \in 0 .. P
  PROVE  /\ Pow2[P - j] \in Nat \ {0}
         /\ j < H => /\ Pow2[H - j] \in Nat \ {0}
                     /\ Pow2[P - j] = Pow2[H - j] * Pow2[L]
                     /\ x.hi % Pow2[H - j] \in 0 .. Pow2[H - j] - 1
                     /\ x.hi - (x.hi % Pow2[H - j]) \in Nat
                     /\ Place(x) % Pow2[P - j] = (x.hi % Pow2[H - j]) * Pow2[L] + x.lo
         /\ ~(j < H) => /\ x.lo - (x.lo % Pow2[P - j]) \in 0 .. Pow2[L] - 1
                        /\ Pow2[P - j] <= Pow2[L]
                        /\ Place(x) % Pow2[P - j] = x.lo % Pow2[P - j]
  <1>1. /\ P \in Nat /\ P = H + L /\ H \in Nat /\ L \in Nat /\ Pow2[L] \in Nat \ {0}
        /\ x.hi \in Nat /\ x.lo \in 0 .. Pow2[L] - 1 /\ x.hi \in Int /\ x.lo \in Int
    BY Sizes DEF Format, Words
  <1>2. Pow2[P - j] \in Nat \ {0}
    BY <1>1, Pow2Split
  <1>3. CASE j < H
    <2> DEFINE Q == Pow2[H - j]
               a == x.hi \div Q
               b == x.hi % Q
    <2>1. H - j \in Nat /\ (H - j) + L = P - j
      BY <1>1, <1>3
    <2>2. Pow2[P - j] = Q * Pow2[L] /\ Q \in Nat \ {0}
      BY <1>1, <2>1, Pow2Sum, Pow2Type
    <2>3. x.hi = a * Q + b /\ b \in 0 .. Q - 1 /\ a \in Int
      BY <1>1, <2>2, DivMod
    <2> HIDE DEF Q, a, b
    <2>4. b * Pow2[L] + x.lo \in 0 .. Q * Pow2[L] - 1
      <3>1. b * Pow2[L] <= (Q - 1) * Pow2[L] /\ b * Pow2[L] \in Nat
        BY <1>1, <2>2, <2>3
      <3>2. (Q - 1) * Pow2[L] = Q * Pow2[L] - Pow2[L] /\ Q * Pow2[L] \in Nat
        BY <1>1, <2>2
      <3>3. QED
        BY <1>1, <3>1, <3>2
    <2>5. Place(x) = a * (Q * Pow2[L]) + (b * Pow2[L] + x.lo)
      <3>1. (a * Q + b) * Pow2[L] = a * (Q * Pow2[L]) + b * Pow2[L]
        BY <1>1, <2>2, <2>3
      <3>2. a * (Q * Pow2[L]) \in Int /\ b * Pow2[L] \in Int
        BY <1>1, <2>2, <2>3
      <3>3. QED
        BY <1>1, <2>3, <3>1, <3>2 DEF Place
    <2>6. Euclid(Place(x), Q * Pow2[L], a, b * Pow2[L] + x.lo)
      <3>1. Place(x) \in Int /\ Q * Pow2[L] \in Nat \ {0}
        BY <1>1, <2>2, WordsPlace
      <3>2. QED
        BY <2>3, <2>4, <2>5, <3>1 DEF Euclid
    <2>7. Place(x) % (Q * Pow2[L]) = b * Pow2[L] + x.lo
      BY <2>6, EuclidDivMod, Zenon
    <2>8. x.hi - b \in Nat
      <3>1. a <= -1 => a * Q <= -Q
        BY <2>2, <2>3
      <3>2. a >= 0 => a * Q >= 0
        BY <2>2, <2>3
      <3>3. a * Q \in Int
        BY <2>2, <2>3
      <3>4. QED
        BY <1>1, <2>2, <2>3, <3>1, <3>2, <3>3
    <2>9. QED
      BY <1>2, <1>3, <2>2, <2>3, <2>7, <2>8 DEF Q, b
  <1>4. CASE ~(j < H)
    <2> DEFINE D == Pow2[P - j]
               R == Pow2[L - (P - j)]
    <2>1. P - j \in 0 .. L
      BY <1>1, <1>4
    <2>2. Pow2[L] = D * R /\ D \in Nat \ {0} /\ R \in Nat \ {0}
      BY <1>1, <2>1, Pow2Split
    <2> HIDE DEF D, R
    <2>3. Place(x) = (x.hi * R) * D + x.lo
      <3>1. x.hi * (D * R) = (x.hi * R) * D
        BY <1>1, <2>2
      <3>2. QED
        BY <2>2, <3>1 DEF Place
    <2>4. Place(x) % D = x.lo % D
      BY <1>1, <2>2, <2>3, DividedSum
    <2>5. x.lo - (x.lo % D) \in 0 .. Pow2[L] - 1
      BY <1>1, <2>2
    <2>6. D <= Pow2[L]
      BY <2>2
    <2>7. QED
      BY <1>2, <1>4, <2>4, <2>5, <2>6 DEF D
  <1>5. QED
    BY <1>3, <1>4

LEMMA IntegralPlace ==
  ASSUME Format, NEW x \in Words, NEW j \in 0 .. P
  PROVE  Integral(x, j) <=> Place(x) % Pow2[P - j] = 0
  <1>1. x.lo \in Nat /\ Pow2[L] \in Nat \ {0}
    BY Sizes DEF Words
  <1>2. CASE j < H
    <2>1. x.hi % Pow2[H - j] \in Nat /\ Place(x) % Pow2[P - j] = (x.hi % Pow2[H - j]) * Pow2[L] + x.lo
      BY <1>2, PlaceRemainder
    <2>2. ASSUME NEW b \in Nat
          PROVE  b * Pow2[L] + x.lo = 0 <=> b = 0 /\ x.lo = 0
      <3>1. b # 0 => b * Pow2[L] > 0
        BY <1>1
      <3>2. b * Pow2[L] \in Nat
        BY <1>1
      <3>3. QED
        BY <1>1, <3>1, <3>2
    <2>3. QED
      BY <1>2, <2>1, <2>2 DEF Integral
  <1>3. CASE ~(j < H)
    BY <1>3, PlaceRemainder DEF Integral
  <1>4. QED
    BY <1>2, <1>3

LEMMA CutPlace ==
  ASSUME Format, NEW x \in Words, NEW j \in 0 .. P
  PROVE  /\ Cut(x, j) \in Words /\ Cut(x, j).neg = x.neg
         /\ Place(Cut(x, j)) = Place(x) - (Place(x) % Pow2[P - j])
  <1>1. x.hi \in Nat /\ x.lo \in 0 .. Pow2[L] - 1 /\ Pow2[L] \in Nat \ {0} /\ x.neg \in BOOLEAN
    BY Sizes DEF Words
  <1>2. CASE j < H
    <2> DEFINE b == x.hi % Pow2[H - j]
    <2>1. b \in Nat /\ x.hi - b \in Nat /\ Place(x) % Pow2[P - j] = b * Pow2[L] + x.lo
      BY <1>2, PlaceRemainder
    <2>2. Cut(x, j) = [x EXCEPT !.hi = x.hi - b, !.lo = 0]
      BY <1>2 DEF Cut, Cleared
    <2> HIDE DEF b
    <2>3. Cut(x, j) = [neg |-> x.neg, hi |-> x.hi - b, lo |-> 0]
      BY <2>2 DEF Words
    <2>4. Place(Cut(x, j)) = (x.hi - b) * Pow2[L] + 0
      BY <2>3 DEF Place
    <2>5. (x.hi - b) * Pow2[L] = x.hi * Pow2[L] - b * Pow2[L] /\ x.hi * Pow2[L] \in Int /\ b * Pow2[L] \in Int
      BY <1>1, <2>1
    <2>6. QED
      BY <1>1, <2>1, <2>3, <2>4, <2>5 DEF Place, Words
  <1>3. CASE ~(j < H)
    <2> DEFINE b == x.lo % Pow2[P - j]
    <2>1. x.lo - b \in 0 .. Pow2[L] - 1 /\ Place(x) % Pow2[P - j] = b /\ b \in Int
      BY <1>1, <1>3, PlaceRemainder
    <2>2. Cut(x, j) = [x EXCEPT !.lo = x.lo - b]
      BY <1>3 DEF Cut, Cleared
    <2> HIDE DEF b
    <2>3. Cut(x, j) = [neg |-> x.neg, hi |-> x.hi, lo |-> x.lo - b]
      BY <2>2 DEF Words
    <2>4. x.hi * Pow2[L] \in Int
      BY <1>1
    <2>5. QED
      BY <1>1, <2>1, <2>3, <2>4 DEF Place, Words
  <1>4. QED
    BY <1>2, <1>3

(* The carry of an addition to the low word.                               *)
LEMMA PlusPlace ==
  ASSUME Format, NEW x \in Words, NEW n \in Nat
  PROVE  Plus(x, n) \in Words /\ Plus(x, n).neg = x.neg /\ Place(Plus(x, n)) = Place(x) + n
  <1> DEFINE q == (x.lo + n) \div Pow2[L]
             r == (x.lo + n) % Pow2[L]
  <1>1. x.hi \in Nat /\ x.lo \in 0 .. Pow2[L] - 1 /\ Pow2[L] \in Nat \ {0} /\ x.neg \in BOOLEAN
    BY Sizes DEF Words
  <1>2. x.lo + n \in Nat /\ x.lo + n \in Int
    BY <1>1
  <1>3. x.lo + n = q * Pow2[L] + r /\ r \in 0 .. Pow2[L] - 1 /\ q \in Int
    BY <1>1, <1>2, DivMod
  <1>4. Plus(x, n) = [x EXCEPT !.lo = r, !.hi = x.hi + q]
    BY DEF Plus
  <1> HIDE DEF q, r
  <1>5. Plus(x, n) = [neg |-> x.neg, hi |-> x.hi + q, lo |-> r]
    BY <1>4 DEF Words
  <1>6. q \in Nat
    <2>1. q <= -1 => q * Pow2[L] <= -Pow2[L]
      BY <1>1, <1>3
    <2>2. q * Pow2[L] \in Int
      BY <1>1, <1>3
    <2>3. QED
      BY <1>1, <1>2, <1>3, <2>1, <2>2
  <1>7. (x.hi + q) * Pow2[L] = x.hi * Pow2[L] + q * Pow2[L] /\ x.hi * Pow2[L] \in Int /\ q * Pow2[L] \in Int
    BY <1>1, <1>3
  <1>8. (x.hi + q) * Pow2[L] + r = (x.hi * Pow2[L] + x.lo) + n
    BY <1>1, <1>3, <1>7
  <1>9. QED
    BY <1>1, <1>3, <1>5, <1>6, <1>8 DEF Place, Words

(* An addition to the high word.                                           *)
LEMMA HighPlace ==
  ASSUME Format, NEW x \in Words, NEW n \in Nat
  PROVE  LET r == [x EXCEPT !.hi = @ + n]
         IN  r \in Words /\ r.neg = x.neg /\ Place(r) = Place(x) + n * Pow2[L]
  <1>1. x.hi \in Nat /\ x.lo \in 0 .. Pow2[L] - 1 /\ Pow2[L] \in Nat \ {0} /\ x.neg \in BOOLEAN
    BY Sizes DEF Words
  <1>2. [x EXCEPT !.hi = @ + n] = [neg |-> x.neg, hi |-> x.hi + n, lo |-> x.lo]
    BY DEF Words
  <1>3. (x.hi + n) * Pow2[L] = x.hi * Pow2[L] + n * Pow2[L] /\ x.hi * Pow2[L] \in Int /\ n * Pow2[L] \in Int
    BY <1>1
  <1>4. (x.hi + n) * Pow2[L] + x.lo = (x.hi * Pow2[L] + x.lo) + n * Pow2[L]
    BY <1>1, <1>3
  <1>5. QED
    BY <1>1, <1>2, <1>4 DEF Place, Words

(* One more in the last place of the integers.                             *)
LEMMA AwayPlace ==
  ASSUME Format, NEW x \in Words, NEW j \in 0 .. P
  PROVE  Away(x, j) \in Words /\ Away(x, j).neg = x.neg /\ Place(Away(x, j)) = Place(x) + Pow2[P - j]
  <1>1. P = H + L /\ H \in Nat /\ L \in Nat /\ Pow2[L] \in Nat \ {0} /\ Pow2[P - j] \in Nat
    BY Sizes, PlaceRemainder DEF Format
  <1>2. CASE j < H
    <2>1. Away(x, j) = [x EXCEPT !.hi = @ + Pow2[H - j]]
      BY <1>2 DEF Away
    <2>2. Pow2[H - j] \in Nat /\ Pow2[P - j] = Pow2[H - j] * Pow2[L]
      BY <1>2, PlaceRemainder
    <2>3. QED
      BY <2>1, <2>2, HighPlace
  <1>3. CASE j = H
    <2>1. Away(x, j) = [x EXCEPT !.hi = @ + 1]
      BY <1>1, <1>3 DEF Away
    <2>2. P - j = L /\ 1 * Pow2[L] = Pow2[L]
      BY <1>1, <1>3
    <2>3. QED
      BY <2>1, <2>2, HighPlace
  <1>4. CASE j > H
    <2>1. Away(x, j) = Plus(x, Pow2[P - j])
      BY <1>1, <1>4 DEF Away
    <2> DEFINE n == Pow2[P - j]
    <2>2. n \in Nat /\ Away(x, j) = Plus(x, n)
      BY <1>1, <2>1
    <2> HIDE DEF n
    <2>3. Plus(x, n) \in Words /\ Plus(x, n).neg = x.neg /\ Place(Plus(x, n)) = Place(x) + n
      BY <2>2, PlusPlace
    <2>4. QED
      BY <2>2, <2>3, Zenon DEF n
  <1>5. QED
    BY <1>1, <1>2, <1>3, <1>4

(* Half of that.                                                           *)
HalfMore(x, j) ==
  IF j < H THEN [x EXCEPT !.hi = @ + Pow2[H - j - 1]] ELSE Plus(x, Pow2[P - 1 - j])

LEMMA HalfPlace ==
  ASSUME Format, NEW x \in Words, NEW j \in 0 .. P - 1
  PROVE  /\ HalfMore(x, j) \in Words /\ HalfMore(x, j).neg = x.neg
         /\ Place(HalfMore(x, j)) = Place(x) + Pow2[P - j - 1]
         /\ Pow2[P - j - 1] \in Nat \ {0} /\ Pow2[P - j] = 2 * Pow2[P - j - 1]
  <1>1. P = H + L /\ H \in Nat /\ L \in Nat
    BY Sizes DEF Format
  <1>2. P - j - 1 \in Nat /\ (P - j - 1) + 1 = P - j /\ P - 1 - j = P - j - 1
    BY <1>1
  <1>3. Pow2[P - j - 1] \in Nat \ {0} /\ Pow2[P - j] = 2 * Pow2[P - j - 1]
    BY <1>2, Pow2Next, Pow2Type
  <1>4. CASE j < H
    <2>1. H - j - 1 \in Nat /\ (H - j - 1) + L = P - j - 1
      BY <1>1, <1>4
    <2>2. Pow2[P - j - 1] = Pow2[H - j - 1] * Pow2[L] /\ Pow2[H - j - 1] \in Nat
      BY <1>1, <2>1, Pow2Sum, Pow2Type
    <2>3. HalfMore(x, j) = [x EXCEPT !.hi = @ + Pow2[H - j - 1]]
      BY <1>4 DEF HalfMore
    <2>4. QED
      BY <1>3, <2>2, <2>3, HighPlace
  <1>5. CASE ~(j < H)
    <2>1. HalfMore(x, j) = Plus(x, Pow2[P - j - 1])
      BY <1>2, <1>5 DEF HalfMore
    <2>2. QED
      BY <1>3, <2>1, PlusPlace
  <1>6. QED
    BY <1>4, <1>5

(* The mantissa with its first bit, w = 2^P + M0, is rounded to a multiple  *)
(* of 2^(P - j); what carries out of it counts in the exponent.            *)
LEMMA RoundedUnits ==
  ASSUME Format, WideExponents, NEW x \in Double, NEW j \in 0 .. P - 1, j = Exponent(x.hi),
         NEW a \in 0 .. Pow2[P - j], NEW r \in Words,
         Place(r) = (Place(x) + a) - ((Place(x) + a) % Pow2[P - j])
  PROVE  LET w == Pow2[P] + Mantissa(x)
             D == Pow2[P - j]
         IN  /\ r \in Double /\ Finite(r)
             /\ Units(r) = ((w + a) - ((w + a) % D)) * Pow2[Bias + j - 1]
  <1> DEFINE w == Pow2[P] + Mantissa(x)
             D == Pow2[P - j]
             J == Pow2[j]
             e == Bias + j
             k == (w + a) \div D
             s == (w + a) % D
  <1>1. P \in Nat /\ P # 0 /\ Bias \in Nat /\ P <= Bias /\ j \in 0 .. P /\ j \in Nat
    BY Sizes DEF WideExponents, Format
  <1>2. Pow2[P] = J * D /\ J \in Nat \ {0} /\ D \in Nat \ {0}
    BY <1>1, Pow2Split
  <1>3. e \in Nat \ {0} /\ e = x.hi \div Pow2[H]
    <2>1. x.hi \div Pow2[H] \in Int
      BY <1>1, Fields
    <2>2. QED
      BY <1>1, <2>1 DEF Exponent
  <1>4. Mantissa(x) \in 0 .. J * D - 1 /\ Place(x) = (e - 1) * (J * D) + w
    BY <1>2, <1>3, Fields, UnitsOf
  <1>5. w \in Nat /\ w >= J * D /\ w < 2 * (J * D) /\ w + a \in Int
    <2>1. J * D \in Nat
      BY <1>2
    <2>2. QED
      BY <1>2, <1>4, <2>1
  <1>6. w + a = k * D + s /\ s \in 0 .. D - 1 /\ k \in Int
    BY <1>2, <1>5, DivMod
  <1>7. a \in 0 .. D
    OBVIOUS
  <1>8. Place(r) = (Place(x) + a) - ((Place(x) + a) % D)
    OBVIOUS
  <1> HIDE DEF w, D, J, e, k, s
  <1>9. Place(x) + a = ((e - 1) * J) * D + (w + a)
    <2>1. (e - 1) * (J * D) = ((e - 1) * J) * D /\ ((e - 1) * J) * D \in Int
      BY <1>2, <1>3
    <2>2. QED
      BY <1>4, <1>5, <1>7, <2>1
  <1>10. (Place(x) + a) % D = s
    <2>1. (e - 1) * J \in Int
      BY <1>2, <1>3
    <2>2. (((e - 1) * J) * D + (w + a)) % D = (w + a) % D
      BY <1>2, <1>5, <2>1, DividedSum
    <2>3. QED
      BY <1>9, <2>2 DEF s
  <1>11. Place(r) = (e - 1) * (J * D) + k * D
    <2>1. (e - 1) * (J * D) \in Int /\ k * D \in Int
      BY <1>2, <1>3, <1>6
    <2>2. QED
      BY <1>4, <1>5, <1>6, <1>7, <1>8, <1>10, <2>1
  <1>12. k * D >= J * D /\ k * D <= 2 * (J * D)
    <2>1. k <= J - 1 => k * D <= (J - 1) * D
      BY <1>2, <1>6
    <2>2. k >= 2 * J + 1 => k * D >= (2 * J + 1) * D
      BY <1>2, <1>6
    <2>3. (J - 1) * D = J * D - D /\ (2 * J + 1) * D = 2 * (J * D) + D
      BY <1>2
    <2>4. k * D \in Int /\ J * D \in Int
      BY <1>2, <1>6
    <2>5. k > J - 1 /\ k < 2 * J + 1
      BY <1>2, <1>5, <1>6, <1>7, <2>1, <2>2, <2>3, <2>4
    <2>6. k >= J /\ k <= 2 * J
      BY <1>2, <1>6, <2>5
    <2>7. k * D >= J * D /\ k * D <= (2 * J) * D
      BY <1>2, <1>6, <2>6
    <2>8. QED
      BY <1>2, <2>7
  <1>13. k * D \in 0 .. 2 * Pow2[P] /\ k * D >= Pow2[P] /\ Place(r) = (e - 1) * Pow2[P] + k * D
    <2>1. k * D \in Int /\ J * D \in Nat
      BY <1>2, <1>6
    <2>2. QED
      BY <1>2, <1>11, <1>12, <2>1
  <1>14. Place(r) < (2 * Bias + 1) * Pow2[P]
    <2>1. (e - 1) * Pow2[P] + 2 * Pow2[P] = (e + 1) * Pow2[P] /\ (e - 1) * Pow2[P] \in Int /\ (e + 1) * Pow2[P] \in Int
      BY <1>2, <1>3
    <2>2. e + 1 <= 2 * Bias
      BY <1>1 DEF e
    <2>3. (e + 1) * Pow2[P] <= (2 * Bias) * Pow2[P]
      BY <1>1, <1>2, <1>3, <2>2
    <2>4. (2 * Bias) * Pow2[P] < (2 * Bias + 1) * Pow2[P] /\ (2 * Bias) * Pow2[P] \in Int /\ (2 * Bias + 1) * Pow2[P] \in Int
      BY <1>1, <1>2
    <2>5. Place(r) <= (e - 1) * Pow2[P] + 2 * Pow2[P]
      <3>1. k * D \in Int /\ k * D <= 2 * Pow2[P] /\ 2 * Pow2[P] \in Int
        BY <1>2, <1>13
      <3>2. QED
        BY <1>13, <2>1, <3>1
    <2>6. Place(r) \in Int
      BY WordsPlace
    <2>7. QED
      BY <2>1, <2>3, <2>4, <2>5, <2>6
  <1>15. r \in Double /\ Finite(r) /\ Units(r) = (k * D) * Pow2[e - 1]
    BY <1>3, <1>13, <1>14, UnitsAt
  <1>16. k * D = (w + a) - s
    <2>1. k * D \in Int
      BY <1>2, <1>6
    <2>2. QED
      BY <1>2, <1>5, <1>6, <2>1
  <1>17. Units(r) = ((w + a) - ((w + a) % D)) * Pow2[Bias + j - 1]
    <2>1. s = (w + a) % D /\ e - 1 = Bias + j - 1
      BY <1>1 DEF e, s
    <2>2. k * D = (w + a) - ((w + a) % D)
      BY <1>16, <2>1
    <2>3. QED
      BY <1>15, <2>1, <2>2
  <1>18. QED
    BY <1>15, <1>17, Zenon DEF w, D

(* What is promised of w units of c each, when D of them make a one, and d  *)
(* a half.                                                                 *)
UnitsEach(w, D, c) ==
  w \in Nat /\ D \in Nat \ {0} /\ c \in Nat \ {0} /\ UnitsOfOne = D * c

UnitsRounded(w, D, c) ==
  /\ UpOrDown(w * c, FALSE) = (w - (w % D)) * c
  /\ w % D # 0 => UpOrDown(w * c, TRUE) = ((w + D) - ((w + D) % D)) * c
  /\ w % D = 0 => UpOrDown(w * c, TRUE) = w * c

HalfUnitsRounded(w, D, c, d) == HalfAway(w * c) = ((w + d) - ((w + d) % D)) * c

LEMMA UnitRounding ==
  ASSUME NEW w, NEW D, NEW c, UnitsEach(w, D, c)
  PROVE  UnitsRounded(w, D, c)
  <1>0. w \in Nat /\ D \in Nat \ {0} /\ c \in Nat \ {0} /\ UnitsOfOne = D * c
    BY DEF UnitsEach
  <1> DEFINE q == w \div D
             r == w % D
             u == w * c
             U == D * c
  <1>1. w = q * D + r /\ r \in 0 .. D - 1 /\ q \in Int
    <2>1. w \in Int
      BY <1>0
    <2>2. QED
      BY <1>0, <2>1, DivMod
  <1>2. u \in Nat /\ U \in Nat \ {0} /\ UnitsOfOne = U
    BY <1>0
  <1>3. u \div U = q
    BY <1>0, ScaledDivision DEF Scaled
  <1>4. UpOrDown(u, FALSE) = (u \div U) * U /\ UpOrDown(u, TRUE) = ((u + U - 1) \div U) * U
    BY <1>0, <1>2 DEF UpOrDown
  <1> HIDE DEF q, r, u, U
  <1>5. q * U = (w - r) * c
    <2>1. q * (D * c) = (q * D) * c /\ w - r = q * D
      <3>1. q * D \in Int
        BY <1>0, <1>1
      <3>2. q * (D * c) = (q * D) * c
        BY <1>0, <1>1
      <3>3. QED
        BY <1>0, <1>1, <3>1, <3>2
    <2>2. QED
      BY <1>0, <2>1 DEF U
  <1>6. UpOrDown(u, FALSE) = (w - r) * c
    BY <1>0, <1>3, <1>4, <1>5
  <1>7. u = q * U + r * c /\ q * U \in Int /\ r * c \in Int
    <2>1. (q * D + r) * c = q * (D * c) + r * c /\ q * (D * c) \in Int /\ r * c \in Int
      BY <1>0, <1>1
    <2>2. QED
      BY <1>0, <1>1, <2>1 DEF u, U
  <1>8. ASSUME r # 0
        PROVE  UpOrDown(u, TRUE) = ((w + D) - ((w + D) % D)) * c
    <2>1. r * c >= c /\ r * c <= (D - 1) * c /\ (D - 1) * c = U - c
      BY <1>0, <1>1, <1>8 DEF U
    <2>2. r * c - 1 \in 0 .. U - 1
      BY <1>0, <1>2, <1>7, <2>1
    <2>3. u + U - 1 = (q + 1) * U + (r * c - 1)
      <3>1. (q + 1) * U = q * U + U
        BY <1>0, <1>1, <1>2
      <3>2. QED
        BY <1>0, <1>2, <1>7, <3>1
    <2>4. Euclid(u + U - 1, U, q + 1, r * c - 1)
      BY <1>0, <1>1, <1>2, <2>2, <2>3 DEF Euclid
    <2>5. (u + U - 1) \div U = q + 1
      BY <2>4, EuclidDivMod, Zenon
    <2>6. Euclid(w + D, D, q + 1, r)
      <3>1. (q + 1) * D = q * D + D /\ q * D \in Int
        BY <1>0, <1>1
      <3>2. QED
        BY <1>0, <1>1, <3>1 DEF Euclid
    <2>7. (w + D) % D = r
      BY <2>6, EuclidDivMod, Zenon
    <2>8. ((w + D) - r) * c = (q + 1) * U
      <3>1. (w + D) - r = (q + 1) * D
        <4>1. (q + 1) * D = q * D + D /\ q * D \in Int
          BY <1>0, <1>1
        <4>2. QED
          BY <1>0, <1>1, <4>1
      <3>2. ((q + 1) * D) * c = (q + 1) * (D * c)
        BY <1>0, <1>1
      <3>3. QED
        BY <1>0, <3>1, <3>2 DEF U
    <2>9. QED
      BY <1>0, <1>4, <2>5, <2>7, <2>8
  <1>9. ASSUME r = 0
        PROVE  UpOrDown(u, TRUE) = u
    <2>1. r * c = 0
      BY <1>0, <1>9
    <2>2. u + U - 1 = q * U + (U - 1) /\ U - 1 \in 0 .. U - 1
      BY <1>0, <1>2, <1>7, <2>1
    <2>3. Euclid(u + U - 1, U, q, U - 1)
      BY <1>0, <1>1, <1>2, <2>2 DEF Euclid
    <2>4. (u + U - 1) \div U = q
      BY <2>3, EuclidDivMod, Zenon
    <2>5. q * U = u
      BY <1>0, <1>2, <1>7, <2>1
    <2>6. QED
      BY <1>4, <2>4, <2>5, Zenon
  <1>10. QED
    BY <1>6, <1>8, <1>9 DEF u, r, UnitsRounded

LEMMA HalfRounding ==
  ASSUME NEW w, NEW D, NEW c, NEW d, UnitsEach(w, D, c), d \in Nat, D = 2 * d
  PROVE  HalfUnitsRounded(w, D, c, d)
  <1>0. w \in Nat /\ D \in Nat \ {0} /\ c \in Nat \ {0} /\ UnitsOfOne = D * c
    BY DEF UnitsEach
  <1> DEFINE u == w * c
             U == D * c
             k == (w + d) \div D
             s == (w + d) % D
  <1>1. w + d \in Int /\ 2 * c \in Nat \ {0} /\ u \in Nat /\ U \in Nat \ {0} /\ UnitsOfOne = U
    BY <1>0
  <1>2. w + d = k * D + s /\ s \in Int /\ k \in Int
    <2>1. Euclid(w + d, D, k, s)
      BY <1>0, <1>1, EuclidParts
    <2>2. QED
      BY <1>0, <2>1 DEF Euclid
  <1>3. ((w + d) * (2 * c)) \div (D * (2 * c)) = k
    BY <1>0, <1>1, ScaledDivision DEF Scaled
  <1> HIDE DEF k, s, u, U
  <1>4. 2 * u + U = (w + d) * (2 * c)
    <2>1. D * c = 2 * (d * c)
      BY <1>0
    <2>2. (w + d) * (2 * c) = 2 * (w * c) + 2 * (d * c)
      BY <1>0
    <2>3. QED
      BY <1>0, <2>1, <2>2 DEF u, U
  <1>5. 2 * U = D * (2 * c)
    BY <1>0 DEF U
  <1>6. HalfAway(u) = k * U
    <2>1. HalfAway(u) = ((2 * u + U) \div (2 * U)) * U
      BY <1>0, <1>1 DEF HalfAway
    <2>2. QED
      BY <1>0, <1>3, <1>4, <1>5, <2>1
  <1>7. k * U = ((w + d) - s) * c
    <2>1. k * (D * c) = (k * D) * c /\ k * D \in Int
      BY <1>0, <1>2
    <2>2. (w + d) - s = k * D
      BY <1>0, <1>2, <2>1
    <2>3. QED
      BY <1>0, <2>1, <2>2 DEF U
  <1>8. QED
    BY <1>6, <1>7 DEF s, u, HalfUnitsRounded

(* The numbers without a first bit, and the least with one.                *)
LEMMA UnitsBelow ==
  ASSUME Format, NEW r \in Words, Place(r) <= Pow2[P]
  PROVE  r \in Double /\ (Bias # 0 => Finite(r) /\ Units(r) = Place(r))
  <1> DEFINE w == Place(r)
             e == 1
  <1>1. Pow2[P] \in Nat \ {0} /\ Bias \in Nat /\ w \in Nat
    BY Sizes, WordsPlace
  <1>2. e \in Nat \ {0} /\ e = 1 /\ w \in 0 .. 2 * Pow2[P]
    BY <1>1
  <1>3. Place(r) = (e - 1) * Pow2[P] + w
    BY <1>1
  <1>4. Pow2[P] < (2 * Bias + 2) * Pow2[P] /\ (Bias # 0 => Pow2[P] < (2 * Bias + 1) * Pow2[P])
    <2>1. (2 * Bias + 2) * Pow2[P] = Pow2[P] + (2 * Bias + 1) * Pow2[P]
      BY <1>1
    <2>2. (2 * Bias + 1) * Pow2[P] = Pow2[P] + 2 * (Bias * Pow2[P])
      BY <1>1
    <2>3. Bias * Pow2[P] \in Nat /\ (Bias # 0 => Bias * Pow2[P] > 0)
      BY <1>1
    <2>4. QED
      BY <1>1, <2>1, <2>2, <2>3
  <1>5. (2 * Bias + 1) * Pow2[P] \in Int /\ (2 * Bias + 2) * Pow2[P] \in Int
    BY <1>1
  <1>6. Place(r) < (2 * Bias + 2) * Pow2[P] /\ (Bias # 0 => Place(r) < (2 * Bias + 1) * Pow2[P])
    BY <1>1, <1>4, <1>5
  <1>7. r \in Double
    BY <1>6, WordsDouble
  <1>8. ASSUME Bias # 0
        PROVE  Finite(r) /\ Units(r) = w
    <2> HIDE DEF w, e
    <2>1. Finite(r) /\ Units(r) = w * Pow2[e - 1]
      BY <1>2, <1>3, <1>6, <1>8, UnitsAt
    <2>2. Pow2[e - 1] = 1
      BY <1>2, Pow2Zero
    <2>3. QED
      BY <1>1, <2>1, <2>2
  <1>9. QED
    BY <1>7, <1>8

(* The numbers zero and one.                                               *)
LEMMA OneUnits ==
  ASSUME Format, WideExponents
  PROVE  /\ UnitsOfOne = Pow2[P] * Pow2[Bias - 1] /\ UnitsOfOne \in Nat \ {0}
         /\ \A neg \in BOOLEAN : Is(One(neg), neg, UnitsOfOne) /\ Is(Zero(neg), neg, 0)
  <1>1. /\ P \in Nat \ {0} /\ Bias \in Nat \ {0} /\ Pow2[P] \in Nat \ {0} /\ Pow2[H] \in Nat \ {0}
        /\ Pow2[L] \in Nat \ {0} /\ Pow2[P] = Pow2[H] * Pow2[L]
    BY Sizes DEF WideExponents, Format
  <1>2. ASSUME NEW b \in BOOLEAN
        PROVE  One(b) \in Double /\ Finite(One(b)) /\ One(b).neg = b /\ Units(One(b)) = Pow2[P] * Pow2[Bias - 1]
    <2>1. Bias * Pow2[H] \in Nat
      BY <1>1
    <2>2. One(b) \in Words /\ One(b).neg = b
      BY <1>1, <2>1 DEF One, Words
    <2>3. Place(One(b)) = (Bias * Pow2[H]) * Pow2[L] + 0
      BY DEF One, Place
    <2>4. (Bias * Pow2[H]) * Pow2[L] = (Bias - 1) * (Pow2[H] * Pow2[L]) + Pow2[H] * Pow2[L]
      BY <1>1
    <2>5. Place(One(b)) = (Bias - 1) * Pow2[P] + Pow2[P]
      <3>1. (Bias - 1) * (Pow2[H] * Pow2[L]) \in Int /\ Pow2[H] * Pow2[L] \in Int
        BY <1>1
      <3>2. QED
        BY <1>1, <2>3, <2>4, <3>1
    <2>6. (Bias - 1) * Pow2[P] + Pow2[P] < (2 * Bias + 1) * Pow2[P]
      <3>1. (2 * Bias + 1) * Pow2[P] = (Bias - 1) * Pow2[P] + Pow2[P] + (Bias + 1) * Pow2[P]
        BY <1>1
      <3>2. (Bias + 1) * Pow2[P] > 0 /\ (Bias - 1) * Pow2[P] \in Int /\ (Bias + 1) * Pow2[P] \in Int
        BY <1>1
      <3>3. QED
        BY <1>1, <3>1, <3>2
    <2>7. Place(One(b)) < (2 * Bias + 1) * Pow2[P] /\ Pow2[P] \in 0 .. 2 * Pow2[P]
      BY <1>1, <2>5, <2>6
    <2>8. QED
      BY <1>1, <2>2, <2>5, <2>7, UnitsAt
  <1>3. UnitsOfOne = Pow2[P] * Pow2[Bias - 1]
    BY <1>2 DEF UnitsOfOne
  <1>4. UnitsOfOne \in Nat \ {0}
    <2>1. Bias - 1 \in Nat
      BY <1>1
    <2>2. Pow2[Bias - 1] \in Nat \ {0}
      BY <2>1, Pow2Type
    <2>3. QED
      BY <1>1, <1>3, <2>2
  <1>5. ASSUME NEW neg \in BOOLEAN
        PROVE  Zero(neg) \in Double /\ Finite(Zero(neg)) /\ Units(Zero(neg)) = 0 /\ Zero(neg).neg = neg
    <2>1. Zero(neg) \in Words /\ Zero(neg).neg = neg
      BY <1>1 DEF Zero, Words
    <2>2. Place(Zero(neg)) = 0 * Pow2[L] + 0
      BY DEF Zero, Place
    <2>3. Place(Zero(neg)) = 0 /\ Place(Zero(neg)) <= Pow2[P]
      BY <1>1, <2>2
    <2>4. QED
      BY <1>1, <2>1, <2>3, UnitsBelow
  <1>6. QED
    BY <1>2, <1>3, <1>4, <1>5 DEF Is

(* Whole numbers stay.                                                     *)
LEMMA WholeRounding ==
  ASSUME Format, WideExponents, NEW k \in Nat, NEW u, u = k * UnitsOfOne
  PROVE  UpOrDown(u, TRUE) = u /\ UpOrDown(u, FALSE) = u /\ HalfAway(u) = u
  <1> DEFINE U == UnitsOfOne
  <1>1. U \in Nat \ {0}
    BY OneUnits
  <1> HIDE DEF U
  <1>2. UnitsOfOne = U /\ u = k * U
    BY DEF U
  <1> DEFINE one == 1
  <1>3. one \in Nat \ {0} /\ k % one = 0 /\ UnitsOfOne = one * U
    BY <1>1, <1>2, SmallMod
  <1> HIDE DEF one
  <1>4. UpOrDown(u, TRUE) = u /\ UpOrDown(u, FALSE) = u
    <2>1. UnitsEach(k, one, U)
      BY <1>1, <1>3 DEF UnitsEach
    <2>2. UnitsRounded(k, one, U)
      BY <2>1, UnitRounding
    <2>3. UpOrDown(k * U, TRUE) = k * U
      BY <1>3, <2>2 DEF UnitsRounded
    <2>4. k - (k % one) = k
      BY <1>3
    <2>5. QED
      BY <1>2, <2>2, <2>3, <2>4 DEF UnitsRounded
  <1>5. Euclid(2 * u + U, 2 * U, k, U)
    <2>1. 2 * (k * U) = k * (2 * U) /\ k * U \in Nat
      BY <1>1
    <2>2. QED
      BY <1>1, <1>2, <2>1 DEF Euclid
  <1>6. (2 * u + U) \div (2 * U) = k
    BY <1>5, EuclidDivMod, Zenon
  <1>7. HalfAway(u) = k * U
    BY <1>2, <1>6 DEF HalfAway
  <1>8. QED
    BY <1>2, <1>4, <1>7

(* A double with exponent j: what its mantissa and a one count for.        *)
LEMMA ScaleOfOne ==
  ASSUME Format, WideExponents, NEW x \in Double, NEW j \in Nat, j = Exponent(x.hi)
  PROVE  /\ Units(x) = (Pow2[P] + Mantissa(x)) * Pow2[Bias + j - 1]
         /\ Pow2[P] + Mantissa(x) \in Nat \ {0} /\ Pow2[Bias + j - 1] \in Nat \ {0}
         /\ j < P => UnitsOfOne = Pow2[P - j] * Pow2[Bias + j - 1]
         /\ j >= P => Pow2[Bias + j - 1] = Pow2[j - P] * UnitsOfOne /\ Pow2[j - P] \in Nat
  <1>1. P \in Nat \ {0} /\ Bias \in Nat \ {0} /\ Pow2[P] \in Nat \ {0}
    BY Sizes DEF WideExponents, Format
  <1>2. x.hi \div Pow2[H] \in Int
    BY <1>1, Fields
  <1>3. x.hi \div Pow2[H] = Bias + j /\ Bias + j # 0 /\ (Bias + j) - 1 = Bias + j - 1
    BY <1>1, <1>2 DEF Exponent
  <1>4. Units(x) = (Pow2[P] + Mantissa(x)) * Pow2[(Bias + j) - 1] /\ Mantissa(x) \in 0 .. Pow2[P] - 1
    BY <1>3, Fields, UnitsOf
  <1>5. Bias - 1 \in Nat /\ (Bias - 1) + j = Bias + j - 1 /\ Bias + j - 1 \in Nat
    BY <1>1
  <1>6. UnitsOfOne = Pow2[P] * Pow2[Bias - 1] /\ Pow2[Bias - 1] \in Nat \ {0}
    BY <1>5, OneUnits, Pow2Type
  <1>7. Pow2[Bias + j - 1] = Pow2[Bias - 1] * Pow2[j] /\ Pow2[Bias + j - 1] \in Nat \ {0}
    BY <1>5, Pow2Sum, Pow2Type
  <1>8. ASSUME j < P
        PROVE  UnitsOfOne = Pow2[P - j] * Pow2[Bias + j - 1]
    <2>1. j \in 0 .. P
      BY <1>1, <1>8
    <2>2. Pow2[P] = Pow2[j] * Pow2[P - j] /\ Pow2[j] \in Nat /\ Pow2[P - j] \in Nat
      BY <1>1, <2>1, Pow2Split
    <2>3. (Pow2[j] * Pow2[P - j]) * Pow2[Bias - 1] = Pow2[P - j] * (Pow2[Bias - 1] * Pow2[j])
      BY <1>6, <2>2
    <2>4. QED
      BY <1>6, <1>7, <2>2, <2>3
  <1>9. ASSUME j >= P
        PROVE  Pow2[Bias + j - 1] = Pow2[j - P] * UnitsOfOne /\ Pow2[j - P] \in Nat
    <2>1. P \in 0 .. j
      BY <1>1, <1>9
    <2>2. Pow2[j] = Pow2[P] * Pow2[j - P] /\ Pow2[j - P] \in Nat
      BY <2>1, Pow2Split
    <2>3. Pow2[Bias - 1] * (Pow2[P] * Pow2[j - P]) = Pow2[j - P] * (Pow2[P] * Pow2[Bias - 1])
      BY <1>1, <1>6, <2>2
    <2>4. QED
      BY <1>6, <1>7, <2>2, <2>3
  <1>10. Pow2[P] + Mantissa(x) \in Nat \ {0}
    BY <1>1, <1>4
  <1>11. QED
    BY <1>3, <1>4, <1>7, <1>8, <1>9, <1>10

(* Integers stay.                                                          *)
LEMMA RoundingIntegral ==
  ASSUME Format, WideExponents, NEW x \in Double, NEW j \in Nat, j = Exponent(x.hi),
         j >= P \/ Integral(x, j), NEW u, u = Units(x)
  PROVE  UpOrDown(u, TRUE) = u /\ UpOrDown(u, FALSE) = u /\ HalfAway(u) = u
  <1> DEFINE w == Pow2[P] + Mantissa(x)
             c == Pow2[Bias + j - 1]
             U == UnitsOfOne
  <1>1. P \in Nat /\ x \in Words /\ U \in Nat \ {0}
    BY Sizes, Fields, OneUnits
  <1>2. Units(x) = w * c /\ w \in Nat \ {0} /\ c \in Nat \ {0}
    BY ScaleOfOne
  <1>3. CASE j >= P
    <2> DEFINE K == Pow2[j - P]
    <2>1. c = K * U /\ K \in Nat
      BY <1>3, ScaleOfOne
    <2> HIDE DEF w, c, U, K
    <2>2. w * (K * U) = (w * K) * U /\ w * K \in Nat
      BY <1>1, <1>2, <2>1
    <2>3. Units(x) = (w * K) * U
      BY <1>2, <2>1, <2>2
    <2>4. QED
      BY <2>2, <2>3, WholeRounding DEF U
  <1>4. CASE j < P /\ Integral(x, j)
    <2> DEFINE D == Pow2[P - j]
               J == Pow2[j]
               q == w \div D
    <2>1. j \in 0 .. P /\ j # P
      BY <1>1, <1>4
    <2>2. Place(x) % D = 0
      BY <1>1, <1>4, <2>1, IntegralPlace
    <2>3. Pow2[P] = J * D /\ J \in Nat \ {0} /\ D \in Nat \ {0}
      BY <1>1, <2>1, Pow2Split
    <2>4. U = D * c
      BY <1>4, ScaleOfOne
    <2>5. Place(x) = (Bias + j - 1) * Pow2[P] + w
      <3>1. Bias \in Nat /\ Bias # 0
        BY Sizes DEF WideExponents, Format
      <3>2. x.hi \div Pow2[H] \in Int
        BY <3>1, Fields
      <3>3. x.hi \div Pow2[H] = Bias + j /\ Bias + j # 0 /\ (Bias + j) - 1 = Bias + j - 1
        BY <3>1, <3>2 DEF Exponent
      <3>4. QED
        BY <3>3, UnitsOf
    <2>6. Bias + j - 1 \in Int
      BY Sizes
    <2> HIDE DEF w, c, U, D, J
    <2>7. Place(x) = ((Bias + j - 1) * J) * D + w /\ (Bias + j - 1) * J \in Int
      <3>1. \A b \in Int : b * (J * D) = (b * J) * D /\ b * J \in Int
        BY <2>3
      <3>2. QED
        BY <2>3, <2>5, <2>6, <3>1
    <2>8. w \in Int
      BY <1>2
    <2>9. (((Bias + j - 1) * J) * D + w) % D = w % D
      BY <2>3, <2>7, <2>8, DividedSum
    <2>10. w % D = 0
      BY <2>2, <2>7, <2>9
    <2>11. w = q * D + 0 /\ q \in Int
      BY <2>3, <2>8, <2>10, DivMod
    <2> HIDE DEF q
    <2>12. q \in Nat /\ w = q * D
      <3>1. q <= -1 => q * D <= -D
        BY <2>3, <2>11
      <3>2. q * D \in Int
        BY <2>3, <2>11
      <3>3. QED
        BY <1>2, <2>3, <2>11, <3>1, <3>2
    <2>13. (q * D) * c = q * (D * c)
      BY <1>2, <2>3, <2>12
    <2>14. Units(x) = q * U
      BY <1>2, <2>4, <2>12, <2>13
    <2>15. QED
      BY <2>12, <2>14, WholeRounding DEF U
  <1>5. j >= P \/ j < P
    BY <1>1
  <1>6. QED
    BY <1>3, <1>4, <1>5, Zenon

(* What is less than one goes to nothing or to one.                        *)
LEMMA SmallRounding ==
  ASSUME Format, WideExponents, NEW u \in Nat, u < UnitsOfOne
  PROVE  /\ UpOrDown(u, FALSE) = 0
         /\ UpOrDown(u, TRUE) = IF u = 0 THEN 0 ELSE UnitsOfOne
         /\ HalfAway(u) = IF 2 * u < UnitsOfOne THEN 0 ELSE UnitsOfOne
  <1> DEFINE U == UnitsOfOne
  <1>1. U \in Nat \ {0} /\ 0 * U = 0 /\ 1 * U = U
    BY OneUnits
  <1>2. u < U
    OBVIOUS
  <1>3. /\ UpOrDown(u, FALSE) = (u \div U) * U
        /\ UpOrDown(u, TRUE) = ((u + U - 1) \div U) * U
        /\ HalfAway(u) = ((2 * u + U) \div (2 * U)) * U
    BY DEF UpOrDown, HalfAway
  <1> HIDE DEF U
  <1>4. UpOrDown(u, FALSE) = 0
    <2>1. Euclid(u, U, 0, u)
      BY <1>1, <1>2 DEF Euclid
    <2>2. u \div U = 0
      BY <2>1, EuclidDivMod, Zenon
    <2>3. QED
      BY <1>1, <1>3, <2>2, Zenon
  <1>5. ASSUME u = 0
        PROVE  UpOrDown(u, TRUE) = 0
    <2>1. Euclid(u + U - 1, U, 0, U - 1)
      BY <1>1, <1>5 DEF Euclid
    <2>2. (u + U - 1) \div U = 0
      BY <2>1, EuclidDivMod, Zenon
    <2>3. QED
      BY <1>1, <1>3, <2>2, Zenon
  <1>6. ASSUME u # 0
        PROVE  UpOrDown(u, TRUE) = U
    <2>1. Euclid(u + U - 1, U, 1, u - 1)
      BY <1>1, <1>2, <1>6 DEF Euclid
    <2>2. (u + U - 1) \div U = 1
      BY <2>1, EuclidDivMod, Zenon
    <2>3. QED
      BY <1>1, <1>3, <2>2, Zenon
  <1>7. ASSUME 2 * u < U
        PROVE  HalfAway(u) = 0
    <2>1. Euclid(2 * u + U, 2 * U, 0, 2 * u + U)
      BY <1>1, <1>7 DEF Euclid
    <2>2. (2 * u + U) \div (2 * U) = 0
      BY <2>1, EuclidDivMod, Zenon
    <2>3. QED
      BY <1>1, <1>3, <2>2, Zenon
  <1>8. ASSUME ~(2 * u < U)
        PROVE  HalfAway(u) = U
    <2>1. Euclid(2 * u + U, 2 * U, 1, 2 * u - U)
      BY <1>1, <1>2, <1>8 DEF Euclid
    <2>2. (2 * u + U) \div (2 * U) = 1
      BY <2>1, EuclidDivMod, Zenon
    <2>3. QED
      BY <1>1, <1>3, <2>2, Zenon
  <1>9. QED
    BY <1>4, <1>5, <1>6, <1>7, <1>8 DEF U

LEMMA BelowOne ==
  ASSUME Format, WideExponents, NEW x \in Double, Exponent(x.hi) < 0, NEW u, u = Units(x)
  PROVE  /\ u \in Nat /\ u < UnitsOfOne
         /\ u = 0 <=> IsZero(x)
         /\ 2 * u < UnitsOfOne <=> Exponent(x.hi) # -1
  <1> DEFINE e == x.hi \div Pow2[H]
             S == Pow2[P]
             m == Mantissa(x)
             U == UnitsOfOne
  <1>1. /\ P \in Nat /\ P > 2 /\ Bias \in Nat /\ Bias > 2 /\ S \in Nat \ {0}
        /\ Pow2[H] \in Nat \ {0} /\ Pow2[L] \in Nat \ {0}
    <2>1. H \in Nat /\ H > 0 /\ L \in Nat /\ H < L /\ P <= Bias
      BY DEF WideExponents, Format
    <2>2. QED
      BY <2>1, Sizes
  <1>2. e \in Nat /\ m \in 0 .. S - 1 /\ e < Bias /\ Exponent(x.hi) = e - Bias
    <2>1. e \in 0 .. 2 * Bias + 1 /\ m \in 0 .. S - 1
      BY Fields
    <2>2. QED
      BY <1>1, <2>1 DEF Exponent
  <1>3. x.hi \in Nat /\ x.lo \in Nat /\ (x.hi < Pow2[H] <=> e = 0)
    <2>1. x \in Words /\ (x.hi < Pow2[H] <=> e = 0)
      BY Fields
    <2>2. QED
      BY <1>1, <2>1 DEF Words
  <1>4. /\ e = 0 => u = m /\ Place(x) = m
        /\ e # 0 => u = (S + m) * Pow2[e - 1]
    BY UnitsOf
  <1>5. U = S * Pow2[Bias - 1]
    BY OneUnits
  <1> HIDE DEF e, S, m, U
  <1>6. CASE e = 0
    <2>1. Bias - 2 \in Nat /\ (Bias - 2) + 1 = Bias - 1
      BY <1>1
    <2>2. Pow2[Bias - 1] = 2 * Pow2[Bias - 2] /\ Pow2[Bias - 2] \in Nat \ {0}
      BY <2>1, Pow2Next, Pow2Type
    <2>3. S * (2 * Pow2[Bias - 2]) >= 2 * S /\ S * (2 * Pow2[Bias - 2]) \in Int
      BY <1>1, <2>2
    <2>4. 2 * u < U /\ u \in Nat /\ U \in Int
      BY <1>1, <1>2, <1>4, <1>5, <1>6, <2>2, <2>3
    <2>5. u = x.hi * Pow2[L] + x.lo
      BY <1>4, <1>6 DEF Place
    <2>6. x.hi # 0 => x.hi * Pow2[L] > 0
      BY <1>1, <1>3
    <2>7. x.hi * Pow2[L] \in Nat /\ (x.hi = 0 => x.hi * Pow2[L] = 0)
      BY <1>1, <1>3
    <2>8. u = 0 <=> IsZero(x)
      BY <1>3, <2>5, <2>6, <2>7 DEF IsZero
    <2>9. Exponent(x.hi) # -1
      BY <1>1, <1>2, <1>6
    <2>10. QED
      BY <2>4, <2>8, <2>9 DEF U
  <1>7. CASE e # 0
    <2> DEFINE c == Pow2[e - 1]
               n == Bias - e
               K == Pow2[n - 1]
    <2>1. e - 1 \in Nat /\ n - 1 \in Nat /\ n \in Nat /\ (n - 1) + 1 = n /\ (e - 1) + n = Bias - 1
      BY <1>1, <1>2, <1>7
    <2>2. c \in Nat \ {0} /\ K \in Nat \ {0} /\ Pow2[n] = 2 * K
      BY <2>1, Pow2Next, Pow2Type
    <2>3. Pow2[Bias - 1] = c * (2 * K)
      <3>1. Pow2[(e - 1) + n] = c * Pow2[n]
        BY <2>1, Pow2Sum, Zenon
      <3>2. QED
        BY <2>1, <2>2, <3>1
    <2>4. n = 1 => K = 1
      BY Pow2Zero
    <2>5. n # 1 => K >= 2
      <3>1. SUFFICES ASSUME n # 1
                     PROVE  K >= 2
        OBVIOUS
      <3>2. n - 2 \in Nat /\ (n - 2) + 1 = n - 1
        BY <2>1, <3>1
      <3>3. K = 2 * Pow2[n - 2] /\ Pow2[n - 2] \in Nat \ {0}
        BY <3>2, Pow2Next, Pow2Type
      <3>4. QED
        BY <3>3
    <2>6. n = 1 <=> Exponent(x.hi) = -1
      BY <1>1, <1>2
    <2> HIDE DEF c, n, K
    <2> DEFINE T == S * c
    <2>7. T \in Nat \ {0} /\ U = 2 * (K * T)
      <3>1. S * (c * (2 * K)) = 2 * (K * (S * c))
        BY <1>1, <2>2
      <3>2. QED
        BY <1>1, <1>5, <2>2, <2>3, <3>1
    <2>8. u \in Nat /\ u >= T /\ u < 2 * T
      <3>1. (S + m) * c = T + m * c /\ m * c \in Nat
        BY <1>1, <1>2, <2>2
      <3>2. m * c <= (S - 1) * c /\ (S - 1) * c = T - c
        BY <1>1, <1>2, <2>2
      <3>3. u = (S + m) * c
        BY <1>4, <1>7 DEF c
      <3>4. QED
        BY <2>2, <2>7, <3>1, <3>2, <3>3
    <2> HIDE DEF T
    <2>9. K * T >= T /\ (K >= 2 => K * T >= 2 * T) /\ (K = 1 => K * T = T) /\ K * T \in Int
      BY <2>2, <2>7
    <2>10. u < U /\ (2 * u < U <=> n # 1)
      BY <2>2, <2>4, <2>5, <2>7, <2>8, <2>9
    <2>11. u # 0 /\ ~IsZero(x)
      BY <1>1, <1>3, <1>7, <2>7, <2>8 DEF IsZero
    <2>12. QED
      BY <2>6, <2>8, <2>10, <2>11 DEF U
  <1>8. QED
    BY <1>6, <1>7

(* The bits of the fraction are cut off, after one, a half or nothing has   *)
(* been added to the integer.                                              *)
LEMMA RoundingInside ==
  ASSUME Format, WideExponents, NEW x \in Double, NEW j \in 0 .. P - 1, j = Exponent(x.hi), NEW u, u = Units(x)
  PROVE  /\ Is(Cut(x, j), x.neg, UpOrDown(u, FALSE))
         /\ ~Integral(x, j) => Is(Cut(Away(x, j), j), x.neg, UpOrDown(u, TRUE))
         /\ Is(Cut(HalfMore(x, j), j), x.neg, HalfAway(u))
  <1> DEFINE w == Pow2[P] + Mantissa(x)
             c == Pow2[Bias + j - 1]
             D == Pow2[P - j]
             d == Pow2[P - j - 1]
  <1>1. P \in Nat /\ j \in Nat /\ j < P /\ j \in 0 .. P
    BY Sizes
  <1>2. x \in Words /\ x \in Double
    BY Fields
  <1>3. u = w * c /\ w \in Nat \ {0} /\ c \in Nat \ {0} /\ UnitsOfOne = D * c
    BY <1>1, ScaleOfOne
  <1>4. D \in Nat \ {0} /\ d \in Nat \ {0} /\ D = 2 * d
    BY <1>1, <1>2, HalfPlace, PlaceRemainder
  <1>5. Place(x) \in Nat /\ w \in Nat
    BY <1>2, <1>3, WordsPlace
  <1> HIDE DEF w, c, D, d
  <1>6. UnitsEach(w, D, c) /\ d \in Nat /\ D = 2 * d
    BY <1>3, <1>4, <1>5 DEF UnitsEach
  <1>7. ASSUME NEW a \in 0 .. D, NEW y \in Words, y.neg = x.neg, Place(y) = Place(x) + a
        PROVE  Is(Cut(y, j), x.neg, ((w + a) - ((w + a) % D)) * c)
    <2>1. /\ Cut(y, j) \in Words /\ Cut(y, j).neg = x.neg
          /\ Place(Cut(y, j)) = (Place(x) + a) - ((Place(x) + a) % D)
      BY <1>1, <1>7, CutPlace DEF D
    <2>2. /\ Cut(y, j) \in Double /\ Finite(Cut(y, j))
          /\ Units(Cut(y, j)) = ((w + a) - ((w + a) % D)) * c
      BY <1>2, <2>1, RoundedUnits DEF w, c, D
    <2>3. QED
      BY <2>1, <2>2 DEF Is
  <1>8. Is(Cut(x, j), x.neg, UpOrDown(u, FALSE))
    <2>1. 0 \in 0 .. D /\ Place(x) = Place(x) + 0
      BY <1>4, <1>5
    <2>2. Is(Cut(x, j), x.neg, ((w + 0) - ((w + 0) % D)) * c)
      BY <1>2, <1>7, <2>1
    <2>3. w + 0 = w
      BY <1>5
    <2>4. UnitsRounded(w, D, c)
      BY <1>6, UnitRounding
    <2>5. QED
      BY <1>3, <2>2, <2>3, <2>4 DEF UnitsRounded
  <1>9. Is(Cut(HalfMore(x, j), j), x.neg, HalfAway(u))
    <2>1. d \in 0 .. D
      BY <1>4
    <2>2. HalfMore(x, j) \in Words /\ HalfMore(x, j).neg = x.neg /\ Place(HalfMore(x, j)) = Place(x) + d
      BY <1>2, HalfPlace DEF d
    <2>3. Is(Cut(HalfMore(x, j), j), x.neg, ((w + d) - ((w + d) % D)) * c)
      BY <1>7, <2>1, <2>2
    <2>4. d \in Nat
      BY <1>4
    <2>5. HalfUnitsRounded(w, D, c, d)
      BY <1>6, HalfRounding
    <2>6. QED
      BY <1>3, <2>3, <2>5 DEF HalfUnitsRounded
  <1>10. ASSUME ~Integral(x, j)
        PROVE  Is(Cut(Away(x, j), j), x.neg, UpOrDown(u, TRUE))
    <2>1. D \in 0 .. D
      BY <1>4
    <2>2. Away(x, j) \in Words /\ Away(x, j).neg = x.neg /\ Place(Away(x, j)) = Place(x) + D
      BY <1>1, <1>2, AwayPlace DEF D
    <2>3. Is(Cut(Away(x, j), j), x.neg, ((w + D) - ((w + D) % D)) * c)
      BY <1>7, <2>1, <2>2
    <2>4. w % D # 0
      <3>1. Place(x) % D # 0
        BY <1>1, <1>2, <1>10, IntegralPlace DEF D
      <3>2. Place(x) = (Bias + j - 1) * Pow2[P] + w /\ Bias + j - 1 \in Nat
        <4>1. Bias \in Nat /\ Bias # 0
          BY Sizes DEF WideExponents, Format
        <4>2. x.hi \div Pow2[H] \in Int
          BY <4>1, Fields
        <4>3. x.hi \div Pow2[H] = Bias + j /\ Bias + j # 0 /\ (Bias + j) - 1 = Bias + j - 1
          BY <1>1, <4>1, <4>2 DEF Exponent
        <4>4. QED
          BY <1>1, <4>1, <4>3, UnitsOf DEF w
      <3>3. Pow2[P] = Pow2[j] * D /\ Pow2[j] \in Nat
        BY <1>1, Pow2Split DEF D
      <3>4. (Bias + j - 1) * (Pow2[j] * D) = ((Bias + j - 1) * Pow2[j]) * D /\ (Bias + j - 1) * Pow2[j] \in Int
        BY <1>4, <3>2, <3>3
      <3>5. w \in Int
        BY <1>5
      <3>6. (((Bias + j - 1) * Pow2[j]) * D + w) % D = w % D
        BY <1>4, <3>4, <3>5, DividedSum
      <3>7. QED
        BY <3>1, <3>2, <3>3, <3>4, <3>6
    <2>5. UnitsRounded(w, D, c)
      BY <1>6, UnitRounding
    <2>6. QED
      BY <1>3, <2>3, <2>4, <2>5 DEF UnitsRounded
  <1>11. QED
    BY <1>8, <1>9, <1>10

(* A float is rounded like the double with the same words.                 *)
LEMMA FloatRounding ==
  ASSUME Format, NEW x \in Float
  PROVE  ceilf(x) = ceil(x) /\ floorf(x) = floor(x) /\ roundf(x) = round(x)
  <1> DEFINE j == Exponent(x.hi)
  <1>1. /\ x \in Double /\ x.lo = 0 /\ x \in Words /\ x.neg \in BOOLEAN
        /\ P \in Nat /\ P = H + L /\ H \in Nat /\ L \in Nat /\ H < P /\ j \in Int
    <2>1. x \in Double /\ x.lo = 0
      BY DEF Float
    <2>2. x.hi \div Pow2[H] \in Int /\ Bias \in Nat /\ x \in Words
      BY <2>1, Sizes, Fields
    <2>3. H \in Nat /\ L \in Nat /\ L # 0 /\ P = H + L
      BY Sizes DEF Format
    <2>4. QED
      BY <2>1, <2>2, <2>3 DEF Exponent, Words
  <1>2. IsZero(x) <=> x.hi = 0
    BY <1>1 DEF IsZero
  <1>3. ASSUME j >= H, j < P
        PROVE  Integral(x, j)
    <2>1. P - j \in Nat
      BY <1>1, <1>3
    <2>2. Pow2[P - j] \in Nat \ {0}
      BY <2>1, Pow2Type
    <2>3. 0 % Pow2[P - j] = 0
      BY <2>2, SmallMod
    <2>4. QED
      BY <1>1, <1>3, <2>3 DEF Integral
  <1>4. ASSUME j < H
        PROVE  Integral(x, j) <=> x.hi % Pow2[H - j] = 0
    BY <1>1, <1>4 DEF Integral
  <1>5. ASSUME j < H
        PROVE  /\ Cut(x, j) = [x EXCEPT !.hi = Cleared(@ + 0, H - j)]
               /\ Cut(Away(x, j), j) = [x EXCEPT !.hi = Cleared(@ + Pow2[H - j], H - j)]
               /\ Cut(HalfMore(x, j), j) = [x EXCEPT !.hi = Cleared(@ + Pow2[H - j - 1], H - j)]
    <2>1. x.hi + 0 = x.hi
      BY <1>1 DEF Words
    <2>2. x = [neg |-> x.neg, hi |-> x.hi, lo |-> 0]
      BY <1>1 DEF Words
    <2>3. \A n : /\ [x EXCEPT !.hi = Cleared(@ + n, H - j)] = [neg |-> x.neg, hi |-> Cleared(x.hi + n, H - j), lo |-> 0]
                 /\ [x EXCEPT !.hi = @ + n] = [neg |-> x.neg, hi |-> x.hi + n, lo |-> 0]
      BY <2>2
    <2>4. \A h : Cut([neg |-> x.neg, hi |-> h, lo |-> 0], j) = [neg |-> x.neg, hi |-> Cleared(h, H - j), lo |-> 0]
      BY <1>5 DEF Cut
    <2>5. /\ Away(x, j) = [x EXCEPT !.hi = @ + Pow2[H - j]]
          /\ HalfMore(x, j) = [x EXCEPT !.hi = @ + Pow2[H - j - 1]]
      BY <1>5 DEF Away, HalfMore
    <2>6. Cut(x, j) = [x EXCEPT !.hi = Cleared(@ + 0, H - j)]
      BY <2>1, <2>2, <2>3, <2>4, Zenon
    <2>7. ASSUME NEW n
          PROVE  Cut([x EXCEPT !.hi = @ + n], j) = [x EXCEPT !.hi = Cleared(@ + n, H - j)]
      <3>1. [x EXCEPT !.hi = @ + n] = [neg |-> x.neg, hi |-> x.hi + n, lo |-> 0]
        BY <2>3
      <3>2. Cut([neg |-> x.neg, hi |-> x.hi + n, lo |-> 0], j) = [neg |-> x.neg, hi |-> Cleared(x.hi + n, H - j), lo |-> 0]
        BY <2>4
      <3>3. [x EXCEPT !.hi = Cleared(@ + n, H - j)] = [neg |-> x.neg, hi |-> Cleared(x.hi + n, H - j), lo |-> 0]
        BY <2>3
      <3>4. QED
        BY <3>1, <3>2, <3>3
    <2>8. /\ Cut(Away(x, j), j) = [x EXCEPT !.hi = Cleared(@ + Pow2[H - j], H - j)]
          /\ Cut(HalfMore(x, j), j) = [x EXCEPT !.hi = Cleared(@ + Pow2[H - j - 1], H - j)]
      BY <2>5, <2>7
    <2>9. QED
      BY <2>6, <2>8, Zenon
  <1>6. \A up, half \in BOOLEAN :
          RoundedFloat(x, up, half) =
            IF j >= P \/ Integral(x, j) THEN x
            ELSE IF half THEN Cut(HalfMore(x, j), j) ELSE IF up THEN Cut(Away(x, j), j) ELSE Cut(x, j)
    <2>1. CASE j >= H
      BY <1>1, <1>3, <2>1 DEF RoundedFloat
    <2>2. CASE j < H
      <3>1. ~(j >= P)
        BY <1>1, <2>2
      <3>2. ~(j >= H)
        BY <1>1, <2>2
      <3>3. QED
        BY <1>4, <1>5, <2>2, <3>1, <3>2, Zenon DEF RoundedFloat
    <2>3. QED
      BY <1>1, <2>1, <2>2
  <1>7. ceilf(x) = ceil(x)
    BY <1>1, <1>2, <1>6 DEF ceilf, ceil
  <1>8. floorf(x) = floor(x)
    BY <1>1, <1>2, <1>6 DEF floorf, floor
  <1>9. roundf(x) = round(x)
    BY <1>1, <1>2, <1>6 DEF roundf, round, HalfMore
  <1>10. QED
    BY <1>7, <1>8, <1>9

(* For a finite double: ceil goes up and floor down, round to the nearest.  *)
LEMMA RoundedDouble ==
  ASSUME Format, WideExponents, NEW x \in Double, Finite(x), NEW u, u = Units(x)
  PROVE  /\ Is(ceil(x), x.neg, UpOrDown(u, ~x.neg))
         /\ Is(floor(x), x.neg, UpOrDown(u, x.neg))
         /\ Is(round(x), x.neg, HalfAway(u))
  <1> DEFINE j == Exponent(x.hi)
  <1>1. P \in Nat /\ j \in Int /\ x.neg \in BOOLEAN /\ x \in Words
    <2>1. Bias \in Nat /\ x.hi \div Pow2[H] \in Int /\ P \in Nat /\ x \in Words
      BY Sizes, Fields
    <2>2. QED
      BY <2>1 DEF Exponent, Words
  <1>2. ASSUME NEW v, u = v
        PROVE  Is(x, x.neg, v)
    BY <1>2 DEF Is
  <1>3. CASE j < 0
    <2>1. u \in Nat /\ u < UnitsOfOne /\ (u = 0 <=> IsZero(x)) /\ (2 * u < UnitsOfOne <=> j # -1)
      BY <1>3, BelowOne
    <2>2. /\ UpOrDown(u, FALSE) = 0
          /\ UpOrDown(u, TRUE) = IF u = 0 THEN 0 ELSE UnitsOfOne
          /\ HalfAway(u) = IF 2 * u < UnitsOfOne THEN 0 ELSE UnitsOfOne
      BY <2>1, SmallRounding
    <2>3. \A neg \in BOOLEAN : Is(One(neg), neg, UnitsOfOne) /\ Is(Zero(neg), neg, 0)
      BY OneUnits
    <2>4. IsZero(x) => Is(x, x.neg, 0)
      BY <1>2, <2>1
    <2>5. Is(round(x), x.neg, HalfAway(u))
      <3>1. round(x) = IF j = -1 THEN One(x.neg) ELSE Zero(x.neg)
        BY <1>3 DEF round
      <3>2. QED
        BY <1>1, <2>1, <2>2, <2>3, <3>1
    <2>6. CASE x.neg
      <3>1. x.neg = TRUE /\ ~x.neg = FALSE
        BY <1>1, <2>6
      <3>2. ceil(x) = Zero(TRUE) /\ floor(x) = IF IsZero(x) THEN x ELSE One(TRUE)
        BY <1>3, <2>6 DEF ceil, floor
      <3>3. Is(Zero(TRUE), TRUE, 0) /\ Is(One(TRUE), TRUE, UnitsOfOne)
        BY <2>3
      <3>4. UpOrDown(u, ~x.neg) = 0 /\ UpOrDown(u, x.neg) = IF IsZero(x) THEN 0 ELSE UnitsOfOne
        BY <2>1, <2>2, <3>1, Zenon
      <3>5. QED
        BY <2>4, <2>5, <3>1, <3>2, <3>3, <3>4
    <2>7. CASE ~x.neg
      <3>1. x.neg = FALSE /\ ~x.neg = TRUE
        BY <1>1, <2>7
      <3>2. floor(x) = Zero(FALSE) /\ ceil(x) = IF IsZero(x) THEN x ELSE One(FALSE)
        BY <1>3, <2>7 DEF ceil, floor
      <3>3. Is(Zero(FALSE), FALSE, 0) /\ Is(One(FALSE), FALSE, UnitsOfOne)
        BY <2>3
      <3>4. UpOrDown(u, x.neg) = 0 /\ UpOrDown(u, ~x.neg) = IF IsZero(x) THEN 0 ELSE UnitsOfOne
        BY <2>1, <2>2, <3>1, Zenon
      <3>5. QED
        BY <2>4, <2>5, <3>1, <3>2, <3>3, <3>4
    <2>8. QED
      BY <2>6, <2>7
  <1>4. CASE j >= 0 /\ (j >= P \/ Integral(x, j))
    <2>1. j \in Nat
      BY <1>1, <1>4
    <2>2. UpOrDown(u, TRUE) = u /\ UpOrDown(u, FALSE) = u /\ HalfAway(u) = u
      BY <1>4, <2>1, RoundingIntegral
    <2>3. UpOrDown(u, x.neg) = u /\ UpOrDown(u, ~x.neg) = u
      <3>1. (x.neg = TRUE /\ ~x.neg = FALSE) \/ (x.neg = FALSE /\ ~x.neg = TRUE)
        BY <1>1
      <3>2. QED
        BY <2>2, <3>1, Zenon
    <2>4. ~(j < 0)
      BY <1>1, <1>4
    <2>5. ceil(x) = x /\ floor(x) = x /\ round(x) = x
      BY <1>4, <2>4 DEF ceil, floor, round
    <2>6. QED
      BY <1>2, <2>2, <2>3, <2>5
  <1>5. CASE j >= 0 /\ ~(j >= P) /\ ~Integral(x, j)
    <2>1. j \in 0 .. P - 1 /\ ~(j < 0)
      BY <1>1, <1>5
    <2>2. /\ Is(Cut(x, j), x.neg, UpOrDown(u, FALSE))
          /\ Is(Cut(Away(x, j), j), x.neg, UpOrDown(u, TRUE))
          /\ Is(Cut(HalfMore(x, j), j), x.neg, HalfAway(u))
      BY <1>5, <2>1, RoundingInside
    <2>3. /\ ceil(x) = Cut(IF ~x.neg THEN Away(x, j) ELSE x, j)
          /\ floor(x) = Cut(IF x.neg THEN Away(x, j) ELSE x, j)
          /\ round(x) = Cut(HalfMore(x, j), j)
      BY <1>5, <2>1 DEF ceil, floor, round, HalfMore
    <2>4. CASE x.neg
      <3>1. x.neg = TRUE /\ ~x.neg = FALSE
        BY <1>1, <2>4
      <3>2. ceil(x) = Cut(x, j) /\ floor(x) = Cut(Away(x, j), j)
        BY <2>3, <2>4
      <3>3. QED
        BY <2>2, <2>3, <3>1, <3>2, Zenon
    <2>5. CASE ~x.neg
      <3>1. x.neg = FALSE /\ ~x.neg = TRUE
        BY <1>1, <2>5
      <3>2. floor(x) = Cut(x, j) /\ ceil(x) = Cut(Away(x, j), j)
        BY <2>3, <2>5
      <3>3. QED
        BY <2>2, <2>3, <3>1, <3>2, Zenon
    <2>6. QED
      BY <2>4, <2>5
  <1>6. QED
    BY <1>1, <1>3, <1>4, <1>5

(* The integer above, below or nearest, with the sign of the argument, also *)
(* for floats; and what is not finite stays.                               *)
LEMMA WholeCorrect ==
  ASSUME Format, WideExponents
  PROVE  \A x \in Double : WholeExact(x)
  <1> SUFFICES ASSUME NEW x \in Double
               PROVE  WholeExact(x)
    OBVIOUS
  <1>1. CASE Finite(x)
    <2>1. /\ Is(ceil(x), x.neg, UpOrDown(Units(x), ~x.neg))
          /\ Is(floor(x), x.neg, UpOrDown(Units(x), x.neg))
          /\ Is(round(x), x.neg, HalfAway(Units(x)))
      BY <1>1, RoundedDouble
    <2>2. x \in Float => ceilf(x) = ceil(x) /\ floorf(x) = floor(x) /\ roundf(x) = round(x)
      BY FloatRounding
    <2>3. QED
      BY <1>1, <2>1, <2>2, Zenon DEF WholeExact
  <1>2. CASE ~Finite(x)
    <2>1. P \in Nat /\ Bias \in Nat /\ P <= Bias /\ x.hi \div Pow2[H] \in 0 .. 2 * Bias + 1
      BY Sizes, Fields DEF WideExponents
    <2>2. ~(x.hi \div Pow2[H] <= 2 * Bias)
      BY <1>2, Fields
    <2>3. Exponent(x.hi) >= P /\ ~(Exponent(x.hi) < 0)
      BY <2>1, <2>2 DEF Exponent
    <2>4. ceil(x) = x /\ floor(x) = x /\ round(x) = x
      BY <2>3 DEF ceil, floor, round
    <2>5. QED
      BY <1>2, <2>4 DEF WholeExact
  <1>3. QED
    BY <1>1, <1>2

(***************************************************************************)
(* ldexp.                                                                  *)
(***************************************************************************)

(* The nearest integer does not change with the unit.                      *)
LEMMA HalfEvenScaled ==
  ASSUME NEW n, NEW d, NEW c, n \in Int, d \in Nat \ {0}, c \in Nat \ {0}
  PROVE  HalfEven(n * c, d * c) = HalfEven(n, d)
  <1>0. Scaled(n, d, c)
    BY ScaledDivision
  <1> DEFINE q == n \div d
             r == n % d
  <1>1. q \in Int /\ r \in Int
    BY DivMod
  <1>2. (n * c) \div (d * c) = q /\ (n * c) % (d * c) = r * c
    BY <1>0, Zenon DEF Scaled
  <1> HIDE DEF q, r
  <1>3. 2 * (r * c) > d * c <=> 2 * r > d
    <2>1. 2 * r > d => (2 * r) * c > d * c
      BY <1>1
    <2>2. 2 * r <= d => (2 * r) * c <= d * c
      BY <1>1
    <2>3. (2 * r) * c = 2 * (r * c) /\ r * c \in Int /\ d * c \in Int
      BY <1>1
    <2>4. QED
      BY <1>1, <2>1, <2>2, <2>3
  <1>4. 2 * (r * c) = d * c <=> 2 * r = d
    <2>1. 2 * r > d => (2 * r) * c > d * c
      BY <1>1
    <2>2. 2 * r < d => (2 * r) * c < d * c
      BY <1>1
    <2>3. (2 * r) * c = 2 * (r * c) /\ r * c \in Int /\ d * c \in Int
      BY <1>1
    <2>4. 2 * r = d => (2 * r) * c = d * c
      BY <1>1
    <2>5. QED
      BY <1>1, <2>1, <2>2, <2>3, <2>4
  <1>5. HalfEven(n * c, d * c) = IF 2 * (r * c) > d * c \/ (2 * (r * c) = d * c /\ q % 2 = 1) THEN q + 1 ELSE q
    BY <1>2, Zenon DEF HalfEven
  <1>6. HalfEven(n, d) = IF 2 * r > d \/ (2 * r = d /\ q % 2 = 1) THEN q + 1 ELSE q
    BY Zenon DEF HalfEven, q, r
  <1>7. QED
    BY <1>3, <1>4, <1>5, <1>6

LEMMA HalfEvenWhole ==
  ASSUME NEW q, NEW d, q \in Int, d \in Nat \ {0}
  PROVE  HalfEven(q * d, d) = q
  <1>1. Euclid(q * d, d, q, 0)
    <2>1. q * d \in Int
      OBVIOUS
    <2>2. QED
      BY <2>1 DEF Euclid
  <1>2. (q * d) \div d = q /\ (q * d) % d = 0
    BY <1>1, EuclidDivMod, Zenon
  <1>3. ~(2 * 0 > d) /\ ~(2 * 0 = d)
    OBVIOUS
  <1>4. QED
    BY <1>2, <1>3, Zenon DEF HalfEven

LEMMA HalfEvenSmall ==
  ASSUME NEW n, NEW d, n \in Nat, d \in Nat, 2 * n < d
  PROVE  HalfEven(n, d) = 0
  <1>1. Euclid(n, d, 0, n)
    BY DEF Euclid
  <1>2. n \div d = 0 /\ n % d = n
    BY <1>1, EuclidDivMod, Zenon
  <1>3. ~(2 * n > d) /\ ~(2 * n = d)
    OBVIOUS
  <1>4. QED
    BY <1>2, <1>3, Zenon DEF HalfEven

LEMMA HalfEvenBound ==
  ASSUME NEW n, NEW d, NEW b, n \in Nat, d \in Nat, d >= 2, b \in Nat, n < 2 * b
  PROVE  HalfEven(n, d) \in 0 .. b
  <1> DEFINE q == n \div d
             r == n % d
  <1>1. n = q * d + r /\ r \in 0 .. d - 1 /\ q \in Int
    <2>1. n \in Int /\ d \in Nat \ {0}
      OBVIOUS
    <2>2. QED
      BY <2>1, DivMod
  <1>2. HalfEven(n, d) = q \/ HalfEven(n, d) = q + 1
    BY Zenon DEF HalfEven, q
  <1> HIDE DEF q, r
  <1>3. q >= 0
    <2>1. q <= -1 => q * d <= -d
      BY <1>1
    <2>2. q * d \in Int
      BY <1>1
    <2>3. QED
      BY <1>1, <2>1, <2>2
  <1>4. q < b
    <2>1. q * d >= q * 2 /\ q * d \in Int
      BY <1>1, <1>3
    <2>2. QED
      BY <1>1, <2>1
  <1>5. QED
    BY <1>1, <1>2, <1>3, <1>4

(* A number below 2^p is brought to p + 1 bits by a shift.                 *)
Shifts(M0, p) == {i \in 1 .. p : Pow2[p] <= M0 * Pow2[i] /\ M0 * Pow2[i] < Pow2[p + 1]}

LEMMA ShiftExists ==
  \A p \in Nat : \A M0 \in 1 .. Pow2[p] - 1 : Shifts(M0, p) # {}
  <1> DEFINE S == {p \in Nat : \A M0 \in 1 .. Pow2[p] - 1 : Shifts(M0, p) # {}}
  <1>1. 0 \in S
    BY Pow2Zero
  <1>2. ASSUME NEW p \in Nat, p \in S
        PROVE  p + 1 \in S
    <2>1. SUFFICES ASSUME NEW M0 \in 1 .. Pow2[p + 1] - 1
                   PROVE  Shifts(M0, p + 1) # {}
      BY <1>2
    <2>2. /\ Pow2[p] \in Nat \ {0} /\ Pow2[p + 1] = 2 * Pow2[p] /\ Pow2[p + 1 + 1] = 2 * Pow2[p + 1]
          /\ Pow2[p + 1] \in Nat /\ M0 \in Nat
      BY Pow2Next, Pow2Type
    <2>3. CASE M0 < Pow2[p]
      <3>1. M0 \in 1 .. Pow2[p] - 1
        BY <2>2, <2>3
      <3>2. PICK i \in 1 .. p : Pow2[p] <= M0 * Pow2[i] /\ M0 * Pow2[i] < Pow2[p + 1]
        BY <1>2, <3>1 DEF Shifts
      <3>3. Pow2[i + 1] = 2 * Pow2[i] /\ Pow2[i] \in Nat /\ i + 1 \in 1 .. p + 1
        BY Pow2Next, Pow2Type
      <3>4. M0 * (2 * Pow2[i]) = 2 * (M0 * Pow2[i]) /\ M0 * Pow2[i] \in Nat
        BY <2>2, <3>3
      <3>5. Pow2[p + 1] <= M0 * Pow2[i + 1] /\ M0 * Pow2[i + 1] < Pow2[p + 1 + 1]
        BY <2>2, <3>2, <3>3, <3>4
      <3>6. QED
        BY <3>3, <3>5 DEF Shifts
    <2>4. CASE M0 >= Pow2[p]
      <3>1. Pow2[1] = 2 /\ 1 \in 1 .. p + 1
        <4>1. Pow2[0 + 1] = 2 * Pow2[0]
          BY Pow2Next
        <4>2. QED
          BY <4>1, Pow2Zero
      <3>2. Pow2[p + 1] <= M0 * Pow2[1] /\ M0 * Pow2[1] < Pow2[p + 1 + 1]
        BY <2>2, <2>4, <3>1
      <3>3. QED
        BY <3>1, <3>2 DEF Shifts
    <2>5. QED
      BY <2>2, <2>3, <2>4
  <1> HIDE DEF S
  <1>3. \A p \in Nat : p \in S
    BY <1>1, <1>2, Induction
  <1>4. QED
    BY <1>3 DEF S

(* x is 2^P + m, which has its first bit, times 2^(e - 1).                  *)
NormalForm(x, e, m) ==
  /\ m \in 0 .. Pow2[P] - 1
  /\ e \in 1 - P .. 2 * Bias
  /\ Units(x) \in Nat \ {0}
  /\ e >= 1 => Units(x) = (Pow2[P] + m) * Pow2[e - 1]
  /\ e < 1 => Units(x) * Pow2[1 - e] = Pow2[P] + m

(* What ldexp makes of that.                                               *)
ScaledForm(neg, e, m, n) ==
  LET k == IntSum(e, n)
  IN  IF e < 1 /\ n < -Far THEN Zero(neg)
      ELSE IF k > Pow2[E] - 2 THEN Infinity(neg)
      ELSE IF k > 0 THEN WithMantissa(neg, m, k)
      ELSE IF k <= -(P + 2) THEN Underflow(neg, n)
      ELSE WithMantissa(neg, HalfEven(Pow2[P] + m, Pow2[1 - k]), 0)

LEMMA LdexpForm ==
  ASSUME Format, NEW x \in Double, Finite(x), ~IsZero(x), NEW n
  PROVE  \E e, m : NormalForm(x, e, m) /\ ldexp(x, n) = ScaledForm(x.neg, e, m, n)
  <1> DEFINE M0 == Mantissa(x)
             f == x.hi \div Pow2[H]
             S == Pow2[P]
  <1>1. /\ P \in Nat /\ S \in Nat \ {0} /\ Bias \in Nat /\ Pow2[L] \in Nat \ {0}
        /\ Pow2[E] = 2 * Bias + 2 /\ Pow2[P + 1] = 2 * S
    BY Sizes, Pow2Next
  <1>2. /\ f \in 0 .. 2 * Bias /\ M0 \in 0 .. S - 1 /\ (x.hi < Pow2[H] <=> f = 0) /\ f \in Nat /\ M0 \in Nat
        /\ x.hi \in Nat /\ x.lo \in Nat
    <2>1. /\ f \in 0 .. 2 * Bias + 1 /\ M0 \in 0 .. S - 1 /\ (x.hi < Pow2[H] <=> f = 0) /\ f <= 2 * Bias
          /\ x \in Words
      BY Fields
    <2>2. QED
      BY <1>1, <2>1 DEF Words
  <1>3. CASE f = 0
    <2> DEFINE C(i) == Pow2[P] <= Mantissa(x) * Pow2[i] /\ Mantissa(x) * Pow2[i] < Pow2[P + 1]
               i == CHOOSE i \in 1 .. P : C(i)
               e == 1 - i
               m == M0 * Pow2[i] - S
    <2>1. Units(x) = M0 /\ Place(x) = M0
      BY <1>3, UnitsOf
    <2>2. M0 # 0
      <3>1. x.hi * Pow2[L] + x.lo = M0
        BY <2>1 DEF Place
      <3>2. x.hi # 0 => x.hi * Pow2[L] > 0
        BY <1>1, <1>2
      <3>3. x.hi * Pow2[L] \in Nat
        BY <1>1, <1>2
      <3>4. QED
        BY <1>2, <3>1, <3>2, <3>3 DEF IsZero
    <2>3. \E ii \in 1 .. P : C(ii)
      <3>1. Mantissa(x) \in 1 .. Pow2[P] - 1
        BY <1>1, <1>2, <2>2
      <3>2. Shifts(Mantissa(x), P) # {}
        BY <1>1, <3>1, ShiftExists
      <3>3. QED
        BY <3>2 DEF Shifts
    <2>4. i \in 1 .. P /\ C(i)
      BY <2>3, Zenon
    <2>5. Pow2[i] \in Nat
      BY <2>4, Pow2Type
    <2>6. M0 * Pow2[i] \in Nat /\ m \in 0 .. S - 1 /\ M0 * Pow2[i] = S + m
      <3>1. M0 * Pow2[i] \in Nat
        BY <1>2, <2>5
      <3>2. QED
        BY <1>1, <2>4, <3>1
    <2>7. e \in 1 - P .. 2 * Bias /\ e < 1 /\ ~(e >= 1) /\ 1 - e = i
      BY <1>1, <2>4
    <2>8. NormalForm(x, e, m)
      BY <1>2, <2>1, <2>2, <2>6, <2>7 DEF NormalForm
    <2>9. ldexp(x, n) = ScaledForm(x.neg, e, m, n)
      <3>1. x.hi < Pow2[H]
        BY <1>2, <1>3
      <3>2. S + m = Pow2[P] + m
        OBVIOUS
      <3> DEFINE k == IntSum(1 - i, n)
      <3>3. ldexp(x, n) =
              IF n < -Far THEN Zero(x.neg)
              ELSE IF k > Pow2[E] - 2 THEN Infinity(x.neg)
              ELSE IF k > 0 THEN WithMantissa(x.neg, m, k)
              ELSE IF k <= -(P + 2) THEN Underflow(x.neg, n)
              ELSE WithMantissa(x.neg, HalfEven(Pow2[P] + m, Pow2[1 - k]), 0)
        BY <3>1 DEF ldexp
      <3>4. QED
        BY <2>7, <3>3 DEF ScaledForm
    <2>10. QED
      BY <2>8, <2>9
  <1>4. CASE f # 0
    <2>1. Units(x) = (S + M0) * Pow2[f - 1] /\ Pow2[f - 1] \in Nat \ {0}
      <3>1. f - 1 \in Nat
        BY <1>2, <1>4
      <3>2. QED
        BY <1>4, <3>1, UnitsOf, Pow2Type
    <2>2. f \in 1 - P .. 2 * Bias /\ f >= 1 /\ ~(f < 1)
      BY <1>1, <1>2, <1>4
    <2>3. (S + M0) * Pow2[f - 1] \in Nat \ {0}
      BY <1>1, <1>2, <2>1
    <2>4. NormalForm(x, f, M0)
      BY <1>2, <2>1, <2>2, <2>3 DEF NormalForm
    <2>5. ldexp(x, n) = ScaledForm(x.neg, f, M0, n)
      <3>1. ~(x.hi < Pow2[H])
        BY <1>2, <1>4
      <3>2. ldexp(x, n) =
              IF IntSum(f, n) > Pow2[E] - 2 THEN Infinity(x.neg)
              ELSE IF IntSum(f, n) > 0 THEN WithMantissa(x.neg, M0, IntSum(f, n))
              ELSE IF IntSum(f, n) <= -(P + 2) THEN Underflow(x.neg, n)
              ELSE WithMantissa(x.neg, HalfEven(Pow2[P] + M0, Pow2[1 - IntSum(f, n)]), 0)
        BY <3>1 DEF ldexp
      <3>3. QED
        BY <2>2, <3>2 DEF ScaledForm
    <2>6. QED
      BY <2>4, <2>5
  <1>5. QED
    BY <1>3, <1>4

(* The sum of an exponent and a number is right, or far beyond what is     *)
(* asked of it.                                                            *)
LEMMA SumOfInts ==
  ASSUME Format, WideInts, NEW e \in 1 - P .. 2 * Bias, NEW n \in -MaxInt - 1 .. MaxInt
  PROVE  /\ e + n \in -MaxInt - 1 .. MaxInt => IntSum(e, n) = e + n
         /\ e + n > MaxInt => n > Far /\ IntSum(e, n) <= -(P + 2)
         /\ e + n < -MaxInt - 1 => e < 1 /\ n < -Far
  <1> DEFINE I == MaxInt + 1
  <1>1. P \in Nat /\ Bias \in Nat /\ Pow2[E] = 2 * Bias + 2
    BY Sizes
  <1>2. MaxInt \in Nat /\ Far \in Nat /\ P + (2 * Bias + 2) <= Far /\ Far + P + (2 * Bias + 2) <= MaxInt
    BY <1>1 DEF WideInts
  <1>3. I \in Nat \ {0} /\ e \in Int /\ n \in Int
    BY <1>1, <1>2
  <1>4. IntSum(e, n) = ((e + n + I) % (2 * I)) - I
    <2>1. e + n + MaxInt + 1 = e + n + I
      BY <1>2, <1>3
    <2>2. QED
      BY <2>1, Zenon DEF IntSum
  <1>5. ASSUME e + n \in -MaxInt - 1 .. MaxInt
        PROVE  IntSum(e, n) = e + n
    <2>1. Euclid(e + n + I, 2 * I, 0, e + n + I)
      BY <1>2, <1>3, <1>5 DEF Euclid
    <2>2. (e + n + I) % (2 * I) = e + n + I
      BY <2>1, EuclidDivMod, Zenon
    <2>3. QED
      BY <1>2, <1>3, <1>4, <2>2
  <1>6. ASSUME e + n > MaxInt
        PROVE  n > Far /\ IntSum(e, n) <= -(P + 2)
    <2>1. Euclid(e + n + I, 2 * I, 1, e + n - I)
      BY <1>1, <1>2, <1>3, <1>6 DEF Euclid
    <2>2. (e + n + I) % (2 * I) = e + n - I
      BY <2>1, EuclidDivMod, Zenon
    <2>3. IntSum(e, n) = e + n - I - I
      BY <1>3, <1>4, <2>2
    <2>4. QED
      BY <1>1, <1>2, <1>3, <1>6, <2>3
  <1>7. ASSUME e + n < -MaxInt - 1
        PROVE  e < 1 /\ n < -Far
    BY <1>1, <1>2, <1>3, <1>7
  <1>8. QED
    BY <1>5, <1>6, <1>7

LEMMA PositiveBias ==
  ASSUME Format
  PROVE  Bias \in Nat \ {0} /\ P \in Nat /\ Pow2[P] \in Nat \ {0} /\ Pow2[P + 1] = 2 * Pow2[P]
         /\ Pow2[E] = 2 * Bias + 2
  <1>1. E - 1 \in Nat /\ E - 2 \in Nat
    BY DEF Format
  <1>2. Pow2[E - 2 + 1] = 2 * Pow2[E - 2] /\ Pow2[E - 2] \in Nat \ {0} /\ E - 2 + 1 = E - 1
    <2>1. Pow2[E - 2 + 1] = 2 * Pow2[E - 2] /\ Pow2[E - 2] \in Nat \ {0}
      BY <1>1, Pow2Next, Pow2Type
    <2>2. E - 2 + 1 = E - 1
      BY DEF Format
    <2>3. QED
      BY <2>1, <2>2
  <1>3. Bias = Pow2[E - 1] - 1
    BY DEF Bias
  <1>4. Pow2[E - 1] = 2 * Pow2[E - 2]
    BY <1>2, Zenon
  <1>5. Bias # 0
    BY <1>2, <1>3, <1>4
  <1>6. QED
    BY <1>5, Sizes, Pow2Next

LEMMA WithMantissaPlace ==
  ASSUME Format, NEW neg \in BOOLEAN, NEW m \in Nat, NEW k \in Nat
  PROVE  LET r == WithMantissa(neg, m, k)
         IN  r \in Words /\ r.neg = neg /\ Place(r) = m + k * Pow2[P]
  <1> DEFINE q == m \div Pow2[L]
             l == m % Pow2[L]
             r == WithMantissa(neg, m, k)
  <1>1. Pow2[H] \in Nat \ {0} /\ Pow2[L] \in Nat \ {0} /\ Pow2[P] = Pow2[H] * Pow2[L]
    BY Sizes
  <1>2. m = q * Pow2[L] + l /\ l \in 0 .. Pow2[L] - 1 /\ q \in Int
    <2>1. m \in Int
      OBVIOUS
    <2>2. QED
      BY <1>1, <2>1, DivMod
  <1>3. r.neg = neg /\ r.hi = q + k * Pow2[H] /\ r.lo = l /\ r = [neg |-> neg, hi |-> q + k * Pow2[H], lo |-> l]
    BY DEF WithMantissa
  <1> HIDE DEF q, l, r
  <1>4. q \in Nat
    <2>1. q <= -1 => q * Pow2[L] <= -Pow2[L]
      BY <1>1, <1>2
    <2>2. q * Pow2[L] \in Int
      BY <1>1, <1>2
    <2>3. QED
      BY <1>1, <1>2, <2>1, <2>2
  <1>5. k * Pow2[H] \in Nat /\ k * Pow2[P] \in Nat /\ q * Pow2[L] \in Nat
    <2>1. k * Pow2[H] \in Nat
      BY <1>1
    <2>2. Pow2[P] \in Nat
      BY Sizes
    <2>3. QED
      BY <1>1, <1>4, <2>1, <2>2
  <1>6. r \in Words
    BY <1>2, <1>3, <1>4, <1>5 DEF Words
  <1>7. (q + k * Pow2[H]) * Pow2[L] = q * Pow2[L] + k * Pow2[P]
    <2>1. (k * Pow2[H]) * Pow2[L] = k * (Pow2[H] * Pow2[L])
      BY <1>1
    <2>2. (q + k * Pow2[H]) * Pow2[L] = q * Pow2[L] + (k * Pow2[H]) * Pow2[L]
      BY <1>1, <1>4, <1>5
    <2>3. QED
      BY <1>1, <2>1, <2>2, Zenon
  <1>8. Place(r) = (q + k * Pow2[H]) * Pow2[L] + l
    BY <1>3, Zenon DEF Place
  <1>9. Place(r) = m + k * Pow2[P]
    BY <1>2, <1>5, <1>7, <1>8
  <1>10. QED
    BY <1>3, <1>6, <1>9 DEF r

(* The largest of the numbers.                                             *)
Largest == [neg |-> FALSE, hi |-> Special - 1, lo |-> Pow2[L] - 1]

LEMMA LargestUnits ==
  ASSUME Format
  PROVE  Units(Largest) = (2 * Pow2[P] - 1) * Pow2[2 * Bias - 1]
  <1> DEFINE Top == 2 * Bias
             S == Pow2[P]
  <1>1. Bias \in Nat \ {0} /\ S \in Nat \ {0}
    BY PositiveBias
  <1>2. /\ Pow2[H] \in Nat \ {0} /\ Pow2[L] \in Nat \ {0} /\ S = Pow2[H] * Pow2[L]
        /\ Special = (Top + 1) * Pow2[H] /\ Special \in Nat \ {0}
    BY Sizes
  <1>3. Largest \in Words /\ Largest.hi = Special - 1 /\ Largest.lo = Pow2[L] - 1
    BY <1>2 DEF Largest, Words
  <1>4. Place(Largest) = (Special - 1) * Pow2[L] + (Pow2[L] - 1)
    BY <1>3, Zenon DEF Place
  <1>5. (Special - 1) * Pow2[L] = Special * Pow2[L] - Pow2[L] /\ Special * Pow2[L] \in Nat
    BY <1>2
  <1>6. Special * Pow2[L] = (Top + 1) * S
    <2>1. ((Top + 1) * Pow2[H]) * Pow2[L] = (Top + 1) * (Pow2[H] * Pow2[L])
      BY <1>1, <1>2
    <2>2. QED
      BY <1>2, <2>1, Zenon
  <1>7. (Top + 1) * S = (Top - 1) * S + 2 * S /\ (Top - 1) * S \in Nat /\ Top \in Nat \ {0}
    BY <1>1
  <1>8. Place(Largest) = (Top - 1) * S + (2 * S - 1) /\ Place(Largest) < (Top + 1) * S
    BY <1>1, <1>2, <1>4, <1>5, <1>6, <1>7
  <1>9. 2 * S - 1 \in 0 .. 2 * S /\ 2 * S - 1 >= S
    BY <1>1
  <1>10. Units(Largest) = (2 * S - 1) * Pow2[Top - 1]
    BY <1>3, <1>7, <1>8, <1>9, UnitsAt
  <1>11. QED
    BY <1>10

(* What n makes of a number, when the sum of the exponents is not below    *)
(* the least.                                                              *)
LEMMA ScaledUp ==
  ASSUME Format, NEW x, NEW e, NEW m, NormalForm(x, e, m), NEW n \in Int, e + n >= 1
  PROVE  LET w == (Pow2[P] + m) * Pow2[e + n - 1]
         IN  /\ w \in Nat
             /\ n >= 0 => Units(x) * Pow2[n] = w
             /\ n < 0 => Units(x) = w * Pow2[-n]
  <1> DEFINE Num == Pow2[P] + m
             k == e + n
             u == Units(x)
  <1>1. Num \in Nat /\ e \in Int /\ u \in Nat
    BY PositiveBias DEF NormalForm
  <1>2. k - 1 \in Nat /\ Pow2[k - 1] \in Nat
    BY <1>1, Pow2Type
  <1>3. Num * Pow2[k - 1] \in Nat
    BY <1>1, <1>2
  <1>4. ASSUME n >= 0, e >= 1
        PROVE  u * Pow2[n] = Num * Pow2[k - 1]
    <2>1. u = Num * Pow2[e - 1]
      BY <1>4 DEF NormalForm
    <2>2. k - 1 \in Nat /\ n \in 0 .. k - 1 /\ (k - 1) - n = e - 1
      BY <1>1, <1>4
    <2>3. Pow2[k - 1] = Pow2[n] * Pow2[e - 1] /\ Pow2[n] \in Nat /\ Pow2[e - 1] \in Nat
      <3>1. Pow2[k - 1] = Pow2[n] * Pow2[(k - 1) - n] /\ Pow2[n] \in Nat /\ Pow2[(k - 1) - n] \in Nat
        BY <2>2, Pow2Split
      <3>2. QED
        BY <2>2, <3>1, Zenon
    <2>4. (Num * Pow2[e - 1]) * Pow2[n] = Num * (Pow2[n] * Pow2[e - 1])
      BY <1>1, <2>3
    <2>5. QED
      BY <2>1, <2>3, <2>4, Zenon
  <1>5. ASSUME n >= 0, e < 1
        PROVE  u * Pow2[n] = Num * Pow2[k - 1]
    <2>1. u * Pow2[1 - e] = Num
      BY <1>5 DEF NormalForm
    <2>2. n \in Nat /\ 1 - e \in 0 .. n /\ n - (1 - e) = k - 1
      BY <1>1, <1>5
    <2>3. Pow2[n] = Pow2[1 - e] * Pow2[k - 1] /\ Pow2[1 - e] \in Nat
      <3>1. Pow2[n] = Pow2[1 - e] * Pow2[n - (1 - e)] /\ Pow2[1 - e] \in Nat
        BY <2>2, Pow2Split
      <3>2. QED
        BY <2>2, <3>1, Zenon
    <2>4. u * (Pow2[1 - e] * Pow2[k - 1]) = (u * Pow2[1 - e]) * Pow2[k - 1]
      BY <1>1, <1>2, <2>3
    <2>5. QED
      BY <2>1, <2>3, <2>4, Zenon
  <1>6. ASSUME n < 0
        PROVE  u = (Num * Pow2[k - 1]) * Pow2[-n]
    <2>1. e >= 1 /\ u = Num * Pow2[e - 1]
      BY <1>1, <1>6 DEF NormalForm
    <2>2. e - 1 \in Nat /\ k - 1 \in 0 .. e - 1 /\ (e - 1) - (k - 1) = -n
      BY <1>1, <1>6, <2>1
    <2>3. Pow2[e - 1] = Pow2[k - 1] * Pow2[-n] /\ Pow2[-n] \in Nat
      <3>1. Pow2[e - 1] = Pow2[k - 1] * Pow2[(e - 1) - (k - 1)] /\ Pow2[(e - 1) - (k - 1)] \in Nat
        BY <2>2, Pow2Split
      <3>2. QED
        BY <2>2, <3>1, Zenon
    <2>4. (Num * Pow2[k - 1]) * Pow2[-n] = Num * (Pow2[k - 1] * Pow2[-n])
      BY <1>1, <1>2, <2>3
    <2>5. QED
      BY <2>1, <2>3, <2>4, Zenon
  <1>7. QED
    BY <1>1, <1>3, <1>4, <1>5, <1>6

(* And when it is.                                                         *)
LEMMA ScaledDown ==
  ASSUME Format, NEW x, NEW e, NEW m, NormalForm(x, e, m), NEW n \in Int, e + n <= 0
  PROVE  LET h == HalfEven(Pow2[P] + m, Pow2[1 - (e + n)])
         IN  /\ h \in 0 .. Pow2[P]
             /\ e + n <= -(P + 2) => h = 0
             /\ n >= 0 => Units(x) * Pow2[n] = h
             /\ n < 0 => HalfEven(Units(x), Pow2[-n]) = h
  <1> DEFINE Num == Pow2[P] + m
             k == e + n
             u == Units(x)
             h == HalfEven(Num, Pow2[1 - k])
  <1>1. Num \in Nat /\ Num < 2 * Pow2[P] /\ e \in Int /\ u \in Nat /\ P \in Nat /\ Pow2[P] \in Nat /\ P + e - 1 \in Nat
    BY PositiveBias DEF NormalForm
  <1>2. -k \in Nat /\ 1 - k \in Nat /\ Pow2[1 - k] \in Nat \ {0} /\ Pow2[1 - k] >= 2
    <2>1. -k \in Nat
      BY <1>1
    <2>2. Pow2[-k + 1] = 2 * Pow2[-k] /\ Pow2[-k] \in Nat \ {0} /\ -k + 1 = 1 - k
      BY <1>1, <2>1, Pow2Next, Pow2Type
    <2>3. Pow2[1 - k] = 2 * Pow2[-k]
      BY <2>2, Zenon
    <2>4. QED
      BY <1>1, <2>1, <2>2, <2>3
  <1>3. h \in 0 .. Pow2[P]
    <2> HIDE DEF Num
    <2>1. QED
      BY <1>1, <1>2, HalfEvenBound
  <1>4. ASSUME k <= -(P + 2)
        PROVE  h = 0
    <2>1. 1 - k \in Nat /\ P + 2 \in 0 .. 1 - k
      BY <1>1, <1>4
    <2>2. Pow2[1 - k] = Pow2[P + 2] * Pow2[(1 - k) - (P + 2)] /\ Pow2[P + 2] \in Nat /\ Pow2[(1 - k) - (P + 2)] \in Nat \ {0}
      BY <2>1, Pow2Split
    <2>3. (1 - k) - (P + 2) \in Nat \ {0}
      BY <1>1, <1>4
    <2>4. Pow2[(1 - k) - (P + 2)] >= 2
      <3>1. (1 - k) - (P + 2) - 1 \in Nat
        BY <1>1, <1>4
      <3>2. Pow2[((1 - k) - (P + 2) - 1) + 1] = 2 * Pow2[(1 - k) - (P + 2) - 1] /\ Pow2[(1 - k) - (P + 2) - 1] \in Nat \ {0}
        BY <3>1, Pow2Next, Pow2Type
      <3>3. ((1 - k) - (P + 2) - 1) + 1 = (1 - k) - (P + 2)
        BY <2>3
      <3>4. Pow2[(1 - k) - (P + 2)] = 2 * Pow2[(1 - k) - (P + 2) - 1]
        BY <3>2, <3>3, Zenon
      <3>5. QED
        BY <3>2, <3>4
    <2>5. Pow2[P + 2] = 4 * Pow2[P]
      <3>1. Pow2[P + 1 + 1] = 2 * Pow2[P + 1] /\ Pow2[P + 1] = 2 * Pow2[P] /\ P + 1 + 1 = P + 2
        BY <1>1, Pow2Next
      <3>2. QED
        BY <1>1, <3>1
    <2>6. Pow2[1 - k] >= Pow2[P + 2] * 2
      <3> DEFINE a == Pow2[P + 2]
                 b == Pow2[(1 - k) - (P + 2)]
      <3>1. a \in Nat /\ b \in Nat /\ b >= 2 /\ Pow2[1 - k] = a * b
        BY <2>2, <2>4, Zenon
      <3> HIDE DEF a, b
      <3>2. a * b >= a * 2
        BY <3>1
      <3>3. QED
        BY <3>1, <3>2 DEF a
    <2>7. 2 * Num < Pow2[1 - k]
      BY <1>1, <1>2, <2>5, <2>6
    <2> HIDE DEF Num
    <2>8. QED
      BY <1>1, <1>2, <2>7, HalfEvenSmall
  <1>5. ASSUME n >= 0
        PROVE  u * Pow2[n] = h
    <2>1. e < 1 /\ u * Pow2[1 - e] = Num
      BY <1>1, <1>5 DEF NormalForm
    <2>2. 1 - e \in Nat /\ n \in 0 .. 1 - e /\ (1 - e) - n = 1 - k
      BY <1>1, <1>5, <2>1
    <2>3. Pow2[1 - e] = Pow2[n] * Pow2[1 - k] /\ Pow2[n] \in Nat
      <3>1. Pow2[1 - e] = Pow2[n] * Pow2[(1 - e) - n] /\ Pow2[n] \in Nat
        BY <2>2, Pow2Split
      <3>2. QED
        BY <2>2, <3>1, Zenon
    <2>4. u * (Pow2[n] * Pow2[1 - k]) = (u * Pow2[n]) * Pow2[1 - k] /\ u * Pow2[n] \in Int
      BY <1>1, <1>2, <2>3
    <2>5. Num = (u * Pow2[n]) * Pow2[1 - k]
      BY <2>1, <2>3, <2>4, Zenon
    <2>6. HalfEven((u * Pow2[n]) * Pow2[1 - k], Pow2[1 - k]) = u * Pow2[n]
      BY <1>2, <2>4, HalfEvenWhole
    <2>7. QED
      BY <2>5, <2>6, Zenon
  <1>6. u * Pow2[P] = Num * Pow2[P + e - 1] /\ Pow2[P + e - 1] \in Nat \ {0}
    <2>1. Pow2[P + e - 1] \in Nat \ {0}
      BY <1>1, Pow2Type
    <2>2. CASE e >= 1
      <3>1. u = Num * Pow2[e - 1] /\ e - 1 \in Nat
        BY <1>1, <2>2 DEF NormalForm
      <3>2. P \in 0 .. P + e - 1 /\ (P + e - 1) - P = e - 1
        BY <1>1, <2>2
      <3>3. Pow2[P + e - 1] = Pow2[P] * Pow2[e - 1] /\ Pow2[e - 1] \in Nat
        <4>1. Pow2[P + e - 1] = Pow2[P] * Pow2[(P + e - 1) - P] /\ Pow2[(P + e - 1) - P] \in Nat
          BY <1>1, <3>2, Pow2Split
        <4>2. QED
          BY <3>2, <4>1, Zenon
      <3>4. (Num * Pow2[e - 1]) * Pow2[P] = Num * (Pow2[P] * Pow2[e - 1])
        BY <1>1, <3>3
      <3>5. u * Pow2[P] = Num * Pow2[P + e - 1]
        BY <3>1, <3>3, <3>4, Zenon
      <3>6. QED
        BY <2>1, <3>5
    <2>3. CASE e < 1
      <3>1. u * Pow2[1 - e] = Num
        BY <2>3 DEF NormalForm
      <3>2. 1 - e \in 0 .. P /\ P - (1 - e) = P + e - 1
        BY <1>1, <2>3
      <3>3. Pow2[P] = Pow2[1 - e] * Pow2[P + e - 1] /\ Pow2[1 - e] \in Nat
        <4>1. Pow2[P] = Pow2[1 - e] * Pow2[P - (1 - e)] /\ Pow2[1 - e] \in Nat
          BY <1>1, <3>2, Pow2Split
        <4>2. QED
          BY <3>2, <4>1, Zenon
      <3>4. u * (Pow2[1 - e] * Pow2[P + e - 1]) = (u * Pow2[1 - e]) * Pow2[P + e - 1]
        BY <1>1, <2>1, <3>3
      <3>5. u * Pow2[P] = Num * Pow2[P + e - 1]
        BY <3>1, <3>3, <3>4, Zenon
      <3>6. QED
        BY <2>1, <3>5
    <2>4. QED
      BY <1>1, <2>2, <2>3
  <1>7. ASSUME n < 0
        PROVE  HalfEven(u, Pow2[-n]) = h
    <2>1. -n \in Nat /\ Pow2[-n] \in Nat \ {0} /\ Pow2[P] \in Nat \ {0}
      BY <1>1, <1>7, Pow2Type
    <2>2. Pow2[-n] * Pow2[P] = Pow2[1 - k] * Pow2[P + e - 1]
      <3>1. P - n \in Nat /\ -n \in 0 .. P - n /\ (P - n) - (-n) = P
        BY <1>1, <1>7
      <3>2. P - n \in Nat /\ 1 - k \in 0 .. P - n /\ (P - n) - (1 - k) = P + e - 1
        BY <1>1, <1>2, <1>7
      <3>3. Pow2[P - n] = Pow2[-n] * Pow2[(P - n) - (-n)]
        BY <3>1, Pow2Split
      <3>4. Pow2[P - n] = Pow2[1 - k] * Pow2[(P - n) - (1 - k)]
        BY <3>2, Pow2Split
      <3>5. QED
        BY <3>1, <3>2, <3>3, <3>4, Zenon
    <2>3. HalfEven(u * Pow2[P], Pow2[-n] * Pow2[P]) = HalfEven(u, Pow2[-n])
      BY <1>1, <2>1, HalfEvenScaled
    <2>4. HalfEven(Num * Pow2[P + e - 1], Pow2[1 - k] * Pow2[P + e - 1]) = HalfEven(Num, Pow2[1 - k])
      <3> HIDE DEF Num, k
      <3>1. QED
        BY <1>1, <1>2, <1>6, HalfEvenScaled
    <2>5. QED
      BY <1>6, <2>2, <2>3, <2>4, Zenon
  <1>8. QED
    BY <1>1, <1>3, <1>4, <1>5, <1>7

(* A number whose exponent is in the range of the exponents.               *)
LEMMA ScaledNormal ==
  ASSUME Format, NEW neg \in BOOLEAN, NEW m \in 0 .. Pow2[P] - 1, NEW k \in 1 .. 2 * Bias
  PROVE  /\ Is(WithMantissa(neg, m, k), neg, (Pow2[P] + m) * Pow2[k - 1])
         /\ (Pow2[P] + m) * Pow2[k - 1] <= Units(Largest)
  <1> DEFINE S == Pow2[P]
             r == WithMantissa(neg, m, k)
             Num == S + m
             Top == 2 * Bias
  <1>1. S \in Nat \ {0} /\ Bias \in Nat \ {0}
    BY PositiveBias
  <1>2. r \in Words /\ r.neg = neg /\ Place(r) = m + k * S
    <2>1. m \in Nat /\ k \in Nat
      BY <1>1
    <2>2. QED
      BY <2>1, WithMantissaPlace
  <1>3. k * S = (k - 1) * S + S /\ (k - 1) * S \in Nat /\ (Top + 1) * S = Top * S + S /\ k * S <= Top * S
    <2>1. k \in Nat /\ k - 1 \in Nat /\ Top \in Nat
      BY <1>1
    <2>2. k * S <= Top * S
      BY <1>1, <2>1
    <2>3. QED
      BY <1>1, <2>1, <2>2
  <1>4. Place(r) = (k - 1) * S + Num /\ Place(r) < (Top + 1) * S
    <2>1. k * S \in Nat /\ Top * S \in Nat
      BY <1>1
    <2>2. QED
      BY <1>1, <1>2, <1>3, <2>1
  <1>5. Num \in 0 .. 2 * S /\ Num >= S /\ k \in Nat \ {0} /\ Num \in Nat
    BY <1>1
  <1>6. r \in Double /\ Finite(r) /\ Units(r) = Num * Pow2[k - 1]
    BY <1>2, <1>4, <1>5, UnitsAt
  <1>7. Num * Pow2[k - 1] <= Units(Largest)
    <2>1. Top - 1 \in Nat /\ k - 1 \in 0 .. Top - 1
      BY <1>1
    <2>2. Pow2[Top - 1] = Pow2[k - 1] * Pow2[(Top - 1) - (k - 1)]
          /\ Pow2[k - 1] \in Nat \ {0} /\ Pow2[(Top - 1) - (k - 1)] \in Nat \ {0}
      BY <2>1, Pow2Split
    <2> DEFINE a == Pow2[k - 1]
               b == Pow2[(Top - 1) - (k - 1)]
               c == Pow2[Top - 1]
    <2>3. a \in Nat /\ b \in Nat \ {0} /\ c = a * b
      BY <2>2, Zenon
    <2> HIDE DEF a, b, c
    <2>4. a <= c /\ c \in Nat
      BY <2>3
    <2> HIDE DEF Num, S
    <2>5. Num <= 2 * S - 1
      BY <1>1 DEF Num, S
    <2>6. Num * a <= (2 * S - 1) * a
      BY <1>1, <1>5, <2>3, <2>5
    <2>7. (2 * S - 1) * a <= (2 * S - 1) * c
      BY <1>1, <2>3, <2>4
    <2>8. Units(Largest) = (2 * S - 1) * c
      BY LargestUnits DEF S, c
    <2>9. Num * a \in Int /\ (2 * S - 1) * a \in Int /\ (2 * S - 1) * c \in Int
      BY <1>1, <1>5, <2>3, <2>4
    <2>10. Num * a <= Units(Largest)
      BY <2>6, <2>7, <2>8, <2>9
    <2>11. QED
      BY <2>10 DEF a
  <1>8. QED
    BY <1>2, <1>6, <1>7 DEF Is

(* And one above it.                                                       *)
LEMMA ScaledBeyond ==
  ASSUME Format, NEW m \in Nat, NEW k \in Nat, k > 2 * Bias
  PROVE  (Pow2[P] + m) * Pow2[k - 1] > Units(Largest)
  <1> DEFINE S == Pow2[P]
             Top == 2 * Bias
             b == Pow2[(k - 1) - Top]
             c == Pow2[Top - 1]
  <1>1. S \in Nat \ {0} /\ Bias \in Nat \ {0} /\ Top \in Nat \ {0}
    BY PositiveBias
  <1>2. Pow2[k - 1] = Pow2[Top] * b /\ b \in Nat \ {0}
    <2>1. k - 1 \in Nat /\ Top \in 0 .. k - 1
      BY <1>1
    <2>2. QED
      BY <2>1, Pow2Split
  <1>3. Pow2[Top] = 2 * c /\ c \in Nat \ {0}
    <2>1. Pow2[(Top - 1) + 1] = 2 * Pow2[Top - 1] /\ Pow2[Top - 1] \in Nat \ {0}
      BY <1>1, Pow2Next, Pow2Type
    <2>2. (Top - 1) + 1 = Top
      BY <1>1
    <2>3. QED
      BY <2>1, <2>2, Zenon
  <1>4. Units(Largest) = (2 * S - 1) * c
    BY LargestUnits
  <1>5. Pow2[k - 1] = (2 * c) * b
    BY <1>2, <1>3, Zenon
  <1> HIDE DEF S, b, c, Top
  <1>6. (2 * c) * b >= 2 * c /\ (2 * c) * b \in Nat
    BY <1>2, <1>3
  <1>7. (S + m) * ((2 * c) * b) >= S * ((2 * c) * b)
    BY <1>1, <1>6
  <1>8. S * ((2 * c) * b) >= S * (2 * c)
    BY <1>1, <1>3, <1>6
  <1>9. S * (2 * c) = (2 * S - 1) * c + c
    BY <1>1, <1>3
  <1>10. (S + m) * ((2 * c) * b) \in Int /\ S * ((2 * c) * b) \in Int /\ S * (2 * c) \in Int /\ (2 * S - 1) * c \in Int
    BY <1>1, <1>3, <1>6
  <1>11. (S + m) * ((2 * c) * b) > Units(Largest)
    BY <1>3, <1>4, <1>7, <1>8, <1>9, <1>10
  <1>12. QED
    BY <1>5, <1>11, Zenon DEF S

(* A number below it.                                                      *)
LEMMA ScaledSubnormal ==
  ASSUME Format, NEW neg \in BOOLEAN, NEW h \in 0 .. Pow2[P]
  PROVE  Is(WithMantissa(neg, h, 0), neg, h) /\ h <= Units(Largest)
  <1> DEFINE S == Pow2[P]
             r == WithMantissa(neg, h, 0)
  <1>1. S \in Nat \ {0} /\ Bias \in Nat \ {0} /\ h \in Nat
    BY PositiveBias
  <1>2. r \in Words /\ r.neg = neg /\ Place(r) = h + 0 * S
    BY <1>1, WithMantissaPlace
  <1>3. 0 * S = 0
    BY <1>1
  <1>4. Place(r) = h /\ Place(r) <= S
    BY <1>1, <1>2, <1>3
  <1>5. Is(r, neg, h)
    <2> HIDE DEF r
    <2>1. r \in Double /\ Finite(r) /\ Units(r) = Place(r)
      BY <1>1, <1>2, <1>4, UnitsBelow
    <2>2. QED
      BY <1>2, <1>4, <2>1 DEF Is
  <1>6. h <= Units(Largest)
    <2>1. Pow2[2 * Bias - 1] \in Nat \ {0}
      BY <1>1, Pow2Type
    <2> DEFINE c == Pow2[2 * Bias - 1]
    <2>2. c \in Nat \ {0} /\ Units(Largest) = (2 * S - 1) * c
      BY <2>1, LargestUnits
    <2> HIDE DEF c, S
    <2>3. (2 * S - 1) * c >= 2 * S - 1 /\ (2 * S - 1) * c \in Int
      BY <1>1, <2>2
    <2>4. h <= S
      BY DEF S
    <2>5. QED
      BY <1>1, <2>2, <2>3, <2>4
  <1>7. QED
    BY <1>5, <1>6

LEMMA ScaledZero ==
  ASSUME Format, NEW neg \in BOOLEAN
  PROVE  Is(Zero(neg), neg, 0)
  <1>1. /\ Pow2[L] \in Nat \ {0} /\ Pow2[P] \in Nat \ {0} /\ Bias # 0
    BY PositiveBias, Sizes
  <1>2. Zero(neg) \in Words /\ Zero(neg).neg = neg /\ Zero(neg).hi = 0 /\ Zero(neg).lo = 0
    BY <1>1 DEF Zero, Words
  <1>3. Place(Zero(neg)) = 0
    BY <1>1, <1>2 DEF Place
  <1>4. Zero(neg) \in Double /\ Finite(Zero(neg)) /\ Units(Zero(neg)) = 0
    <2>1. Place(Zero(neg)) <= Pow2[P]
      BY <1>1, <1>3
    <2>2. QED
      BY <1>1, <1>2, <1>3, <2>1, UnitsBelow
  <1>5. QED
    BY <1>2, <1>4 DEF Is

(* What LdexpExact says of a result, in the form of the sum.               *)
LdexpResult(r, x, n) ==
  LET v == Units(x) * Pow2[n]
  IN  IF n < 0 THEN Is(r, x.neg, IF n < -2 * P - Pow2[E] THEN 0 ELSE HalfEven(Units(x), Pow2[-n]))
      ELSE IF n > Pow2[E] + P \/ v > Units(Largest) THEN r = Infinity(x.neg)
      ELSE Is(r, x.neg, v)

LEMMA LdexpScaled ==
  ASSUME Format, WideInts, NEW x \in Double, NEW n \in -MaxInt - 1 .. MaxInt, NEW e, NEW m, NormalForm(x, e, m)
  PROVE  LdexpResult(ScaledForm(x.neg, e, m, n), x, n)
  <1> DEFINE k == IntSum(e, n)
             r == ScaledForm(x.neg, e, m, n)
             w == (Pow2[P] + m) * Pow2[e + n - 1]
             h == HalfEven(Pow2[P] + m, Pow2[1 - (e + n)])
  <1>1. Bias \in Nat \ {0} /\ P \in Nat /\ Pow2[E] = 2 * Bias + 2 /\ x.neg \in BOOLEAN
    BY PositiveBias DEF Double
  <1>2. /\ MaxInt \in Nat /\ Far \in Nat /\ P + (2 * Bias + 2) <= Far /\ Far + P + (2 * Bias + 2) <= MaxInt
        /\ n \in Int
    BY <1>1 DEF WideInts
  <1>3. e \in 1 - P .. 2 * Bias /\ e \in Int /\ m \in 0 .. Pow2[P] - 1 /\ m \in Nat
    BY <1>1, PositiveBias DEF NormalForm
  <1>4. /\ e + n \in -MaxInt - 1 .. MaxInt => k = e + n
        /\ e + n > MaxInt => n > Far /\ k <= -(P + 2)
        /\ e + n < -MaxInt - 1 => e < 1 /\ n < -Far
    BY <1>3, SumOfInts
  <1>5. r = IF e < 1 /\ n < -Far THEN Zero(x.neg)
            ELSE IF k > Pow2[E] - 2 THEN Infinity(x.neg)
            ELSE IF k > 0 THEN WithMantissa(x.neg, m, k)
            ELSE IF k <= -(P + 2) THEN Underflow(x.neg, n)
            ELSE WithMantissa(x.neg, HalfEven(Pow2[P] + m, Pow2[1 - k]), 0)
    BY Zenon DEF ScaledForm
  <1>6. e + n >= 1 => /\ w \in Nat
                      /\ n >= 0 => Units(x) * Pow2[n] = w
                      /\ n < 0 => Units(x) = w * Pow2[-n]
    BY <1>2, ScaledUp
  <1>7. e + n <= 0 => /\ h \in 0 .. Pow2[P]
                      /\ e + n <= -(P + 2) => h = 0
                      /\ n >= 0 => Units(x) * Pow2[n] = h
                      /\ n < 0 => HalfEven(Units(x), Pow2[-n]) = h
    BY <1>2, ScaledDown
  <1>. SUFFICES LdexpResult(r, x, n)
    BY DEF r
  <1> HIDE DEF k, r
  <1>8. ASSUME n < 0, e + n <= -(P + 2), r = Zero(x.neg)
        PROVE  LdexpResult(r, x, n)
    <2>1. HalfEven(Units(x), Pow2[-n]) = 0
      BY <1>1, <1>2, <1>3, <1>7, <1>8
    <2>2. Is(Zero(x.neg), x.neg, 0)
      BY <1>1, ScaledZero
    <2>3. QED
      BY <1>8, <2>1, <2>2, Zenon DEF LdexpResult
  <1>9. CASE e < 1 /\ n < -Far
    <2>1. r = Zero(x.neg)
      BY <1>5, <1>9, Zenon
    <2>2. n < 0 /\ e + n <= -(P + 2)
      BY <1>1, <1>2, <1>3, <1>9
    <2>3. QED
      BY <1>8, <2>1, <2>2
  <1>10. CASE e + n > MaxInt
    <2>1. n > Far /\ k <= -(P + 2) /\ k \in Int
      <3>1. IntSum(e, n) \in Int
        BY <1>2, <1>3 DEF IntSum
      <3>2. QED
        BY <1>4, <1>10, <3>1 DEF k
    <2>2. ~(n < -Far) /\ ~(k > Pow2[E] - 2) /\ ~(k > 0) /\ n > Pow2[E] + P /\ ~(n < 0)
      BY <1>1, <1>2, <2>1
    <2>3. r = Infinity(x.neg)
      BY <1>5, <2>1, <2>2, Zenon DEF Underflow
    <2>4. QED
      BY <2>2, <2>3, Zenon DEF LdexpResult
  <1>11. CASE e + n \in -MaxInt - 1 .. MaxInt /\ ~(e < 1 /\ n < -Far)
    <2>1. k = e + n /\ k \in Int
      BY <1>2, <1>3, <1>4, <1>11
    <2>2. CASE k > 2 * Bias
      <3>1. k > Pow2[E] - 2 /\ n >= 0 /\ e + n >= 1 /\ ~(n < 0)
        BY <1>1, <1>2, <1>3, <2>1, <2>2
      <3>2. r = Infinity(x.neg)
        BY <1>5, <1>11, <3>1, Zenon
      <3>3. w > Units(Largest)
        <4>1. e + n \in Nat /\ e + n > 2 * Bias
          BY <1>2, <1>3, <2>1, <2>2, <3>1
        <4>2. QED
          BY <1>3, <4>1, ScaledBeyond
      <3>4. Units(x) * Pow2[n] > Units(Largest)
        <4>1. Units(x) * Pow2[n] = w
          BY <1>6, <3>1
        <4>2. QED
          BY <3>3, <4>1, Zenon
      <3>5. QED
        BY <3>1, <3>2, <3>4, Zenon DEF LdexpResult
    <2>3. CASE k >= 1 /\ k <= 2 * Bias
      <3>1. ~(k > Pow2[E] - 2) /\ k > 0 /\ e + n >= 1 /\ e + n \in 1 .. 2 * Bias
        BY <1>1, <2>1, <2>3
      <3>2. r = WithMantissa(x.neg, m, e + n)
        BY <1>5, <1>11, <2>1, <3>1, Zenon
      <3>3. Is(WithMantissa(x.neg, m, e + n), x.neg, w) /\ w <= Units(Largest)
        BY <1>1, <1>3, <3>1, ScaledNormal
      <3>4. CASE n < 0
        <4>1. Units(x) = w * Pow2[-n] /\ w \in Int /\ Pow2[-n] \in Nat \ {0}
          <5>1. -n \in Nat
            BY <1>2, <3>4
          <5>2. Pow2[-n] \in Nat \ {0}
            BY <5>1, Pow2Type
          <5>3. QED
            BY <1>6, <3>1, <3>4, <5>2
        <4>2. HalfEven(w * Pow2[-n], Pow2[-n]) = w
          <5> HIDE DEF w
          <5>1. QED
            BY <4>1, HalfEvenWhole
        <4>3. HalfEven(Units(x), Pow2[-n]) = w
          BY <4>1, <4>2, Zenon
        <4>4. ~(n < -2 * P - Pow2[E])
          BY <1>1, <1>2, <1>3, <3>1
        <4>5. QED
          BY <3>2, <3>3, <3>4, <4>3, <4>4, Zenon DEF LdexpResult
      <3>5. CASE n >= 0
        <4>1. Units(x) * Pow2[n] = w
          BY <1>6, <3>1, <3>5
        <4>2. ~(n > Pow2[E] + P) /\ ~(n < 0)
          BY <1>1, <1>2, <1>3, <3>1, <3>5
        <4>3. ~(w > Units(Largest))
          <5>1. w \in Nat
            BY <1>6, <3>1
          <5>2. Units(Largest) \in Int
            <6>1. Pow2[P] \in Nat /\ Pow2[2 * Bias - 1] \in Nat
              BY <1>1, Pow2Type, PositiveBias
            <6>2. QED
              BY <6>1, LargestUnits
          <5> HIDE DEF w
          <5>3. QED
            BY <3>3, <5>1, <5>2
        <4>4. QED
          BY <3>2, <3>3, <4>1, <4>2, <4>3, Zenon DEF LdexpResult
      <3>6. QED
        BY <1>2, <3>4, <3>5
    <2>4. CASE k <= -(P + 2)
      <3>1. n < 0 /\ ~(k > Pow2[E] - 2) /\ ~(k > 0) /\ ~(n > Far)
        BY <1>1, <1>2, <1>3, <2>1, <2>4
      <3>2. r = Zero(x.neg)
        BY <1>5, <1>11, <2>4, <3>1, Zenon DEF Underflow
      <3>3. QED
        BY <1>8, <2>1, <2>4, <3>1, <3>2
    <2>5. CASE k <= 0 /\ k > -(P + 2)
      <3>1. ~(k > Pow2[E] - 2) /\ ~(k > 0) /\ ~(k <= -(P + 2)) /\ e + n <= 0
        BY <1>1, <2>1, <2>5
      <3>2. r = WithMantissa(x.neg, h, 0)
        BY <1>5, <1>11, <2>1, <3>1, Zenon
      <3>3. h \in 0 .. Pow2[P]
        BY <1>7, <3>1
      <3>4. Is(WithMantissa(x.neg, h, 0), x.neg, h) /\ h <= Units(Largest)
        <4> HIDE DEF h
        <4>1. QED
          BY <1>1, <3>3, ScaledSubnormal
      <3>5. CASE n < 0
        <4>1. HalfEven(Units(x), Pow2[-n]) = h
          BY <1>7, <3>1, <3>5
        <4>2. ~(n < -2 * P - Pow2[E])
          BY <1>1, <1>2, <1>3, <2>1, <2>5
        <4>3. QED
          BY <3>2, <3>4, <3>5, <4>1, <4>2, Zenon DEF LdexpResult
      <3>6. CASE n >= 0
        <4>1. Units(x) * Pow2[n] = h
          BY <1>7, <3>1, <3>6
        <4>2. ~(n > Pow2[E] + P) /\ ~(n < 0)
          BY <1>1, <1>2, <1>3, <3>1, <3>6
        <4>3. ~(h > Units(Largest))
          <5>1. h \in Nat
            BY <3>3, PositiveBias
          <5>2. Units(Largest) \in Int
            <6>1. Pow2[P] \in Nat /\ Pow2[2 * Bias - 1] \in Nat
              BY <1>1, Pow2Type, PositiveBias
            <6>2. QED
              BY <6>1, LargestUnits
          <5> HIDE DEF h
          <5>3. QED
            BY <3>4, <5>1, <5>2
        <4>4. QED
          BY <3>2, <3>4, <4>1, <4>2, <4>3, Zenon DEF LdexpResult
      <3>7. QED
        BY <1>2, <3>5, <3>6
    <2>6. QED
      BY <1>1, <2>1, <2>2, <2>3, <2>4, <2>5
  <1>12. QED
    BY <1>2, <1>3, <1>4, <1>9, <1>10, <1>11

(* A product and a bound, divided.                                         *)
LEMMA ProductBeyond ==
  ASSUME NEW u \in Nat, NEW p \in Nat \ {0}, NEW b \in Int
  PROVE  u * p > b <=> u > b \div p
  <1> DEFINE q == b \div p
             r == b % p
  <1>1. b = q * p + r /\ r \in 0 .. p - 1 /\ q \in Int
    BY DivMod
  <1> HIDE DEF q, r
  <1>2. u <= q => u * p <= q * p
    BY <1>1
  <1>3. u >= q + 1 => u * p >= (q + 1) * p
    BY <1>1
  <1>4. (q + 1) * p = q * p + p /\ q * p \in Int /\ u * p \in Int
    BY <1>1
  <1>5. u * p > b <=> u > q
    BY <1>1, <1>2, <1>3, <1>4
  <1>6. QED
    BY <1>5 DEF q

(* The result is the number times 2^n, the nearest one where that is        *)
(* subnormal, and infinity beyond the largest; also for ints whose sum     *)
(* with the exponent wraps.                                                *)
LEMMA LdexpCorrect ==
  ASSUME Format, WideInts
  PROVE  \A x \in Double, n \in -MaxInt - 1 .. MaxInt : LdexpExact(x, n)
  <1>1. SUFFICES ASSUME NEW x \in Double, NEW n \in -MaxInt - 1 .. MaxInt, Finite(x), ~IsZero(x)
                 PROVE  LdexpExact(x, n)
    BY Zenon DEF LdexpExact
  <1>2. PICK e, m : NormalForm(x, e, m) /\ ldexp(x, n) = ScaledForm(x.neg, e, m, n)
    BY <1>1, LdexpForm
  <1>3. LdexpResult(ldexp(x, n), x, n)
    BY <1>2, LdexpScaled, Zenon
  <1>4. CASE n < 0
    BY <1>3, <1>4, Zenon DEF LdexpExact, LdexpResult
  <1>5. CASE ~(n < 0)
    <2>1. n \in Nat
      BY <1>5 DEF WideInts
    <2>2. Pow2[n] \in Nat \ {0} /\ Units(x) \in Nat /\ Units(Largest) \in Int
      <3>1. Pow2[P] \in Nat /\ 2 * Bias - 1 \in Nat
        BY PositiveBias
      <3>2. Pow2[2 * Bias - 1] \in Nat /\ Pow2[n] \in Nat \ {0}
        BY <2>1, <3>1, Pow2Type
      <3>3. (2 * Pow2[P] - 1) * Pow2[2 * Bias - 1] \in Int
        BY <3>1, <3>2
      <3>4. QED
        BY <1>2, <3>2, <3>3, LargestUnits DEF NormalForm
    <2>3. Units(x) * Pow2[n] > Units(Largest) <=> Units(x) > Units(Largest) \div Pow2[n]
      BY <2>2, ProductBeyond
    <2>4. QED
      BY <1>3, <1>5, <2>3, Zenon DEF LdexpExact, LdexpResult, Largest
  <1>6. QED
    BY <1>4, <1>5

(* ceil, floor and round are exact in every format, and so is ldexp for    *)
(* every int (math.c:93-385).                                              *)
THEOREM RoundingCorrect == MathSpec => []RoundingExact
  <1> USE FormatAssumption
  <1>1. MathInit => RoundingExact
    BY DEF MathInit, NotAsked, RoundingExact
  <1>2. RoundingExact /\ [MathNext]_asked => RoundingExact'
    <2> SUFFICES ASSUME RoundingExact, [MathNext]_asked PROVE RoundingExact'
      OBVIOUS
    <2>1. ASSUME NEW x \in Double, AskWhole(x)
          PROVE  RoundingExact'
      BY <2>1, WholeCorrect DEF AskWhole, RoundingExact
    <2>2. ASSUME NEW x \in Double, NEW n \in -MaxInt - 1 .. MaxInt, AskScaled(x, n)
          PROVE  RoundingExact'
      BY <2>2, LdexpCorrect DEF AskScaled, RoundingExact
    <2>3. ASSUME NEW x, AskRoot(x)
          PROVE  RoundingExact'
      BY <2>3 DEF AskRoot, RoundingExact
    <2>4. ASSUME NEW x, NEW y, AskRemainder(x, y)
          PROVE  RoundingExact'
      BY <2>4 DEF AskRemainder, RoundingExact
    <2>5. CASE Answered
      BY <2>5 DEF Answered, NotAsked, RoundingExact
    <2>6. CASE UNCHANGED asked
      BY <2>6 DEF RoundingExact
    <2>7. QED
      BY <2>1, <2>2, <2>3, <2>4, <2>5, <2>6 DEF MathNext
  <1>3. QED
    BY <1>1, <1>2, PTL DEF MathSpec

(***************************************************************************)
(* fmod.                                                                   *)
(***************************************************************************)

(* Two words, of which the high one may be negative, as one number.        *)
TwoWords == [h : Int, l : 0 .. Pow2[L] - 1]
Both(a) == a.h * Pow2[L] + a.l

LEMMA BothParts ==
  ASSUME Format, NEW a \in TwoWords
  PROVE  /\ Both(a) \in Int /\ a.h \in Int /\ a.l \in Nat
         /\ a.h < 0 <=> Both(a) < 0
         /\ a.h = Both(a) \div Pow2[L] /\ a.l = Both(a) % Pow2[L]
         /\ Both(a) = 0 <=> a = [h |-> 0, l |-> 0]
  <1>1. Pow2[L] \in Nat \ {0}
    BY Sizes
  <1>2. a.h \in Int /\ a.l \in 0 .. Pow2[L] - 1 /\ a = [h |-> a.h, l |-> a.l]
    BY DEF TwoWords
  <1>3. a.h * Pow2[L] \in Int
    BY <1>1, <1>2
  <1>4. Euclid(Both(a), Pow2[L], a.h, a.l)
    BY <1>1, <1>2, <1>3 DEF Euclid, Both
  <1>5. a.h = Both(a) \div Pow2[L] /\ a.l = Both(a) % Pow2[L]
    BY <1>4, EuclidDivMod, Zenon
  <1>6. a.h <= -1 => a.h * Pow2[L] <= -Pow2[L]
    BY <1>1, <1>2
  <1>7. a.h >= 0 => a.h * Pow2[L] >= 0
    BY <1>1, <1>2
  <1>8. a.h >= 1 => a.h * Pow2[L] >= Pow2[L]
    BY <1>1, <1>2
  <1>9. a.h = 0 => a.h * Pow2[L] = 0
    BY <1>1
  <1>10. Both(a) = a.h * Pow2[L] + a.l
    BY DEF Both
  <1>11. a.h < 0 <=> Both(a) < 0
    BY <1>1, <1>2, <1>3, <1>6, <1>7, <1>10
  <1>12. Both(a) = 0 <=> a.h = 0 /\ a.l = 0
    <2>1. CASE a.h <= -1
      BY <1>11, <1>2, <1>3, <1>10, <2>1
    <2>2. CASE a.h >= 1
      BY <1>1, <1>2, <1>3, <1>8, <1>10, <2>2
    <2>3. CASE a.h = 0
      BY <1>2, <1>9, <1>10, <2>3
    <2>4. QED
      BY <1>2, <2>1, <2>2, <2>3
  <1>13. QED
    BY <1>1, <1>2, <1>3, <1>5, <1>10, <1>11, <1>12

LEMMA MinusBoth ==
  ASSUME Format, NEW a \in TwoWords, NEW b \in TwoWords
  PROVE  Minus(a, b) \in TwoWords /\ Both(Minus(a, b)) = Both(a) - Both(b)
  <1> DEFINE N == Pow2[L]
             d == a.l - b.l
             c == IF a.l < b.l THEN 1 ELSE 0
             l == d % N
             h == a.h - b.h - c
  <1>1. N \in Nat \ {0} /\ a.h \in Int /\ b.h \in Int /\ a.l \in 0 .. N - 1 /\ b.l \in 0 .. N - 1
    BY Sizes DEF TwoWords
  <1>2. Euclid(d, N, -c, d + c * N)
    <2>1. CASE a.l < b.l
      <3>1. c = 1 /\ c * N = N
        BY <1>1, <2>1
      <3>2. d + N \in 0 .. N - 1 /\ d = (-1) * N + (d + N)
        BY <1>1, <2>1
      <3>3. QED
        BY <1>1, <3>1, <3>2 DEF Euclid
    <2>2. CASE ~(a.l < b.l)
      <3>1. c = 0 /\ c * N = 0 /\ (-c) * N = 0
        BY <1>1, <2>2
      <3>2. d \in 0 .. N - 1
        BY <1>1, <2>2
      <3>3. QED
        BY <1>1, <3>1, <3>2 DEF Euclid
    <2>3. QED
      BY <2>1, <2>2
  <1>3. l = d + c * N
    BY <1>2, EuclidDivMod, Zenon
  <1>4. c \in {0, 1} /\ d \in Int /\ c * N \in Int /\ l \in 0 .. N - 1
    <2>1. c \in {0, 1} /\ d \in Int
      BY <1>1
    <2>2. c * N \in Int
      BY <1>1, <2>1
    <2>3. QED
      BY <1>1, <2>1, <2>2
  <1>5. Minus(a, b) = [h |-> h, l |-> l]
    BY Zenon DEF Minus
  <1> HIDE DEF c, l
  <1>6. (a.h - b.h - c) * N = a.h * N - b.h * N - c * N /\ a.h * N \in Int /\ b.h * N \in Int
    BY <1>1, <1>4
  <1>7. h \in Int
    BY <1>1, <1>4
  <1>8. h * N + l = (a.h * N + a.l) - (b.h * N + b.l)
    <2>1. h * N = a.h * N - b.h * N - c * N
      BY <1>6, Zenon
    <2>2. l = (a.l - b.l) + c * N
      BY <1>3
    <2> HIDE DEF h, d
    <2>3. h * N \in Int
      BY <1>1, <1>7
    <2> DEFINE p == a.h * N
               s == b.h * N
               t == c * N
    <2>4. p \in Int /\ s \in Int /\ t \in Int /\ h * N = p - s - t /\ l = (a.l - b.l) + t
      BY <1>4, <1>6, <2>1, <2>2
    <2> HIDE DEF p, s, t
    <2>5. h * N + l = (p + a.l) - (s + b.l)
      BY <1>1, <2>3, <2>4
    <2>6. QED
      BY <2>5 DEF p, s
  <1> HIDE DEF h, N
  <1>9. Both(Minus(a, b)) = h * N + l
    BY <1>5 DEF Both, N
  <1>10. QED
    BY <1>4, <1>5, <1>7, <1>8, <1>9 DEF TwoWords, Both, N

LEMMA TwiceBoth ==
  ASSUME Format, NEW a \in TwoWords
  PROVE  Twice(a) \in TwoWords /\ Both(Twice(a)) = 2 * Both(a)
  <1> DEFINE q == a.l \div Sign
             r == a.l % Sign
             h == 2 * a.h + q
             l == (2 * a.l) % Pow2[L]
  <1>1. Sign \in Nat \ {0} /\ Pow2[L] = 2 * Sign
    <2>1. L - 1 \in Nat /\ L - 1 + 1 = L
      BY DEF Format
    <2>2. Pow2[L - 1 + 1] = 2 * Pow2[L - 1] /\ Pow2[L - 1] \in Nat \ {0}
      BY <2>1, Pow2Next, Pow2Type
    <2>3. QED
      BY <2>1, <2>2 DEF Sign
  <1>2. a.h \in Int /\ a.l \in 0 .. Pow2[L] - 1 /\ a.l \in Int
    BY <1>1 DEF TwoWords
  <1>3. a.l = q * Sign + r /\ r \in 0 .. Sign - 1 /\ q \in Int
    BY <1>1, <1>2, DivMod
  <1> HIDE DEF q, r
  <1>4. Euclid(2 * a.l, Pow2[L], q, 2 * r)
    <2>1. 2 * (q * Sign) = q * (2 * Sign) /\ q * Sign \in Int
      BY <1>1, <1>3
    <2>2. QED
      BY <1>1, <1>2, <1>3, <2>1 DEF Euclid
  <1>5. l = 2 * r
    BY <1>4, EuclidDivMod, Zenon
  <1>6. 2 * a.l = q * Pow2[L] + l /\ l \in 0 .. Pow2[L] - 1 /\ h \in Int
    BY <1>1, <1>2, <1>3, <1>4, <1>5 DEF Euclid
  <1>7. Twice(a) = [h |-> h, l |-> l]
    BY Zenon DEF Twice, q
  <1>8. (2 * a.h + q) * Pow2[L] = 2 * (a.h * Pow2[L]) + q * Pow2[L] /\ a.h * Pow2[L] \in Int /\ q * Pow2[L] \in Int
    <2>1. Pow2[L] \in Int /\ a.h \in Int /\ q \in Int
      BY <1>1, <1>2, <1>3
    <2>2. QED
      BY <2>1
  <1> HIDE DEF l
  <1>9. h * Pow2[L] + l = 2 * (a.h * Pow2[L] + a.l)
    BY <1>2, <1>6, <1>8
  <1> HIDE DEF h
  <1>10. Both(Twice(a)) = h * Pow2[L] + l
    BY <1>7 DEF Both
  <1>11. QED
    BY <1>6, <1>7, <1>9, <1>10 DEF TwoWords, Both

(* A turn of the loop: the divisor is subtracted if it can be, and what is *)
(* left is doubled.                                                        *)
LEMMA FmodTurnBoth ==
  ASSUME Format, NEW a \in TwoWords, NEW b \in TwoWords
  PROVE  /\ FmodTurn(a, b) \in TwoWords
         /\ Both(FmodTurn(a, b)) = 2 * (IF Both(a) < Both(b) THEN Both(a) ELSE Both(a) - Both(b))
  <1> DEFINE z == Minus(a, b)
  <1>1. z \in TwoWords /\ Both(z) = Both(a) - Both(b)
    BY MinusBoth
  <1>2. FmodTurn(a, b) = IF z.h < 0 THEN Twice(a) ELSE Twice(z)
    BY Zenon DEF FmodTurn
  <1> HIDE DEF z
  <1>3. Both(a) \in Int /\ Both(b) \in Int /\ (z.h < 0 <=> Both(a) < Both(b))
    <2>1. Both(a) \in Int /\ Both(b) \in Int
      BY BothParts
    <2>2. z.h < 0 <=> Both(z) < 0
      BY <1>1, BothParts
    <2>3. QED
      BY <1>1, <2>1, <2>2
  <1>4. Twice(a) \in TwoWords /\ Both(Twice(a)) = 2 * Both(a)
    BY TwiceBoth
  <1>5. Twice(z) \in TwoWords /\ Both(Twice(z)) = 2 * Both(z)
    BY <1>1, TwiceBoth
  <1>6. QED
    BY <1>1, <1>2, <1>3, <1>4, <1>5

(* The states of the loop.                                                 *)
IsTurns(a, first, b, n) ==
  /\ a[0] = first
  /\ \A i \in 1 .. n : a[i] = FmodTurn(a[i - 1], b)

(* What the turns have left of X is less than twice the divisor, and        *)
(* differs from X times a power of two by a multiple of it.                *)
TurnsLeft(A, i, X, D) == A \in Int /\ 0 <= A /\ A < 2 * D /\ \E k \in Int : X * Pow2[i] = k * D + A

LEMMA TurnLeft ==
  ASSUME NEW A, NEW A1, NEW i \in Nat, NEW X \in Nat, NEW D \in Nat \ {0}, TurnsLeft(A, i, X, D),
         A1 = 2 * (IF A < D THEN A ELSE A - D)
  PROVE  TurnsLeft(A1, i + 1, X, D)
  <1>1. A \in Int /\ 0 <= A /\ A < 2 * D
    BY DEF TurnsLeft
  <1>2. PICK k \in Int : X * Pow2[i] = k * D + A
    BY DEF TurnsLeft
  <1>3. Pow2[i + 1] = 2 * Pow2[i] /\ Pow2[i] \in Nat
    BY Pow2Next, Pow2Type
  <1>4. X * Pow2[i + 1] = 2 * (X * Pow2[i]) /\ X * Pow2[i] \in Int
    BY <1>3
  <1>5. k * D \in Int /\ (2 * k) * D = 2 * (k * D) /\ (2 * k + 2) * D = 2 * (k * D) + 2 * D
    OBVIOUS
  <1>6. CASE A < D
    <2>1. X * Pow2[i + 1] = (2 * k) * D + A1
      BY <1>1, <1>2, <1>4, <1>5, <1>6
    <2>2. 2 * k \in Int /\ A1 \in Int /\ 0 <= A1 /\ A1 < 2 * D
      BY <1>1, <1>6
    <2>3. QED
      BY <2>1, <2>2 DEF TurnsLeft
  <1>7. CASE ~(A < D)
    <2>1. X * Pow2[i + 1] = (2 * k + 2) * D + A1
      BY <1>1, <1>2, <1>4, <1>5, <1>7
    <2>2. 2 * k + 2 \in Int /\ A1 \in Int /\ 0 <= A1 /\ A1 < 2 * D
      BY <1>1, <1>7
    <2>3. QED
      BY <2>1, <2>2 DEF TurnsLeft
  <1>8. QED
    BY <1>6, <1>7

LEMMA TurnsDivide ==
  ASSUME Format, NEW first \in TwoWords, NEW b \in TwoWords, Both(b) \in Nat \ {0},
         Both(first) \in Nat, Both(first) < 2 * Both(b), NEW n \in Nat, NEW a, IsTurns(a, first, b, n)
  PROVE  \A i \in 0 .. n : a[i] \in TwoWords /\ TurnsLeft(Both(a[i]), i, Both(first), Both(b))
  <1> DEFINE X == Both(first)
             B0 == Both(b)
             Ok(i) == a[i] \in TwoWords /\ TurnsLeft(Both(a[i]), i, X, B0)
             T == {i \in Nat : i <= n => Ok(i)}
  <1>1. X \in Nat /\ B0 \in Nat \ {0} /\ X < 2 * B0
    OBVIOUS
  <1>2. 0 \in T
    <2>1. a[0] = first
      BY DEF IsTurns
    <2> HIDE DEF X, B0
    <2>2. Pow2[0] = 1 /\ X * 1 = 0 * B0 + X
      BY <1>1, Pow2Zero
    <2>3. TurnsLeft(X, 0, X, B0)
      BY <1>1, <2>2 DEF TurnsLeft
    <2>4. Ok(0)
      BY <2>1, <2>3 DEF X
    <2>5. QED
      BY <2>4
  <1>3. ASSUME NEW i \in Nat, i \in T
        PROVE  i + 1 \in T
    <2>1. SUFFICES ASSUME i + 1 <= n
                   PROVE  Ok(i + 1)
      OBVIOUS
    <2>2. Ok(i)
      BY <1>3, <2>1
    <2>3. i + 1 \in 1 .. n /\ (i + 1) - 1 = i
      BY <2>1
    <2>4. a[i + 1] = FmodTurn(a[i], b)
      BY <2>3 DEF IsTurns
    <2>5. a[i + 1] \in TwoWords /\ Both(a[i + 1]) = 2 * (IF Both(a[i]) < B0 THEN Both(a[i]) ELSE Both(a[i]) - B0)
      BY <2>2, <2>4, FmodTurnBoth
    <2> HIDE DEF X, B0
    <2>6. TurnsLeft(Both(a[i + 1]), i + 1, X, B0)
      BY <1>1, <2>2, <2>5, TurnLeft
    <2>7. QED
      BY <2>5, <2>6
  <1> HIDE DEF T
  <1>4. \A i \in Nat : i \in T
    BY <1>2, <1>3, Induction
  <1>5. QED
    BY <1>4 DEF T

LEMMA Pow2Grows ==
  ASSUME NEW m \in Nat, NEW n \in Nat
  PROVE  /\ m <= n => Pow2[m] <= Pow2[n]
         /\ m < n => 2 * Pow2[m] <= Pow2[n]
         /\ Pow2[m] \in Nat \ {0} /\ Pow2[n] \in Nat \ {0}
  <1>1. Pow2[m] \in Nat \ {0} /\ Pow2[n] \in Nat \ {0}
    BY Pow2Type
  <1>2. ASSUME NEW i \in Nat, NEW j \in Nat, i <= j
        PROVE  Pow2[i] <= Pow2[j]
    <2>1. i \in 0 .. j
      BY <1>2
    <2>2. Pow2[j] = Pow2[i] * Pow2[j - i] /\ Pow2[i] \in Nat \ {0} /\ Pow2[j - i] \in Nat \ {0}
      BY <2>1, Pow2Split
    <2> DEFINE a == Pow2[i]
               b == Pow2[j - i]
               c == Pow2[j]
    <2>3. c = a * b /\ a \in Nat \ {0} /\ b \in Nat \ {0}
      BY <2>2, Zenon
    <2> HIDE DEF a, b, c
    <2>4. a <= c
      BY <2>3
    <2>5. QED
      BY <2>4 DEF a, c
  <1>3. m < n => 2 * Pow2[m] <= Pow2[n]
    <2>1. SUFFICES ASSUME m < n
                   PROVE  2 * Pow2[m] <= Pow2[n]
      OBVIOUS
    <2>2. m + 1 \in Nat /\ m + 1 <= n
      BY <2>1
    <2>3. Pow2[m + 1] <= Pow2[n] /\ Pow2[m + 1] = 2 * Pow2[m]
      BY <1>2, <2>2, Pow2Next
    <2>4. QED
      BY <2>3
  <1>4. QED
    BY <1>1, <1>2, <1>3

(* A subnormal result, shifted to its place.                               *)
LEMMA UnderflowedUnits ==
  ASSUME Format, NEW a \in TwoWords, NEW k \in Nat \ {0}, NEW u \in Nat \ {0}, NEW neg \in BOOLEAN,
         Both(a) = u * Pow2[k], Both(a) < 2 * Pow2[P]
  PROVE  Is(Underflowed(a, k, neg), neg, u)
  <1> DEFINE N == Pow2[L]
             c == Pow2[k]
             h == a.h
             l == a.l
             r == Underflowed(a, k, neg)
  <1>1. /\ N \in Nat \ {0} /\ Pow2[H] \in Nat \ {0} /\ Pow2[P] = Pow2[H] * N /\ Pow2[P] \in Nat \ {0}
        /\ H \in Nat /\ L \in Nat /\ H < L /\ Bias # 0
    BY Sizes, PositiveBias DEF Format
  <1>2. c \in Nat \ {0} /\ c >= 2
    <2>1. Pow2[0] = 1 /\ 2 * Pow2[0] <= Pow2[k] /\ Pow2[k] \in Nat \ {0}
      BY Pow2Zero, Pow2Grows
    <2>2. QED
      BY <2>1
  <1>3. u * c \in Nat /\ u * c < 2 * Pow2[P] /\ h * N + l = u * c /\ h \in Int /\ l \in 0 .. N - 1 /\ h * N \in Int
    <2>1. u * c \in Nat
      BY <1>2
    <2>2. h \in Int /\ l \in 0 .. N - 1
      BY DEF TwoWords
    <2>3. QED
      BY <1>1, <2>1, <2>2 DEF Both
  <1>4. h \in Nat
    <2>1. a.h < 0 <=> Both(a) < 0
      BY BothParts
    <2>2. QED
      BY <1>3, <2>1
  <1>5. u < Pow2[P]
    <2> HIDE DEF c
    <2>1. u * c >= u * 2
      BY <1>2
    <2>2. QED
      BY <1>1, <1>3, <2>1
  <1>6. k > H => u < N
    <2>1. SUFFICES ASSUME k > H, u >= N
                   PROVE  FALSE
      BY <1>1
    <2>2. 2 * Pow2[H] <= c
      BY <1>1, <2>1, Pow2Grows
    <2> DEFINE g == Pow2[H]
    <2>3. g \in Nat \ {0} /\ 2 * g <= c /\ u * c < 2 * (g * N)
      BY <1>1, <1>3, <2>2
    <2> HIDE DEF c, N, g
    <2>4. u * c >= N * c
      BY <1>1, <1>2, <2>1
    <2>5. N * c >= N * (2 * g)
      BY <1>1, <1>2, <2>3
    <2>6. N * (2 * g) = 2 * (g * N) /\ g * N \in Int /\ N * c \in Int
      BY <1>1, <1>2, <2>3
    <2>7. QED
      BY <1>3, <2>3, <2>4, <2>5, <2>6
  <1> HIDE DEF r
  <1>7. SUFFICES r = [neg |-> neg, hi |-> u \div N, lo |-> u % N]
    <2>1. u = (u \div N) * N + (u % N) /\ u % N \in 0 .. N - 1 /\ u \div N \in Int
      <3>1. u \in Int
        OBVIOUS
      <3>2. Euclid(u, N, u \div N, u % N)
        BY <1>1, <3>1, EuclidParts, Zenon
      <3>3. QED
        BY <3>2, Zenon DEF Euclid
    <2> DEFINE q == u \div N
               z == u % N
    <2>2. u = q * N + z /\ z \in 0 .. N - 1 /\ q \in Int
      BY <2>1
    <2>3. r.neg = neg /\ r.hi = q /\ r.lo = z
      BY <1>7
    <2> HIDE DEF q, z
    <2>4. q \in Nat
      <3>1. q <= -1 => q * N <= -N
        BY <1>1, <2>2
      <3>2. q * N \in Int
        BY <1>1, <2>2
      <3>3. QED
        BY <1>1, <2>2, <3>1, <3>2
    <2>5. r \in Words
      <3>1. r = [neg |-> neg, hi |-> q, lo |-> z]
        BY <1>7 DEF q, z
      <3>2. QED
        BY <2>2, <2>4, <3>1 DEF Words
    <2>6. Place(r) = u
      BY <2>2, <2>3, Zenon DEF Place
    <2>7. Place(r) <= Pow2[P]
      BY <1>1, <1>5, <2>6
    <2>8. r \in Double /\ Finite(r) /\ Units(r) = u
      BY <1>1, <2>5, <2>6, <2>7, UnitsBelow
    <2>9. QED
      BY <2>3, <2>8 DEF Is, r
  <1>8. u < N => u \div N = 0 /\ u % N = u
    <2>1. u < N => Euclid(u, N, 0, u)
      BY <1>1 DEF Euclid
    <2>2. QED
      BY <2>1, EuclidDivMod, Zenon
  <1>9. CASE k <= L - 1
    <2> DEFINE f == Pow2[L - k]
               s == u - h * f
    <2>1. N = c * f /\ f \in Nat \ {0}
      <3>1. k \in 0 .. L
        BY <1>1, <1>9
      <3>2. QED
        BY <1>1, <3>1, Pow2Split
    <2> HIDE DEF f, c, N
    <2>2. h * N = (h * f) * c /\ h * f \in Nat
      BY <1>2, <1>4, <2>1
    <2>3. l = s * c /\ s \in Int
      <3>1. s * c = u * c - (h * f) * c /\ (h * f) * c \in Int
        BY <1>2, <2>2
      <3>2. QED
        BY <1>3, <2>2, <3>1
    <2> HIDE DEF s
    <2>4. l \div c = s
      <3>1. Euclid(l, c, s, 0)
        BY <1>2, <1>3, <2>3 DEF Euclid
      <3>2. QED
        BY <3>1, EuclidDivMod, Zenon
    <2>5. u = h * f + s
      BY <2>2 DEF s
    <2>6. s >= 0 /\ s < f
      <3>1. s <= -1 => s * c <= -c
        BY <1>2, <2>3
      <3>2. s >= f => s * c >= f * c
        BY <1>2, <2>1, <2>3
      <3>3. f * c = N
        BY <1>2, <2>1
      <3>4. s * c \in Int /\ f * c \in Int
        BY <1>2, <2>1, <2>3
      <3>5. QED
        BY <1>2, <1>3, <2>1, <2>3, <3>1, <3>2, <3>3, <3>4
    <2>7. h \div c = u \div N
      <3> DEFINE q == h \div c
                 z == h % c
      <3>1. h = q * c + z /\ z \in 0 .. c - 1 /\ q \in Int
        <4>1. Euclid(h, c, q, z)
          BY <1>2, <1>3, EuclidParts, Zenon
        <4>2. QED
          BY <4>1, Zenon DEF Euclid
      <3> HIDE DEF q, z
      <3>2. (q * c + z) * f = q * (c * f) + z * f /\ z * f \in Int /\ q * (c * f) \in Int
        BY <1>2, <2>1, <3>1
      <3>3. z * f <= (c - 1) * f /\ (c - 1) * f = c * f - f /\ z * f >= 0 /\ c * f \in Int
        BY <1>2, <2>1, <3>1
      <3>4. h * f = q * N + z * f /\ q * N \in Int
        BY <2>1, <3>1, <3>2
      <3>5. z * f <= N - f
        BY <2>1, <3>3
      <3>6. Euclid(u, N, q, z * f + s)
        BY <1>1, <2>1, <2>3, <2>5, <2>6, <3>1, <3>2, <3>3, <3>4, <3>5 DEF Euclid
      <3>7. u \div N = q
        BY <3>6, EuclidDivMod, Zenon
      <3>8. QED
        BY <3>7 DEF q
    <2>8. h * f + s = s + h * f
      BY <2>2, <2>3
    <2>9. CASE k <= H
      <3>1. r = [neg |-> neg, hi |-> h \div c, lo |-> (l \div c + h * f) % N]
        BY <2>9, Zenon DEF Underflowed, r, c, f, N
      <3>2. QED
        BY <2>4, <2>5, <2>7, <2>8, <3>1, Zenon
    <2>10. CASE ~(k <= H)
      <3>1. r = [neg |-> neg, hi |-> 0, lo |-> (h * f + l \div c) % N]
        BY <1>9, <2>10, Zenon DEF Underflowed, r, c, f, N
      <3>2. u \div N = 0
        BY <1>1, <1>6, <1>8, <2>10
      <3>3. QED
        BY <2>4, <2>5, <3>1, <3>2, Zenon
    <2>11. QED
      BY <2>9, <2>10
  <1>10. CASE ~(k <= L - 1)
    <2> DEFINE f == Pow2[k - L]
    <2>1. c = N * f /\ f \in Nat \ {0}
      <3>1. L \in 0 .. k
        BY <1>1, <1>10
      <3>2. QED
        BY <1>1, <3>1, Pow2Split
    <2>2. ~(k <= H) /\ k > H
      BY <1>1, <1>10
    <2> HIDE DEF f, c, N
    <2>3. u * c = (u * f) * N /\ u * f \in Int
      BY <1>1, <2>1
    <2>4. Euclid(u * c, N, u * f, 0)
      BY <1>1, <1>3, <2>3 DEF Euclid
    <2>5. Euclid(u * c, N, h, l)
      BY <1>1, <1>3 DEF Euclid
    <2>6. h = u * f
      BY <2>4, <2>5, EuclidDivMod
    <2>7. h \div f = u
      <3>1. Euclid(h, f, u, 0)
        BY <1>3, <2>1, <2>6 DEF Euclid
      <3>2. QED
        BY <3>1, EuclidDivMod, Zenon
    <2>8. r = [neg |-> neg, hi |-> 0, lo |-> h \div f]
      BY <1>10, <2>2, Zenon DEF Underflowed, r, f
    <2>9. u \div N = 0 /\ u % N = u
      BY <1>6, <1>8, <2>2
    <2>10. QED
      BY <2>7, <2>8, <2>9, Zenon
  <1>11. QED
    BY <1>9, <1>10

(* A remainder of the mantissas, made a number again.                      *)
LEMMA ComposedUnits ==
  ASSUME Format, NEW a \in TwoWords, Both(a) \in Nat \ {0}, Both(a) < 2 * Pow2[P],
         NEW iy \in Int, iy + Bias <= 2 * Bias, NEW neg \in BOOLEAN, NEW u \in Nat \ {0},
         iy + Bias >= 1 => u = Both(a) * Pow2[iy + Bias - 1],
         iy + Bias < 1 => u * Pow2[1 - (iy + Bias)] = Both(a)
  PROVE  Is(Composed(a, iy, neg), neg, u)
  <1> DEFINE S == Pow2[P]
             N == Pow2[L]
             R == Both(a)
             Brings(i) == LET v == (a.h * Pow2[L] + a.l) * Pow2[i]
                          IN  Pow2[P] <= v /\ v < Pow2[P + 1]
             i == CHOOSE i \in 0 .. P : Brings(i)
             v == (a.h * Pow2[L] + a.l) * Pow2[i]
             n == [h |-> v \div Pow2[L], l |-> v % Pow2[L]]
             e == iy - i
  <1>1. /\ S \in Nat \ {0} /\ P \in Nat /\ Pow2[P + 1] = 2 * S /\ Bias \in Nat \ {0}
        /\ N \in Nat \ {0} /\ Pow2[H] \in Nat \ {0} /\ S = Pow2[H] * N
    BY Sizes, PositiveBias
  <1>2. R = a.h * Pow2[L] + a.l
    BY DEF Both
  <1>3. \E j \in 0 .. P : Brings(j)
    <2>1. CASE R >= S
      <3>1. R * Pow2[0] = R /\ 0 \in 0 .. P
        BY <1>1, Pow2Zero
      <3>2. Pow2[P] <= R * Pow2[0] /\ R * Pow2[0] < Pow2[P + 1]
        BY <1>1, <2>1, <3>1
      <3>3. QED
        BY <1>2, <3>1, <3>2
    <2>2. CASE R < S
      <3>1. R \in 1 .. Pow2[P] - 1
        BY <1>1, <2>2
      <3>2. Shifts(R, P) # {}
        BY <1>1, <3>1, ShiftExists
      <3>3. PICK j \in 1 .. P : Pow2[P] <= R * Pow2[j] /\ R * Pow2[j] < Pow2[P + 1]
        BY <3>2 DEF Shifts
      <3>4. j \in 0 .. P
        OBVIOUS
      <3>5. QED
        BY <1>2, <3>3, <3>4
    <2>3. QED
      BY <1>1, <2>1, <2>2
  <1>4. i \in 0 .. P /\ Brings(i)
    BY <1>3, Zenon
  <1>5. Composed(a, iy, neg) =
          IF e >= 1 - Bias
          THEN [neg |-> neg, hi |-> n.h - Pow2[H] + (e + Bias) * Pow2[H], lo |-> n.l]
          ELSE Underflowed(n, 1 - Bias - e, neg)
    BY Zenon DEF Composed
  <1>6. v = R * Pow2[i] /\ Pow2[P] <= v /\ v < Pow2[P + 1]
    BY <1>2, <1>4, Zenon
  <1> HIDE DEF i, v
  <1>7. i \in Nat /\ Pow2[i] \in Nat \ {0} /\ v \in Nat \ {0} /\ v < 2 * S /\ v >= S
    <2>1. i \in Nat
      BY <1>1, <1>4
    <2>2. Pow2[i] \in Nat \ {0}
      BY <2>1, Pow2Type
    <2>3. R * Pow2[i] \in Nat
      BY <2>2
    <2>4. QED
      BY <1>1, <1>6, <2>1, <2>2, <2>3
  <1>8. n \in TwoWords /\ Both(n) = v /\ n.h \in Nat
    <2> DEFINE q == v \div N
               z == v % N
    <2>1. Euclid(v, N, q, z)
      <3>1. v \in Int
        BY <1>7
      <3>2. QED
        BY <1>1, <3>1, EuclidParts, Zenon
    <2>2. n = [h |-> q, l |-> z]
      OBVIOUS
    <2> HIDE DEF q, z, n
    <2>3. q \in Int /\ z \in 0 .. N - 1 /\ v = q * N + z
      BY <2>1 DEF Euclid
    <2>4. n \in TwoWords /\ Both(n) = v
      BY <2>2, <2>3 DEF TwoWords, Both
    <2>5. n.h < 0 <=> Both(n) < 0
      BY <2>4, BothParts
    <2>6. QED
      BY <1>7, <2>2, <2>3, <2>4, <2>5
  <1> HIDE DEF n
  <1>9. e \in Int /\ i \in Int
    BY <1>7
  <1>10. CASE e >= 1 - Bias
    <2> DEFINE k == e + Bias
               r == [neg |-> neg, hi |-> n.h - Pow2[H] + (e + Bias) * Pow2[H], lo |-> n.l]
    <2>1. k \in 1 .. 2 * Bias /\ k - 1 \in Nat /\ k \in Nat \ {0}
      BY <1>1, <1>7, <1>10
    <2>2. Composed(a, iy, neg) = r
      BY <1>5, <1>10, Zenon
    <2> HIDE DEF k
    <2>3. k * Pow2[H] = (k - 1) * Pow2[H] + Pow2[H] /\ (k - 1) * Pow2[H] \in Nat /\ (k - 1) * S \in Nat
          /\ ((k - 1) * Pow2[H]) * N = (k - 1) * S
      <3>1. (k - 1) * Pow2[H] \in Nat /\ (k - 1) * S \in Nat
        BY <1>1, <2>1
      <3>2. ((k - 1) * Pow2[H]) * N = (k - 1) * (Pow2[H] * N)
        BY <1>1, <2>1
      <3>3. k * Pow2[H] = (k - 1) * Pow2[H] + Pow2[H]
        BY <1>1, <2>1
      <3>4. QED
        BY <1>1, <3>1, <3>2, <3>3, Zenon
    <2>4. r.hi = n.h + (k - 1) * Pow2[H] /\ r.lo = n.l /\ r.neg = neg
      <3>1. r.hi = n.h - Pow2[H] + k * Pow2[H]
        BY DEF k
      <3>2. QED
        BY <1>1, <1>8, <2>3, <3>1
    <2>5. r \in Words /\ r = [neg |-> neg, hi |-> n.h + (k - 1) * Pow2[H], lo |-> n.l]
      <3>1. n.l \in 0 .. Pow2[L] - 1 /\ n.h + (k - 1) * Pow2[H] \in Nat
        BY <1>8, <2>3 DEF TwoWords
      <3>2. r = [neg |-> neg, hi |-> n.h + (k - 1) * Pow2[H], lo |-> n.l]
        BY <2>4
      <3>3. QED
        BY <3>1, <3>2 DEF Words
    <2>6. Place(r) = (k - 1) * S + v
      <3>1. (n.h + (k - 1) * Pow2[H]) * N = n.h * N + ((k - 1) * Pow2[H]) * N /\ n.h * N \in Int
        BY <1>1, <1>8, <2>3
      <3>2. v = n.h * N + n.l
        BY <1>8, Zenon DEF Both
      <3>3. n.l \in Int
        BY <1>1, <1>8 DEF TwoWords
      <3>4. Place(r) = (n.h + (k - 1) * Pow2[H]) * N + n.l
        BY <2>4, Zenon DEF Place
      <3>5. QED
        BY <2>3, <3>1, <3>2, <3>3, <3>4
    <2>7. Place(r) < (2 * Bias + 1) * S
      <3>1. (k - 1) * S + 2 * S = (k + 1) * S /\ (k + 1) * S <= (2 * Bias + 1) * S
        BY <1>1, <2>1
      <3>2. (k + 1) * S \in Int /\ (2 * Bias + 1) * S \in Int
        BY <1>1, <2>1
      <3>3. QED
        BY <1>1, <1>7, <2>3, <2>6, <3>1, <3>2
    <2>8. r \in Double /\ Finite(r) /\ Units(r) = v * Pow2[k - 1]
      <3>1. v \in 0 .. 2 * S
        BY <1>1, <1>7
      <3> HIDE DEF r
      <3>2. QED
        BY <1>7, <2>1, <2>5, <2>6, <2>7, <3>1, UnitsAt
    <2>9. u = v * Pow2[k - 1]
      <3>1. iy + Bias >= 1 /\ i \in 0 .. iy + Bias - 1 /\ (iy + Bias - 1) - i = k - 1 /\ iy + Bias - 1 \in Nat
        BY <1>1, <1>7, <1>10 DEF k
      <3>2. Pow2[iy + Bias - 1] = Pow2[i] * Pow2[k - 1] /\ Pow2[k - 1] \in Nat
        <4>1. Pow2[iy + Bias - 1] = Pow2[i] * Pow2[(iy + Bias - 1) - i]
          BY <3>1, Pow2Split
        <4>2. QED
          BY <2>1, <3>1, <4>1, Pow2Type
      <3>3. u = R * (Pow2[i] * Pow2[k - 1])
        BY <3>1, <3>2
      <3>4. R * (Pow2[i] * Pow2[k - 1]) = (R * Pow2[i]) * Pow2[k - 1]
        BY <1>7, <3>2
      <3>5. QED
        BY <1>6, <3>3, <3>4, Zenon
    <2>10. Is(r, neg, u)
      BY <2>4, <2>8, <2>9, Zenon DEF Is
    <2>11. QED
      BY <2>2, <2>10, Zenon
  <1>11. CASE ~(e >= 1 - Bias)
    <2> DEFINE k == 1 - Bias - e
    <2>1. k \in Nat \ {0}
      BY <1>1, <1>9, <1>11
    <2>2. Composed(a, iy, neg) = Underflowed(n, k, neg)
      BY <1>5, <1>11, Zenon
    <2>3. v = u * Pow2[k]
      <3>1. CASE iy + Bias >= 1
        <4>1. iy + Bias - 1 \in Nat /\ iy + Bias - 1 \in 0 .. i /\ i - (iy + Bias - 1) = k
          BY <1>1, <1>7, <1>11, <3>1
        <4> DEFINE f == Pow2[iy + Bias - 1]
                   g == Pow2[k]
        <4>2. Pow2[i] = f * g /\ f \in Nat /\ g \in Nat
          <5>1. Pow2[i] = f * Pow2[i - (iy + Bias - 1)] /\ f \in Nat /\ Pow2[i - (iy + Bias - 1)] \in Nat
            BY <1>7, <4>1, Pow2Split
          <5>2. QED
            BY <4>1, <5>1, Zenon
        <4>3. u = R * f
          BY <3>1
        <4> HIDE DEF f, g
        <4>4. R * (f * g) = (R * f) * g
          BY <4>2
        <4>5. v = u * g
          BY <1>6, <4>2, <4>3, <4>4, Zenon
        <4>6. QED
          BY <4>5 DEF g
      <3>2. CASE iy + Bias < 1
        <4>1. 1 - (iy + Bias) \in Nat /\ (1 - (iy + Bias)) + i = k
          BY <1>1, <1>7, <1>9, <3>2
        <4> DEFINE f == Pow2[1 - (iy + Bias)]
                   g == Pow2[k]
                   j == Pow2[i]
        <4>2. g = f * j /\ f \in Nat /\ j \in Nat
          <5>1. Pow2[(1 - (iy + Bias)) + i] = f * j
            BY <1>7, <4>1, Pow2Sum
          <5>2. QED
            BY <1>7, <4>1, <5>1, Pow2Type
        <4>3. u * f = R
          BY <3>2
        <4> HIDE DEF f, g, j
        <4>4. (u * f) * j = u * (f * j)
          BY <4>2
        <4>5. v = R * j
          BY <1>6 DEF j
        <4>6. v = u * g
          BY <4>2, <4>3, <4>4, <4>5, Zenon
        <4>7. QED
          BY <4>6 DEF g
      <3>3. QED
        BY <1>1, <3>1, <3>2
    <2> HIDE DEF k
    <2>4. Is(Underflowed(n, k, neg), neg, u)
      <3>1. Both(n) = u * Pow2[k] /\ Both(n) < 2 * Pow2[P]
        BY <1>7, <1>8, <2>3
      <3>2. QED
        BY <1>8, <2>1, <3>1, UnderflowedUnits
    <2>5. QED
      BY <2>2, <2>4, Zenon
  <1>12. QED
    BY <1>10, <1>11

(* The first bit of a number is in one place.                              *)
LEMMA TopBit ==
  ASSUME NEW w \in Nat, NEW j \in Nat, NEW k \in Nat,
         Pow2[j] <= w, w < Pow2[j + 1], Pow2[k] <= w, w < Pow2[k + 1]
  PROVE  j = k
  <1>1. /\ j + 1 <= k => Pow2[j + 1] <= Pow2[k]
        /\ k + 1 <= j => Pow2[k + 1] <= Pow2[j]
        /\ {Pow2[j], Pow2[k], Pow2[j + 1], Pow2[k + 1]} \subseteq Nat
    BY Pow2Grows
  <1>2. QED
    BY <1>1

LEMMA ShiftedTop ==
  ASSUME NEW p \in Nat, NEW i \in 0 .. p, NEW w \in Nat,
         Pow2[p] <= w * Pow2[i], w * Pow2[i] < Pow2[p + 1]
  PROVE  Pow2[p - i] <= w /\ w < Pow2[p - i + 1]
  <1> DEFINE c == Pow2[i]
             f == Pow2[p - i]
             g == Pow2[p - i + 1]
  <1>1. Pow2[p] = c * f /\ c \in Nat \ {0} /\ f \in Nat \ {0}
    BY Pow2Split
  <1>2. Pow2[p + 1] = c * g /\ g \in Nat
    <2>1. i \in 0 .. p + 1 /\ p + 1 \in Nat /\ p + 1 - i = p - i + 1
      OBVIOUS
    <2>2. Pow2[p + 1] = Pow2[i] * Pow2[p + 1 - i] /\ Pow2[p + 1 - i] \in Nat
      BY <2>1, Pow2Split
    <2>3. QED
      BY <2>1, <2>2, Zenon
  <1>3. c * f <= w * c /\ w * c < c * g
    BY <1>1, <1>2
  <1> HIDE DEF c, f, g
  <1>4. w < f => w * c <= c * (f - 1) /\ c * (f - 1) = c * f - c /\ c * f \in Int
    BY <1>1
  <1>5. w >= g => w * c >= c * g
    BY <1>1, <1>2
  <1>6. w * c \in Int /\ c * g \in Int /\ c * f \in Int
    BY <1>1, <1>2
  <1>7. f <= w /\ w < g
    BY <1>1, <1>2, <1>3, <1>4, <1>5, <1>6
  <1>8. QED
    BY <1>7 DEF f, g

(* The words of a mantissa, with its first bit in its place.               *)
LEMMA AlignedBoth ==
  ASSUME Format, NEW hi \in Nat, NEW lo \in 0 .. Pow2[L] - 1, NEW i \in 1 .. P, i >= L => hi = 0
  PROVE  /\ Aligned(hi, lo, 1 - i - Bias) \in TwoWords
         /\ Both(Aligned(hi, lo, 1 - i - Bias)) = (hi * Pow2[L] + lo) * Pow2[i]
  <1> DEFINE n == 1 - Bias - (1 - i - Bias)
             a == Aligned(hi, lo, 1 - i - Bias)
             N == Pow2[L]
             c == Pow2[i]
  <1>1. /\ N \in Nat \ {0} /\ P = H + L /\ L \in Nat /\ H \in Nat /\ Bias \in Nat /\ i \in Nat \ {0}
        /\ c \in Nat \ {0}
    BY Sizes, Pow2Type DEF Format
  <1>2. n = i /\ ~(n <= 0)
    BY <1>1
  <1>3. CASE i <= L - 1
    <2> DEFINE f == Pow2[L - i]
               q == lo \div f
               r == (lo * c) % N
    <2>1. N = c * f /\ f \in Nat \ {0} /\ N = f * c
      <3>1. i \in 0 .. L
        BY <1>1, <1>3
      <3>2. N = c * f /\ f \in Nat \ {0}
        BY <1>1, <3>1, Pow2Split
      <3>3. QED
        BY <1>1, <3>2
    <2>2. a = [h |-> hi * c + q, l |-> r]
      BY <1>2, <1>3, Zenon DEF Aligned
    <2> HIDE DEF n, a, c, N, f
    <2>3. lo \in Int /\ lo * c \in Int
      BY <1>1
    <2>4. Scaled(lo, f, c)
      BY <1>1, <2>1, <2>3, ScaledDivision
    <2>5. (lo * c) \div N = q
      BY <2>1, <2>4, Zenon DEF Scaled
    <2>6. Euclid(lo * c, N, q, r)
      BY <1>1, <2>3, <2>5, EuclidParts, Zenon
    <2>7. lo * c = q * N + r /\ q \in Int /\ r \in 0 .. N - 1
      BY <2>6 DEF Euclid
    <2> HIDE DEF q, r
    <2>8. hi * c \in Int /\ (hi * c + q) * N = (hi * N) * c + q * N /\ q * N \in Int /\ (hi * N) * c \in Int
      <3>1. hi * c \in Int
        BY <1>1
      <3>2. (hi * c + q) * N = (hi * c) * N + q * N
        BY <1>1, <2>7, <3>1
      <3>3. (hi * c) * N = (hi * N) * c
        BY <1>1
      <3>4. hi * N \in Int
        BY <1>1
      <3>5. (hi * N) * c \in Int /\ q * N \in Int
        BY <1>1, <2>7, <3>4
      <3>6. QED
        BY <3>1, <3>2, <3>3, <3>5, Zenon
    <2>9. (hi * N + lo) * c = (hi * N) * c + lo * c
      <3>1. hi * N \in Int
        BY <1>1
      <3>2. QED
        BY <1>1, <3>1
    <2>10. a \in TwoWords /\ a.h = hi * c + q /\ a.l = r
      BY <2>2, <2>7, <2>8 DEF TwoWords, N
    <2>11. Both(a) = (hi * c + q) * N + r
      BY <2>10, Zenon DEF Both, N
    <2>12. Both(a) = (hi * N + lo) * c
      BY <2>3, <2>7, <2>8, <2>9, <2>11
    <2>13. QED
      BY <2>10, <2>12 DEF a, N, c
  <1>4. CASE ~(i <= L - 1)
    <2> DEFINE f == Pow2[i - L]
    <2>1. c = N * f /\ f \in Nat \ {0} /\ hi = 0
      <3>1. L \in 0 .. i /\ i >= L
        BY <1>1, <1>4
      <3>2. QED
        BY <1>1, <3>1, Pow2Split
    <2>2. a = [h |-> lo * f, l |-> 0]
      BY <1>2, <1>4, Zenon DEF Aligned
    <2> HIDE DEF n, a, c, N, f
    <2>3. (0 * N + lo) * (N * f) = (lo * f) * N + 0 /\ lo * f \in Int
      BY <1>1, <2>1
    <2>4. a \in TwoWords
      BY <1>1, <2>2, <2>3 DEF TwoWords, N
    <2>5. Both(a) = (hi * N + lo) * c
      <3>1. Both(a) = (lo * f) * N + 0
        BY <2>2 DEF Both, N
      <3>2. QED
        BY <2>1, <2>3, <3>1, Zenon
    <2>6. QED
      BY <2>4, <2>5 DEF a, N, c
  <1>5. QED
    BY <1>3, <1>4

(* The exponent and the words that fmod takes from a number.               *)
TakenApart(x, e, m) ==
  /\ NormalForm(x, e, m)
  /\ Ilogb(x.hi, x.lo) = e - Bias
  /\ Aligned(x.hi, x.lo, e - Bias) \in TwoWords
  /\ Both(Aligned(x.hi, x.lo, e - Bias)) = Pow2[P] + m

LEMMA SubnormalApart ==
  ASSUME Format, NEW x \in Double, ~IsZero(x), x.hi < Pow2[H]
  PROVE  \E e, m : TakenApart(x, e, m)
  <1> DEFINE M0 == Mantissa(x)
             S == Pow2[P]
             N == Pow2[L]
             hi == x.hi
             lo == x.lo
  <1>1. /\ P \in Nat /\ S \in Nat \ {0} /\ Bias \in Nat /\ N \in Nat \ {0} /\ Pow2[P + 1] = 2 * S
        /\ Pow2[H] \in Nat \ {0} /\ H \in Nat /\ L \in Nat /\ H < L /\ P = H + L /\ H - 1 \in Nat /\ L - 1 \in Nat
    BY Sizes, Pow2Next DEF Format
  <1>2. M0 \in 0 .. S - 1 /\ Units(x) = M0 /\ M0 = hi * N + lo /\ hi \in Nat /\ lo \in 0 .. N - 1
    <2>1. x.hi \div Pow2[H] = 0 /\ M0 \in 0 .. S - 1 /\ x \in Words
      BY Fields
    <2>2. Units(x) = M0 /\ Place(x) = M0
      BY <2>1, UnitsOf
    <2>3. QED
      BY <2>1, <2>2 DEF Place, Words
  <1>3. M0 # 0 /\ M0 \in Nat \ {0} /\ hi * N \in Nat
    <2>1. hi # 0 => hi * N > 0
      BY <1>1, <1>2
    <2>2. hi * N \in Nat
      BY <1>1, <1>2
    <2>3. QED
      BY <1>1, <1>2, <2>1, <2>2 DEF IsZero
  <1>4. PICK i \in 1 .. P : S <= M0 * Pow2[i] /\ M0 * Pow2[i] < Pow2[P + 1]
    <2>1. M0 \in 1 .. Pow2[P] - 1
      BY <1>1, <1>2, <1>3
    <2>2. Shifts(M0, P) # {}
      BY <1>1, <2>1, ShiftExists
    <2>3. QED
      BY <2>2 DEF Shifts
  <1> DEFINE e == 1 - i
             m == M0 * Pow2[i] - S
             k == P - i
  <1>5. i \in Nat /\ k \in Nat /\ k + 1 \in Nat /\ Pow2[i] \in Nat \ {0} /\ e \in Int
    BY <1>1, Pow2Type
  <1>6. Pow2[k] <= M0 /\ M0 < Pow2[k + 1]
    <2>1. i \in 0 .. P /\ M0 \in Nat
      BY <1>1, <1>3
    <2> HIDE DEF M0
    <2>2. QED
      BY <1>1, <1>4, <2>1, ShiftedTop
  <1>7. NormalForm(x, e, m)
    <2>1. M0 * Pow2[i] \in Nat
      BY <1>3, <1>5
    <2>2. m \in 0 .. S - 1 /\ M0 * Pow2[i] = S + m
      BY <1>1, <1>4, <2>1
    <2>3. e \in 1 - P .. 2 * Bias /\ e < 1 /\ ~(e >= 1) /\ 1 - e = i
      BY <1>1
    <2>4. QED
      BY <1>2, <1>3, <2>2, <2>3 DEF NormalForm
  <1>8. Pow2[k] \in Nat /\ Pow2[k + 1] \in Nat
    BY <1>5, Pow2Type
  <1> HIDE DEF M0, S, N, m
  <1>9. CASE hi = 0
    <2>1. lo = M0 /\ lo \in Nat /\ 0 * N = 0
      BY <1>1, <1>2, <1>9
    <2>2. k \in 0 .. L - 1
      <3>1. L <= k => Pow2[L] <= Pow2[k]
        BY <1>1, <1>5, Pow2Grows
      <3>2. QED
        BY <1>1, <1>2, <1>5, <1>6, <1>8, <2>1, <3>1 DEF N
    <2> DEFINE B1(j) == Pow2[j] <= lo /\ lo < Pow2[j + 1]
               c == CHOOSE j \in 0 .. L - 1 : B1(j)
    <2>3. B1(k)
      BY <1>6, <2>1
    <2>4. c \in 0 .. L - 1 /\ B1(c)
      BY <2>2, <2>3, Zenon
    <2>5. c = k
      <3> HIDE DEF k, c
      <3>1. c \in Nat
        BY <2>4
      <3>2. QED
        BY <1>5, <2>1, <2>3, <2>4, <3>1, TopBit
    <2>6. Ilogb(hi, lo) = IF hi >= Pow2[H] THEN hi \div Pow2[H] - Bias
                          ELSE IF hi = 0 THEN c + 1 - Bias - P
                          ELSE (CHOOSE j \in 0 .. H - 1 : Pow2[j] <= hi /\ hi < Pow2[j + 1]) + 1 - Bias - H
      BY Zenon DEF Ilogb
    <2>7. Ilogb(hi, lo) = c + 1 - Bias - P
      BY <1>1, <1>9, <2>6
    <2>8. Ilogb(hi, lo) = e - Bias
      <3> HIDE DEF c
      <3>1. QED
        BY <1>1, <1>5, <2>5, <2>7
    <2>9. Aligned(hi, lo, e - Bias) \in TwoWords /\ Both(Aligned(hi, lo, e - Bias)) = M0 * Pow2[i]
      BY <1>2, <1>9, AlignedBoth DEF N
    <2>10. M0 * Pow2[i] = Pow2[P] + m
      <3>1. M0 * Pow2[i] \in Nat
        BY <1>3, <1>5
      <3>2. QED
        BY <1>1, <3>1 DEF m, S
    <2>11. TakenApart(x, e, m)
      BY <1>7, <2>8, <2>9, <2>10, Zenon DEF TakenApart
    <2>12. QED
      BY <2>11
  <1>10. CASE hi # 0
    <2>1. M0 >= N
      <3>1. hi * N >= N
        BY <1>1, <1>2, <1>10
      <3>2. QED
        BY <1>1, <1>2, <1>3, <3>1
    <2>2. k >= L
      <3>1. k + 1 <= L => Pow2[k + 1] <= Pow2[L]
        BY <1>1, <1>5, Pow2Grows
      <3>2. QED
        BY <1>1, <1>2, <1>5, <1>6, <1>8, <2>1, <3>1 DEF N
    <2> DEFINE j == k - L
    <2>3. j \in Nat /\ j + 1 \in Nat /\ i = H - j /\ j \in 0 .. H - 1
      BY <1>1, <1>5, <2>2
    <2>4. Pow2[k] = Pow2[j] * N /\ Pow2[k + 1] = Pow2[j + 1] * N /\ Pow2[j] \in Nat \ {0} /\ Pow2[j + 1] \in Nat \ {0}
      <3>1. j + L = k /\ (j + 1) + L = k + 1
        BY <1>1, <1>5
      <3>2. Pow2[j + L] = Pow2[j] * N /\ Pow2[(j + 1) + L] = Pow2[j + 1] * N
        BY <1>1, <2>3, Pow2Sum DEF N
      <3>3. Pow2[j] \in Nat \ {0} /\ Pow2[j + 1] \in Nat \ {0}
        BY <2>3, Pow2Type
      <3>4. Pow2[k] = Pow2[j] * N /\ Pow2[k + 1] = Pow2[j + 1] * N
        BY <3>1, <3>2, Zenon
      <3>5. QED
        BY <3>3, <3>4
    <2> DEFINE B1(jj) == Pow2[jj] <= hi /\ hi < Pow2[jj + 1]
               c == CHOOSE jj \in 0 .. H - 1 : B1(jj)
    <2>5. B1(j)
      <3> DEFINE f == Pow2[j]
                 g == Pow2[j + 1]
      <3>1. f \in Nat /\ g \in Nat /\ f * N <= M0 /\ M0 < g * N
        BY <1>6, <2>4
      <3> HIDE DEF f, g
      <3>2. hi < f => hi * N <= (f - 1) * N
        BY <1>1, <1>2, <3>1
      <3>3. hi >= g => hi * N >= g * N
        BY <1>1, <1>2, <3>1
      <3>4. (f - 1) * N = f * N - N /\ f * N \in Int /\ g * N \in Int
        BY <1>1, <3>1
      <3>5. f <= hi /\ hi < g
        BY <1>1, <1>2, <1>3, <3>1, <3>2, <3>3, <3>4
      <3>6. QED
        BY <3>5 DEF f, g
    <2>6. c \in 0 .. H - 1 /\ B1(c)
      BY <2>3, <2>5, Zenon
    <2>7. c = j
      <3> HIDE DEF j, c
      <3>1. c \in Nat
        BY <2>6
      <3>2. QED
        BY <1>2, <2>3, <2>5, <2>6, <3>1, TopBit
    <2>8. Ilogb(hi, lo) = IF hi >= Pow2[H] THEN hi \div Pow2[H] - Bias
                          ELSE IF hi = 0 THEN (CHOOSE jj \in 0 .. L - 1 : Pow2[jj] <= lo /\ lo < Pow2[jj + 1]) + 1 - Bias - P
                          ELSE c + 1 - Bias - H
      BY Zenon DEF Ilogb
    <2>9. Ilogb(hi, lo) = c + 1 - Bias - H
      BY <1>1, <1>2, <1>10, <2>8
    <2>10. Ilogb(hi, lo) = e - Bias
      <3>1. c = H - i
        <4> HIDE DEF c
        <4>1. QED
          BY <1>1, <1>5, <2>3, <2>7
      <3> HIDE DEF c
      <3>2. QED
        BY <1>1, <1>5, <2>9, <3>1
    <2>11. ~(i >= L)
      BY <1>1, <2>3
    <2>12. Aligned(hi, lo, e - Bias) \in TwoWords /\ Both(Aligned(hi, lo, e - Bias)) = M0 * Pow2[i]
      BY <1>2, <2>11, AlignedBoth DEF N
    <2>13. M0 * Pow2[i] = Pow2[P] + m
      <3>1. M0 * Pow2[i] \in Nat
        BY <1>3, <1>5
      <3>2. QED
        BY <1>1, <3>1 DEF m, S
    <2>14. TakenApart(x, e, m)
      BY <1>7, <2>10, <2>12, <2>13, Zenon DEF TakenApart
    <2>15. QED
      BY <2>14
  <1>11. QED
    BY <1>9, <1>10

LEMMA NumberApart ==
  ASSUME Format, NEW x \in Double, Finite(x), ~IsZero(x)
  PROVE  \E e, m : TakenApart(x, e, m)
  <1>1. CASE x.hi < Pow2[H]
    BY <1>1, SubnormalApart
  <1>2. CASE ~(x.hi < Pow2[H])
    <2> DEFINE e == x.hi \div Pow2[H]
               f == x.hi % Pow2[H]
               m == Mantissa(x)
               S == Pow2[P]
    <2>1. /\ P \in Nat /\ S \in Nat \ {0} /\ Bias \in Nat /\ Pow2[L] \in Nat \ {0} /\ Pow2[H] \in Nat \ {0}
          /\ S = Pow2[H] * Pow2[L]
      BY Sizes
    <2>2. e \in 0 .. 2 * Bias + 1 /\ e # 0 /\ e <= 2 * Bias /\ m \in 0 .. S - 1 /\ x \in Words
      BY <1>2, Fields
    <2>3. e \in 1 - P .. 2 * Bias /\ e >= 1 /\ ~(e < 1) /\ e - 1 \in Nat
      BY <2>1, <2>2
    <2>4. x.hi \in Nat /\ x.lo \in 0 .. Pow2[L] - 1
      BY <2>2 DEF Words
    <2>5. f \in Nat
      <3>1. x.hi \in Int
        BY <2>4
      <3>2. Euclid(x.hi, Pow2[H], e, f)
        BY <2>1, <3>1, EuclidParts, Zenon
      <3>3. QED
        BY <2>1, <3>2 DEF Euclid
    <2>6. NormalForm(x, e, m)
      <3>1. Units(x) = (S + m) * Pow2[e - 1] /\ Pow2[e - 1] \in Nat \ {0}
        BY <2>2, <2>3, UnitsOf, Pow2Type
      <3>2. (S + m) * Pow2[e - 1] \in Nat \ {0}
        BY <2>1, <2>2, <3>1
      <3>3. QED
        BY <2>2, <2>3, <3>1, <3>2 DEF NormalForm
    <2>7. Ilogb(x.hi, x.lo) = e - Bias
      <3>1. x.hi >= Pow2[H]
        BY <1>2, <2>1, <2>4
      <3>2. QED
        BY <3>1 DEF Ilogb
    <2> DEFINE a == Aligned(x.hi, x.lo, e - Bias)
               n == 1 - Bias - (e - Bias)
    <2>8. n <= 0
      BY <2>1, <2>3
    <2>9. a = [h |-> Pow2[H] + f, l |-> x.lo]
      BY <2>8, Zenon DEF Aligned
    <2> HIDE DEF a, e, n
    <2>10. a \in TwoWords /\ a.h = Pow2[H] + f /\ a.l = x.lo
      BY <2>1, <2>4, <2>5, <2>9 DEF TwoWords
    <2>11. Both(a) = S + m
      <3>1. m = f * Pow2[L] + x.lo
        BY DEF Mantissa
      <3>2. (Pow2[H] + f) * Pow2[L] = S + f * Pow2[L] /\ f * Pow2[L] \in Int
        BY <2>1, <2>5
      <3>3. Both(a) = (Pow2[H] + f) * Pow2[L] + x.lo
        BY <2>10, Zenon DEF Both
      <3>4. QED
        BY <2>1, <2>4, <3>1, <3>2, <3>3
    <2>12. TakenApart(x, e, m)
      BY <2>6, <2>7, <2>10, <2>11, Zenon DEF TakenApart, a
    <2>13. QED
      BY <2>12
  <1>3. QED
    BY <1>1, <1>2

(* The magnitude in units that both kinds of number are multiples of.      *)
LEMMA NormalUnits ==
  ASSUME Format, NEW x, NEW e, NEW m, NormalForm(x, e, m)
  PROVE  /\ Units(x) * Pow2[P] = (Pow2[P] + m) * Pow2[P + e - 1]
         /\ Pow2[P + e - 1] \in Nat \ {0}
         /\ e >= 1 => Pow2[P + e - 1] = Pow2[e - 1] * Pow2[P]
         /\ e < 1 => Pow2[P] = Pow2[1 - e] * Pow2[P + e - 1]
  <1> DEFINE Num == Pow2[P] + m
             u == Units(x)
  <1>1. Num \in Nat /\ e \in Int /\ u \in Nat /\ P \in Nat /\ Pow2[P] \in Nat /\ P + e - 1 \in Nat
    BY PositiveBias DEF NormalForm
  <1>2. Pow2[P + e - 1] \in Nat \ {0}
    BY <1>1, Pow2Type
  <1>3. CASE e >= 1
    <2>1. u = Num * Pow2[e - 1] /\ e - 1 \in Nat
      BY <1>1, <1>3 DEF NormalForm
    <2>2. e - 1 \in 0 .. P + e - 1 /\ (P + e - 1) - (e - 1) = P
      BY <1>1, <1>3
    <2>3. Pow2[P + e - 1] = Pow2[e - 1] * Pow2[P] /\ Pow2[e - 1] \in Nat
      <3>1. Pow2[P + e - 1] = Pow2[e - 1] * Pow2[(P + e - 1) - (e - 1)] /\ Pow2[e - 1] \in Nat
        BY <1>1, <2>2, Pow2Split
      <3>2. QED
        BY <2>2, <3>1, Zenon
    <2>4. (Num * Pow2[e - 1]) * Pow2[P] = Num * (Pow2[e - 1] * Pow2[P])
      BY <1>1, <2>3
    <2>5. u * Pow2[P] = Num * Pow2[P + e - 1]
      BY <2>1, <2>3, <2>4, Zenon
    <2>6. ~(e < 1)
      BY <1>1, <1>3
    <2>7. QED
      BY <1>2, <2>3, <2>5, <2>6
  <1>4. CASE e < 1
    <2>1. u * Pow2[1 - e] = Num
      BY <1>4 DEF NormalForm
    <2>2. 1 - e \in 0 .. P /\ P - (1 - e) = P + e - 1
      BY <1>1, <1>4
    <2>3. Pow2[P] = Pow2[1 - e] * Pow2[P + e - 1] /\ Pow2[1 - e] \in Nat
      <3>1. Pow2[P] = Pow2[1 - e] * Pow2[P - (1 - e)] /\ Pow2[1 - e] \in Nat
        BY <1>1, <2>2, Pow2Split
      <3>2. QED
        BY <2>2, <3>1, Zenon
    <2>4. u * (Pow2[1 - e] * Pow2[P + e - 1]) = (u * Pow2[1 - e]) * Pow2[P + e - 1]
      BY <1>1, <1>2, <2>3
    <2>5. u * Pow2[P] = Num * Pow2[P + e - 1]
      BY <2>1, <2>3, <2>4, Zenon
    <2>6. ~(e >= 1)
      BY <1>1, <1>4
    <2>7. QED
      BY <1>2, <2>3, <2>5, <2>6
  <1>5. QED
    BY <1>1, <1>3, <1>4

(* A double's place and its magnitude, by one exponent from 1 on.          *)
Leveled(x, f, w) ==
  /\ f \in Nat \ {0} /\ w \in Nat /\ w < 2 * Pow2[P] /\ (f = 1 \/ w >= Pow2[P])
  /\ Place(x) = (f - 1) * Pow2[P] + w
  /\ Units(x) = w * Pow2[f - 1]

LEMMA LeveledDouble ==
  ASSUME Format, NEW x \in Double
  PROVE  \E f, w : Leveled(x, f, w)
  <1> DEFINE e == x.hi \div Pow2[H]
             M0 == Mantissa(x)
             S == Pow2[P]
  <1>1. S \in Nat \ {0} /\ e \in Nat /\ M0 \in 0 .. S - 1
    BY Sizes, Fields
  <1>2. CASE e = 0
    <2>1. Units(x) = M0 /\ Place(x) = M0
      BY <1>2, UnitsOf
    <2>2. Pow2[1 - 1] = 1
      BY Pow2Zero
    <2> HIDE DEF M0
    <2>3. (1 - 1) * S + M0 = M0 /\ M0 * 1 = M0
      BY <1>1
    <2>4. M0 * Pow2[1 - 1] = M0
      BY <2>2, <2>3
    <2>5. Leveled(x, 1, M0)
      BY <1>1, <2>1, <2>3, <2>4 DEF Leveled
    <2>6. QED
      BY <2>5
  <1>3. CASE e # 0
    <2>1. Units(x) = (S + M0) * Pow2[e - 1] /\ Place(x) = (e - 1) * S + (S + M0)
      BY <1>3, UnitsOf
    <2> HIDE DEF M0, e
    <2>2. Leveled(x, e, S + M0)
      BY <1>1, <1>3, <2>1 DEF Leveled
    <2>3. QED
      BY <2>2
  <1>4. QED
    BY <1>2, <1>3

(* The order of the words is that of the magnitudes.                       *)
LEMMA UnitsIncrease ==
  ASSUME Format, NEW x \in Double, NEW y \in Double, Place(x) < Place(y)
  PROVE  Units(x) < Units(y) /\ Units(x) \in Nat /\ Units(y) \in Nat
  <1> DEFINE S == Pow2[P]
  <1>1. S \in Nat \ {0}
    BY Sizes
  <1>2. PICK fx, wx : Leveled(x, fx, wx)
    BY LeveledDouble
  <1>3. PICK fy, wy : Leveled(y, fy, wy)
    BY LeveledDouble
  <1>4. /\ fx \in Nat \ {0} /\ wx \in Nat /\ wx < 2 * S /\ Place(x) = (fx - 1) * S + wx /\ Units(x) = wx * Pow2[fx - 1]
        /\ fy \in Nat \ {0} /\ wy \in Nat /\ wy < 2 * S /\ Place(y) = (fy - 1) * S + wy /\ Units(y) = wy * Pow2[fy - 1]
        /\ fx = 1 \/ wx >= S
        /\ fy = 1 \/ wy >= S
    BY <1>2, <1>3 DEF Leveled
  <1>5. (fx - 1) * S \in Int /\ (fy - 1) * S \in Int
    BY <1>1, <1>4
  <1>6. fx - 1 \in Nat /\ fy - 1 \in Nat /\ Pow2[fx - 1] \in Nat \ {0} /\ Pow2[fy - 1] \in Nat \ {0}
    BY <1>4, Pow2Type
  <1>7. Units(x) \in Nat /\ Units(y) \in Nat
    BY <1>4, <1>6
  <1>8. CASE fx = fy
    <2>1. wx < wy
      BY <1>4, <1>5, <1>8
    <2> DEFINE c == Pow2[fy - 1]
    <2>2. c \in Nat \ {0}
      BY <1>6
    <2> HIDE DEF c
    <2>3. wx * c < wy * c
      BY <1>4, <2>1, <2>2
    <2>4. QED
      BY <1>4, <1>7, <1>8, <2>3 DEF c
  <1>9. CASE fx < fy
    <2> DEFINE c == Pow2[fx - 1]
               d == Pow2[fy - 1]
    <2>1. 2 * c <= d /\ c \in Nat \ {0} /\ d \in Nat \ {0}
      <3>1. fx - 1 < fy - 1
        BY <1>4, <1>9
      <3>2. QED
        BY <1>6, <3>1, Pow2Grows
    <2>2. wy >= S
      BY <1>4, <1>9
    <2> HIDE DEF c, d, S
    <2>3. wx * c < (2 * S) * c
      BY <1>1, <1>4, <2>1
    <2>4. (2 * S) * c = S * (2 * c) /\ S * (2 * c) <= S * d
      BY <1>1, <2>1
    <2>5. S * d <= wy * d
      BY <1>1, <1>4, <2>1, <2>2
    <2>6. wx * c \in Int /\ wy * d \in Int /\ S * d \in Int /\ (2 * S) * c \in Int
      BY <1>1, <1>4, <2>1
    <2>7. wx * c < wy * d
      BY <2>3, <2>4, <2>5, <2>6
    <2>8. QED
      BY <1>4, <1>7, <2>7 DEF c, d
  <1>10. CASE fx > fy
    <2>1. wx >= S
      BY <1>4, <1>10
    <2>2. (fx - 1) * S >= fy * S /\ fy * S = (fy - 1) * S + S
      BY <1>1, <1>4, <1>10
    <2>3. QED
      BY <1>1, <1>4, <1>5, <2>1, <2>2
  <1>11. QED
    BY <1>4, <1>8, <1>9, <1>10

LEMMA LessPlace ==
  ASSUME Format, NEW x \in Words, NEW y \in Words
  PROVE  /\ Less(x, y) => Place(x) < Place(y)
         /\ ~Less(x, y) => Place(y) < Place(x) \/ (x.hi = y.hi /\ x.lo = y.lo)
  <1> DEFINE N == Pow2[L]
  <1>1. N \in Nat \ {0} /\ x.hi \in Nat /\ y.hi \in Nat /\ x.lo \in 0 .. N - 1 /\ y.lo \in 0 .. N - 1
    BY Sizes DEF Words
  <1>2. Place(x) = x.hi * N + x.lo /\ Place(y) = y.hi * N + y.lo /\ x.hi * N \in Nat /\ y.hi * N \in Nat
    BY <1>1 DEF Place
  <1>3. x.hi < y.hi => x.hi * N + N <= y.hi * N
    <2>1. x.hi < y.hi => (x.hi + 1) * N <= y.hi * N
      BY <1>1
    <2>2. QED
      BY <1>1, <2>1
  <1>4. y.hi < x.hi => y.hi * N + N <= x.hi * N
    <2>1. y.hi < x.hi => (y.hi + 1) * N <= x.hi * N
      BY <1>1
    <2>2. QED
      BY <1>1, <2>1
  <1> DEFINE g == x.hi * N
             h == y.hi * N
  <1>5. g \in Nat /\ h \in Nat /\ Place(x) = g + x.lo /\ Place(y) = h + y.lo /\ (x.hi = y.hi => g = h)
    BY <1>2
  <1>6. (x.hi < y.hi => g + N <= h) /\ (y.hi < x.hi => h + N <= g)
    BY <1>3, <1>4
  <1> HIDE DEF N, g, h
  <1>7. CASE x.hi < y.hi
    BY <1>1, <1>5, <1>6, <1>7 DEF Less
  <1>8. CASE y.hi < x.hi
    BY <1>1, <1>5, <1>6, <1>8 DEF Less
  <1>9. CASE x.hi = y.hi
    BY <1>1, <1>5, <1>9 DEF Less
  <1>10. QED
    BY <1>1, <1>7, <1>8, <1>9

(* The exponents of numbers are in their order.                            *)
LEMMA ExponentsIncrease ==
  ASSUME Format, NEW x, NEW y, NEW e, NEW m, NEW f, NEW n,
         NormalForm(x, e, m), NormalForm(y, f, n), e < f
  PROVE  Units(x) < Units(y)
  <1> DEFINE S == Pow2[P]
             c == Pow2[P + e - 1]
             d == Pow2[P + f - 1]
             u == Units(x)
             v == Units(y)
  <1>1. /\ S \in Nat \ {0} /\ P \in Nat /\ u \in Nat /\ v \in Nat /\ m \in Nat /\ n \in Nat /\ m < S
        /\ P + e - 1 \in Nat /\ P + f - 1 \in Nat /\ e \in Int /\ f \in Int
    BY PositiveBias DEF NormalForm
  <1>2. u * S = (S + m) * c /\ v * S = (S + n) * d
    BY NormalUnits
  <1>3. 2 * c <= d /\ c \in Nat \ {0} /\ d \in Nat \ {0}
    <2>1. P + e - 1 < P + f - 1
      BY <1>1
    <2>2. QED
      BY <1>1, <2>1, Pow2Grows
  <1> HIDE DEF c, d, S, u, v
  <1>4. (S + m) * c < (2 * S) * c
    BY <1>1, <1>3
  <1>5. (2 * S) * c = S * (2 * c) /\ S * (2 * c) <= S * d
    BY <1>1, <1>3
  <1>6. S * d <= (S + n) * d
    BY <1>1, <1>3
  <1>7. (S + m) * c \in Int /\ (2 * S) * c \in Int /\ S * d \in Int /\ (S + n) * d \in Int
    BY <1>1, <1>3
  <1>8. u * S < v * S
    BY <1>2, <1>4, <1>5, <1>6, <1>7
  <1>9. u >= v => u * S >= v * S
    BY <1>1
  <1>10. u < v
    BY <1>1, <1>2, <1>7, <1>8, <1>9
  <1>11. QED
    BY <1>10 DEF u, v

ZeroWords == [h |-> 0, l |-> 0]

(* What is left after the last turn.                                       *)
LeftOver(t, b) == IF Minus(t, b).h >= 0 THEN Minus(t, b) ELSE t

(* What fmod makes of the states of its loop.                              *)
Remaindered(x, y, a, b, n, iy) ==
  IF IsZero(y) \/ ~Finite(x) \/ IsNan(y) THEN NotANumber
  ELSE IF Less(x, y) THEN x
  ELSE IF LeftOver(a[n], b) = ZeroWords \/ \E i \in 0 .. n - 1 : Minus(a[i], b) = ZeroWords
       THEN Zero(x.neg)
       ELSE Composed(LeftOver(a[n], b), iy, x.neg)

LEMMA TurnsExist ==
  ASSUME Format, NEW x, NEW y, NEW ex, NEW ey,
         ex = Ilogb(x.hi, x.lo), ey = Ilogb(y.hi, y.lo), ex - ey \in Nat,
         Aligned(x.hi, x.lo, ex) \in TwoWords, Aligned(y.hi, y.lo, ey) \in TwoWords
  PROVE  \E a : /\ IsTurns(a, Aligned(x.hi, x.lo, ex), Aligned(y.hi, y.lo, ey), ex - ey)
               /\ fmod(x, y) = Remaindered(x, y, a, Aligned(y.hi, y.lo, ey), ex - ey, ey)
  <1> DEFINE ix == Ilogb(x.hi, x.lo)
             iy == Ilogb(y.hi, y.lo)
             first == Aligned(x.hi, x.lo, ix)
             b == Aligned(y.hi, y.lo, iy)
             n == ix - iy
             a[i \in 0 .. n] == IF i = 0 THEN first ELSE FmodTurn(a[i - 1], b)
             step == [p \in Nat \X TwoWords |-> FmodTurn(p[2], b)]
  <1>1. n \in Nat
    OBVIOUS
  <1>2. \A t \in TwoWords : FmodTurn(t, b) \in TwoWords
    <2>1. b \in TwoWords
      OBVIOUS
    <2> HIDE DEF b
    <2>2. QED
      BY <2>1, FmodTurnBoth
  <1>3. IsStep(step, TwoWords)
    BY <1>2 DEF IsStep
  <1>4. first \in TwoWords
    OBVIOUS
  <1> HIDE DEF step, n, first, b
  <1>5. PICK f : IsRecursive(f, n, first, step, TwoWords)
    BY <1>1, <1>3, <1>4, Recursion, Zenon
  <1>6. f = [i \in 0 .. n |-> IF i = 0 THEN first ELSE FmodTurn(f[i - 1], b)]
    <2>1. ASSUME NEW i \in 0 .. n
          PROVE  f[i] = IF i = 0 THEN first ELSE FmodTurn(f[i - 1], b)
      <3>1. CASE i = 0
        BY <1>5, <3>1 DEF IsRecursive
      <3>2. CASE i # 0
        <4>1. i \in 1 .. n /\ i - 1 \in 0 .. n /\ i \in Nat
          BY <1>1, <3>2
        <4>2. f[i] = step[<<i, f[i - 1]>>] /\ f[i - 1] \in TwoWords
          BY <1>5, <4>1 DEF IsRecursive
        <4>3. QED
          BY <3>2, <4>1, <4>2 DEF step
      <3>3. QED
        BY <3>1, <3>2
    <2>2. f = [i \in 0 .. n |-> f[i]]
      BY <1>5 DEF IsRecursive
    <2>3. QED
      BY <2>1, <2>2, Zenon
  <1>7. a = [i \in 0 .. n |-> IF i = 0 THEN first ELSE FmodTurn(a[i - 1], b)]
    BY <1>6, Zenon
  <1>8. fmod(x, y) = Remaindered(x, y, a, b, n, iy)
    BY Zenon DEF fmod, Remaindered, LeftOver, ZeroWords, n, first, b
  <1> HIDE DEF a
  <1>9. IsTurns(a, first, b, n)
    <2>1. a[0] = first
      BY <1>1, <1>7
    <2>2. \A i \in 1 .. n : a[i] = FmodTurn(a[i - 1], b)
      BY <1>1, <1>7
    <2>3. QED
      BY <2>1, <2>2 DEF IsTurns
  <1>10. QED
    BY <1>8, <1>9, Zenon DEF n, first, b

(* The last turn leaves the remainder, and a difference of 0 before it      *)
(* means that there is none.                                               *)
LEMMA TurnsRemainder ==
  ASSUME Format, NEW first \in TwoWords, NEW b \in TwoWords, Both(b) \in Nat \ {0},
         Both(first) \in Nat, Both(first) < 2 * Both(b), NEW n \in Nat, NEW a, IsTurns(a, first, b, n)
  PROVE  LET R == (Both(first) * Pow2[n]) % Both(b)
         IN  /\ LeftOver(a[n], b) \in TwoWords /\ Both(LeftOver(a[n], b)) = R
             /\ R \in 0 .. Both(b) - 1
             /\ (\E i \in 0 .. n - 1 : Minus(a[i], b) = ZeroWords) => R = 0
  <1> DEFINE X == Both(first)
             D == Both(b)
             R == (X * Pow2[n]) % D
             z == LeftOver(a[n], b)
             A == Both(a[n])
  <1>1. \A i \in 0 .. n : a[i] \in TwoWords /\ TurnsLeft(Both(a[i]), i, X, D)
    BY TurnsDivide
  <1>2. X \in Nat /\ D \in Nat \ {0} /\ Pow2[n] \in Nat \ {0} /\ n \in 0 .. n
    BY Pow2Type
  <1>3. X * Pow2[n] \in Nat
    BY <1>2
  <1>4. a[n] \in TwoWords /\ TurnsLeft(A, n, X, D)
    BY <1>1, <1>2
  <1> HIDE DEF X, D, A
  <1>5. PICK k \in Int : X * Pow2[n] = k * D + A
    BY <1>4 DEF TurnsLeft
  <1>6. A \in Int /\ 0 <= A /\ A < 2 * D
    BY <1>4 DEF TurnsLeft
  <1>7. Minus(a[n], b) \in TwoWords /\ Both(Minus(a[n], b)) = A - D
    BY <1>4, MinusBoth DEF A, D
  <1>8. Minus(a[n], b).h >= 0 <=> A >= D
    <2>1. Minus(a[n], b).h \in Int /\ (Minus(a[n], b).h < 0 <=> Both(Minus(a[n], b)) < 0)
      BY <1>7, BothParts
    <2>2. QED
      BY <1>2, <1>6, <1>7, <2>1
  <1>9. z \in TwoWords /\ Both(z) = IF A >= D THEN A - D ELSE A
    <2>1. CASE A >= D
      <3>1. z = Minus(a[n], b)
        BY <1>8, <2>1 DEF LeftOver
      <3>2. QED
        BY <1>7, <2>1, <3>1
    <2>2. CASE ~(A >= D)
      <3>1. z = a[n]
        BY <1>8, <2>2 DEF LeftOver
      <3>2. QED
        BY <1>4, <2>2, <3>1 DEF A
    <2>3. QED
      BY <2>1, <2>2
  <1>10. Both(z) = R
    <2>1. CASE A >= D
      <3>1. (k + 1) * D = k * D + D /\ k * D \in Int
        BY <1>2
      <3>2. Euclid(X * Pow2[n], D, k + 1, A - D)
        BY <1>2, <1>3, <1>5, <1>6, <2>1, <3>1 DEF Euclid
      <3>3. R = A - D
        BY <3>2, EuclidDivMod, Zenon
      <3>4. QED
        BY <1>9, <2>1, <3>3
    <2>2. CASE ~(A >= D)
      <3>1. Euclid(X * Pow2[n], D, k, A)
        BY <1>2, <1>3, <1>5, <1>6, <2>2 DEF Euclid
      <3>2. R = A
        BY <3>1, EuclidDivMod, Zenon
      <3>3. QED
        BY <1>9, <2>2, <3>2
    <2>3. QED
      BY <2>1, <2>2
  <1>11. R \in 0 .. D - 1
    <2>1. X * Pow2[n] \in Int
      BY <1>3
    <2>2. Euclid(X * Pow2[n], D, (X * Pow2[n]) \div D, R)
      BY <1>2, <2>1, EuclidParts, Zenon
    <2>3. QED
      BY <2>2, Zenon DEF Euclid
  <1>12. ASSUME NEW i \in 0 .. n - 1, Minus(a[i], b) = ZeroWords
         PROVE  R = 0
    <2>1. i \in 0 .. n /\ i \in Nat /\ n - i \in Nat
      BY <1>2
    <2>2. a[i] \in TwoWords /\ TurnsLeft(Both(a[i]), i, X, D)
      BY <1>1, <2>1
    <2>3. Both(Minus(a[i], b)) = Both(a[i]) - D /\ Minus(a[i], b) \in TwoWords
      BY <2>2, MinusBoth DEF D
    <2>4. Both(Minus(a[i], b)) = 0
      BY <1>12, <2>3, BothParts DEF ZeroWords
    <2>5. PICK j \in Int : X * Pow2[i] = j * D + Both(a[i])
      BY <2>2 DEF TurnsLeft
    <2>6. Both(a[i]) = D
      <3>1. Both(a[i]) \in Int
        BY <2>2, BothParts
      <3>2. QED
        BY <1>2, <2>3, <2>4, <3>1
    <2> DEFINE c == Pow2[i]
               d == Pow2[n - i]
    <2>7. Pow2[n] = c * d /\ c \in Nat /\ d \in Nat
      BY <2>1, Pow2Split
    <2>8. X * c = j * D + D
      BY <2>5, <2>6
    <2> HIDE DEF c, d
    <2>9. X * (c * d) = (X * c) * d /\ X * c \in Nat
      BY <1>2, <2>7
    <2>10. (j * D + D) * d = ((j + 1) * d) * D + 0 /\ (j + 1) * d \in Int
      BY <1>2, <2>7
    <2>11. X * Pow2[n] = ((j + 1) * d) * D + 0
      BY <2>7, <2>8, <2>9, <2>10, Zenon
    <2>12. Euclid(X * Pow2[n], D, (j + 1) * d, 0)
      BY <1>2, <1>3, <2>10, <2>11 DEF Euclid
    <2>13. QED
      BY <2>12, EuclidDivMod, Zenon
  <1>13. QED
    BY <1>9, <1>10, <1>11, <1>12 DEF X, D

LEMMA Cancelled ==
  ASSUME NEW a, NEW b, NEW c, a \in Int, b \in Int, c \in Nat \ {0}, a * c = b * c
  PROVE  a = b
  <1>1. a < b => a * c <= (b - 1) * c
    OBVIOUS
  <1>2. b < a => b * c <= (a - 1) * c
    OBVIOUS
  <1>3. (b - 1) * c = b * c - c /\ (a - 1) * c = a * c - c /\ a * c \in Int /\ b * c \in Int
    OBVIOUS
  <1>4. QED
    BY <1>1, <1>2, <1>3

(* The remainder of the magnitudes is that of the mantissas, in units of   *)
(* the divisor's.                                                          *)
LEMMA RemainderUnits ==
  ASSUME Format, NEW x, NEW y, NEW e, NEW m, NEW f, NEW n,
         NormalForm(x, e, m), NormalForm(y, f, n), e - f \in Nat
  PROVE  LET R == ((Pow2[P] + m) * Pow2[e - f]) % (Pow2[P] + n)
             u == Units(x) % Units(y)
         IN  /\ u \in Nat
             /\ u = 0 <=> R = 0
             /\ f >= 1 => u = R * Pow2[f - 1]
             /\ f < 1 => u * Pow2[1 - f] = R
  <1> DEFINE S == Pow2[P]
             c == Pow2[P + f - 1]
             q == Pow2[e - f]
             X == S + m
             D == S + n
             ux == Units(x)
             uy == Units(y)
             R == (X * q) % D
             u == ux % uy
  <1>1. /\ S \in Nat \ {0} /\ P \in Nat /\ ux \in Nat /\ uy \in Nat \ {0} /\ m \in Nat /\ n \in Nat
        /\ P + e - 1 \in Nat /\ P + f - 1 \in Nat /\ e \in Int /\ f \in Int
    BY PositiveBias DEF NormalForm
  <1>2. ux * S = X * Pow2[P + e - 1] /\ uy * S = D * c /\ c \in Nat \ {0}
    BY NormalUnits
  <1>3. Pow2[P + e - 1] = q * c /\ q \in Nat \ {0}
    <2>1. (e - f) + (P + f - 1) = P + e - 1
      BY <1>1
    <2>2. Pow2[(e - f) + (P + f - 1)] = q * c /\ q \in Nat \ {0}
      BY <1>1, Pow2Sum, Pow2Type
    <2>3. QED
      BY <2>1, <2>2, Zenon
  <1>4. f >= 1 => c = Pow2[f - 1] * S
    BY NormalUnits
  <1>5. f < 1 => S = Pow2[1 - f] * c
    BY NormalUnits
  <1>6. X \in Nat \ {0} /\ D \in Nat \ {0}
    BY <1>1
  <1> HIDE DEF S, c, q, X, D, ux, uy
  <1>7. X * (q * c) = (X * q) * c /\ X * q \in Nat
    BY <1>2, <1>3, <1>6
  <1>8. ux * S = (X * q) * c
    BY <1>2, <1>3, <1>7, Zenon
  <1>9. (ux * S) % (uy * S) = u * S
    <2>1. ux \in Int
      BY <1>1
    <2>2. Scaled(ux, uy, S)
      BY <1>1, <2>1, ScaledDivision
    <2>3. QED
      BY <2>2 DEF Scaled
  <1>10. ((X * q) * c) % (D * c) = R * c
    <2>1. X * q \in Int
      BY <1>7
    <2>2. Scaled(X * q, D, c)
      BY <1>2, <1>6, <2>1, ScaledDivision
    <2>3. QED
      BY <2>2 DEF Scaled
  <1>11. u * S = R * c
    BY <1>2, <1>8, <1>9, <1>10, Zenon
  <1>12. u \in Nat /\ R \in Nat
    <2>1. X * q \in Int /\ ux \in Int
      BY <1>1, <1>7
    <2>2. Euclid(X * q, D, (X * q) \div D, R) /\ Euclid(ux, uy, ux \div uy, u)
      BY <1>1, <1>6, <2>1, EuclidParts, Zenon
    <2>3. R \in 0 .. D - 1 /\ u \in 0 .. uy - 1
      BY <2>2, Zenon DEF Euclid
    <2>4. QED
      BY <1>1, <1>6, <2>3
  <1> HIDE DEF u, R
  <1>13. u = 0 <=> R = 0
    <2>1. u = 0 => u * S = 0
      BY <1>1
    <2>2. R = 0 => R * c = 0
      BY <1>2
    <2>3. u # 0 => u * S > 0
      BY <1>1, <1>12
    <2>4. R # 0 => R * c > 0
      BY <1>2, <1>12
    <2>5. QED
      BY <1>11, <2>1, <2>2, <2>3, <2>4
  <1>14. ASSUME f >= 1
         PROVE  u = R * Pow2[f - 1]
    <2> DEFINE g == Pow2[f - 1]
    <2>1. g \in Nat /\ c = g * S
      <3>1. f - 1 \in Nat
        BY <1>1, <1>14
      <3>2. QED
        BY <1>4, <1>14, <3>1, Pow2Type
    <2> HIDE DEF g
    <2>2. R * (g * S) = (R * g) * S /\ R * g \in Int /\ u \in Int
      BY <1>1, <1>12, <2>1
    <2>3. u * S = (R * g) * S
      BY <1>11, <2>1, <2>2, Zenon
    <2>4. u = R * g
      BY <1>1, <2>2, <2>3, Cancelled
    <2>5. QED
      BY <2>4 DEF g
  <1>15. ASSUME f < 1
         PROVE  u * Pow2[1 - f] = R
    <2> DEFINE g == Pow2[1 - f]
    <2>1. g \in Nat /\ S = g * c
      <3>1. 1 - f \in Nat
        BY <1>1, <1>15
      <3>2. QED
        BY <1>5, <1>15, <3>1, Pow2Type
    <2> HIDE DEF g
    <2>2. u * (g * c) = (u * g) * c /\ u * g \in Int /\ R \in Int
      BY <1>2, <1>12, <2>1
    <2>3. (u * g) * c = R * c
      BY <1>11, <2>1, <2>2, Zenon
    <2>4. u * g = R
      BY <1>2, <2>2, <2>3, Cancelled
    <2>5. QED
      BY <2>4 DEF g
  <1>16. QED
    BY <1>12, <1>13, <1>14, <1>15 DEF u, R, X, D, q, S, ux, uy

(* A remainder that takes turns.                                           *)
LEMMA RemainderTurned ==
  ASSUME Format, NEW x \in Double, NEW y \in Double, Finite(x), Finite(y), ~IsZero(y), ~Less(x, y)
  PROVE  Is(fmod(x, y), x.neg, Units(x) % Units(y))
  <1> DEFINE S == Pow2[P]
             u == Units(x) % Units(y)
  <1>1. S \in Nat \ {0} /\ P \in Nat /\ Bias \in Nat \ {0} /\ x.neg \in BOOLEAN
    BY PositiveBias DEF Double
  <1>2. x \in Words /\ y \in Words
    BY Fields
  <1>3. ~IsZero(x)
    BY <1>2 DEF IsZero, Less, Words
  <1>4. PICK e, m : TakenApart(x, e, m)
    BY <1>3, NumberApart
  <1>5. PICK f, n : TakenApart(y, f, n)
    BY NumberApart
  <1>6. /\ NormalForm(x, e, m) /\ NormalForm(y, f, n)
        /\ e \in Int /\ f \in Int /\ f <= 2 * Bias /\ m \in 0 .. S - 1 /\ n \in 0 .. S - 1
    BY <1>1, <1>4, <1>5 DEF TakenApart, NormalForm
  <1>7. e - f \in Nat
    <2>1. CASE Place(y) < Place(x)
      <3>1. Units(y) < Units(x) /\ Units(x) \in Nat /\ Units(y) \in Nat
        BY <2>1, UnitsIncrease
      <3>2. e < f => Units(x) < Units(y)
        BY <1>6, ExponentsIncrease
      <3>3. QED
        BY <1>6, <3>1, <3>2
    <2>2. CASE x.hi = y.hi /\ x.lo = y.lo
      <3>1. e - Bias = f - Bias
        BY <1>4, <1>5, <2>2 DEF TakenApart
      <3>2. QED
        BY <1>1, <1>6, <3>1
    <2>3. QED
      BY <1>2, <2>1, <2>2, LessPlace
  <1> DEFINE ex == e - Bias
             ey == f - Bias
             first == Aligned(x.hi, x.lo, ex)
             b == Aligned(y.hi, y.lo, ey)
             R == ((S + m) * Pow2[e - f]) % (S + n)
  <1>8. /\ ex = Ilogb(x.hi, x.lo) /\ ey = Ilogb(y.hi, y.lo) /\ first \in TwoWords /\ b \in TwoWords
        /\ Both(first) = S + m /\ Both(b) = S + n
    BY <1>4, <1>5 DEF TakenApart
  <1>9. ex - ey = e - f /\ ex - ey \in Nat /\ ey + Bias = f
    BY <1>1, <1>6, <1>7
  <1>10. PICK a : /\ IsTurns(a, first, b, ex - ey)
                  /\ fmod(x, y) = Remaindered(x, y, a, b, ex - ey, ey)
    <2> HIDE DEF ex, ey
    <2>1. QED
      BY <1>8, <1>9, TurnsExist
  <1> HIDE DEF first, b
  <1> DEFINE z == LeftOver(a[e - f], b)
             Ended == \E i \in 0 .. e - f - 1 : Minus(a[i], b) = ZeroWords
  <1>11. z \in TwoWords /\ Both(z) = R /\ R \in 0 .. (S + n) - 1 /\ (Ended => R = 0)
    <2>1. Both(b) \in Nat \ {0} /\ Both(first) \in Nat /\ Both(first) < 2 * Both(b)
      BY <1>1, <1>6, <1>8
    <2>2. IsTurns(a, first, b, e - f)
      BY <1>9, <1>10, Zenon
    <2> HIDE DEF S
    <2>3. /\ LeftOver(a[e - f], b) \in TwoWords
          /\ Both(LeftOver(a[e - f], b)) = (Both(first) * Pow2[e - f]) % Both(b)
          /\ (Both(first) * Pow2[e - f]) % Both(b) \in 0 .. Both(b) - 1
          /\ Ended => (Both(first) * Pow2[e - f]) % Both(b) = 0
      BY <1>7, <1>8, <2>1, <2>2, TurnsRemainder
    <2>4. (Both(first) * Pow2[e - f]) % Both(b) = R /\ Both(b) - 1 = (S + n) - 1
      BY <1>8, Zenon
    <2> HIDE DEF R, Ended, z
    <2>5. z \in TwoWords /\ Both(z) = R /\ R \in 0 .. (S + n) - 1
      BY <2>3, <2>4, Zenon DEF z
    <2>6. Ended => R = 0
      BY <2>3, <2>4, Zenon
    <2>7. QED
      BY <2>5, <2>6
  <1>12. /\ u \in Nat
         /\ u = 0 <=> R = 0
         /\ f >= 1 => u = R * Pow2[f - 1]
         /\ f < 1 => u * Pow2[1 - f] = R
    BY <1>6, <1>7, RemainderUnits
  <1>13. fmod(x, y) = IF z = ZeroWords \/ Ended THEN Zero(x.neg) ELSE Composed(z, ey, x.neg)
    <2>1. ~(IsZero(y) \/ ~Finite(x) \/ IsNan(y))
      <3>1. Special \in Nat
        BY Sizes
      <3>2. y.hi \in Nat
        BY <1>2 DEF Words
      <3>3. QED
        BY <3>1, <3>2 DEF Finite, IsNan
    <2>2. fmod(x, y) = Remaindered(x, y, a, b, e - f, ey)
      BY <1>9, <1>10, Zenon
    <2>3. QED
      BY <2>1, <2>2, Zenon DEF Remaindered
  <1>14. z = ZeroWords <=> R = 0
    <2> HIDE DEF z, R
    <2>1. Both(z) = 0 <=> z = [h |-> 0, l |-> 0]
      BY <1>11, BothParts
    <2>2. QED
      BY <1>11, <2>1 DEF ZeroWords
  <1> HIDE DEF z, R, u, ex, ey, Ended
  <1>15. CASE R = 0
    <2>1. fmod(x, y) = Zero(x.neg)
      BY <1>13, <1>14, <1>15
    <2>2. Is(Zero(x.neg), x.neg, 0)
      BY <1>1, ScaledZero
    <2>3. QED
      BY <1>12, <1>15, <2>1, <2>2 DEF u
  <1>16. CASE R # 0
    <2>1. fmod(x, y) = Composed(z, ey, x.neg)
      BY <1>11, <1>13, <1>14, <1>16
    <2>2. Both(z) \in Nat \ {0} /\ Both(z) < 2 * S
      BY <1>1, <1>6, <1>11, <1>16
    <2>3. u \in Nat \ {0} /\ ey \in Int /\ ey + Bias <= 2 * Bias
      BY <1>1, <1>6, <1>9, <1>12, <1>16 DEF ey
    <2>4. ey + Bias >= 1 => u = Both(z) * Pow2[ey + Bias - 1]
      <3>1. ey + Bias - 1 = f - 1
        BY <1>1, <1>6, <1>9, <2>3
      <3>2. QED
        BY <1>9, <1>11, <1>12, <3>1
    <2>5. ey + Bias < 1 => u * Pow2[1 - (ey + Bias)] = Both(z)
      BY <1>9, <1>11, <1>12
    <2>6. Is(Composed(z, ey, x.neg), x.neg, u)
      BY <1>1, <1>11, <2>2, <2>3, <2>4, <2>5, ComposedUnits
    <2>7. QED
      BY <2>1, <2>6 DEF u
  <1>17. QED
    BY <1>15, <1>16

(* The remainder of every two doubles is exact.                            *)
LEMMA FmodCorrect ==
  ASSUME Format
  PROVE  \A x, y \in Double : FmodExact(x, y)
  <1>1. SUFFICES ASSUME NEW x \in Double, NEW y \in Double, Finite(x), ~IsNan(y), ~IsZero(y)
                 PROVE  FmodExact(x, y)
    BY Zenon DEF FmodExact
  <1>2. x \in Words /\ y \in Words /\ Special \in Nat
    BY Fields, Sizes
  <1>3. CASE Less(x, y)
    <2>1. fmod(x, y) = x
      BY <1>1, <1>3 DEF fmod
    <2>2. Units(x) < Units(y) /\ Units(x) \in Nat /\ Units(y) \in Nat
      BY <1>2, <1>3, LessPlace, UnitsIncrease
    <2>3. Units(x) % Units(y) = Units(x)
      <3> DEFINE n == Units(x)
                 d == Units(y)
      <3>1. d \in Nat \ {0} /\ n \in 0 .. d - 1
        BY <2>2
      <3> HIDE DEF n, d
      <3>2. n % d = n
        BY <3>1, SmallMod
      <3>3. QED
        BY <3>2 DEF n, d
    <2>4. Is(x, x.neg, Units(x) % Units(y))
      BY <1>1, <2>3 DEF Is
    <2>5. QED
      BY <2>1, <2>4 DEF FmodExact
  <1>4. CASE ~Less(x, y)
    <2>1. Finite(y)
      <3>1. x.hi \in Nat /\ y.hi \in Nat
        BY <1>2 DEF Words
      <3>2. QED
        BY <1>1, <1>2, <1>4, <3>1 DEF Finite, Less
    <2>2. Is(fmod(x, y), x.neg, Units(x) % Units(y))
      BY <1>1, <1>4, <2>1, RemainderTurned
    <2>3. QED
      BY <2>1, <2>2, Zenon DEF FmodExact
  <1>5. QED
    BY <1>3, <1>4

(* fmod gives the remainder of the magnitudes, with the sign of its first   *)
(* argument, in every format: over all turns of its loop, whichever of the *)
(* operands and of the result are subnormal (math.c:1854-1959).            *)
THEOREM RemainderCorrect == MathSpec => []RemainderExact
  <1>1. MathInit => RemainderExact
    BY DEF MathInit, NotAsked, RemainderExact
  <1>2. RemainderExact /\ [MathNext]_asked => RemainderExact'
    <2> SUFFICES ASSUME RemainderExact, [MathNext]_asked PROVE RemainderExact'
      OBVIOUS
    <2>1. ASSUME NEW x, AskWhole(x)
          PROVE  RemainderExact'
      BY <2>1 DEF AskWhole, RemainderExact
    <2>2. ASSUME NEW x, NEW n, AskScaled(x, n)
          PROVE  RemainderExact'
      BY <2>2 DEF AskScaled, RemainderExact
    <2>3. ASSUME NEW x, AskRoot(x)
          PROVE  RemainderExact'
      BY <2>3 DEF AskRoot, RemainderExact
    <2>4. ASSUME NEW x \in Double, NEW y \in Double, AskRemainder(x, y)
          PROVE  RemainderExact'
      BY <2>4, FmodCorrect, FormatAssumption DEF AskRemainder, RemainderExact
    <2>5. CASE Answered
      BY <2>5 DEF Answered, NotAsked, RemainderExact
    <2>6. CASE UNCHANGED asked
      BY <2>6 DEF RemainderExact
    <2>7. QED
      BY <2>1, <2>2, <2>3, <2>4, <2>5, <2>6 DEF MathNext
  <1>3. QED
    BY <1>1, <1>2, PTL DEF MathSpec

(***************************************************************************)
(* sqrt.                                                                   *)
(***************************************************************************)

(* The root q so far, whose last bit was tried at r: s is twice the root,  *)
(* and y what is left of N.                                                *)
RootLeft(y, s, q, r, N) ==
  /\ y \in Nat /\ q \in Nat /\ r \in Nat \ {0} /\ N \in Nat
  /\ s = 2 * q
  /\ y * r = 2 * (N - q * q)
  /\ y < 2 * (s + r)

LEMMA RootTurn ==
  ASSUME NEW y, NEW s, NEW q, NEW r \in Nat \ {0}, NEW N, RootLeft(y, s, q, 2 * r, N)
  PROVE  /\ s + r <= y => RootLeft(2 * (y - (s + r)), s + 2 * r, q + r, r, N)
         /\ ~(s + r <= y) => RootLeft(2 * y, s, q, r, N)
  <1>1. /\ y \in Nat /\ q \in Nat /\ N \in Nat /\ s = 2 * q /\ s \in Nat
        /\ y * (2 * r) = 2 * (N - q * q) /\ y < 2 * (s + 2 * r)
    BY DEF RootLeft
  <1>2. y * (2 * r) = 2 * (y * r) /\ y * r \in Nat /\ q * q \in Nat
    BY <1>1
  <1>3. y * r = N - q * q
    BY <1>1, <1>2
  <1>4. ASSUME s + r <= y
        PROVE  RootLeft(2 * (y - (s + r)), s + 2 * r, q + r, r, N)
    <2>1. (2 * (y - (s + r))) * r = 2 * (y * r) - (4 * (q * r) + 2 * (r * r)) /\ q * r \in Nat /\ r * r \in Nat
      BY <1>1
    <2>2. (q + r) * (q + r) = q * q + (2 * (q * r) + r * r)
      BY <1>1
    <2>3. (2 * (y - (s + r))) * r = 2 * (N - (q + r) * (q + r))
      BY <1>1, <1>2, <1>3, <2>1, <2>2
    <2>4. 2 * (y - (s + r)) \in Nat /\ q + r \in Nat /\ s + 2 * r = 2 * (q + r)
      BY <1>1, <1>4
    <2>5. 2 * (y - (s + r)) < 2 * ((s + 2 * r) + r)
      BY <1>1
    <2>6. QED
      BY <1>1, <2>3, <2>4, <2>5 DEF RootLeft
  <1>5. ASSUME ~(s + r <= y)
        PROVE  RootLeft(2 * y, s, q, r, N)
    <2>1. (2 * y) * r = 2 * (y * r)
      BY <1>1
    <2>2. 2 * y \in Nat /\ 2 * y < 2 * (s + r)
      BY <1>1, <1>5
    <2>3. QED
      BY <1>1, <1>3, <2>1, <2>2 DEF RootLeft
  <1>6. QED
    BY <1>4, <1>5

(* The states of the loops of sqrt, and what they stand for.               *)
RootState == [ix0 : Int, ix1 : Int, s0 : Int, s1 : Int, q : Int, q1 : Int]

Ix(s) == [h |-> s.ix0, l |-> s.ix1]

RootWords(s, r, N) ==
  /\ s \in RootState
  /\ s.ix1 \in 0 .. Pow2[L] - 1 /\ s.s1 \in 0 .. Pow2[L] - 1
  /\ RootLeft(Both(Ix(s)), s.s0 * Pow2[L] + s.s1, s.q * Pow2[L] + s.q1, r, N)

LEMMA DoubledWords ==
  ASSUME Format, NEW s \in RootState, s.ix1 \in 0 .. Pow2[L] - 1
  PROVE  LET d == Doubled(s)
         IN  /\ d \in RootState /\ d.ix1 \in 0 .. Pow2[L] - 1
             /\ Both(Ix(d)) = 2 * Both(Ix(s))
             /\ d.s0 = s.s0 /\ d.s1 = s.s1 /\ d.q = s.q /\ d.q1 = s.q1
  <1> DEFINE w == Ix(s)
             d == Doubled(s)
  <1>1. w \in TwoWords /\ w.h = s.ix0 /\ w.l = s.ix1
    BY DEF TwoWords, Ix, RootState
  <1>2. Twice(w) \in TwoWords /\ Both(Twice(w)) = 2 * Both(w)
    BY <1>1, TwiceBoth
  <1>3. Twice(w) = [h |-> 2 * s.ix0 + s.ix1 \div Sign, l |-> (2 * s.ix1) % Pow2[L]]
    BY <1>1 DEF Twice
  <1>4. d = [s EXCEPT !.ix0 = Twice(w).h, !.ix1 = Twice(w).l]
    BY <1>3 DEF Doubled
  <1> HIDE DEF w, d
  <1>5. Twice(w).h \in Int /\ Twice(w).l \in Int /\ Twice(w).l \in 0 .. Pow2[L] - 1
        /\ Twice(w) = [h |-> Twice(w).h, l |-> Twice(w).l]
    <2>1. Pow2[L] \in Nat \ {0}
      BY Sizes
    <2>2. QED
      BY <1>2, <2>1 DEF TwoWords
  <1>6. d \in RootState /\ d.ix0 = Twice(w).h /\ d.ix1 = Twice(w).l
        /\ d.s0 = s.s0 /\ d.s1 = s.s1 /\ d.q = s.q /\ d.q1 = s.q1
    BY <1>4, <1>5 DEF RootState
  <1>7. Ix(d) = Twice(w)
    BY <1>5, <1>6, Zenon DEF Ix
  <1>8. QED
    BY <1>2, <1>5, <1>6, <1>7 DEF w, d

(* A turn for a bit of the high word, while the low ones are 0.            *)
LEMMA HighTurnWords ==
  ASSUME Format, NEW s, NEW r \in Nat \ {0}, NEW N, RootWords(s, (2 * r) * Pow2[L], N), s.s1 = 0, s.q1 = 0
  PROVE  /\ RootWords(HighTurn(s, r), r * Pow2[L], N)
         /\ HighTurn(s, r).s1 = 0 /\ HighTurn(s, r).q1 = 0
  <1> DEFINE B0 == Pow2[L]
             R == r * B0
             y == Both(Ix(s))
             t == s.s0 + r
             a == IF t <= s.ix0 THEN [s EXCEPT !.s0 = t + r, !.ix0 = @ - t, !.q = @ + r] ELSE s
  <1>1. B0 \in Nat \ {0} /\ R \in Nat \ {0} /\ (2 * r) * B0 = 2 * R
    <2>1. B0 \in Nat \ {0}
      BY Sizes
    <2> HIDE DEF B0
    <2>2. R \in Nat /\ (2 * r) * B0 = 2 * R
      BY <2>1
    <2>3. R > 0
      BY <2>1
    <2>4. QED
      BY <2>1, <2>2, <2>3
  <1>2. /\ s \in RootState /\ s.ix1 \in 0 .. B0 - 1
        /\ RootLeft(y, s.s0 * B0 + s.s1, s.q * B0 + s.q1, 2 * R, N)
    BY <1>1, Zenon DEF RootWords
  <1>3. /\ s.ix0 \in Int /\ s.s0 \in Int /\ s.q \in Int /\ t \in Int /\ y = s.ix0 * B0 + s.ix1
        /\ s = [ix0 |-> s.ix0, ix1 |-> s.ix1, s0 |-> s.s0, s1 |-> s.s1, q |-> s.q, q1 |-> s.q1]
    BY <1>2 DEF RootState, Both, Ix
  <1>4. /\ s.s0 * B0 \in Int /\ s.q * B0 \in Int /\ s.ix0 * B0 \in Int
        /\ (s.s0 + r) * B0 = s.s0 * B0 + R
        /\ ((s.s0 + r) + r) * B0 = s.s0 * B0 + 2 * R
        /\ (s.q + r) * B0 = s.q * B0 + R
        /\ (s.ix0 - t) * B0 = s.ix0 * B0 - t * B0
    BY <1>1, <1>3
  <1>5. HighTurn(s, r) = Doubled(a)
    BY Zenon DEF HighTurn
  <1>6. /\ a \in RootState /\ a.ix1 \in 0 .. B0 - 1 /\ a.s1 = 0 /\ a.q1 = 0
        /\ RootLeft(2 * Both(Ix(a)), a.s0 * B0, a.q * B0, R, N)
    <2> DEFINE S0 == s.s0 * B0
               Q0 == s.q * B0
    <2>1. RootLeft(y, S0, Q0, 2 * R, N)
      <3>1. s.s0 * B0 + s.s1 = S0 /\ s.q * B0 + s.q1 = Q0
        BY <1>4
      <3>2. QED
        BY <1>2, <3>1, Zenon
    <2>2. t <= s.ix0 <=> S0 + R <= y
      <3>1. t * B0 = S0 + R
        BY <1>4
      <3> HIDE DEF S0, R, y
      <3>2. t <= s.ix0 => t * B0 <= s.ix0 * B0
        BY <1>1, <1>3
      <3>3. ~(t <= s.ix0) => (s.ix0 + 1) * B0 <= t * B0
        BY <1>1, <1>3
      <3>4. (s.ix0 + 1) * B0 = s.ix0 * B0 + B0
        BY <1>1, <1>3
      <3>5. t * B0 \in Int
        BY <1>1, <1>3
      <3>6. QED
        BY <1>1, <1>2, <1>3, <1>4, <3>1, <3>2, <3>3, <3>4, <3>5
    <2> HIDE DEF y
    <2>3. CASE t <= s.ix0
      <3>1. /\ a = [ix0 |-> s.ix0 - t, ix1 |-> s.ix1, s0 |-> t + r, s1 |-> s.s1, q |-> s.q + r, q1 |-> s.q1]
        BY <1>3, <2>3
      <3>2. s.ix0 - t \in Int /\ t + r \in Int /\ s.q + r \in Int
        BY <1>3
      <3> HIDE DEF a, t
      <3>3. a \in RootState /\ a.ix1 = s.ix1 /\ a.ix0 = s.ix0 - t /\ a.s0 = t + r /\ a.q = s.q + r /\ a.s1 = s.s1 /\ a.q1 = s.q1
        BY <1>2, <3>1, <3>2 DEF RootState
      <3>4. a.s0 * B0 = S0 + 2 * R /\ a.q * B0 = Q0 + R
        <4>1. a.s0 * B0 = ((s.s0 + r) + r) * B0 /\ a.q * B0 = (s.q + r) * B0
          BY <3>3, Zenon DEF t
        <4>2. QED
          BY <1>4, <4>1
      <3>5. Both(Ix(a)) = y - (S0 + R)
        <4>1. Both(Ix(a)) = (s.ix0 - t) * B0 + s.ix1
          BY <3>3 DEF Both, Ix
        <4>2. t * B0 = S0 + R /\ t * B0 \in Int
          BY <1>1, <1>3, <1>4 DEF t
        <4> HIDE DEF R
        <4>3. QED
          BY <1>1, <1>2, <1>3, <1>4, <4>1, <4>2
      <3> HIDE DEF R, S0, Q0
      <3>6. RootLeft(2 * (y - (S0 + R)), S0 + 2 * R, Q0 + R, R, N)
        BY <1>1, <2>1, <2>2, <2>3, RootTurn
      <3>7. QED
        BY <1>2, <3>3, <3>4, <3>5, <3>6
    <2>4. CASE ~(t <= s.ix0)
      <3>1. a = s
        BY <2>4
      <3> HIDE DEF a, R, S0, Q0
      <3>2. RootLeft(2 * y, S0, Q0, R, N)
        BY <1>1, <2>1, <2>2, <2>4, RootTurn
      <3>3. QED
        BY <1>2, <3>1, <3>2 DEF S0, Q0, y
    <2>5. QED
      BY <2>3, <2>4
  <1> HIDE DEF a
  <1> DEFINE d == Doubled(a)
  <1>7. /\ d \in RootState /\ d.ix1 \in 0 .. Pow2[L] - 1
        /\ Both(Ix(d)) = 2 * Both(Ix(a))
        /\ d.s0 = a.s0 /\ d.s1 = a.s1 /\ d.q = a.q /\ d.q1 = a.q1
    BY <1>6, DoubledWords
  <1> HIDE DEF d
  <1>8. d.s0 * Pow2[L] + d.s1 = a.s0 * B0 /\ d.q * Pow2[L] + d.q1 = a.q * B0
    <2>1. a.s0 * B0 \in Int /\ a.q * B0 \in Int
      BY <1>1, <1>6 DEF RootState
    <2>2. QED
      BY <1>6, <1>7, <2>1
  <1>9. RootWords(d, R, N)
    <2>1. d.s1 \in 0 .. Pow2[L] - 1
      BY <1>1, <1>6, <1>7
    <2>2. RootLeft(Both(Ix(d)), d.s0 * Pow2[L] + d.s1, d.q * Pow2[L] + d.q1, R, N)
      BY <1>6, <1>7, <1>8, Zenon
    <2>3. QED
      BY <1>7, <2>1, <2>2, Zenon DEF RootWords
  <1>10. QED
    BY <1>5, <1>6, <1>7, <1>9 DEF d

(* What a turn for a bit of the low word finds: no bit of s at r or below.  *)
LowFree(s, r) ==
  /\ s.q1 >= 0 /\ s.q1 + 2 * r <= Pow2[L]
  /\ (r = Sign /\ s.s1 = 0) \/ s.s1 + 4 * r <= Pow2[L]

LEMMA SignHalf ==
  ASSUME Format
  PROVE  Sign \in Nat \ {0} /\ Pow2[L] = 2 * Sign
  <1>1. L - 1 \in Nat /\ L - 1 + 1 = L
    BY DEF Format
  <1>2. Pow2[L - 1 + 1] = 2 * Pow2[L - 1] /\ Pow2[L - 1] \in Nat \ {0}
    BY <1>1, Pow2Next, Pow2Type
  <1>3. QED
    BY <1>1, <1>2 DEF Sign

LEMMA TwoWordsOrder ==
  ASSUME Format, NEW a \in TwoWords, NEW b \in TwoWords
  PROVE  Both(b) <= Both(a) <=> b.h < a.h \/ (b.h = a.h /\ b.l <= a.l)
  <1> DEFINE B0 == Pow2[L]
             g == a.h * B0
             k == b.h * B0
  <1>1. B0 \in Nat \ {0} /\ a.h \in Int /\ b.h \in Int /\ a.l \in 0 .. B0 - 1 /\ b.l \in 0 .. B0 - 1
    BY Sizes DEF TwoWords
  <1>2. g \in Int /\ k \in Int /\ Both(a) = g + a.l /\ Both(b) = k + b.l /\ (a.h = b.h => g = k)
    BY <1>1 DEF Both
  <1>3. b.h < a.h => k + B0 <= g
    <2>1. b.h < a.h => (b.h + 1) * B0 <= a.h * B0
      BY <1>1
    <2>2. (b.h + 1) * B0 = b.h * B0 + B0
      BY <1>1
    <2>3. QED
      BY <2>1, <2>2
  <1>4. a.h < b.h => g + B0 <= k
    <2>1. a.h < b.h => (a.h + 1) * B0 <= b.h * B0
      BY <1>1
    <2>2. (a.h + 1) * B0 = a.h * B0 + B0
      BY <1>1
    <2>3. QED
      BY <2>1, <2>2
  <1> HIDE DEF B0, g, k
  <1>5. CASE b.h < a.h
    BY <1>1, <1>2, <1>3, <1>5
  <1>6. CASE a.h < b.h
    BY <1>1, <1>2, <1>4, <1>6
  <1>7. CASE a.h = b.h
    BY <1>1, <1>2, <1>7
  <1>8. QED
    BY <1>1, <1>5, <1>6, <1>7

RootUpdate(s, i0, i1, j0, j1, k1) ==
  [s EXCEPT !.s1 = j1, !.s0 = j0, !.ix0 = i0, !.ix1 = i1, !.q1 = k1]

LEMMA RootStateUpdated ==
  ASSUME NEW s \in RootState, NEW i0, NEW i1, NEW j0, NEW j1, NEW k1
  PROVE  RootUpdate(s, i0, i1, j0, j1, k1) = [ix0 |-> i0, ix1 |-> i1, s0 |-> j0, s1 |-> j1, q |-> s.q, q1 |-> k1]
  <1> DEFINE t == [s EXCEPT !.s1 = j1]
             u == [t EXCEPT !.s0 = j0]
             v == [u EXCEPT !.ix0 = i0]
             w == [v EXCEPT !.ix1 = i1]
             z == [w EXCEPT !.q1 = k1]
  <1>1. RootUpdate(s, i0, i1, j0, j1, k1) = z
    BY Zenon DEF RootUpdate
  <1>2. t = [ix0 |-> s.ix0, ix1 |-> s.ix1, s0 |-> s.s0, s1 |-> j1, q |-> s.q, q1 |-> s.q1]
    BY DEF RootState
  <1> HIDE DEF t
  <1>3. u = [ix0 |-> s.ix0, ix1 |-> s.ix1, s0 |-> j0, s1 |-> j1, q |-> s.q, q1 |-> s.q1]
    BY <1>2
  <1> HIDE DEF u
  <1>4. v = [ix0 |-> i0, ix1 |-> s.ix1, s0 |-> j0, s1 |-> j1, q |-> s.q, q1 |-> s.q1]
    BY <1>3
  <1> HIDE DEF v
  <1>5. w = [ix0 |-> i0, ix1 |-> i1, s0 |-> j0, s1 |-> j1, q |-> s.q, q1 |-> s.q1]
    BY <1>4
  <1> HIDE DEF w
  <1>6. z = [ix0 |-> i0, ix1 |-> i1, s0 |-> j0, s1 |-> j1, q |-> s.q, q1 |-> k1]
    BY <1>5
  <1>7. QED
    BY <1>1, <1>6, Zenon DEF t, u, v, w

(* A turn for a bit of the low word: the borrow and the carry are those of *)
(* the two words.                                                          *)
LEMMA LowTurnWords ==
  ASSUME Format, NEW s, NEW r \in Nat \ {0}, NEW N, RootWords(s, 2 * r, N), r <= Sign, LowFree(s, r)
  PROVE  /\ RootWords(LowTurn(s, r), r, N)
         /\ LowTurn(s, r).q1 >= 0 /\ LowTurn(s, r).q1 + r <= Pow2[L]
         /\ LowTurn(s, r).s1 + 2 * r <= Pow2[L]
  <1> DEFINE B0 == Pow2[L]
             y == Both(Ix(s))
             t1 == s.s1 + r
             s1 == (t1 + r) % B0
             borrow == IF s.ix1 < t1 THEN 1 ELSE 0
             carry == IF t1 >= Sign /\ s1 < Sign THEN 1 ELSE 0
             S0 == s.s0 * B0 + s.s1
             Q0 == s.q * B0 + s.q1
             Takes == s.s0 < s.ix0 \/ (s.s0 = s.ix0 /\ t1 <= s.ix1)
             taken == [s EXCEPT !.s1 = s1, !.s0 = @ + carry, !.ix0 = @ - s.s0 - borrow,
                                !.ix1 = (@ - t1) % B0, !.q1 = @ + r]
             a == IF Takes THEN taken ELSE s
  <1>1. Sign \in Nat \ {0} /\ B0 = 2 * Sign /\ B0 \in Nat \ {0}
    BY SignHalf
  <1>2. /\ s \in RootState /\ s.ix1 \in 0 .. B0 - 1 /\ s.s1 \in 0 .. B0 - 1
        /\ RootLeft(y, S0, Q0, 2 * r, N)
    BY DEF RootWords
  <1>3. /\ s.ix0 \in Int /\ s.s0 \in Int /\ s.q \in Int /\ s.q1 \in Int /\ s.q1 >= 0 /\ s.q1 + 2 * r <= B0
        /\ (r = Sign /\ s.s1 = 0) \/ s.s1 + 4 * r <= B0
        /\ s = [ix0 |-> s.ix0, ix1 |-> s.ix1, s0 |-> s.s0, s1 |-> s.s1, q |-> s.q, q1 |-> s.q1]
    BY <1>2 DEF RootState, LowFree
  <1>4. LowTurn(s, r) = Doubled(a)
    BY Zenon DEF LowTurn
  <1>5. t1 \in 0 .. B0 - 1
    BY <1>1, <1>2, <1>3
  <1>6. /\ s1 \in 0 .. B0 - 1 /\ carry \in {0, 1} /\ s1 + 2 * r <= B0
        /\ carry * B0 + s1 = s.s1 + 2 * r
    <2>1. CASE r = Sign /\ s.s1 = 0
      <3>1. Euclid(t1 + r, B0, 1, 0)
        BY <1>1, <2>1 DEF Euclid
      <3>2. s1 = 0
        BY <3>1, EuclidDivMod, Zenon
      <3>3. carry = 1
        BY <1>1, <2>1, <3>2
      <3>4. QED
        BY <1>1, <2>1, <3>2, <3>3
    <2>2. CASE s.s1 + 4 * r <= B0
      <3>1. t1 + r \in 0 .. B0 - 1 /\ t1 + r = s.s1 + 2 * r
        BY <1>1, <1>2, <2>2
      <3>2. s1 = t1 + r
        <4> HIDE DEF t1, B0
        <4>1. QED
          BY <1>1, <3>1, SmallMod
      <3>3. carry = 0
        BY <1>1, <1>2, <3>1, <3>2
      <3> HIDE DEF s1, carry
      <3>4. QED
        BY <1>1, <1>2, <2>2, <3>1, <3>2, <3>3
    <2>3. QED
      BY <1>3, <2>1, <2>2
  <1> DEFINE w == Ix(s)
             v == [h |-> s.s0, l |-> t1]
             z == Minus(w, v)
  <1>7. w \in TwoWords /\ v \in TwoWords /\ w.h = s.ix0 /\ w.l = s.ix1 /\ v.h = s.s0 /\ v.l = t1
    BY <1>2, <1>3, <1>5 DEF TwoWords, Ix
  <1>8. Both(v) = S0 + r /\ Both(w) = y /\ S0 \in Int /\ y \in Int
    <2>1. s.s0 * B0 \in Int /\ s.ix0 * B0 \in Int
      BY <1>1, <1>3
    <2>2. Both(v) = s.s0 * B0 + t1
      BY <1>7, Zenon DEF Both
    <2>3. y = s.ix0 * B0 + s.ix1
      BY <1>7, Zenon DEF Both
    <2>4. QED
      BY <1>2, <2>1, <2>2, <2>3
  <1>9. Takes <=> S0 + r <= y
    <2>1. Both(v) <= Both(w) <=> v.h < w.h \/ (v.h = w.h /\ v.l <= w.l)
      BY <1>7, TwoWordsOrder
    <2>2. QED
      BY <1>7, <1>8, <2>1, Zenon
  <1>10. z \in TwoWords /\ Both(z) = y - (S0 + r) /\ z = [h |-> s.ix0 - s.s0 - borrow, l |-> (s.ix1 - t1) % B0]
    <2>1. z \in TwoWords /\ Both(z) = Both(w) - Both(v)
      BY <1>7, MinusBoth
    <2>2. z = [h |-> w.h - v.h - (IF w.l < v.l THEN 1 ELSE 0), l |-> (w.l - v.l) % B0]
      BY Zenon DEF Minus
    <2>3. QED
      BY <1>7, <1>8, <2>1, <2>2, Zenon
  <1> HIDE DEF s1, carry, t1
  <1>11. /\ a \in RootState /\ a.ix1 \in 0 .. B0 - 1 /\ a.s1 \in 0 .. B0 - 1
         /\ RootLeft(2 * Both(Ix(a)), a.s0 * B0 + a.s1, a.q * B0 + a.q1, r, N)
         /\ a.q1 >= 0 /\ a.q1 + r <= B0 /\ a.s1 + 2 * r <= B0
    <2>1. CASE Takes
      <3>1. a = taken
        BY <2>1
      <3>2. taken = [ix0 |-> z.h, ix1 |-> z.l, s0 |-> s.s0 + carry, s1 |-> s1, q |-> s.q, q1 |-> s.q1 + r]
        <4> HIDE DEF z, borrow
        <4>1. z.h = s.ix0 - s.s0 - borrow /\ z.l = (s.ix1 - t1) % B0
          BY <1>10
        <4>2. taken = RootUpdate(s, s.ix0 - s.s0 - borrow, (s.ix1 - t1) % B0, s.s0 + carry, s1, s.q1 + r)
          BY Zenon DEF RootUpdate
        <4>3. s \in RootState
          BY <1>2
        <4> HIDE DEF taken
        <4>4. taken = RootUpdate(s, z.h, z.l, s.s0 + carry, s1, s.q1 + r)
          BY <4>1, <4>2, Zenon
        <4> DEFINE i0 == z.h
                   i1 == z.l
                   j0 == s.s0 + carry
                   k1 == s.q1 + r
        <4> HIDE DEF i0, i1, j0, k1
        <4>5. RootUpdate(s, i0, i1, j0, s1, k1) = [ix0 |-> i0, ix1 |-> i1, s0 |-> j0, s1 |-> s1, q |-> s.q, q1 |-> k1]
          BY <4>3, RootStateUpdated
        <4>6. QED
          BY <4>4, <4>5, Zenon DEF i0, i1, j0, k1
      <3>3. z.h \in Int /\ z.l \in 0 .. B0 - 1 /\ z = [h |-> z.h, l |-> z.l] /\ s.s0 + carry \in Int /\ s.q1 + r \in Int
        BY <1>3, <1>6, <1>10 DEF TwoWords
      <3> HIDE DEF a, taken, z
      <3>4. /\ a \in RootState /\ a.ix0 = z.h /\ a.ix1 = z.l /\ a.s0 = s.s0 + carry /\ a.s1 = s1
            /\ a.q = s.q /\ a.q1 = s.q1 + r
        BY <1>1, <1>3, <1>6, <3>1, <3>2, <3>3 DEF RootState
      <3>5. Both(Ix(a)) = y - (S0 + r)
        <4>1. Ix(a) = z
          BY <3>3, <3>4, Zenon DEF Ix
        <4>2. QED
          BY <1>10, <4>1, Zenon DEF z
      <3>6. a.s0 * B0 + a.s1 = S0 + 2 * r
        <4>1. (s.s0 + carry) * B0 = s.s0 * B0 + carry * B0 /\ s.s0 * B0 \in Int /\ carry * B0 \in Int
          <5>1. B0 \in Int /\ s.s0 \in Int /\ carry \in Int
            BY <1>1, <1>3, <1>6
          <5> HIDE DEF B0
          <5>2. QED
            BY <5>1
        <4>2. a.s0 * B0 = (s.s0 + carry) * B0
          BY <3>4, Zenon
        <4>3. QED
          BY <1>1, <1>2, <1>6, <3>4, <4>1, <4>2
      <3>7. a.q * B0 + a.q1 = Q0 + r
        <4>1. s.q * B0 \in Int
          BY <1>1, <1>3
        <4>2. QED
          BY <1>3, <3>4, <4>1
      <3> HIDE DEF S0, Q0, y
      <3>8. RootLeft(2 * (y - (S0 + r)), S0 + 2 * r, Q0 + r, r, N)
        BY <1>2, <1>9, <2>1, RootTurn
      <3>9. RootLeft(2 * Both(Ix(a)), a.s0 * B0 + a.s1, a.q * B0 + a.q1, r, N)
        BY <3>5, <3>6, <3>7, <3>8, Zenon
      <3>10. a.q1 >= 0 /\ a.q1 + r <= B0
        BY <1>1, <1>3, <3>4
      <3>11. QED
        BY <1>6, <3>3, <3>4, <3>9, <3>10
    <2>2. CASE ~Takes
      <3>1. a = s
        BY <2>2
      <3>2. s.q1 + r <= B0 /\ s.s1 + 2 * r <= B0
        BY <1>1, <1>2, <1>3
      <3> HIDE DEF a, S0, Q0, y, Takes
      <3>3. RootLeft(2 * y, S0, Q0, r, N)
        BY <1>2, <1>9, <2>2, RootTurn
      <3>4. RootLeft(2 * Both(Ix(a)), a.s0 * B0 + a.s1, a.q * B0 + a.q1, r, N)
        BY <3>1, <3>3 DEF S0, Q0, y
      <3>5. QED
        BY <1>2, <1>3, <3>1, <3>2, <3>4
    <2>3. QED
      BY <2>1, <2>2
  <1> HIDE DEF a
  <1> DEFINE d == Doubled(a)
  <1>12. /\ d \in RootState /\ d.ix1 \in 0 .. Pow2[L] - 1
         /\ Both(Ix(d)) = 2 * Both(Ix(a))
         /\ d.s0 = a.s0 /\ d.s1 = a.s1 /\ d.q = a.q /\ d.q1 = a.q1
    BY <1>11, DoubledWords
  <1> HIDE DEF d
  <1>13. RootWords(d, r, N)
    <2>1. RootLeft(Both(Ix(d)), d.s0 * Pow2[L] + d.s1, d.q * Pow2[L] + d.q1, r, N)
      BY <1>11, <1>12, Zenon
    <2>2. QED
      BY <1>11, <1>12, <2>1, Zenon DEF RootWords
  <1>14. QED
    BY <1>4, <1>11, <1>12, <1>13 DEF d

IsHigh(f, start) ==
  f[0] = start /\ \A i \in 1 .. H + 2 : f[i] = HighTurn(f[i - 1], Pow2[H + 2 - i])

IsLow(f, start) ==
  f[0] = start /\ \A i \in 1 .. L : f[i] = LowTurn(f[i - 1], Pow2[L - i])

LEMMA HighTurns ==
  ASSUME Format, NEW f, NEW start, NEW N, IsHigh(f, start),
         RootWords(start, Pow2[H + 2] * Pow2[L], N), start.s1 = 0, start.q1 = 0
  PROVE  RootWords(f[H + 2], Pow2[L], N) /\ f[H + 2].s1 = 0 /\ f[H + 2].q1 = 0
  <1> DEFINE Ok(i) == RootWords(f[i], Pow2[H + 2 - i] * Pow2[L], N) /\ f[i].s1 = 0 /\ f[i].q1 = 0
             T == {i \in Nat : i <= H + 2 => Ok(i)}
  <1>1. H \in Nat /\ Pow2[L] \in Nat \ {0}
    BY Sizes DEF Format
  <1>2. 0 \in T
    <2>1. H + 2 - 0 = H + 2 /\ f[0] = start
      BY <1>1 DEF IsHigh
    <2>2. QED
      BY <2>1
  <1>3. ASSUME NEW i \in Nat, i \in T
        PROVE  i + 1 \in T
    <2>1. SUFFICES ASSUME i + 1 <= H + 2
                   PROVE  Ok(i + 1)
      OBVIOUS
    <2> DEFINE r == Pow2[H + 2 - (i + 1)]
    <2>2. i + 1 \in 1 .. H + 2 /\ (i + 1) - 1 = i /\ H + 2 - (i + 1) \in Nat /\ (H + 2 - (i + 1)) + 1 = H + 2 - i
      BY <1>1, <2>1
    <2>3. r \in Nat \ {0} /\ Pow2[H + 2 - i] = 2 * r
      <3>1. Pow2[(H + 2 - (i + 1)) + 1] = 2 * r /\ r \in Nat \ {0}
        BY <2>2, Pow2Next, Pow2Type
      <3>2. QED
        BY <2>2, <3>1, Zenon
    <2>4. f[i + 1] = HighTurn(f[i], r)
      BY <2>2 DEF IsHigh
    <2>5. RootWords(f[i], (2 * r) * Pow2[L], N) /\ f[i].s1 = 0 /\ f[i].q1 = 0
      <3>1. Ok(i)
        BY <1>1, <1>3, <2>1
      <3>2. QED
        BY <2>3, <3>1, Zenon
    <2> HIDE DEF r
    <2>6. RootWords(f[i + 1], r * Pow2[L], N) /\ f[i + 1].s1 = 0 /\ f[i + 1].q1 = 0
      BY <2>3, <2>4, <2>5, HighTurnWords
    <2>7. QED
      BY <2>6 DEF r
  <1> HIDE DEF T
  <1>4. \A i \in Nat : i \in T
    BY <1>2, <1>3, Induction
  <1>5. Ok(H + 2)
    <2>1. H + 2 \in Nat /\ H + 2 <= H + 2
      BY <1>1
    <2>2. QED
      BY <1>4, <2>1 DEF T
  <1>6. Pow2[H + 2 - (H + 2)] * Pow2[L] = Pow2[L]
    <2>1. H + 2 - (H + 2) = 0 /\ 1 * Pow2[L] = Pow2[L]
      BY <1>1
    <2>2. QED
      BY <2>1, Pow2Zero, Zenon
  <1>7. QED
    BY <1>5, <1>6, Zenon

LEMMA LowTurns ==
  ASSUME Format, NEW f, NEW start, NEW N, IsLow(f, start),
         RootWords(start, Pow2[L], N), start.s1 = 0, start.q1 = 0
  PROVE  RootWords(f[L], 1, N) /\ f[L].q1 \in 0 .. Pow2[L] - 1
  <1> DEFINE B0 == Pow2[L]
             Ok(i) == /\ RootWords(f[i], Pow2[L - i], N)
                      /\ f[i].q1 >= 0 /\ f[i].q1 + Pow2[L - i] <= B0
                      /\ i = 0 => f[i].s1 = 0
                      /\ i # 0 => f[i].s1 + 2 * Pow2[L - i] <= B0
             T == {i \in Nat : i <= L => Ok(i)}
  <1>1. L \in Nat \ {0} /\ Pow2[L] \in Nat \ {0} /\ Sign \in Nat \ {0} /\ Pow2[L] = 2 * Sign
    BY SignHalf, Sizes DEF Format
  <1>2. 0 \in T
    <2>1. L - 0 = L /\ f[0] = start
      BY <1>1 DEF IsLow
    <2>2. QED
      BY <1>1, <2>1
  <1>3. ASSUME NEW i \in Nat, i \in T
        PROVE  i + 1 \in T
    <2>1. SUFFICES ASSUME i + 1 <= L
                   PROVE  Ok(i + 1)
      OBVIOUS
    <2> DEFINE r == Pow2[L - (i + 1)]
    <2>2. i + 1 \in 1 .. L /\ (i + 1) - 1 = i /\ L - (i + 1) \in Nat /\ (L - (i + 1)) + 1 = L - i
      BY <1>1, <2>1
    <2>3. r \in Nat \ {0} /\ Pow2[L - i] = 2 * r
      <3>1. Pow2[(L - (i + 1)) + 1] = 2 * r /\ r \in Nat \ {0}
        BY <2>2, Pow2Next, Pow2Type
      <3>2. QED
        BY <2>2, <3>1, Zenon
    <2>4. f[i + 1] = LowTurn(f[i], r)
      BY <2>2 DEF IsLow
    <2>5. Ok(i)
      BY <1>1, <1>3, <2>1
    <2>6. RootWords(f[i], 2 * r, N) /\ f[i].q1 >= 0 /\ f[i].q1 + 2 * r <= B0
          /\ (i = 0 => f[i].s1 = 0) /\ (i # 0 => f[i].s1 + 2 * (2 * r) <= B0)
      BY <2>3, <2>5
    <2>7. r <= Sign /\ (i = 0 => r = Sign)
      <3>1. i = 0 => 2 * r = B0
        <4>1. L - 0 = L
          BY <1>1
        <4>2. QED
          BY <2>3, <4>1
      <3>2. 2 * r <= B0
        <4>1. L - i \in Nat /\ L - i <= L
          BY <1>1, <2>1
        <4>2. Pow2[L - i] <= Pow2[L]
          BY <1>1, <4>1, Pow2Grows
        <4>3. QED
          BY <2>3, <4>2
      <3> HIDE DEF r
      <3>3. QED
        BY <1>1, <2>3, <3>1, <3>2
    <2> HIDE DEF r, Ok
    <2>8. LowFree(f[i], r)
      <3>1. f[i].s1 \in Int /\ 2 * (2 * r) = 4 * r
        <4>1. f[i].s1 \in Int
          BY <2>6 DEF RootWords, RootState
        <4>2. QED
          BY <2>3, <4>1
      <3>2. QED
        BY <2>6, <2>7, <3>1 DEF LowFree
    <2>9. /\ RootWords(f[i + 1], r, N)
          /\ f[i + 1].q1 >= 0 /\ f[i + 1].q1 + r <= B0
          /\ f[i + 1].s1 + 2 * r <= B0
      BY <2>3, <2>4, <2>6, <2>7, <2>8, LowTurnWords
    <2>10. i + 1 # 0
      OBVIOUS
    <2>11. QED
      BY <2>9, <2>10 DEF r, Ok
  <1> HIDE DEF T
  <1>4. \A i \in Nat : i \in T
    BY <1>2, <1>3, Induction
  <1>5. Ok(L)
    <2>1. L \in Nat /\ L <= L
      BY <1>1
    <2>2. QED
      BY <1>4, <2>1 DEF T
  <1>6. Pow2[L - L] = 1
    <2>1. L - L = 0
      BY <1>1
    <2>2. QED
      BY <2>1, Pow2Zero
  <1>7. RootWords(f[L], 1, N) /\ f[L].q1 >= 0 /\ f[L].q1 + 1 <= B0
    BY <1>5, <1>6, Zenon
  <1>8. f[L].q1 \in Int
    BY <1>7 DEF RootWords, RootState
  <1>9. QED
    BY <1>1, <1>7, <1>8

(* The words that sqrt starts from, and the number it makes of a root.     *)
Unpacked(x, beyond) ==
  IF x.hi < Pow2[H] THEN Normalized(x, beyond)
  ELSE [ix0 |-> x.hi, ix1 |-> x.lo, m |-> x.hi \div Pow2[H]]

FirstRoot(n) ==
  [ix0 |-> Pow2[H] + (n.ix0 % Pow2[H]), ix1 |-> n.ix1, s0 |-> 0, s1 |-> 0, q |-> 0, q1 |-> 0]

RootStart(n) == Doubled(IF (n.m - Bias) % 2 = 1 THEN Doubled(FirstRoot(n)) ELSE FirstRoot(n))

Rooted(s, m) ==
  [neg |-> FALSE,
   hi  |-> s.q \div 2 + (Bias - 1 + m \div 2) * Pow2[H],
   lo  |-> s.q1 \div 2 + Sign * (s.q % 2)]

RootRaise(s, i0, j0, k0) == [s EXCEPT !.s0 = j0, !.ix0 = i0, !.q = k0]

LEMMA RootStateRaised ==
  ASSUME NEW s \in RootState, NEW i0, NEW j0, NEW k0
  PROVE  RootRaise(s, i0, j0, k0) = [ix0 |-> i0, ix1 |-> s.ix1, s0 |-> j0, s1 |-> s.s1, q |-> k0, q1 |-> s.q1]
  <1> DEFINE t == [s EXCEPT !.s0 = j0]
             u == [t EXCEPT !.ix0 = i0]
             v == [u EXCEPT !.q = k0]
  <1>1. RootRaise(s, i0, j0, k0) = v
    BY Zenon DEF RootRaise
  <1>2. t = [ix0 |-> s.ix0, ix1 |-> s.ix1, s0 |-> j0, s1 |-> s.s1, q |-> s.q, q1 |-> s.q1]
    BY DEF RootState
  <1> HIDE DEF t
  <1>3. u = [ix0 |-> i0, ix1 |-> s.ix1, s0 |-> j0, s1 |-> s.s1, q |-> s.q, q1 |-> s.q1]
    BY <1>2
  <1> HIDE DEF u
  <1>4. v = [ix0 |-> i0, ix1 |-> s.ix1, s0 |-> j0, s1 |-> s.s1, q |-> k0, q1 |-> s.q1]
    BY <1>3
  <1>5. QED
    BY <1>1, <1>4, Zenon DEF t, u

LEMMA RootStates ==
  ASSUME Format, NEW s \in RootState
  PROVE  Doubled(s) \in RootState /\ \A r \in Nat : HighTurn(s, r) \in RootState /\ LowTurn(s, r) \in RootState
  <1>1. Sign \in Nat \ {0} /\ Pow2[L] \in Nat \ {0}
    BY SignHalf, Sizes
  <1>2. ASSUME NEW t \in RootState
        PROVE  Doubled(t) \in RootState
    <2> DEFINE h == 2 * t.ix0 + t.ix1 \div Sign
               l == (2 * t.ix1) % Pow2[L]
    <2>1. t.ix0 \in Int /\ t.ix1 \in Int /\ 2 * t.ix1 \in Int
      BY DEF RootState
    <2>2. h \in Int /\ l \in Int
      BY <1>1, <2>1
    <2>3. Doubled(t) = [t EXCEPT !.ix0 = h, !.ix1 = l]
      BY Zenon DEF Doubled
    <2> HIDE DEF h, l
    <2>4. QED
      BY <2>2, <2>3 DEF RootState
  <1>3. ASSUME NEW r \in Nat
        PROVE  HighTurn(s, r) \in RootState
    <2> DEFINE t == s.s0 + r
               i0 == s.ix0 - t
               j0 == t + r
               k0 == s.q + r
               a == RootRaise(s, i0, j0, k0)
    <2>1. HighTurn(s, r) = Doubled(IF t <= s.ix0 THEN a ELSE s)
      BY Zenon DEF HighTurn, RootRaise
    <2>2. a \in RootState
      <3>1. i0 \in Int /\ j0 \in Int /\ k0 \in Int /\ s.ix1 \in Int /\ s.s1 \in Int /\ s.q1 \in Int
        BY DEF RootState
      <3> HIDE DEF i0, j0, k0
      <3>2. QED
        BY <3>1, RootStateRaised DEF RootState
    <2> HIDE DEF a
    <2>3. QED
      BY <1>2, <2>1, <2>2
  <1>4. ASSUME NEW r \in Nat
        PROVE  LowTurn(s, r) \in RootState
    <2> DEFINE t1 == s.s1 + r
               s1 == (t1 + r) % Pow2[L]
               borrow == IF s.ix1 < t1 THEN 1 ELSE 0
               carry == IF t1 >= Sign /\ s1 < Sign THEN 1 ELSE 0
               Takes == s.s0 < s.ix0 \/ (s.s0 = s.ix0 /\ t1 <= s.ix1)
               i0 == s.ix0 - s.s0 - borrow
               i1 == (s.ix1 - t1) % Pow2[L]
               j0 == s.s0 + carry
               k1 == s.q1 + r
               a == RootUpdate(s, i0, i1, j0, s1, k1)
    <2>1. LowTurn(s, r) = Doubled(IF Takes THEN a ELSE s)
      BY Zenon DEF LowTurn, RootUpdate
    <2>2. s.ix0 \in Int /\ s.ix1 \in Int /\ s.s0 \in Int /\ s.s1 \in Int /\ s.q \in Int /\ s.q1 \in Int
      BY DEF RootState
    <2>3. t1 \in Int /\ t1 + r \in Int /\ s.ix1 - t1 \in Int /\ borrow \in Int
      BY <2>2
    <2>4. s1 \in Int /\ i1 \in Int /\ i0 \in Int /\ k1 \in Int
      BY <1>1, <2>2, <2>3
    <2>5. carry \in Int
      OBVIOUS
    <2>6. j0 \in Int
      BY <2>2, <2>5
    <2> HIDE DEF i0, i1, j0, s1, k1
    <2>7. a = [ix0 |-> i0, ix1 |-> i1, s0 |-> j0, s1 |-> s1, q |-> s.q, q1 |-> k1]
      BY RootStateUpdated
    <2>8. a \in RootState
      BY <2>2, <2>4, <2>6, <2>7 DEF RootState
    <2> HIDE DEF a, Takes
    <2>9. QED
      BY <1>2, <2>1, <2>8
  <1>5. QED
    BY <1>2, <1>3, <1>4

LEMMA RootsExist ==
  ASSUME Format, NEW x, NEW beyond, Finite(x), ~IsZero(x), ~x.neg,
         RootStart(Unpacked(x, beyond)) \in RootState
  PROVE  \E f, g : /\ IsHigh(f, RootStart(Unpacked(x, beyond)))
                   /\ IsLow(g, f[H + 2])
                   /\ sqrt(x, beyond) = Rooted(SqrtRounded(g[L]), Unpacked(x, beyond).m - Bias)
  <1> DEFINE start == RootStart(Unpacked(x, beyond))
             high[i \in 0 .. H + 2] == IF i = 0 THEN start ELSE HighTurn(high[i - 1], Pow2[H + 2 - i])
             low[i \in 0 .. L] == IF i = 0 THEN high[H + 2] ELSE LowTurn(low[i - 1], Pow2[L - i])
             up == [p \in Nat \X RootState |-> IF p[1] <= H + 2 THEN HighTurn(p[2], Pow2[H + 2 - p[1]]) ELSE p[2]]
             down == [p \in Nat \X RootState |-> IF p[1] <= L THEN LowTurn(p[2], Pow2[L - p[1]]) ELSE p[2]]
  <1>1. H \in Nat /\ L \in Nat /\ H + 2 \in Nat
    BY DEF Format
  <1>2. IsStep(up, RootState) /\ IsStep(down, RootState)
    <2>1. \A i \in Nat, s \in RootState : i <= H + 2 => HighTurn(s, Pow2[H + 2 - i]) \in RootState
      <3>1. SUFFICES ASSUME NEW i \in Nat, NEW s \in RootState, i <= H + 2
                     PROVE  HighTurn(s, Pow2[H + 2 - i]) \in RootState
        OBVIOUS
      <3>2. H + 2 - i \in Nat
        BY <1>1, <3>1
      <3>3. Pow2[H + 2 - i] \in Nat
        BY <3>2, Pow2Type
      <3>4. QED
        BY <3>3, RootStates
    <2>2. \A i \in Nat, s \in RootState : i <= L => LowTurn(s, Pow2[L - i]) \in RootState
      <3>1. SUFFICES ASSUME NEW i \in Nat, NEW s \in RootState, i <= L
                     PROVE  LowTurn(s, Pow2[L - i]) \in RootState
        OBVIOUS
      <3>2. L - i \in Nat
        BY <1>1, <3>1
      <3>3. Pow2[L - i] \in Nat
        BY <3>2, Pow2Type
      <3>4. QED
        BY <3>3, RootStates
    <2>3. QED
      BY <2>1, <2>2 DEF IsStep
  <1>3. start \in RootState
    OBVIOUS
  <1>4. sqrt(x, beyond) = Rooted(SqrtRounded(low[L]), Unpacked(x, beyond).m - Bias)
    BY Zenon DEF sqrt, Unpacked, FirstRoot, RootStart, Rooted
  <1> HIDE DEF up, down, start
  <1>5. PICK f : IsRecursive(f, H + 2, start, up, RootState)
    BY <1>1, <1>2, <1>3, Recursion, Zenon
  <1>6. f = [i \in 0 .. H + 2 |-> IF i = 0 THEN start ELSE HighTurn(f[i - 1], Pow2[H + 2 - i])]
    <2>1. ASSUME NEW i \in 0 .. H + 2
          PROVE  f[i] = IF i = 0 THEN start ELSE HighTurn(f[i - 1], Pow2[H + 2 - i])
      <3>1. CASE i = 0
        BY <1>5, <3>1 DEF IsRecursive
      <3>2. CASE i # 0
        <4>1. i \in 1 .. H + 2 /\ i - 1 \in 0 .. H + 2 /\ i \in Nat /\ i <= H + 2
          BY <1>1, <3>2
        <4>2. f[i] = up[<<i, f[i - 1]>>] /\ f[i - 1] \in RootState
          BY <1>5, <4>1 DEF IsRecursive
        <4>3. up[<<i, f[i - 1]>>] = HighTurn(f[i - 1], Pow2[H + 2 - i])
          BY <4>1, <4>2 DEF up
        <4>4. QED
          BY <3>2, <4>2, <4>3, Zenon
      <3>3. QED
        BY <3>1, <3>2
    <2>2. f = [i \in 0 .. H + 2 |-> f[i]]
      BY <1>5 DEF IsRecursive
    <2>3. QED
      BY <2>1, <2>2, Zenon
  <1>7. high = [i \in 0 .. H + 2 |-> IF i = 0 THEN start ELSE HighTurn(high[i - 1], Pow2[H + 2 - i])]
    BY <1>6, Zenon
  <1> HIDE DEF high
  <1>9. high[H + 2] \in RootState
    <2> DEFINE T == {i \in Nat : i <= H + 2 => high[i] \in RootState}
    <2>1. 0 \in T
      BY <1>1, <1>3, <1>7
    <2>2. ASSUME NEW i \in Nat, i \in T
          PROVE  i + 1 \in T
      <3>1. SUFFICES ASSUME i + 1 <= H + 2
                     PROVE  high[i + 1] \in RootState
        OBVIOUS
      <3>2. i + 1 \in 0 .. H + 2 /\ i + 1 # 0 /\ (i + 1) - 1 = i /\ H + 2 - (i + 1) \in Nat /\ i <= H + 2
        BY <1>1, <3>1
      <3>3. high[i + 1] = HighTurn(high[i], Pow2[H + 2 - (i + 1)])
        BY <1>7, <3>2
      <3>4. high[i] \in RootState /\ Pow2[H + 2 - (i + 1)] \in Nat
        BY <2>2, <3>2, Pow2Type
      <3>5. QED
        BY <3>3, <3>4, RootStates
    <2> HIDE DEF T
    <2>3. \A i \in Nat : i \in T
      BY <2>1, <2>2, Induction
    <2>4. H + 2 \in T /\ H + 2 <= H + 2
      BY <1>1, <2>3
    <2>5. QED
      BY <2>4 DEF T
  <1>10. PICK g : IsRecursive(g, L, high[H + 2], down, RootState)
    BY <1>1, <1>2, <1>9, Recursion, Zenon
  <1>11. g = [i \in 0 .. L |-> IF i = 0 THEN high[H + 2] ELSE LowTurn(g[i - 1], Pow2[L - i])]
    <2>1. ASSUME NEW i \in 0 .. L
          PROVE  g[i] = IF i = 0 THEN high[H + 2] ELSE LowTurn(g[i - 1], Pow2[L - i])
      <3>1. CASE i = 0
        BY <1>10, <3>1 DEF IsRecursive
      <3>2. CASE i # 0
        <4>1. i \in 1 .. L /\ i - 1 \in 0 .. L /\ i \in Nat /\ i <= L
          BY <1>1, <3>2
        <4>2. g[i] = down[<<i, g[i - 1]>>] /\ g[i - 1] \in RootState
          BY <1>10, <4>1 DEF IsRecursive
        <4>3. down[<<i, g[i - 1]>>] = LowTurn(g[i - 1], Pow2[L - i])
          BY <4>1, <4>2 DEF down
        <4>4. QED
          BY <3>2, <4>2, <4>3, Zenon
      <3>3. QED
        BY <3>1, <3>2
    <2>2. g = [i \in 0 .. L |-> g[i]]
      BY <1>10 DEF IsRecursive
    <2>3. QED
      BY <2>1, <2>2, Zenon
  <1>12. low = [i \in 0 .. L |-> IF i = 0 THEN high[H + 2] ELSE LowTurn(low[i - 1], Pow2[L - i])]
    BY <1>11, Zenon
  <1> HIDE DEF low
  <1>13. IsHigh(high, start)
    <2>1. high[0] = start
      BY <1>1, <1>7
    <2>2. ASSUME NEW i \in 1 .. H + 2
          PROVE  high[i] = HighTurn(high[i - 1], Pow2[H + 2 - i])
      <3>1. i \in 0 .. H + 2 /\ i # 0
        BY <1>1
      <3>2. QED
        BY <1>7, <3>1
    <2>3. QED
      BY <2>1, <2>2, Zenon DEF IsHigh
  <1>14. IsLow(low, high[H + 2])
    <2>1. low[0] = high[H + 2]
      BY <1>1, <1>12
    <2>2. ASSUME NEW i \in 1 .. L
          PROVE  low[i] = LowTurn(low[i - 1], Pow2[L - i])
      <3>1. i \in 0 .. L /\ i # 0
        BY <1>1
      <3>2. QED
        BY <1>12, <3>1
    <2>3. QED
      BY <2>1, <2>2, Zenon DEF IsLow
  <1>15. QED
    BY <1>4, <1>13, <1>14, Zenon DEF start

(* A subnormal number V, shifted by words: by j bits so far.               *)
FilledTo(s, V, j) ==
  /\ j \in Nat /\ V \in Nat
  /\ s.ix0 \in 0 .. Pow2[H + 1] - 1 /\ s.ix1 \in 0 .. Pow2[L] - 1 /\ s.m = 0 - j
  /\ Both(Ix(s)) = V * Pow2[j]
  /\ j = 0 => s.ix0 < Pow2[H]
  /\ j # 0 => \E k \in Int : s.ix1 = k * Pow2[H + 1]

LEMMA WordParts ==
  ASSUME Format
  PROVE  /\ H \in Nat /\ L \in Nat /\ H + 1 \in Nat /\ L - H - 1 \in Nat
         /\ Pow2[H + 1] = 2 * Pow2[H] /\ Pow2[H] \in Nat \ {0} /\ Pow2[H + 1] \in Nat \ {0}
         /\ Pow2[L - H - 1] \in Nat \ {0} /\ Pow2[L] \in Nat \ {0}
         /\ Pow2[L] = Pow2[L - H - 1] * Pow2[H + 1]
  <1>1. H \in Nat /\ L \in Nat /\ H + 1 \in Nat /\ L - H - 1 \in Nat /\ L = (L - H - 1) + (H + 1)
    BY DEF Format
  <1>2. Pow2[L] = Pow2[L - H - 1] * Pow2[H + 1]
    BY <1>1, Pow2Sum
  <1>3. QED
    BY <1>1, <1>2, Pow2Next, Pow2Type

(* What a shift by H + 1 bits makes of a high word of 0.                   *)
LEMMA FilledWords ==
  ASSUME Format, NEW s, NEW V, NEW j, FilledTo(s, V, j), s.ix0 = 0
  PROVE  /\ FilledTo(Filled(s), V, j + (H + 1))
         /\ Filled(s).ix0 = s.ix1 \div Pow2[L - H - 1]
         /\ s.ix1 = V * Pow2[j]
  <1> DEFINE A == Pow2[L - H - 1]
             C == Pow2[H + 1]
             w == s.ix1
             d == Filled(s)
  <1>1. /\ H + 1 \in Nat /\ A \in Nat \ {0} /\ C \in Nat \ {0} /\ Pow2[L] = A * C /\ Pow2[L] \in Nat \ {0}
    BY WordParts
  <1>2. /\ j \in Nat /\ V \in Nat /\ w \in 0 .. Pow2[L] - 1 /\ s.m = 0 - j /\ w \in Int
        /\ Both(Ix(s)) = V * Pow2[j]
    BY <1>1 DEF FilledTo
  <1>3. w = V * Pow2[j]
    <2>1. Both(Ix(s)) = 0 * Pow2[L] + w
      BY DEF Both, Ix
    <2>2. QED
      BY <1>1, <1>2, <2>1
  <1>4. d.ix0 = w \div A /\ d.ix1 = (w * C) % Pow2[L] /\ d.m = (0 - j) - (H + 1)
    BY <1>2 DEF Filled
  <1> HIDE DEF A, C, w, d
  <1>5. Scaled(w, A, C)
    BY <1>1, <1>2, ScaledDivision
  <1>6. (w * C) \div Pow2[L] = w \div A /\ (w * C) % Pow2[L] = (w % A) * C
    BY <1>1, <1>5 DEF Scaled
  <1>7. w * C \in Int
    BY <1>1, <1>2
  <1>8. Euclid(w * C, Pow2[L], (w * C) \div Pow2[L], (w * C) % Pow2[L])
    BY <1>1, <1>7, EuclidParts, Zenon
  <1>9. /\ d.ix0 \in Int /\ d.ix1 \in 0 .. Pow2[L] - 1 /\ d.ix0 * Pow2[L] + d.ix1 = w * C
    BY <1>4, <1>6, <1>8 DEF Euclid
  <1>10. Euclid(w, A, w \div A, w % A)
    BY <1>1, <1>2, EuclidParts, Zenon
  <1>11. d.ix0 \in 0 .. C - 1
    <2> DEFINE q == d.ix0
               r == w % A
    <2>1. q \in Int /\ r \in 0 .. A - 1 /\ w = q * A + r
      BY <1>4, <1>10 DEF Euclid
    <2>2. 0 <= w /\ w < A * C
      BY <1>1, <1>2
    <2> HIDE DEF q, r
    <2>3. ~(q < 0)
      <3>1. SUFFICES ASSUME q < 0 PROVE FALSE
        OBVIOUS
      <3>2. q * A <= (-1) * A
        BY <1>1, <2>1, <3>1
      <3>3. q * A \in Int
        BY <1>1, <2>1
      <3>4. QED
        BY <1>1, <2>1, <2>2, <3>2, <3>3
    <2>4. ~(q >= C)
      <3>1. SUFFICES ASSUME q >= C PROVE FALSE
        OBVIOUS
      <3>2. q * A >= C * A
        BY <1>1, <2>1, <3>1
      <3>3. q * A \in Int /\ C * A = A * C /\ A * C \in Int
        BY <1>1, <2>1
      <3>4. QED
        BY <1>1, <2>1, <2>2, <3>2, <3>3
    <2>5. q \in 0 .. C - 1
      BY <1>1, <2>1, <2>3, <2>4
    <2>6. QED
      BY <2>5 DEF q
  <1>12. \E k \in Int : d.ix1 = k * C
    <2>1. w % A \in Int
      BY <1>1, <1>10 DEF Euclid
    <2>2. QED
      BY <1>4, <1>6, <2>1
  <1>13. Both(Ix(d)) = V * Pow2[j + (H + 1)]
    <2>1. Both(Ix(d)) = w * C
      BY <1>9 DEF Both, Ix
    <2>2. Pow2[j + (H + 1)] = Pow2[j] * C /\ Pow2[j] \in Nat
      BY <1>1, <1>2, Pow2Sum, Pow2Type DEF C
    <2>3. (V * Pow2[j]) * C = V * (Pow2[j] * C)
      BY <1>1, <1>2, <2>2
    <2>4. QED
      BY <1>3, <2>1, <2>2, <2>3
  <1>14. d.m = 0 - (j + (H + 1)) /\ j + (H + 1) \in Nat /\ j + (H + 1) # 0
    <2>1. H + 1 # 0
      BY DEF Format
    <2>2. QED
      BY <1>1, <1>2, <1>4, <2>1
  <1>15. FilledTo(d, V, j + (H + 1))
    BY <1>2, <1>9, <1>11, <1>12, <1>13, <1>14 DEF FilledTo, C
  <1>16. QED
    BY <1>3, <1>4, <1>15 DEF A, d, w

(* Two shifts by words find a bit in any number that is not 0.             *)
LEMMA FilledNumber ==
  ASSUME Format, L <= 2 * H + 2, NEW x \in Double, ~IsZero(x), x.hi < Pow2[H]
  PROVE  \E j : LET s == Filled(Filled([ix0 |-> x.hi, ix1 |-> x.lo, m |-> 0]))
                IN  FilledTo(s, Mantissa(x), j) /\ s.ix0 # 0
  <1> DEFINE s == [ix0 |-> x.hi, ix1 |-> x.lo, m |-> 0]
             V == Mantissa(x)
             A == Pow2[L - H - 1]
             C == Pow2[H + 1]
  <1>1. /\ H + 1 \in Nat /\ L - H - 1 \in Nat /\ Pow2[L] \in Nat \ {0} /\ Pow2[H] \in Nat \ {0}
        /\ A \in Nat \ {0} /\ C \in Nat \ {0} /\ C = 2 * Pow2[H]
    BY WordParts
  <1>2. x \in Words /\ x.hi \in Nat /\ x.lo \in 0 .. Pow2[L] - 1 /\ V \in Nat
    BY Fields DEF Words
  <1>3. V = x.hi * Pow2[L] + x.lo
    <2>1. x.hi % Pow2[H] = x.hi
      <3>1. x.hi \in 0 .. Pow2[H] - 1
        BY <1>1, <1>2
      <3>2. QED
        BY <1>1, <3>1, SmallMod
    <2>2. QED
      BY <2>1 DEF Mantissa
  <1>4. FilledTo(s, V, 0)
    <2>1. s.ix0 \in 0 .. Pow2[H + 1] - 1 /\ s.ix1 \in 0 .. Pow2[L] - 1 /\ s.m = 0 - 0 /\ s.ix0 < Pow2[H]
      <3>1. s.ix0 = x.hi /\ s.ix1 = x.lo /\ s.m = 0
        OBVIOUS
      <3>2. x.hi \in 0 .. Pow2[H + 1] - 1
        BY <1>1, <1>2
      <3>3. s.m = 0 - 0
        BY <3>1
      <3>4. s.ix0 < Pow2[H]
        BY <3>1
      <3> HIDE DEF s
      <3>5. QED
        BY <1>2, <3>1, <3>2, <3>3, <3>4, Zenon
    <2>2. Both(Ix(s)) = V * Pow2[0]
      <3>1. Both(Ix(s)) = V
        BY <1>3 DEF Both, Ix
      <3> HIDE DEF V
      <3>2. QED
        BY <1>2, <3>1, Pow2Zero
    <2> HIDE DEF s, V
    <2>3. QED
      BY <1>2, <2>1, <2>2 DEF FilledTo
  <1>5. CASE s.ix0 # 0
    <2>1. Filled(s) = s
      BY <1>5 DEF Filled
    <2> HIDE DEF s, V
    <2>2. FilledTo(Filled(Filled(s)), V, 0) /\ Filled(Filled(s)).ix0 # 0
      BY <1>4, <1>5, <2>1, Zenon
    <2>3. QED
      BY <2>2 DEF s, V
  <1>6. CASE s.ix0 = 0
    <2>1. s.ix1 # 0
      BY <1>6 DEF IsZero
    <2> HIDE DEF s, V
    <2> DEFINE d == Filled(s)
    <2>2. /\ FilledTo(d, V, 0 + (H + 1)) /\ d.ix0 = s.ix1 \div A /\ s.ix1 = V * Pow2[0]
      BY <1>4, <1>6, FilledWords
    <2>3. s.ix1 = V /\ V # 0 /\ 0 + (H + 1) = H + 1
      BY <1>1, <1>2, <2>1, <2>2, Pow2Zero
    <2> HIDE DEF d
    <2>4. CASE d.ix0 # 0
      <3>1. Filled(d) = d
        BY <2>4 DEF Filled
      <3>2. FilledTo(Filled(d), V, 0 + (H + 1)) /\ Filled(d).ix0 # 0
        BY <2>2, <2>4, <3>1, Zenon
      <3>3. QED
        BY <3>2 DEF d, s, V
    <2>5. CASE d.ix0 = 0
      <3> DEFINE b == Filled(d)
      <3>1. FilledTo(b, V, (0 + (H + 1)) + (H + 1)) /\ b.ix0 = d.ix1 \div A /\ d.ix1 = V * Pow2[0 + (H + 1)]
        BY <2>2, <2>5, FilledWords
      <3>2. d.ix1 = V * C
        BY <2>3, <3>1
      <3> HIDE DEF b
      <3>3. A <= C
        <4>1. L - H - 1 <= H + 1
          BY <1>1 DEF Format
        <4>2. QED
          BY <1>1, <4>1, Pow2Grows
      <3>4. V * C >= A /\ V * C \in Int
        <4>1. V * C >= 1 * C
          BY <1>1, <1>2, <2>3
        <4>2. V * C \in Int
          BY <1>1, <1>2
        <4>3. QED
          BY <1>1, <3>3, <4>1, <4>2
      <3>5. (V * C) \div A # 0
        <4>1. Euclid(V * C, A, (V * C) \div A, (V * C) % A)
          BY <1>1, <3>4, EuclidParts, Zenon
        <4>2. SUFFICES ASSUME (V * C) \div A = 0 PROVE FALSE
          OBVIOUS
        <4>3. V * C = 0 * A + ((V * C) % A) /\ (V * C) % A \in 0 .. A - 1
          BY <4>1, <4>2 DEF Euclid
        <4> DEFINE r == (V * C) % A
        <4> HIDE DEF r
        <4>4. V * C = r /\ r \in 0 .. A - 1
          BY <1>1, <4>3 DEF r
        <4>5. QED
          BY <1>1, <3>4, <4>4
      <3>6. b.ix0 # 0
        BY <3>1, <3>2, <3>5, Zenon
      <3>7. QED
        BY <3>1, <3>6 DEF b, d, s, V
    <2>6. QED
      BY <2>4, <2>5
  <1>7. QED
    BY <1>5, <1>6

TopAt(a, i) == Pow2[H] <= a * Pow2[i] /\ a * Pow2[i] < Pow2[H + 1]

LEMMA ShiftFound ==
  ASSUME Format, NEW a \in 1 .. Pow2[H + 1] - 1
  PROVE  \E i \in 0 .. H : TopAt(a, i)
  <1>1. H \in Nat /\ Pow2[H] \in Nat \ {0} /\ Pow2[H + 1] = 2 * Pow2[H] /\ Pow2[H + 1] \in Nat
    BY WordParts
  <1>2. CASE a >= Pow2[H]
    <2>1. a * Pow2[0] = a
      BY <1>1, Pow2Zero
    <2>2. 0 \in 0 .. H /\ TopAt(a, 0)
      BY <1>1, <1>2, <2>1 DEF TopAt
    <2>3. QED
      BY <2>2
  <1>3. CASE ~(a >= Pow2[H])
    <2>1. a \in 1 .. Pow2[H] - 1
      BY <1>1, <1>3
    <2>2. PICK i \in 1 .. H : Pow2[H] <= a * Pow2[i] /\ a * Pow2[i] < Pow2[H + 1]
      <3>1. Shifts(a, H) # {}
        BY <1>1, <2>1, ShiftExists
      <3>2. QED
        BY <3>1 DEF Shifts
    <2>3. i \in 0 .. H
      BY <1>1
    <2>4. QED
      BY <2>2, <2>3 DEF TopAt
  <1>4. QED
    BY <1>2, <1>3

LEMMA ShiftedWords ==
  ASSUME Format, NEW a \in Nat, NEW b \in 0 .. Pow2[L] - 1, NEW i \in 1 .. H
  PROVE  /\ b \div Pow2[L - i] \in 0 .. Pow2[i] - 1
         /\ (b * Pow2[i]) % Pow2[L] \in 0 .. Pow2[L] - 1
         /\ (a * Pow2[i] + (b \div Pow2[L - i])) * Pow2[L] + ((b * Pow2[i]) % Pow2[L])
              = (a * Pow2[L] + b) * Pow2[i]
  <1> DEFINE A == Pow2[L - i]
             C == Pow2[i]
             B0 == Pow2[L]
             t == b \div A
             v == (b * C) % B0
  <1>1. A \in Nat \ {0} /\ C \in Nat \ {0} /\ B0 = A * C /\ B0 \in Nat \ {0}
    <2>1. i \in 0 .. L /\ L \in Nat
      BY DEF Format
    <2>2. Pow2[L] = Pow2[i] * Pow2[L - i] /\ Pow2[i] \in Nat \ {0} /\ Pow2[L - i] \in Nat \ {0}
      BY <2>1, Pow2Split
    <2>3. Pow2[i] * Pow2[L - i] = Pow2[L - i] * Pow2[i]
      BY <2>2
    <2>4. QED
      BY <2>1, <2>2, <2>3, Pow2Type
  <1>2. b \in Int /\ 0 <= b /\ b < B0
    BY <1>1
  <1> HIDE DEF A, C, B0
  <1>3. Scaled(b, A, C)
    BY <1>1, <1>2, ScaledDivision
  <1>4. (b * C) \div B0 = t /\ b * C \in Int
    BY <1>1, <1>2, <1>3 DEF Scaled
  <1>5. Euclid(b * C, B0, (b * C) \div B0, (b * C) % B0)
    BY <1>1, <1>4, EuclidParts, Zenon
  <1>6. Euclid(b, A, b \div A, b % A)
    BY <1>1, <1>2, EuclidParts, Zenon
  <1> HIDE DEF t, v
  <1>7. t \in Int /\ v \in 0 .. B0 - 1 /\ b * C = t * B0 + v
    BY <1>4, <1>5 DEF Euclid, v
  <1>8. \E r : r \in 0 .. A - 1 /\ b = t * A + r
    BY <1>6 DEF Euclid, t
  <1>9. PICK r : r \in 0 .. A - 1 /\ b = t * A + r
    BY <1>8
  <1>10. t >= 0
    <2>1. SUFFICES ASSUME t < 0 PROVE FALSE
      BY <1>7
    <2>2. t * A <= (-1) * A /\ t * A \in Int
      BY <1>1, <1>7, <2>1
    <2>3. QED
      BY <1>1, <1>2, <1>9, <2>2
  <1>11. t < C
    <2>1. SUFFICES ASSUME t >= C PROVE FALSE
      BY <1>1, <1>7
    <2>2. t * A >= C * A /\ t * A \in Int /\ C * A = A * C /\ C * A \in Int
      BY <1>1, <1>7, <2>1
    <2>3. QED
      BY <1>1, <1>2, <1>9, <2>2
  <1>12. t \in 0 .. C - 1
    BY <1>1, <1>7, <1>10, <1>11
  <1>13. (a * C + t) * B0 + v = (a * B0 + b) * C
    <2>1. (a * B0 + b) * C = (a * C) * B0 + b * C
      BY <1>1, <1>2
    <2>2. (a * C + t) * B0 = (a * C) * B0 + t * B0
      BY <1>1, <1>7
    <2>3. (a * C) * B0 \in Int /\ t * B0 \in Int
      BY <1>1, <1>7
    <2>4. QED
      BY <1>7, <2>1, <2>2, <2>3
  <1>14. QED
    BY <1>7, <1>12, <1>13 DEF A, C, B0, t, v

(* The words that a number is unpacked into, whose first bit is implied.   *)
UnpackedTo(n, e, m) ==
  /\ n.m = e /\ n.ix0 \in Int /\ n.ix1 \in 0 .. Pow2[L] - 1
  /\ (Pow2[H] + (n.ix0 % Pow2[H])) * Pow2[L] + n.ix1 = Pow2[P] + m

LEMMA NormalUnpacked ==
  ASSUME Format, NEW x \in Double, Finite(x), ~(x.hi < Pow2[H]), NEW beyond
  PROVE  \E e, m : NormalForm(x, e, m) /\ UnpackedTo(Unpacked(x, beyond), e, m)
  <1> DEFINE m == Mantissa(x)
             e == x.hi \div Pow2[H]
             S == Pow2[P]
             n == Unpacked(x, beyond)
  <1>1. /\ P \in Nat /\ S \in Nat \ {0} /\ Bias \in Nat /\ Pow2[L] \in Nat \ {0} /\ Pow2[H] \in Nat \ {0}
        /\ S = Pow2[H] * Pow2[L]
    BY Sizes
  <1>2. /\ x \in Words /\ x.hi \in Nat /\ x.lo \in 0 .. Pow2[L] - 1 /\ m \in 0 .. S - 1
        /\ e \in 0 .. 2 * Bias /\ e # 0
    <2>1. e \in 0 .. 2 * Bias + 1 /\ (x.hi < Pow2[H] <=> e = 0) /\ (Finite(x) <=> e <= 2 * Bias)
          /\ x \in Words /\ m \in 0 .. S - 1
      BY Fields
    <2> HIDE DEF e, m
    <2>2. QED
      BY <1>1, <2>1 DEF Words
  <1>3. n = [ix0 |-> x.hi, ix1 |-> x.lo, m |-> e]
    BY DEF Unpacked
  <1>4. (Pow2[H] + (x.hi % Pow2[H])) * Pow2[L] + x.lo = S + m
    <2>1. x.hi % Pow2[H] \in Nat
      <3>1. Euclid(x.hi, Pow2[H], x.hi \div Pow2[H], x.hi % Pow2[H])
        <4>1. x.hi \in Int
          BY <1>2
        <4>2. QED
          BY <1>1, <4>1, EuclidParts, Zenon
      <3>2. QED
        BY <1>1, <3>1 DEF Euclid
    <2> DEFINE r == x.hi % Pow2[H]
    <2>2. m = r * Pow2[L] + x.lo
      BY DEF Mantissa
    <2>3. r \in Nat
      BY <2>1
    <2> HIDE DEF r, m
    <2>4. (Pow2[H] + r) * Pow2[L] = Pow2[H] * Pow2[L] + r * Pow2[L] /\ r * Pow2[L] \in Nat
      BY <1>1, <2>3
    <2>5. (Pow2[H] + r) * Pow2[L] + x.lo = S + m
      BY <1>1, <1>2, <2>2, <2>4
    <2>6. QED
      BY <2>5 DEF r
  <1>5. UnpackedTo(n, e, m)
    <2>1. n.m = e /\ n.ix0 = x.hi /\ n.ix1 = x.lo
      BY <1>3
    <2> HIDE DEF n, e, m
    <2>2. QED
      BY <1>2, <1>4, <2>1 DEF UnpackedTo
  <1>6. NormalForm(x, e, m)
    <2>1. Units(x) = (S + m) * Pow2[e - 1]
      BY <1>2, UnitsOf
    <2> HIDE DEF m, e
    <2>2. e - 1 \in Nat
      BY <1>1, <1>2
    <2>3. Pow2[e - 1] \in Nat \ {0}
      BY <2>2, Pow2Type
    <2>4. (S + m) * Pow2[e - 1] \in Nat \ {0}
      BY <1>1, <1>2, <2>3
    <2>5. e \in 1 - P .. 2 * Bias /\ e >= 1
      BY <1>1, <1>2
    <2>6. QED
      BY <1>2, <2>1, <2>4, <2>5 DEF NormalForm
  <1>7. QED
    BY <1>5, <1>6

(* The last shift, by less than a word.                                    *)
LastShift(s, i, beyond) ==
  [ix0 |-> s.ix0 * Pow2[i] + (IF i # 0 THEN s.ix1 \div Pow2[L - i] ELSE IF beyond THEN s.ix1 ELSE 0),
   ix1 |-> (s.ix1 * Pow2[i]) % Pow2[L],
   m   |-> s.m - (i - 1)]

(* A high word whose last H bits are r.                                    *)
LEMMA TopWord ==
  ASSUME Format, NEW w \in Int, NEW k \in Int, NEW a, a \in Pow2[H] .. Pow2[H + 1] - 1, w = a + k * Pow2[H]
  PROVE  Pow2[H] + (w % Pow2[H]) = a
  <1> DEFINE T == Pow2[H]
  <1>1. T \in Nat \ {0} /\ Pow2[H + 1] = 2 * T
    BY WordParts
  <1>2. a \in Int /\ T <= a /\ a < 2 * T
    BY <1>1
  <1> HIDE DEF T
  <1> DEFINE r == a - T
             q == k + 1
  <1>3. r \in 0 .. T - 1 /\ q \in Int
    BY <1>1, <1>2
  <1>4. q * T = k * T + T /\ k * T \in Int
    BY <1>1
  <1>5. w = k * T + a
    <2>1. w = a + k * T
      BY DEF T
    <2>2. QED
      BY <1>2, <1>4, <2>1
  <1>6. w = q * T + r
    <2>1. a = T + r /\ r \in Int
      BY <1>1, <1>2
    <2> HIDE DEF q, r
    <2>2. QED
      BY <1>1, <1>4, <1>5, <2>1
  <1>7. Euclid(w, T, q, r)
    BY <1>1, <1>3, <1>6 DEF Euclid
  <1>8. w % T = r
    BY <1>7, EuclidDivMod
  <1>9. T + r = a
    BY <1>1, <1>2
  <1>10. QED
    BY <1>8, <1>9, Zenon DEF T

LEMMA LastShiftWords ==
  ASSUME Format, NEW s, NEW V, NEW j, FilledTo(s, V, j), s.ix0 # 0,
         NEW i \in 0 .. H, TopAt(s.ix0, i), NEW beyond
  PROVE  LET n == LastShift(s, i, beyond)
             top == s.ix0 * Pow2[i] + (IF i # 0 THEN s.ix1 \div Pow2[L - i] ELSE 0)
         IN  /\ n.ix0 \in Int /\ n.ix1 \in 0 .. Pow2[L] - 1 /\ n.m = 1 - (j + i)
             /\ top \in Pow2[H] .. Pow2[H + 1] - 1
             /\ Pow2[H] + (n.ix0 % Pow2[H]) = top
             /\ top * Pow2[L] + n.ix1 = V * Pow2[j + i]
             /\ j + i >= 1
  <1> DEFINE a == s.ix0
             b == s.ix1
             n == LastShift(s, i, beyond)
             T == Pow2[H]
             B0 == Pow2[L]
  <1>1. /\ H \in Nat /\ L \in Nat /\ T \in Nat \ {0} /\ Pow2[H + 1] = 2 * T /\ B0 \in Nat \ {0}
        /\ i \in Nat /\ H + 1 \in Nat
    BY WordParts
  <1>2. /\ j \in Nat /\ V \in Nat /\ a \in 1 .. Pow2[H + 1] - 1 /\ a \in Nat /\ b \in 0 .. B0 - 1 /\ b \in Nat
        /\ s.m = 0 - j /\ Pow2[j] \in Nat
        /\ a * B0 + b = V * Pow2[j]
    <2>1. /\ j \in Nat /\ V \in Nat /\ a \in 0 .. Pow2[H + 1] - 1 /\ b \in 0 .. B0 - 1 /\ s.m = 0 - j
          /\ Both(Ix(s)) = V * Pow2[j]
      BY DEF FilledTo
    <2>2. Both(Ix(s)) = a * B0 + b
      BY DEF Both, Ix
    <2> HIDE DEF a, b
    <2>3. a # 0
      BY DEF a
    <2>4. QED
      BY <1>1, <2>1, <2>2, <2>3, Pow2Type
  <1>3. T <= a * Pow2[i] /\ a * Pow2[i] < 2 * T
    BY <1>1 DEF TopAt
  <1>4. n.ix0 = a * Pow2[i] + (IF i # 0 THEN b \div Pow2[L - i] ELSE IF beyond THEN b ELSE 0)
        /\ n.ix1 = (b * Pow2[i]) % B0 /\ n.m = s.m - (i - 1)
    BY DEF LastShift
  <1>5. n.m = 1 - (j + i)
    BY <1>1, <1>2, <1>4
  <1>6. CASE i # 0
    <2> DEFINE C == Pow2[i]
               t == b \div Pow2[L - i]
               v == (b * C) % B0
    <2>1. i \in 1 .. H
      BY <1>1, <1>6
    <2>2. /\ t \in 0 .. C - 1 /\ v \in 0 .. B0 - 1
          /\ (a * C + t) * B0 + v = (a * B0 + b) * C
      BY <1>2, <2>1, ShiftedWords
    <2>3. C \in Nat \ {0} /\ 2 * T = C * Pow2[H + 1 - i] /\ Pow2[H + 1 - i] \in Nat \ {0}
      <3>1. i \in 0 .. H + 1
        BY <1>1, <2>1
      <3>2. QED
        BY <1>1, <3>1, Pow2Split
    <2>4. Pow2[j + i] = Pow2[j] * C
      BY <1>1, <1>2, Pow2Sum
    <2> HIDE DEF a, b, n, T, B0, C, t, v
    <2>5. a * C + C <= 2 * T
      <3> DEFINE K == Pow2[H + 1 - i]
      <3>1. K \in Nat \ {0} /\ 2 * T = C * K
        BY <2>3
      <3> HIDE DEF K
      <3>2. a * C < C * K
        BY <1>3, <3>1 DEF C
      <3>3. a + 1 <= K
        <4>1. SUFFICES ASSUME a >= K PROVE FALSE
          BY <1>2, <3>1
        <4>2. a * C >= K * C
          BY <1>2, <2>3, <3>1, <4>1
        <4>3. K * C = C * K /\ K * C \in Int /\ a * C \in Int
          BY <1>2, <2>3, <3>1
        <4>4. QED
          BY <3>2, <4>2, <4>3
      <3>4. (a + 1) * C <= K * C
        BY <1>2, <2>3, <3>1, <3>3
      <3>5. (a + 1) * C = a * C + C /\ K * C = C * K /\ a * C \in Int /\ K * C \in Int
        BY <1>2, <2>3, <3>1
      <3>6. QED
        BY <3>1, <3>4, <3>5
    <2> DEFINE top == a * C + t
    <2>6. top \in T .. 2 * T - 1 /\ top \in Int
      <3>1. a * C \in Int /\ T <= a * C /\ t \in Int /\ t >= 0 /\ t < C
        BY <1>2, <1>3, <2>2, <2>3 DEF C
      <3>2. QED
        BY <1>1, <2>3, <2>5, <3>1
    <2>7. n.ix0 = top /\ n.ix1 = v
      BY <1>4, <1>6 DEF C, t, v
    <2>8. T + (n.ix0 % T) = top
      <3>1. top = top + 0 * Pow2[H]
        BY <1>1, <2>6 DEF T
      <3>2. top \in Pow2[H] .. Pow2[H + 1] - 1
        BY <1>1, <2>6 DEF T
      <3> HIDE DEF top
      <3>3. Pow2[H] + (top % Pow2[H]) = top
        BY <2>6, <3>1, <3>2, TopWord
      <3>4. QED
        BY <2>7, <3>3, Zenon DEF T
    <2>9. top * B0 + n.ix1 = V * Pow2[j + i]
      <3>1. (V * Pow2[j]) * C = V * (Pow2[j] * C)
        BY <1>2, <2>3
      <3>2. top * B0 + v = (V * Pow2[j]) * C
        BY <1>2, <2>2, Zenon
      <3>3. QED
        BY <2>4, <2>7, <3>1, <3>2, Zenon
    <2>10. top = s.ix0 * Pow2[i] + (IF i # 0 THEN s.ix1 \div Pow2[L - i] ELSE 0)
      BY <1>6, Zenon DEF a, C, t, b
    <2>11. j + i >= 1
      BY <1>1, <1>2, <1>6
    <2> HIDE DEF top
    <2>12. top \in Pow2[H] .. Pow2[H + 1] - 1
      BY <1>1, <2>6 DEF T
    <2>13. n.ix0 \in Int /\ n.ix1 \in 0 .. Pow2[L] - 1
      BY <2>2, <2>6, <2>7, Zenon DEF B0
    <2>14. Pow2[H] + (n.ix0 % Pow2[H]) = top /\ top * Pow2[L] + n.ix1 = V * Pow2[j + i]
      BY <2>8, <2>9, Zenon DEF T, B0
    <2>15. QED
      BY <1>5, <2>10, <2>11, <2>12, <2>13, <2>14, Zenon DEF n
  <1>7. CASE i = 0
    <2>1. a * Pow2[i] = a
      BY <1>2, <1>7, Pow2Zero
    <2>2. b * Pow2[i] = b
      BY <1>1, <1>2, <1>7, Pow2Zero
    <2>3. n.ix1 = b
      <3>1. b % B0 = b
        BY <1>1, <1>2, SmallMod
      <3>2. QED
        BY <1>4, <2>2, <3>1, Zenon
    <2>4. T <= a /\ a < 2 * T
      BY <1>3, <2>1
    <2>5. j # 0
      <3>1. j = 0 => a < T
        BY DEF FilledTo
      <3> HIDE DEF a, T
      <3>2. QED
        BY <1>1, <1>2, <2>4, <3>1
    <2>6. PICK k \in Int : b = k * (2 * T)
      BY <1>1, <2>5 DEF FilledTo
    <2> HIDE DEF a, b, n, T, B0
    <2>7. b = (2 * k) * T
      BY <1>1, <2>6
    <2> DEFINE l == IF beyond THEN 2 * k ELSE 0
    <2>8. l \in Int /\ n.ix0 = a + l * T /\ n.ix0 \in Int
      <3>1. CASE beyond
        <4>1. n.ix0 = a + b /\ l = 2 * k
          BY <1>4, <1>7, <2>1, <3>1
        <4>2. QED
          BY <1>2, <2>7, <4>1
      <3>2. CASE ~beyond
        <4>1. n.ix0 = a + 0 /\ l = 0
          BY <1>4, <1>7, <2>1, <3>2
        <4>2. QED
          BY <1>1, <1>2, <4>1
      <3>3. QED
        BY <3>1, <3>2
    <2> HIDE DEF l
    <2>9. T + (n.ix0 % T) = a
      <3>1. a \in Pow2[H] .. Pow2[H + 1] - 1
        BY <1>1, <1>2, <2>4 DEF T
      <3>2. Pow2[H] + (n.ix0 % Pow2[H]) = a
        BY <2>8, <3>1, TopWord DEF T
      <3>3. QED
        BY <3>2, Zenon DEF T
    <2>10. a * B0 + n.ix1 = V * Pow2[j + i] /\ j + i >= 1
      <3>1. j + i = j /\ j >= 1
        BY <1>2, <1>7, <2>5
      <3>2. QED
        BY <1>2, <2>3, <3>1
    <2>11. a = s.ix0 * Pow2[i] + (IF i # 0 THEN s.ix1 \div Pow2[L - i] ELSE 0)
      <3>1. a = a * Pow2[i] + 0
        BY <1>2, <2>1
      <3>2. QED
        BY <1>7, <3>1, Zenon DEF a
    <2>12. a \in Pow2[H] .. Pow2[H + 1] - 1
      BY <1>1, <1>2, <2>4 DEF T
    <2>13. n.ix1 \in 0 .. Pow2[L] - 1
      BY <1>2, <2>3 DEF B0
    <2>14. Pow2[H] + (n.ix0 % Pow2[H]) = a /\ a * Pow2[L] + n.ix1 = V * Pow2[j + i]
      BY <2>9, <2>10, Zenon DEF T, B0
    <2>15. QED
      BY <1>5, <2>8, <2>10, <2>11, <2>12, <2>13, <2>14, Zenon DEF n
  <1>8. QED
    BY <1>6, <1>7

LEMMA SubnormalUnpacked ==
  ASSUME Format, L <= 2 * H + 2, NEW x \in Double, Finite(x), ~IsZero(x), x.hi < Pow2[H], NEW beyond
  PROVE  \E e, m : NormalForm(x, e, m) /\ UnpackedTo(Unpacked(x, beyond), e, m)
  <1> DEFINE s == Filled(Filled([ix0 |-> x.hi, ix1 |-> x.lo, m |-> 0]))
             V == Mantissa(x)
             n == Unpacked(x, beyond)
             i == CHOOSE i \in 0 .. H : Pow2[H] <= s.ix0 * Pow2[i] /\ s.ix0 * Pow2[i] < Pow2[H + 1]
             S == Pow2[P]
             B0 == Pow2[L]
             T == Pow2[H]
  <1>1. /\ P \in Nat /\ S \in Nat \ {0} /\ Pow2[P + 1] = 2 * S /\ Bias \in Nat /\ H \in Nat
        /\ T \in Nat \ {0} /\ B0 \in Nat \ {0} /\ S = T * B0 /\ Pow2[H + 1] = 2 * T
    BY Sizes, WordParts, Pow2Next
  <1>2. PICK j : FilledTo(s, V, j) /\ s.ix0 # 0
    BY FilledNumber
  <1>3. n = LastShift(s, i, beyond)
    BY Zenon DEF Unpacked, Normalized, LastShift
  <1>4. V \in Nat /\ V < S /\ Units(x) = V
    <2>1. x.hi \div Pow2[H] = 0 /\ V \in 0 .. S - 1
      BY Fields
    <2>2. QED
      BY <1>1, <2>1, UnitsOf
  <1> HIDE DEF s, V, n
  <1>5. i \in 0 .. H /\ TopAt(s.ix0, i)
    <2>1. s.ix0 \in 1 .. Pow2[H + 1] - 1
      <3>1. s.ix0 \in 0 .. Pow2[H + 1] - 1 /\ s.ix0 # 0
        BY <1>2 DEF FilledTo
      <3>2. QED
        BY <1>1, <3>1
    <2>2. \E k \in 0 .. H : Pow2[H] <= s.ix0 * Pow2[k] /\ s.ix0 * Pow2[k] < Pow2[H + 1]
      BY <2>1, ShiftFound DEF TopAt
    <2>3. i \in 0 .. H /\ Pow2[H] <= s.ix0 * Pow2[i] /\ s.ix0 * Pow2[i] < Pow2[H + 1]
      BY <2>2, Zenon
    <2> HIDE DEF i
    <2>4. QED
      BY <2>3 DEF TopAt
  <1> HIDE DEF i
  <1> DEFINE top == s.ix0 * Pow2[i] + (IF i # 0 THEN s.ix1 \div Pow2[L - i] ELSE 0)
             k == j + i
             m == top * B0 + n.ix1 - S
  <1>6. /\ n.ix0 \in Int /\ n.ix1 \in 0 .. Pow2[L] - 1 /\ n.m = 1 - (j + i)
        /\ top \in Pow2[H] .. Pow2[H + 1] - 1
        /\ Pow2[H] + (n.ix0 % Pow2[H]) = top
        /\ top * Pow2[L] + n.ix1 = V * Pow2[j + i]
        /\ j + i >= 1
    BY <1>2, <1>3, <1>5, LastShiftWords
  <1>7. j \in Nat /\ i \in Nat /\ k \in Nat /\ k >= 1 /\ Pow2[k] \in Nat \ {0}
    <2>1. j \in Nat /\ i \in Nat
      BY <1>1, <1>2, <1>5 DEF FilledTo
    <2>2. QED
      BY <1>6, <2>1, Pow2Type
  <1> HIDE DEF top, S, B0, T
  <1>8. top \in T .. 2 * T - 1 /\ n.ix1 \in 0 .. B0 - 1 /\ top * B0 + n.ix1 = V * Pow2[k]
    BY <1>1, <1>6 DEF T, B0
  <1>9. top * B0 + n.ix1 = S + m /\ m \in 0 .. S - 1
    <2>1. top \in Int /\ T <= top /\ top + 1 <= 2 * T
      BY <1>1, <1>8
    <2>2. T * B0 <= top * B0 /\ (top + 1) * B0 <= (2 * T) * B0
      BY <1>1, <2>1
    <2>3. (top + 1) * B0 = top * B0 + B0 /\ (2 * T) * B0 = 2 * (T * B0) /\ top * B0 \in Int
      BY <1>1, <2>1
    <2>4. m = (top * B0 + n.ix1) - S
      BY <1>1, <1>8, <2>3
    <2> HIDE DEF m
    <2>5. QED
      BY <1>1, <1>8, <2>2, <2>3, <2>4
  <1>10. V * Pow2[k] = S + m /\ V # 0
    <2>1. V * Pow2[k] = S + m
      BY <1>8, <1>9, Zenon
    <2> HIDE DEF m, k
    <2>2. V # 0
      <3>1. SUFFICES ASSUME V = 0 PROVE FALSE
        OBVIOUS
      <3>2. V * Pow2[k] = 0
        BY <1>7, <3>1
      <3>3. QED
        BY <1>1, <1>9, <2>1, <3>2
    <2>3. QED
      BY <2>1, <2>2
  <1> HIDE DEF m
  <1>11. k <= P
    <2>1. SUFFICES ASSUME P + 1 <= k PROVE FALSE
      BY <1>1, <1>7
    <2>2. Pow2[P + 1] <= Pow2[k]
      <3>1. P + 1 \in Nat
        BY <1>1
      <3> HIDE DEF k
      <3>2. QED
        BY <1>7, <2>1, <3>1, Pow2Grows
    <2> HIDE DEF k
    <2>3. V * Pow2[k] >= Pow2[k] /\ V * Pow2[k] \in Int
      <3> DEFINE p == Pow2[k]
      <3>1. p \in Nat /\ V \in Nat /\ V >= 1
        BY <1>4, <1>7, <1>10
      <3> HIDE DEF p
      <3>2. V * p >= 1 * p /\ V * p \in Int
        BY <3>1
      <3>3. V * p >= p
        BY <3>1, <3>2
      <3>4. QED
        BY <3>2, <3>3 DEF p
    <2>4. QED
      BY <1>1, <1>7, <1>9, <1>10, <2>2, <2>3
  <1> DEFINE e == 1 - k
  <1>12. e \in 1 - P .. 2 * Bias /\ e < 1 /\ ~(e >= 1) /\ 1 - e = k
    <2> HIDE DEF k
    <2>1. QED
      BY <1>1, <1>7, <1>11
  <1>13. n.m = e
    BY <1>6
  <1> HIDE DEF k, e
  <1>14. NormalForm(x, e, m)
    <2>1. Units(x) \in Nat \ {0} /\ Units(x) * Pow2[1 - e] = Pow2[P] + m
      BY <1>4, <1>10, <1>12 DEF S
    <2>2. m \in 0 .. Pow2[P] - 1
      BY <1>9 DEF S
    <2>3. QED
      BY <1>12, <2>1, <2>2 DEF NormalForm
  <1>15. UnpackedTo(n, e, m)
    <2>1. (Pow2[H] + (n.ix0 % Pow2[H])) * Pow2[L] + n.ix1 = Pow2[P] + m
      BY <1>6, <1>9, Zenon DEF B0, S
    <2>2. QED
      BY <1>6, <1>13, <2>1 DEF UnpackedTo
  <1>16. QED
    BY <1>14, <1>15 DEF n

LEMMA UnpackedForm ==
  ASSUME Format, L <= 2 * H + 2, NEW x \in Double, Finite(x), ~IsZero(x), NEW beyond
  PROVE  \E e, m : NormalForm(x, e, m) /\ UnpackedTo(Unpacked(x, beyond), e, m)
  BY SubnormalUnpacked, NormalUnpacked, Zenon

LEMMA Squares ==
  ASSUME NEW a, NEW b, a \in Nat, b \in Nat
  PROVE  /\ a * a \in Nat /\ b * b \in Nat
         /\ a <= b => a * a <= b * b
         /\ a < b => a * a < b * b
  <1>1. a * a \in Nat /\ b * b \in Nat /\ a * b \in Nat
    OBVIOUS
  <1>2. ASSUME a <= b PROVE a * a <= b * b
    <2>1. a * a <= a * b /\ a * b <= b * b
      BY <1>2
    <2>2. QED
      BY <1>1, <2>1
  <1>3. ASSUME a < b PROVE a * a < b * b
    <2>1. (a + 1) * b <= b * b /\ (a + 1) * b = a * b + b /\ a * a <= a * b
      BY <1>3
    <2>2. QED
      BY <1>1, <1>3, <2>1
  <1>4. QED
    BY <1>1, <1>2, <1>3

(* What the root is rounded to: an even number 2 * G, whose half is next to *)
(* the root of N / 4.                                                      *)
NearRoot(G, N) == (2 * G - 1) * (2 * G - 1) < N /\ N < (2 * G + 1) * (2 * G + 1)

(* The numbers whose root has as many bits as twice T.                     *)
RootRange(N, T) ==
  /\ N \in Int /\ \E h \in Int : N = 2 * h
  /\ 4 * (T * T) <= N /\ N <= 16 * (T * T) - 8 * T

LEMMA NearestRoot ==
  ASSUME NEW y, NEW s, NEW Q, NEW N, NEW S, RootLeft(y, s, Q, 1, N), S \in Nat \ {0}, RootRange(N, S)
  PROVE  \E G \in S .. 2 * S - 1 : (IF y = 0 THEN Q ELSE Q + (Q % 2)) = 2 * G /\ NearRoot(G, N)
  <1>0. PICK h \in Int : N = 2 * h
    BY DEF RootRange
  <1>1. y \in Nat /\ Q \in Nat /\ N \in Nat /\ s = 2 * Q /\ y * 1 = 2 * (N - Q * Q) /\ y < 2 * (s + 1)
    BY DEF RootLeft
  <1>2. y = 2 * (N - Q * Q) /\ Q * Q \in Nat /\ S * S \in Nat /\ S \in Nat /\ S >= 1
        /\ 4 * (S * S) <= N /\ N <= 16 * (S * S) - 8 * S
    BY <1>1 DEF RootRange
  <1>3. Q * Q <= N /\ N <= Q * Q + 2 * Q /\ (y = 0 => N = Q * Q) /\ (y # 0 => Q * Q < N)
    BY <1>1, <1>2
  <1>4. (Q + 1) * (Q + 1) = Q * Q + (2 * Q + 1)
    BY <1>1
  <1>5. Q >= 2 * S
    <2>1. SUFFICES ASSUME Q + 1 <= 2 * S PROVE FALSE
      BY <1>1, <1>2
    <2>2. Q + 1 \in Nat /\ 2 * S \in Nat
      BY <1>1, <1>2
    <2>3. (Q + 1) * (Q + 1) <= (2 * S) * (2 * S)
      BY <2>1, <2>2, Squares
    <2>4. (2 * S) * (2 * S) = 4 * (S * S)
      BY <1>2
    <2>5. QED
      BY <1>1, <1>2, <1>3, <1>4, <2>3, <2>4
  <1>6. Q <= 4 * S - 2
    <2>1. SUFFICES ASSUME 4 * S - 1 <= Q PROVE FALSE
      BY <1>1, <1>2
    <2>2. 4 * S - 1 \in Nat
      BY <1>2
    <2>3. (4 * S - 1) * (4 * S - 1) <= Q * Q
      BY <1>1, <2>1, <2>2, Squares
    <2>4. (4 * S - 1) * (4 * S - 1) = (16 * (S * S) - 8 * S) + 1
      BY <1>2
    <2>5. QED
      BY <1>1, <1>2, <1>3, <2>3, <2>4
  <1>7. \E g \in Int, p \in 0 .. 1 : Q = 2 * g + p /\ Q % 2 = p
    <2>1. 2 \in Nat \ {0} /\ Q \in Int
      BY <1>1
    <2>2. Euclid(Q, 2, Q \div 2, Q % 2)
      BY <2>1, EuclidParts, Zenon
    <2>3. QED
      BY <2>2 DEF Euclid
  <1>8. PICK g \in Int, p \in 0 .. 1 : Q = 2 * g + p /\ Q % 2 = p
    BY <1>7
  <1>9. CASE p = 0
    <2>1. Q = 2 * g /\ (IF y = 0 THEN Q ELSE Q + (Q % 2)) = 2 * g
      BY <1>8, <1>9
    <2>2. g \in S .. 2 * S - 1
      BY <1>2, <1>5, <1>6, <2>1
    <2>3. (2 * g + 1) * (2 * g + 1) = Q * Q + (2 * Q + 1)
      BY <1>4, <2>1
    <2>4. (2 * g - 1) * (2 * g - 1) < Q * Q
      <3>1. 2 * g - 1 \in Nat /\ 2 * g - 1 < Q
        BY <1>2, <2>1, <2>2
      <3>2. QED
        BY <1>1, <3>1, Squares
    <2>5. (2 * g - 1) * (2 * g - 1) \in Int
      BY <1>8
    <2>6. NearRoot(g, N)
      BY <1>1, <1>2, <1>3, <2>3, <2>4, <2>5 DEF NearRoot
    <2>7. QED
      BY <2>1, <2>2, <2>6
  <1>10. CASE p = 1
    <2>1. Q = 2 * g + 1
      BY <1>8, <1>10
    <2>2. y # 0
      <3>1. SUFFICES ASSUME y = 0 PROVE FALSE
        OBVIOUS
      <3>2. N = Q * Q
        BY <1>3, <3>1
      <3>3. Q * Q = 4 * (g * g) + (4 * g + 1) /\ g * g \in Int
        BY <2>1
      <3> DEFINE gg == g * g
      <3>4. 2 * h = 4 * gg + (4 * g + 1) /\ gg \in Int
        BY <1>0, <3>2, <3>3
      <3> HIDE DEF gg
      <3>5. QED
        BY <3>4
    <2> DEFINE G == g + 1
    <2>3. Q = 2 * G - 1 /\ (IF y = 0 THEN Q ELSE Q + (Q % 2)) = 2 * G /\ G \in Int
      BY <1>1, <1>8, <1>10, <2>1, <2>2
    <2>4. G \in S .. 2 * S - 1
      BY <1>2, <1>5, <1>6, <2>3
    <2> HIDE DEF G
    <2>5. (2 * G - 1) * (2 * G - 1) = Q * Q
      BY <2>3
    <2>6. (2 * G + 1) * (2 * G + 1) > (Q + 1) * (Q + 1)
      <3>1. Q + 1 \in Nat /\ 2 * G + 1 \in Nat /\ Q + 1 < 2 * G + 1
        BY <1>1, <2>3
      <3>2. QED
        BY <3>1, Squares
    <2>7. (2 * G + 1) * (2 * G + 1) \in Int
      BY <2>3
    <2>8. NearRoot(G, N)
      BY <1>1, <1>2, <1>3, <1>4, <2>2, <2>5, <2>6, <2>7 DEF NearRoot
    <2>9. QED
      BY <2>3, <2>4, <2>8
  <1>11. QED
    BY <1>9, <1>10

(* The rounding of the two words is that of the number they hold.          *)
LEMMA RoundedWords ==
  ASSUME Format, NEW s \in RootState, s.q \in Nat, s.q1 \in 0 .. Pow2[L] - 1, s.ix1 \in 0 .. Pow2[L] - 1
  PROVE  LET r == SqrtRounded(s)
             Q == s.q * Pow2[L] + s.q1
         IN  /\ r.q \in Nat /\ r.q1 \in 0 .. Pow2[L] - 1
             /\ r.q * Pow2[L] + r.q1 = IF Both(Ix(s)) = 0 THEN Q ELSE Q + (Q % 2)
  <1> DEFINE B0 == Pow2[L]
             r == SqrtRounded(s)
             Q == s.q * B0 + s.q1
  <1>1. B0 \in Nat \ {0} /\ Sign \in Nat \ {0} /\ B0 = 2 * Sign
    BY Sizes, SignHalf
  <1>2. s.ix0 = 0 /\ s.ix1 = 0 <=> Both(Ix(s)) = 0
    <2>1. Ix(s) \in TwoWords
      BY DEF TwoWords, Ix, RootState
    <2>2. Both(Ix(s)) = 0 <=> Ix(s) = [h |-> 0, l |-> 0]
      BY <2>1, BothParts
    <2>3. QED
      BY <2>2 DEF Ix
  <1>3. s.q1 \in 0 .. B0 - 1 /\ s.q \in Nat /\ s.q1 \in Nat
    BY <1>1
  <1>4. Q % 2 = s.q1 % 2 /\ s.q1 % 2 \in 0 .. 1
    <2>1. 2 \in Nat \ {0} /\ s.q1 \in Int
      BY <1>3
    <2>2. Euclid(s.q1, 2, s.q1 \div 2, s.q1 % 2)
      BY <2>1, EuclidParts, Zenon
    <2> DEFINE a == s.q1 \div 2
               p == s.q1 % 2
               k == s.q * Sign + a
    <2> HIDE DEF a, p
    <2>3. a \in Int /\ p \in 0 .. 1 /\ s.q1 = a * 2 + p
      BY <2>2 DEF Euclid, a, p
    <2>4. s.q * B0 = (s.q * Sign) * 2 /\ s.q * Sign \in Int
      BY <1>1, <1>3
    <2> HIDE DEF B0
    <2>5. k \in Int /\ Q = k * 2 + p /\ Q \in Int
      BY <2>3, <2>4
    <2> HIDE DEF k, Q
    <2>6. Euclid(Q, 2, k, p)
      BY <2>3, <2>5 DEF Euclid
    <2>7. Q % 2 = p
      BY <2>6, EuclidDivMod
    <2>8. QED
      BY <2>3, <2>7 DEF p
  <1>5. CASE s.ix0 = 0 /\ s.ix1 = 0
    <2>1. r = s
      BY <1>5 DEF SqrtRounded
    <2>2. QED
      BY <1>2, <1>3, <1>5, <2>1
  <1>6. CASE ~(s.ix0 = 0 /\ s.ix1 = 0) /\ s.q1 = Pow2[L] - 1
    <2>1. r = [s EXCEPT !.q1 = 0, !.q = @ + 1]
      BY <1>6 DEF SqrtRounded
    <2>2. r.q = s.q + 1 /\ r.q1 = 0
      BY <2>1 DEF RootState
    <2>3. s.q1 % 2 = 1
      <3>1. Euclid(B0 - 1, 2, Sign - 1, 1)
        <4> HIDE DEF B0
        <4>1. QED
          BY <1>1 DEF Euclid
      <3>2. (B0 - 1) % 2 = 1
        BY <3>1, EuclidDivMod
      <3>3. QED
        BY <1>6, <3>2
    <2> HIDE DEF r
    <2>4. r.q * B0 + r.q1 = Q + 1
      <3>1. r.q * B0 = s.q * B0 + B0 /\ s.q * B0 \in Int
        BY <1>1, <1>3, <2>2
      <3> HIDE DEF B0
      <3>2. s.q1 = B0 - 1
        BY <1>6 DEF B0
      <3>3. QED
        BY <1>1, <2>2, <3>1, <3>2
    <2>5. Q % 2 = 1
      BY <1>4, <2>3
    <2>6. r.q \in Nat /\ r.q1 \in 0 .. B0 - 1
      BY <1>1, <1>3, <2>2
    <2> HIDE DEF Q
    <2>7. r.q * B0 + r.q1 = IF Both(Ix(s)) = 0 THEN Q ELSE Q + (Q % 2)
      BY <1>2, <1>6, <2>4, <2>5
    <2>8. QED
      BY <2>6, <2>7 DEF r, Q
  <1>7. CASE ~(s.ix0 = 0 /\ s.ix1 = 0) /\ s.q1 # Pow2[L] - 1
    <2>1. r = [s EXCEPT !.q1 = @ + (s.q1 % 2)]
      BY <1>7 DEF SqrtRounded
    <2>2. r.q = s.q /\ r.q1 = s.q1 + (s.q1 % 2)
      BY <2>1 DEF RootState
    <2> DEFINE p == s.q1 % 2
    <2>3. p \in 0 .. 1 /\ Q % 2 = p /\ r.q1 = s.q1 + p
      BY <1>4, <2>2
    <2> HIDE DEF p, r
    <2>4. r.q \in Nat /\ r.q1 \in 0 .. B0 - 1
      <3>1. s.q1 < B0 - 1
        BY <1>1, <1>3, <1>7
      <3>2. QED
        BY <1>1, <1>3, <2>2, <2>3, <3>1
    <2>5. r.q * B0 + r.q1 = Q + p
      <3>1. s.q * B0 \in Int
        BY <1>1, <1>3
      <3>2. QED
        BY <1>3, <2>2, <2>3, <3>1
    <2> HIDE DEF Q
    <2>6. r.q * B0 + r.q1 = IF Both(Ix(s)) = 0 THEN Q ELSE Q + (Q % 2)
      BY <1>2, <1>7, <2>3, <2>5
    <2>7. QED
      BY <2>4, <2>6 DEF r, Q
  <1>8. QED
    BY <1>5, <1>6, <1>7

LEMMA RootedPlace ==
  ASSUME Format, NEW s, s.q \in Nat, s.q1 \in 0 .. Pow2[L] - 1, NEW G \in Nat,
         s.q * Pow2[L] + s.q1 = 2 * G, NEW m, Bias - 1 + (m \div 2) \in Nat
  PROVE  LET r == Rooted(s, m)
         IN  /\ r \in Words /\ r.neg = FALSE
             /\ Place(r) = (Bias - 1 + (m \div 2)) * Pow2[P] + G
  <1> DEFINE B0 == Pow2[L]
             T == Pow2[H]
             k == Bias - 1 + (m \div 2)
             r == Rooted(s, m)
             a == s.q \div 2
             b == s.q % 2
             c == s.q1 \div 2
             d == s.q1 % 2
  <1>1. /\ B0 \in Nat \ {0} /\ Sign \in Nat \ {0} /\ B0 = 2 * Sign /\ T \in Nat \ {0}
        /\ Pow2[P] = T * B0 /\ k \in Nat
    BY Sizes, SignHalf
  <1>2. a \in Int /\ b \in 0 .. 1 /\ s.q = a * 2 + b
    <2>1. 2 \in Nat \ {0} /\ s.q \in Int
      OBVIOUS
    <2>2. Euclid(s.q, 2, s.q \div 2, s.q % 2)
      BY <2>1, EuclidParts, Zenon
    <2>3. QED
      BY <2>2 DEF Euclid
  <1>3. c \in Int /\ d \in 0 .. 1 /\ s.q1 = c * 2 + d
    <2>1. 2 \in Nat \ {0} /\ s.q1 \in Int
      BY <1>1
    <2>2. Euclid(s.q1, 2, s.q1 \div 2, s.q1 % 2)
      BY <2>1, EuclidParts, Zenon
    <2>3. QED
      BY <2>2 DEF Euclid
  <1>4. r = [neg |-> FALSE, hi |-> a + k * T, lo |-> c + Sign * b]
    BY Zenon DEF Rooted
  <1>5. s.q * B0 + s.q1 = 2 * G /\ 0 <= s.q1 /\ s.q1 < B0 /\ s.q >= 0
    BY <1>1
  <1> HIDE DEF a, b, c, d, B0, T, k, r
  <1> DEFINE l == Sign * b
  <1>6. l = IF b = 0 THEN 0 ELSE Sign
    BY <1>1, <1>2
  <1> HIDE DEF l
  <1>7. /\ s.q * B0 = 2 * (a * B0) + 2 * l /\ a * B0 \in Int /\ l \in Nat
    <2>1. s.q * B0 = 2 * (a * B0) + b * B0 /\ a * B0 \in Int
      BY <1>1, <1>2
    <2>2. b * B0 = 2 * l
      BY <1>1, <1>2, <1>6
    <2>3. QED
      BY <1>1, <1>6, <2>1, <2>2
  <1>8. d = 0 /\ G = a * B0 + l + c
    <2> DEFINE v == a * B0
    <2>1. v \in Int /\ (2 * v + 2 * l) + (c * 2 + d) = 2 * G
      BY <1>3, <1>5, <1>7
    <2> HIDE DEF v
    <2>2. d = 0 /\ G = v + l + c
      BY <1>3, <1>7, <2>1
    <2>3. QED
      BY <2>2 DEF v
  <1>9. a \in Nat /\ c + l \in 0 .. B0 - 1
    BY <1>1, <1>2, <1>3, <1>5, <1>6, <1>8
  <1>10. k * T \in Nat /\ a + k * T \in Nat
    BY <1>1, <1>9
  <1>11. r.neg = FALSE /\ r.hi = a + k * T /\ r.lo = c + l /\ r = [neg |-> FALSE, hi |-> a + k * T, lo |-> c + l]
    BY <1>4 DEF l
  <1>12. r \in Words
    BY <1>9, <1>10, <1>11 DEF Words, B0
  <1>13. Place(r) = k * (T * B0) + G
    <2>1. Place(r) = (a + k * T) * B0 + (c + l)
      BY <1>11, Zenon DEF Place, B0
    <2>2. (a + k * T) * B0 = a * B0 + k * (T * B0) /\ k * (T * B0) \in Int
      BY <1>1, <1>9
    <2>3. QED
      BY <1>3, <1>7, <1>8, <2>1, <2>2
  <1>14. QED
    BY <1>1, <1>11, <1>12, <1>13 DEF k, r

(* A number of two words, from its place.                                  *)
NumberAt(v) == [neg |-> FALSE, hi |-> v \div Pow2[L], lo |-> v % Pow2[L]]

PlaceOf(v, e, w) ==
  /\ v \in Nat /\ e \in Nat \ {0} /\ e < 2 * Bias /\ w \in 0 .. 2 * Pow2[P]
  /\ e = 1 \/ w >= Pow2[P]
  /\ v = (e - 1) * Pow2[P] + w

LEMMA PlaceBound ==
  ASSUME Format, NEW v, NEW e, NEW w, PlaceOf(v, e, w)
  PROVE  v < (2 * Bias + 1) * Pow2[P]
  <1> DEFINE S == Pow2[P]
  <1>1. S \in Nat \ {0} /\ Bias \in Nat
    BY Sizes
  <1>2. /\ v \in Nat /\ e \in Nat \ {0} /\ e < 2 * Bias /\ w \in 0 .. 2 * S
    BY DEF PlaceOf
  <1>3. v = (e - 1) * S + w
    BY DEF PlaceOf
  <1> HIDE DEF S
  <1>4. (e - 1) * S \in Int /\ w <= 2 * S
    BY <1>1, <1>2
  <1>5. (e - 1) * S + 2 * S = (e + 1) * S /\ (2 * Bias) * S + S = (2 * Bias + 1) * S
        /\ (2 * Bias) * S \in Int
    BY <1>1, <1>2
  <1>6. (e + 1) * S <= (2 * Bias) * S
    <2>1. e + 1 <= 2 * Bias
      BY <1>1, <1>2
    <2>2. QED
      BY <1>1, <1>2, <2>1
  <1>7. v < (2 * Bias + 1) * S
    BY <1>1, <1>2, <1>3, <1>4, <1>5, <1>6
  <1>8. QED
    BY <1>7 DEF S

LEMMA NumberAtUnits ==
  ASSUME Format, NEW v, NEW e, NEW w, PlaceOf(v, e, w)
  PROVE  Units(NumberAt(v)) = w * Pow2[e - 1]
  <1> DEFINE B0 == Pow2[L]
             S == Pow2[P]
             r == NumberAt(v)
  <1>1. B0 \in Nat \ {0} /\ S \in Nat \ {0} /\ Bias \in Nat
    BY Sizes
  <1>0. /\ v \in Nat /\ e \in Nat \ {0} /\ e < 2 * Bias /\ w \in 0 .. 2 * S /\ w \in Nat
        /\ e = 1 \/ w >= S
    BY <1>1 DEF PlaceOf
  <1>2. Euclid(v, B0, v \div B0, v % B0)
    <2>1. v \in Int
      BY <1>0
    <2>2. QED
      BY <1>1, <2>1, EuclidParts, Zenon
  <1> DEFINE q == v \div B0
             p == v % B0
  <1>3. q \in Int /\ p \in 0 .. B0 - 1 /\ v = q * B0 + p
    BY <1>2 DEF Euclid
  <1>4. r = [neg |-> FALSE, hi |-> q, lo |-> p]
    BY DEF NumberAt
  <1> HIDE DEF q, p, B0, r
  <1>5. q >= 0
    <2>1. SUFFICES ASSUME q < 0 PROVE FALSE
      BY <1>3
    <2>2. q * B0 <= (-1) * B0 /\ q * B0 \in Int
      BY <1>1, <1>3, <2>1
    <2>3. QED
      BY <1>0, <1>1, <1>3, <2>2
  <1>6. r \in Words
    BY <1>3, <1>4, <1>5 DEF Words, B0
  <1>7. Place(r) = v
    BY <1>3, <1>4 DEF Place, B0
  <1> HIDE DEF S
  <1>8. Place(r) < (2 * Bias + 1) * Pow2[P]
    BY <1>7, PlaceBound
  <1>9. Place(r) = (e - 1) * Pow2[P] + w
    BY <1>7 DEF PlaceOf
  <1>10. QED
    BY <1>0, <1>6, <1>8, <1>9, UnitsAt DEF r, S

(* A root whose mantissa is G, in places of F, with the exponent f.        *)
RootPlace(r, f, G, T, F) ==
  /\ r \in Words /\ r.neg = FALSE
  /\ F \in Nat \ {0} /\ T \in Nat \ {0} /\ T * F = Pow2[P]
  /\ f \in Nat \ {0} /\ f < 2 * Bias /\ G \in T .. 2 * T - 1
  /\ Place(r) = (f - 1) * Pow2[P] + G * F

(* It and the numbers beside it, in units of C.                            *)
RootNumbers(r, G, T, F, C) ==
  /\ r \in Double /\ r.neg = FALSE /\ C \in Nat \ {0} /\ Beside(r, F, FALSE) \in Nat
  /\ Units(r) = G * C
  /\ Beside(r, F, TRUE) = (G + 1) * C
  /\ \/ Beside(r, F, FALSE) = (G - 1) * C
     \/ G = T /\ 2 * Beside(r, F, FALSE) = (2 * T - 1) * C

LEMMA RootUnits ==
  ASSUME Format, NEW r, NEW f, NEW G, NEW T, NEW F, RootPlace(r, f, G, T, F)
  PROVE  RootNumbers(r, G, T, F, F * Pow2[f - 1])
  <1> DEFINE S == Pow2[P]
             c == Pow2[f - 1]
             C == F * c
  <1>1. /\ r \in Words /\ r.neg = FALSE /\ F \in Nat \ {0} /\ T \in Nat \ {0} /\ T * F = S
        /\ f \in Nat \ {0} /\ f < 2 * Bias /\ G \in T .. 2 * T - 1
    BY DEF RootPlace
  <1>2. Place(r) = (f - 1) * S + G * F
    BY DEF RootPlace
  <1>3. S \in Nat \ {0} /\ f - 1 \in Nat /\ c \in Nat \ {0} /\ G \in Nat /\ T <= G /\ G <= 2 * T - 1 /\ Bias \in Nat
    <2>1. f - 1 \in Nat
      BY <1>1
    <2>2. QED
      BY <1>1, <2>1, Sizes, Pow2Type
  <1>4. C \in Nat \ {0}
    <2>1. c \in Nat \ {0}
      BY <1>3
    <2> HIDE DEF c
    <2>2. F * c \in Nat /\ F * c >= 1 * c
      BY <1>1, <2>1
    <2>3. QED
      BY <2>1, <2>2
  <1>5. /\ G * F \in Nat /\ (G + 1) * F = G * F + F /\ (G - 1) * F = G * F - F
        /\ S <= G * F /\ G * F + F <= 2 * S
    <2>1. T * F <= G * F /\ (G + 1) * F <= (2 * T) * F
      BY <1>1, <1>3
    <2>2. G * F \in Nat /\ (G + 1) * F = G * F + F /\ (G - 1) * F = G * F - F /\ (2 * T) * F = 2 * (T * F)
      BY <1>1, <1>3
    <2>3. QED
      BY <1>1, <2>1, <2>2
  <1>6. (f - 1) * S \in Nat
    BY <1>3
  <1>7. Place(r) \in Nat
    BY <1>2, <1>5, <1>6
  <1> HIDE DEF S, c, C
  <1>8. PlaceOf(Place(r), f, G * F)
    <2>1. G * F \in 0 .. 2 * S /\ G * F >= S
      BY <1>1, <1>3, <1>5
    <2>2. Place(r) = (f - 1) * Pow2[P] + G * F
      BY <1>2 DEF S
    <2>3. QED
      BY <1>1, <1>7, <2>1, <2>2 DEF PlaceOf, S
  <1>9. r \in Double /\ Units(r) = G * C
    <2>1. Place(r) < (2 * Bias + 1) * Pow2[P]
      BY <1>8, PlaceBound
    <2>2. Units(r) = (G * F) * Pow2[f - 1] /\ r \in Double
      <3>1. G * F \in 0 .. 2 * Pow2[P] /\ (f = 1 \/ G * F >= Pow2[P])
        BY <1>8 DEF PlaceOf
      <3>2. Place(r) = (f - 1) * Pow2[P] + G * F
        BY <1>2 DEF S
      <3>3. QED
        BY <1>1, <2>1, <3>1, <3>2, UnitsAt
    <2>3. (G * F) * c = G * (F * c)
      BY <1>1, <1>3
    <2>4. QED
      BY <2>2, <2>3 DEF c, C
  <1>10. Beside(r, F, TRUE) = (G + 1) * C
    <2>1. Beside(r, F, TRUE) = Units(NumberAt(Place(r) + F))
      BY DEF Beside, NumberAt, Place
    <2>2. PlaceOf(Place(r) + F, f, (G + 1) * F)
      <3>1. (G + 1) * F \in 0 .. 2 * S /\ (G + 1) * F >= S
        BY <1>1, <1>3, <1>5
      <3>2. Place(r) + F = (f - 1) * S + (G + 1) * F
        BY <1>1, <1>2, <1>5, <1>6
      <3>3. Place(r) + F \in Nat
        BY <1>1, <1>7
      <3>4. QED
        BY <1>1, <3>1, <3>2, <3>3, Zenon DEF PlaceOf, S
    <2>3. Units(NumberAt(Place(r) + F)) = ((G + 1) * F) * c
      BY <2>2, NumberAtUnits DEF c
    <2>4. ((G + 1) * F) * c = (G + 1) * (F * c)
      BY <1>1, <1>3
    <2>5. QED
      BY <2>1, <2>3, <2>4 DEF C
  <1>11. Beside(r, F, FALSE) = Units(NumberAt(Place(r) - F))
    <2>1. Place(r) + (-F) = Place(r) - F
      BY <1>1, <1>7
    <2>2. Beside(r, F, FALSE) = Units(NumberAt(Place(r) + (-F)))
      BY DEF Beside, NumberAt, Place
    <2>3. QED
      BY <2>1, <2>2, Zenon
  <1>12. Place(r) - F \in Nat
    <2>1. F <= S
      <3>1. 1 * F <= T * F
        BY <1>1
      <3>2. QED
        BY <1>1, <3>1
    <2>2. QED
      BY <1>1, <1>2, <1>3, <1>5, <1>6, <2>1
  <1>13. CASE f = 1 \/ G > T
    <2>1. PlaceOf(Place(r) - F, f, (G - 1) * F)
      <3>1. f = 1 \/ (G - 1) * F >= S
        <4>1. SUFFICES ASSUME G > T PROVE (G - 1) * F >= S
          BY <1>13
        <4>2. T <= G - 1
          BY <1>1, <1>3, <4>1
        <4>3. T * F <= (G - 1) * F
          BY <1>1, <1>3, <4>2
        <4>4. QED
          BY <1>1, <4>3
      <3>2. (G - 1) * F \in 0 .. 2 * S
        <4>1. (G - 1) * F \in Nat
          BY <1>1, <1>3
        <4>2. QED
          BY <1>1, <1>3, <1>5, <4>1
      <3>3. Place(r) - F = (f - 1) * S + (G - 1) * F
        BY <1>1, <1>2, <1>5, <1>6
      <3>4. QED
        BY <1>1, <1>12, <3>1, <3>2, <3>3, Zenon DEF PlaceOf, S
    <2>2. Units(NumberAt(Place(r) - F)) = ((G - 1) * F) * c
      BY <2>1, NumberAtUnits DEF c
    <2>3. ((G - 1) * F) * c = (G - 1) * (F * c)
      BY <1>1, <1>3
    <2>4. Beside(r, F, FALSE) = (G - 1) * C
      BY <1>11, <2>2, <2>3 DEF C
    <2>5. (G - 1) * C \in Nat
      <3>1. G - 1 \in Nat
        BY <1>1, <1>3
      <3>2. QED
        BY <1>4, <3>1
    <2>6. QED
      BY <1>1, <1>4, <1>9, <1>10, <2>4, <2>5, Zenon DEF C, c, RootNumbers
  <1>14. CASE ~(f = 1 \/ G > T)
    <2> DEFINE g == f - 1
               h == Pow2[g - 1]
    <2>1. G = T /\ g \in Nat \ {0} /\ g - 1 \in Nat /\ (g - 1) + 1 = g /\ g < 2 * Bias
      BY <1>1, <1>3, <1>14
    <2>2. h \in Nat \ {0} /\ c = 2 * h
      <3>1. Pow2[(g - 1) + 1] = 2 * Pow2[g - 1]
        BY <2>1, Pow2Next
      <3>2. QED
        BY <2>1, <3>1, Pow2Type DEF c
    <2> DEFINE w == (2 * T - 1) * F
    <2>3. w = 2 * S - F /\ w \in Nat
      <3>1. (2 * T - 1) * F = 2 * (T * F) - F /\ 2 * T - 1 \in Nat
        BY <1>1
      <3>2. w \in Nat
        BY <1>1, <3>1
      <3>3. QED
        BY <1>1, <3>1, <3>2
    <2>4. PlaceOf(Place(r) - F, g, w)
      <3>1. F <= S
        <4>1. 1 * F <= T * F
          BY <1>1
        <4>2. QED
          BY <1>1, <4>1
      <3> HIDE DEF w, g
      <3>2. w \in 0 .. 2 * S /\ w >= S
        BY <1>1, <1>3, <2>3, <3>1
      <3>3. Place(r) - F = (g - 1) * S + w
        <4>1. g * S = (g - 1) * S + S /\ (g - 1) * S \in Nat
          BY <1>3, <2>1
        <4>2. Place(r) = g * S + S
          BY <1>1, <1>2, <2>1 DEF g
        <4>3. QED
          BY <1>1, <1>3, <2>3, <4>1, <4>2
      <3>4. QED
        BY <1>12, <2>1, <3>2, <3>3, Zenon DEF PlaceOf, S
    <2>5. Units(NumberAt(Place(r) - F)) = w * h
      BY <2>4, NumberAtUnits
    <2>6. 2 * (w * h) = (2 * T - 1) * (F * (2 * h)) /\ w * h \in Nat
      <3>1. w * h \in Nat
        <4> HIDE DEF w, h
        <4>1. QED
          BY <2>2, <2>3
      <3> HIDE DEF h
      <3>2. 2 * (((2 * T - 1) * F) * h) = (2 * T - 1) * (F * (2 * h))
        BY <1>1, <2>2
      <3>3. QED
        BY <3>1, <3>2
    <2> HIDE DEF w, h
    <2>7. 2 * Beside(r, F, FALSE) = (2 * T - 1) * C /\ Beside(r, F, FALSE) \in Nat
      BY <1>11, <2>2, <2>5, <2>6 DEF C
    <2>8. QED
      BY <1>1, <1>4, <1>9, <1>10, <2>1, <2>7, Zenon DEF C, c, RootNumbers
  <1>15. QED
    BY <1>13, <1>14

(* Between the squares of the sums with the numbers beside it.             *)
IsBetween(A, D, U, u) == Squared(A + D) < u /\ u < Squared(A + U)

LEMMA ScaledSquare ==
  ASSUME NEW a, NEW C, a \in Int, C \in Int
  PROVE  Squared(a * C) = (a * a) * (C * C) /\ a * a \in Int /\ C * C \in Int
  BY DEF Squared

LEMMA ScaledOrder ==
  ASSUME NEW a, NEW b, NEW c, a \in Int, b \in Int, c \in Nat \ {0}
  PROVE  /\ a < b => a * c < b * c
         /\ a <= b => a * c <= b * c
         /\ a * c \in Int /\ b * c \in Int
  <1>1. a * c \in Int /\ b * c \in Int
    OBVIOUS
  <1>2. a <= b => a * c <= b * c
    OBVIOUS
  <1>3. a < b => a * c < b * c
    <2>1. SUFFICES ASSUME a < b PROVE a * c < b * c
      OBVIOUS
    <2>2. (a + 1) * c <= b * c /\ (a + 1) * c = a * c + c
      BY <2>1
    <2>3. QED
      BY <1>1, <2>2
  <1>4. QED
    BY <1>1, <1>2, <1>3

LEMMA RootBetween ==
  ASSUME NEW C \in Nat \ {0}, NEW T \in Nat \ {0}, NEW G \in Nat, T <= G, NEW N \in Int, NearRoot(G, N),
         4 * (T * T) <= N, NEW D \in Nat,
         D = (G - 1) * C \/ (G = T /\ 2 * D = (2 * T - 1) * C)
  PROVE  IsBetween(G * C, D, (G + 1) * C, N * (C * C))
  <1> DEFINE A == G * C
             CC == C * C
             g == 2 * G + 1
             l == 2 * G - 1
  <1>1. CC \in Nat \ {0}
    <2>1. C * C \in Nat /\ C * C >= 1 * C
      OBVIOUS
    <2>2. QED
      BY <2>1
  <1>2. A \in Nat /\ A + (G + 1) * C = g * C /\ A + (G - 1) * C = l * C /\ g \in Int /\ l \in Int
    OBVIOUS
  <1>3. l * l < N /\ N < g * g
    BY DEF NearRoot
  <1>4. Squared(g * C) = (g * g) * CC /\ g * g \in Int /\ Squared(l * C) = (l * l) * CC /\ l * l \in Int
    <2>1. g \in Int /\ l \in Int /\ C \in Int
      OBVIOUS
    <2> HIDE DEF g, l
    <2>2. QED
      BY <2>1, ScaledSquare
  <1> HIDE DEF A, CC, g, l
  <1>5. N * CC < Squared(g * C)
    <2>1. N * CC < (g * g) * CC
      BY <1>1, <1>3, <1>4, ScaledOrder
    <2>2. QED
      BY <1>4, <2>1
  <1>6. CASE D = (G - 1) * C
    <2>1. Squared(l * C) < N * CC
      <3>1. (l * l) * CC < N * CC
        BY <1>1, <1>3, <1>4, ScaledOrder
      <3>2. QED
        BY <1>4, <3>1
    <2>2. QED
      BY <1>2, <1>5, <1>6, <2>1, Zenon DEF IsBetween, A, CC
  <1>7. CASE G = T /\ 2 * D = (2 * T - 1) * C
    <2> DEFINE b == 2 * T
               B1 == b * C
    <2>1. b \in Nat /\ B1 \in Nat /\ b * b = 4 * (T * T) /\ T * T \in Int
      OBVIOUS
    <2>2. A + D < B1
      <3>1. 2 * A = B1 /\ (2 * T - 1) * C = B1 - C
        BY <1>7 DEF A
      <3> HIDE DEF B1
      <3>2. QED
        BY <1>2, <1>7, <2>1, <3>1
    <2>3. Squared(A + D) < Squared(B1)
      <3>1. A + D \in Nat
        BY <1>2
      <3> HIDE DEF B1
      <3>2. (A + D) * (A + D) < B1 * B1
        BY <2>1, <2>2, <3>1, Squares
      <3>3. QED
        BY <3>2 DEF Squared
    <2>4. Squared(B1) = (b * b) * CC
      <3>1. b \in Int /\ C \in Int
        BY <2>1
      <3> HIDE DEF b
      <3>2. QED
        BY <3>1, ScaledSquare DEF CC
    <2>5. (b * b) * CC <= N * CC /\ N * CC \in Int /\ (b * b) * CC \in Int
      <3>1. b * b \in Int /\ b * b <= N
        BY <2>1
      <3> DEFINE bb == b * b
      <3>2. bb \in Int /\ bb <= N
        BY <3>1
      <3> HIDE DEF bb
      <3>3. bb * CC <= N * CC /\ N * CC \in Int /\ bb * CC \in Int
        BY <1>1, <3>2, ScaledOrder
      <3>4. QED
        BY <3>3 DEF bb
    <2>6. Squared(A + D) < N * CC
      <3>1. Squared(A + D) \in Int
        <4>1. A + D \in Int
          BY <1>2
        <4> DEFINE w == A + D
        <4>2. w \in Int
          BY <4>1
        <4> HIDE DEF w
        <4>3. Squared(w) \in Int
          BY <4>2 DEF Squared
        <4>4. QED
          BY <4>3 DEF w
      <3> HIDE DEF b, B1
      <3>2. QED
        BY <2>3, <2>4, <2>5, <3>1
    <2>7. QED
      BY <1>2, <1>5, <2>6, Zenon DEF IsBetween, A, CC
  <1>8. QED
    BY <1>6, <1>7

LEMMA RootIs ==
  ASSUME Format, NEW r, NEW x, NEW f, NEW G, NEW T, NEW F, NEW N \in Int, RootPlace(r, f, G, T, F),
         NearRoot(G, N), 4 * (T * T) <= N,
         4 * Units(x) * UnitsOfOne = N * ((F * Pow2[f - 1]) * (F * Pow2[f - 1]))
  PROVE  IsRoot(r, x, F)
  <1> DEFINE C == F * Pow2[f - 1]
             D == Beside(r, F, FALSE)
             U == Beside(r, F, TRUE)
  <1>1. /\ r \in Double /\ r.neg = FALSE /\ C \in Nat \ {0} /\ D \in Nat
        /\ Units(r) = G * C
        /\ U = (G + 1) * C
        /\ D = (G - 1) * C \/ (G = T /\ 2 * D = (2 * T - 1) * C)
    <2>1. RootNumbers(r, G, T, F, C)
      BY RootUnits
    <2> HIDE DEF C, D, U
    <2>2. QED
      BY <2>1, Zenon DEF RootNumbers, D, U
  <1>2. T \in Nat \ {0} /\ G \in Nat /\ T <= G
    BY DEF RootPlace
  <1>3. 4 * Units(x) * UnitsOfOne = N * (C * C)
    BY Zenon
  <1> HIDE DEF C, D, U
  <1>4. IsBetween(G * C, D, (G + 1) * C, N * (C * C))
    BY <1>1, <1>2, RootBetween
  <1>5. IsBetween(Units(r), D, U, 4 * Units(x) * UnitsOfOne)
    BY <1>1, <1>3, <1>4, Zenon
  <1>6. QED
    BY <1>1, <1>5, Zenon DEF IsRoot, IsBetween, D, U

(* The number whose root is taken: an odd exponent leaves a factor of 2.   *)
LEMMA RootBegins ==
  ASSUME NEW w, NEW p, NEW T, T \in Nat \ {0}, w \in T .. 2 * T - 1, p \in {1, 2}
  PROVE  LET N == (w * p) * (4 * T)
         IN  /\ RootRange(N, T)
             /\ RootLeft(2 * (w * p), 0, 0, 4 * T, N)
  <1> DEFINE v == w * p
             N == v * (4 * T)
             h == v * (2 * T)
  <1>1. w \in Nat /\ T <= w /\ w <= 2 * T - 1
    OBVIOUS
  <1>2. v \in Nat /\ T <= v /\ v <= 4 * T - 2
    BY <1>1
  <1> HIDE DEF v
  <1>3. N \in Nat /\ h \in Int /\ N = 2 * h /\ T * T \in Nat
    BY <1>2
  <1>4. T * (4 * T) <= N /\ N <= (4 * T - 2) * (4 * T)
    BY <1>2
  <1>5. T * (4 * T) = 4 * (T * T) /\ (4 * T - 2) * (4 * T) = 16 * (T * T) - 8 * T
    OBVIOUS
  <1>6. (2 * v) * (4 * T) = 2 * N /\ 2 * v \in Nat
    BY <1>2
  <1>7. RootLeft(2 * v, 0, 0, 4 * T, N)
    <2> DEFINE y == 2 * v
               r == 4 * T
    <2>1. y \in Nat /\ r \in Nat \ {0} /\ y < 2 * (0 + r)
      BY <1>2
    <2> HIDE DEF N
    <2>2. y * r = 2 * (N - 0 * 0)
      BY <1>3, <1>6
    <2> HIDE DEF y, r
    <2>3. RootLeft(y, 0, 0, r, N)
      BY <1>3, <2>1, <2>2 DEF RootLeft
    <2>4. QED
      BY <2>3 DEF y, r
  <1> HIDE DEF N, h
  <1>8. RootRange(N, T)
    <2>1. (\E k \in Int : N = 2 * k)
      BY <1>3
    <2>2. QED
      BY <1>3, <1>4, <1>5, <2>1 DEF RootRange
  <1>9. QED
    BY <1>7, <1>8, Zenon DEF N, v

(* The exponent of the root, and what the exponent leaves.                 *)
RootExponent(e) == Bias + ((e - Bias) \div 2)
Left(e) == Pow2[(e - Bias) % 2]

LEMMA RootExponents ==
  ASSUME Format, P < Bias, NEW e \in 1 - P .. 2 * Bias
  PROVE  LET f == RootExponent(e)
             o == (e - Bias) % 2
         IN  /\ o \in {0, 1} /\ Left(e) = IF o = 1 THEN 2 ELSE 1
             /\ f \in Nat \ {0} /\ f < 2 * Bias /\ f - 1 \in Nat
             /\ Bias - 1 + ((e - Bias) \div 2) = f - 1
             /\ (f - 1) + (f - 1) + o = Bias + e - 2
  <1> DEFINE d == e - Bias
             k == d \div 2
             o == d % 2
  <1>1. P \in Nat /\ Bias \in Nat /\ d \in Int /\ P >= 3 /\ e \in Int
    <2>1. H \in Nat /\ L \in Nat /\ H >= 1 /\ L >= 2 /\ P = H + L
      BY DEF Format, P
    <2>2. Bias \in Nat
      BY Sizes
    <2>3. QED
      BY <2>1, <2>2
  <1>2. Euclid(d, 2, d \div 2, d % 2)
    <2>1. 2 \in Nat \ {0}
      OBVIOUS
    <2>2. QED
      BY <1>1, <2>1, EuclidParts, Zenon
  <1>3. k \in Int /\ o \in 0 .. 1 /\ d = k * 2 + o
    BY <1>2 DEF Euclid
  <1>4. Left(e) = Pow2[o]
    BY DEF Left
  <1>5. Pow2[0] = 1 /\ Pow2[1] = 2
    <2>1. 0 \in Nat /\ 0 + 1 = 1
      OBVIOUS
    <2>2. QED
      BY <2>1, Pow2Zero, Pow2Next
  <1>6. RootExponent(e) = Bias + k
    BY DEF RootExponent
  <1> HIDE DEF k, o
  <1>7. d = e - Bias
    OBVIOUS
  <1> HIDE DEF d
  <1> DEFINE f == RootExponent(e)
  <1>8. /\ o \in {0, 1} /\ f \in Nat \ {0} /\ f < 2 * Bias /\ f - 1 \in Nat
        /\ Bias - 1 + k = f - 1
        /\ (f - 1) + (f - 1) + o = Bias + e - 2
    BY <1>1, <1>3, <1>6, <1>7
  <1>9. Left(e) = IF o = 1 THEN 2 ELSE 1
    BY <1>4, <1>5, <1>8
  <1>10. QED
    BY <1>8, <1>9, Zenon DEF d, k, o

LEMMA RootScale ==
  ASSUME Format, P < Bias, NEW x, NEW e, NEW m, NormalForm(x, e, m),
         NEW F \in Nat \ {0}, NEW T \in Nat \ {0}, T * F = Pow2[P],
         NEW w \in Nat, Pow2[P] + m = w * F
  PROVE  LET C == F * Pow2[RootExponent(e) - 1]
         IN  4 * Units(x) * UnitsOfOne = ((w * Left(e)) * (4 * T)) * (C * C)
  <1> DEFINE S == Pow2[P]
             f == RootExponent(e)
             o == (e - Bias) % 2
             c == Pow2[f - 1]
             p == Left(e)
             C == F * c
             X == Pow2[P + e - 1]
             Y == Pow2[Bias - 1]
             u == Units(x)
  <1>1. e \in 1 - P .. 2 * Bias /\ u \in Nat \ {0}
    BY DEF NormalForm
  <1>2. /\ P \in Nat /\ Bias \in Nat /\ S \in Nat \ {0} /\ Bias - 1 \in Nat /\ e \in Int /\ P + e - 1 \in Nat
    BY <1>1, Sizes
  <1>3. /\ o \in {0, 1} /\ f - 1 \in Nat /\ f \in Nat
        /\ (f - 1) + (f - 1) + o = Bias + e - 2
    BY <1>1, RootExponents
  <1>4. u * S = (w * F) * X
    BY NormalUnits
  <1>5. UnitsOfOne = S * Y
    <2>1. WideExponents
      BY <1>2 DEF WideExponents
    <2>2. QED
      BY <2>1, OneUnits
  <1>6. X \in Nat \ {0} /\ Y \in Nat \ {0} /\ c \in Nat \ {0} /\ p \in Nat \ {0} /\ p = Pow2[o]
    BY <1>2, <1>3, Pow2Type DEF Left
  <1>7. X * Y = S * ((c * c) * p)
    <2>1. X * Y = Pow2[(P + e - 1) + (Bias - 1)]
      BY <1>2, Pow2Sum
    <2>2. c * c = Pow2[(f - 1) + (f - 1)]
      BY <1>3, Pow2Sum
    <2>3. (c * c) * p = Pow2[((f - 1) + (f - 1)) + o]
      <3> DEFINE g == (f - 1) + (f - 1)
      <3>1. g \in Nat /\ o \in Nat
        BY <1>3
      <3>2. c * c = Pow2[g] /\ p = Pow2[o]
        BY <1>6, <2>2
      <3> HIDE DEF o, c, p
      <3>3. Pow2[g + o] = Pow2[g] * Pow2[o]
        <4> HIDE DEF g
        <4>1. QED
          BY <3>1, Pow2Sum
      <3>4. QED
        BY <3>2, <3>3, Zenon
    <2>4. S * ((c * c) * p) = Pow2[P + (((f - 1) + (f - 1)) + o)]
      <3> DEFINE g == ((f - 1) + (f - 1)) + o
      <3>1. g \in Nat
        BY <1>3
      <3>2. (c * c) * p = Pow2[g]
        BY <2>3
      <3>3. Pow2[P + g] = Pow2[P] * Pow2[g]
        <4> HIDE DEF g
        <4>1. QED
          BY <1>2, <3>1, Pow2Sum
      <3>4. QED
        BY <3>2, <3>3, Zenon
    <2>5. (P + e - 1) + (Bias - 1) = P + (((f - 1) + (f - 1)) + o)
      BY <1>2, <1>3
    <2>6. QED
      BY <2>1, <2>4, <2>5, Zenon
  <1>8. S = T * F
    OBVIOUS
  <1>9. 4 * Units(x) * UnitsOfOne = (4 * u) * (S * Y)
    BY <1>5, Zenon
  <1> HIDE DEF S, f, o, c, p, C, X, Y, u
  <1>10. (4 * u) * (S * Y) = 4 * ((u * S) * Y)
    BY <1>1, <1>2, <1>6
  <1>11. ((w * F) * X) * Y = (w * F) * (X * Y)
    BY <1>6
  <1>12. (w * F) * (S * ((c * c) * p)) = (w * F) * ((T * F) * ((c * c) * p))
    BY <1>8, Zenon
  <1>13. 4 * ((w * F) * ((T * F) * ((c * c) * p))) = ((w * p) * (4 * T)) * ((F * c) * (F * c))
    BY <1>6
  <1>14. (4 * u) * (S * Y) = ((w * p) * (4 * T)) * ((F * c) * (F * c))
    BY <1>4, <1>7, <1>10, <1>11, <1>12, <1>13, Zenon
  <1>15. QED
    BY <1>9, <1>14, Zenon DEF C, c, f, p

LEMMA StartWords ==
  ASSUME Format, P < Bias, NEW n, NEW e, NEW m, UnpackedTo(n, e, m),
         e \in 1 - P .. 2 * Bias, m \in 0 .. Pow2[P] - 1
  PROVE  LET s == RootStart(n)
         IN  /\ s \in RootState /\ s.s1 = 0 /\ s.q1 = 0
             /\ RootWords(s, Pow2[H + 2] * Pow2[L], ((Pow2[P] + m) * Left(e)) * (4 * Pow2[P]))
  <1> DEFINE S == Pow2[P]
             w == S + m
             p == Left(e)
             N == (w * p) * (4 * S)
             a == FirstRoot(n)
             o == (e - Bias) % 2
             s == RootStart(n)
             B0 == Pow2[L]
  <1>1. /\ S \in Nat \ {0} /\ B0 \in Nat \ {0} /\ Pow2[H] \in Nat \ {0} /\ H \in Nat /\ S = Pow2[H] * B0
        /\ Pow2[H + 2] = 4 * Pow2[H]
    <2>1. H \in Nat /\ H + 1 \in Nat /\ (H + 1) + 1 = H + 2
      BY WordParts
    <2>2. Pow2[H + 1] = 2 * Pow2[H] /\ Pow2[(H + 1) + 1] = 2 * Pow2[H + 1]
      BY <2>1, Pow2Next
    <2>3. S \in Nat \ {0} /\ B0 \in Nat \ {0} /\ Pow2[H] \in Nat \ {0} /\ S = Pow2[H] * B0
      BY Sizes
    <2>4. QED
      BY <2>1, <2>2, <2>3
  <1>2. /\ n.m = e /\ n.ix0 \in Int /\ n.ix1 \in 0 .. B0 - 1 /\ n.ix1 \in Int
        /\ (Pow2[H] + (n.ix0 % Pow2[H])) * B0 + n.ix1 = w
    BY <1>1 DEF UnpackedTo
  <1>3. o \in {0, 1} /\ p = IF o = 1 THEN 2 ELSE 1
    BY RootExponents
  <1>4. w \in S .. 2 * S - 1 /\ w \in Nat /\ p \in {1, 2}
    BY <1>1, <1>3
  <1>5. /\ a \in RootState /\ a.ix1 \in 0 .. B0 - 1 /\ Both(Ix(a)) = w
        /\ a.s0 = 0 /\ a.s1 = 0 /\ a.q = 0 /\ a.q1 = 0
    <2> DEFINE b == Pow2[H] + (n.ix0 % Pow2[H])
    <2>1. b \in Int
      <3>1. Euclid(n.ix0, Pow2[H], n.ix0 \div Pow2[H], n.ix0 % Pow2[H])
        BY <1>1, <1>2, EuclidParts, Zenon
      <3>2. n.ix0 % Pow2[H] \in Int
        BY <1>1, <3>1 DEF Euclid
      <3>3. QED
        BY <1>1, <3>2
    <2>2. a = [ix0 |-> b, ix1 |-> n.ix1, s0 |-> 0, s1 |-> 0, q |-> 0, q1 |-> 0]
      BY DEF FirstRoot
    <2>3. b * B0 + n.ix1 = w
      BY <1>2
    <2> HIDE DEF a, b, w
    <2>4. a \in RootState
      BY <1>2, <2>1, <2>2 DEF RootState
    <2>5. a.ix0 = b /\ a.ix1 = n.ix1 /\ a.s0 = 0 /\ a.s1 = 0 /\ a.q = 0 /\ a.q1 = 0
      BY <2>2
    <2>6. Both(Ix(a)) = b * B0 + n.ix1
      BY <2>5 DEF Both, Ix
    <2>7. QED
      BY <1>2, <2>3, <2>4, <2>5, <2>6
  <1> DEFINE d == Doubled(a)
  <1>6. /\ d \in RootState /\ d.ix1 \in 0 .. B0 - 1 /\ Both(Ix(d)) = 2 * Both(Ix(a))
        /\ d.s0 = a.s0 /\ d.s1 = a.s1 /\ d.q = a.q /\ d.q1 = a.q1
    <2> HIDE DEF a
    <2>1. QED
      BY <1>5, DoubledWords
  <1> DEFINE b == IF o = 1 THEN d ELSE a
  <1> HIDE DEF a, d
  <1>7. /\ b \in RootState /\ b.ix1 \in 0 .. B0 - 1 /\ Both(Ix(b)) = w * p
        /\ b.s0 = 0 /\ b.s1 = 0 /\ b.q = 0 /\ b.q1 = 0
    <2>1. CASE o = 1
      <3>1. b = d /\ p = 2
        BY <1>3, <2>1
      <3>2. 2 * w = w * 2
        BY <1>4
      <3> HIDE DEF b, w, o, p
      <3>3. QED
        BY <1>5, <1>6, <3>1, <3>2
    <2>2. CASE o # 1
      <3>1. b = a /\ p = 1
        BY <1>3, <2>2
      <3>2. w = w * 1
        BY <1>4
      <3> HIDE DEF b, w, o, p
      <3>3. QED
        BY <1>5, <1>6, <3>1, <3>2
    <2>3. QED
      BY <2>1, <2>2
  <1>8. s = Doubled(b)
    <2>1. (n.m - Bias) % 2 = o
      BY <1>2
    <2> HIDE DEF o
    <2>2. QED
      BY <2>1, Zenon DEF RootStart, a, d
  <1> HIDE DEF b, s, w, p, o
  <1>9. /\ s \in RootState /\ s.ix1 \in 0 .. B0 - 1 /\ Both(Ix(s)) = 2 * (w * p)
        /\ s.s0 = 0 /\ s.s1 = 0 /\ s.q = 0 /\ s.q1 = 0
    <2> DEFINE t == Doubled(b)
    <2>1. /\ t \in RootState /\ t.ix1 \in 0 .. B0 - 1 /\ Both(Ix(t)) = 2 * Both(Ix(b))
          /\ t.s0 = b.s0 /\ t.s1 = b.s1 /\ t.q = b.q /\ t.q1 = b.q1
      BY <1>7, DoubledWords
    <2>2. s = t
      BY <1>8
    <2> HIDE DEF t
    <2>3. QED
      BY <1>7, <2>1, <2>2, Zenon
  <1>10. RootLeft(2 * (w * p), 0, 0, 4 * S, N)
    BY <1>1, <1>4, RootBegins
  <1>11. Pow2[H + 2] * B0 = 4 * S
    BY <1>1
  <1>12. RootWords(s, Pow2[H + 2] * B0, N)
    <2>1. s.s0 * Pow2[L] + s.s1 = 0 /\ s.q * Pow2[L] + s.q1 = 0
      BY <1>1, <1>9
    <2>2. RootLeft(Both(Ix(s)), s.s0 * Pow2[L] + s.s1, s.q * Pow2[L] + s.q1, Pow2[H + 2] * B0, N)
      BY <1>9, <1>10, <1>11, <2>1, Zenon
    <2>3. s.s1 \in 0 .. Pow2[L] - 1
      BY <1>1, <1>9
    <2>4. QED
      BY <1>9, <2>2, <2>3, Zenon DEF RootWords
  <1>13. QED
    BY <1>9, <1>12, Zenon DEF s, w, p

(* The state after the loops.                                              *)
LEMMA RootEnds ==
  ASSUME Format, P < Bias, NEW s, NEW N \in Int, RootWords(s, 1, N), s.q1 \in 0 .. Pow2[L] - 1,
         RootRange(N, Pow2[P]), NEW e \in 1 - P .. 2 * Bias
  PROVE  \E G \in Nat : /\ RootPlace(Rooted(SqrtRounded(s), e - Bias), RootExponent(e), G, Pow2[P], 1)
                        /\ NearRoot(G, N)
  <1> DEFINE S == Pow2[P]
             Q == s.q * Pow2[L] + s.q1
             y == Both(Ix(s))
             t == SqrtRounded(s)
             r == Rooted(t, e - Bias)
             f == RootExponent(e)
             k == (e - Bias) \div 2
  <1>1. S \in Nat \ {0} /\ Pow2[L] \in Nat \ {0} /\ P \in Nat /\ Bias \in Nat
    BY Sizes
  <1>2. /\ s \in RootState /\ s.ix1 \in 0 .. Pow2[L] - 1
        /\ RootLeft(y, s.s0 * Pow2[L] + s.s1, Q, 1, N)
    BY DEF RootWords
  <1>3. \E G \in S .. 2 * S - 1 : (IF y = 0 THEN Q ELSE Q + (Q % 2)) = 2 * G /\ NearRoot(G, N)
    <2>1. RootRange(N, S)
      OBVIOUS
    <2> HIDE DEF S, Q, y
    <2>2. QED
      BY <1>1, <1>2, <2>1, NearestRoot
  <1>4. PICK G \in S .. 2 * S - 1 : (IF y = 0 THEN Q ELSE Q + (Q % 2)) = 2 * G /\ NearRoot(G, N)
    BY <1>3
  <1>5. s.q \in Nat
    <2>1. Q \in Nat /\ s.q \in Int /\ s.q1 \in Int /\ s.q1 < Pow2[L]
      BY <1>1, <1>2 DEF RootLeft, RootState
    <2>2. SUFFICES ASSUME s.q < 0 PROVE FALSE
      BY <2>1
    <2>3. s.q * Pow2[L] <= (-1) * Pow2[L] /\ s.q * Pow2[L] \in Int
      BY <1>1, <2>1, <2>2
    <2>4. QED
      BY <1>1, <2>1, <2>3
  <1>6. /\ t.q \in Nat /\ t.q1 \in 0 .. Pow2[L] - 1
        /\ t.q * Pow2[L] + t.q1 = 2 * G
    <2>1. /\ t.q \in Nat /\ t.q1 \in 0 .. Pow2[L] - 1
          /\ t.q * Pow2[L] + t.q1 = IF y = 0 THEN Q ELSE Q + (Q % 2)
      BY <1>2, <1>5, RoundedWords
    <2> HIDE DEF t, Q, y
    <2>2. (IF y = 0 THEN Q ELSE Q + (Q % 2)) = 2 * G
      BY <1>4, Zenon
    <2>3. QED
      BY <2>1, <2>2
  <1>7. f \in Nat \ {0} /\ f < 2 * Bias /\ f - 1 \in Nat /\ Bias - 1 + k = f - 1
    BY RootExponents
  <1> HIDE DEF t
  <1>8. r \in Words /\ r.neg = FALSE /\ Place(r) = (f - 1) * S + G
    <2>1. G \in Nat
      BY <1>1
    <2>2. Bias - 1 + k \in Nat
      BY <1>7
    <2>3. r \in Words /\ r.neg = FALSE /\ Place(r) = (Bias - 1 + k) * S + G
      BY <1>6, <2>1, <2>2, RootedPlace
    <2> HIDE DEF r, f, k
    <2>4. QED
      BY <1>7, <2>3, Zenon
  <1> HIDE DEF r, f, k, S, Q, y
  <1>9. G \in Nat /\ S * 1 = S /\ G * 1 = G /\ 1 \in Nat \ {0}
    BY <1>1
  <1>10. RootPlace(r, f, G, S, 1)
    <2>1. Place(r) = (f - 1) * Pow2[P] + G * 1
      BY <1>8, <1>9, Zenon DEF S
    <2>2. S * 1 = Pow2[P]
      BY <1>9 DEF S
    <2>3. QED
      BY <1>1, <1>4, <1>7, <1>8, <1>9, <2>1, <2>2, Zenon DEF RootPlace
  <1>11. QED
    BY <1>4, <1>9, <1>10 DEF r, f, S, t

LEMMA SqrtRoot ==
  ASSUME Format, NormalRoots, NEW x \in Double, Finite(x), ~IsZero(x), ~x.neg, NEW beyond
  PROVE  IsRoot(sqrt(x, beyond), x, 1)
  <1> DEFINE S == Pow2[P]
             n == Unpacked(x, beyond)
             start == RootStart(n)
  <1>1. P < Bias /\ L <= 2 * H + 2 /\ S \in Nat \ {0} /\ P \in Nat
    BY Sizes DEF NormalRoots
  <1>2. PICK e, m : NormalForm(x, e, m) /\ UnpackedTo(n, e, m)
    BY <1>1, UnpackedForm
  <1>3. e \in 1 - P .. 2 * Bias /\ m \in 0 .. S - 1
    BY <1>2 DEF NormalForm
  <1> DEFINE w == S + m
             N == (w * Left(e)) * (4 * S)
  <1>4. start \in RootState /\ start.s1 = 0 /\ start.q1 = 0 /\ RootWords(start, Pow2[H + 2] * Pow2[L], N)
    BY <1>1, <1>2, <1>3, StartWords
  <1> HIDE DEF start, n
  <1>5. PICK f, g : /\ IsHigh(f, start) /\ IsLow(g, f[H + 2])
                    /\ sqrt(x, beyond) = Rooted(SqrtRounded(g[L]), n.m - Bias)
    BY <1>4, RootsExist DEF start, n
  <1> HIDE DEF N, w, S
  <1>6. RootWords(f[H + 2], Pow2[L], N) /\ f[H + 2].s1 = 0 /\ f[H + 2].q1 = 0
    BY <1>4, <1>5, HighTurns
  <1>7. RootWords(g[L], 1, N) /\ g[L].q1 \in 0 .. Pow2[L] - 1
    BY <1>5, <1>6, LowTurns
  <1>8. n.m = e
    BY <1>2 DEF UnpackedTo
  <1>9. w \in S .. 2 * S - 1 /\ w \in Nat /\ Left(e) \in {1, 2}
    <2>1. Left(e) \in {1, 2}
      BY <1>1, <1>3, RootExponents
    <2>2. QED
      BY <1>1, <1>3, <2>1 DEF w
  <1>10. RootRange(N, S) /\ N \in Int /\ 4 * (S * S) <= N
    <2>1. RootRange(N, S)
      BY <1>1, <1>9, RootBegins DEF N
    <2>2. QED
      BY <2>1 DEF RootRange
  <1>11. PICK G \in Nat : /\ RootPlace(Rooted(SqrtRounded(g[L]), e - Bias), RootExponent(e), G, S, 1)
                          /\ NearRoot(G, N)
    BY <1>1, <1>3, <1>7, <1>10, RootEnds DEF S
  <1>12. 4 * Units(x) * UnitsOfOne = N * ((1 * Pow2[RootExponent(e) - 1]) * (1 * Pow2[RootExponent(e) - 1]))
    <2>1. S * 1 = Pow2[P] /\ Pow2[P] + m = w * 1 /\ 1 \in Nat \ {0}
      BY <1>1, <1>9 DEF S, w
    <2>2. QED
      BY <1>1, <1>2, <1>9, <2>1, RootScale DEF N
  <1>13. IsRoot(Rooted(SqrtRounded(g[L]), e - Bias), x, 1)
    BY <1>10, <1>11, <1>12, RootIs
  <1>14. QED
    BY <1>5, <1>8, <1>13, Zenon

(* sqrtf, in the words of the operators above.                             *)
FloatState == [ix : Int, s : Int, q : Int]

FloatTurn(s, r) ==
  IF s.s + r <= s.ix
  THEN [ix |-> 2 * (s.ix - s.s - r), s |-> s.s + 2 * r, q |-> s.q + r]
  ELSE [s EXCEPT !.ix = 2 * @]

IsFloatRoot(f, start) ==
  f[0] = start /\ \A k \in 1 .. H + 2 : f[k] = FloatTurn(f[k - 1], Pow2[H + 2 - k])

FloatShift(x) ==
  IF x.hi >= Pow2[H] THEN 0
  ELSE CHOOSE i \in 1 .. H : Pow2[H] <= x.hi * Pow2[i] /\ x.hi * Pow2[i] < Pow2[H + 1]
FloatExponent(x, i) == IF i = 0 THEN x.hi \div Pow2[H] ELSE 1 - i
FloatMantissa(x, i) == IF i = 0 THEN Pow2[H] + (x.hi % Pow2[H]) ELSE x.hi * Pow2[i]
FloatScale(x) == FloatExponent(x, FloatShift(x)) - Bias
FloatWord(x) == FloatMantissa(x, FloatShift(x))
FloatStart(m, ix) == [ix |-> 2 * (IF m % 2 = 1 THEN 2 * ix ELSE ix), s |-> 0, q |-> 0]

RootedFloat(s, m) ==
  LET q == IF s.ix = 0 THEN s.q ELSE s.q + (s.q % 2)
  IN  [neg |-> FALSE, hi |-> q \div 2 + (Bias - 1 + m \div 2) * Pow2[H], lo |-> 0]

LEMMA FloatStates ==
  ASSUME NEW s \in FloatState, NEW r \in Nat
  PROVE  FloatTurn(s, r) \in FloatState
  <1>1. s = [ix |-> s.ix, s |-> s.s, q |-> s.q] /\ s.ix \in Int /\ s.s \in Int /\ s.q \in Int
    BY DEF FloatState
  <1>2. [ix |-> 2 * (s.ix - s.s - r), s |-> s.s + 2 * r, q |-> s.q + r] \in FloatState
    BY <1>1 DEF FloatState
  <1>3. [s EXCEPT !.ix = 2 * @] = [ix |-> 2 * s.ix, s |-> s.s, q |-> s.q]
    BY <1>1
  <1>4. [ix |-> 2 * s.ix, s |-> s.s, q |-> s.q] \in FloatState
    BY <1>1 DEF FloatState
  <1>5. QED
    BY <1>2, <1>3, <1>4 DEF FloatTurn

LEMMA FloatTurnLeft ==
  ASSUME NEW s \in FloatState, NEW r \in Nat \ {0}, NEW N, RootLeft(s.ix, s.s, s.q, 2 * r, N)
  PROVE  LET t == FloatTurn(s, r)
         IN  t \in FloatState /\ RootLeft(t.ix, t.s, t.q, r, N)
  <1> DEFINE t == FloatTurn(s, r)
             y == s.ix
             v == s.s
             q == s.q
  <1>1. t \in FloatState
    BY FloatStates
  <1>2. y \in Int /\ v \in Int /\ q \in Int
    BY DEF FloatState
  <1>3. RootLeft(y, v, q, 2 * r, N)
    OBVIOUS
  <1>4. CASE v + r <= y
    <2>1. t = [ix |-> 2 * (y - v - r), s |-> v + 2 * r, q |-> q + r]
      BY <1>4 DEF FloatTurn
    <2> HIDE DEF y, v, q, t
    <2>2. t.ix = 2 * (y - v - r) /\ t.s = v + 2 * r /\ t.q = q + r
      BY <2>1
    <2>3. 2 * (y - v - r) = 2 * (y - (v + r))
      BY <1>2
    <2>4. RootLeft(2 * (y - (v + r)), v + 2 * r, q + r, r, N)
      BY <1>3, <1>4, RootTurn
    <2>5. QED
      BY <1>1, <2>2, <2>3, <2>4, Zenon DEF t
  <1>5. CASE ~(v + r <= y)
    <2>1. t.ix = 2 * y /\ t.s = v /\ t.q = q
      <3>1. s = [ix |-> y, s |-> v, q |-> q]
        BY DEF FloatState
      <3>2. t = [s EXCEPT !.ix = 2 * @]
        BY <1>5 DEF FloatTurn
      <3>3. QED
        BY <3>1, <3>2
    <2> HIDE DEF y, v, q, t
    <2>2. RootLeft(2 * y, v, q, r, N)
      BY <1>3, <1>5, RootTurn
    <2>3. QED
      BY <1>1, <2>1, <2>2, Zenon DEF t
  <1>6. QED
    BY <1>4, <1>5

LEMMA FloatTurns ==
  ASSUME Format, NEW f, NEW start \in FloatState, NEW N, IsFloatRoot(f, start),
         RootLeft(start.ix, start.s, start.q, Pow2[H + 2], N)
  PROVE  LET t == f[H + 2] IN t \in FloatState /\ RootLeft(t.ix, t.s, t.q, 1, N)
  <1> DEFINE At(k) == f[k] \in FloatState /\ RootLeft(f[k].ix, f[k].s, f[k].q, Pow2[H + 2 - k], N)
             S == {k \in Nat : k <= H + 2 => At(k)}
  <1>1. H \in Nat /\ H + 2 \in Nat
    BY WordParts
  <1>2. f[0] = start /\ \A k \in 1 .. H + 2 : f[k] = FloatTurn(f[k - 1], Pow2[H + 2 - k])
    BY DEF IsFloatRoot
  <1>3. 0 \in S
    <2>1. H + 2 - 0 = H + 2
      BY <1>1
    <2>2. At(0)
      BY <1>2, <2>1, Zenon
    <2>3. QED
      BY <2>2
  <1>4. ASSUME NEW k \in Nat, k \in S
        PROVE  k + 1 \in S
    <2>1. SUFFICES ASSUME k + 1 <= H + 2 PROVE At(k + 1)
      OBVIOUS
    <2> DEFINE r == Pow2[H + 2 - (k + 1)]
               g == f[k]
    <2>2. k <= H + 2 /\ k + 1 \in 1 .. H + 2 /\ (k + 1) - 1 = k /\ H + 2 - (k + 1) \in Nat
          /\ (H + 2 - (k + 1)) + 1 = H + 2 - k
      BY <1>1, <2>1
    <2>3. r \in Nat \ {0} /\ Pow2[H + 2 - k] = 2 * r
      <3>1. Pow2[(H + 2 - (k + 1)) + 1] = 2 * Pow2[H + 2 - (k + 1)]
        BY <2>2, Pow2Next
      <3>2. QED
        BY <2>2, <3>1, Pow2Type
    <2>4. At(k)
      BY <1>4, <2>2
    <2>5. f[k + 1] = FloatTurn(g, r)
      BY <1>2, <2>2
    <2>6. g \in FloatState /\ RootLeft(g.ix, g.s, g.q, 2 * r, N)
      BY <2>3, <2>4
    <2> DEFINE t == FloatTurn(g, r)
    <2> HIDE DEF g, r
    <2>7. t \in FloatState /\ RootLeft(t.ix, t.s, t.q, r, N)
      BY <2>3, <2>6, FloatTurnLeft
    <2> HIDE DEF t
    <2>8. QED
      BY <2>5, <2>7, Zenon DEF t, r
  <1> HIDE DEF S
  <1>5. \A k \in Nat : k \in S
    BY <1>3, <1>4, Induction
  <1>6. At(H + 2)
    <2>1. H + 2 \in S /\ H + 2 <= H + 2
      BY <1>1, <1>5
    <2>2. QED
      BY <2>1 DEF S
  <1>7. Pow2[H + 2 - (H + 2)] = 1
    <2>1. H + 2 - (H + 2) = 0
      BY <1>1
    <2>2. QED
      BY <2>1, Pow2Zero
  <1>8. QED
    BY <1>6, <1>7, Zenon

LEMMA FloatRootsExist ==
  ASSUME Format, NEW x, Finite(x), x.hi # 0, ~x.neg,
         FloatStart(FloatScale(x), FloatWord(x)) \in FloatState
  PROVE  \E f : /\ IsFloatRoot(f, FloatStart(FloatScale(x), FloatWord(x)))
                /\ sqrtf(x) = RootedFloat(f[H + 2], FloatScale(x))
  <1> DEFINE m == FloatScale(x)
             start == FloatStart(m, FloatWord(x))
             turn[k \in 0 .. H + 2] == IF k = 0 THEN start ELSE FloatTurn(turn[k - 1], Pow2[H + 2 - k])
             step == [p \in Nat \X FloatState |-> IF p[1] <= H + 2 THEN FloatTurn(p[2], Pow2[H + 2 - p[1]]) ELSE p[2]]
  <1>1. H \in Nat /\ H + 2 \in Nat
    BY WordParts
  <1>2. IsStep(step, FloatState)
    <2>1. \A k \in Nat, s \in FloatState : k <= H + 2 => FloatTurn(s, Pow2[H + 2 - k]) \in FloatState
      <3>1. SUFFICES ASSUME NEW k \in Nat, NEW s \in FloatState, k <= H + 2
                     PROVE  FloatTurn(s, Pow2[H + 2 - k]) \in FloatState
        OBVIOUS
      <3>2. H + 2 - k \in Nat
        BY <1>1, <3>1
      <3>3. Pow2[H + 2 - k] \in Nat
        BY <3>2, Pow2Type
      <3>4. QED
        BY <3>3, FloatStates
    <2>2. QED
      BY <2>1 DEF IsStep
  <1>3. start \in FloatState
    OBVIOUS
  <1>4. sqrtf(x) = RootedFloat(turn[H + 2], m)
    BY Zenon DEF sqrtf, RootedFloat, FloatScale, FloatWord, FloatStart, FloatShift, FloatExponent, FloatMantissa, FloatTurn
  <1> HIDE DEF step, start, m
  <1>5. PICK f : IsRecursive(f, H + 2, start, step, FloatState)
    BY <1>1, <1>2, <1>3, Recursion, Zenon
  <1>6. f = [k \in 0 .. H + 2 |-> IF k = 0 THEN start ELSE FloatTurn(f[k - 1], Pow2[H + 2 - k])]
    <2>1. ASSUME NEW k \in 0 .. H + 2
          PROVE  f[k] = IF k = 0 THEN start ELSE FloatTurn(f[k - 1], Pow2[H + 2 - k])
      <3>1. CASE k = 0
        BY <1>5, <3>1 DEF IsRecursive
      <3>2. CASE k # 0
        <4>1. k \in 1 .. H + 2 /\ k - 1 \in 0 .. H + 2 /\ k \in Nat /\ k <= H + 2
          BY <1>1, <3>2
        <4>2. f[k] = step[<<k, f[k - 1]>>] /\ f[k - 1] \in FloatState
          BY <1>5, <4>1 DEF IsRecursive
        <4>3. step[<<k, f[k - 1]>>] = FloatTurn(f[k - 1], Pow2[H + 2 - k])
          BY <4>1, <4>2 DEF step
        <4>4. QED
          BY <3>2, <4>2, <4>3, Zenon
      <3>3. QED
        BY <3>1, <3>2
    <2>2. f = [k \in 0 .. H + 2 |-> f[k]]
      BY <1>5 DEF IsRecursive
    <2>3. QED
      BY <2>1, <2>2, Zenon
  <1>7. turn = [k \in 0 .. H + 2 |-> IF k = 0 THEN start ELSE FloatTurn(turn[k - 1], Pow2[H + 2 - k])]
    BY <1>6, Zenon
  <1> HIDE DEF turn
  <1>8. IsFloatRoot(turn, start)
    <2>1. turn[0] = start
      BY <1>1, <1>7
    <2>2. ASSUME NEW k \in 1 .. H + 2
          PROVE  turn[k] = FloatTurn(turn[k - 1], Pow2[H + 2 - k])
      <3>1. k \in 0 .. H + 2 /\ k # 0
        BY <1>1
      <3>2. QED
        BY <1>7, <3>1
    <2>3. QED
      BY <2>1, <2>2, Zenon DEF IsFloatRoot
  <1>9. QED
    BY <1>4, <1>8, Zenon DEF start, m

(* What a float is unpacked into.                                          *)
LEMMA FloatUnpacked ==
  ASSUME Format, NEW x \in Float, Finite(x), x.hi # 0
  PROVE  LET i == FloatShift(x)
             e == FloatExponent(x, i)
             w == FloatMantissa(x, i)
         IN  /\ w \in Pow2[H] .. 2 * Pow2[H] - 1 /\ e \in Int
             /\ \E m : NormalForm(x, e, m) /\ Pow2[P] + m = w * Pow2[L]
  <1> DEFINE i == FloatShift(x)
             e == FloatExponent(x, i)
             w == FloatMantissa(x, i)
             T == Pow2[H]
             F == Pow2[L]
             S == Pow2[P]
  <1>1. /\ T \in Nat \ {0} /\ F \in Nat \ {0} /\ S \in Nat \ {0} /\ S = T * F /\ P \in Nat /\ Bias \in Nat /\ H \in Nat
        /\ Pow2[H + 1] = 2 * T /\ P >= H
    <2>1. L \in Nat /\ P = H + L
      BY WordParts, Sizes
    <2>2. QED
      BY <2>1, Sizes, WordParts
  <1>2. x \in Double /\ x.lo = 0 /\ x.hi \in Nat
    <2>1. x \in Double /\ x.lo = 0
      BY DEF Float
    <2>2. x \in Words
      BY <2>1, Fields
    <2>3. QED
      BY <2>1, <2>2 DEF Words
  <1>3. CASE ~(x.hi < T)
    <2>1. i = 0
      <3>1. x.hi >= T
        BY <1>1, <1>2, <1>3
      <3>2. QED
        BY <3>1 DEF FloatShift
    <2>2. e = x.hi \div T /\ w = T + (x.hi % T)
      BY <2>1 DEF FloatExponent, FloatMantissa
    <2>3. PICK f, m : NormalForm(x, f, m) /\ UnpackedTo(Unpacked(x, TRUE), f, m)
      BY <1>2, <1>3, NormalUnpacked
    <2> DEFINE n == Unpacked(x, TRUE)
    <2>4. n.m = x.hi \div T /\ n.ix0 = x.hi /\ n.ix1 = x.lo
      BY <1>3 DEF Unpacked
    <2>5. n.m = f /\ (T + (n.ix0 % T)) * F + n.ix1 = S + m
      BY <2>3 DEF UnpackedTo
    <2>6. x.hi % T \in 0 .. T - 1
      <3>1. x.hi \in Int
        BY <1>2
      <3>2. Euclid(x.hi, T, x.hi \div T, x.hi % T)
        BY <1>1, <3>1, EuclidParts, Zenon
      <3>3. QED
        BY <3>2 DEF Euclid
    <2> HIDE DEF n
    <2>7. f = e /\ w * F + 0 = S + m
      BY <1>2, <2>2, <2>4, <2>5, Zenon
    <2>8. w \in T .. 2 * T - 1 /\ w \in Nat
      <3> DEFINE r == x.hi % T
      <3>1. r \in 0 .. T - 1 /\ w = T + r
        BY <2>2, <2>6
      <3> HIDE DEF r, w
      <3>2. QED
        BY <1>1, <3>1
    <2>9. w * F \in Nat
      <3> HIDE DEF w, F
      <3>1. QED
        BY <1>1, <2>8
    <2>10. S + m = w * F
      <3> HIDE DEF w, F, S
      <3>1. QED
        BY <2>7, <2>9
    <2>11. NormalForm(x, e, m)
      BY <2>3, <2>7, Zenon
    <2>12. e \in Int
      BY <1>1, <2>11 DEF NormalForm
    <2> HIDE DEF w, e
    <2>13. QED
      BY <2>8, <2>10, <2>11, <2>12 DEF w, e, i
  <1>4. CASE x.hi < T
    <2> DEFINE C(k) == Pow2[H] <= x.hi * Pow2[k] /\ x.hi * Pow2[k] < Pow2[H + 1]
    <2>1. \E k \in 1 .. H : C(k)
      <3>1. x.hi \in 1 .. Pow2[H] - 1
        BY <1>1, <1>2, <1>4
      <3>2. Shifts(x.hi, H) # {}
        BY <1>1, <3>1, ShiftExists
      <3>3. QED
        BY <3>2 DEF Shifts
    <2>2. i \in 1 .. H /\ C(i)
      <3>1. i = CHOOSE k \in 1 .. H : C(k)
        <4>1. ~(x.hi >= Pow2[H])
          BY <1>1, <1>2, <1>4
        <4>2. QED
          BY <4>1, Zenon DEF FloatShift
      <3> HIDE DEF i
      <3>2. QED
        BY <2>1, <3>1, Zenon
    <2> HIDE DEF i
    <2>3. i \in Nat /\ i # 0 /\ i >= 1 /\ i <= H /\ Pow2[i] \in Nat \ {0}
      BY <1>1, <2>2, Pow2Type
    <2>4. e = 1 - i /\ w = x.hi * Pow2[i]
      BY <2>3 DEF FloatExponent, FloatMantissa
    <2>5. w \in T .. 2 * T - 1 /\ w \in Nat
      <3>1. w \in Nat
        BY <1>2, <2>3, <2>4
      <3>2. T <= w /\ w < 2 * T
        BY <1>1, <2>2, <2>4
      <3> HIDE DEF w
      <3>3. QED
        BY <1>1, <3>1, <3>2
    <2>6. Units(x) = x.hi * F
      <3>1. x.hi % T = x.hi
        <4>1. x.hi \in 0 .. T - 1
          BY <1>1, <1>2, <1>4
        <4>2. QED
          BY <1>1, <4>1, SmallMod
      <3>2. Mantissa(x) = x.hi * F + 0
        BY <1>2, <3>1 DEF Mantissa
      <3>3. x.hi * F \in Nat
        BY <1>1, <1>2
      <3>4. Units(x) = Mantissa(x)
        BY <1>4 DEF Units
      <3>5. QED
        BY <3>2, <3>3, <3>4
    <2>7. x.hi * F \in Nat \ {0}
      <3>1. x.hi * F >= 1 * F /\ x.hi * F \in Nat
        BY <1>1, <1>2
      <3>2. QED
        BY <1>1, <3>1
    <2>8. (x.hi * F) * Pow2[i] = w * F
      <3> DEFINE p == Pow2[i]
      <3>1. p \in Nat
        BY <2>3
      <3> HIDE DEF p, F
      <3>2. (x.hi * F) * p = (x.hi * p) * F
        BY <1>1, <1>2, <3>1
      <3>3. QED
        BY <2>4, <3>2 DEF p
    <2> DEFINE m == w * F - S
    <2>9. S + m = w * F /\ m \in 0 .. S - 1
      <3> HIDE DEF w, F, S
      <3>1. T * F <= w * F /\ (w + 1) * F <= (2 * T) * F
        BY <1>1, <2>5
      <3>2. (w + 1) * F = w * F + F /\ (2 * T) * F = 2 * (T * F) /\ w * F \in Int
        BY <1>1, <2>5
      <3>3. QED
        BY <1>1, <3>1, <3>2
    <2>10. e \in 1 - P .. 2 * Bias /\ ~(e >= 1) /\ 1 - e = i /\ e \in Int
      BY <1>1, <2>3, <2>4
    <2> HIDE DEF m, w, e
    <2>11. NormalForm(x, e, m)
      <3>1. Units(x) \in Nat \ {0}
        BY <2>6, <2>7
      <3>2. Units(x) * Pow2[1 - e] = Pow2[P] + m
        BY <2>6, <2>8, <2>9, <2>10
      <3>3. QED
        BY <2>9, <2>10, <3>1, <3>2 DEF NormalForm
    <2>12. QED
      BY <2>5, <2>9, <2>10, <2>11 DEF w, e, i
  <1>5. QED
    BY <1>3, <1>4

LEMMA FloatStarts ==
  ASSUME NEW m \in Int, NEW w \in Nat
  PROVE  LET s == FloatStart(m, w)
         IN  /\ s \in FloatState
             /\ s.ix = 2 * (w * (IF m % 2 = 1 THEN 2 ELSE 1)) /\ s.s = 0 /\ s.q = 0
  <1>1. CASE m % 2 = 1
    <2>1. FloatStart(m, w) = [ix |-> 2 * (2 * w), s |-> 0, q |-> 0]
      BY <1>1 DEF FloatStart
    <2>2. 2 * (2 * w) \in Int /\ 2 * (2 * w) = 2 * (w * 2)
      OBVIOUS
    <2>3. QED
      BY <1>1, <2>1, <2>2 DEF FloatState
  <1>2. CASE m % 2 # 1
    <2>1. FloatStart(m, w) = [ix |-> 2 * w, s |-> 0, q |-> 0]
      BY <1>2 DEF FloatStart
    <2>2. 2 * w \in Int /\ 2 * w = 2 * (w * 1)
      OBVIOUS
    <2>3. QED
      BY <1>2, <2>1, <2>2 DEF FloatState
  <1>3. QED
    BY <1>1, <1>2

LEMMA FloatEnds ==
  ASSUME Format, P < Bias, NEW s \in FloatState, NEW N, RootLeft(s.ix, s.s, s.q, 1, N),
         RootRange(N, Pow2[H]), NEW e \in 1 - P .. 2 * Bias
  PROVE  \E G \in Nat : /\ RootPlace(RootedFloat(s, e - Bias), RootExponent(e), G, Pow2[H], Pow2[L])
                        /\ NearRoot(G, N)
  <1> DEFINE T == Pow2[H]
             F == Pow2[L]
             q == IF s.ix = 0 THEN s.q ELSE s.q + (s.q % 2)
             k == (e - Bias) \div 2
             f == RootExponent(e)
             r == RootedFloat(s, e - Bias)
  <1>1. T \in Nat \ {0} /\ F \in Nat \ {0} /\ Pow2[P] = T * F /\ Bias \in Nat
    BY Sizes
  <1>2. \E G \in T .. 2 * T - 1 : q = 2 * G /\ NearRoot(G, N)
    <2>1. RootRange(N, T)
      OBVIOUS
    <2> HIDE DEF T
    <2>2. QED
      BY <1>1, <2>1, NearestRoot
  <1> HIDE DEF q
  <1>3. PICK G \in T .. 2 * T - 1 : q = 2 * G /\ NearRoot(G, N)
    BY <1>2
  <1>4. G \in Nat /\ q \div 2 = G
    <2>1. G \in Nat
      BY <1>1
    <2>2. Euclid(q, 2, G, 0)
      BY <1>3, <2>1 DEF Euclid
    <2>3. QED
      BY <2>1, <2>2, EuclidDivMod
  <1>5. f \in Nat \ {0} /\ f < 2 * Bias /\ f - 1 \in Nat /\ Bias - 1 + k = f - 1
    BY RootExponents
  <1>6. r = [neg |-> FALSE, hi |-> G + (f - 1) * T, lo |-> 0]
    <2>1. r = [neg |-> FALSE, hi |-> q \div 2 + (Bias - 1 + k) * T, lo |-> 0]
      BY Zenon DEF RootedFloat, q
    <2> HIDE DEF r, f, k, T
    <2>2. QED
      BY <1>4, <1>5, <2>1, Zenon
  <1> HIDE DEF r, f, k, T, F
  <1>7. r.neg = FALSE /\ r.hi = G + (f - 1) * T /\ r.lo = 0
    BY <1>6
  <1>8. (f - 1) * T \in Nat /\ G + (f - 1) * T \in Nat /\ 0 \in 0 .. F - 1
    BY <1>1, <1>4, <1>5
  <1>9. r \in Words
    BY <1>6, <1>8 DEF Words, F
  <1>10. Place(r) = (f - 1) * (T * F) + G * F
    <2>1. Place(r) = (G + (f - 1) * T) * F + 0
      BY <1>7 DEF Place, F
    <2>2. (G + (f - 1) * T) * F = (f - 1) * (T * F) + G * F /\ (G + (f - 1) * T) * F \in Int
      BY <1>1, <1>4, <1>5
    <2>3. QED
      BY <2>1, <2>2
  <1>11. RootPlace(r, f, G, T, F)
    BY <1>1, <1>3, <1>5, <1>7, <1>9, <1>10, Zenon DEF RootPlace
  <1>12. QED
    BY <1>3, <1>4, <1>11 DEF r, f, T, F

LEMMA SqrtfRoot ==
  ASSUME Format, NormalRoots, NEW x \in Float, Finite(x), x.hi # 0, ~x.neg
  PROVE  IsRoot(sqrtf(x), x, Pow2[L])
  <1> DEFINE T == Pow2[H]
             F == Pow2[L]
             e == FloatExponent(x, FloatShift(x))
             w == FloatWord(x)
             start == FloatStart(FloatScale(x), w)
             N == (w * Left(e)) * (4 * T)
  <1>1. P < Bias /\ T \in Nat \ {0} /\ F \in Nat \ {0} /\ Pow2[P] = T * F /\ P \in Nat /\ Bias \in Nat
    BY Sizes DEF NormalRoots
  <1>2. w \in T .. 2 * T - 1 /\ e \in Int /\ \E m : NormalForm(x, e, m) /\ Pow2[P] + m = w * F
    BY FloatUnpacked, Zenon DEF FloatWord
  <1>3. PICK m : NormalForm(x, e, m) /\ Pow2[P] + m = w * F
    BY <1>2
  <1>4. FloatScale(x) = e - Bias
    BY DEF FloatScale
  <1> HIDE DEF e, w, N
  <1>5. w \in Nat /\ e - Bias \in Int
    BY <1>1, <1>2
  <1>6. e \in 1 - P .. 2 * Bias
    BY <1>3 DEF NormalForm
  <1>7. Left(e) \in {1, 2} /\ Left(e) = IF (e - Bias) % 2 = 1 THEN 2 ELSE 1
    BY <1>1, <1>6, RootExponents
  <1>8. start \in FloatState /\ start.ix = 2 * (w * Left(e)) /\ start.s = 0 /\ start.q = 0
    <2> DEFINE st == FloatStart(e - Bias, w)
    <2>1. st \in FloatState /\ st.ix = 2 * (w * (IF (e - Bias) % 2 = 1 THEN 2 ELSE 1)) /\ st.s = 0 /\ st.q = 0
      BY <1>5, FloatStarts
    <2>2. start = st
      BY <1>4, Zenon
    <2> HIDE DEF st, start
    <2>3. QED
      BY <1>7, <2>1, <2>2, Zenon
  <1> HIDE DEF T, F
  <1>9. RootRange(N, T) /\ RootLeft(2 * (w * Left(e)), 0, 0, 4 * T, N)
    BY <1>1, <1>2, <1>7, RootBegins DEF N
  <1>10. Pow2[H + 2] = 4 * T
    <2>1. H \in Nat /\ H + 1 \in Nat /\ (H + 1) + 1 = H + 2
      BY WordParts
    <2>2. Pow2[H + 1] = 2 * Pow2[H] /\ Pow2[(H + 1) + 1] = 2 * Pow2[H + 1]
      BY <2>1, Pow2Next
    <2>3. QED
      BY <1>1, <2>1, <2>2 DEF T
  <1>11. PICK f : IsFloatRoot(f, start) /\ sqrtf(x) = RootedFloat(f[H + 2], FloatScale(x))
    BY <1>8, FloatRootsExist DEF w
  <1> HIDE DEF start
  <1> DEFINE s == f[H + 2]
  <1>12. s \in FloatState /\ RootLeft(s.ix, s.s, s.q, 1, N)
    <2>1. RootLeft(start.ix, start.s, start.q, Pow2[H + 2], N)
      BY <1>8, <1>9, <1>10, Zenon
    <2>2. QED
      BY <1>8, <1>11, <2>1, FloatTurns
  <1> HIDE DEF s
  <1>13. PICK G \in Nat : RootPlace(RootedFloat(s, e - Bias), RootExponent(e), G, T, F) /\ NearRoot(G, N)
    BY <1>1, <1>6, <1>9, <1>12, FloatEnds DEF T, F
  <1>14. 4 * Units(x) * UnitsOfOne = N * ((F * Pow2[RootExponent(e) - 1]) * (F * Pow2[RootExponent(e) - 1]))
    BY <1>1, <1>3, <1>5, RootScale DEF N
  <1>15. N \in Int /\ 4 * (T * T) <= N
    BY <1>9 DEF RootRange
  <1>16. IsRoot(RootedFloat(s, e - Bias), x, F)
    BY <1>13, <1>14, <1>15, RootIs
  <1>17. QED
    BY <1>4, <1>11, <1>16, Zenon DEF s, F

LEMMA RootsCorrect ==
  ASSUME Format, NormalRoots
  PROVE  \A x \in Double : SqrtExact(x)
  <1>1. SUFFICES ASSUME NEW x \in Double, Finite(x), ~x.neg, ~IsZero(x)
                 PROVE  /\ \A beyond \in BOOLEAN : IsRoot(sqrt(x, beyond), x, 1)
                        /\ x \in Float => IsRoot(sqrtf(x), x, Pow2[L])
    BY DEF SqrtExact
  <1>2. \A beyond \in BOOLEAN : IsRoot(sqrt(x, beyond), x, 1)
    BY <1>1, SqrtRoot
  <1>3. ASSUME x \in Float PROVE IsRoot(sqrtf(x), x, Pow2[L])
    <2>1. x.hi # 0
      BY <1>1, <1>3 DEF IsZero, Float
    <2>2. QED
      BY <1>1, <1>3, <2>1, SqrtfRoot
  <1>4. QED
    BY <1>2, <1>3

(* sqrt gives the nearest double to the root of every number that is not    *)
(* negative, in every format: through both loops and the carries between    *)
(* their words, for every exponent, and also for a subnormal number whose   *)
(* last shift is by the width of a word; and so does sqrtf for a float      *)
(* (math.c:1754-1850).                                                     *)
THEOREM RootCorrect == MathSpec => []RootExact
  <1>1. MathInit => RootExact
    BY DEF MathInit, NotAsked, RootExact
  <1>2. RootExact /\ [MathNext]_asked => RootExact'
    <2> SUFFICES ASSUME RootExact, [MathNext]_asked PROVE RootExact'
      OBVIOUS
    <2>1. ASSUME NEW x, AskWhole(x)
          PROVE  RootExact'
      BY <2>1 DEF AskWhole, RootExact
    <2>2. ASSUME NEW x, NEW n, AskScaled(x, n)
          PROVE  RootExact'
      BY <2>2 DEF AskScaled, RootExact
    <2>3. ASSUME NEW x \in Double, AskRoot(x)
          PROVE  RootExact'
      BY <2>3, RootsCorrect, FormatAssumption DEF AskRoot, RootExact
    <2>4. ASSUME NEW x, NEW y, AskRemainder(x, y)
          PROVE  RootExact'
      BY <2>4 DEF AskRemainder, RootExact
    <2>5. CASE Answered
      BY <2>5 DEF Answered, NotAsked, RootExact
    <2>6. CASE UNCHANGED asked
      BY <2>6 DEF RootExact
    <2>7. QED
      BY <2>1, <2>2, <2>3, <2>4, <2>5, <2>6 DEF MathNext
  <1>3. QED
    BY <1>1, <1>2, PTL DEF MathSpec

(***************************************************************************)
(* strtol and strtoul.                                                     *)
(***************************************************************************)

(* C's division of a number that is not negative, and of a negative one.   *)
LEMMA CDivision ==
  ASSUME NEW x \in Nat, NEW y \in Nat \ {0}
  PROVE  /\ CDiv(x, y) = x \div y /\ CRem(x, y) = x % y
         /\ CDiv(0 - x, y) = 0 - (x \div y) /\ CRem(0 - x, y) = 0 - (x % y)
  <1>1. x = (x \div y) * y + (x % y) /\ x \div y \in Int /\ x % y \in 0 .. y - 1
    BY DivMod
  <1> DEFINE q == x \div y
             r == x % y
  <1>2. CDiv(x, y) = q
    BY DEF CDiv
  <1>3. CDiv(0 - x, y) = 0 - q
    <2>1. CASE x = 0
      <3>1. q = 0
        BY <2>1, SmallMod
      <3>2. QED
        BY <1>2, <2>1, <3>1
    <2>2. CASE x # 0
      <3>1. 0 - x < 0 /\ -(0 - x) = x
        BY <2>2
      <3>2. QED
        BY <3>1 DEF CDiv
    <2>3. QED
      BY <2>1, <2>2
  <1> HIDE DEF q, r
  <1>4. y * q = q * y /\ y * (0 - q) = 0 - q * y /\ q * y \in Int
    BY <1>1 DEF q
  <1>5. CRem(x, y) = r /\ CRem(0 - x, y) = 0 - r
    BY <1>1, <1>2, <1>3, <1>4 DEF CRem, q, r
  <1>6. QED
    BY <1>2, <1>3, <1>5 DEF q, r

(* The limits of an accumulator that holds magnitudes up to limit.         *)
IsLimits(lim, neg, limit, base) ==
  /\ lim.neg = neg
  /\ lim.most = IF neg THEN 0 - limit ELSE limit
  /\ lim.cutlim \in 0 .. base - 1
  /\ \E q \in Nat : /\ lim.cutoff = IF neg THEN 0 - q ELSE q
                    /\ limit = q * base + lim.cutlim

LEMMA LimitsFrom ==
  ASSUME NEW neg \in BOOLEAN, NEW base \in Nat \ {0}, NEW q \in Nat, NEW r \in 0 .. base - 1, NEW lim,
         lim.neg = neg, lim.most = (IF neg THEN 0 - (q * base + r) ELSE q * base + r),
         lim.cutoff = (IF neg THEN 0 - q ELSE q), lim.cutlim = r
  PROVE  IsLimits(lim, neg, q * base + r, base)
  <1>1. /\ lim.cutoff = (IF neg THEN 0 - q ELSE q)
        /\ q * base + r = q * base + lim.cutlim
    OBVIOUS
  <1>2. \E p \in Nat : /\ lim.cutoff = (IF neg THEN 0 - p ELSE p)
                      /\ q * base + r = p * base + lim.cutlim
    BY <1>1, Zenon
  <1>3. QED
    BY <1>2, Zenon DEF IsLimits

LEMMA LimitsAre ==
  ASSUME NEW base \in Nat \ {0}
  PROVE  /\ IsLimits(Limits(FALSE, base), FALSE, LONG_MAX, base)
         /\ IsLimits(Limits(TRUE, base), TRUE, LONG_MAX + 1, base)
         /\ IsLimits(LimitsUnsigned(base), FALSE, ULONG_MAX, base)
  <1>1. LONG_MAX \in Nat /\ LONG_MAX + 1 \in Nat /\ ULONG_MAX \in Nat
    BY DigitAssumption DEF ULONG_MAX
  <1>2. ASSUME NEW n \in Nat
        PROVE  n \div base \in Nat /\ n % base \in 0 .. base - 1 /\ n = (n \div base) * base + (n % base)
    <2>1. n = (n \div base) * base + (n % base) /\ n \div base \in Int /\ n % base \in 0 .. base - 1
      BY DivMod
    <2> DEFINE q == n \div base
    <2>2. q >= 0
      <3>1. SUFFICES ASSUME q <= -1 PROVE FALSE
        BY <2>1
      <3>2. q * base <= 0 - base
        BY <2>1, <3>1
      <3>3. QED
        BY <2>1, <3>2
    <2>3. QED
      BY <2>1, <2>2
  <1>3. IsLimits(Limits(FALSE, base), FALSE, LONG_MAX, base)
    <2> DEFINE q == LONG_MAX \div base
               r == LONG_MAX % base
    <2>1. q \in Nat /\ r \in 0 .. base - 1 /\ LONG_MAX = q * base + r
      BY <1>1, <1>2
    <2>2. CDiv(LONG_MAX, base) = q /\ CRem(LONG_MAX, base) = r
      BY <1>1, CDivision
    <2> HIDE DEF q, r
    <2>3. Limits(FALSE, base) = [neg |-> FALSE, most |-> LONG_MAX, cutoff |-> q + 0, cutlim |-> r]
      BY <2>2, Zenon DEF Limits
    <2>4. q + 0 = q
      BY <2>1
    <2>5. IsLimits(Limits(FALSE, base), FALSE, q * base + r, base)
      BY <2>1, <2>3, <2>4, LimitsFrom
    <2>6. QED
      BY <2>1, <2>5, Zenon
  <1>4. IsLimits(Limits(TRUE, base), TRUE, LONG_MAX + 1, base)
    <2> DEFINE q == (LONG_MAX + 1) \div base
               r == (LONG_MAX + 1) % base
    <2>1. q \in Nat /\ r \in 0 .. base - 1 /\ LONG_MAX + 1 = q * base + r
      BY <1>1, <1>2
    <2>2. LONG_MIN = 0 - (LONG_MAX + 1)
      BY <1>1 DEF LONG_MIN
    <2>3. CDiv(LONG_MIN, base) = 0 - q /\ CRem(LONG_MIN, base) = 0 - r
      BY <1>1, <2>2, CDivision
    <2> HIDE DEF q, r
    <2>4. ~(0 - r > 0) /\ (0 - q) + 0 = 0 - q /\ -(0 - r) = r
      BY <2>1
    <2>5. Limits(TRUE, base) = [neg |-> TRUE, most |-> LONG_MIN, cutoff |-> (0 - q) + 0, cutlim |-> -(0 - r)]
      BY <2>3, <2>4, Zenon DEF Limits
    <2>6. IsLimits(Limits(TRUE, base), TRUE, q * base + r, base)
      BY <2>1, <2>2, <2>4, <2>5, LimitsFrom
    <2>7. QED
      BY <2>1, <2>6, Zenon
  <1>5. IsLimits(LimitsUnsigned(base), FALSE, ULONG_MAX, base)
    <2> DEFINE q == ULONG_MAX \div base
               r == ULONG_MAX % base
    <2>1. q \in Nat /\ r \in 0 .. base - 1 /\ ULONG_MAX = q * base + r
      BY <1>1, <1>2
    <2>2. LimitsUnsigned(base) = [neg |-> FALSE, most |-> ULONG_MAX, cutoff |-> q, cutlim |-> r]
      BY DEF LimitsUnsigned
    <2> HIDE DEF q, r
    <2>3. IsLimits(LimitsUnsigned(base), FALSE, q * base + r, base)
      BY <2>1, <2>2, LimitsFrom
    <2>4. QED
      BY <2>1, <2>3, Zenon
  <1>6. QED
    BY <1>3, <1>4, <1>5

(* What the loop has of digits that are worth v: the value, or the end of  *)
(* the range once that is beyond it.                                       *)
Counted(v, r, neg, limit, some) ==
  IF v > limit THEN r = [any |-> -1, acc |-> IF neg THEN 0 - limit ELSE limit]
  ELSE r = [any |-> IF some THEN 1 ELSE 0, acc |-> IF neg THEN 0 - v ELSE v]

LEMMA TakenCounted ==
  ASSUME NEW neg \in BOOLEAN, NEW limit \in Nat, NEW base \in Nat \ {0}, NEW lim, IsLimits(lim, neg, limit, base),
         NEW v \in Nat, NEW r, NEW some \in BOOLEAN, Counted(v, r, neg, limit, some), NEW d \in 0 .. base - 1
  PROVE  Counted(v * base + d, Taken(lim, base, r, d), neg, limit, TRUE)
  <1>1. PICK q \in Nat : lim.cutoff = (IF neg THEN 0 - q ELSE q) /\ limit = q * base + lim.cutlim
    BY DEF IsLimits
  <1>2. /\ lim.neg = neg /\ lim.most = (IF neg THEN 0 - limit ELSE limit)
        /\ lim.cutlim \in 0 .. base - 1 /\ q * base \in Nat /\ v * base \in Nat
    BY DEF IsLimits
  <1>3. CASE v > limit
    <2>1. r.any = -1
      BY <1>3 DEF Counted
    <2>2. Taken(lim, base, r, d) = [any |-> -1, acc |-> lim.most]
      BY <2>1 DEF Taken
    <2>3. v * base >= v
      OBVIOUS
    <2>4. v * base + d > limit
      BY <1>2, <1>3, <2>3
    <2>5. QED
      BY <1>2, <2>2, <2>4 DEF Counted
  <1>4. CASE ~(v > limit)
    <2>1. r.any # -1 /\ r.acc = IF neg THEN 0 - v ELSE v
      BY <1>4 DEF Counted
    <2>2. Beyond(lim, r.acc, d) <=> v > q \/ (v = q /\ d > lim.cutlim)
      BY <1>1, <1>2, <2>1 DEF Beyond
    <2>3. v > q \/ (v = q /\ d > lim.cutlim) <=> v * base + d > limit
      <3>1. CASE v > q
        <4>1. v * base >= (q + 1) * base /\ (q + 1) * base = q * base + base
          BY <3>1
        <4>2. QED
          BY <1>1, <1>2, <3>1, <4>1
      <3>2. CASE v = q
        BY <1>1, <1>2, <3>2
      <3>3. CASE v < q
        <4>1. (v + 1) * base <= q * base /\ (v + 1) * base = v * base + base
          BY <3>3
        <4>2. QED
          BY <1>1, <1>2, <3>3, <4>1
      <3>4. QED
        BY <3>1, <3>2, <3>3
    <2>4. CASE v * base + d > limit
      <3>1. Taken(lim, base, r, d) = [any |-> -1, acc |-> lim.most]
        BY <2>2, <2>3, <2>4 DEF Taken
      <3>2. QED
        BY <1>2, <2>4, <3>1 DEF Counted
    <2>5. CASE ~(v * base + d > limit)
      <3>1. Taken(lim, base, r, d) = [any |-> 1, acc |-> IF neg THEN r.acc * base - d ELSE r.acc * base + d]
        BY <1>2, <2>1, <2>2, <2>3, <2>5 DEF Taken
      <3>2. (0 - v) * base - d = 0 - (v * base + d)
        BY <1>2
      <3>3. Taken(lim, base, r, d) = [any |-> 1, acc |-> IF neg THEN 0 - (v * base + d) ELSE v * base + d]
        BY <2>1, <3>1, <3>2
      <3>4. QED
        BY <2>5, <3>3 DEF Counted
    <2>6. QED
      BY <2>4, <2>5
  <1>5. QED
    BY <1>3, <1>4

(* What the digits before each are worth.                                  *)
Worths(f, digits, base) ==
  /\ f \in [0 .. Len(digits) -> Nat]
  /\ f[0] = 0
  /\ \A i \in 1 .. Len(digits) : f[i] = f[i - 1] * base + Digit[digits[i]]

LEMMA WorthsExist ==
  ASSUME NEW digits \in Seq(DOMAIN Digit), NEW base \in Nat
  PROVE  \E f : Worths(f, digits, base) /\ Worth(digits, base) = f[Len(digits)]
  <1> DEFINE n == Len(digits)
             Digits == [i \in Nat |-> IF i \in 1 .. n THEN Digit[digits[i]] ELSE 0]
             v[i \in 0 .. n] == IF i = 0 THEN 0 ELSE v[i - 1] * base + Digit[digits[i]]
             step == [p \in Nat \X Nat |-> p[2] * base + Digits[p[1]]]
  <1>1. n \in Nat /\ \A i \in 1 .. n : Digit[digits[i]] \in Nat
    BY DigitAssumption
  <1>2. IsStep(step, Nat)
    <2>1. \A i \in Nat : Digits[i] \in Nat
      BY <1>1
    <2> HIDE DEF Digits
    <2>2. \A p \in Nat \X Nat : p[2] * base + Digits[p[1]] \in Nat
      <3>1. SUFFICES ASSUME NEW p \in Nat \X Nat PROVE p[2] * base + Digits[p[1]] \in Nat
        OBVIOUS
      <3>2. p[1] \in Nat /\ p[2] \in Nat
        OBVIOUS
      <3>3. Digits[p[1]] \in Nat /\ p[2] * base \in Nat
        BY <2>1, <3>2
      <3>4. QED
        BY <3>3
    <2>3. QED
      BY <2>2 DEF IsStep
  <1> HIDE DEF step
  <1>3. PICK f : IsRecursive(f, n, 0, step, Nat)
    BY <1>1, <1>2, Recursion
  <1>4. \A i \in 1 .. n : f[i] = f[i - 1] * base + Digit[digits[i]]
    <2>1. SUFFICES ASSUME NEW i \in 1 .. n PROVE f[i] = f[i - 1] * base + Digit[digits[i]]
      OBVIOUS
    <2>2. i \in Nat /\ i - 1 \in 0 .. n /\ Digits[i] = Digit[digits[i]]
      BY <1>1
    <2> HIDE DEF Digits
    <2>3. f[i] = step[<<i, f[i - 1]>>] /\ f[i - 1] \in Nat
      BY <1>3, <2>2 DEF IsRecursive
    <2>4. QED
      BY <2>2, <2>3 DEF step
  <1> HIDE DEF Digits
  <1>5. f \in [0 .. n -> Nat] /\ f[0] = 0
    BY <1>3 DEF IsRecursive
  <1>6. f = [i \in 0 .. n |-> IF i = 0 THEN 0 ELSE f[i - 1] * base + Digit[digits[i]]]
    <2>1. ASSUME NEW i \in 0 .. n
          PROVE  f[i] = IF i = 0 THEN 0 ELSE f[i - 1] * base + Digit[digits[i]]
      <3>1. i = 0 \/ i \in 1 .. n
        BY <1>1
      <3>2. QED
        BY <1>4, <1>5, <3>1
    <2>2. f = [i \in 0 .. n |-> f[i]]
      BY <1>5
    <2>3. QED
      BY <2>1, <2>2
  <1>7. v = [i \in 0 .. n |-> IF i = 0 THEN 0 ELSE v[i - 1] * base + Digit[digits[i]]]
    BY <1>6, Zenon
  <1>8. Worth(digits, base) = v[n]
    BY Zenon DEF Worth
  <1> HIDE DEF v
  <1>9. Worths(v, digits, base)
    <2> DEFINE G(g, i) == IF i = 0 THEN 0 ELSE g[i - 1] * base + Digit[digits[i]]
    <2>1. \A i \in 0 .. n : v[i] = G(v, i)
      BY <1>7, Zenon
    <2> DEFINE T == {i \in Nat : i <= n => v[i] = f[i]}
    <2>2. 0 \in T
      BY <1>1, <1>5, <2>1
    <2>3. ASSUME NEW i \in Nat, i \in T
          PROVE  i + 1 \in T
      <3>1. SUFFICES ASSUME i + 1 <= n PROVE v[i + 1] = f[i + 1]
        OBVIOUS
      <3>2. i \in 0 .. n /\ i + 1 \in 0 .. n /\ i + 1 \in 1 .. n /\ i + 1 # 0 /\ (i + 1) - 1 = i
        BY <1>1, <3>1
      <3>3. v[i] = f[i]
        BY <2>3, <3>2
      <3>4. v[i + 1] = v[i] * base + Digit[digits[i + 1]]
        BY <2>1, <3>2, Zenon
      <3>5. f[i + 1] = f[i] * base + Digit[digits[i + 1]]
        BY <1>4, <3>2, Zenon
      <3>6. QED
        BY <3>3, <3>4, <3>5
    <2> HIDE DEF T, G
    <2>4. \A i \in Nat : i \in T
      BY <2>2, <2>3, Induction
    <2>5. \A i \in 0 .. n : v[i] = f[i]
      BY <2>4 DEF T
    <2>6. v = f
      <3>1. v = [i \in 0 .. n |-> v[i]]
        BY <1>7, Zenon
      <3>2. f = [i \in 0 .. n |-> f[i]]
        BY <1>5
      <3>3. QED
        BY <2>5, <3>1, <3>2
    <2>7. QED
      BY <1>4, <1>5, <2>6 DEF Worths
  <1>10. QED
    BY <1>8, <1>9
LEMMA TakenType ==
  ASSUME NEW neg, NEW limit \in Nat, NEW base \in Nat, NEW lim, IsLimits(lim, neg, limit, base),
         NEW r \in [any : Int, acc : Int], NEW d \in Nat
  PROVE  Taken(lim, base, r, d) \in [any : Int, acc : Int]
  <1>1. lim.most \in Int
    BY DEF IsLimits
  <1>2. r.acc * base - d \in Int /\ r.acc * base + d \in Int
    OBVIOUS
  <1>3. Taken(lim, base, r, d) \in
          {[any |-> -1, acc |-> lim.most], [any |-> 1, acc |-> r.acc * base - d], [any |-> 1, acc |-> r.acc * base + d]}
    BY Zenon DEF Taken
  <1>4. QED
    BY <1>1, <1>2, <1>3

(* The digits are taken one by one, and give what they are worth.          *)
(* nptr holds digits where o says that they start, and nothing after them. *)
Reads(nptr, o, digits) ==
  /\ o.start \in Nat /\ o.base \in Nat \ {0}
  /\ digits \in Seq(DOMAIN Digit)
  /\ \A i \in 1 .. Len(digits) : Digit[digits[i]] < o.base
  /\ \A i \in 1 .. Len(digits) : nptr[o.start + i - 1] = digits[i]
  /\ DigitsEnd(nptr, o.start, o.base) = o.start + Len(digits)

Counts(nptr, o, lim, neg, limit, digits) ==
  \E t : /\ Converted(nptr, o, lim) = [s |-> o.start + Len(digits), any |-> t.any, acc |-> t.acc]
        /\ Counted(Worth(digits, o.base), t, neg, limit, Len(digits) # 0)
        /\ Worth(digits, o.base) \in Nat

LEMMA ConversionCounts ==
  ASSUME NEW nptr, NEW o, NEW digits, Reads(nptr, o, digits),
         NEW neg \in BOOLEAN, NEW limit \in Nat, NEW lim, IsLimits(lim, neg, limit, o.base)
  PROVE  Counts(nptr, o, lim, neg, limit, digits)
  <1>0. /\ o.start \in Nat /\ o.base \in Nat \ {0}
        /\ digits \in Seq(DOMAIN Digit)
        /\ \A i \in 1 .. Len(digits) : Digit[digits[i]] < o.base
        /\ \A i \in 1 .. Len(digits) : nptr[o.start + i - 1] = digits[i]
        /\ DigitsEnd(nptr, o.start, o.base) = o.start + Len(digits)
    BY DEF Reads
  <1> USE <1>0
  <1> DEFINE n == Len(digits)
             s == DigitsEnd(nptr, o.start, o.base)
             first == [any |-> 0, acc |-> 0]
             State == [any : Int, acc : Int]
             Digits == [i \in Nat |-> IF i \in 1 .. n THEN Digit[digits[i]] ELSE 0]
             turn[i \in 0 .. s - o.start] ==
               IF i = 0 THEN first ELSE Taken(lim, o.base, turn[i - 1], Digit[nptr[o.start + i - 1]])
             step == [p \in Nat \X State |-> Taken(lim, o.base, p[2], Digits[p[1]])]
  <1>1. n \in Nat /\ s - o.start = n /\ \A i \in 1 .. n : Digit[digits[i]] \in 0 .. o.base - 1
    <2> HIDE DEF first, State, Digits, turn, step
    <2>1. n \in Nat
      OBVIOUS
    <2>2. s - o.start = n
      BY <2>1
    <2>3. ASSUME NEW i \in 1 .. n PROVE Digit[digits[i]] \in 0 .. o.base - 1
      <3>1. digits[i] \in DOMAIN Digit /\ Digit[digits[i]] < o.base
        OBVIOUS
      <3>2. Digit[digits[i]] \in Nat
        BY <3>1, DigitAssumption, Zenon
      <3>3. QED
        BY <3>1, <3>2
    <2>4. QED
      BY <2>1, <2>2, <2>3
  <1>2. IsStep(step, State)
    <2>1. \A i \in Nat : Digits[i] \in Nat
      BY <1>1
    <2> HIDE DEF Digits, State
    <2>2. \A p \in Nat \X State : Taken(lim, o.base, p[2], Digits[p[1]]) \in State
      <3>1. SUFFICES ASSUME NEW p \in Nat \X State PROVE Taken(lim, o.base, p[2], Digits[p[1]]) \in State
        OBVIOUS
      <3>2. p[1] \in Nat /\ p[2] \in State
        OBVIOUS
      <3>3. Digits[p[1]] \in Nat
        BY <2>1, <3>2
      <3>4. QED
        BY <3>2, <3>3, TakenType, Zenon DEF State
    <2>3. QED
      BY <2>2 DEF IsStep
  <1> HIDE DEF step
  <1>3. first \in State
    <2>1. 0 \in Int
      OBVIOUS
    <2>2. QED
      BY <2>1, Zenon
  <1> HIDE DEF State
  <1>4. PICK f : IsRecursive(f, n, first, step, State)
    BY <1>1, <1>2, <1>3, Recursion, Zenon
  <1>5. ASSUME NEW i \in 1 .. n
        PROVE  f[i] = Taken(lim, o.base, f[i - 1], Digit[nptr[o.start + i - 1]])
    <2>1. i \in Nat /\ i - 1 \in 0 .. n /\ Digits[i] = Digit[nptr[o.start + i - 1]]
      BY <1>1
    <2> HIDE DEF Digits
    <2>2. f[i] = step[<<i, f[i - 1]>>] /\ f[i - 1] \in State
      BY <1>4, <2>1 DEF IsRecursive
    <2>3. QED
      BY <2>1, <2>2 DEF step
  <1>6. f \in [0 .. n -> State] /\ f[0] = first
    BY <1>4 DEF IsRecursive
  <1>7. f = [i \in 0 .. s - o.start |-> IF i = 0 THEN first ELSE Taken(lim, o.base, f[i - 1], Digit[nptr[o.start + i - 1]])]
    <2>1. ASSUME NEW i \in 0 .. n
          PROVE  f[i] = IF i = 0 THEN first ELSE Taken(lim, o.base, f[i - 1], Digit[nptr[o.start + i - 1]])
      <3>1. i = 0 \/ i \in 1 .. n
        BY <1>1
      <3>2. QED
        BY <1>5, <1>6, <3>1
    <2>2. f = [i \in 0 .. n |-> f[i]]
      BY <1>6
    <2>3. QED
      BY <1>1, <2>1, <2>2, Zenon
  <1>8. turn = [i \in 0 .. s - o.start |->
                  IF i = 0 THEN first ELSE Taken(lim, o.base, turn[i - 1], Digit[nptr[o.start + i - 1]])]
    BY <1>7, Zenon
  <1>9. Converted(nptr, o, lim) = [s |-> s, any |-> turn[s - o.start].any, acc |-> turn[s - o.start].acc]
    BY Zenon DEF Converted
  <1> HIDE DEF turn
  <1>10. PICK v : Worths(v, digits, o.base) /\ Worth(digits, o.base) = v[n]
    BY WorthsExist
  <1> DEFINE T == {i \in Nat : i <= n => Counted(v[i], turn[i], neg, limit, i # 0)}
             NextTurn(g, i) == IF i = 0 THEN first ELSE Taken(lim, o.base, g[i - 1], Digit[nptr[o.start + i - 1]])
  <1>11. \A i \in 0 .. n : turn[i] = NextTurn(turn, i)
    BY <1>1, <1>8, Zenon
  <1>12. 0 \in T
    <2>1. turn[0] = first /\ v[0] = 0 /\ 0 \in Nat
      BY <1>1, <1>10, <1>11 DEF Worths
    <2>2. Counted(0, first, neg, limit, FALSE)
      BY DEF Counted
    <2>3. (0 # 0) = FALSE
      OBVIOUS
    <2>4. QED
      BY <2>1, <2>2, <2>3, Zenon
  <1>13. ASSUME NEW i \in Nat, i \in T
         PROVE  i + 1 \in T
    <2>1. SUFFICES ASSUME i + 1 <= n PROVE Counted(v[i + 1], turn[i + 1], neg, limit, i + 1 # 0)
      OBVIOUS
    <2>2. i \in 0 .. n /\ i <= n /\ i + 1 \in 0 .. n /\ i + 1 \in 1 .. n /\ i + 1 # 0 /\ (i + 1) - 1 = i
      BY <1>1, <2>1
    <2>3. Counted(v[i], turn[i], neg, limit, i # 0)
      BY <1>13, <2>2
    <2>4. v[i + 1] = v[i] * o.base + Digit[digits[i + 1]] /\ v[i] \in Nat
      BY <1>10, <2>2 DEF Worths
    <2>5. Digit[digits[i + 1]] \in 0 .. o.base - 1
      BY <1>1, <2>2
    <2>6. turn[i + 1] = Taken(lim, o.base, turn[i], Digit[digits[i + 1]])
      <3>1. turn[i + 1] = Taken(lim, o.base, turn[i], Digit[nptr[o.start + (i + 1) - 1]])
        BY <1>11, <2>2, Zenon
      <3>2. nptr[o.start + (i + 1) - 1] = digits[i + 1]
        BY <2>2, Zenon
      <3>3. QED
        BY <3>1, <3>2, Zenon
    <2>7. (i # 0) \in BOOLEAN /\ (i + 1 # 0) = TRUE
      BY <2>2
    <2> HIDE DEF turn
    <2>8. Counted(v[i] * o.base + Digit[digits[i + 1]], Taken(lim, o.base, turn[i], Digit[digits[i + 1]]), neg, limit, TRUE)
      BY <2>3, <2>4, <2>5, <2>7, TakenCounted, Zenon
    <2>9. QED
      BY <2>4, <2>6, <2>7, <2>8, Zenon
  <1> HIDE DEF T, NextTurn
  <1>14. \A i \in Nat : i \in T
    BY <1>12, <1>13, Induction
  <1>15. Counted(v[n], turn[n], neg, limit, n # 0)
    <2>1. n \in T /\ n <= n
      BY <1>1, <1>14
    <2>2. QED
      BY <2>1 DEF T
  <1>16. v[n] \in Nat
    BY <1>1, <1>10 DEF Worths
  <1>17. Converted(nptr, o, lim) = [s |-> o.start + n, any |-> turn[n].any, acc |-> turn[n].acc]
    BY <1>1, <1>9, Zenon
  <1>18. QED
    BY <1>10, <1>15, <1>16, <1>17, Zenon DEF Counts

(* The parts of a text, and how they lie in memory.                        *)
Characters == DOMAIN Digit \cup {"other"}

IsText(spaces, sign, text) ==
  spaces \in Seq({"space"}) /\ sign \in {<<>>, <<"+">>, <<"-">>} /\ text \in Seq(Characters)

Layout(nptr, spaces, sign, text) ==
  /\ DOMAIN nptr = 1 .. Len(nptr)
  /\ Len(nptr) = Len(spaces) + Len(sign) + Len(text) + 1
  /\ \A i \in 1 .. Len(spaces) : nptr[i] = "space"
  /\ \A i \in 1 .. Len(sign) : nptr[Len(spaces) + i] = sign[i]
  /\ \A i \in 1 .. Len(text) : nptr[Len(spaces) + Len(sign) + i] = text[i]
  /\ nptr[Len(spaces) + Len(sign) + Len(text) + 1] = "end"

IsJoin(r, p, q, D) ==
  /\ r \in Seq(D) /\ Len(r) = Len(p) + Len(q)
  /\ \A i \in 1 .. Len(p) : r[i] = p[i]
  /\ \A i \in 1 .. Len(q) : r[Len(p) + i] = q[i]

LEMMA Joins ==
  ASSUME NEW D, NEW p \in Seq(D), NEW q \in Seq(D)
  PROVE  IsJoin(p \o q, p, q, D)
  BY DEF IsJoin

LEMMA SeqOfMore ==
  ASSUME NEW C, NEW D, C \subseteq D, NEW s \in Seq(C)
  PROVE  s \in Seq(D) /\ \A i \in 1 .. Len(s) : s[i] \in C
  OBVIOUS

LEMMA LaidOut ==
  ASSUME NEW spaces, NEW sign, NEW text, IsText(spaces, sign, text)
  PROVE  /\ Layout(spaces \o sign \o text \o <<"end">>, spaces, sign, text)
         /\ Len(spaces \o sign) = Len(spaces) + Len(sign)
  <1> DEFINE D == Characters \cup {"space", "+", "-", "end"}
             p == spaces \o sign
             q == p \o text
             nptr == q \o <<"end">>
  <1>1. /\ spaces \in Seq(D) /\ sign \in Seq(D) /\ text \in Seq(D) /\ <<"end">> \in Seq(D)
        /\ \A i \in 1 .. Len(spaces) : spaces[i] = "space"
    <2>1. {"space"} \subseteq D /\ Characters \subseteq D /\ {"+", "-", "end"} \subseteq D
      OBVIOUS
    <2> HIDE DEF D
    <2>2. spaces \in Seq(D) /\ \A i \in 1 .. Len(spaces) : spaces[i] \in {"space"}
      BY <2>1, SeqOfMore, Zenon DEF IsText
    <2>3. text \in Seq(D)
      BY <2>1, SeqOfMore, Zenon DEF IsText
    <2>4. sign \in Seq({"+", "-", "end"}) /\ <<"end">> \in Seq({"+", "-", "end"})
      <3>1. <<>> \in Seq({"+", "-", "end"}) /\ <<"+">> \in Seq({"+", "-", "end"})
            /\ <<"-">> \in Seq({"+", "-", "end"}) /\ <<"end">> \in Seq({"+", "-", "end"})
        OBVIOUS
      <3>2. QED
        BY <3>1 DEF IsText
    <2>5. sign \in Seq(D) /\ <<"end">> \in Seq(D)
      BY <2>1, <2>4, SeqOfMore, Zenon
    <2>6. QED
      BY <2>2, <2>3, <2>5
  <1> HIDE DEF D
  <1>2. /\ p \in Seq(D) /\ Len(p) = Len(spaces) + Len(sign)
        /\ \A i \in 1 .. Len(spaces) : p[i] = spaces[i]
        /\ \A i \in 1 .. Len(sign) : p[Len(spaces) + i] = sign[i]
    <2>1. IsJoin(p, spaces, sign, D)
      BY <1>1, Joins, Zenon
    <2> HIDE DEF p
    <2>2. QED
      BY <2>1 DEF IsJoin
  <1> HIDE DEF p
  <1>3. /\ q \in Seq(D) /\ Len(q) = Len(p) + Len(text)
        /\ \A i \in 1 .. Len(p) : q[i] = p[i]
        /\ \A i \in 1 .. Len(text) : q[Len(p) + i] = text[i]
    <2>1. IsJoin(q, p, text, D)
      BY <1>1, <1>2, Joins, Zenon
    <2> HIDE DEF q
    <2>2. QED
      BY <2>1 DEF IsJoin
  <1> HIDE DEF q
  <1>4. /\ nptr \in Seq(D) /\ Len(nptr) = Len(q) + 1
        /\ \A i \in 1 .. Len(q) : nptr[i] = q[i]
        /\ nptr[Len(q) + 1] = "end"
    <2>1. IsJoin(nptr, q, <<"end">>, D)
      BY <1>1, <1>3, Joins, Zenon
    <2>2. Len(<<"end">>) = 1 /\ <<"end">>[1] = "end"
      OBVIOUS
    <2> HIDE DEF nptr
    <2>3. QED
      BY <2>1, <2>2 DEF IsJoin
  <1> HIDE DEF nptr
  <1>5. Len(spaces) \in Nat /\ Len(sign) \in Nat /\ Len(text) \in Nat
    BY <1>1
  <1>6. DOMAIN nptr = 1 .. Len(nptr) /\ Len(nptr) = Len(spaces) + Len(sign) + Len(text) + 1
    BY <1>2, <1>3, <1>4
  <1>7. \A i \in 1 .. Len(spaces) : nptr[i] = "space"
    <2>1. SUFFICES ASSUME NEW i \in 1 .. Len(spaces) PROVE nptr[i] = "space"
      OBVIOUS
    <2>2. i \in 1 .. Len(p) /\ i \in 1 .. Len(q)
      BY <1>2, <1>3, <1>5
    <2>3. QED
      BY <1>1, <1>2, <1>3, <1>4, <2>2
  <1>8. \A i \in 1 .. Len(sign) : nptr[Len(spaces) + i] = sign[i]
    <2>1. SUFFICES ASSUME NEW i \in 1 .. Len(sign) PROVE nptr[Len(spaces) + i] = sign[i]
      OBVIOUS
    <2>2. Len(spaces) + i \in 1 .. Len(p) /\ Len(spaces) + i \in 1 .. Len(q)
      BY <1>2, <1>3, <1>5
    <2>3. QED
      BY <1>2, <1>3, <1>4, <2>2
  <1>9. \A i \in 1 .. Len(text) : nptr[Len(spaces) + Len(sign) + i] = text[i]
    <2>1. SUFFICES ASSUME NEW i \in 1 .. Len(text) PROVE nptr[Len(spaces) + Len(sign) + i] = text[i]
      OBVIOUS
    <2>2. Len(p) + i \in 1 .. Len(q) /\ Len(spaces) + Len(sign) + i = Len(p) + i
      BY <1>2, <1>3, <1>5
    <2>3. QED
      BY <1>3, <1>4, <2>2
  <1>10. nptr[Len(spaces) + Len(sign) + Len(text) + 1] = "end"
    <2>1. Len(spaces) + Len(sign) + Len(text) + 1 = Len(q) + 1
      BY <1>2, <1>3, <1>5
    <2>2. QED
      BY <1>4, <2>1, Zenon
  <1>11. Layout(nptr, spaces, sign, text)
    BY <1>6, <1>7, <1>8, <1>9, <1>10 DEF Layout
  <1>12. QED
    BY <1>2, <1>11, Zenon DEF nptr, q, p

LEMMA NoSpaces ==
  ASSUME NEW nptr, NEW spaces, NEW sign, NEW text, IsText(spaces, sign, text), Layout(nptr, spaces, sign, text)
  PROVE  SkipSpace(nptr) = Len(spaces) + 1
  <1> DEFINE b == Len(spaces) + 1
             First(s) == nptr[s] # "space" /\ \A r \in 1 .. s - 1 : nptr[r] = "space"
  <1>1. /\ Len(spaces) \in Nat /\ Len(sign) \in Nat /\ Len(text) \in Nat
        /\ \A i \in 1 .. Len(text) : text[i] \in Characters
    BY DEF IsText
  <1>2. \A c \in Characters : c # "space" /\ c # "+" /\ c # "-" /\ c # "end"
    BY DigitAssumption DEF Characters
  <1>3. nptr[b] # "space"
    <2>1. CASE sign # <<>>
      <3>1. Len(sign) = 1 /\ sign[1] \in {"+", "-"}
        BY <2>1 DEF IsText
      <3>2. nptr[b] = sign[1]
        BY <1>1, <3>1 DEF Layout
      <3>3. QED
        BY <3>1, <3>2
    <2>2. CASE sign = <<>> /\ Len(text) = 0
      <3>1. nptr[Len(spaces) + Len(sign) + Len(text) + 1] = "end"
        BY DEF Layout
      <3>2. Len(sign) = 0
        BY <2>2
      <3>3. Len(spaces) + Len(sign) + Len(text) + 1 = b
        BY <1>1, <2>2, <3>2
      <3>4. QED
        BY <3>1, <3>3
    <2>3. CASE sign = <<>> /\ Len(text) # 0
      <3>1. Len(sign) = 0 /\ 1 \in 1 .. Len(text)
        BY <1>1, <2>3
      <3>2. nptr[Len(spaces) + Len(sign) + 1] = text[1] /\ Len(spaces) + Len(sign) + 1 = b
        BY <1>1, <3>1 DEF Layout
      <3>3. QED
        BY <1>1, <1>2, <3>1, <3>2
    <2>4. QED
      BY <2>1, <2>2, <2>3
  <1>4. b \in DOMAIN nptr /\ First(b)
    BY <1>1, <1>3 DEF Layout
  <1>5. ASSUME NEW s \in DOMAIN nptr, First(s)
        PROVE  s = b
    <2>1. s \in Nat \ {0}
      BY DEF Layout
    <2>2. CASE s < b
      <3>1. s \in 1 .. Len(spaces)
        BY <1>1, <2>1, <2>2
      <3>2. QED
        BY <1>5, <3>1 DEF Layout
    <2>3. CASE s > b
      <3>1. b \in 1 .. s - 1
        BY <1>1, <2>1, <2>3
      <3>2. QED
        BY <1>3, <1>5, <3>1
    <2>4. QED
      BY <1>1, <2>1, <2>2, <2>3
  <1>6. SkipSpace(nptr) = CHOOSE s \in DOMAIN nptr : First(s)
    BY DEF SkipSpace
  <1> HIDE DEF First, b
  <1>7. (CHOOSE s \in DOMAIN nptr : First(s)) = b
    BY <1>4, <1>5
  <1>8. QED
    BY <1>6, <1>7 DEF b

(* The prefix, the base and the tail, as NumberExact has them.             *)
HexPrefix(text, base) == base \in {0, 16} /\ Len(text) > 1 /\ text[1] = "0" /\ text[2] = "x"

BaseOf(text, base) ==
  CASE HexPrefix(text, base) -> 16
    [] ~HexPrefix(text, base) /\ base = 0 -> IF Len(text) > 0 /\ text[1] = "0" THEN 8 ELSE 10
    [] OTHER -> base

TailOf(text, base) == IF HexPrefix(text, base) THEN SubSeq(text, 3, Len(text)) ELSE text

StartOf(spaces, sign, text, base) ==
  Len(spaces) + Len(sign) + (IF HexPrefix(text, base) THEN 2 ELSE 0) + 1

LEMMA Opened ==
  ASSUME NEW nptr, NEW spaces, NEW sign, NEW text, IsText(spaces, sign, text), Layout(nptr, spaces, sign, text),
         NEW base
  PROVE  Opening(nptr, base) = [neg   |-> sign = <<"-">>,
                                start |-> StartOf(spaces, sign, text, base),
                                base  |-> BaseOf(text, base)]
  <1> DEFINE blank == Len(spaces) + 1
             at == Len(spaces) + Len(sign) + 1
             prefix == base \in {0, 16} /\ nptr[at] = "0" /\ nptr[at + 1] = "x"
             start == IF prefix THEN at + 2 ELSE at
  <1>1. /\ Len(spaces) \in Nat /\ Len(sign) \in Nat /\ Len(text) \in Nat
        /\ \A i \in 1 .. Len(text) : text[i] \in Characters
    BY DEF IsText
  <1>2. \A c \in Characters : c # "space" /\ c # "+" /\ c # "-" /\ c # "end"
    BY DigitAssumption DEF Characters
  <1>3. nptr[at] = (IF Len(text) > 0 THEN text[1] ELSE "end")
    <2>1. CASE Len(text) > 0
      <3>1. 1 \in 1 .. Len(text)
        BY <1>1, <2>1
      <3>2. QED
        BY <2>1, <3>1 DEF Layout
    <2>2. CASE ~(Len(text) > 0)
      <3>1. Len(spaces) + Len(sign) + Len(text) + 1 = at
        BY <1>1, <2>2
      <3>2. QED
        BY <2>2, <3>1, Zenon DEF Layout
    <2>3. QED
      BY <2>1, <2>2
  <1>4. Len(text) > 0 => nptr[at + 1] = (IF Len(text) > 1 THEN text[2] ELSE "end")
    <2>1. SUFFICES ASSUME Len(text) > 0 PROVE nptr[at + 1] = (IF Len(text) > 1 THEN text[2] ELSE "end")
      OBVIOUS
    <2>2. CASE Len(text) > 1
      <3>1. 2 \in 1 .. Len(text) /\ Len(spaces) + Len(sign) + 2 = at + 1
        BY <1>1, <2>2
      <3>2. QED
        BY <2>2, <3>1, Zenon DEF Layout
    <2>3. CASE ~(Len(text) > 1)
      <3>1. Len(spaces) + Len(sign) + Len(text) + 1 = at + 1
        BY <1>1, <2>1, <2>3
      <3>2. QED
        BY <2>3, <3>1, Zenon DEF Layout
    <2>4. QED
      BY <2>2, <2>3
  <1>5. /\ (nptr[blank] = "-") = (sign = <<"-">>)
        /\ (IF nptr[blank] \in {"+", "-"} THEN blank + 1 ELSE blank) = at
    <2>1. CASE sign = <<>>
      <3>1. Len(sign) = 0 /\ at = blank
        BY <1>1, <2>1
      <3>2. nptr[blank] = "end" \/ nptr[blank] \in Characters
        BY <1>1, <1>3, <3>1
      <3>3. nptr[blank] \notin {"+", "-"} /\ nptr[blank] # "-"
        BY <1>2, <3>2
      <3>4. sign # <<"-">>
        BY <2>1
      <3>5. QED
        BY <3>1, <3>3, <3>4
    <2>2. CASE sign # <<>>
      <3>1. Len(sign) = 1 /\ sign[1] \in {"+", "-"} /\ (sign = <<"-">> <=> sign[1] = "-")
        BY <2>2 DEF IsText
      <3>2. nptr[blank] = sign[1] /\ at = blank + 1
        BY <1>1, <3>1 DEF Layout
      <3>3. QED
        BY <3>1, <3>2
    <2>3. QED
      BY <2>1, <2>2
  <1> HIDE DEF at, blank
  <1>6. prefix <=> HexPrefix(text, base)
    <2>1. "end" # "0" /\ "end" # "x"
      OBVIOUS
    <2>2. QED
      BY <1>1, <1>3, <1>4, <2>1 DEF HexPrefix
  <1>7. ~prefix => (nptr[at] = "0" <=> Len(text) > 0 /\ text[1] = "0")
    BY <1>3
  <1>8. Opening(nptr, base) =
          [neg   |-> nptr[blank] = "-",
           start |-> start,
           base  |-> CASE prefix -> 16
                       [] ~prefix /\ base = 0 -> IF nptr[start] = "0" THEN 8 ELSE 10
                       [] OTHER -> base]
    <2>1. SkipSpace(nptr) = blank
      BY NoSpaces, Zenon DEF blank
    <2>2. QED
      BY <1>5, <2>1, Zenon DEF Opening
  <1> HIDE DEF prefix
  <1>9. start = StartOf(spaces, sign, text, base)
    BY <1>1, <1>6 DEF StartOf, at
  <1>10. (CASE prefix -> 16
            [] ~prefix /\ base = 0 -> IF nptr[start] = "0" THEN 8 ELSE 10
            [] OTHER -> base) = BaseOf(text, base)
    <2>1. CASE prefix
      BY <1>6, <2>1 DEF BaseOf
    <2>2. CASE ~prefix /\ base = 0
      BY <1>6, <1>7, <2>2 DEF BaseOf
    <2>3. CASE ~prefix /\ base # 0
      BY <1>6, <2>3 DEF BaseOf
    <2>4. QED
      BY <2>1, <2>2, <2>3
  <1> HIDE DEF start
  <1>11. QED
    BY <1>5, <1>8, <1>9, <1>10, Zenon
(* How many of the characters of the tail are digits, up to the first that *)
(* is none.                                                                *)
IsCount(n, tail, base) ==
  /\ \A i \in 1 .. n : IsDigit(tail[i], base)
  /\ n < Len(tail) => ~IsDigit(tail[n + 1], base)

CountOf(tail, base) == CHOOSE n \in 0 .. Len(tail) : IsCount(n, tail, base)

LEMMA CountExists ==
  ASSUME NEW tail, Len(tail) \in Nat, NEW base
  PROVE  CountOf(tail, base) \in 0 .. Len(tail) /\ IsCount(CountOf(tail, base), tail, base)
  <1> DEFINE Stops == {i \in Nat : i = Len(tail) \/ (i < Len(tail) /\ ~IsDigit(tail[i + 1], base))}
  <1>1. Len(tail) \in Stops /\ Stops \in SUBSET Nat
    OBVIOUS
  <1>2. PICK n \in Stops : \A m \in Stops : n <= m
    BY <1>1, Least
  <1>3. n \in 0 .. Len(tail)
    BY <1>1, <1>2
  <1>4. \A i \in 1 .. n : IsDigit(tail[i], base)
    <2>1. SUFFICES ASSUME NEW i \in 1 .. n, ~IsDigit(tail[i], base) PROVE FALSE
      OBVIOUS
    <2>2. i - 1 \in Nat /\ i - 1 < Len(tail) /\ (i - 1) + 1 = i /\ ~(n <= i - 1)
      BY <1>3, <2>1
    <2>3. i - 1 \in Stops
      BY <2>1, <2>2
    <2>4. QED
      BY <1>2, <2>2, <2>3
  <1>5. n < Len(tail) => ~IsDigit(tail[n + 1], base)
    BY <1>2
  <1> HIDE DEF Stops
  <1>6. IsCount(n, tail, base)
    BY <1>4, <1>5 DEF IsCount
  <1>7. QED
    BY <1>3, <1>6, Zenon DEF CountOf

(* The text from its start on, up to its end.                              *)
Ends(nptr, start, tail) ==
  /\ start \in Nat \ {0} /\ Len(tail) \in Nat /\ Len(nptr) = start + Len(tail)
  /\ \A i \in 1 .. Len(tail) : nptr[start + i - 1] = tail[i]
  /\ nptr[Len(nptr)] = "end"

LEMMA TailEnds ==
  ASSUME NEW nptr, NEW spaces, NEW sign, NEW text, IsText(spaces, sign, text), Layout(nptr, spaces, sign, text),
         NEW base
  PROVE  /\ Ends(nptr, StartOf(spaces, sign, text, base), TailOf(text, base))
         /\ \A i \in 1 .. Len(TailOf(text, base)) : TailOf(text, base)[i] \in Characters
  <1>1. /\ Len(spaces) \in Nat /\ Len(sign) \in Nat /\ Len(text) \in Nat /\ text \in Seq(Characters)
        /\ \A i \in 1 .. Len(text) : text[i] \in Characters
    BY DEF IsText
  <1>2. CASE HexPrefix(text, base)
    <2> DEFINE tail == SubSeq(text, 3, Len(text))
               start == Len(spaces) + Len(sign) + 3
    <2>1. Len(text) > 1
      BY <1>2 DEF HexPrefix
    <2>2. Len(tail) = Len(text) - 2 /\ \A i \in 1 .. Len(tail) : tail[i] = text[i + 2]
      <3>1. \A i \in 3 .. Len(text) : text[i] \in Characters
        BY <1>1
      <3>2. /\ Len(tail) = IF 3 <= Len(text) THEN Len(text) - 3 + 1 ELSE 0
            /\ \A i \in 1 .. Len(text) - 3 + 1 : tail[i] = text[3 + i - 1]
        BY <1>1, <3>1, SubSeqProperties
      <3> HIDE DEF tail
      <3>3. ASSUME NEW i \in 1 .. Len(tail)
            PROVE  tail[i] = text[i + 2]
        <4>1. i \in 1 .. Len(text) - 3 + 1 /\ 3 + i - 1 = i + 2
          BY <1>1, <2>1, <3>2
        <4>2. tail[i] = text[3 + i - 1]
          BY <3>2, <4>1
        <4>3. QED
          BY <4>1, <4>2, Zenon
      <3>4. ASSUME NEW k \in Nat, k > 1
            PROVE  (IF 3 <= k THEN k - 3 + 1 ELSE 0) = k - 2
        BY <3>4
      <3>5. Len(tail) = Len(text) - 2
        BY <1>1, <2>1, <3>2, <3>4, Zenon
      <3>6. QED
        BY <3>3, <3>5
    <2> HIDE DEF tail
    <2>3. StartOf(spaces, sign, text, base) = start /\ TailOf(text, base) = tail
      BY <1>1, <1>2 DEF StartOf, TailOf, tail
    <2>4. Len(nptr) = start + Len(tail) /\ Len(nptr) = Len(spaces) + Len(sign) + Len(text) + 1
      BY <1>1, <2>2 DEF Layout
    <2>5. \A i \in 1 .. Len(tail) : nptr[start + i - 1] = tail[i] /\ tail[i] \in Characters
      <3>1. SUFFICES ASSUME NEW i \in 1 .. Len(tail)
                     PROVE  nptr[start + i - 1] = tail[i] /\ tail[i] \in Characters
        OBVIOUS
      <3>2. i + 2 \in 1 .. Len(text) /\ start + i - 1 = Len(spaces) + Len(sign) + (i + 2)
        BY <1>1, <2>1, <2>2
      <3>3. nptr[Len(spaces) + Len(sign) + (i + 2)] = text[i + 2]
        BY <3>2 DEF Layout
      <3>4. QED
        BY <1>1, <2>2, <3>2, <3>3
    <2>6. nptr[Len(nptr)] = "end"
      BY <2>4 DEF Layout
    <2>7. Ends(nptr, start, tail)
      BY <1>1, <2>1, <2>2, <2>4, <2>5, <2>6 DEF Ends
    <2>8. QED
      BY <2>3, <2>5, <2>7
  <1>3. CASE ~HexPrefix(text, base)
    <2> DEFINE start == Len(spaces) + Len(sign) + 1
    <2>1. StartOf(spaces, sign, text, base) = start /\ TailOf(text, base) = text
      BY <1>1, <1>3 DEF StartOf, TailOf
    <2>2. Len(nptr) = start + Len(text) /\ Len(nptr) = Len(spaces) + Len(sign) + Len(text) + 1
      BY <1>1 DEF Layout
    <2>3. \A i \in 1 .. Len(text) : nptr[start + i - 1] = text[i]
      <3>1. SUFFICES ASSUME NEW i \in 1 .. Len(text)
                     PROVE  nptr[start + i - 1] = text[i]
        OBVIOUS
      <3>2. start + i - 1 = Len(spaces) + Len(sign) + i
        BY <1>1
      <3>3. QED
        BY <3>2 DEF Layout
    <2>4. nptr[Len(nptr)] = "end"
      BY <2>2 DEF Layout
    <2>5. Ends(nptr, start, text)
      BY <1>1, <2>2, <2>3, <2>4 DEF Ends
    <2>6. QED
      BY <1>1, <2>1, <2>5
  <1>4. QED
    BY <1>2, <1>3

LEMMA DigitsEndAt ==
  ASSUME NEW nptr, NEW start, NEW tail, Ends(nptr, start, tail), NEW base,
         NEW n \in 0 .. Len(tail), IsCount(n, tail, base)
  PROVE  DigitsEnd(nptr, start, base) = start + n
  <1> DEFINE End(s) == ~IsDigit(nptr[s], base) /\ \A r \in start .. s - 1 : IsDigit(nptr[r], base)
             e == start + n
  <1>1. /\ start \in Nat \ {0} /\ Len(tail) \in Nat /\ Len(nptr) = start + Len(tail) /\ n \in Nat
        /\ nptr[Len(nptr)] = "end" /\ e \in start .. Len(nptr)
    BY DEF Ends
  <1>2. \A i \in 1 .. Len(tail) : nptr[start + i - 1] = tail[i]
    BY DEF Ends
  <1>3. ~IsDigit("end", base)
    BY DigitAssumption DEF IsDigit
  <1>4. ~IsDigit(nptr[e], base)
    <2>1. CASE n = Len(tail)
      <3>1. e = Len(nptr)
        BY <1>1, <2>1
      <3>2. QED
        BY <1>1, <1>3, <3>1, Zenon
    <2>2. CASE n # Len(tail)
      <3>1. n < Len(tail) /\ n + 1 \in 1 .. Len(tail) /\ start + (n + 1) - 1 = e
        BY <1>1, <2>2
      <3>2. ~IsDigit(tail[n + 1], base)
        BY <3>1 DEF IsCount
      <3>3. nptr[e] = tail[n + 1]
        BY <1>2, <3>1, Zenon
      <3>4. QED
        BY <3>2, <3>3, Zenon
    <2>3. QED
      BY <2>1, <2>2
  <1>5. ASSUME NEW r \in start .. e - 1
        PROVE  IsDigit(nptr[r], base)
    <2> DEFINE i == r - start + 1
    <2>1. i \in 1 .. n /\ i \in 1 .. Len(tail) /\ start + i - 1 = r
      BY <1>1
    <2>2. IsDigit(tail[i], base)
      BY <2>1, Zenon DEF IsCount
    <2>3. nptr[r] = tail[i]
      BY <1>2, <2>1, Zenon
    <2>4. QED
      BY <2>2, <2>3, Zenon
  <1>6. End(e)
    BY <1>4, <1>5
  <1>7. ASSUME NEW s \in start .. Len(nptr), End(s)
        PROVE  s = e
    <2>1. CASE s < e
      <3>1. s \in start .. e - 1
        BY <1>1, <2>1
      <3>2. QED
        BY <1>5, <1>7, <3>1
    <2>2. CASE s > e
      <3>1. e \in start .. s - 1
        BY <1>1, <2>2
      <3>2. QED
        BY <1>4, <1>7, <3>1
    <2>3. QED
      BY <1>1, <2>1, <2>2
  <1>8. DigitsEnd(nptr, start, base) = CHOOSE s \in start .. Len(nptr) : End(s)
    BY Zenon DEF DigitsEnd
  <1> HIDE DEF End, e
  <1>9. (CHOOSE s \in start .. Len(nptr) : End(s)) = e
    BY <1>1, <1>6, <1>7
  <1>10. QED
    BY <1>8, <1>9 DEF e

(* The answers for digits that are worth v.                                *)
SignedAnswer(v, limit, neg, some, s) ==
  [value  |-> IF neg THEN -(IF v > limit THEN limit ELSE v) ELSE IF v > limit THEN limit ELSE v,
   erange |-> v > limit, endptr |-> IF ~some THEN 1 ELSE s]

UnsignedAnswer(v, limit, minus, some, s) ==
  [value  |-> CASE v > limit -> limit
                [] v <= limit /\ minus -> (-v) % (limit + 1)
                [] OTHER -> v,
   erange |-> v > limit, endptr |-> IF ~some THEN 1 ELSE s]

Negated(t, minus, limit) == IF minus /\ t.any = 1 THEN (-t.acc) % (limit + 1) ELSE t.acc

(* Accumulators that stand for digits worth v.                             *)
Read(v, t, neg, limit, some) ==
  /\ neg \in BOOLEAN /\ limit \in Nat /\ v \in Nat /\ some \in BOOLEAN
  /\ ~some => v = 0
  /\ Counted(v, t, neg, limit, some)

AnswersSigned(v, t, neg, limit, some, s) ==
  Outcome([s |-> s, any |-> t.any, acc |-> t.acc], t.acc) = SignedAnswer(v, limit, neg, some, s)

AnswersUnsigned(v, t, minus, limit, some, s) ==
  Outcome([s |-> s, any |-> t.any, acc |-> t.acc], Negated(t, minus, limit)) =
    UnsignedAnswer(v, limit, minus, some, s)

LEMMA OutcomeSigned ==
  ASSUME NEW v, NEW t, NEW neg, NEW limit, NEW some, NEW s, Read(v, t, neg, limit, some)
  PROVE  AnswersSigned(v, t, neg, limit, some, s)
  <1> USE DEF AnswersSigned
  <1>0. /\ neg \in BOOLEAN /\ limit \in Nat /\ v \in Nat /\ some \in BOOLEAN
        /\ (~some => v = 0) /\ Counted(v, t, neg, limit, some)
    BY DEF Read
  <1> DEFINE r == [s |-> s, any |-> t.any, acc |-> t.acc]
  <1>1. Outcome(r, t.acc) = [value |-> t.acc, erange |-> t.any = -1, endptr |-> IF t.any = 0 THEN 1 ELSE s]
    BY DEF Outcome
  <1> HIDE DEF r
  <1>2. CASE v > limit
    <2>1. t.any = -1 /\ (neg => t.acc = -limit) /\ (~neg => t.acc = limit) /\ some = TRUE
      BY <1>0, <1>2 DEF Counted
    <2>2. QED
      BY <1>0, <1>1, <1>2, <2>1 DEF r, SignedAnswer
  <1>3. CASE ~(v > limit)
    <2>1. (t.any = IF some THEN 1 ELSE 0) /\ (neg => t.acc = -v) /\ (~neg => t.acc = v)
      BY <1>0, <1>3 DEF Counted
    <2>2. t.any # -1 /\ (t.any = 0 <=> ~some)
      BY <1>0, <2>1
    <2>3. QED
      BY <1>0, <1>1, <1>3, <2>1, <2>2 DEF r, SignedAnswer
  <1>4. QED
    BY <1>2, <1>3

LEMMA OutcomeUnsigned ==
  ASSUME NEW v, NEW t, NEW minus \in BOOLEAN, NEW limit, NEW some, NEW s, Read(v, t, FALSE, limit, some)
  PROVE  AnswersUnsigned(v, t, minus, limit, some, s)
  <1>0. /\ limit \in Nat /\ v \in Nat /\ some \in BOOLEAN
        /\ (~some => v = 0) /\ Counted(v, t, FALSE, limit, some)
    BY DEF Read
  <1> DEFINE r == [s |-> s, any |-> t.any, acc |-> t.acc]
             value == Negated(t, minus, limit)
             right == CASE v > limit -> limit
                        [] v <= limit /\ minus -> (-v) % (limit + 1)
                        [] OTHER -> v
  <1>1. Outcome(r, value) = [value |-> value, erange |-> t.any = -1, endptr |-> IF t.any = 0 THEN 1 ELSE s]
    BY DEF Outcome
  <1>2. CASE v > limit
    <2>1. t.any = -1 /\ t.acc = limit /\ some = TRUE
      BY <1>0, <1>2 DEF Counted
    <2>2. value = limit /\ right = limit
      BY <1>0, <1>2, <2>1 DEF Negated
    <2> HIDE DEF value, right, r
    <2>3. QED
      BY <1>0, <1>1, <1>2, <2>1, <2>2 DEF r, right, value, UnsignedAnswer, AnswersUnsigned
  <1>3. CASE ~(v > limit)
    <2>1. t.any = (IF some THEN 1 ELSE 0) /\ t.acc = v /\ v <= limit
      BY <1>0, <1>3 DEF Counted
    <2>2. t.any # -1 /\ (t.any = 0 <=> ~some)
      BY <1>0, <2>1
    <2>3. value = right
      <3>1. CASE ~minus
        BY <1>0, <1>3, <2>1, <3>1 DEF Negated
      <3>2. CASE minus /\ some
        BY <1>0, <1>3, <2>1, <3>2 DEF Negated
      <3>3. CASE minus /\ ~some
        <4>1. v = 0 /\ t.any = 0 /\ t.acc = v
          BY <1>0, <2>1, <3>3
        <4>2. value = 0
          BY <4>1 DEF Negated
        <4>3. limit + 1 \in Nat \ {0} /\ -v = 0
          <5>1. limit + 1 \in Nat \ {0} /\ -v = 0 - v
            BY <1>0
          <5>2. 0 - v = 0
            BY <4>1
          <5>3. QED
            BY <5>1, <5>2, Zenon
        <4>4. 0 % (limit + 1) = 0
          BY <4>3, SmallMod
        <4>5. right = (-v) % (limit + 1)
          BY <1>0, <1>3, <2>1, <3>3
        <4> HIDE DEF value, right
        <4>6. QED
          BY <4>1, <4>2, <4>3, <4>4, <4>5
      <3>4. QED
        BY <3>1, <3>2, <3>3
    <2> HIDE DEF value, right
    <2>4. (v > limit) = FALSE /\ (t.any = -1) = FALSE
      BY <1>3, <2>2
    <2>5. (IF t.any = 0 THEN 1 ELSE s) = (IF ~some THEN 1 ELSE s)
      BY <1>0, <2>2
    <2>6. Outcome(r, value) = [value |-> right, erange |-> v > limit, endptr |-> IF ~some THEN 1 ELSE s]
      BY <1>1, <2>3, <2>4, <2>5, Zenon
    <2>7. QED
      BY <2>6, Zenon DEF r, value, right, UnsignedAnswer, AnswersUnsigned
  <1>4. QED
    BY <1>2, <1>3

LEMMA NumberRight ==
  ASSUME NEW spaces, NEW sign, NEW text, IsText(spaces, sign, text), NEW base \in {0} \cup 2 .. 36
  PROVE  NumberExact(spaces, sign, text, base)
  <1> DEFINE nptr == spaces \o sign \o text \o <<"end">>
             b == BaseOf(text, base)
             tail == TailOf(text, base)
             n == CountOf(tail, b)
             digits == SubSeq(tail, 1, n)
             v == Worth(digits, b)
             minus == sign = <<"-">>
             some == n # 0
             start == StartOf(spaces, sign, text, base)
             o == [neg |-> minus, start |-> start, base |-> b]
             limit == IF minus THEN -LONG_MIN ELSE LONG_MAX
             most == IF v > limit THEN limit ELSE v
             end == IF n = 0 THEN 1 ELSE Len(spaces \o sign) + (IF HexPrefix(text, base) THEN 2 ELSE 0) + n + 1
             Long == [value |-> IF minus THEN -most ELSE most, erange |-> v > limit, endptr |-> end]
             UnsignedLong == [value  |-> CASE v > ULONG_MAX -> ULONG_MAX
                                       [] v <= ULONG_MAX /\ minus -> (-v) % (ULONG_MAX + 1)
                                       [] OTHER -> v,
                          erange |-> v > ULONG_MAX, endptr |-> end]
  <1>1. NumberExact(spaces, sign, text, base) <=> strtol(nptr, base) = Long /\ strtoul(nptr, base) = UnsignedLong
    BY Zenon DEF NumberExact, HexPrefix, BaseOf, TailOf, CountOf, IsCount
  <1>2. Layout(nptr, spaces, sign, text) /\ Len(spaces \o sign) = Len(spaces) + Len(sign)
    BY LaidOut
  <1>3. b \in Nat \ {0}
    BY DEF BaseOf
  <1> HIDE DEF nptr, b
  <1>4. Opening(nptr, base) = o
    BY <1>2, Opened DEF b
  <1>5. Ends(nptr, start, tail) /\ \A i \in 1 .. Len(tail) : tail[i] \in Characters
    BY <1>2, TailEnds, Zenon
  <1> HIDE DEF tail, start
  <1>6. start \in Nat /\ Len(tail) \in Nat /\ \A i \in 1 .. Len(tail) : nptr[start + i - 1] = tail[i]
    BY <1>5 DEF Ends
  <1>7. n \in 0 .. Len(tail) /\ IsCount(n, tail, b)
    BY <1>6, CountExists, Zenon
  <1>8. DigitsEnd(nptr, start, b) = start + n
    BY <1>5, <1>7, DigitsEndAt, Zenon
  <1> HIDE DEF n
  <1>9. \A i \in 1 .. n : tail[i] \in DOMAIN Digit /\ Digit[tail[i]] < b
    BY <1>7 DEF IsCount, IsDigit
  <1>10. /\ digits \in Seq(DOMAIN Digit) /\ Len(digits) = n
         /\ \A i \in 1 .. n : digits[i] = tail[i]
    <2>1. /\ SubSeq(tail, 1, n) \in Seq(DOMAIN Digit)
          /\ Len(SubSeq(tail, 1, n)) = IF 1 <= n THEN n - 1 + 1 ELSE 0
          /\ \A i \in 1 .. n - 1 + 1 : SubSeq(tail, 1, n)[i] = tail[1 + i - 1]
      BY <1>7, <1>9, SubSeqProperties
    <2>2. n \in Nat /\ n - 1 + 1 = n /\ (IF 1 <= n THEN n - 1 + 1 ELSE 0) = n
      BY <1>6, <1>7
    <2>3. \A i \in 1 .. n : digits[i] = tail[i]
      <3>1. SUFFICES ASSUME NEW i \in 1 .. n PROVE digits[i] = tail[i]
        OBVIOUS
      <3>2. 1 + i - 1 = i /\ i \in 1 .. n - 1 + 1
        BY <2>2
      <3>3. QED
        BY <2>1, <3>2, Zenon
    <2>4. QED
      BY <2>1, <2>2, <2>3, Zenon
  <1> HIDE DEF digits
  <1>11. /\ \A i \in 1 .. Len(digits) : Digit[digits[i]] < b
         /\ \A i \in 1 .. Len(digits) : nptr[start + i - 1] = digits[i]
         /\ n \in Nat
    <2>1. n \in Nat /\ n <= Len(tail)
      BY <1>6, <1>7
    <2>2. ASSUME NEW i \in 1 .. n
          PROVE  Digit[digits[i]] < b /\ nptr[start + i - 1] = digits[i]
      <3>1. i \in 1 .. Len(tail)
        BY <1>6, <2>1
      <3>2. digits[i] = tail[i] /\ nptr[start + i - 1] = tail[i]
        BY <1>6, <1>10, <3>1, Zenon
      <3>3. Digit[tail[i]] < b
        BY <1>9, Zenon
      <3>4. QED
        BY <3>2, <3>3, Zenon
    <2>3. QED
      BY <1>10, <2>1, <2>2, Zenon
  <1>12. v \in Nat /\ (n = 0 => v = 0)
    <2>1. PICK f : Worths(f, digits, b) /\ v = f[n]
      BY <1>3, <1>10, WorthsExist
    <2>2. f \in [0 .. n -> Nat] /\ f[0] = 0
      BY <1>10, <2>1 DEF Worths
    <2> HIDE DEF v
    <2>3. QED
      BY <1>11, <2>1, <2>2
  <1> HIDE DEF v
  <1>13. /\ o.start = start /\ o.base = b /\ o.neg = minus /\ minus \in BOOLEAN
         /\ some \in BOOLEAN /\ (~some => v = 0) /\ some = (Len(digits) # 0)
         /\ v = Worth(digits, o.base)
    BY <1>10, <1>12 DEF v
  <1>14. end = IF ~some THEN 1 ELSE start + n
    <2>1. Len(spaces) \in Nat /\ Len(sign) \in Nat
      BY DEF IsText
    <2>2. QED
      BY <1>2, <1>11, <2>1 DEF start, StartOf
  <1> HIDE DEF o, end, some
  <1>15. LONG_MAX \in Nat /\ ULONG_MAX \in Nat /\ -LONG_MIN = LONG_MAX + 1 /\ limit \in Nat
    BY DigitAssumption DEF ULONG_MAX, LONG_MIN
  <1>16. IsLimits(Limits(minus, b), minus, limit, b) /\ IsLimits(LimitsUnsigned(b), FALSE, ULONG_MAX, b)
    <2>1. CASE minus
      <3>1. minus = TRUE /\ limit = LONG_MAX + 1
        BY <1>15, <2>1
      <3> HIDE DEF minus, limit
      <3>2. QED
        BY <1>3, <3>1, LimitsAre, Zenon
    <2>2. CASE ~minus
      <3>1. minus = FALSE /\ limit = LONG_MAX
        BY <1>15, <2>2
      <3> HIDE DEF minus, limit
      <3>2. QED
        BY <1>3, <3>1, LimitsAre, Zenon
    <2>3. QED
      BY <2>1, <2>2
  <1> HIDE DEF minus
  <1>17. ASSUME NEW neg \in BOOLEAN, NEW top \in Nat, NEW lim, IsLimits(lim, neg, top, b)
         PROVE  \E t : /\ Converted(nptr, o, lim) = [s |-> start + n, any |-> t.any, acc |-> t.acc]
                      /\ Counted(v, t, neg, top, some)
    <2>1. /\ o.start \in Nat /\ o.base \in Nat \ {0}
          /\ DigitsEnd(nptr, o.start, o.base) = o.start + Len(digits)
          /\ \A i \in 1 .. Len(digits) : Digit[digits[i]] < o.base
          /\ \A i \in 1 .. Len(digits) : nptr[o.start + i - 1] = digits[i]
      BY <1>3, <1>6, <1>8, <1>10, <1>11, <1>13, Zenon
    <2>3. Reads(nptr, o, digits) /\ IsLimits(lim, neg, top, o.base)
      BY <1>10, <1>13, <1>17, <2>1, Zenon DEF Reads
    <2>4. Counts(nptr, o, lim, neg, top, digits)
      BY <1>17, <2>3, ConversionCounts, Zenon
    <2>2. PICK t : /\ Converted(nptr, o, lim) = [s |-> o.start + Len(digits), any |-> t.any, acc |-> t.acc]
                   /\ Counted(Worth(digits, o.base), t, neg, top, Len(digits) # 0)
      BY <2>4, Zenon DEF Counts
    <2>5. QED
      BY <1>10, <1>13, <2>2, Zenon
  <1>18. strtol(nptr, base) = Long
    <2> DEFINE lim == Limits(minus, b)
               r == Converted(nptr, o, lim)
    <2>1. strtol(nptr, base) = Outcome(r, r.acc)
      BY <1>4, <1>13, Zenon DEF strtol
    <2> HIDE DEF limit, lim
    <2>2. PICK t : /\ Converted(nptr, o, lim) = [s |-> start + n, any |-> t.any, acc |-> t.acc]
                   /\ Counted(v, t, minus, limit, some)
      <3>1. IsLimits(lim, minus, limit, b)
        BY <1>16 DEF lim
      <3>2. QED
        BY <1>13, <1>15, <1>17, <3>1, Zenon
    <2>3. r = [s |-> start + n, any |-> t.any, acc |-> t.acc] /\ Counted(v, t, minus, limit, some)
      BY <2>2, Zenon
    <2>4. r.acc = t.acc
      BY <2>3
    <2> HIDE DEF r
    <2>5. Outcome([s |-> start + n, any |-> t.any, acc |-> t.acc], t.acc) =
            SignedAnswer(v, limit, minus, some, start + n)
      <3>1. minus \in BOOLEAN /\ limit \in Nat /\ v \in Nat /\ some \in BOOLEAN
        BY <1>12, <1>13, <1>15
      <3>2. ~some => v = 0
        BY <1>13
      <3>3. Counted(v, t, minus, limit, some)
        BY <2>3
      <3>4. QED
        <4>1. Read(v, t, minus, limit, some)
          BY <3>1, <3>2, <3>3, Zenon DEF Read
        <4>2. AnswersSigned(v, t, minus, limit, some, start + n)
          BY <4>1, OutcomeSigned, Zenon
        <4>3. QED
          BY <4>2, Zenon DEF AnswersSigned
    <2>6. QED
      BY <1>14, <2>1, <2>3, <2>4, <2>5, Zenon DEF SignedAnswer
  <1>19. strtoul(nptr, base) = UnsignedLong
    <2> DEFINE lim == LimitsUnsigned(b)
               r == Converted(nptr, o, lim)
    <2>1. strtoul(nptr, base) = Outcome(r, IF minus /\ r.any = 1 THEN (-r.acc) % (ULONG_MAX + 1) ELSE r.acc)
      BY <1>4, <1>13, Zenon DEF strtoul
    <2> HIDE DEF lim
    <2>2. PICK t : /\ Converted(nptr, o, lim) = [s |-> start + n, any |-> t.any, acc |-> t.acc]
                   /\ Counted(v, t, FALSE, ULONG_MAX, some)
      <3>1. IsLimits(lim, FALSE, ULONG_MAX, b) /\ FALSE \in BOOLEAN
        BY <1>16 DEF lim
      <3>2. QED
        BY <1>13, <1>15, <1>17, <3>1, Zenon
    <2>3. r = [s |-> start + n, any |-> t.any, acc |-> t.acc] /\ Counted(v, t, FALSE, ULONG_MAX, some)
      BY <2>2, Zenon
    <2>4. r.acc = t.acc /\ r.any = t.any
      BY <2>3
    <2> HIDE DEF r
    <2>5. Outcome([s |-> start + n, any |-> t.any, acc |-> t.acc],
                  Negated(t, minus, ULONG_MAX)) = UnsignedAnswer(v, ULONG_MAX, minus, some, start + n)
      <3>1. Read(v, t, FALSE, ULONG_MAX, some) /\ minus \in BOOLEAN
        BY <1>12, <1>13, <1>15, <2>3, Zenon DEF Read
      <3>2. AnswersUnsigned(v, t, minus, ULONG_MAX, some, start + n)
        BY <3>1, OutcomeUnsigned, Zenon
      <3>3. QED
        BY <3>2, Zenon DEF AnswersUnsigned
    <2>6. QED
      BY <1>14, <2>1, <2>3, <2>4, <2>5, Zenon DEF UnsignedAnswer, Negated
  <1>20. QED
    BY <1>1, <1>18, <1>19, Zenon DEF minus

(* strtol and strtoul give what the digits of every text are worth, or the *)
(* end of the range with ERANGE, and where the number ends: for texts of   *)
(* any length, every base and a long of any width (strtol.c:53,            *)
(* strtoul.c:55).                                                          *)
THEOREM NumbersCorrect == NumbersSpec => []NumbersExact
  <1> DEFINE Inv == /\ IsText(number.spaces, number.sign, number.text)
                    /\ number.base \in {0} \cup 2 .. 36
  <1>1. NoNumber.spaces = <<>> /\ NoNumber.sign = <<>> /\ NoNumber.text = <<>> /\ NoNumber.base = 10
    BY DEF NoNumber
  <1>2. IsText(<<>>, <<>>, <<>>) /\ 10 \in {0} \cup 2 .. 36
    BY DEF IsText
  <1>3. NumbersInit => Inv
    BY <1>1, <1>2 DEF NumbersInit
  <1>4. Inv /\ [NumbersNext]_number => Inv'
    <2> SUFFICES ASSUME Inv, [NumbersNext]_number PROVE Inv'
      OBVIOUS
    <2>1. ASSUME NEW spaces \in Seq({"space"}), NEW sign \in {<<>>, <<"+">>, <<"-">>},
                 NEW text \in Seq(DOMAIN Digit \cup {"other"}), NEW base \in {0} \cup 2 .. 36,
                 Convert(spaces, sign, text, base)
          PROVE  Inv'
      BY <2>1 DEF Convert, IsText, Characters
    <2>2. CASE Returned
      BY <1>1, <1>2, <2>2 DEF Returned
    <2>3. CASE UNCHANGED number
      BY <2>3
    <2>4. QED
      BY <2>1, <2>2, <2>3, Zenon DEF NumbersNext
  <1>5. Inv => NumbersExact
    BY NumberRight DEF NumbersExact
  <1> HIDE DEF Inv
  <1>6. QED
    BY <1>3, <1>4, <1>5, PTL DEF NumbersSpec
=============================================================================
