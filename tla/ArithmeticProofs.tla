-------------------------- MODULE ArithmeticProofs --------------------------
(***************************************************************************)
(* Proofs about the arithmetic of the core and of the compiler's library:  *)
(* the division unit, the CNN unit and long long, for words of any width,  *)
(* and about the numbers they are made of.                                 *)
(***************************************************************************)
EXTENDS Divider, CnnUnit, LongLong, WellFoundedInduction, TLAPS

(***************************************************************************)
(* Induction on sets of natural numbers.                                   *)
(***************************************************************************)

(* A set of natural numbers has a least element. *)
LEMMA Least ==
  ASSUME NEW S \in SUBSET Nat, S # {}
  PROVE  \E n \in S : \A m \in S : n <= m
  <1>1. IsWellFoundedOn(OpToRel(<, Nat), Nat)
    BY NatLessThanWellFounded
  <1>2. PICK n \in S : \A m \in S : <<m, n>> \notin OpToRel(<, Nat)
    BY <1>1, WFMin, Zenon
  <1>3. \A m \in S : ~(m < n)
    BY <1>2 DEF OpToRel
  <1>4. ASSUME NEW m \in S
        PROVE  n <= m
    <2>1. m \in Nat /\ n \in Nat
      OBVIOUS
    <2>2. QED
      BY <1>3, <2>1
  <1>5. QED
    BY <1>4

(* A set with 0 and every successor has all natural numbers. *)
LEMMA Induction ==
  ASSUME NEW S, 0 \in S, \A n \in Nat : n \in S => n + 1 \in S
  PROVE  \A n \in Nat : n \in S
  <1> DEFINE Rest == {n \in Nat : n \notin S}
  <1>1. SUFFICES ASSUME Rest # {}
                 PROVE  FALSE
    OBVIOUS
  <1>2. PICK n \in Rest : \A m \in Rest : n <= m
    BY <1>1, Least
  <1>3. n - 1 \in Nat /\ ~(n <= n - 1)
    BY <1>2
  <1>4. n - 1 \in S
    BY <1>2, <1>3
  <1>5. (n - 1) + 1 \in S
    BY <1>3, <1>4
  <1>6. QED
    BY <1>2, <1>5

(***************************************************************************)
(* Powers of two.                                                          *)
(***************************************************************************)

(* What Pow2 is up to n. *)
PowersTo(f, n) ==
  /\ f \in [0 .. n -> Nat \ {0}]
  /\ f[0] = 1
  /\ \A k \in 1 .. n : f[k] = 2 * f[k - 1]

LEMMA PowersExist == \A n \in Nat : \E f : PowersTo(f, n)
  <1> DEFINE S == {n \in Nat : \E f : PowersTo(f, n)}
  <1>1. 0 \in S
    <2>1. PowersTo([k \in 0 .. 0 |-> 1], 0)
      BY DEF PowersTo
    <2>2. QED
      BY <2>1
  <1>2. ASSUME NEW n \in Nat, n \in S
        PROVE  n + 1 \in S
    <2>1. PICK f : PowersTo(f, n)
      BY <1>2
    <2> DEFINE g == [k \in 0 .. n + 1 |-> IF k = n + 1 THEN 2 * f[n] ELSE f[k]]
    <2>2. \A k \in 0 .. n : g[k] = f[k] /\ f[k] \in Nat \ {0}
      BY <2>1 DEF PowersTo
    <2>3. g[n + 1] = 2 * f[n] /\ g[n + 1] \in Nat \ {0}
      BY <2>2
    <2>4. g \in [0 .. n + 1 -> Nat \ {0}]
      BY <2>2, <2>3
    <2>5. \A k \in 1 .. n + 1 : g[k] = 2 * g[k - 1]
      BY <2>1, <2>2, <2>3 DEF PowersTo
    <2>6. PowersTo(g, n + 1)
      BY <2>1, <2>2, <2>4, <2>5 DEF PowersTo
    <2>7. QED
      BY <2>6
  <1> HIDE DEF S
  <1>3. \A n \in Nat : n \in S
    BY <1>1, <1>2, Induction
  <1>4. QED
    BY <1>3 DEF S

LEMMA PowersUnique ==
  ASSUME NEW n \in Nat, NEW m \in Nat, NEW f, NEW g, PowersTo(f, n), PowersTo(g, m)
  PROVE  \A k \in Nat : k <= n /\ k <= m => f[k] = g[k]
  <1> DEFINE S == {k \in Nat : k <= n /\ k <= m => f[k] = g[k]}
  <1>1. 0 \in S
    BY DEF PowersTo
  <1>2. ASSUME NEW k \in Nat, k \in S
        PROVE  k + 1 \in S
    <2>1. SUFFICES ASSUME k + 1 <= n, k + 1 <= m
                   PROVE  f[k + 1] = g[k + 1]
      OBVIOUS
    <2>2. k + 1 \in 1 .. n /\ k + 1 \in 1 .. m /\ (k + 1) - 1 = k /\ k <= n /\ k <= m
      BY <2>1
    <2>3. f[k + 1] = 2 * f[k] /\ g[k + 1] = 2 * g[k]
      BY <2>2 DEF PowersTo
    <2>4. QED
      BY <2>2, <2>3, <1>2
  <1> HIDE DEF S
  <1>3. \A k \in Nat : k \in S
    BY <1>1, <1>2, Induction
  <1>4. QED
    BY <1>3 DEF S

(* The recursive definition of Pow2 defines something. *)
LEMMA Pow2Recursive == Pow2 = [n \in Nat |-> IF n = 0 THEN 1 ELSE 2 * Pow2[n - 1]]
  <1> DEFINE F(n) == CHOOSE f : PowersTo(f, n)
             p    == [n \in Nat |-> F(n)[n]]
  <1>1. \A n \in Nat : PowersTo(F(n), n)
    BY PowersExist, Zenon
  <1> HIDE DEF F
  <1>2. p[0] = 1
    BY <1>1 DEF PowersTo
  <1>3. ASSUME NEW n \in Nat, n # 0
        PROVE  p[n] = 2 * p[n - 1]
    <2>1. n - 1 \in Nat /\ n \in 1 .. n /\ n - 1 <= n
      BY <1>3
    <2>2. PowersTo(F(n), n) /\ PowersTo(F(n - 1), n - 1)
      BY <1>1, <2>1
    <2>3. F(n)[n] = 2 * F(n)[n - 1]
      BY <2>1, <2>2 DEF PowersTo
    <2>4. F(n)[n - 1] = F(n - 1)[n - 1]
      BY <2>1, <2>2, PowersUnique
    <2>5. p[n] = F(n)[n] /\ p[n - 1] = F(n - 1)[n - 1]
      BY <2>1
    <2>6. QED
      BY <2>3, <2>4, <2>5
  <1>4. p = [n \in Nat |-> IF n = 0 THEN 1 ELSE 2 * p[n - 1]]
    <2> HIDE DEF p
    <2>1. \A n \in Nat : p[n] = IF n = 0 THEN 1 ELSE 2 * p[n - 1]
      BY <1>2, <1>3
    <2>2. p = [n \in Nat |-> p[n]]
      BY DEF p
    <2>3. QED
      BY <2>1, <2>2
  <1> HIDE DEF p
  <1>5. QED
    BY <1>4, Zenon DEF Pow2

LEMMA Pow2Zero == Pow2[0] = 1
  BY Pow2Recursive

LEMMA Pow2Next == \A n \in Nat : Pow2[n + 1] = 2 * Pow2[n]
  <1>1. SUFFICES ASSUME NEW n \in Nat
                 PROVE  Pow2[n + 1] = 2 * Pow2[n]
    OBVIOUS
  <1>2. n + 1 \in Nat /\ n + 1 # 0 /\ (n + 1) - 1 = n
    OBVIOUS
  <1>3. QED
    BY <1>2, Pow2Recursive

LEMMA Pow2Type == \A n \in Nat : Pow2[n] \in Nat \ {0}
  <1> DEFINE S == {n \in Nat : Pow2[n] \in Nat \ {0}}
  <1>1. 0 \in S
    BY Pow2Zero
  <1>2. ASSUME NEW n \in Nat, n \in S
        PROVE  n + 1 \in S
    BY <1>2, Pow2Next
  <1> HIDE DEF S
  <1>3. \A n \in Nat : n \in S
    BY <1>1, <1>2, Induction
  <1>4. QED
    BY <1>3 DEF S

LEMMA Pow2Sum == \A m, n \in Nat : Pow2[m + n] = Pow2[m] * Pow2[n]
  <1>1. SUFFICES ASSUME NEW m \in Nat
                 PROVE  \A n \in Nat : Pow2[m + n] = Pow2[m] * Pow2[n]
    OBVIOUS
  <1> DEFINE S == {n \in Nat : Pow2[m + n] = Pow2[m] * Pow2[n]}
  <1>2. 0 \in S
    BY Pow2Zero, Pow2Type
  <1>3. ASSUME NEW n \in Nat, n \in S
        PROVE  n + 1 \in S
    <2>1. Pow2[(m + n) + 1] = 2 * Pow2[m + n] /\ (m + n) + 1 = m + (n + 1)
      BY Pow2Next
    <2>2. Pow2[n + 1] = 2 * Pow2[n]
      BY Pow2Next
    <2>3. Pow2[m] \in Nat /\ Pow2[n] \in Nat /\ Pow2[m + n] \in Nat
      BY Pow2Type
    <2>4. 2 * (Pow2[m] * Pow2[n]) = Pow2[m] * (2 * Pow2[n])
      BY <2>3
    <2>5. QED
      BY <1>3, <2>1, <2>2, <2>4
  <1> HIDE DEF S
  <1>4. \A n \in Nat : n \in S
    BY <1>2, <1>3, Induction
  <1>5. QED
    BY <1>4 DEF S

(***************************************************************************)
(* Quotients and remainders.                                               *)
(***************************************************************************)

LEMMA DivMod ==
  ASSUME NEW n \in Int, NEW d \in Nat \ {0}
  PROVE  /\ n = (n \div d) * d + (n % d)
         /\ n % d \in 0 .. d - 1
         /\ n \div d \in Int
  OBVIOUS

LEMMA DivModUnique ==
  ASSUME NEW d \in Nat \ {0}, NEW q \in Int, NEW r \in 0 .. d - 1, NEW n \in Int, n = q * d + r
  PROVE  n \div d = q /\ n % d = r
  <1> DEFINE p == n \div d
             s == n % d
  <1>1. n = p * d + s /\ s \in 0 .. d - 1 /\ p \in Int
    BY DivMod
  <1> HIDE DEF p, s
  <1>2. (q - p) * d = s - r
    BY <1>1
  <1>3. CASE q - p >= 1
    <2>1. (q - p) * d >= d
      BY <1>1, <1>3
    <2>2. QED
      BY <1>1, <1>2, <2>1
  <1>4. CASE q - p <= -1
    <2>1. (q - p) * d <= -d
      BY <1>1, <1>4
    <2>2. QED
      BY <1>1, <1>2, <2>1
  <1>5. CASE q = p
    BY <1>1, <1>5 DEF p, s
  <1>6. QED
    BY <1>1, <1>3, <1>4, <1>5

(* A division stated in one word, to be cited for terms of any shape.      *)
Euclid(n, d, q, r) ==
  d \in Nat \ {0} /\ n \in Int /\ q \in Int /\ r \in 0 .. d - 1 /\ n = q * d + r

LEMMA EuclidDivMod ==
  ASSUME NEW n, NEW d, NEW q, NEW r, Euclid(n, d, q, r)
  PROVE  n \div d = q /\ n % d = r
  BY DivModUnique DEF Euclid

LEMMA EuclidParts ==
  ASSUME NEW n, NEW d, n \in Int, d \in Nat \ {0}
  PROVE  Euclid(n, d, n \div d, n % d)
  BY DivMod DEF Euclid

LEMMA SmallMod ==
  ASSUME NEW d \in Nat \ {0}, NEW n \in 0 .. d - 1
  PROVE  n \div d = 0 /\ n % d = n
  BY DivModUnique

(***************************************************************************)
(* The division unit.                                                      *)
(***************************************************************************)

LEMMA WordBound == M \in Nat \ {0} /\ M >= 2 /\ 2 * (M \div 2) = M /\ M \div 2 \in Nat \ {0}
  <1>1. W - 1 \in Nat /\ (W - 1) + 1 = W
    BY WAssumption
  <1>2. M = 2 * Pow2[W - 1] /\ Pow2[W - 1] \in Nat \ {0}
    BY <1>1, Pow2Next, Pow2Type DEF M
  <1>3. QED
    BY <1>2

(* The unit between two steps: of a dividend a = y*R + x the leading part  *)
(* y has been divided by b, giving q and h; x stands above q in the low    *)
(* word.  K * R = M.                                                       *)
Partial(pa, a, b, K, R, x, q, y, h) ==
  /\ x \in 0 .. R - 1 /\ q \in 0 .. K - 1 /\ y \in 0 .. K - 1 /\ h \in 0 .. M - 1
  /\ pa = h * M + (x * K + q)
  /\ a = y * R + x
  /\ y = q * b + h
  /\ b # 0 => h < b

(* The words of the register pair. *)
LEMMA PairParts ==
  ASSUME NEW h \in 0 .. M - 1, NEW l \in 0 .. M - 1
  PROVE  /\ Hi(h * M + l) = h
         /\ Lo(h * M + l) = l
         /\ h * M + l \in 0 .. M * M - 1
  <1>1. M \in Nat \ {0}
    BY WordBound
  <1>2. h * M + l \in Int
    BY <1>1
  <1>3. h * M <= (M - 1) * M
    BY <1>1
  <1>4. (M - 1) * M = M * M - M /\ h * M >= 0
    BY <1>1
  <1>5. QED
    BY <1>1, <1>2, <1>3, <1>4, DivModUnique DEF Hi, Lo

LEMMA LowWord ==
  ASSUME NEW K \in Nat \ {0}, NEW R \in Nat \ {0}, M = R * K,
         NEW x \in 0 .. R - 1, NEW q \in 0 .. K - 1
  PROVE  x * K + q \in 0 .. M - 1
  <1>1. x * K <= (R - 1) * K /\ x * K >= 0
    OBVIOUS
  <1>2. (R - 1) * K = M - K
    OBVIOUS
  <1>3. QED
    BY <1>1, <1>2

(* The pair shifted by one bit: t comes out of the low word, z stays there, *)
(* and the words are g and l.                                              *)
IsShift(pa, K, R, x, q, h, t, z, g, l) ==
  /\ t \in {0, 1} /\ z \in 0 .. R - 1 /\ g \in 0 .. M - 1 /\ l \in 0 .. M - 2
  /\ x = t * R + z
  /\ g = 2 * h + t
  /\ l = z * (2 * K) + 2 * q
  /\ (2 * pa) % (M * M) = g * M + l
  /\ Hi((2 * pa) % (M * M)) = g
  /\ Lo((2 * pa) % (M * M)) = l

LEMMA Shifted ==
  ASSUME NEW K \in Nat \ {0}, NEW R \in Nat \ {0}, M = (2 * R) * K,
         NEW pa, NEW a, NEW b \in Word, NEW x, NEW q, NEW y, NEW h,
         Partial(pa, a, b, K, 2 * R, x, q, y, h)
  PROVE  \E t, z, g, l : IsShift(pa, K, R, x, q, h, t, z, g, l)
  <1>1. PICK t \in {0, 1}, z \in 0 .. R - 1 : x = t * R + z
    <2>1. x \in 0 .. 2 * R - 1
      BY DEF Partial
    <2>2. CASE x < R
      <3>1. x \in 0 .. R - 1 /\ x = 0 * R + x
        BY <2>1, <2>2
      <3>2. QED
        BY <3>1
    <2>3. CASE x >= R
      <3>1. x - R \in 0 .. R - 1 /\ x = 1 * R + (x - R)
        BY <2>1, <2>3
      <3>2. QED
        BY <3>1
    <2>4. QED
      BY <2>1, <2>2, <2>3
  <1>2. PICK g, l : g = 2 * h + t /\ l = z * (2 * K) + 2 * q
    OBVIOUS
  <1>3. M \in Nat \ {0} /\ M = R * (2 * K) /\ 2 * K \in Nat \ {0} /\ 2 * K <= M
    BY WordBound
  <1>4. /\ b \in Nat /\ q \in 0 .. K - 1 /\ y \in 0 .. K - 1 /\ h \in Nat
        /\ y = q * b + h /\ pa = h * M + (x * K + q)
    BY <1>3 DEF Partial, Word
  <1>5. h \in 0 .. K - 1
    <2>1. q * b >= 0
      BY <1>4
    <2>2. QED
      BY <1>4, <2>1
  <1>6. g \in 0 .. M - 1
    BY <1>2, <1>3, <1>5
  <1>7. l \in 0 .. M - 2
    <2>1. 2 * q + 1 \in 0 .. 2 * K - 1
      BY <1>4
    <2>2. z * (2 * K) + (2 * q + 1) \in 0 .. M - 1
      BY <1>3, <2>1, LowWord
    <2>3. z * (2 * K) \in Nat
      OBVIOUS
    <2>4. QED
      BY <1>2, <1>4, <2>2, <2>3
  <1>8. 2 * pa = g * M + l
    <2>1. x * K = t * (R * K) + z * K /\ z * K \in Int /\ R * K \in Int /\ h * M \in Int
      BY <1>1, <1>3, <1>4
    <2>2. 2 * (x * K) = t * M + z * (2 * K)
      BY <1>3, <2>1
    <2>3. 2 * (h * M + (x * K + q)) = 2 * (h * M) + (2 * (x * K) + 2 * q)
      BY <1>4, <2>1
    <2>4. g * M = 2 * (h * M) + t * M
      BY <1>2, <1>3, <1>4
    <2>5. QED
      BY <1>2, <1>3, <1>4, <2>1, <2>2, <2>3, <2>4
  <1>9. (2 * pa) % (M * M) = g * M + l
    <2>1. g * M + l \in 0 .. M * M - 1
      BY <1>3, <1>6, <1>7, PairParts
    <2>2. M * M \in Nat \ {0}
      BY <1>3
    <2>3. QED
      BY <1>8, <2>1, <2>2, SmallMod
  <1>10. Hi(g * M + l) = g /\ Lo(g * M + l) = l
    <2>1. l \in 0 .. M - 1
      BY <1>3, <1>7
    <2>2. QED
      BY <1>6, <2>1, PairParts, Zenon
  <1>11. QED
    BY <1>1, <1>2, <1>6, <1>7, <1>9, <1>10 DEF IsShift

(* A step takes one bit more of the dividend. *)
LEMMA DivStepPartial ==
  ASSUME NEW K \in Nat \ {0}, NEW R \in Nat \ {0}, M = (2 * R) * K,
         NEW pa, NEW a, NEW b \in Word, NEW x, NEW q, NEW y, NEW h,
         Partial(pa, a, b, K, 2 * R, x, q, y, h)
  PROVE  \E x1, q1, y1, h1 : Partial(div_step(pa, b), a, b, 2 * K, R, x1, q1, y1, h1)
  <1>1. PICK t, z, g, l : IsShift(pa, K, R, x, q, h, t, z, g, l)
    BY Shifted, Zenon
  <1>2. M \in Nat \ {0}
    BY WordBound
  <1>3. /\ b \in Nat /\ q \in 0 .. K - 1 /\ y \in 0 .. K - 1 /\ h \in Nat
        /\ y = q * b + h /\ a = y * (2 * R) + x /\ (b # 0 => h < b)
    BY <1>2 DEF Partial, Word
  <1>4. 2 * y + t \in 0 .. 2 * K - 1
    BY <1>1, <1>3 DEF IsShift
  <1>5. a = (2 * y + t) * R + z
    <2>1. y * (2 * R) = (2 * y) * R
      BY <1>1, <1>3 DEF IsShift
    <2>2. (2 * y + t) * R = (2 * y) * R + t * R
      BY <1>1, <1>3 DEF IsShift
    <2>3. QED
      BY <1>1, <1>3, <2>1, <2>2 DEF IsShift
  <1>6. 2 * y + t = (2 * q) * b + g
    <2>1. (2 * q) * b = 2 * (q * b)
      BY <1>1, <1>3 DEF IsShift
    <2>2. QED
      BY <1>1, <1>3, <2>1 DEF IsShift
  <1>7. z * (2 * K) \in Int /\ z * (2 * K) + (2 * q + 1) = l + 1
    BY <1>1, <1>3 DEF IsShift
  <1>8. CASE g >= b
    <2>1. Hi((2 * pa) % (M * M)) - b >= 0
      BY <1>1, <1>3, <1>8 DEF IsShift
    <2>2. div_step(pa, b) = (g - b) * M + l + 1
      BY <1>1, <2>1 DEF div_step, IsShift
    <2>3. (g - b) * M \in Int /\ l \in Int
      BY <1>1, <1>2, <1>3 DEF IsShift
    <2>4. div_step(pa, b) = (g - b) * M + (z * (2 * K) + (2 * q + 1))
      BY <1>1, <1>7, <2>2, <2>3 DEF IsShift
    <2>5. 2 * q + 1 \in 0 .. 2 * K - 1 /\ g - b \in 0 .. M - 1
      BY <1>1, <1>3, <1>8 DEF IsShift
    <2>6. 2 * y + t = (2 * q + 1) * b + (g - b)
      <3>1. (2 * q + 1) * b = (2 * q) * b + b
        BY <1>1, <1>3 DEF IsShift
      <3>2. QED
        BY <1>1, <1>3, <1>6, <3>1 DEF IsShift
    <2>7. b # 0 => g - b < b
      BY <1>1, <1>3 DEF IsShift
    <2>8. Partial(div_step(pa, b), a, b, 2 * K, R, z, 2 * q + 1, 2 * y + t, g - b)
      BY <1>1, <1>4, <1>5, <2>4, <2>5, <2>6, <2>7 DEF Partial, IsShift
    <2>9. QED
      BY <2>8
  <1>9. CASE g < b
    <2>1. ~(Hi((2 * pa) % (M * M)) - b >= 0)
      BY <1>1, <1>3, <1>9 DEF IsShift
    <2>2. div_step(pa, b) = g * M + (z * (2 * K) + 2 * q)
      BY <1>1, <2>1 DEF div_step, IsShift
    <2>3. 2 * q \in 0 .. 2 * K - 1
      BY <1>1, <1>3 DEF IsShift
    <2>4. Partial(div_step(pa, b), a, b, 2 * K, R, z, 2 * q, 2 * y + t, g)
      BY <1>1, <1>4, <1>5, <1>6, <1>9, <2>2, <2>3 DEF Partial, IsShift
    <2>5. QED
      BY <2>4
  <1>10. QED
    BY <1>1, <1>3, <1>8, <1>9 DEF IsShift

(* The words a division begins with.                                       *)
LEMMA SignWords ==
  /\ \A w \in Word : Neg(w) \in Word /\ Magnitude(w) \in Word
  /\ \A w \in Word : (-w) % M = Neg(w)
  /\ \A w \in Word : w % M = w
  /\ \A w \in Word : Signed(w) = IF Negative(w) THEN -Magnitude(w) ELSE Magnitude(w)
  /\ \A w \in Word : Signed(w) < 0 <=> Negative(w)
  /\ \A w \in Word : Negative(w) => Neg(Magnitude(w)) = w
  /\ \A w \in Word : Magnitude(w) = 0 <=> w = 0
  <1>1. M \in Nat \ {0} /\ M >= 2 /\ 2 * (M \div 2) = M /\ M \div 2 \in Nat \ {0}
    BY WordBound
  <1>2. SUFFICES ASSUME NEW w \in Word
                 PROVE  /\ Neg(w) \in Word /\ Magnitude(w) \in Word
                        /\ (-w) % M = Neg(w)
                        /\ w % M = w
                        /\ Signed(w) = IF Negative(w) THEN -Magnitude(w) ELSE Magnitude(w)
                        /\ Signed(w) < 0 <=> Negative(w)
                        /\ Negative(w) => Neg(Magnitude(w)) = w
                        /\ Magnitude(w) = 0 <=> w = 0
    BY Zenon
  <1>3. w \in 0 .. M - 1
    BY DEF Word
  <1>4. w % M = w
    BY <1>1, <1>3, SmallMod
  <1>5. CASE w = 0
    <2>1. (M - w) % M = 0 /\ (-w) % M = 0
      <3>1. M - w = 1 * M + 0 /\ -w = 0 * M + 0
        BY <1>1, <1>5
      <3>2. QED
        BY <1>1, <1>5, <3>1, DivModUnique
    <2>2. QED
      BY <1>1, <1>4, <1>5, <2>1 DEF Neg, Magnitude, Negative, Signed, Word
  <1>6. CASE w # 0
    <2>1. M - w \in 0 .. M - 1 /\ -w = (-1) * M + (M - w)
      BY <1>1, <1>3, <1>6
    <2>2. (M - w) % M = M - w
      BY <1>1, <2>1, SmallMod
    <2>3. (-w) % M = M - w
      <3>1. Euclid(-w, M, -1, M - w)
        BY <1>1, <1>3, <2>1 DEF Euclid
      <3>2. QED
        BY <3>1, EuclidDivMod, Zenon
    <2>4. (M - (M - w)) % M = w
      BY <1>1, <1>3, <1>4
    <2>5. QED
      BY <1>1, <1>3, <1>4, <1>6, <2>1, <2>2, <2>3, <2>4 DEF Neg, Magnitude, Negative, Signed, Word
  <1>7. QED
    BY <1>5, <1>6

Divisor == IF req.op \in {"div", "rem"} THEN Magnitude(req.b) ELSE req.b

(* The division is the one requested, and begun: its leading Done bits have *)
(* been divided.                                                           *)
DivInv ==
  /\ TypeOK
  /\ div_bsy =>
       /\ req \in Request
       /\ Q_addr_reg = req.wad
       /\ B = Divisor
       /\ is_div = (req.op \in {"div", "divu"})
       /\ is_neg = ResultSign(req.op, req.a, req.b)
       /\ \E x, q, y, h : Partial(PA, Dividend, B, Pow2[Done], Pow2[W - Done], x, q, y, h)

(* A division is under way: the parts of K and R of the step. *)
LEMMA Scale ==
  ASSUME TypeOK, div_bsy
  PROVE  /\ Done \in 0 .. W /\ W - Done \in 0 .. W
         /\ Pow2[Done] \in Nat \ {0} /\ Pow2[W - Done] \in Nat \ {0}
         /\ M = Pow2[W - Done] * Pow2[Done]
  <1>1. Done \in 0 .. W /\ W - Done \in 0 .. W /\ (W - Done) + Done = W
    BY WAssumption DEF TypeOK, div_bsy, Done
  <1>2. QED
    BY <1>1, WAssumption, Pow2Sum, Pow2Type DEF M

LEMMA PartialWord ==
  ASSUME NEW K \in Nat \ {0}, NEW R \in Nat \ {0}, M = R * K,
         NEW pa, NEW a, NEW b, NEW x, NEW q, NEW y, NEW h, Partial(pa, a, b, K, R, x, q, y, h)
  PROVE  /\ pa \in 0 .. M * M - 1
         /\ Hi(pa) = h /\ Lo(pa) = x * K + q
         /\ pa % K = q
         /\ Lo(pa) \div K = x
  <1>1. M \in Nat \ {0}
    BY WordBound
  <1>2. /\ x \in 0 .. R - 1 /\ q \in 0 .. K - 1 /\ h \in 0 .. M - 1
        /\ pa = h * M + (x * K + q)
    BY DEF Partial
  <1>3. x * K + q \in 0 .. M - 1
    BY <1>2, LowWord
  <1>4. pa \in 0 .. M * M - 1 /\ Hi(pa) = h /\ Lo(pa) = x * K + q
    BY <1>2, <1>3, PairParts
  <1>5. (x * K + q) \div K = x
    BY <1>2, <1>3, DivModUnique
  <1>6. pa % K = q
    <2>1. h * M = (h * R) * K
      BY <1>2
    <2>2. (h * R) * K + x * K = (h * R + x) * K
      BY <1>2
    <2>3. h * R + x \in Int /\ (h * R) * K \in Int /\ x * K \in Int
      BY <1>2
    <2>4. pa = (h * R + x) * K + q
      BY <1>2, <2>1, <2>2, <2>3
    <2>5. Euclid(pa, K, h * R + x, q)
      <3>1. pa \in Int
        BY <1>1, <1>4
      <3>2. QED
        BY <1>2, <2>3, <2>4, <3>1 DEF Euclid
    <2>6. QED
      BY <2>5, EuclidDivMod, Zenon
  <1>7. QED
    BY <1>4, <1>5, <1>6

LEMMA DivInvInit == Init => DivInv
  <1>1. 0 \in 0 .. M * M - 1 /\ 0 \in Word
    BY WordBound DEF Word
  <1>2. 0 \in 0 .. W + 1
    BY WAssumption
  <1>3. QED
    BY <1>1, <1>2, RegAssumption, Zenon DEF Init, DivInv, TypeOK, div_bsy

LEMMA FirstPartial ==
  ASSUME NEW a \in Word, NEW b \in Word
  PROVE  Partial(a, a, b, 1, M, a, 0, 0, 0)
  <1>1. M \in Nat \ {0} /\ a \in 0 .. M - 1 /\ b \in 0 .. M - 1
    BY WordBound DEF Word
  <1>2. a = 0 * M + (a * 1 + 0) /\ 0 = 0 * b + 0 /\ (b # 0 => 0 < b)
    BY <1>1
  <1>3. 0 \in 0 .. 1 - 1 /\ 0 \in 0 .. M - 1
    BY <1>1
  <1>4. QED
    BY <1>1, <1>2, <1>3 DEF Partial

LEMMA DivInvStart ==
  ASSUME TypeOK, NEW op \in Op, NEW a \in Word, NEW b \in Word, NEW wad \in Reg,
         Start(op, a, b, wad)
  PROVE  DivInv'
  <1>1. M \in Nat \ {0} /\ M >= 2
    BY WordBound
  <1>2. Magnitude(a) \in Word /\ Magnitude(b) \in Word
    BY SignWords
  <1>3. PA' = Dividend' /\ PA' \in Word /\ B' = Divisor' /\ B' \in Word
    BY <1>2 DEF Start, Dividend, Divisor
  <1>4. PA' \in 0 .. M * M - 1
    <2>1. M - 1 <= M * M - 1
      BY <1>1
    <2>2. M * M \in Nat
      BY <1>1
    <2>3. QED
      BY <1>1, <1>3, <2>1, <2>2 DEF Word
  <1>5. TypeOK'
    BY <1>3, <1>4, WAssumption DEF TypeOK, Start, ResultSign, Request
  <1>6. Pow2[Done'] = 1 /\ Pow2[W - Done'] = M
    <2>1. Done' = 0 /\ W - Done' = W
      BY WAssumption DEF Start, Done
    <2>2. QED
      BY <2>1, Pow2Zero DEF M
  <1>7. Partial(PA', Dividend', B', 1, M, PA', 0, 0, 0)
    BY <1>3, FirstPartial
  <1>8. QED
    <2>1. Partial(PA', Dividend', B', Pow2[Done'], Pow2[W - Done'], PA', 0, 0, 0)
      BY <1>6, <1>7
    <2>2. /\ req' \in Request
          /\ Q_addr_reg' = req'.wad
          /\ is_div' = (req'.op \in {"div", "divu"})
          /\ is_neg' = ResultSign(req'.op, req'.a, req'.b)
      BY DEF Start, Request
    <2>3. QED
      BY <1>3, <1>5, <2>1, <2>2, Zenon DEF DivInv

LEMMA DivInvStep ==
  ASSUME DivInv, Step
  PROVE  DivInv'
  <1>1. /\ TypeOK /\ div_bsy
        /\ req \in Request
        /\ Q_addr_reg = req.wad
        /\ B = Divisor
        /\ is_div = (req.op \in {"div", "divu"})
        /\ is_neg = ResultSign(req.op, req.a, req.b)
        /\ B \in Word
    BY DEF DivInv, Step, div_bsy, TypeOK
  <1>2. PICK x, q, y, h : Partial(PA, Dividend, B, Pow2[Done], Pow2[W - Done], x, q, y, h)
    BY <1>1 DEF DivInv
  <1> DEFINE K == Pow2[Done]
             R == Pow2[W - Done']
  <1>3. /\ Done \in Nat /\ Done' = Done + 1 /\ W - Done' \in Nat
        /\ W - Done = (W - Done') + 1
    BY <1>1, WAssumption DEF Step, TypeOK, Done
  <1>4. Pow2[W - Done] = 2 * R /\ Pow2[Done'] = 2 * K
    BY <1>3, Pow2Next
  <1>5. K \in Nat \ {0} /\ R \in Nat \ {0} /\ M = (2 * R) * K
    BY <1>1, <1>3, <1>4, Scale, Pow2Type
  <1>6. PA' = div_step(PA, B)
    BY DEF Step
  <1>7. Partial(PA, Dividend, B, K, 2 * R, x, q, y, h)
    BY <1>2, <1>4
  <1>8. Dividend' = Dividend /\ Divisor' = Divisor
    BY DEF Step, Dividend, Divisor
  <1> HIDE DEF K, R
  <1>9. \E x1, q1, y1, h1 : Partial(PA', Dividend, B, 2 * K, R, x1, q1, y1, h1)
    BY <1>1, <1>5, <1>6, <1>7, DivStepPartial, Zenon
  <1>10. PA' \in 0 .. M * M - 1
    <2>1. PICK x1, q1, y1, h1 : Partial(PA', Dividend, B, 2 * K, R, x1, q1, y1, h1)
      BY <1>9
    <2>2. 2 * K \in Nat \ {0} /\ M = R * (2 * K)
      BY <1>5
    <2>3. QED
      BY <1>5, <2>1, <2>2, PartialWord, Zenon
  <1>11. TypeOK'
    <2>1. cnt' \in 0 .. W + 1
      BY <1>1, WAssumption DEF TypeOK, Step
    <2>2. QED
      BY <1>1, <1>10, <2>1 DEF TypeOK, Step
  <1>12. \E x1, q1, y1, h1 :
           Partial(PA', Dividend', B', Pow2[Done'], Pow2[W - Done'], x1, q1, y1, h1)
    <2>1. B' = B
      BY DEF Step
    <2>2. QED
      BY <1>4, <1>8, <1>9, <2>1 DEF R
  <1>13. QED
    <2>1. UNCHANGED <<B, Q_addr_reg, is_div, is_neg, req>>
      BY DEF Step
    <2>2. QED
      BY <1>1, <1>8, <1>11, <1>12, <2>1 DEF DivInv

(* What Finish writes: the last step has been made. *)
LEMMA FinishParts ==
  ASSUME DivInv, cnt = 1
  PROVE  /\ Lo(PA) \in Word /\ Hi(PA) \in Word
         /\ Dividend = Lo(PA) * B + Hi(PA)
         /\ B # 0 => Lo(PA) = Dividend \div B /\ Hi(PA) = Dividend % B
         /\ Dividend \in Word
  <1>1. TypeOK /\ div_bsy /\ req \in Request /\ B \in Word
    BY DEF DivInv, div_bsy, TypeOK
  <1>2. PICK x, q, y, h : Partial(PA, Dividend, B, Pow2[Done], Pow2[W - Done], x, q, y, h)
    BY <1>1 DEF DivInv
  <1>3. Pow2[Done] = M /\ Pow2[W - Done] = 1
    <2>1. Done = W /\ W - Done = 0
      BY WAssumption DEF Done
    <2>2. QED
      BY <2>1, Pow2Zero DEF M
  <1>4. Partial(PA, Dividend, B, M, 1, x, q, y, h)
    BY <1>2, <1>3
  <1>5. M \in Nat \ {0}
    BY WordBound
  <1>6. Hi(PA) = h /\ Lo(PA) = x * M + q
    BY <1>4, <1>5, PartialWord
  <1>7. x = 0 /\ q \in 0 .. M - 1 /\ h \in 0 .. M - 1 /\ Dividend = q * B + h /\ (B # 0 => h < B)
    BY <1>4, <1>5 DEF Partial
  <1>8. Lo(PA) = q
    BY <1>5, <1>6, <1>7
  <1>9. B # 0 => Euclid(Dividend, B, q, h)
    BY <1>1, <1>5, <1>7 DEF Euclid, Word
  <1>10. B # 0 => q = Dividend \div B /\ h = Dividend % B
    BY <1>9, EuclidDivMod, Zenon
  <1>11. Dividend \in Word
    BY <1>1, SignWords DEF Dividend, Request
  <1>12. QED
    BY <1>6, <1>7, <1>8, <1>10, <1>11 DEF Word

LEMMA TruncatedWords ==
  ASSUME NEW a \in Word, NEW b \in Word
  PROVE  Truncated(Signed(a), Signed(b)) =
           IF Negative(a) = Negative(b) THEN Magnitude(a) \div Magnitude(b)
           ELSE -(Magnitude(a) \div Magnitude(b))
  <1>1. M \in Nat \ {0} /\ Magnitude(a) \in Nat /\ Magnitude(b) \in Nat
    BY WordBound, SignWords DEF Word
  <1>2. Abs(Signed(a)) = Magnitude(a) /\ Abs(Signed(b)) = Magnitude(b)
    <2>1. /\ Signed(a) = IF Negative(a) THEN -Magnitude(a) ELSE Magnitude(a)
          /\ Signed(b) = IF Negative(b) THEN -Magnitude(b) ELSE Magnitude(b)
      BY SignWords
    <2>2. QED
      BY <1>1, <2>1 DEF Abs
  <1>3. (Signed(a) < 0 <=> Negative(a)) /\ (Signed(b) < 0 <=> Negative(b))
    BY SignWords
  <1>4. ((Signed(a) < 0) = (Signed(b) < 0)) <=> (Negative(a) = Negative(b))
    BY <1>3 DEF Negative
  <1>5. QED
    BY <1>2, <1>4 DEF Truncated

LEMMA ProductSigns ==
  \A m, n \in Int : /\ (-m) * n = -(n * m) /\ m * (-n) = -(n * m)
                    /\ (-m) * (-n) = n * m /\ m * n = n * m
  OBVIOUS

(* The value the unit writes is that of the behavioural model.             *)
LEMMA Answer ==
  ASSUME DivInv, cnt = 1
  PROVE  Result = Reference(req.op, req.a, req.b)
  <1> DEFINE a == req.a
             b == req.b
             q == Lo(PA)
             h == Hi(PA)
  <1>1. /\ a \in Word /\ b \in Word /\ req.op \in Op
        /\ B = Divisor
        /\ is_div = (req.op \in {"div", "divu"})
        /\ is_neg = ResultSign(req.op, a, b)
    BY DEF DivInv, div_bsy, Request
  <1>2. /\ q \in Word /\ h \in Word /\ Dividend = q * B + h
        /\ B # 0 => q = Dividend \div B /\ h = Dividend % B
    BY FinishParts
  <1>3. M \in Nat \ {0} /\ Word = 0 .. M - 1
    BY WordBound DEF Word
  <1>4. /\ Magnitude(a) \in Word /\ Magnitude(b) \in Word
        /\ Magnitude(b) = 0 <=> b = 0
        /\ q % M = q /\ h % M = h /\ (-q) % M = Neg(q) /\ (-h) % M = Neg(h)
    BY <1>1, <1>2, SignWords
  <1>5. B = 0 => Dividend = h
    BY <1>2, <1>3
  <1>6. Result = IF B = 0 /\ is_div THEN M - 1
                 ELSE IF is_neg THEN Neg(IF is_div THEN q ELSE h)
                 ELSE IF is_div THEN q ELSE h
    BY DEF Result
  <1>7. CASE req.op = "divu"
    <2>1. is_div /\ ~is_neg /\ B = b /\ Dividend = a
      BY <1>1, <1>7 DEF ResultSign, Divisor, Dividend
    <2>2. Reference(req.op, a, b) = IF b = 0 THEN M - 1 ELSE a \div b
      BY <1>7 DEF Reference
    <2>3. QED
      BY <1>2, <1>6, <2>1, <2>2
  <1>8. CASE req.op = "remu"
    <2>1. ~is_div /\ ~is_neg /\ B = b /\ Dividend = a
      BY <1>1, <1>8 DEF ResultSign, Divisor, Dividend
    <2>2. Reference(req.op, a, b) = IF b = 0 THEN a ELSE a % b
      BY <1>8 DEF Reference
    <2>3. QED
      BY <1>2, <1>5, <1>6, <2>1, <2>2
  <1>9. CASE req.op = "div"
    <2>1. /\ is_div /\ B = Magnitude(b) /\ Dividend = Magnitude(a)
          /\ is_neg = (Negative(a) # Negative(b))
      <3>1. Negative(a) \in BOOLEAN /\ Negative(b) \in BOOLEAN
        BY DEF Negative
      <3>2. is_neg = (Negative(a) # Negative(b))
        BY <1>1, <1>9, <3>1 DEF ResultSign
      <3>3. QED
        BY <1>1, <1>9, <3>2 DEF Divisor, Dividend
    <2>2. Reference(req.op, a, b) =
            IF b = 0 THEN M - 1 ELSE Truncated(Signed(a), Signed(b)) % M
      BY <1>9 DEF Reference, Wrap
    <2>3. b # 0 => Truncated(Signed(a), Signed(b)) = IF is_neg THEN -q ELSE q
      <3>1. Truncated(Signed(a), Signed(b)) =
              IF Negative(a) = Negative(b) THEN Magnitude(a) \div Magnitude(b)
              ELSE -(Magnitude(a) \div Magnitude(b))
        BY <1>1, TruncatedWords
      <3>2. b # 0 => q = Magnitude(a) \div Magnitude(b)
        BY <1>2, <1>4, <2>1
      <3>3. Negative(a) \in BOOLEAN /\ Negative(b) \in BOOLEAN
        BY DEF Negative
      <3> HIDE DEF q
      <3>4. QED
        BY <2>1, <3>1, <3>2, <3>3
    <2>4. QED
      BY <1>4, <1>6, <2>1, <2>2, <2>3
  <1>10. CASE req.op = "rem"
    <2>1. /\ ~is_div /\ B = Magnitude(b) /\ Dividend = Magnitude(a)
          /\ is_neg = Negative(a)
      <3>1. Negative(a) \in BOOLEAN
        BY DEF Negative
      <3>2. is_neg = Negative(a)
        BY <1>1, <1>10, <3>1 DEF ResultSign
      <3>3. QED
        BY <1>1, <1>10, <3>2 DEF Divisor, Dividend
    <2>2. Reference(req.op, a, b) =
            IF b = 0 THEN a
            ELSE (Signed(a) - Signed(b) * Truncated(Signed(a), Signed(b))) % M
      BY <1>10 DEF Reference, Wrap
    <2>3. Negative(a) => Neg(Magnitude(a)) = a
      BY <1>1, SignWords
    <2>4. ~Negative(a) => Magnitude(a) = a
      BY DEF Magnitude
    <2>5. CASE b = 0
      BY <1>4, <1>5, <1>6, <2>1, <2>2, <2>3, <2>4, <2>5
    <2>6. CASE b # 0
      <3> DEFINE t == Truncated(Signed(a), Signed(b))
      <3>1. t = IF Negative(a) = Negative(b) THEN q ELSE -q
        BY <1>1, <1>2, <1>4, <2>1, <2>6, TruncatedWords
      <3>2. /\ Signed(a) = IF Negative(a) THEN -Magnitude(a) ELSE Magnitude(a)
            /\ Signed(b) = IF Negative(b) THEN -Magnitude(b) ELSE Magnitude(b)
        BY <1>1, SignWords
      <3> HIDE DEF t, q, h, a, b
      <3>3. Signed(b) * t = IF Negative(a) THEN -(q * B) ELSE q * B
        <4>1. /\ (-B) * q = -(q * B) /\ B * (-q) = -(q * B)
              /\ (-B) * (-q) = q * B /\ B * q = q * B
          <5>1. B \in Int /\ q \in Int
            BY <1>2, <1>3, <1>4, <2>1
          <5>2. QED
            BY <5>1, ProductSigns, Zenon
        <4>2. Negative(a) \in BOOLEAN /\ Negative(b) \in BOOLEAN
          BY DEF Negative
        <4>3. QED
          BY <2>1, <3>1, <3>2, <4>1, <4>2
      <3>4. Signed(a) - Signed(b) * t = IF Negative(a) THEN -h ELSE h
        <4>1. B \in Int /\ q \in Int /\ h \in Int /\ q * B \in Int
          BY <1>2, <1>3, <1>4, <2>1
        <4>2. QED
          BY <1>2, <2>1, <3>2, <3>3, <4>1
      <3>5. Reference(req.op, a, b) = IF Negative(a) THEN Neg(h) ELSE h
        BY <1>4, <2>2, <2>6, <3>4 DEF t
      <3>6. QED
        BY <1>6, <2>1, <3>5 DEF q, h, a, b
    <2>7. QED
      BY <2>5, <2>6
  <1>11. QED
    BY <1>1, <1>7, <1>8, <1>9, <1>10 DEF Op

LEMMA DivInvFinish ==
  ASSUME DivInv, Finish
  PROVE  DivInv'
  <1>1. TypeOK /\ cnt' = 0 /\ req' = None /\ UNCHANGED <<PA, B, Q_addr_reg, is_div, is_neg>>
    BY DEF DivInv, Finish, TypeOK
  <1>2. Result \in Word
    <2>1. Lo(PA) \in Word /\ Hi(PA) \in Word
      BY FinishParts DEF Finish
    <2>2. M - 1 \in Word
      BY WordBound DEF Word
    <2>3. Neg(Lo(PA)) \in Word /\ Neg(Hi(PA)) \in Word
      BY <2>1, SignWords
    <2>4. QED
      BY <2>1, <2>2, <2>3, Zenon DEF Result
  <1>3. x_w1' \in Reg \X Word
    BY <1>1, <1>2 DEF Finish, TypeOK
  <1>4. cnt' \in 0 .. W + 1
    BY <1>1, WAssumption
  <1>5. QED
    BY <1>1, <1>3, <1>4, Zenon DEF DivInv, TypeOK, div_bsy

LEMMA DivInvNext ==
  ASSUME DivInv, [Next]_vars
  PROVE  DivInv'
  <1>1. CASE \E op \in Op, a \in Word, b \in Word, wad \in Reg : Start(op, a, b, wad)
    BY <1>1, DivInvStart DEF DivInv
  <1>2. CASE NoStart(0)
    BY <1>2, Zenon DEF NoStart, DivInv, TypeOK, div_bsy
  <1>3. CASE Step
    BY <1>3, DivInvStep
  <1>4. CASE Finish
    BY <1>4, DivInvFinish
  <1>5. CASE UNCHANGED vars
    BY <1>5, Zenon DEF vars, DivInv, TypeOK, div_bsy, Divisor, Dividend, Done
  <1>6. QED
    BY <1>1, <1>2, <1>3, <1>4, <1>5 DEF Next

(* The unit's registers and its history keep their types, the register pair *)
(* within two words: no step overflows it (lib/div.p).                     *)
THEOREM DividerTypeCorrect == Spec => []TypeOK
  <1>1. DivInv => TypeOK
    BY DEF DivInv
  <1>2. QED
    BY <1>1, DivInvInit, DivInvNext, PTL DEF Spec

(* After any number of steps the pair holds the exact quotient and         *)
(* remainder of the leading bits of the dividend, for words of any width.  *)
THEOREM DivisionPartial == Spec => []PartialDivision
  <1>1. DivInv => PartialDivision
    <2>1. SUFFICES ASSUME DivInv, div_bsy
                   PROVE  /\ Lo(PA) \div Pow2[Done] = Dividend % Pow2[W - Done]
                          /\ Dividend \div Pow2[W - Done] = Quotient * B + Hi(PA)
                          /\ B # 0 => Hi(PA) < B
      BY DEF PartialDivision
    <2>2. PICK x, q, y, h : Partial(PA, Dividend, B, Pow2[Done], Pow2[W - Done], x, q, y, h)
      BY <2>1 DEF DivInv
    <2> DEFINE K == Pow2[Done]
               R == Pow2[W - Done]
    <2>3. K \in Nat \ {0} /\ R \in Nat \ {0} /\ M = R * K
      BY <2>1, Scale DEF DivInv
    <2> HIDE DEF K, R
    <2>4. Partial(PA, Dividend, B, K, R, x, q, y, h)
      BY <2>2 DEF K, R
    <2>5. Hi(PA) = h /\ PA % K = q /\ Lo(PA) \div K = x
      BY <2>3, <2>4, PartialWord, Zenon
    <2>6. y = q * B + h /\ (B # 0 => h < B)
      BY <2>4 DEF Partial
    <2>7. Euclid(Dividend, R, y, x)
      BY <2>3, <2>4 DEF Partial, Euclid
    <2>8. Dividend \div R = y /\ Dividend % R = x
      BY <2>7, EuclidDivMod, Zenon
    <2>9. QED
      BY <2>5, <2>6, <2>8 DEF Quotient, K, R
  <1>2. QED
    BY <1>1, DivInvInit, DivInvNext, PTL DEF Spec

(* What is written back is the reference result of the division requested,  *)
(* in the register requested, for every operand pair of every width: zero   *)
(* divisors and the quotient that overflows among them (div_step, div_end).  *)
THEOREM DivisionAnswers == Spec => AnswersReference
  <1>1. ASSUME DivInv, [Next]_vars
        PROVE  [x_w1' # None => x_w1' = <<req.wad, Reference(req.op, req.a, req.b)>>]_vars
    <2>1. CASE Finish
      <3>1. Q_addr_reg = req.wad
        BY <1>1, <2>1 DEF DivInv, Finish, div_bsy
      <3>2. QED
        BY <1>1, <2>1, <3>1, Answer DEF Finish
    <2>2. CASE UNCHANGED vars
      BY <2>2
    <2>3. QED
      BY <1>1, <2>1, <2>2 DEF Next, Start, NoStart, Step
  <1>2. QED
    BY <1>1, DivInvInit, DivInvNext, PTL DEF Spec, AnswersReference

(***************************************************************************)
(* The CNN unit.                                                           *)
(***************************************************************************)

Half == Pow2[Width - 1]

LEMMA SignedRange ==
  /\ Half \in Nat \ {0} /\ Pow2[Width] = 2 * Half
  /\ MIN_INT = -Half /\ MAX_INT = Half - 1
  /\ SignedWord = -Half .. Half - 1
  <1>1. Width - 1 \in Nat /\ (Width - 1) + 1 = Width
    BY WidthAssumption
  <1>2. QED
    BY <1>1, Pow2Next, Pow2Type DEF Half, MIN_INT, MAX_INT, SignedWord

(* n is the word w, but for what a word cannot hold.                       *)
Congruent(n, w) == \E k \in Int : n = w + k * (2 * Half)

LEMMA LowCongruent ==
  ASSUME NEW n \in Int
  PROVE  Low(n) \in SignedWord /\ Congruent(n, Low(n))
  <1> DEFINE F == 2 * Half
             k == (n + Half) \div F
             r == (n + Half) % F
  <1>1. F \in Nat \ {0} /\ n + Half \in Int
    BY SignedRange
  <1>2. n + Half = k * F + r /\ r \in 0 .. F - 1 /\ k \in Int
    BY <1>1, DivMod
  <1>3. Low(n) = r - Half
    <2>1. n - MIN_INT = n + Half /\ (n + Half) % Pow2[Width] = r
      BY SignedRange
    <2>2. r + MIN_INT = r - Half
      BY <1>1, <1>2, SignedRange
    <2> HIDE DEF r
    <2>3. QED
      BY <2>1, <2>2 DEF Low
  <1> HIDE DEF k, r
  <1>4. r - Half \in -Half .. Half - 1
    BY <1>2, SignedRange
  <1>5. k * F \in Int /\ n = (r - Half) + k * F
    BY <1>1, <1>2, SignedRange
  <1>6. QED
    BY <1>2, <1>3, <1>4, <1>5, SignedRange DEF Congruent

LEMMA LowWordSame ==
  ASSUME NEW n \in Int, NEW w \in SignedWord, Congruent(n, w), n \in SignedWord
  PROVE  n = w
  <1>1. PICK k \in Int : n = w + k * (2 * Half)
    BY DEF Congruent
  <1>2. n \in -Half .. Half - 1 /\ w \in -Half .. Half - 1 /\ Half \in Nat \ {0}
    BY SignedRange
  <1>3. k * (2 * Half) = n - w /\ n - w < 2 * Half /\ n - w > -(2 * Half)
    BY <1>1, <1>2
  <1>4. CASE k >= 1
    <2>1. k * (2 * Half) >= 2 * Half
      BY <1>2, <1>4
    <2>2. QED
      BY <1>2, <1>3, <2>1
  <1>5. CASE k <= -1
    <2>1. k * (2 * Half) <= -(2 * Half)
      BY <1>2, <1>5
    <2>2. QED
      BY <1>2, <1>3, <2>1
  <1>6. CASE k = 0
    BY <1>2, <1>3, <1>6
  <1>7. QED
    BY <1>4, <1>5, <1>6

LEMMA SaturatedWord ==
  ASSUME NEW n \in Int
  PROVE  SATURATION(n) \in SignedWord
  BY SignedRange, LowCongruent DEF SATURATION

(* The parameter of the last saturation is a word already.                 *)
LEMMA WordSaturated ==
  ASSUME NEW n \in SignedWord
  PROVE  SATURATION(n) = n
  <1>1. n \in Int /\ Low(n) \in SignedWord /\ Congruent(n, Low(n))
    BY LowCongruent, SignedRange
  <1>2. Low(n) = n
    BY <1>1, LowWordSame
  <1>3. QED
    BY <1>2, SignedRange DEF SATURATION

LEMMA CongruentSum ==
  ASSUME NEW s \in Int, NEW x \in Int, NEW y \in Int, NEW p \in Int,
         NEW k \in Int, NEW m \in Int,
         s = x + k * (2 * Half), x + p = y + m * (2 * Half)
  PROVE  Congruent(s + p, y)
  <1>1. Half \in Nat
    BY SignedRange
  <1>2. (k + m) * (2 * Half) = k * (2 * Half) + m * (2 * Half)
    BY <1>1
  <1>3. k * (2 * Half) \in Int /\ m * (2 * Half) \in Int
    BY <1>1
  <1>4. s + p = y + (k + m) * (2 * Half)
    BY <1>2, <1>3
  <1>5. k + m \in Int
    OBVIOUS
  <1>6. QED
    BY <1>4, <1>5, Zenon DEF Congruent

CnnInv ==
  /\ X22 \in SignedWord /\ X23 \in SignedWord /\ X24 \in SignedWord
  /\ steps \in 0 .. MaxSteps
  /\ sum \in Int
  /\ Congruent(sum, X22)

LEMMA ZeroWord == 0 \in SignedWord /\ Congruent(0, 0)
  <1>1. 0 = 0 + 0 * (2 * Half)
    BY SignedRange
  <1>2. QED
    BY <1>1, SignedRange DEF Congruent

LEMMA CnnInvInit == CnnInit => CnnInv
  BY ZeroWord, WidthAssumption DEF CnnInit, CnnInv

LEMMA CnnInvStep ==
  ASSUME CnnInv, NEW a \in SignedWord, NEW b \in SignedWord, IncMac(a, b)
  PROVE  CnnInv'
  <1> DEFINE p == SATURATION(a * b)
  <1>1. Half \in Nat \ {0} /\ SignedWord = -Half .. Half - 1
    BY SignedRange
  <1>2. p \in SignedWord
    <2>1. a * b \in Int
      BY <1>1
    <2>2. QED
      BY <2>1, SaturatedWord
  <1> HIDE DEF p
  <1>3. X22 + p \in Int
    BY <1>1, <1>2 DEF CnnInv
  <1>4. X22' = Low(X22 + p)
    <2>1. X22' = SATURATION(Low(X22 + p))
      BY DEF IncMac, mac, mult, p
    <2>2. QED
      BY <1>3, <2>1, LowCongruent, WordSaturated
  <1>5. X22' \in SignedWord /\ Congruent(X22 + p, X22')
    BY <1>3, <1>4, LowCongruent
  <1>6. Congruent(sum + p, X22')
    <2>1. PICK k \in Int : sum = X22 + k * (2 * Half)
      BY DEF CnnInv, Congruent
    <2>2. PICK m \in Int : X22 + p = X22' + m * (2 * Half)
      BY <1>5 DEF Congruent
    <2>3. Congruent(sum + p, X22')
      <3>1. sum \in Int /\ X22 \in Int /\ X22' \in Int /\ p \in Int
        BY <1>1, <1>2, <1>5 DEF CnnInv
      <3>2. QED
        BY <2>1, <2>2, <3>1, CongruentSum
    <2>4. QED
      BY <2>3
  <1>7. X23' \in SignedWord /\ X24' \in SignedWord
    <2>1. X23 + 1 \in Int /\ X24 + 4 \in Int
      BY <1>1 DEF CnnInv
    <2>2. QED
      BY <2>1, LowCongruent DEF IncMac
  <1>8. sum' = sum + p /\ sum' \in Int /\ steps' \in 0 .. MaxSteps
    BY <1>1, <1>2, WidthAssumption DEF IncMac, CnnInv, p
  <1>9. QED
    BY <1>5, <1>6, <1>7, <1>8 DEF CnnInv

LEMMA CnnInvNext ==
  ASSUME CnnInv, [CnnNext]_cnnVars
  PROVE  CnnInv'
  <1>1. CASE \E a, b \in SignedWord : IncMac(a, b)
    BY <1>1, CnnInvStep
  <1>2. CASE Restart
    <2>1. X22' = 0 /\ sum' = 0 /\ steps' = 0 /\ UNCHANGED <<X23, X24>>
      BY <1>2 DEF Restart
    <2>2. QED
      BY <2>1, ZeroWord, WidthAssumption DEF CnnInv
  <1>3. CASE UNCHANGED cnnVars
    BY <1>3 DEF cnnVars, CnnInv, Congruent
  <1>4. QED
    BY <1>1, <1>2, <1>3 DEF CnnNext

(* The accumulator is the exact sum of the saturated products whenever that *)
(* sum is a word, also when a partial sum was not, for words of any width   *)
(* and any number of steps (incmac of lib/cnn.p).                           *)
THEOREM AccumulatorExact == CnnSpec => []SumIsExact
  <1>1. CnnInv => SumIsExact
    BY LowWordSame DEF CnnInv, SumIsExact
  <1>2. QED
    BY <1>1, CnnInvInit, CnnInvNext, PTL DEF CnnSpec

(***************************************************************************)
(* Recursion over a range of numbers.                                      *)
(***************************************************************************)

IsStep(step, S) == step \in [Nat \X S -> S]

IsRecursive(f, N, z, step, S) ==
  /\ f \in [0 .. N -> S]
  /\ f[0] = z
  /\ \A n \in 1 .. N : f[n] = step[<<n, f[n - 1]>>]

LEMMA Recursion ==
  ASSUME NEW S, NEW z, NEW step, NEW N, z \in S, IsStep(step, S), N \in Nat
  PROVE  \E f : IsRecursive(f, N, z, step, S)
  <1>0. step \in [Nat \X S -> S]
    BY DEF IsStep
  <1> DEFINE Upto(f, k) == /\ f \in [0 .. k -> S]
                           /\ f[0] = z
                           /\ \A n \in 1 .. k : f[n] = step[<<n, f[n - 1]>>]
             T == {k \in Nat : \E f : Upto(f, k)}
  <1>1. 0 \in T
    <2>1. Upto([k \in 0 .. 0 |-> z], 0)
      OBVIOUS
    <2>2. QED
      BY <2>1
  <1>2. ASSUME NEW k \in Nat, k \in T
        PROVE  k + 1 \in T
    <2>1. PICK f : Upto(f, k)
      BY <1>2
    <2> DEFINE g == [n \in 0 .. k + 1 |-> IF n = k + 1 THEN step[<<k + 1, f[k]>>] ELSE f[n]]
    <2>2. \A n \in 0 .. k : g[n] = f[n] /\ f[n] \in S
      BY <2>1
    <2>3. g[k + 1] = step[<<k + 1, f[k]>>] /\ g[k + 1] \in S
      <3>1. k \in 0 .. k /\ k + 1 \in Nat
        OBVIOUS
      <3>2. f[k] \in S /\ <<k + 1, f[k]>> \in Nat \X S
        BY <2>2, <3>1
      <3>3. QED
        BY <1>0, <3>2
    <2>4. g \in [0 .. k + 1 -> S]
      <3>1. \A n \in 0 .. k + 1 : n = k + 1 \/ n \in 0 .. k
        OBVIOUS
      <3>2. \A n \in 0 .. k + 1 : g[n] \in S
        BY <2>2, <2>3, <3>1
      <3>3. g = [n \in 0 .. k + 1 |-> g[n]]
        OBVIOUS
      <3> HIDE DEF g
      <3>4. QED
        BY <3>2, <3>3
    <2>5. ASSUME NEW n \in 1 .. k + 1
          PROVE  g[n] = step[<<n, g[n - 1]>>]
      <3>1. CASE n = k + 1
        <4>1. n - 1 = k /\ k \in 0 .. k
          BY <3>1
        <4>2. QED
          BY <2>2, <2>3, <3>1, <4>1
      <3>2. CASE n \in 1 .. k
        <4>1. n - 1 \in 0 .. k /\ n \in 0 .. k
          BY <3>2
        <4>2. f[n] = step[<<n, f[n - 1]>>]
          BY <2>1, <3>2
        <4>3. QED
          BY <2>2, <4>1, <4>2
      <3>3. QED
        BY <3>1, <3>2
    <2>6. g[0] = z
      BY <2>1, <2>2
    <2> HIDE DEF g
    <2>7. Upto(g, k + 1)
      BY <2>4, <2>5, <2>6
    <2>8. QED
      BY <2>7
  <1> HIDE DEF T
  <1>3. \A k \in Nat : k \in T
    BY <1>1, <1>2, Induction
  <1>4. QED
    BY <1>3 DEF T, IsRecursive

(***************************************************************************)
(* The bits of a word.                                                     *)
(***************************************************************************)

Weight(bits, n) == IF n \in bits THEN Pow2[n] ELSE 0

(* The number made of the bits below n. *)
IsBelow(f, bits) ==
  /\ f \in [0 .. W -> Nat]
  /\ f[0] = 0
  /\ \A n \in 1 .. W : f[n] = f[n - 1] + Weight(bits, n - 1)

LEMMA NumberBelow ==
  ASSUME NEW bits
  PROVE  \E f : IsBelow(f, bits) /\ Number(bits) = f[W]
  <1> DEFINE below[n \in 0 .. W] ==
               IF n = 0 THEN 0 ELSE below[n - 1] + (IF n - 1 \in bits THEN Pow2[n - 1] ELSE 0)
             step == [p \in Nat \X Nat |-> p[2] + (IF p[1] = 0 THEN 0 ELSE Weight(bits, p[1] - 1))]
  <1>1. IsStep(step, Nat)
    <2>1. ASSUME NEW p \in Nat \X Nat
          PROVE  p[2] + (IF p[1] = 0 THEN 0 ELSE Weight(bits, p[1] - 1)) \in Nat
      BY Pow2Type DEF Weight
    <2>2. QED
      BY <2>1 DEF IsStep
  <1>2. W \in Nat
    BY WAssumption
  <1> HIDE DEF step
  <1>3. PICK f : IsRecursive(f, W, 0, step, Nat)
    <2>1. 0 \in Nat
      OBVIOUS
    <2>2. QED
      BY <1>1, <1>2, <2>1, Recursion, Zenon
  <1>4. ASSUME NEW n \in 1 .. W
        PROVE  f[n] = f[n - 1] + Weight(bits, n - 1)
    <2>1. f[n - 1] \in Nat /\ n \in Nat /\ n # 0
      BY <1>2, <1>3 DEF IsRecursive
    <2>2. f[n] = step[<<n, f[n - 1]>>]
      BY <1>3 DEF IsRecursive
    <2>3. QED
      BY <2>1, <2>2 DEF step
  <1>5. f = [n \in 0 .. W |->
               IF n = 0 THEN 0 ELSE f[n - 1] + (IF n - 1 \in bits THEN Pow2[n - 1] ELSE 0)]
    <2>1. \A n \in 0 .. W :
            f[n] = IF n = 0 THEN 0
                   ELSE f[n - 1] + (IF n - 1 \in bits THEN Pow2[n - 1] ELSE 0)
      BY <1>2, <1>3, <1>4 DEF Weight, IsRecursive
    <2>2. f = [n \in 0 .. W |-> f[n]]
      BY <1>3 DEF IsRecursive
    <2>3. QED
      BY <2>1, <2>2, Zenon
  <1>6. below = [n \in 0 .. W |->
               IF n = 0 THEN 0 ELSE below[n - 1] + (IF n - 1 \in bits THEN Pow2[n - 1] ELSE 0)]
    BY <1>5, Zenon
  <1>7. Number(bits) = below[W]
    BY Zenon DEF Number
  <1> HIDE DEF below
  <1>8. below \in [0 .. W -> Nat] /\ IsBelow(below, bits)
    <2>1. below[0] = 0
      BY <1>2, <1>6
    <2>2. \A n \in 1 .. W : below[n] = below[n - 1] + Weight(bits, n - 1)
      BY <1>2, <1>6 DEF Weight
    <2>3. \A n \in Nat : n \in 0 .. W => below[n] \in Nat
      <3> DEFINE T == {n \in Nat : n \in 0 .. W => below[n] \in Nat}
      <3>1. 0 \in T
        BY <2>1
      <3>2. ASSUME NEW n \in Nat, n \in T
            PROVE  n + 1 \in T
        <4>1. SUFFICES ASSUME n + 1 \in 0 .. W
                       PROVE  below[n + 1] \in Nat
          OBVIOUS
        <4>2. n + 1 \in 1 .. W /\ (n + 1) - 1 = n /\ n \in 0 .. W
          BY <1>2, <4>1
        <4>3. QED
          BY <2>2, <3>2, <4>2, Pow2Type DEF Weight
      <3> HIDE DEF T
      <3>3. \A n \in Nat : n \in T
        BY <3>1, <3>2, Induction
      <3>4. QED
        BY <3>3 DEF T
    <2>4. \A n \in 0 .. W : below[n] \in Nat
      BY <1>2, <2>3
    <2>5. below = [n \in 0 .. W |-> below[n]]
      BY <1>6
    <2>6. below \in [0 .. W -> Nat]
      BY <2>4, <2>5
    <2>7. QED
      BY <2>1, <2>2, <2>6 DEF IsBelow
  <1>9. QED
    BY <1>7, <1>8, Zenon

LEMMA BitNext ==
  ASSUME NEW a \in Nat, NEW n \in Nat
  PROVE  a % Pow2[n + 1] = (a % Pow2[n]) + (IF (a \div Pow2[n]) % 2 = 1 THEN Pow2[n] ELSE 0)
  <1> DEFINE F == Pow2[n]
             u == a \div F
             r == a % F
             v == u \div 2
             t == u % 2
  <1>1. F \in Nat \ {0} /\ Pow2[n + 1] = 2 * F
    BY Pow2Type, Pow2Next
  <1> HIDE DEF F
  <1>2. a = u * F + r /\ r \in 0 .. F - 1 /\ u \in Int
    <2>1. a \in Int
      OBVIOUS
    <2>2. Euclid(a, F, u, r)
      BY <1>1, <2>1, EuclidParts, Zenon
    <2> HIDE DEF u, r
    <2>3. QED
      BY <2>2 DEF Euclid
  <1> HIDE DEF u, r
  <1>3. u = v * 2 + t /\ t \in 0 .. 1 /\ v \in Int
    BY <1>2, DivMod
  <1> HIDE DEF v, t
  <1>4. t * F + r \in 0 .. 2 * F - 1
    <2>1. t = 0 \/ t = 1
      BY <1>3
    <2>2. QED
      BY <1>1, <1>2, <2>1
  <1>5. a = v * (2 * F) + (t * F + r)
    <2>1. u * F = v * (2 * F) + t * F
      BY <1>1, <1>3
    <2>2. u * F \in Int /\ v * (2 * F) \in Int /\ t * F \in Int
      BY <1>1, <1>2, <1>3
    <2>3. QED
      BY <1>2, <2>1, <2>2
  <1>6. Euclid(a, 2 * F, v, t * F + r)
    BY <1>1, <1>3, <1>4, <1>5 DEF Euclid
  <1>7. a % (2 * F) = t * F + r
    BY <1>6, EuclidDivMod, Zenon
  <1>8. t * F = IF t = 1 THEN F ELSE 0
    BY <1>1, <1>3
  <1>9. QED
    BY <1>1, <1>2, <1>7, <1>8 DEF F, u, r, t

LEMMA NumberOfBits ==
  ASSUME NEW a \in Word
  PROVE  Number(Bits(a)) = a
  <1>1. W \in Nat /\ M \in Nat \ {0} /\ a \in 0 .. M - 1
    BY WAssumption, WordBound DEF Word
  <1>2. PICK f : IsBelow(f, Bits(a)) /\ Number(Bits(a)) = f[W]
    BY NumberBelow
  <1> DEFINE T == {n \in Nat : n <= W => f[n] = a % Pow2[n]}
  <1>3. 0 \in T
    <2>1. a % 1 = 0
      BY <1>1
    <2>2. QED
      BY <1>2, <2>1, Pow2Zero DEF IsBelow
  <1>4. ASSUME NEW n \in Nat, n \in T
        PROVE  n + 1 \in T
    <2>1. SUFFICES ASSUME n + 1 <= W
                   PROVE  f[n + 1] = a % Pow2[n + 1]
      OBVIOUS
    <2>2. n + 1 \in 1 .. W /\ (n + 1) - 1 = n /\ n \in 0 .. W - 1 /\ n <= W
      BY <1>1, <2>1
    <2>3. f[n + 1] = f[n] + Weight(Bits(a), n)
      BY <1>2, <2>2 DEF IsBelow
    <2>4. n \in Bits(a) <=> (a \div Pow2[n]) % 2 = 1
      BY <2>2 DEF Bits
    <2>5. f[n] = a % Pow2[n]
      BY <1>4, <2>2
    <2>6. QED
      BY <1>1, <2>3, <2>4, <2>5, BitNext DEF Weight
  <1> HIDE DEF T
  <1>5. \A n \in Nat : n \in T
    BY <1>3, <1>4, Induction
  <1>6. f[W] = a % M
    BY <1>1, <1>5 DEF T, M
  <1>7. QED
    BY <1>1, <1>2, <1>6, SmallMod

LEMMA NumberWord ==
  ASSUME NEW bits
  PROVE  Number(bits) \in Word
  <1>1. W \in Nat
    BY WAssumption
  <1>2. PICK f : IsBelow(f, bits) /\ Number(bits) = f[W]
    BY NumberBelow
  <1> DEFINE T == {n \in Nat : n <= W => f[n] \in 0 .. Pow2[n] - 1}
  <1>3. 0 \in T
    BY <1>2, Pow2Zero DEF IsBelow
  <1>4. ASSUME NEW n \in Nat, n \in T
        PROVE  n + 1 \in T
    <2>1. SUFFICES ASSUME n + 1 <= W
                   PROVE  f[n + 1] \in 0 .. Pow2[n + 1] - 1
      OBVIOUS
    <2>2. n + 1 \in 1 .. W /\ (n + 1) - 1 = n /\ n <= W
      BY <1>1, <2>1
    <2>3. f[n + 1] = f[n] + Weight(bits, n)
      BY <1>2, <2>2 DEF IsBelow
    <2>4. f[n] \in 0 .. Pow2[n] - 1
      BY <1>4, <2>2
    <2>5. Pow2[n] \in Nat /\ Pow2[n + 1] = 2 * Pow2[n] /\ Weight(bits, n) \in {0, Pow2[n]}
      BY Pow2Type, Pow2Next DEF Weight
    <2>6. QED
      BY <2>3, <2>4, <2>5
  <1> HIDE DEF T
  <1>5. \A n \in Nat : n \in T
    BY <1>3, <1>4, Induction
  <1>6. QED
    BY <1>1, <1>2, <1>5 DEF T, M, Word

(* Or and and of two words have the words' sum, and differ by exclusive or. *)
LEMMA NumberSum ==
  ASSUME NEW s, NEW t
  PROVE  /\ Number(s \cup t) + Number(s \cap t) = Number(s) + Number(t)
         /\ Number((s \cup t) \ (s \cap t)) = Number(s \cup t) - Number(s \cap t)
  <1>1. W \in Nat
    BY WAssumption
  <1>2. PICK f : IsBelow(f, s) /\ Number(s) = f[W]
    BY NumberBelow
  <1>3. PICK g : IsBelow(g, t) /\ Number(t) = g[W]
    BY NumberBelow
  <1>4. PICK u : IsBelow(u, s \cup t) /\ Number(s \cup t) = u[W]
    BY NumberBelow
  <1>5. PICK i : IsBelow(i, s \cap t) /\ Number(s \cap t) = i[W]
    BY NumberBelow
  <1>6. PICK x : IsBelow(x, (s \cup t) \ (s \cap t)) /\ Number((s \cup t) \ (s \cap t)) = x[W]
    BY NumberBelow
  <1> DEFINE Sums(n) == u[n] + i[n] = f[n] + g[n] /\ x[n] + i[n] = u[n]
             T == {n \in Nat : n <= W => Sums(n)}
  <1>7. 0 \in T
    BY <1>2, <1>3, <1>4, <1>5, <1>6 DEF IsBelow
  <1>8. ASSUME NEW n \in Nat, n \in T
        PROVE  n + 1 \in T
    <2>1. SUFFICES ASSUME n + 1 <= W
                   PROVE  Sums(n + 1)
      OBVIOUS
    <2>2. n + 1 \in 1 .. W /\ (n + 1) - 1 = n /\ n <= W /\ n \in 0 .. W
      BY <1>1, <2>1
    <2>3. /\ f[n + 1] = f[n] + Weight(s, n)
          /\ g[n + 1] = g[n] + Weight(t, n)
          /\ u[n + 1] = u[n] + Weight(s \cup t, n)
          /\ i[n + 1] = i[n] + Weight(s \cap t, n)
          /\ x[n + 1] = x[n] + Weight((s \cup t) \ (s \cap t), n)
      BY <1>2, <1>3, <1>4, <1>5, <1>6, <2>2 DEF IsBelow
    <2>4. f[n] \in Nat /\ g[n] \in Nat /\ u[n] \in Nat /\ i[n] \in Nat /\ x[n] \in Nat
      BY <1>2, <1>3, <1>4, <1>5, <1>6, <2>2 DEF IsBelow
    <2>5. Pow2[n] \in Nat
      BY Pow2Type
    <2>6. /\ Weight(s \cup t, n) + Weight(s \cap t, n) = Weight(s, n) + Weight(t, n)
          /\ Weight((s \cup t) \ (s \cap t), n) + Weight(s \cap t, n) = Weight(s \cup t, n)
          /\ Weight(s, n) \in Nat /\ Weight(t, n) \in Nat /\ Weight(s \cap t, n) \in Nat
          /\ Weight(s \cup t, n) \in Nat /\ Weight((s \cup t) \ (s \cap t), n) \in Nat
      BY <2>5 DEF Weight
    <2>7. Sums(n)
      BY <1>8, <2>2
    <2>8. u[n + 1] + i[n + 1] = f[n + 1] + g[n + 1]
      BY <2>3, <2>4, <2>6, <2>7
    <2>9. x[n + 1] + i[n + 1] = u[n + 1]
      BY <2>3, <2>4, <2>6, <2>7
    <2>10. QED
      BY <2>8, <2>9
  <1> HIDE DEF T
  <1>9. \A n \in Nat : n \in T
    BY <1>7, <1>8, Induction
  <1>10. Sums(W)
    BY <1>1, <1>9 DEF T
  <1>11. f[W] \in Nat /\ g[W] \in Nat /\ u[W] \in Nat /\ i[W] \in Nat /\ x[W] \in Nat
    <2>1. W \in 0 .. W
      BY <1>1
    <2>2. QED
      BY <1>2, <1>3, <1>4, <1>5, <1>6, <2>1 DEF IsBelow
  <1>12. QED
    BY <1>2, <1>3, <1>4, <1>5, <1>6, <1>10, <1>11

LEMMA NumberNone == Number({}) = 0
  <1>1. Number({}) \in Nat
    BY NumberWord, WordBound DEF Word
  <1>2. {} \cup {} = {} /\ {} \cap {} = {} /\ {} \ {} = {}
    OBVIOUS
  <1>3. Number({}) = Number({}) - Number({})
    BY <1>2, NumberSum
  <1>4. QED
    BY <1>1, <1>3

(* What the operations on bits have in common with sums. *)
LEMMA BitOperations ==
  ASSUME NEW a \in Word, NEW b \in Word
  PROVE  /\ band(a, b) \in Word /\ bor(a, b) \in Word /\ bxor(a, b) \in Word
         /\ bxor(a, b) = bor(a, b) - band(a, b)
         /\ Bits(a) \cap Bits(b) = {} => bor(a, b) = a + b
  <1>1. bor(a, b) + band(a, b) = a + b
    <2>1. Number(Bits(a) \cup Bits(b)) + Number(Bits(a) \cap Bits(b)) =
            Number(Bits(a)) + Number(Bits(b))
      BY NumberSum, Zenon
    <2>2. QED
      BY <2>1, NumberOfBits DEF bor, band
  <1>2. /\ band(a, b) \in Word /\ bor(a, b) \in Word /\ bxor(a, b) \in Word
        /\ bxor(a, b) = bor(a, b) - band(a, b)
    BY NumberSum, NumberWord DEF bor, band, bxor
  <1>3. Bits(a) \cap Bits(b) = {} => band(a, b) = 0
    BY NumberNone DEF band
  <1>4. bor(a, b) \in Int
    BY <1>2, WordBound DEF Word
  <1>5. QED
    BY <1>1, <1>2, <1>3, <1>4

(* The bits of a multiple of a power of two and those of a smaller number. *)
LEMMA DisjointBits ==
  ASSUME NEW f \in 0 .. W, NEW m \in Nat, NEW b \in 0 .. Pow2[f] - 1
  PROVE  Bits(m * Pow2[f]) \cap Bits(b) = {}
  <1>1. SUFFICES ASSUME NEW k \in 0 .. W - 1,
                        ((m * Pow2[f]) \div Pow2[k]) % 2 = 1, (b \div Pow2[k]) % 2 = 1
                 PROVE  FALSE
    BY Zenon DEF Bits
  <1>2. W \in Nat /\ f \in Nat /\ k \in Nat
    BY WAssumption
  <1>3. CASE k < f
    <2> DEFINE j == (f - k) - 1
               F == Pow2[k]
               Q == Pow2[j]
    <2>1. j \in Nat /\ f = k + (j + 1)
      BY <1>2, <1>3
    <2>2. F \in Nat \ {0} /\ Q \in Nat /\ Pow2[f] = F * (2 * Q)
      <3>1. Pow2[k + (j + 1)] = Pow2[k] * Pow2[j + 1]
        <4>1. k \in Nat /\ j + 1 \in Nat
          BY <1>2, <2>1
        <4>2. QED
          BY <4>1, Pow2Sum, Zenon
      <3>2. Pow2[j + 1] = 2 * Pow2[j]
        BY <2>1, Pow2Next
      <3> HIDE DEF j
      <3>3. QED
        BY <1>2, <2>1, <3>1, <3>2, Pow2Type
    <2> HIDE DEF j, F, Q
    <2>3. m * (F * (2 * Q)) = (m * (2 * Q)) * F + 0
      BY <2>2
    <2>4. m * (2 * Q) \in Int /\ m * (F * (2 * Q)) \in Int
      BY <2>2
    <2>5. Euclid(m * Pow2[f], F, m * (2 * Q), 0)
      BY <2>2, <2>3, <2>4 DEF Euclid
    <2>6. (m * Pow2[f]) \div F = m * (2 * Q)
      BY <2>5, EuclidDivMod, Zenon
    <2>7. m * (2 * Q) = (m * Q) * 2 + 0 /\ m * Q \in Int
      BY <2>2
    <2>8. Euclid(m * (2 * Q), 2, m * Q, 0)
      BY <2>4, <2>7 DEF Euclid
    <2>9. (m * (2 * Q)) % 2 = 0
      BY <2>8, EuclidDivMod, Zenon
    <2>10. QED
      BY <1>1, <2>6, <2>9 DEF F
  <1>4. CASE k >= f
    <2>1. k - f \in Nat /\ k = f + (k - f)
      BY <1>2, <1>4
    <2>2. Pow2[k] = Pow2[f] * Pow2[k - f] /\ Pow2[f] \in Nat \ {0} /\ Pow2[k - f] \in Nat \ {0}
      BY <1>2, <2>1, Pow2Sum, Pow2Type
    <2>3. Pow2[f] <= Pow2[k] /\ Pow2[k] \in Nat \ {0}
      BY <2>2
    <2>4. b \div Pow2[k] = 0
      BY <2>2, <2>3, SmallMod
    <2>5. QED
      BY <1>1, <2>4
  <1>5. QED
    BY <1>2, <1>3, <1>4

(***************************************************************************)
(* long long: sums, products and comparisons.                              *)
(***************************************************************************)

LEMMA ModSame ==
  ASSUME NEW d, NEW n, NEW m, NEW k, d \in Nat \ {0}, n \in Int, m \in Int, k \in Int,
         n = m + k * d
  PROVE  n % d = m % d
  <1> DEFINE q == m \div d
             r == m % d
  <1>1. Euclid(m, d, q, r)
    BY EuclidParts, Zenon
  <1> HIDE DEF q, r
  <1>2. (q + k) * d = q * d + k * d /\ q * d \in Int /\ k * d \in Int
    BY <1>1 DEF Euclid
  <1>3. Euclid(n, d, q + k, r)
    BY <1>1, <1>2 DEF Euclid
  <1>4. n % d = r
    BY <1>3, EuclidDivMod, Zenon
  <1>5. QED
    BY <1>4 DEF r

(* A sum may be reduced before something is added. *)
LEMMA ModInside ==
  ASSUME NEW x \in Int, NEW y \in Int
  PROVE  ((x % M) + y) % M = (x + y) % M
  <1> DEFINE q == x \div M
             r == x % M
  <1>1. M \in Nat \ {0} /\ x \in Int
    BY WordBound
  <1>2. Euclid(x, M, q, r)
    BY <1>1, EuclidParts, Zenon
  <1> HIDE DEF q, r
  <1>3. x = q * M + r /\ q \in Int /\ r \in Int /\ q * M \in Int
    BY <1>1, <1>2 DEF Euclid
  <1>4. x + y \in Int /\ r + y \in Int /\ x + y = (r + y) + q * M
    BY <1>3
  <1>5. (x + y) % M = (r + y) % M
    BY <1>1, <1>3, <1>4, ModSame, ZenonT(30)
  <1>6. QED
    BY <1>5 DEF r

LEMMA Pair ==
  ASSUME NEW l \in Word, NEW h \in Word
  PROVE  /\ dint(l, h) \in Dint
         /\ dint(l, h).low = l /\ dint(l, h).high = h
         /\ Value(dint(l, h)) = h * M + l
         /\ Value(dint(l, h)) \in 0 .. MM - 1
  <1>1. h * M + l \in 0 .. MM - 1
    BY PairParts DEF Word, MM
  <1>2. QED
    BY <1>1 DEF dint, Value, Dint

LEMMA PairOf ==
  ASSUME NEW a \in Dint
  PROVE  /\ a.low \in Word /\ a.high \in Word
         /\ a.low \in 0 .. M - 1 /\ a.high \in 0 .. M - 1
         /\ Value(a) = a.high * M + a.low
         /\ Value(a) \in 0 .. MM - 1
  <1>1. a.low \in Word /\ a.high \in Word
    BY DEF Dint
  <1>2. a.high * M + a.low \in 0 .. MM - 1
    BY <1>1, PairParts DEF Word, MM
  <1>3. QED
    BY <1>1, <1>2 DEF Value, Word

LEMMA MMBound == MM \in Nat \ {0} /\ MM = M * M /\ M <= MM
  BY WordBound DEF MM

(* A number made of a word and a multiple of M, in twice the width. *)
LEMMA PairMod ==
  ASSUME NEW n, NEW l \in Word, NEW x \in Int, n = x * M + l
  PROVE  x % M \in Word /\ Value(dint(l, x % M)) = n % MM
  <1> DEFINE q == x \div M
             h == x % M
  <1>1. M \in Nat \ {0} /\ x \in Int /\ l \in 0 .. M - 1
    BY WordBound DEF Word
  <1>2. Euclid(x, M, q, h)
    BY <1>1, EuclidParts, Zenon
  <1> HIDE DEF q, h
  <1>3. h \in Word /\ q \in Int /\ x = q * M + h
    BY <1>2 DEF Euclid, Word
  <1>4. Value(dint(l, h)) = h * M + l /\ h * M + l \in 0 .. MM - 1
    BY <1>3, Pair
  <1>5. x * M = q * MM + h * M
    BY <1>1, <1>3, MMBound DEF Word
  <1>6. q * MM \in Int /\ h * M \in Int /\ x * M \in Int
    BY <1>1, <1>3, MMBound DEF Word
  <1>7. n = q * MM + (h * M + l) /\ n \in Int
    BY <1>1, <1>5, <1>6
  <1>8. Euclid(n, MM, q, h * M + l)
    BY <1>3, <1>4, <1>7, MMBound DEF Euclid
  <1>9. n % MM = h * M + l
    BY <1>8, EuclidDivMod, Zenon
  <1>10. QED
    BY <1>3, <1>4, <1>9 DEF h

(* The low word of a sum, and its carry. *)
LEMMA SumCarry ==
  ASSUME NEW x \in Word, NEW y \in Word
  PROVE  /\ add(x, y) \in Word
         /\ x + y = Carry(add(x, y) < x) * M + add(x, y)
  <1>1. M \in Nat \ {0} /\ x \in 0 .. M - 1 /\ y \in 0 .. M - 1
    BY WordBound DEF Word
  <1>2. CASE x + y < M
    <2>1. (x + y) % M = x + y
      BY <1>1, <1>2, SmallMod
    <2>2. QED
      BY <1>1, <1>2, <2>1 DEF add, Carry, Word
  <1>3. CASE x + y >= M
    <2>1. Euclid(x + y, M, 1, x + y - M)
      BY <1>1, <1>3 DEF Euclid
    <2>2. (x + y) % M = x + y - M
      BY <2>1, EuclidDivMod, Zenon
    <2>3. QED
      BY <1>1, <1>3, <2>2 DEF add, Carry, Word
  <1>4. QED
    BY <1>1, <1>2, <1>3

LEMMA DifferenceBorrow ==
  ASSUME NEW x \in Word, NEW y \in Word
  PROVE  /\ sub(x, y) \in Word
         /\ x - y = -(Carry(x < y) * M) + sub(x, y)
  <1>1. M \in Nat \ {0} /\ x \in 0 .. M - 1 /\ y \in 0 .. M - 1
    BY WordBound DEF Word
  <1>2. CASE x >= y
    <2>1. x - y \in 0 .. M - 1
      BY <1>1, <1>2
    <2>2. (x - y) % M = x - y
      BY <1>1, <2>1, SmallMod
    <2>3. QED
      BY <1>1, <1>2, <2>2 DEF sub, Carry, Word
  <1>3. CASE x < y
    <2>1. Euclid(x - y, M, -1, x - y + M)
      BY <1>1, <1>3 DEF Euclid
    <2>2. (x - y) % M = x - y + M
      BY <2>1, EuclidDivMod, Zenon
    <2>3. QED
      BY <1>1, <1>3, <2>2 DEF sub, Carry, Word
  <1>4. QED
    BY <1>1, <1>2, <1>3

LEMMA AddOfPairs ==
  ASSUME NEW a \in Dint, NEW b \in Dint, NEW known \in BOOLEAN
  PROVE  Value(l_add(a, b, known)) = (Value(a) + Value(b)) % MM
  <1> DEFINE low == add(a.low, b.low)
             c == Carry(low < a.low)
             n == Value(a) + Value(b)
  <1>1. /\ M \in Nat \ {0}
        /\ a.low \in 0 .. M - 1 /\ a.high \in 0 .. M - 1
        /\ b.low \in 0 .. M - 1 /\ b.high \in 0 .. M - 1
    BY WordBound, PairOf
  <1>2. n = (a.high * M + a.low) + (b.high * M + b.low)
    BY PairOf
  <1>3. (a.high + b.high) * M = a.high * M + b.high * M /\ a.high * M \in Int /\ b.high * M \in Int
    BY <1>1
  <1>4. add(a.high, b.high) = (a.high + b.high) % M /\ a.high + b.high \in Int
    BY <1>1 DEF add
  <1> HIDE DEF n
  <1>5. CASE known /\ a.low = 0
    <2>1. n = (a.high + b.high) * M + b.low
      BY <1>1, <1>2, <1>3, <1>5
    <2>2. Value(dint(b.low, (a.high + b.high) % M)) = n % MM
      BY <1>4, <2>1, PairMod, PairOf
    <2>3. QED
      BY <1>4, <1>5, <2>2 DEF l_add, n
  <1>6. CASE known /\ b.low = 0 /\ a.low # 0
    <2>1. n = (a.high + b.high) * M + a.low
      BY <1>1, <1>2, <1>3, <1>6
    <2>2. Value(dint(a.low, (a.high + b.high) % M)) = n % MM
      BY <1>4, <2>1, PairMod, PairOf
    <2>3. QED
      BY <1>4, <1>6, <2>2 DEF l_add, n
  <1>7. CASE ~(known /\ a.low = 0) /\ ~(known /\ b.low = 0)
    <2>1. low \in Word /\ a.low + b.low = c * M + low /\ c \in {0, 1}
      BY SumCarry, PairOf DEF Carry
    <2>2. l_add(a, b, known) = dint(low, add(add(a.high, b.high), c))
      BY <1>7 DEF l_add
    <2> HIDE DEF low, c
    <2>3. add(add(a.high, b.high), c) = (a.high + b.high + c) % M
      <3>1. c \in Int
        BY <2>1
      <3>2. QED
        BY <1>4, <3>1, ModInside DEF add
    <2>4. n = (a.high + b.high + c) * M + low
      <3> DEFINE p == a.high * M
                 q == b.high * M
                 r == c * M
      <3>1. (a.high + b.high + c) * M = p + q + r
        BY <1>1, <2>1
      <3>2. p \in Int /\ q \in Int /\ r \in Int /\ low \in Int /\ a.low \in Int /\ b.low \in Int
        BY <1>1, <2>1 DEF Word
      <3>3. n = (p + a.low) + (q + b.low) /\ a.low + b.low = r + low
        BY <1>2, <2>1
      <3> HIDE DEF p, q, r
      <3>4. n = (p + q + r) + low
        <4>1. (p + a.low) + (q + b.low) = (p + q) + (a.low + b.low)
          BY <3>2
        <4>2. (p + q) + (r + low) = (p + q + r) + low
          BY <3>2
        <4>3. QED
          BY <3>3, <4>1, <4>2
      <3>5. QED
        BY <3>1, <3>4
    <2>5. a.high + b.high + c \in Int
      BY <1>1, <2>1
    <2>6. QED
      BY <2>1, <2>2, <2>3, <2>4, <2>5, PairMod DEF n
  <1>8. QED
    BY <1>5, <1>6, <1>7

LEMMA SubOfPairs ==
  ASSUME NEW a \in Dint, NEW b \in Dint, NEW known \in BOOLEAN
  PROVE  Value(l_sub(a, b, known)) = (Value(a) - Value(b)) % MM
  <1> DEFINE low == sub(a.low, b.low)
             c == Carry(a.low < b.low)
             n == Value(a) - Value(b)
  <1>1. /\ M \in Nat \ {0}
        /\ a.low \in 0 .. M - 1 /\ a.high \in 0 .. M - 1
        /\ b.low \in 0 .. M - 1 /\ b.high \in 0 .. M - 1
    BY WordBound, PairOf
  <1>2. n = (a.high * M + a.low) - (b.high * M + b.low)
    BY PairOf
  <1>3. (a.high - b.high) * M = a.high * M - b.high * M /\ a.high * M \in Int /\ b.high * M \in Int
    BY <1>1
  <1>4. sub(a.high, b.high) = (a.high - b.high) % M /\ a.high - b.high \in Int
    BY <1>1 DEF sub
  <1> HIDE DEF n
  <1>5. CASE known /\ b.low = 0
    <2>1. n = (a.high - b.high) * M + a.low
      BY <1>1, <1>2, <1>3, <1>5
    <2>2. Value(dint(a.low, (a.high - b.high) % M)) = n % MM
      BY <1>4, <2>1, PairMod, PairOf
    <2>3. QED
      BY <1>4, <1>5, <2>2 DEF l_sub, n
  <1>6. CASE ~(known /\ b.low = 0)
    <2>1. low \in Word /\ a.low - b.low = -(c * M) + low /\ c \in {0, 1}
      BY DifferenceBorrow, PairOf DEF Carry
    <2>2. l_sub(a, b, known) = dint(low, sub(sub(a.high, b.high), c))
      BY <1>6 DEF l_sub
    <2> HIDE DEF low, c
    <2>3. sub(sub(a.high, b.high), c) = (a.high - b.high - c) % M
      <3>1. -c \in Int /\ (a.high - b.high) + (-c) = a.high - b.high - c
        BY <1>1, <2>1
      <3>2. (((a.high - b.high) % M) + (-c)) % M = ((a.high - b.high) + (-c)) % M
        BY <1>4, <3>1, ModInside, Zenon
      <3>3. ((a.high - b.high) % M) - c = ((a.high - b.high) % M) + (-c)
        BY <1>1, <1>4, <2>1
      <3>4. QED
        BY <1>4, <3>1, <3>2, <3>3 DEF sub
    <2>4. n = (a.high - b.high - c) * M + low
      <3> DEFINE p == a.high * M
                 q == b.high * M
                 r == c * M
      <3>1. (a.high - b.high - c) * M = p - q - r
        BY <1>1, <2>1
      <3>2. p \in Int /\ q \in Int /\ r \in Int /\ low \in Int /\ a.low \in Int /\ b.low \in Int
        BY <1>1, <2>1 DEF Word
      <3>3. n = (p + a.low) - (q + b.low) /\ a.low - b.low = -r + low
        BY <1>2, <2>1
      <3> HIDE DEF p, q, r
      <3>4. n = (p - q - r) + low
        BY <3>2, <3>3
      <3>5. QED
        BY <3>1, <3>4
    <2>5. a.high - b.high - c \in Int
      BY <1>1, <2>1
    <2>6. QED
      BY <2>1, <2>2, <2>3, <2>4, <2>5, PairMod DEF n
  <1>7. QED
    BY <1>5, <1>6

LEMMA ComplementOfPair ==
  ASSUME NEW a \in Dint
  PROVE  l_complement(a) \in Dint /\ Value(l_complement(a)) = MM - 1 - Value(a)
  <1>1. /\ M \in Nat \ {0} /\ MM = M * M
        /\ a.low \in 0 .. M - 1 /\ a.high \in 0 .. M - 1
        /\ Value(a) = a.high * M + a.low
    BY WordBound, PairOf, MMBound
  <1>2. M - 1 - a.low \in Word /\ M - 1 - a.high \in Word
    BY <1>1 DEF Word
  <1>3. Value(l_complement(a)) = (M - 1 - a.high) * M + (M - 1 - a.low)
    BY <1>2, Pair DEF l_complement
  <1>4. (M - 1 - a.high) * M = M * M - M - a.high * M
    BY <1>1
  <1>5. a.high * M \in Int /\ M * M \in Int
    BY <1>1
  <1>6. QED
    BY <1>1, <1>2, <1>3, <1>4, <1>5, Pair DEF l_complement

LEMMA AddsExact ==
  ASSUME NEW a \in Dint, NEW b \in Dint, NEW known \in BOOLEAN
  PROVE  AddExact(a, b, known)
  <1>1. Value(l_add(l_complement(a), dint(1, 0), known)) = (-Value(a)) % MM
    <2>1. dint(1, 0) \in Dint /\ Value(dint(1, 0)) = 1
      <3>1. 0 \in Word /\ 1 \in Word
        BY WordBound DEF Word
      <3>2. 0 * M + 1 = 1
        BY WordBound
      <3>3. QED
        BY <3>1, <3>2, Pair
    <2>2. l_complement(a) \in Dint /\ Value(l_complement(a)) = MM - 1 - Value(a)
      BY ComplementOfPair
    <2>3. Value(l_add(l_complement(a), dint(1, 0), known)) = ((MM - 1 - Value(a)) + 1) % MM
      BY <2>1, <2>2, AddOfPairs
    <2>4. Value(a) \in Int /\ MM \in Nat \ {0}
      BY PairOf, MMBound
    <2>5. -Value(a) \in Int /\ (MM - 1 - Value(a)) + 1 \in Int /\ 1 \in Int
          /\ (MM - 1 - Value(a)) + 1 = -Value(a) + 1 * MM
      BY <2>4
    <2>6. QED
      BY <2>3, <2>4, <2>5, ModSame, Zenon
  <1>2. Value(l_xor(a, b)) = Value(l_or(a, b)) - Value(l_and(a, b))
    <2> DEFINE ol == bor(a.low, b.low)
               oh == bor(a.high, b.high)
               nl == band(a.low, b.low)
               nh == band(a.high, b.high)
               xl == bxor(a.low, b.low)
               xh == bxor(a.high, b.high)
    <2>1. /\ ol \in Word /\ nl \in Word /\ xl \in Word /\ xl = ol - nl
          /\ oh \in Word /\ nh \in Word /\ xh \in Word /\ xh = oh - nh
      BY PairOf, BitOperations
    <2>2. /\ l_xor(a, b) = dint(xl, xh) /\ l_or(a, b) = dint(ol, oh)
          /\ l_and(a, b) = dint(nl, nh)
      BY DEF l_xor, l_or, l_and
    <2> HIDE DEF ol, oh, nl, nh, xl, xh
    <2>3. /\ Value(dint(xl, xh)) = xh * M + xl
          /\ Value(dint(ol, oh)) = oh * M + ol
          /\ Value(dint(nl, nh)) = nh * M + nl
      BY <2>1, Pair
    <2>4. M \in Nat /\ Word = 0 .. M - 1
      BY WordBound DEF Word
    <2>5. xh * M = oh * M - nh * M /\ oh * M \in Int /\ nh * M \in Int
      BY <2>1, <2>4
    <2>6. QED
      BY <2>1, <2>2, <2>3, <2>4, <2>5
  <1>3. QED
    BY <1>1, <1>2, AddOfPairs, SubOfPairs DEF AddExact

(* The signed numbers. *)
LEMMA SignedOfWord ==
  ASSUME NEW w \in Word
  PROVE  /\ Signed(w) \in -(M \div 2) .. M \div 2 - 1
         /\ Signed(w) % M = w
         /\ Signed(w) < 0 <=> w >= M \div 2
         /\ \E k \in {0, 1} : Signed(w) = w - k * M
  <1>1. M \in Nat \ {0} /\ 2 * (M \div 2) = M /\ M \div 2 \in Nat \ {0} /\ w \in 0 .. M - 1
    BY WordBound DEF Word
  <1>2. CASE w < M \div 2
    <2>1. Signed(w) = w /\ w % M = w
      BY <1>1, <1>2, SmallMod DEF Signed
    <2>2. w = w - 0 * M
      BY <1>1
    <2>3. QED
      BY <1>1, <1>2, <2>1, <2>2
  <1>3. CASE w >= M \div 2
    <2>1. Signed(w) = w - M
      BY <1>1, <1>3 DEF Signed
    <2>2. Euclid(w - M, M, -1, w)
      BY <1>1 DEF Euclid
    <2>3. (w - M) % M = w
      BY <2>2, EuclidDivMod, Zenon
    <2>4. w - M = w - 1 * M
      BY <1>1
    <2>5. QED
      BY <1>1, <1>3, <2>1, <2>3, <2>4
  <1>4. QED
    BY <1>1, <1>2, <1>3

LEMMA WordOfSigned ==
  ASSUME NEW n \in -(M \div 2) .. M \div 2 - 1
  PROVE  n % M \in Word /\ Signed(n % M) = n
  <1>1. M \in Nat \ {0} /\ 2 * (M \div 2) = M /\ M \div 2 \in Nat \ {0}
    BY WordBound
  <1>2. CASE n >= 0
    <2>1. n \in 0 .. M - 1
      BY <1>1, <1>2
    <2>2. n % M = n
      BY <1>1, <2>1, SmallMod
    <2>3. QED
      BY <1>1, <2>1, <2>2 DEF Signed, Word
  <1>3. CASE n < 0
    <2>1. Euclid(n, M, -1, n + M)
      BY <1>1, <1>3 DEF Euclid
    <2>2. n % M = n + M
      BY <2>1, EuclidDivMod, Zenon
    <2>3. QED
      BY <1>1, <1>3, <2>2 DEF Signed, Word
  <1>4. QED
    BY <1>1, <1>2, <1>3

(* Numbers compare as their words do, the high ones first. *)
Compared(v, w, g, k, h, l) ==
  /\ v < w <=> g < h \/ (g = h /\ k < l)
  /\ v <= w <=> g < h \/ (g = h /\ k <= l)
  /\ v = w <=> g = h /\ k = l

LEMMA Lexicographic ==
  ASSUME NEW g, NEW h, NEW k, NEW l, NEW v, NEW w,
         g \in Int, h \in Int, k \in 0 .. M - 1, l \in 0 .. M - 1,
         v = g * M + k, w = h * M + l
  PROVE  Compared(v, w, g, k, h, l)
  <1>1. M \in Nat \ {0} /\ g * M \in Int /\ h * M \in Int
    BY WordBound
  <1>2. (h - g) * M = h * M - g * M
    BY <1>1
  <1>3. CASE g < h
    <2>1. (h - g) * M >= M
      BY <1>1, <1>3
    <2>2. QED
      BY <1>1, <1>2, <1>3, <2>1 DEF Compared
  <1>4. CASE g > h
    <2>1. (h - g) * M <= -M
      BY <1>1, <1>4
    <2>2. QED
      BY <1>1, <1>2, <1>4, <2>1 DEF Compared
  <1>5. CASE g = h
    BY <1>1, <1>5 DEF Compared
  <1>6. QED
    BY <1>3, <1>4, <1>5

LEMMA ComparesExact ==
  ASSUME NEW a \in Dint, NEW b \in Dint, NEW known \in BOOLEAN
  PROVE  CompareExact(a, b, known)
  <1>1. /\ M \in Nat \ {0}
        /\ a.low \in 0 .. M - 1 /\ a.high \in 0 .. M - 1
        /\ b.low \in 0 .. M - 1 /\ b.high \in 0 .. M - 1
        /\ Value(a) = a.high * M + a.low
        /\ Value(b) = b.high * M + b.low
    BY WordBound, PairOf
  <1>2. /\ Signed(a.high) \in Int /\ Signed(b.high) \in Int
        /\ Signed(a.high) = Signed(b.high) <=> a.high = b.high
    <2>1. a.high \in Word /\ b.high \in Word
      BY PairOf
    <2>2. Signed(a.high) \in Int /\ Signed(b.high) \in Int
      BY <2>1, SignedOfWord
    <2>3. Signed(a.high) % M = a.high /\ Signed(b.high) % M = b.high
      BY <2>1, SignedOfWord
    <2>4. QED
      BY <2>2, <2>3
  <1>3. /\ SignedValue(a) = Signed(a.high) * M + a.low
        /\ SignedValue(b) = Signed(b.high) * M + b.low
    BY DEF SignedValue
  <1>4. /\ Compared(SignedValue(a), SignedValue(b), Signed(a.high), a.low, Signed(b.high), b.low)
        /\ Compared(Value(a), Value(b), a.high, a.low, b.high, b.low)
    <2>1. a.high \in Int /\ b.high \in Int
      BY <1>1
    <2>2. QED
      BY <1>1, <1>2, <1>3, <2>1, Lexicographic, Zenon
  <1>5. l_lts(a, b) <=> SignedValue(a) < SignedValue(b)
    BY <1>2, <1>4 DEF l_lts, lt, Compared
  <1>6. l_les(a, b, known) <=> SignedValue(a) <= SignedValue(b)
    <2>1. CASE known /\ a = dint(0, 0)
      <3>1. a.low = 0 /\ a.high = 0
        BY <2>1 DEF dint
      <3>2. Signed(a.high) = 0
        BY <3>1, WordBound DEF Signed
      <3>3. Signed(b.high) >= 0 <=> SignedValue(a) <= SignedValue(b)
        BY <1>1, <1>2, <1>4, <3>1, <3>2 DEF Compared
      <3>4. QED
        BY <2>1, <3>3 DEF l_les
    <2>2. CASE ~(known /\ a = dint(0, 0))
      BY <1>2, <1>4, <2>2 DEF l_les, lt, Compared
    <2>3. QED
      BY <2>1, <2>2
  <1>7. /\ l_ltu(a, b) <=> Value(a) < Value(b)
        /\ l_leu(a, b) <=> Value(a) <= Value(b)
        /\ l_eq(a, b) <=> Value(a) = Value(b)
    BY <1>4 DEF l_ltu, l_leu, l_eq, Compared
  <1>8. QED
    BY <1>5, <1>6, <1>7 DEF CompareExact

(* The words of a product of two words. *)
LEMMA ProductWords ==
  ASSUME NEW x \in Word, NEW y \in Word
  PROVE  /\ mul(x, y) \in Word /\ mulhu(x, y) \in Word
         /\ x * y = mulhu(x, y) * M + mul(x, y)
  <1>1. M \in Nat \ {0} /\ x \in 0 .. M - 1 /\ y \in 0 .. M - 1
    BY WordBound DEF Word
  <1>2. x * y \in Int /\ x * y >= 0 /\ x * y < M * M
    <2>1. x * y <= (M - 1) * y /\ (M - 1) * y <= (M - 1) * (M - 1)
      BY <1>1
    <2>2. (M - 1) * (M - 1) < M * M
      BY <1>1
    <2>3. QED
      BY <1>1, <2>1, <2>2
  <1> DEFINE q == (x * y) \div M
             r == (x * y) % M
  <1>3. Euclid(x * y, M, q, r)
    BY <1>1, <1>2, EuclidParts, Zenon
  <1>4. q = mulhu(x, y) /\ r = mul(x, y)
    BY DEF mulhu, mul
  <1> HIDE DEF q, r
  <1>5. x * y = q * M + r /\ q \in Int /\ r \in 0 .. M - 1
    BY <1>3 DEF Euclid
  <1>6. q >= 0
    <2>1. q < 0 => q * M <= -M
      BY <1>1, <1>5
    <2>2. QED
      BY <1>1, <1>2, <1>5, <2>1
  <1>7. q < M
    <2>1. q >= M => q * M >= M * M
      BY <1>1, <1>5
    <2>2. QED
      BY <1>1, <1>2, <1>5, <2>1
  <1>8. q \in 0 .. M - 1
    BY <1>1, <1>5, <1>6, <1>7
  <1>9. QED
    BY <1>4, <1>5, <1>8 DEF Word

IsProductOfSums(v, w, g, k, h, l, n) ==
  v * w = (g * h) * (n * n) + (g * l + h * k) * n + k * l

LEMMA ProductOfSums ==
  ASSUME NEW g, NEW h, NEW k, NEW l, NEW n, NEW v, NEW w,
         g \in Int, h \in Int, k \in Int, l \in Int, n \in Int,
         v = g * n + k, w = h * n + l
  PROVE  IsProductOfSums(v, w, g, k, h, l, n)
  BY DEF IsProductOfSums

LEMMA MulOfPairs ==
  ASSUME NEW a \in Dint, NEW b \in Dint, NEW known \in BOOLEAN
  PROVE  Value(l_mul(a, b, known)) = (Value(a) * Value(b)) % MM
  <1> DEFINE h1 == mulhu(a.low, b.low)
             l1 == mul(a.low, b.low)
             x == (h1 + a.high * b.low) + b.high * a.low
  <1>1. /\ M \in Nat \ {0}
        /\ a.low \in 0 .. M - 1 /\ a.high \in 0 .. M - 1
        /\ b.low \in 0 .. M - 1 /\ b.high \in 0 .. M - 1
        /\ Value(a) = a.high * M + a.low
        /\ Value(b) = b.high * M + b.low
        /\ Word = 0 .. M - 1
    BY WordBound, PairOf DEF Word
  <1>2. l1 \in Word /\ h1 \in Word /\ a.low * b.low = h1 * M + l1
    BY ProductWords, PairOf
  <1>3. a.high * b.low \in Int /\ b.high * a.low \in Int /\ x \in Int
    <2>1. a.high * b.low \in Int /\ b.high * a.low \in Int
      BY <1>1
    <2>2. h1 \in Int
      BY <1>1, <1>2
    <2> HIDE DEF h1
    <2>3. QED
      BY <2>1, <2>2
  <1>4. \A v, w \in Word : v = 0 \/ w = 0 => mul(v, w) = 0 /\ mulhu(v, w) = 0
    <2>1. 0 * 0 = 0 /\ (0 \div M = 0) /\ (0 % M = 0)
      BY <1>1, SmallMod
    <2>2. \A v \in Word : v * 0 = 0 /\ 0 * v = 0
      BY <1>1
    <2>3. QED
      BY <2>1, <2>2 DEF mul, mulhu
  <1>5. l_mul(a, b, known) =
          dint(l1, add(add(h1, mul(a.high, b.low)), mul(b.high, a.low)))
    BY <1>1, <1>4, PairOf DEF l_mul
  <1> HIDE DEF h1, l1, x
  <1>6. add(add(h1, mul(a.high, b.low)), mul(b.high, a.low)) = x % M
    <2> DEFINE p == a.high * b.low
               q == b.high * a.low
    <2>1. p \in Int /\ q \in Int /\ h1 \in Int
      BY <1>1, <1>2, <1>3
    <2> HIDE DEF p, q
    <2>2. (p % M) \in Int /\ (q % M) \in Int /\ h1 + p \in Int
      BY <1>1, <2>1
    <2>3. ((p % M) + h1) % M = (p + h1) % M
      BY <2>1, ModInside
    <2>10. p + h1 = h1 + p /\ (p % M) + h1 = h1 + (p % M)
      BY <2>1, <2>2
    <2>4. (((h1 + p) % M) + (q % M)) % M = ((h1 + p) + (q % M)) % M
      BY <2>2, ModInside
    <2>5. ((q % M) + (h1 + p)) % M = (q + (h1 + p)) % M
      BY <2>1, <2>2, ModInside
    <2>6. (q % M) + (h1 + p) = (h1 + p) + (q % M) /\ q + (h1 + p) = (h1 + p) + q
      BY <2>1, <2>2
    <2>7. add(add(h1, mul(a.high, b.low)), mul(b.high, a.low)) =
            (((h1 + (p % M)) % M) + (q % M)) % M
      BY Zenon DEF add, mul, p, q
    <2>8. x = (h1 + p) + q
      BY DEF x, p, q
    <2>9. QED
      BY <2>3, <2>4, <2>5, <2>6, <2>7, <2>8, <2>10
  <1>7. Value(dint(l1, x % M)) = (x * M + l1) % MM
    BY <1>2, <1>3, PairMod
  <1>8. Value(a) * Value(b) = (x * M + l1) + (a.high * b.high) * MM
    <2>1. Value(a) * Value(b) =
            (a.high * b.high) * (M * M) + (a.high * b.low + b.high * a.low) * M + a.low * b.low
      <3>1. a.high \in Int /\ a.low \in Int /\ b.high \in Int /\ b.low \in Int /\ M \in Int
        BY <1>1
      <3>2. IsProductOfSums(Value(a), Value(b), a.high, a.low, b.high, b.low, M)
        BY <1>1, <3>1, ProductOfSums, Zenon
      <3>3. QED
        BY <3>2, Zenon DEF IsProductOfSums
    <2>2. x * M = h1 * M + (a.high * b.low + b.high * a.low) * M
      BY <1>1, <1>2, <1>3 DEF x
    <2>3. /\ (a.high * b.low + b.high * a.low) * M \in Int
          /\ (a.high * b.high) * (M * M) \in Int
          /\ h1 * M \in Int /\ l1 \in Int
      BY <1>1, <1>2, <1>3, SMTT(30)
    <2>4. QED
      BY <1>1, <1>2, <2>1, <2>2, <2>3, MMBound
  <1>9. Value(a) * Value(b) \in Int /\ x * M + l1 \in Int /\ a.high * b.high \in Int
    <2>1. Value(a) \in Int /\ Value(b) \in Int
      BY PairOf
    <2>2. x * M \in Int /\ l1 \in Int
      BY <1>1, <1>2, <1>3
    <2>3. QED
      BY <1>1, <2>1, <2>2
  <1>10. (Value(a) * Value(b)) % MM = (x * M + l1) % MM
    BY <1>8, <1>9, ModSame, MMBound, Zenon
  <1>11. QED
    BY <1>5, <1>6, <1>7, <1>10

(* The words of a signed product: the low one does not know the signs. *)
LEMMA SignedProduct ==
  ASSUME NEW x \in Word, NEW y \in Word
  PROVE  /\ (Signed(x) * Signed(y)) % M = mul(x, y)
         /\ Signed(mulh(x, y)) * M + mul(x, y) = Signed(x) * Signed(y)
  <1> DEFINE Mid == M \div 2
             p == Signed(x) * Signed(y)
             q == p \div M
             r == p % M
  <1>1. M \in Nat \ {0} /\ 2 * Mid = M /\ Mid \in Nat \ {0} /\ x \in 0 .. M - 1 /\ y \in 0 .. M - 1
    BY WordBound DEF Word
  <1>2. Signed(x) \in -Mid .. Mid - 1 /\ Signed(y) \in -Mid .. Mid - 1
    BY SignedOfWord
  <1> HIDE DEF Mid
  <1>3. p \in Int /\ p <= Mid * Mid /\ p >= -(Mid * Mid)
    <2> DEFINE s == Signed(x)
               t == Signed(y)
    <2>1. s \in -Mid .. Mid /\ t \in -Mid .. Mid
      BY <1>1, <1>2
    <2> HIDE DEF s, t
    <2>2. s * t \in Int /\ s * t <= Mid * Mid /\ s * t >= -(Mid * Mid)
      BY <1>1, <2>1
    <2>3. QED
      BY <2>2 DEF s, t
  <1>4. Euclid(p, M, q, r)
    BY <1>1, <1>3, EuclidParts, Zenon
  <1>5. mulh(x, y) = q % M
    BY Zenon DEF mulh
  <1>6. r = mul(x, y)
    <2>1. PICK i \in {0, 1} : Signed(x) = x - i * M
      BY SignedOfWord
    <2>2. PICK j \in {0, 1} : Signed(y) = y - j * M
      BY SignedOfWord
    <2> DEFINE k == (i * j) * M - i * y - j * x
    <2>3. i * j \in Int /\ (i * j) * M \in Int /\ i * y \in Int /\ j * x \in Int /\ x * y \in Int
      BY <1>1
    <2>4. (x - i * M) * (y - j * M) = x * y + ((i * j) * M - i * y - j * x) * M
      BY <1>1
    <2>5. k \in Int /\ p = x * y + k * M
      BY <2>1, <2>2, <2>3, <2>4
    <2> HIDE DEF p, k
    <2>6. p % M = (x * y) % M
      BY <1>1, <1>3, <2>3, <2>5, ModSame, Zenon
    <2>7. QED
      BY <2>6 DEF mul
  <1> HIDE DEF p, q, r
  <1>7. p = q * M + r /\ q \in Int /\ r \in 0 .. M - 1 /\ q * M \in Int
    BY <1>1, <1>4 DEF Euclid
  <1>8. q \in -Mid .. Mid - 1
    <2>1. q >= Mid => q * M >= Mid * (2 * Mid)
      BY <1>1, <1>7
    <2>2. q <= -Mid - 1 => q * M <= (-Mid - 1) * (2 * Mid)
      BY <1>1, <1>7
    <2>3. /\ Mid * (2 * Mid) = Mid * Mid + Mid * Mid /\ (-Mid - 1) * (2 * Mid) = -(Mid * Mid) - (Mid * Mid) - 2 * Mid
          /\ Mid * Mid > 0 /\ Mid * Mid \in Int
      BY <1>1
    <2>4. ~(q >= Mid) /\ ~(q <= -Mid - 1)
      BY <1>1, <1>3, <1>7, <2>1, <2>2, <2>3
    <2>5. QED
      BY <1>1, <1>7, <2>4
  <1>9. Signed(mulh(x, y)) = q
    BY <1>5, <1>8, WordOfSigned DEF Mid
  <1>10. QED
    BY <1>6, <1>7, <1>9 DEF p, r

LEMMA MulsExact ==
  ASSUME NEW a \in Dint, NEW b \in Dint, NEW known \in BOOLEAN
  PROVE  MulExact(a, b, known) /\ MultiplierExact(a.low, b.low)
  <1>1. SignedValue(lmul(a.low, b.low)) = Signed(a.low) * Signed(b.low)
    BY PairOf, SignedProduct DEF SignedValue, lmul, dint
  <1>2. MultiplierExact(a.low, b.low)
    <2>1. (Signed(a.low) * Signed(b.low)) % M = mul(a.low, b.low)
      BY PairOf, SignedProduct
    <2>2. ((a.low * b.low) \div M) % M = mulhu(a.low, b.low)
      <3>1. M \in Nat \ {0} /\ mulhu(a.low, b.low) \in 0 .. M - 1
        BY WordBound, PairOf, ProductWords DEF Word
      <3>2. mulhu(a.low, b.low) % M = mulhu(a.low, b.low)
        BY <3>1, SmallMod
      <3>3. QED
        BY <3>2 DEF mulhu
    <2>3. mul_hw(a.low, b.low, <<TRUE, TRUE>>) = [pl |-> mul(a.low, b.low), ph |-> mulh(a.low, b.low)]
      BY <2>1 DEF mul_hw, Mode, mulh
    <2>4. mul_hw(a.low, b.low, <<TRUE, FALSE>>).ph = mulhsu(a.low, b.low)
      BY DEF mul_hw, Mode, mulhsu
    <2>5. mul_hw(a.low, b.low, <<FALSE, FALSE>>).ph = mulhu(a.low, b.low)
      BY <2>2 DEF mul_hw, Mode
    <2>6. QED
      BY <2>3, <2>4, <2>5, Zenon DEF MultiplierExact
  <1>3. QED
    BY <1>1, <1>2, MulOfPairs DEF MulExact

(***************************************************************************)
(* The division of two long longs.                                         *)
(***************************************************************************)

(* The states of the loop. *)
IsLoop(s, x, d) ==
  /\ s[0] = [x |-> x, r |-> 0]
  /\ \A i \in 1 .. 2 * W : s[i] = DivStep(s[i - 1], d)

Divided(s, x, d) ==
  IF d >= MM \div 2
  THEN IF x >= d THEN [q |-> 1, r |-> x - d] ELSE [q |-> 0, r |-> x]
  ELSE [q |-> s[2 * W].x, r |-> s[2 * W].r]

LEMMA LoopExists ==
  ASSUME NEW x \in Int, NEW d \in Int
  PROVE  \E s : IsLoop(s, x, d) /\ div_pos(x, d) = Divided(s, x, d)
  <1> DEFINE State == [x : Int, r : Int]
             first == [x |-> x, r |-> 0]
             s[i \in 0 .. 2 * W] == IF i = 0 THEN first ELSE DivStep(s[i - 1], d)
             step == [p \in Nat \X State |-> DivStep(p[2], d)]
  <1>1. 2 * W \in Nat
    BY WAssumption
  <1>2. \A t \in State : DivStep(t, d) \in State
    <2>1. SUFFICES ASSUME NEW t \in State
                   PROVE  DivStep(t, d) \in State
      OBVIOUS
    <2>2. MM \in Nat \ {0} /\ MM \div 2 \in Nat \ {0}
      <3>1. M * M >= 2
        BY WordBound
      <3>2. QED
        BY <3>1, MMBound
    <2> DEFINE x1 == (t.x * 2) % MM
               r1 == ((t.r * 2) % MM) + (t.x \div (MM \div 2))
    <2>3. t.x * 2 \in Int /\ t.r * 2 \in Int
      OBVIOUS
    <2>4. x1 \in Int /\ r1 \in Int
      BY <2>2, <2>3
    <2>5. DivStep(t, d) = IF r1 >= d THEN [x |-> x1 + 1, r |-> (r1 - d) % MM]
                          ELSE [x |-> x1, r |-> r1]
      BY Zenon DEF DivStep
    <2> HIDE DEF x1, r1
    <2>6. (r1 - d) % MM \in Int /\ x1 + 1 \in Int
      BY <2>2, <2>4
    <2>7. QED
      BY <2>4, <2>5, <2>6
  <1>3. first \in State
    OBVIOUS
  <1>4. IsStep(step, State)
    BY <1>2 DEF IsStep
  <1> HIDE DEF first, State, step
  <1>5. PICK f : IsRecursive(f, 2 * W, first, step, State)
    BY <1>1, <1>3, <1>4, Recursion, Zenon
  <1>6. f = [i \in 0 .. 2 * W |-> IF i = 0 THEN first ELSE DivStep(f[i - 1], d)]
    <2>1. ASSUME NEW i \in 0 .. 2 * W
          PROVE  f[i] = IF i = 0 THEN first ELSE DivStep(f[i - 1], d)
      <3>1. CASE i = 0
        BY <1>5, <3>1 DEF IsRecursive
      <3>2. CASE i # 0
        <4>1. i \in 1 .. 2 * W /\ i - 1 \in 0 .. 2 * W /\ i \in Nat
          BY <1>1, <3>2
        <4>2. f[i] = step[<<i, f[i - 1]>>] /\ f[i - 1] \in State
          BY <1>5, <4>1 DEF IsRecursive
        <4>3. QED
          BY <3>2, <4>1, <4>2 DEF step
      <3>3. QED
        BY <3>1, <3>2
    <2>2. f = [i \in 0 .. 2 * W |-> f[i]]
      BY <1>5 DEF IsRecursive
    <2>3. QED
      BY <2>1, <2>2, Zenon
  <1>7. s = [i \in 0 .. 2 * W |-> IF i = 0 THEN first ELSE DivStep(s[i - 1], d)]
    BY <1>6, Zenon
  <1>8. div_pos(x, d) = Divided(s, x, d)
    BY Zenon DEF div_pos, Divided, first
  <1> HIDE DEF s
  <1>9. IsLoop(s, x, d)
    <2>1. s[0] = first
      BY <1>1, <1>7
    <2>2. \A i \in 1 .. 2 * W : s[i] = DivStep(s[i - 1], d)
      BY <1>1, <1>7
    <2>3. QED
      BY <2>1, <2>2 DEF IsLoop, first
  <1>10. QED
    BY <1>8, <1>9, Zenon

(* The loop between two turns: the leading part y of the dividend x0 has   *)
(* been divided by d, giving q, all ones for 0, and what is left; rest     *)
(* stands above q.                                                         *)
Looped(t, x0, d, K, R, rest, q, y) ==
  /\ rest \in 0 .. R - 1 /\ q \in 0 .. K - 1 /\ y \in 0 .. K - 1 /\ t.r \in 0 .. K - 1
  /\ t.x = rest * K + q
  /\ x0 = y * R + rest
  /\ y = q * d + t.r
  /\ d # 0 => t.r < d
  /\ d = 0 => q = K - 1

(* What a turn of the loop computes with: the bit b comes out of x, and x1 *)
(* stays.                                                                  *)
IsTurn(t, K, R, rest, q, b, z, x1) ==
  /\ b \in {0, 1} /\ z \in 0 .. R - 1 /\ x1 \in 0 .. MM - 2
  /\ rest = b * R + z
  /\ x1 = z * (2 * K) + 2 * q
  /\ (t.x * 2) % MM = x1
  /\ t.x \div (MM \div 2) = b
  /\ (t.r * 2) % MM = t.r * 2

LEMMA Turned ==
  ASSUME NEW K \in Nat \ {0}, NEW R \in Nat \ {0}, MM = (2 * R) * K,
         NEW t, NEW x0, NEW d \in Nat, NEW rest, NEW q, NEW y,
         Looped(t, x0, d, K, 2 * R, rest, q, y)
  PROVE  \E b, z, x1 : IsTurn(t, K, R, rest, q, b, z, x1)
  <1>1. PICK b \in {0, 1}, z \in 0 .. R - 1 : rest = b * R + z
    <2>1. rest \in 0 .. 2 * R - 1
      BY DEF Looped
    <2>2. CASE rest < R
      <3>1. rest \in 0 .. R - 1 /\ rest = 0 * R + rest
        BY <2>1, <2>2
      <3>2. QED
        BY <3>1
    <2>3. CASE rest >= R
      <3>1. rest - R \in 0 .. R - 1 /\ rest = 1 * R + (rest - R)
        BY <2>1, <2>3
      <3>2. QED
        BY <3>1
    <2>4. QED
      BY <2>1, <2>2, <2>3
  <1> DEFINE Mid == R * K
             e == z * K
             x1 == z * (2 * K) + 2 * q
  <1>2. /\ q \in 0 .. K - 1 /\ t.r \in 0 .. K - 1 /\ t.x = rest * K + q
    BY DEF Looped
  <1>3. Mid \in Nat \ {0} /\ MM = 2 * Mid /\ MM \div 2 = Mid /\ K <= Mid
    BY MMBound
  <1>4. e \in Nat /\ e <= Mid - K /\ x1 = 2 * e + 2 * q
    <2>1. z * K <= (R - 1) * K
      BY <1>1
    <2>2. (R - 1) * K = R * K - K
      OBVIOUS
    <2>3. z * (2 * K) = 2 * (z * K) /\ z * K \in Nat
      BY <1>1
    <2>4. QED
      BY <2>1, <2>2, <2>3
  <1>5. t.x = b * Mid + (e + q)
    <2>1. (b * R + z) * K = b * (R * K) + z * K
      BY <1>1
    <2>2. b * (R * K) \in Int
      BY <1>1
    <2>3. QED
      BY <1>1, <1>2, <1>4, <2>1, <2>2
  <1> HIDE DEF Mid, e, x1
  <1>6. e + q \in 0 .. Mid - 1 /\ x1 \in 0 .. MM - 2 /\ b * Mid \in Int
    BY <1>1, <1>2, <1>3, <1>4
  <1>7. Euclid(t.x, Mid, b, e + q)
    BY <1>1, <1>3, <1>5, <1>6 DEF Euclid
  <1>8. t.x \div (MM \div 2) = b
    BY <1>3, <1>7, EuclidDivMod, Zenon
  <1>9. Euclid(t.x * 2, MM, b, x1)
    <2>1. b * MM = 2 * (b * Mid)
      BY <1>1, <1>3
    <2>2. t.x * 2 = b * MM + x1
      BY <1>2, <1>3, <1>4, <1>5, <1>6, <2>1
    <2>3. QED
      BY <1>1, <1>3, <1>5, <1>6, <2>2 DEF Euclid
  <1>10. (t.x * 2) % MM = x1
    BY <1>9, EuclidDivMod, Zenon
  <1>11. (t.r * 2) % MM = t.r * 2
    <2>1. t.r * 2 \in 0 .. MM - 1
      BY <1>2, <1>3
    <2>2. MM \in Nat \ {0}
      BY <1>3
    <2>3. QED
      BY <2>1, <2>2, SmallMod
  <1>12. QED
    BY <1>1, <1>6, <1>8, <1>10, <1>11, Zenon DEF IsTurn, x1

LEMMA TurnLooped ==
  ASSUME NEW K \in Nat \ {0}, NEW R \in Nat \ {0}, MM = (2 * R) * K,
         NEW t, NEW x0, NEW d \in Nat, NEW rest, NEW q, NEW y,
         Looped(t, x0, d, K, 2 * R, rest, q, y)
  PROVE  \E rest1, q1, y1 : Looped(DivStep(t, d), x0, d, 2 * K, R, rest1, q1, y1)
  <1>1. PICK b, z, x1 : IsTurn(t, K, R, rest, q, b, z, x1)
    BY Turned, Zenon
  <1> DEFINE g == t.r * 2 + b
  <1>2. /\ b \in {0, 1} /\ z \in 0 .. R - 1 /\ x1 \in 0 .. MM - 2
        /\ rest = b * R + z /\ x1 = z * (2 * K) + 2 * q
    BY <1>1 DEF IsTurn
  <1>3. DivStep(t, d) = IF g >= d THEN [x |-> x1 + 1, r |-> (g - d) % MM] ELSE [x |-> x1, r |-> g]
    BY <1>1 DEF IsTurn, DivStep
  <1>4. /\ q \in 0 .. K - 1 /\ y \in 0 .. K - 1 /\ t.r \in 0 .. K - 1
        /\ x0 = y * (2 * R) + rest /\ y = q * d + t.r /\ (d # 0 => t.r < d)
        /\ d = 0 => q = K - 1
    BY DEF Looped
  <1>5. MM \in Nat \ {0} /\ 2 * K <= MM
    BY MMBound
  <1>6. g \in 0 .. 2 * K - 1
    BY <1>2, <1>4
  <1>7. x0 = (2 * y + b) * R + z /\ 2 * y + b \in 0 .. 2 * K - 1
    <2>1. (2 * y + b) * R = y * (2 * R) + b * R
      BY <1>2, <1>4
    <2>2. y * (2 * R) \in Int /\ b * R \in Int
      BY <1>2, <1>4
    <2>3. QED
      BY <1>2, <1>4, <2>1, <2>2
  <1>8. 2 * y + b = (2 * q) * d + g
    <2>1. (2 * q) * d = 2 * (q * d) /\ q * d \in Int
      BY <1>4
    <2>2. QED
      BY <1>2, <1>4, <2>1
  <1>9. z * (2 * K) \in Int
    BY <1>2
  <1>10. d # 0 => g < 2 * d
    BY <1>2, <1>4
  <1> HIDE DEF g
  <1>11. CASE g >= d
    <2>1. g - d \in 0 .. MM - 1 /\ g - d \in 0 .. 2 * K - 1
      BY <1>5, <1>6, <1>11
    <2>2. (g - d) % MM = g - d
      BY <1>5, <2>1, SmallMod
    <2>3. DivStep(t, d) = [x |-> x1 + 1, r |-> g - d]
      BY <1>3, <1>11, <2>2
    <2>4. x1 + 1 = z * (2 * K) + (2 * q + 1) /\ 2 * q + 1 \in 0 .. 2 * K - 1
      BY <1>2, <1>4, <1>9
    <2>5. 2 * y + b = (2 * q + 1) * d + (g - d)
      <3>1. (2 * q + 1) * d = (2 * q) * d + d /\ (2 * q) * d \in Int
        BY <1>4
      <3>2. QED
        BY <1>6, <1>8, <3>1
    <2>6. d # 0 => g - d < d
      BY <1>6, <1>10
    <2>7. Looped([x |-> x1 + 1, r |-> g - d], x0, d, 2 * K, R, z, 2 * q + 1, 2 * y + b)
      <3>1. d = 0 => 2 * q + 1 = 2 * K - 1
        BY <1>4
      <3>2. QED
        BY <1>2, <1>7, <2>1, <2>4, <2>5, <2>6, <3>1 DEF Looped
    <2>8. QED
      BY <2>3, <2>7
  <1>12. CASE g < d
    <2>1. DivStep(t, d) = [x |-> x1, r |-> g]
      BY <1>3, <1>6, <1>12
    <2>2. 2 * q \in 0 .. 2 * K - 1
      BY <1>4
    <2>3. Looped([x |-> x1, r |-> g], x0, d, 2 * K, R, z, 2 * q, 2 * y + b)
      BY <1>2, <1>6, <1>7, <1>8, <1>12, <2>2 DEF Looped
    <2>4. QED
      BY <2>1, <2>3
  <1>13. QED
    BY <1>6, <1>11, <1>12

(* Words of twice the width, and their halves. *)
LEMMA DoubleWidth ==
  /\ 2 * W \in Nat /\ Pow2[2 * W] = MM
  /\ MM \div 2 \in Nat \ {0} /\ MM = 2 * (MM \div 2)
  <1>1. W \in Nat /\ W + W = 2 * W
    BY WAssumption
  <1>2. Pow2[2 * W] = MM
    BY <1>1, Pow2Sum DEF MM, M
  <1>3. MM = 2 * ((M \div 2) * M) /\ (M \div 2) * M \in Nat \ {0}
    BY WordBound, MMBound
  <1>4. QED
    BY <1>1, <1>2, <1>3

LEMMA LoopDivides ==
  ASSUME NEW x \in 0 .. MM - 1, NEW d \in Nat, NEW s, IsLoop(s, x, d)
  PROVE  /\ s[2 * W].x \in 0 .. MM - 1 /\ s[2 * W].r \in 0 .. MM - 1
         /\ x = s[2 * W].x * d + s[2 * W].r
         /\ d # 0 => s[2 * W].r < d
         /\ d = 0 => s[2 * W].x = MM - 1
  <1> DEFINE N == 2 * W
             Ok(i) == \E rest, q, y : Looped(s[i], x, d, Pow2[i], Pow2[N - i], rest, q, y)
             T == {i \in Nat : i <= N => Ok(i)}
  <1>1. N \in Nat /\ Pow2[N] = MM /\ MM \in Nat \ {0}
    BY DoubleWidth, MMBound
  <1>2. 0 \in T
    <2>1. s[0].x = x /\ s[0].r = 0
      BY DEF IsLoop
    <2>2. /\ 0 \in 0 .. 1 - 1 /\ x = x * 1 + 0 /\ x = 0 * MM + x /\ 0 = 0 * d + 0
          /\ (d # 0 => 0 < d) /\ (d = 0 => 0 = 1 - 1)
      BY <1>1
    <2>3. Looped(s[0], x, d, 1, MM, x, 0, 0)
      BY <2>1, <2>2 DEF Looped
    <2>4. Pow2[N - 0] = MM /\ Pow2[0] = 1
      BY <1>1, Pow2Zero
    <2>5. Ok(0)
      BY <2>3, <2>4
    <2>6. QED
      BY <2>5
  <1>3. ASSUME NEW i \in Nat, i \in T
        PROVE  i + 1 \in T
    <2>1. SUFFICES ASSUME i + 1 <= N
                   PROVE  Ok(i + 1)
      OBVIOUS
    <2> DEFINE K == Pow2[i]
               R == Pow2[N - (i + 1)]
    <2>2. /\ i + 1 \in 1 .. N /\ (i + 1) - 1 = i /\ i <= N
          /\ N - (i + 1) \in Nat /\ N - i = (N - (i + 1)) + 1
          /\ (N - i) + i = N /\ N - i \in Nat
      BY <1>1, <2>1
    <2>3. Pow2[N - i] = 2 * R /\ Pow2[i + 1] = 2 * K
      BY <2>2, Pow2Next
    <2>4. K \in Nat \ {0} /\ R \in Nat \ {0} /\ MM = (2 * R) * K
      <3>1. Pow2[(N - i) + i] = Pow2[N - i] * Pow2[i]
        BY <2>2, Pow2Sum, Zenon
      <3>2. QED
        BY <1>1, <2>2, <2>3, <3>1, Pow2Type
    <2>5. PICK rest, q, y : Looped(s[i], x, d, K, 2 * R, rest, q, y)
      BY <1>3, <2>2, <2>3
    <2>6. s[i + 1] = DivStep(s[i], d)
      BY <2>2 DEF IsLoop
    <2> HIDE DEF K, R
    <2>7. \E rest1, q1, y1 : Looped(DivStep(s[i], d), x, d, 2 * K, R, rest1, q1, y1)
      BY <2>4, <2>5, TurnLooped, Zenon
    <2>8. QED
      BY <2>3, <2>6, <2>7 DEF K, R
  <1> HIDE DEF T
  <1>4. \A i \in Nat : i \in T
    BY <1>2, <1>3, Induction
  <1>5. Ok(N)
    BY <1>1, <1>4 DEF T
  <1>6. Pow2[N - N] = 1
    BY <1>1, Pow2Zero
  <1>7. PICK rest, q, y : Looped(s[N], x, d, MM, 1, rest, q, y)
    BY <1>1, <1>5, <1>6
  <1> HIDE DEF N
  <1>8. /\ rest = 0 /\ q \in 0 .. MM - 1 /\ s[N].r \in 0 .. MM - 1 /\ y \in Int
        /\ s[N].x = rest * MM + q /\ x = y * 1 + rest /\ y = q * d + s[N].r
        /\ (d # 0 => s[N].r < d) /\ (d = 0 => q = MM - 1)
    BY <1>1, <1>7 DEF Looped
  <1>9. s[N].x = q /\ x = y
    BY <1>1, <1>8
  <1>10. QED
    BY <1>8, <1>9 DEF N

(* The division of two unsigned numbers; by 0, the quotient is all ones. *)
LEMMA DivPos ==
  ASSUME NEW x \in 0 .. MM - 1, NEW d \in 0 .. MM - 1
  PROVE  /\ d # 0 => div_pos(x, d).q = x \div d /\ div_pos(x, d).r = x % d
         /\ d = 0 => div_pos(x, d).q = MM - 1 /\ div_pos(x, d).r = x
  <1>1. MM \in Nat \ {0} /\ x \in Int /\ d \in Nat /\ d \in Int
    BY MMBound
  <1>2. PICK s : IsLoop(s, x, d) /\ div_pos(x, d) = Divided(s, x, d)
    BY <1>1, LoopExists
  <1>3. CASE d >= MM \div 2
    <2>1. d # 0 /\ x < 2 * d
      BY <1>1, <1>3, DoubleWidth
    <2>2. CASE x >= d
      <3>1. div_pos(x, d) = [q |-> 1, r |-> x - d]
        BY <1>2, <1>3, <2>2 DEF Divided
      <3>2. Euclid(x, d, 1, x - d)
        BY <1>1, <2>1, <2>2 DEF Euclid
      <3>3. QED
        BY <2>1, <3>1, <3>2, EuclidDivMod
    <2>3. CASE x < d
      <3>1. div_pos(x, d) = [q |-> 0, r |-> x]
        BY <1>1, <1>2, <1>3, <2>3 DEF Divided
      <3>2. Euclid(x, d, 0, x)
        BY <1>1, <2>1, <2>3 DEF Euclid
      <3>3. QED
        BY <2>1, <3>1, <3>2, EuclidDivMod
    <2>4. QED
      BY <1>1, <2>2, <2>3
  <1>4. CASE d < MM \div 2
    <2> DEFINE u == s[2 * W].x
               v == s[2 * W].r
    <2>1. /\ u \in 0 .. MM - 1 /\ v \in 0 .. MM - 1
          /\ x = u * d + v
          /\ d # 0 => v < d
          /\ d = 0 => u = MM - 1
      BY <1>1, <1>2, LoopDivides
    <2>2. div_pos(x, d) = [q |-> u, r |-> v]
      BY <1>1, <1>2, <1>4, DoubleWidth DEF Divided
    <2> HIDE DEF u, v
    <2>3. d # 0 => Euclid(x, d, u, v)
      BY <1>1, <2>1 DEF Euclid
    <2>4. d # 0 => x \div d = u /\ x % d = v
      BY <2>3, EuclidDivMod, Zenon
    <2>5. d = 0 => x = v
      BY <1>1, <2>1
    <2>6. QED
      BY <2>1, <2>2, <2>4, <2>5
  <1>5. QED
    BY <1>1, <1>3, <1>4, DoubleWidth

(* Numbers that twice the width cannot tell apart. *)
Same(n, m) == n \in Int /\ m \in Int /\ \E k \in Int : n = m + k * MM

LEMMA SameItself ==
  ASSUME NEW n, n \in Int
  PROVE  Same(n, n)
  <1>1. n = n + 0 * MM
    BY MMBound
  <1>2. QED
    BY <1>1 DEF Same

LEMMA SameNegated ==
  ASSUME NEW n, n \in Int
  PROVE  l_negated(n) \in 0 .. MM - 1 /\ Same(l_negated(n), -n)
  <1> DEFINE q == (-n) \div MM
             r == (-n) % MM
  <1>1. MM \in Nat \ {0} /\ -n \in Int
    BY MMBound
  <1>2. Euclid(-n, MM, q, r)
    BY <1>1, EuclidParts, Zenon
  <1> HIDE DEF q, r
  <1>3. -n = q * MM + r /\ q \in Int /\ r \in 0 .. MM - 1 /\ q * MM \in Int
    BY <1>1, <1>2 DEF Euclid
  <1>4. (-q) * MM = -(q * MM) /\ -q \in Int
    BY <1>1, <1>3
  <1>5. r = -n + (-q) * MM /\ r \in Int
    BY <1>1, <1>3, <1>4
  <1>6. Same(r, -n)
    BY <1>1, <1>4, <1>5 DEF Same
  <1>7. QED
    BY <1>3, <1>6 DEF l_negated, r

LEMMA SameSum ==
  ASSUME NEW m, NEW n, NEW v, NEW w, Same(m, v), Same(n, w)
  PROVE  Same(m + n, v + w)
  <1>1. MM \in Nat /\ m \in Int /\ n \in Int /\ v \in Int /\ w \in Int
    BY MMBound DEF Same
  <1>2. PICK j \in Int : m = v + j * MM
    BY DEF Same
  <1>3. PICK k \in Int : n = w + k * MM
    BY DEF Same
  <1>4. (j + k) * MM = j * MM + k * MM /\ j * MM \in Int /\ k * MM \in Int
    BY <1>1
  <1>5. m + n = (v + w) + (j + k) * MM
    BY <1>1, <1>2, <1>3, <1>4
  <1>6. j + k \in Int /\ m + n \in Int /\ v + w \in Int
    BY <1>1
  <1>7. QED
    BY <1>5, <1>6, Zenon DEF Same

LEMMA SameProduct ==
  ASSUME NEW m, NEW n, NEW v, NEW w, Same(m, v), Same(n, w)
  PROVE  Same(m * n, v * w)
  <1>1. MM \in Nat /\ m \in Int /\ n \in Int /\ v \in Int /\ w \in Int
    BY MMBound DEF Same
  <1>2. PICK j \in Int : m = v + j * MM
    BY DEF Same
  <1>3. PICK k \in Int : n = w + k * MM
    BY DEF Same
  <1> DEFINE e == v * k + j * w + (j * k) * MM
  <1>4. (v + j * MM) * (w + k * MM) = v * w + (v * k + j * w + (j * k) * MM) * MM
    BY <1>1
  <1>5. v * k \in Int /\ j * w \in Int /\ (j * k) * MM \in Int /\ v * w \in Int /\ m * n \in Int
    BY <1>1
  <1>6. e \in Int /\ m * n = v * w + e * MM
    BY <1>2, <1>3, <1>4, <1>5
  <1> HIDE DEF e
  <1>7. QED
    BY <1>5, <1>6 DEF Same

LEMMA SameMod ==
  ASSUME NEW n, NEW m, Same(n, m)
  PROVE  n % MM = m % MM
  <1>1. PICK k \in Int : n = m + k * MM
    BY DEF Same
  <1>2. QED
    BY <1>1, ModSame, MMBound, Zenon DEF Same

LEMMA Signs ==
  ASSUME NEW x \in 0 .. MM - 1
  PROVE  /\ l_magnitude(x) \in 0 .. MM \div 2
         /\ ~l_negative(x) => l_magnitude(x) < MM \div 2
         /\ l_magnitude(x) = 0 <=> x = 0
         /\ Same(x, IF l_negative(x) THEN -l_magnitude(x) ELSE l_magnitude(x))
         /\ x # 0 => l_negated(x) = MM - x
  <1>1. MM \in Nat \ {0} /\ MM = 2 * (MM \div 2) /\ MM \div 2 \in Nat \ {0} /\ x \in Int
    BY MMBound, DoubleWidth
  <1>2. x # 0 => l_negated(x) = MM - x
    <2>1. SUFFICES ASSUME x # 0
                   PROVE  (-x) % MM = MM - x
      BY DEF l_negated
    <2>2. Euclid(-x, MM, -1, MM - x)
      BY <1>1, <2>1 DEF Euclid
    <2>3. QED
      BY <2>2, EuclidDivMod, Zenon
  <1>3. CASE l_negative(x)
    <2>1. x >= MM \div 2 /\ l_magnitude(x) = MM - x
      BY <1>1, <1>2, <1>3 DEF l_negative, l_magnitude
    <2>2. -(MM - x) \in Int /\ x = -(MM - x) + 1 * MM
      BY <1>1
    <2>3. Same(x, -(MM - x))
      BY <1>1, <2>2 DEF Same
    <2>4. QED
      BY <1>1, <1>2, <1>3, <2>1, <2>3
  <1>4. CASE ~l_negative(x)
    <2>1. x < MM \div 2 /\ l_magnitude(x) = x
      BY <1>1, <1>4 DEF l_negative, l_magnitude
    <2>2. Same(x, x)
      BY <1>1, SameItself
    <2>3. QED
      BY <1>1, <1>2, <1>4, <2>1, <2>2
  <1>5. QED
    BY <1>3, <1>4

(* Quotients round towards zero, remainders have the sign of the dividend. *)
LEMMA DivCalled ==
  ASSUME NEW x \in 0 .. MM - 1, NEW d \in 0 .. MM - 1, d # 0
  PROVE  LET s == div_called(x, d)
         IN  /\ (s.q * d + s.r) % MM = x
             /\ l_magnitude(s.r) < l_magnitude(d)
             /\ s.r # 0 => l_negative(s.r) = l_negative(x)
  <1> DEFINE mx == l_magnitude(x)
             md == l_magnitude(d)
             nx == l_negative(x)
             nd == l_negative(d)
             uq == div_pos(mx, md).q
             ur == div_pos(mx, md).r
             sq == IF nx # nd THEN l_negated(uq) ELSE uq
             sr == IF nx THEN l_negated(ur) ELSE ur
  <1>1. MM \in Nat \ {0} /\ MM = 2 * (MM \div 2) /\ MM \div 2 \in Nat \ {0}
    BY MMBound, DoubleWidth
  <1>2. /\ mx \in 0 .. MM \div 2 /\ md \in 0 .. MM \div 2 /\ md # 0
        /\ Same(x, IF nx THEN -mx ELSE mx) /\ Same(d, IF nd THEN -md ELSE md)
    BY Signs
  <1>3. nx \in BOOLEAN /\ nd \in BOOLEAN
    BY DEF l_negative
  <1>4. div_called(x, d) = [q |-> sq, r |-> sr]
    BY Zenon DEF div_called
  <1> HIDE DEF mx, md, nx, nd
  <1>5. uq = mx \div md /\ ur = mx % md
    <2>1. mx \in 0 .. MM - 1 /\ md \in 0 .. MM - 1
      BY <1>1, <1>2
    <2>2. QED
      BY <1>2, <2>1, DivPos
  <1> HIDE DEF uq, ur
  <1>6. Euclid(mx, md, uq, ur)
    <2>1. mx \in Int /\ md \in Nat \ {0}
      BY <1>1, <1>2
    <2>2. QED
      BY <1>5, <2>1, EuclidParts, Zenon
  <1>7. uq \in Int /\ ur \in Int /\ ur >= 0 /\ ur < md /\ mx = uq * md + ur
    BY <1>1, <1>2, <1>6 DEF Euclid
  <1>8. /\ Same(sq, IF nx # nd THEN -uq ELSE uq)
        /\ Same(sr, IF nx THEN -ur ELSE ur)
    BY <1>7, SameNegated, SameItself
  <1> HIDE DEF sq
  <1>9. (sq * d + sr) % MM = x
    <2> DEFINE fq == IF nx # nd THEN -uq ELSE uq
               fd == IF nd THEN -md ELSE md
               fr == IF nx THEN -ur ELSE ur
               fx == IF nx THEN -mx ELSE mx
    <2>1. fq * fd + fr = fx
      <3>1. (-uq) * md = -(md * uq) /\ uq * (-md) = -(md * uq) /\ (-uq) * (-md) = md * uq
            /\ uq * md = md * uq
        BY <1>2, <1>7, ProductSigns
      <3>2. fq * fd = IF nx THEN -(md * uq) ELSE md * uq
        BY <1>3, <3>1
      <3>3. mx = md * uq + ur /\ md * uq \in Int
        BY <1>2, <1>7, <3>1
      <3> HIDE DEF fq, fd
      <3>4. QED
        BY <1>7, <3>2, <3>3
    <2>2. Same(sq, fq) /\ Same(d, fd) /\ Same(sr, fr) /\ Same(x, fx)
      BY <1>2, <1>8
    <2> HIDE DEF fq, fd, fr, fx, sr
    <2>3. Same(sq * d, fq * fd)
      BY <2>2, SameProduct, Zenon
    <2>4. Same(sq * d + sr, fx)
      BY <2>1, <2>2, <2>3, SameSum, Zenon
    <2>5. (sq * d + sr) % MM = fx % MM /\ x % MM = fx % MM
      BY <2>2, <2>4, SameMod, Zenon
    <2>6. x % MM = x
      BY <1>1, SmallMod
    <2>7. QED
      BY <2>5, <2>6
  <1>10. ur \in 0 .. MM \div 2 - 1
    BY <1>1, <1>2, <1>7
  <1>11. l_magnitude(sr) < md /\ (sr # 0 => l_negative(sr) = nx)
    <2>1. CASE ~nx \/ ur = 0
      <3>1. sr = ur
        <4>1. CASE ur = 0
          <5>1. Euclid(-ur, MM, 0, 0)
            BY <1>1, <1>7, <4>1 DEF Euclid
          <5>2. (-ur) % MM = 0
            BY <5>1, EuclidDivMod, Zenon
          <5>3. QED
            BY <4>1, <5>2 DEF l_negated
        <4>2. CASE ~nx
          BY <4>2
        <4>3. QED
          BY <2>1, <4>1, <4>2
      <3>2. ~l_negative(ur) /\ l_magnitude(ur) = ur
        BY <1>1, <1>10 DEF l_negative, l_magnitude
      <3>3. l_negative(ur) = FALSE
        BY <3>2 DEF l_negative
      <3> HIDE DEF sr
      <3>4. QED
        BY <1>3, <1>7, <2>1, <3>1, <3>2, <3>3
    <2>2. CASE nx /\ ur # 0
      <3>1. ur \in 0 .. MM - 1
        BY <1>1, <1>10
      <3>2. sr = MM - ur
        BY <2>2, <3>1, Signs
      <3>3. MM - ur \in 0 .. MM - 1 /\ MM - ur # 0 /\ l_negative(MM - ur)
        BY <1>1, <1>10, <2>2 DEF l_negative
      <3>4. l_negated(MM - ur) = MM - (MM - ur)
        BY <3>3, Signs
      <3>5. l_magnitude(MM - ur) = ur
        BY <1>1, <1>7, <3>3, <3>4 DEF l_magnitude
      <3>6. l_negative(MM - ur) = TRUE /\ nx = TRUE
        BY <1>3, <2>2, <3>3 DEF l_negative
      <3>7. QED
        BY <1>7, <3>2, <3>5, <3>6
    <2>3. QED
      BY <1>3, <2>1, <2>2
  <1> HIDE DEF sr
  <1>12. QED
    BY <1>4, <1>9, <1>11 DEF md, nx

LEMMA DivsExact ==
  ASSUME NEW x \in 0 .. MM - 1, NEW d \in 0 .. MM - 1
  PROVE  DivExact(x, d)
  BY DivPos, DivCalled DEF DivExact

(***************************************************************************)
(* Shifts of long longs.                                                   *)
(***************************************************************************)

LEMMA DistanceOf == \A f \in 0 .. W - 1 : Distance(f) = f
  BY SmallMod, WAssumption DEF Distance

(* Halves of a word: F below, Q above. *)
LEMMA WordHalves ==
  ASSUME NEW f \in 0 .. W
  PROVE  Pow2[f] \in Nat \ {0} /\ Pow2[W - f] \in Nat \ {0} /\ M = Pow2[f] * Pow2[W - f]
  <1>1. f \in Nat /\ W - f \in Nat /\ f + (W - f) = W
    BY WAssumption
  <1>2. Pow2[f + (W - f)] = Pow2[f] * Pow2[W - f]
    BY <1>1, Pow2Sum, Zenon
  <1>3. QED
    BY <1>1, <1>2, Pow2Type DEF M

(* The bits shifted out of a word are lost, the others move up. *)
LEMMA ShiftedUp ==
  ASSUME NEW F \in Nat \ {0}, NEW Q \in Nat \ {0}, M = F * Q, NEW w \in Nat
  PROVE  /\ (w * F) % M = (w % Q) * F
         /\ w * F = (w \div Q) * M + (w % Q) * F
         /\ (w % Q) \in 0 .. Q - 1 /\ (w % Q) * F \in Word
         /\ w \div Q \in Int
  <1> DEFINE u == w \div Q
             v == w % Q
  <1>1. w \in Int
    OBVIOUS
  <1>2. Euclid(w, Q, u, v)
    BY <1>1, EuclidParts, Zenon
  <1> HIDE DEF u, v
  <1>3. w = u * Q + v /\ u \in Int /\ v \in 0 .. Q - 1
    BY <1>2 DEF Euclid
  <1>4. w * F = u * M + v * F
    <2>1. (u * Q + v) * F = u * (F * Q) + v * F
      BY <1>3
    <2>2. QED
      BY <1>3, <2>1
  <1>5. v * F + 0 \in 0 .. M - 1
    <2>1. 0 \in 0 .. F - 1 /\ M = Q * F
      OBVIOUS
    <2>2. QED
      BY <1>3, <2>1, LowWord
  <1>6. v * F \in 0 .. M - 1
    <2>1. v * F \in Int
      BY <1>3
    <2>2. QED
      BY <1>5, <2>1
  <1>7. Euclid(w * F, M, u, v * F)
    <2>1. M \in Nat \ {0} /\ w * F \in Int
      BY WordBound
    <2>2. QED
      BY <1>3, <1>4, <1>6, <2>1 DEF Euclid
  <1>8. (w * F) % M = v * F
    BY <1>7, EuclidDivMod, Zenon
  <1>9. QED
    BY <1>3, <1>4, <1>6, <1>8 DEF u, v, Word

(* Bits above and bits below make a word. *)
LEMMA Joined ==
  ASSUME NEW f \in 0 .. W, NEW m \in 0 .. Pow2[W - f] - 1, NEW b \in 0 .. Pow2[f] - 1
  PROVE  /\ m * Pow2[f] + b \in Word
         /\ bor(m * Pow2[f], b) = m * Pow2[f] + b
         /\ bor(b, m * Pow2[f]) = m * Pow2[f] + b
  <1> DEFINE F == Pow2[f]
             Q == Pow2[W - f]
  <1>1. F \in Nat \ {0} /\ Q \in Nat \ {0} /\ M = F * Q /\ M = Q * F
    BY WordHalves
  <1>2. Bits(m * F) \cap Bits(b) = {}
    BY <1>1, DisjointBits
  <1> HIDE DEF F, Q
  <1>3. m \in 0 .. Q - 1 /\ b \in 0 .. F - 1
    BY DEF F, Q
  <1>4. m * F + b \in Word
    BY <1>1, <1>3, LowWord DEF Word
  <1>5. m * F \in Word /\ b \in Word
    <2>1. m * F \in Nat
      BY <1>1, <1>3
    <2>2. M \in Nat /\ b \in Nat
      BY <1>3, WordBound
    <2>3. m * F + b \in 0 .. M - 1
      BY <1>4 DEF Word
    <2>4. m * F \in 0 .. M - 1 /\ b \in 0 .. M - 1
      BY <2>1, <2>2, <2>3
    <2>5. QED
      BY <2>4 DEF Word
  <1>6. bor(m * F, b) = m * F + b
    BY <1>2, <1>5, BitOperations
  <1>7. bor(b, m * F) = b + m * F
    <2>1. Bits(b) \cap Bits(m * F) = {}
      BY <1>2
    <2>2. QED
      BY <1>5, <2>1, BitOperations
  <1>8. b + m * F = m * F + b
    BY <1>5 DEF Word
  <1>9. QED
    BY <1>4, <1>6, <1>7, <1>8 DEF F

LEMMA ShiftLeft ==
  ASSUME NEW a \in Dint, NEW f \in 1 .. W - 1
  PROVE  Value(l_lsl(a, f)) = (Value(a) * Pow2[f]) % MM
  <1> DEFINE F == Pow2[f]
             Q == Pow2[W - f]
             u == a.low \div Q
             v == a.low % Q
             u2 == a.high \div Q
             v2 == a.high % Q
  <1>1. f \in 0 .. W - 1 /\ W - f \in 0 .. W - 1 /\ f \in 0 .. W /\ f # 0 /\ f < W
    BY WAssumption
  <1>2. F \in Nat \ {0} /\ Q \in Nat \ {0} /\ M = F * Q
    BY <1>1, WordHalves
  <1>3. a.low \in 0 .. M - 1 /\ a.high \in 0 .. M - 1 /\ a.low \in Nat /\ a.high \in Nat
        /\ Value(a) = a.high * M + a.low
    BY PairOf
  <1>4. l_lsl(a, f) = dint((a.low * F) % M, bor((a.high * F) % M, u))
    BY <1>1, DistanceOf DEF l_lsl, sll, srl
  <1> HIDE DEF F, Q
  <1>5. /\ (a.low * F) % M = v * F /\ a.low * F = u * M + v * F
        /\ v * F \in Word /\ u \in Int
    BY <1>2, <1>3, ShiftedUp
  <1>6. /\ (a.high * F) % M = v2 * F /\ a.high * F = u2 * M + v2 * F
        /\ v2 \in 0 .. Q - 1 /\ u2 \in Int
    BY <1>2, <1>3, ShiftedUp
  <1>7. u \in 0 .. F - 1
    <2>1. Euclid(a.low, Q, u, v)
      <3>1. a.low \in Int
        BY <1>3
      <3>2. QED
        BY <1>2, <3>1, EuclidParts, Zenon
    <2> HIDE DEF u, v
    <2>2. a.low = u * Q + v /\ u \in Int /\ v \in 0 .. Q - 1
      BY <2>1 DEF Euclid
    <2>3. u < 0 => u * Q <= -Q
      BY <1>2, <2>2
    <2>4. u >= F => u * Q >= F * Q
      BY <1>2, <2>2
    <2>5. u * Q \in Int
      BY <1>2, <2>2
    <2>6. QED
      BY <1>2, <1>3, <2>2, <2>3, <2>4, <2>5
  <1> HIDE DEF u, v, u2, v2
  <1>8. bor(v2 * F, u) = v2 * F + u /\ v2 * F + u \in Word
    BY <1>1, <1>6, <1>7, Joined DEF F, Q
  <1> DEFINE x == a.high * F + u
             n == Value(a) * F
  <1>9. x % M = v2 * F + u
    <2>1. Euclid(x, M, u2, v2 * F + u)
      <3>1. v2 * F \in Int /\ u2 * M \in Int /\ M \in Nat \ {0}
        BY <1>2, <1>6, WordBound
      <3>2. x = u2 * M + (v2 * F + u) /\ x \in Int
        BY <1>6, <1>7, <3>1
      <3>3. QED
        BY <1>6, <1>8, <3>1, <3>2 DEF Euclid, Word
    <2>2. QED
      BY <2>1, EuclidDivMod, Zenon
  <1>10. n = x * M + v * F
    <2>1. (a.high * M + a.low) * F = (a.high * F) * M + a.low * F
      BY <1>2, <1>3
    <2>2. (a.high * F + u) * M = (a.high * F) * M + u * M
      BY <1>2, <1>3, <1>7
    <2>3. (a.high * F) * M \in Int /\ u * M \in Int /\ v * F \in Int
      BY <1>2, <1>3, <1>5, <1>7, WordBound DEF Word
    <2>4. QED
      BY <1>3, <1>5, <2>1, <2>2, <2>3
  <1>11. x \in Int
    BY <1>2, <1>3, <1>7
  <1> HIDE DEF x, n
  <1>12. Value(dint(v * F, x % M)) = n % MM
    BY <1>5, <1>10, <1>11, PairMod
  <1>13. QED
    BY <1>4, <1>5, <1>6, <1>8, <1>9, <1>12 DEF n, F

(* A number of twice the width, its high word g signed or not, shifted down *)
(* within a word.                                                          *)
IsDown(g, l, F, Q, s, r, u, v) ==
  /\ g \in Int /\ s \in Int /\ r \in 0 .. F - 1 /\ u \in 0 .. Q - 1 /\ v \in 0 .. F - 1
  /\ g = s * F + r /\ l = u * F + v

ShiftedDown(g, l, F, Q, s, r, u) == (g * M + l) \div F = s * M + (r * Q + u)

LEMMA DownIdentity ==
  ASSUME NEW F \in Nat \ {0}, NEW Q \in Nat \ {0}, M = F * Q,
         NEW g, NEW l, NEW s, NEW r, NEW u, NEW v, IsDown(g, l, F, Q, s, r, u, v)
  PROVE  ShiftedDown(g, l, F, Q, s, r, u)
  <1>1. /\ g \in Int /\ s \in Int /\ r \in Int /\ u \in Int /\ v \in 0 .. F - 1
        /\ g = s * F + r /\ l = u * F + v
    BY DEF IsDown
  <1>2. (s * F + r) * (F * Q) + (u * F + v) = (s * (F * Q) + (r * Q + u)) * F + v
    BY <1>1
  <1>3. g * M + l = (s * M + (r * Q + u)) * F + v
    BY <1>1, <1>2
  <1>4. M \in Int /\ s * M \in Int /\ r * Q \in Int
    BY <1>1, WordBound
  <1>5. s * M + (r * Q + u) \in Int /\ l \in Int
    BY <1>1, <1>4
  <1>6. g * M + l \in Int
    BY <1>1, <1>4, <1>5
  <1>7. Euclid(g * M + l, F, s * M + (r * Q + u), v)
    BY <1>1, <1>3, <1>5, <1>6 DEF Euclid
  <1>8. (g * M + l) \div F = s * M + (r * Q + u)
    BY <1>7, EuclidDivMod, Zenon
  <1>9. QED
    BY <1>8 DEF ShiftedDown

(* The parts of the words that a shift by f takes apart. *)
LEMMA DownParts ==
  ASSUME NEW a \in Dint, NEW f \in 1 .. W - 1, NEW g \in Int, NEW k \in Int,
         g = a.high - k * M
  PROVE  LET F == Pow2[f]
             Q == Pow2[W - f]
         IN  /\ F \in Nat \ {0} /\ Q \in Nat \ {0} /\ M = F * Q
             /\ IsDown(g, a.low, F, Q, g \div F, a.high % F, a.low \div F, a.low % F)
             /\ srl(a.low, f) = a.low \div F
             /\ sll(a.high, W - f) = (a.high % F) * Q
             /\ bor(srl(a.low, f), sll(a.high, W - f)) = (a.high % F) * Q + (a.low \div F)
             /\ (a.high % F) * Q + (a.low \div F) \in Word
  <1> DEFINE F == Pow2[f]
             Q == Pow2[W - f]
             s == g \div F
             r == a.high % F
             u == a.low \div F
             v == a.low % F
  <1>1. f \in 0 .. W - 1 /\ W - f \in 0 .. W - 1 /\ f \in 0 .. W /\ W - f \in 0 .. W
        /\ W - (W - f) = f
    BY WAssumption
  <1>2. F \in Nat \ {0} /\ Q \in Nat \ {0} /\ M = F * Q
    BY <1>1, WordHalves
  <1>3. a.low \in 0 .. M - 1 /\ a.high \in 0 .. M - 1 /\ a.low \in Nat /\ a.high \in Nat
    BY PairOf
  <1>4. Distance(f) = f /\ Distance(W - f) = W - f
    BY <1>1, DistanceOf, Zenon
  <1>5. srl(a.low, f) = u /\ sll(a.high, W - f) = (a.high * Q) % M
    BY <1>4 DEF srl, sll
  <1> HIDE DEF F, Q
  <1>6. (a.high * Q) % M = r * Q /\ r \in 0 .. F - 1
    <2>1. M = Q * F
      BY <1>2
    <2>2. QED
      BY <1>2, <1>3, <2>1, ShiftedUp
  <1>7. Euclid(a.low, F, u, v)
    <2>1. a.low \in Int
      BY <1>3
    <2>2. QED
      BY <1>2, <2>1, EuclidParts, Zenon
  <1>8. Euclid(a.high, F, a.high \div F, r)
    <2>1. a.high \in Int
      BY <1>3
    <2>2. QED
      BY <1>2, <2>1, EuclidParts, Zenon
  <1>9. Euclid(g, F, s, g % F)
    <2>1. g \in Int
      OBVIOUS
    <2>2. QED
      BY <1>2, <2>1, EuclidParts, Zenon
  <1>10. g % F = r
    <2>1. k * M = (k * Q) * F /\ k * Q \in Int /\ a.high \in Int
      BY <1>2, <1>3
    <2>2. (-(k * Q)) * F = -((k * Q) * F) /\ -(k * Q) \in Int /\ (k * Q) * F \in Int
      BY <1>2, <2>1
    <2>3. g = a.high + (-(k * Q)) * F
      BY <1>3, <2>1, <2>2
    <2>4. g \in Int
      OBVIOUS
    <2>5. QED
      BY <1>2, <2>1, <2>2, <2>3, <2>4, ModSame, Zenon
  <1> HIDE DEF s, r, u, v
  <1>11. u \in 0 .. Q - 1
    <2>1. a.low = u * F + v /\ u \in Int /\ v \in 0 .. F - 1
      BY <1>7 DEF Euclid
    <2>2. u < 0 => u * F <= -F
      BY <1>2, <2>1
    <2>3. u >= Q => u * F >= Q * F
      BY <1>2, <2>1
    <2>4. u * F \in Int /\ M = Q * F
      BY <1>2, <2>1
    <2>5. QED
      BY <1>2, <1>3, <2>1, <2>2, <2>3, <2>4
  <1>12. IsDown(g, a.low, F, Q, s, r, u, v)
    BY <1>6, <1>7, <1>9, <1>10, <1>11 DEF Euclid, IsDown
  <1>13. bor(u, r * Q) = r * Q + u /\ r * Q + u \in Word
    BY <1>1, <1>6, <1>11, Joined DEF F, Q
  <1>14. QED
    BY <1>2, <1>5, <1>6, <1>12, <1>13 DEF F, Q, s, r, u, v

LEMMA ShiftRight ==
  ASSUME NEW a \in Dint, NEW f \in 1 .. W - 1
  PROVE  /\ Value(l_lsr(a, f)) = Value(a) \div Pow2[f]
         /\ SignedValue(l_asr(a, f)) = SignedValue(a) \div Pow2[f]
  <1> DEFINE F == Pow2[f]
             Q == Pow2[W - f]
             low == (a.high % F) * Q + (a.low \div F)
  <1>1. f # 0 /\ f < W /\ Distance(f) = f
    BY DistanceOf, WAssumption
  <1>2. a.low \in 0 .. M - 1 /\ a.high \in Word /\ a.high \in 0 .. M - 1
        /\ Value(a) = a.high * M + a.low
    BY PairOf
  <1>3. Value(l_lsr(a, f)) = Value(a) \div F
    <2>1. a.high \in Int /\ 0 \in Int /\ a.high = a.high - 0 * M
      BY <1>2, WordBound
    <2>2. /\ F \in Nat \ {0} /\ Q \in Nat \ {0} /\ M = F * Q
          /\ IsDown(a.high, a.low, F, Q, a.high \div F, a.high % F, a.low \div F, a.low % F)
          /\ bor(srl(a.low, f), sll(a.high, W - f)) = low
      BY <2>1, DownParts, Zenon
    <2>3. l_lsr(a, f) = dint(low, a.high \div F)
      BY <1>1, <2>2 DEF l_lsr, srl
    <2>4. (a.high * M + a.low) \div F = (a.high \div F) * M + low
      <3> HIDE DEF F, Q
      <3>1. ShiftedDown(a.high, a.low, F, Q, a.high \div F, a.high % F, a.low \div F)
        BY <2>2, DownIdentity, Zenon
      <3>2. QED
        BY <3>1 DEF ShiftedDown
    <2>5. QED
      BY <1>2, <2>3, <2>4 DEF Value, dint
  <1>4. SignedValue(l_asr(a, f)) = SignedValue(a) \div F
    <2> DEFINE g == Signed(a.high)
               s == g \div F
               Mid == M \div 2
    <2>1. g \in -Mid .. Mid - 1 /\ g \in Int
      BY <1>2, SignedOfWord
    <2>2. PICK k \in {0, 1} : g = a.high - k * M
      BY <1>2, SignedOfWord
    <2>3. k \in Int
      OBVIOUS
    <2> HIDE DEF g
    <2>4. /\ F \in Nat \ {0} /\ Q \in Nat \ {0} /\ M = F * Q
          /\ IsDown(g, a.low, F, Q, s, a.high % F, a.low \div F, a.low % F)
          /\ bor(srl(a.low, f), sll(a.high, W - f)) = low
      BY <2>1, <2>2, <2>3, DownParts, Zenon
    <2>5. l_asr(a, f) = dint(low, s % M)
      BY <1>1, <2>4 DEF l_asr, sra, g
    <2>6. (g * M + a.low) \div F = s * M + low
      <3> HIDE DEF F, Q, s
      <3>1. ShiftedDown(g, a.low, F, Q, s, a.high % F, a.low \div F)
        BY <2>4, DownIdentity, Zenon
      <3>2. QED
        BY <3>1 DEF ShiftedDown
    <2>7. s \in -Mid .. Mid - 1
      <3> HIDE DEF s, F
      <3>1. g = s * F + (a.high % F) /\ s \in Int /\ (a.high % F) \in 0 .. F - 1
        BY <2>4 DEF IsDown
      <3>2. Mid \in Nat \ {0}
        BY WordBound
      <3> HIDE DEF Mid
      <3>3. s >= Mid => s * F >= Mid * F
        BY <2>4, <3>1, <3>2
      <3>4. s <= -Mid - 1 => s * F <= (-Mid - 1) * F
        BY <2>4, <3>1, <3>2
      <3>5. (-Mid - 1) * F = -(Mid * F) - F /\ Mid * F >= Mid /\ Mid * F \in Int /\ s * F \in Int
        BY <2>4, <3>1, <3>2
      <3>6. QED
        BY <2>1, <2>4, <3>1, <3>2, <3>3, <3>4, <3>5
    <2>8. Signed(s % M) = s
      BY <2>7, WordOfSigned
    <2>9. SignedValue(a) = g * M + a.low
      BY DEF SignedValue, g
    <2>10. QED
      BY <2>5, <2>6, <2>8, <2>9 DEF SignedValue, dint
  <1>5. QED
    BY <1>3, <1>4

(* A shift by a word and more: only the high word g counts, or the low one. *)
LEMMA FarIdentity ==
  ASSUME NEW G, NEW g, NEW l, G \in Nat \ {0}, g \in Int, l \in 0 .. M - 1
  PROVE  Euclid(g * M + l, G * M, g \div G, (g % G) * M + l)
  <1> DEFINE q == g \div G
             r == g % G
  <1>1. Euclid(g, G, q, r)
    BY EuclidParts, Zenon
  <1> HIDE DEF q, r
  <1>2. g = q * G + r /\ q \in Int /\ r \in 0 .. G - 1 /\ r \in Int /\ l \in Int
    BY <1>1, WordBound DEF Euclid
  <1>3. M \in Nat \ {0} /\ G * M \in Nat \ {0} /\ r * M \in Int /\ q * (G * M) \in Int
    BY <1>2, WordBound
  <1>4. g * M + l = q * (G * M) + (r * M + l)
    <2>1. (q * G + r) * M = q * (G * M) + r * M
      BY <1>2, <1>3
    <2>2. QED
      BY <1>2, <1>3, <2>1
  <1>5. r * M + l \in 0 .. G * M - 1
    <2>1. r * M >= 0 /\ r * M <= (G - 1) * M
      BY <1>2, <1>3
    <2>2. (G - 1) * M = G * M - M
      BY <1>3
    <2>3. QED
      BY <1>2, <1>3, <2>1, <2>2
  <1>6. g * M + l \in Int
    BY <1>2, <1>3
  <1>7. QED
    BY <1>2, <1>3, <1>4, <1>5, <1>6 DEF Euclid, q, r

(* The quotient of a word by a distance is no larger than the word. *)
LEMMA QuotientWord ==
  ASSUME NEW G, NEW g, G \in Nat \ {0}, g \in Int
  PROVE  /\ g >= 0 => g \div G \in 0 .. g
         /\ g < 0 => g \div G \in g .. -1
  <1> DEFINE q == g \div G
             r == g % G
  <1>1. Euclid(g, G, q, r)
    BY EuclidParts, Zenon
  <1> HIDE DEF q, r
  <1>2. g = q * G + r /\ q \in Int /\ r \in 0 .. G - 1 /\ r \in Int /\ q * G \in Int
    BY <1>1 DEF Euclid
  <1>3. /\ q >= 0 => q * G >= q
        /\ q <= -1 => q * G <= -G
    BY <1>2
  <1>4. q >= g + 1 /\ g >= 0 => FALSE
    BY <1>2, <1>3
  <1>5. q < g /\ g < 0 => FALSE
    <2>1. SUFFICES ASSUME q < g, g < 0
                   PROVE  FALSE
      OBVIOUS
    <2>2. (q + 1) * G <= q + 1 /\ (q + 1) * G = q * G + G
      BY <1>2, <2>1
    <2>3. QED
      BY <1>2, <2>1, <2>2
  <1>6. g >= 0 => q >= 0
    BY <1>2, <1>3
  <1>7. g < 0 => q <= -1
    <2>1. q >= 0 => q * G >= 0
      BY <1>2
    <2>2. QED
      BY <1>2, <2>1
  <1>8. QED
    BY <1>2, <1>4, <1>5, <1>6, <1>7 DEF q

LEMMA ShiftFar ==
  ASSUME NEW a \in Dint, NEW f \in W .. 2 * W - 1
  PROVE  ShiftExact(a, f)
  <1> DEFINE e == f - W
             G == Pow2[e]
  <1>1. /\ f # 0 /\ ~(f < W) /\ e \in 0 .. W - 1 /\ e \in Nat /\ W \in Nat /\ e + W = f
        /\ Distance(e) = e
    BY DistanceOf, WAssumption
  <1>2. Pow2[f] = G * M /\ G \in Nat \ {0}
    <2>1. Pow2[e + W] = Pow2[e] * Pow2[W] /\ Pow2[e] \in Nat \ {0}
      BY <1>1, Pow2Sum, Pow2Type
    <2>2. QED
      BY <1>1, <2>1 DEF M
  <1>3. /\ l_lsl(a, f) = dint(0, (a.low * G) % M)
        /\ l_lsr(a, f) = dint(a.high \div G, 0)
        /\ l_asr(a, f) = dint((Signed(a.high) \div G) % M, sra(a.high, W - 1))
    BY <1>1 DEF l_lsl, l_lsr, l_asr, sll, srl, sra
  <1> HIDE DEF G, e
  <1>4. /\ a.low \in 0 .. M - 1 /\ a.high \in 0 .. M - 1 /\ a.high \in Word
        /\ a.low \in Int /\ a.high \in Int /\ Value(a) = a.high * M + a.low
        /\ M \in Nat \ {0}
    BY PairOf, WordBound
  <1>5. Value(l_lsl(a, f)) = (Value(a) * Pow2[f]) % MM
    <2> DEFINE x == a.low * G
               n == x * M
               k == a.high * G
    <2>1. x \in Int /\ n \in Int /\ k \in Int /\ n = x * M + 0 /\ 0 \in Word
      BY <1>2, <1>4 DEF Word
    <2>2. Value(a) * Pow2[f] = n + k * MM
      <3>1. (a.high * M + a.low) * (G * M) = (a.low * G) * M + (a.high * G) * (M * M)
        BY <1>2, <1>4
      <3>2. QED
        BY <1>2, <1>4, <3>1, MMBound
    <2>3. Value(a) * Pow2[f] \in Int
      BY <2>1, <2>2, MMBound
    <2> HIDE DEF x, n, k
    <2>4. Value(dint(0, x % M)) = n % MM
      BY <2>1, PairMod
    <2>5. (Value(a) * Pow2[f]) % MM = n % MM
      BY <2>1, <2>2, <2>3, MMBound, ModSame, ZenonT(30)
    <2>6. QED
      BY <1>3, <2>4, <2>5 DEF x
  <1>6. Value(l_lsr(a, f)) = Value(a) \div Pow2[f]
    <2>1. Euclid(a.high * M + a.low, G * M, a.high \div G, (a.high % G) * M + a.low)
      BY <1>2, <1>4, FarIdentity, Zenon
    <2>2. (a.high * M + a.low) \div (G * M) = a.high \div G
      BY <2>1, EuclidDivMod, Zenon
    <2>3. a.high \div G \in Int
      BY <2>1 DEF Euclid
    <2>4. QED
      BY <1>2, <1>3, <1>4, <2>2, <2>3 DEF Value, dint
  <1>7. SignedValue(l_asr(a, f)) = SignedValue(a) \div Pow2[f]
    <2> DEFINE g == Signed(a.high)
               q == g \div G
               Mid == M \div 2
               h == g \div Pow2[W - 1]
    <2>1. g \in -Mid .. Mid - 1 /\ g \in Int /\ Mid \in Nat \ {0} /\ 2 * Mid = M
      BY <1>4, SignedOfWord, WordBound
    <2>2. sra(a.high, W - 1) = h % M /\ Pow2[W - 1] = Mid
      <3>1. W - 1 \in 0 .. W - 1 /\ W - 1 \in Nat /\ (W - 1) + 1 = W
        BY WAssumption
      <3>2. Distance(W - 1) = W - 1
        BY <3>1, DistanceOf, Zenon
      <3>3. M = 2 * Pow2[W - 1] /\ Pow2[W - 1] \in Nat \ {0}
        BY <3>1, Pow2Next, Pow2Type DEF M
      <3>4. QED
        BY <3>2, <3>3, WordBound DEF sra
    <2>3. SignedValue(a) \div Pow2[f] = q
      <3>1. Euclid(g * M + a.low, G * M, q, (g % G) * M + a.low)
        <4> HIDE DEF g
        <4>1. QED
          BY <1>2, <1>4, <2>1, FarIdentity, Zenon
      <3>2. (g * M + a.low) \div (G * M) = q
        BY <3>1, EuclidDivMod, Zenon
      <3>3. QED
        BY <1>2, <3>2 DEF SignedValue
    <2>4. SignedValue(l_asr(a, f)) = Signed(h % M) * M + (q % M)
      BY <1>3, <2>2 DEF SignedValue, dint
    <2> HIDE DEF g
    <2>5. /\ g >= 0 => q \in 0 .. g
          /\ g < 0 => q \in g .. -1
      BY <1>2, <2>1, QuotientWord
    <2> HIDE DEF q, Mid
    <2>6. CASE g >= 0
      <3>1. q \in 0 .. M - 1 /\ g \in 0 .. Mid - 1
        BY <2>1, <2>5, <2>6
      <3>2. q % M = q /\ h = 0
        BY <1>4, <2>1, <2>2, <3>1, SmallMod
      <3>3. 0 % M = 0 /\ Signed(0) = 0
        BY <1>4, WordBound, SmallMod DEF Signed
      <3>4. QED
        BY <1>4, <2>3, <2>4, <3>1, <3>2, <3>3
    <2>7. CASE g < 0
      <3>1. q \in g .. -1 /\ q \in Int
        BY <2>1, <2>5, <2>7
      <3>2. Euclid(q, M, -1, q + M)
        BY <1>4, <2>1, <3>1 DEF Euclid
      <3>3. q % M = q + M
        BY <3>2, EuclidDivMod, Zenon
      <3>4. Euclid(g, Mid, -1, g + Mid)
        BY <2>1, <2>7 DEF Euclid
      <3>5. g \div Mid = -1
        BY <3>4, EuclidDivMod, Zenon
      <3>6. h = -1
        BY <2>2, <3>5
      <3>7. -1 \in -(M \div 2) .. M \div 2 - 1
        BY <2>1 DEF Mid
      <3>8. Signed((-1) % M) = -1
        BY <3>7, WordOfSigned
      <3> HIDE DEF h
      <3>9. QED
        BY <1>4, <2>3, <2>4, <3>1, <3>3, <3>6, <3>8
    <2>8. QED
      BY <2>1, <2>6, <2>7
  <1>8. QED
    BY <1>5, <1>6, <1>7 DEF ShiftExact

LEMMA ShiftNone ==
  ASSUME NEW a \in Dint
  PROVE  ShiftExact(a, 0)
  <1>1. Pow2[0] = 1
    BY Pow2Zero
  <1>2. l_lsl(a, 0) = a /\ l_lsr(a, 0) = a /\ l_asr(a, 0) = a
    BY DEF l_lsl, l_lsr, l_asr
  <1>3. Value(a) \in 0 .. MM - 1 /\ Value(a) \in Int /\ MM \in Nat \ {0}
    BY PairOf, MMBound
  <1>4. SignedValue(a) \in Int
    BY PairOf, SignedOfWord, WordBound DEF SignedValue
  <1>5. Value(a) * Pow2[0] = Value(a) /\ Value(a) % MM = Value(a)
    BY <1>1, <1>3, SmallMod
  <1>6. \A n \in Int : n \div 1 = n
    OBVIOUS
  <1>7. QED
    BY <1>1, <1>2, <1>3, <1>4, <1>5, <1>6 DEF ShiftExact

LEMMA ShiftsExact ==
  ASSUME NEW a \in Dint, NEW f \in 0 .. 2 * W - 1
  PROVE  ShiftExact(a, f)
  <1>1. f = 0 \/ f \in 1 .. W - 1 \/ f \in W .. 2 * W - 1
    BY WAssumption
  <1>2. QED
    BY <1>1, ShiftNone, ShiftLeft, ShiftRight, ShiftFar DEF ShiftExact

(***************************************************************************)
(* The operations a program can ask for.                                   *)
(***************************************************************************)

CallInv ==
  /\ call.kind = "pair" => call.a \in Dint /\ call.b \in Dint
  /\ call.kind = "shift" => call.a \in Dint /\ call.f \in 0 .. 2 * W - 1

LEMMA CallInvExact == CallInv => LongLongExact
  <1>1. SUFFICES ASSUME CallInv
                 PROVE  LongLongExact
    OBVIOUS
  <1>2. ASSUME call.kind = "pair"
        PROVE  /\ \A known \in BOOLEAN :
                    /\ AddExact(call.a, call.b, known)
                    /\ MulExact(call.a, call.b, known)
                    /\ CompareExact(call.a, call.b, known)
               /\ DivExact(Value(call.a), Value(call.b))
               /\ MultiplierExact(call.a.low, call.b.low)
    <2>1. call.a \in Dint /\ call.b \in Dint
      BY <1>1, <1>2 DEF CallInv
    <2>2. Value(call.a) \in 0 .. MM - 1 /\ Value(call.b) \in 0 .. MM - 1
      BY <2>1, PairOf
    <2>3. DivExact(Value(call.a), Value(call.b))
      BY <2>2, DivsExact
    <2>4. MultiplierExact(call.a.low, call.b.low)
      BY <2>1, MulsExact
    <2>5. QED
      BY <2>1, <2>3, <2>4, AddsExact, MulsExact, ComparesExact
  <1>3. ASSUME call.kind = "shift"
        PROVE  ShiftExact(call.a, call.f)
    BY <1>1, <1>3, ShiftsExact DEF CallInv
  <1>4. QED
    BY <1>2, <1>3 DEF LongLongExact

LEMMA CallInvInit == CallInit => CallInv
  BY DEF CallInit, CallInv, Idle

LEMMA CallInvNext ==
  ASSUME CallInv, [CallNext]_call
  PROVE  CallInv'
  <1>1. ASSUME NEW a \in Dint, NEW b \in Dint, CallPair(a, b)
        PROVE  CallInv'
    BY <1>1 DEF CallPair, CallInv
  <1>2. ASSUME NEW a \in Dint, NEW f \in 0 .. 2 * W - 1, CallShift(a, f)
        PROVE  CallInv'
    BY <1>2 DEF CallShift, CallInv
  <1>3. CASE Return
    BY <1>3 DEF Return, CallInv, Idle
  <1>4. CASE UNCHANGED call
    BY <1>4 DEF CallInv
  <1>5. QED
    BY <1>1, <1>2, <1>3, <1>4 DEF CallNext

(* The operations of long long, its division and its shifts compute what C *)
(* asks of them on every pair of operands and every distance, for words of *)
(* any width and whatever the compiler knew (trv32p3_cnn_c_longlong.h,     *)
(* trv32p3_cnn_c_div.c).                                                   *)
THEOREM LongLongCorrect == CallSpec => []LongLongExact
  BY CallInvExact, CallInvInit, CallInvNext, PTL DEF CallSpec
=============================================================================
