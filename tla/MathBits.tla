------------------------------ MODULE MathBits ------------------------------
(***************************************************************************)
(* The functions of the C library that take doubles apart                  *)
(* (runtime/src/math.c): two words, of which the high one holds the sign,  *)
(* an exponent of E bits and the first H bits of the mantissa, the low one *)
(* the other L bits (11, 20 and 32 in the source, whose constants are      *)
(* written as these three give them).  A float has no low word.            *)
(*                                                                         *)
(* The high word without its sign is hi, a number: what carries out of the *)
(* mantissa gets into the exponent.  The guards huge+x>0, which only raise *)
(* a flag, hold for all finite numbers, and rounding is to nearest.        *)
(***************************************************************************)
EXTENDS Powers

CONSTANTS
  E, H, L,   \* the bits of the three parts
  MaxInt,    \* the largest int
  Far        \* 50000 in the source

VARIABLE asked   \* the function that a program calls, with its operands, or NotAsked

P == H + L                  \* bits of the mantissa
Bias == Pow2[E - 1] - 1
Special == (Pow2[E] - 1) * Pow2[H]  \* infinities and what is not a number, from here on

Double == [neg : BOOLEAN, hi : 0 .. Pow2[E + H] - 1, lo : 0 .. Pow2[L] - 1]
Finite(x) == x.hi < Special
IsNan(x) == x.hi > Special \/ (x.hi = Special /\ x.lo # 0)
Float == {x \in Double : x.lo = 0}

Zero(neg) == [neg |-> neg, hi |-> 0, lo |-> 0]
One(neg) == [neg |-> neg, hi |-> Bias * Pow2[H], lo |-> 0]
Infinity(neg) == [neg |-> neg, hi |-> Special, lo |-> 0]

(* What makes it a format; that there are numbers of every magnitude up to *)
(* where all are integers; that no exponent comes near to Far, nor Far to  *)
(* the largest int; and that no root is subnormal, and two high words have *)
(* room for a low one.  With 11, 20 and 32 bits and an int of 32 it is so. *)
Format == {E, H, L} \subseteq Nat \ {0} /\ E > 1 /\ H < L
WideExponents == P <= Bias
WideInts == {MaxInt, Far} \subseteq Nat /\ P + Pow2[E] <= Far /\ Far + P + Pow2[E] <= MaxInt
NormalRoots == P < Bias /\ L <= 2 * H + 2

ASSUME FormatAssumption == Format /\ WideExponents /\ WideInts /\ NormalRoots

(* The exponent, and a word without its low k bits. *)
Exponent(hi) == (hi \div Pow2[H]) - Bias
Cleared(w, k) == w - (w % Pow2[k])

(* An addition to the low word, and its carry into the high one. *)
Plus(x, n) == [x EXCEPT !.lo = (@ + n) % Pow2[L], !.hi = @ + (x.lo + n) \div Pow2[L]]

IsZero(x) == x.hi = 0 /\ x.lo = 0
Integral(x, j0) ==
  IF j0 < H THEN x.hi % Pow2[H - j0] = 0 /\ x.lo = 0 ELSE x.lo % Pow2[P - j0] = 0

(* Fault: the carry out of the low word is lost. *)
AwayNoCarry(x, j0) ==
  IF j0 < H THEN [x EXCEPT !.hi = @ + Pow2[H - j0]]
  ELSE IF j0 = H THEN [x EXCEPT !.hi = @ + 1]
  ELSE [x EXCEPT !.lo = (@ + Pow2[P - j0]) % Pow2[L]]

(* One more, in the last place of the integers. *)
Away(x, j0) ==
  IF j0 < H THEN [x EXCEPT !.hi = @ + Pow2[H - j0]]
  ELSE IF j0 = H THEN [x EXCEPT !.hi = @ + 1]
  ELSE Plus(x, Pow2[P - j0])

Cut(x, j0) ==
  IF j0 < H THEN [x EXCEPT !.hi = Cleared(@, H - j0), !.lo = 0]
  ELSE [x EXCEPT !.lo = Cleared(@, P - j0)]

ceil(x) ==
  LET j0 == Exponent(x.hi)
  IN  IF j0 < 0 THEN IF x.neg THEN Zero(TRUE) ELSE IF IsZero(x) THEN x ELSE One(FALSE)
      ELSE IF j0 >= P \/ Integral(x, j0) THEN x
      ELSE Cut(IF ~x.neg THEN Away(x, j0) ELSE x, j0)

floor(x) ==
  LET j0 == Exponent(x.hi)
  IN  IF j0 < 0 THEN IF ~x.neg THEN Zero(FALSE) ELSE IF IsZero(x) THEN x ELSE One(TRUE)
      ELSE IF j0 >= P \/ Integral(x, j0) THEN x
      ELSE Cut(IF x.neg THEN Away(x, j0) ELSE x, j0)

round(x) ==
  LET j0 == Exponent(x.hi)
  IN  IF j0 < 0 THEN IF j0 = -1 THEN One(x.neg) ELSE Zero(x.neg)
      ELSE IF j0 >= P \/ Integral(x, j0) THEN x
      ELSE Cut(IF j0 < H THEN [x EXCEPT !.hi = @ + Pow2[H - j0 - 1]]
                         ELSE Plus(x, Pow2[P - 1 - j0]), j0)

(* The same for floats: what is behind the first word is not there. *)
RoundedFloat(x, up, half) ==
  LET j0 == Exponent(x.hi)
  IN  IF j0 >= H \/ x.hi % Pow2[H - j0] = 0 THEN x
      ELSE [x EXCEPT !.hi = Cleared(@ + (IF half THEN Pow2[H - j0 - 1]
                                         ELSE IF up THEN Pow2[H - j0] ELSE 0), H - j0)]

ceilf(x) ==
  IF Exponent(x.hi) < 0
  THEN IF x.neg THEN Zero(TRUE) ELSE IF x.hi = 0 THEN x ELSE One(FALSE)
  ELSE RoundedFloat(x, ~x.neg, FALSE)

floorf(x) ==
  IF Exponent(x.hi) < 0
  THEN IF ~x.neg THEN Zero(FALSE) ELSE IF x.hi = 0 THEN x ELSE One(TRUE)
  ELSE RoundedFloat(x, x.neg, FALSE)

roundf(x) ==
  IF Exponent(x.hi) < 0
  THEN IF Exponent(x.hi) = -1 THEN One(x.neg) ELSE Zero(x.neg)
  ELSE RoundedFloat(x, TRUE, TRUE)

-----------------------------------------------------------------------------
(* sqrt, bit by bit: q and q1 are the root, s0 and s1 twice the root so    *)
(* far, in two words each.                                                 *)

Sign == Pow2[L - 1]
Doubled(s) == [s EXCEPT !.ix0 = 2 * @ + s.ix1 \div Sign, !.ix1 = (2 * @) % Pow2[L]]

(* A subnormal number is shifted until its first bit is where that of a    *)
(* normal one is.  The last shift may be by all the bits of a word, which C *)
(* leaves undefined: it may be one by none (beyond), as on the core, or     *)
(* leave nothing.                                                          *)
Filled(s) ==
  IF s.ix0 # 0 THEN s
  ELSE [ix0 |-> s.ix1 \div Pow2[L - H - 1], ix1 |-> (s.ix1 * Pow2[H + 1]) % Pow2[L], m |-> s.m - (H + 1)]

Normalized(x, beyond) ==
  LET s == Filled(Filled([ix0 |-> x.hi, ix1 |-> x.lo, m |-> 0]))
      i == CHOOSE i \in 0 .. H : Pow2[H] <= s.ix0 * Pow2[i] /\ s.ix0 * Pow2[i] < Pow2[H + 1]
  IN  [ix0 |-> s.ix0 * Pow2[i] + (IF i # 0 THEN s.ix1 \div Pow2[L - i] ELSE IF beyond THEN s.ix1 ELSE 0),
       ix1 |-> (s.ix1 * Pow2[i]) % Pow2[L],
       m   |-> s.m - (i - 1)]

HighTurn(s, r) ==
  LET t == s.s0 + r
  IN  Doubled(IF t <= s.ix0 THEN [s EXCEPT !.s0 = t + r, !.ix0 = @ - t, !.q = @ + r] ELSE s)

LowTurn(s, r) ==
  LET t1 == s.s1 + r
      s1 == (t1 + r) % Pow2[L]
      borrow == IF s.ix1 < t1 THEN 1 ELSE 0
      carry == IF t1 >= Sign /\ s1 < Sign THEN 1 ELSE 0
  IN  Doubled(IF s.s0 < s.ix0 \/ (s.s0 = s.ix0 /\ t1 <= s.ix1)
              THEN [s EXCEPT !.s1 = s1, !.s0 = @ + carry, !.ix0 = @ - s.s0 - borrow,
                             !.ix1 = (@ - t1) % Pow2[L], !.q1 = @ + r]
              ELSE s)

(* Fault: the root is cut off where the argument has bits left. *)
SqrtRoundedDown(s) == s

(* To the nearest root, upwards from the middle, which no root lies on. *)
SqrtRounded(s) ==
  IF s.ix0 = 0 /\ s.ix1 = 0 THEN s
  ELSE IF s.q1 = Pow2[L] - 1 THEN [s EXCEPT !.q1 = 0, !.q = @ + 1]
  ELSE [s EXCEPT !.q1 = @ + (s.q1 % 2)]

NotANumber == [neg |-> FALSE, hi |-> Special + Pow2[H - 1], lo |-> 0]

(* x * x + x, where x is an infinity or not a number. *)
SquareAndSelf(x) == IF x = Infinity(TRUE) THEN NotANumber ELSE x

sqrt(x, beyond) ==
  LET n == IF x.hi < Pow2[H] THEN Normalized(x, beyond)
           ELSE [ix0 |-> x.hi, ix1 |-> x.lo, m |-> x.hi \div Pow2[H]]
      m == n.m - Bias
      ix == [ix0 |-> Pow2[H] + (n.ix0 % Pow2[H]), ix1 |-> n.ix1, s0 |-> 0, s1 |-> 0, q |-> 0, q1 |-> 0]
      start == Doubled(IF m % 2 = 1 THEN Doubled(ix) ELSE ix)
      high[i \in 0 .. H + 2] == IF i = 0 THEN start ELSE HighTurn(high[i - 1], Pow2[H + 2 - i])
      low[i \in 0 .. L] == IF i = 0 THEN high[H + 2] ELSE LowTurn(low[i - 1], Pow2[L - i])
      s == SqrtRounded(low[L])
  IN  IF ~Finite(x) THEN SquareAndSelf(x)
      ELSE IF IsZero(x) THEN x
      ELSE IF x.neg THEN NotANumber
      ELSE [neg |-> FALSE,
            hi  |-> s.q \div 2 + (Bias - 1 + m \div 2) * Pow2[H],
            lo  |-> s.q1 \div 2 + Sign * (s.q % 2)]
-----------------------------------------------------------------------------
(* fmod, by the subtraction of shifted divisors.  Numbers of two words are *)
(* added and subtracted as such.                                           *)

(* ilogb of a number that is not 0. *)
Ilogb(hi, lo) ==
  IF hi >= Pow2[H] THEN hi \div Pow2[H] - Bias
  ELSE IF hi = 0 THEN (CHOOSE k \in 0 .. L - 1 : Pow2[k] <= lo /\ lo < Pow2[k + 1]) + 1 - Bias - P
  ELSE (CHOOSE k \in 0 .. H - 1 : Pow2[k] <= hi /\ hi < Pow2[k + 1]) + 1 - Bias - H

(* The mantissa with its first bit, in its place also when subnormal. *)
Aligned(hi, lo, e) ==
  LET n == 1 - Bias - e
  IN  IF n <= 0 THEN [h |-> Pow2[H] + (hi % Pow2[H]), l |-> lo]
      ELSE IF n <= L - 1 THEN [h |-> hi * Pow2[n] + lo \div Pow2[L - n], l |-> (lo * Pow2[n]) % Pow2[L]]
      ELSE [h |-> lo * Pow2[n - L], l |-> 0]

Minus(a, b) == [h |-> a.h - b.h - (IF a.l < b.l THEN 1 ELSE 0), l |-> (a.l - b.l) % Pow2[L]]
Twice(a) == [h |-> 2 * a.h + a.l \div Sign, l |-> (2 * a.l) % Pow2[L]]

(* A turn of the loop; a difference of 0 ends it. *)
FmodTurn(a, b) ==
  LET z == Minus(a, b)
  IN  IF z.h < 0 THEN Twice(a) ELSE Twice(z)

(* Fault: a subnormal result is shifted by a bit too few. *)
UnderflowShort(a, n, neg) ==
  LET k == IF n <= H THEN n ELSE n - 1
  IN  [neg |-> neg,
       hi |-> IF k <= H THEN a.h \div Pow2[k] ELSE 0,
       lo |-> ((a.h * Pow2[L] + a.l) \div Pow2[k]) % Pow2[L]]

(* The words of a result whose exponent is n below the least. *)
Underflowed(a, n, neg) ==
  IF n <= H THEN [neg |-> neg, hi |-> a.h \div Pow2[n], lo |-> (a.l \div Pow2[n] + a.h * Pow2[L - n]) % Pow2[L]]
  ELSE IF n <= L - 1 THEN [neg |-> neg, hi |-> 0, lo |-> (a.h * Pow2[L - n] + a.l \div Pow2[n]) % Pow2[L]]
  ELSE [neg |-> neg, hi |-> 0, lo |-> a.h \div Pow2[n - L]]

(* Back to a double: the first bit is brought to its place. *)
Composed(a, iy, neg) ==
  LET i == CHOOSE i \in 0 .. P : LET v == (a.h * Pow2[L] + a.l) * Pow2[i]
                                 IN  Pow2[P] <= v /\ v < Pow2[P + 1]
      v == (a.h * Pow2[L] + a.l) * Pow2[i]
      n == [h |-> v \div Pow2[L], l |-> v % Pow2[L]]
      e == iy - i
  IN  IF e >= 1 - Bias
      THEN [neg |-> neg, hi |-> n.h - Pow2[H] + (e + Bias) * Pow2[H], lo |-> n.l]
      ELSE Underflowed(n, 1 - Bias - e, neg)

Less(x, y) == x.hi < y.hi \/ (x.hi = y.hi /\ x.lo < y.lo)

fmod(x, y) ==
  LET ix == Ilogb(x.hi, x.lo)
      iy == Ilogb(y.hi, y.lo)
      b == Aligned(y.hi, y.lo, iy)
      zero == [h |-> 0, l |-> 0]
      a[i \in 0 .. ix - iy] == IF i = 0 THEN Aligned(x.hi, x.lo, ix) ELSE FmodTurn(a[i - 1], b)
      z == Minus(a[ix - iy], b)
      r == IF z.h >= 0 THEN z ELSE a[ix - iy]
  IN  IF IsZero(y) \/ ~Finite(x) \/ IsNan(y) THEN NotANumber
      ELSE IF Less(x, y) THEN x
      ELSE IF r = zero \/ \E i \in 0 .. ix - iy - 1 : Minus(a[i], b) = zero THEN Zero(x.neg)
      ELSE Composed(r, iy, x.neg)
-----------------------------------------------------------------------------
(* sqrtf: one word takes the root, its bits and one more.                  *)
sqrtf(x) ==
  LET i == IF x.hi >= Pow2[H] THEN 0
           ELSE CHOOSE i \in 1 .. H : Pow2[H] <= x.hi * Pow2[i] /\ x.hi * Pow2[i] < Pow2[H + 1]
      m == (IF i = 0 THEN x.hi \div Pow2[H] ELSE 1 - i) - Bias
      ix == IF i = 0 THEN Pow2[H] + (x.hi % Pow2[H]) ELSE x.hi * Pow2[i]
      start == [ix |-> 2 * (IF m % 2 = 1 THEN 2 * ix ELSE ix), s |-> 0, q |-> 0]
      Turn(s, r) == IF s.s + r <= s.ix
                    THEN [ix |-> 2 * (s.ix - s.s - r), s |-> s.s + 2 * r, q |-> s.q + r]
                    ELSE [s EXCEPT !.ix = 2 * @]
      turn[k \in 0 .. H + 2] == IF k = 0 THEN start ELSE Turn(turn[k - 1], Pow2[H + 2 - k])
      s == turn[H + 2]
      q == IF s.ix = 0 THEN s.q ELSE s.q + (s.q % 2)
  IN  IF ~Finite(x) THEN SquareAndSelf(x)
      ELSE IF x.hi = 0 THEN x
      ELSE IF x.neg THEN NotANumber
      ELSE [neg |-> FALSE, hi |-> q \div 2 + (Bias - 1 + m \div 2) * Pow2[H], lo |-> 0]
-----------------------------------------------------------------------------
(* The magnitude of a finite number, in units of the least one above 0.    *)
Mantissa(x) == (x.hi % Pow2[H]) * Pow2[L] + x.lo
Units(x) ==
  IF x.hi < Pow2[H] THEN Mantissa(x) ELSE (Pow2[P] + Mantissa(x)) * Pow2[x.hi \div Pow2[H] - 1]

WithMantissa(neg, m, k) == [neg |-> neg, hi |-> m \div Pow2[L] + k * Pow2[H], lo |-> m % Pow2[L]]

(* The nearest integer to n / d, the even one of two. *)
HalfEven(n, d) ==
  LET q == n \div d
      r == n % d
  IN  IF 2 * r > d \/ (2 * r = d /\ q % 2 = 1) THEN q + 1 ELSE q

(* The sum of two ints. *)
IntSum(i, j) == ((i + j + MaxInt + 1) % (2 * (MaxInt + 1))) - (MaxInt + 1)

(* The sum is below all exponents: too small, or n was so large that it    *)
(* wrapped.                                                                *)
Underflow(neg, n) == IF n > Far THEN Infinity(neg) ELSE Zero(neg)

(* ldexp: a subnormal number is first multiplied by 2^(P + 2), a subnormal *)
(* result last by its inverse, which rounds.                               *)
ldexp(x, n) ==
  LET subnormal == x.hi < Pow2[H]
      j == CHOOSE j \in 1 .. P : Pow2[P] <= Mantissa(x) * Pow2[j] /\ Mantissa(x) * Pow2[j] < Pow2[P + 1]
      m == IF subnormal THEN Mantissa(x) * Pow2[j] - Pow2[P] ELSE Mantissa(x)
      k == IntSum(IF subnormal THEN 1 - j ELSE x.hi \div Pow2[H], n)
  IN  IF IsZero(x) \/ ~Finite(x) THEN x
      ELSE IF subnormal /\ n < -Far THEN Zero(x.neg)
      ELSE IF k > Pow2[E] - 2 THEN Infinity(x.neg)
      ELSE IF k > 0 THEN WithMantissa(x.neg, m, k)
      ELSE IF k <= -(P + 2) THEN Underflow(x.neg, n)
      ELSE WithMantissa(x.neg, HalfEven(Pow2[P] + m, Pow2[1 - k]), 0)
-----------------------------------------------------------------------------
(* A program calls any function with any operands, again and again.        *)

NotAsked == [kind |-> "none"]

MathInit == asked = NotAsked

AskWhole(x) == asked = NotAsked /\ asked' = [kind |-> "whole", x |-> x]
AskScaled(x, n) == asked = NotAsked /\ asked' = [kind |-> "scaled", x |-> x, n |-> n]
AskRoot(x) == asked = NotAsked /\ asked' = [kind |-> "root", x |-> x]
AskRemainder(x, y) == asked = NotAsked /\ asked' = [kind |-> "remainder", x |-> x, y |-> y]
Answered == asked # NotAsked /\ asked' = NotAsked

MathNext ==
  \/ \E x \in Double : AskWhole(x)
  \/ \E x \in Double, n \in -MaxInt - 1 .. MaxInt : AskScaled(x, n)
  \/ \E x \in Double : AskRoot(x)
  \/ \E x, y \in Double : AskRemainder(x, y)
  \/ Answered

MathSpec == MathInit /\ [][MathNext]_asked
-----------------------------------------------------------------------------
(* What the functions promise, in integers. *)

UnitsOfOne == Units(One(FALSE))

UpOrDown(u, up) == (IF up THEN (u + UnitsOfOne - 1) \div UnitsOfOne ELSE u \div UnitsOfOne) * UnitsOfOne
HalfAway(u) == ((2 * u + UnitsOfOne) \div (2 * UnitsOfOne)) * UnitsOfOne

Is(r, neg, u) == r \in Double /\ r.neg = neg /\ Finite(r) /\ Units(r) = u

WholeExact(x) ==
  LET u == Units(x)
  IN  IF Finite(x)
      THEN /\ Is(ceil(x), x.neg, UpOrDown(u, ~x.neg))
           /\ Is(floor(x), x.neg, UpOrDown(u, x.neg))
           /\ Is(round(x), x.neg, HalfAway(u))
           /\ x \in Float =>
                /\ Is(ceilf(x), x.neg, UpOrDown(u, ~x.neg))
                /\ Is(floorf(x), x.neg, UpOrDown(u, x.neg))
                /\ Is(roundf(x), x.neg, HalfAway(u))
      ELSE {ceil(x), floor(x), round(x)} = {x}

(* The numbers beside one that is not 0, in the last place that counts.    *)
Beside(r, places, up) ==
  LET v == r.hi * Pow2[L] + r.lo + (IF up THEN places ELSE -places)
  IN  Units([neg |-> FALSE, hi |-> v \div Pow2[L], lo |-> v % Pow2[L]])

Squared(n) == n * n

IsRoot(r, x, places) ==
  LET u == 4 * Units(x) * UnitsOfOne
  IN  /\ r \in Double /\ ~r.neg
      /\ Squared(Units(r) + Beside(r, places, FALSE)) < u
      /\ u < Squared(Units(r) + Beside(r, places, TRUE))

SqrtExact(x) ==
  Finite(x) /\ ~x.neg /\ ~IsZero(x) =>
    /\ \A beyond \in BOOLEAN : IsRoot(sqrt(x, beyond), x, 1)
    /\ x \in Float => IsRoot(sqrtf(x), x, Pow2[L])

FmodExact(x, y) ==
  Finite(x) /\ ~IsNan(y) /\ ~IsZero(y) =>
    IF Finite(y) THEN Is(fmod(x, y), x.neg, Units(x) % Units(y)) ELSE fmod(x, y) = x

LdexpExact(x, n) ==
  LET r == ldexp(x, n)
      largest == Units([neg |-> FALSE, hi |-> Special - 1, lo |-> Pow2[L] - 1])
      small == IF n < -2 * P - Pow2[E] THEN 0 ELSE HalfEven(Units(x), Pow2[-n])
  IN  Finite(x) /\ ~IsZero(x) =>
        IF n < 0 THEN Is(r, x.neg, small)
        ELSE IF n > Pow2[E] + P \/ Units(x) > largest \div Pow2[n]
             THEN r = Infinity(x.neg)
             ELSE Is(r, x.neg, Units(x) * Pow2[n])

(* ceil, floor and round give the integer they should with the sign of the *)
(* argument, however the fraction lies across the two words, and ldexp the *)
(* nearest double to x * 2^n for every int n (math.c:93-385).              *)
RoundingExact ==
  /\ asked.kind = "whole" => WholeExact(asked.x)
  /\ asked.kind = "scaled" => LdexpExact(asked.x, asked.n)

(* sqrt gives the nearest double to the root, also of a subnormal number   *)
(* for which it shifts by the width of a word (math.c:1754-1850).          *)
RootExact == asked.kind = "root" => SqrtExact(asked.x)

(* fmod is exact, with subnormal operands and results (math.c:1854-1959).  *)
RemainderExact == asked.kind = "remainder" => FmodExact(asked.x, asked.y)
=============================================================================
