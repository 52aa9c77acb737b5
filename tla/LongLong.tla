------------------------------ MODULE LongLong ------------------------------
(***************************************************************************)
(* The long long type of the C compiler (trv32p3_cnn_c_longlong.h): pairs  *)
(* of words, with the operations the compiler puts in place of the         *)
(* operators, made from what the core has.  Where a macro asks whether an  *)
(* operand is known when compiling (chess_manifest), the answer is the     *)
(* parameter known: either way the result has to be the same.              *)
(***************************************************************************)
EXTENDS Alu

VARIABLE call   \* the operands of the operation that a program asks for, or Idle

Dint == [low : Word, high : Word]
dint(low, high) == [low |-> low, high |-> high]

(* The numbers that a pair stands for. *)
MM == M * M
Value(a) == a.high * M + a.low
SignedValue(a) == Signed(a.high) * M + a.low

to_dint_se(i) == dint(i, sra(i, W - 1))
to_dint_ze(i) == dint(i, 0)

Carry(b) == IF b THEN 1 ELSE 0

(* Fault: the carry of the low words is lost. *)
l_addNoCarry(a, b, known) == dint(add(a.low, b.low), add(a.high, b.high))

l_add(a, b, known) ==
  IF known /\ a.low = 0 THEN dint(b.low, add(a.high, b.high))
  ELSE IF known /\ b.low = 0 THEN dint(a.low, add(a.high, b.high))
  ELSE LET low == add(a.low, b.low)
       IN  dint(low, add(add(a.high, b.high), Carry(low < a.low)))

l_sub(a, b, known) ==
  IF known /\ b.low = 0 THEN dint(a.low, sub(a.high, b.high))
  ELSE dint(sub(a.low, b.low), sub(sub(a.high, b.high), Carry(a.low < b.low)))

l_and(a, b) == dint(band(a.low, b.low), band(a.high, b.high))
l_or(a, b) == dint(bor(a.low, b.low), bor(a.high, b.high))
l_xor(a, b) == dint(bxor(a.low, b.low), bxor(a.high, b.high))
l_complement(a) == dint(M - 1 - a.low, M - 1 - a.high)

l_mul(a, b, known) ==
  LET p(x, y) == IF known /\ (x = 0 \/ y = 0) THEN 0 ELSE mul(x, y)
      p1hi == IF known /\ (a.low = 0 \/ b.low = 0) THEN 0 ELSE mulhu(a.low, b.low)
  IN  dint(p(a.low, b.low), add(add(p1hi, p(a.high, b.low)), p(b.high, a.low)))

(* The product of two ints. *)
lmul(a, b) == dint(mul(a, b), mulh(a, b))

l_lts(a, b) == lt(a.high, b.high) \/ (a.high = b.high /\ a.low < b.low)
l_les(a, b, known) ==
  IF known /\ a = dint(0, 0) THEN Signed(b.high) >= 0
  ELSE lt(a.high, b.high) \/ (a.high = b.high /\ a.low <= b.low)
l_ltu(a, b) == a.high < b.high \/ (a.high = b.high /\ a.low < b.low)
l_leu(a, b) == a.high < b.high \/ (a.high = b.high /\ a.low <= b.low)
l_eq(a, b) == a.high = b.high /\ a.low = b.low

(* Shifts by 0 .. 2*W - 1, each half by what the core's shifter can do: a  *)
(* shift by W would be one by 0.                                           *)
l_lsl(a, f) ==
  IF f = 0 THEN a
  ELSE IF f < W THEN dint(sll(a.low, f), bor(sll(a.high, f), srl(a.low, W - f)))
  ELSE dint(0, sll(a.low, f - W))

l_asr(a, f) ==
  IF f = 0 THEN a
  ELSE IF f < W THEN dint(bor(srl(a.low, f), sll(a.high, W - f)), sra(a.high, f))
  ELSE dint(sra(a.high, f - W), sra(a.high, W - 1))

l_lsr(a, f) ==
  IF f = 0 THEN a
  ELSE IF f < W THEN dint(bor(srl(a.low, f), sll(a.high, W - f)), srl(a.high, f))
  ELSE dint(srl(a.high, f - W), 0)

(***************************************************************************)
(* The division of two long longs (trv32p3_cnn_c_div.c), by the restoring  *)
(* method, on the numbers themselves.                                      *)
(***************************************************************************)

(* Fault: what is left may be as large as the divisor. *)
DivStepLate(s, d) ==
  LET r == ((s.r * 2) % MM) + (s.x \div (MM \div 2))
      x == (s.x * 2) % MM
  IN  IF r > d THEN [x |-> x + 1, r |-> (r - d) % MM] ELSE [x |-> x, r |-> r]

(* A turn of the loop: the next bit of x goes into r, and a bit of the     *)
(* quotient into x.                                                        *)
DivStep(s, d) ==
  LET r == ((s.r * 2) % MM) + (s.x \div (MM \div 2))
      x == (s.x * 2) % MM
  IN  IF r >= d THEN [x |-> x + 1, r |-> (r - d) % MM] ELSE [x |-> x, r |-> r]

div_pos(x, d) ==
  LET s[i \in 0 .. 2 * W] == IF i = 0 THEN [x |-> x, r |-> 0] ELSE DivStep(s[i - 1], d)
  IN  IF d >= MM \div 2
      THEN IF x >= d THEN [q |-> 1, r |-> x - d] ELSE [q |-> 0, r |-> x]
      ELSE [q |-> s[2 * W].x, r |-> s[2 * W].r]

l_negative(x) == x >= MM \div 2
l_negated(x) == (-x) % MM
l_magnitude(x) == IF l_negative(x) THEN l_negated(x) ELSE x

div_called(x, d) ==
  LET u == div_pos(l_magnitude(x), l_magnitude(d))
  IN  [q |-> IF l_negative(x) # l_negative(d) THEN l_negated(u.q) ELSE u.q,
       r |-> IF l_negative(x) THEN l_negated(u.r) ELSE u.r]
-----------------------------------------------------------------------------
(* A program asks for any operation on any operands, again and again.      *)

Idle == [kind |-> "idle"]

CallInit == call = Idle

CallPair(a, b) ==
  /\ call = Idle
  /\ call' = [kind |-> "pair", a |-> a, b |-> b]

CallShift(a, f) ==
  /\ call = Idle
  /\ call' = [kind |-> "shift", a |-> a, f |-> f]

Return ==
  /\ call # Idle
  /\ call' = Idle

CallNext ==
  \/ \E a, b \in Dint : CallPair(a, b)
  \/ \E a \in Dint, f \in 0 .. 2 * W - 1 : CallShift(a, f)
  \/ Return

CallSpec == CallInit /\ [][CallNext]_call
-----------------------------------------------------------------------------
(* What the operators of C compute: the numbers, in twice W bits. *)

AddExact(a, b, known) ==
  /\ Value(l_add(l_complement(a), dint(1, 0), known)) = (-Value(a)) % MM
  /\ Value(l_xor(a, b)) = Value(l_or(a, b)) - Value(l_and(a, b))
  /\ Value(l_add(a, b, known)) = (Value(a) + Value(b)) % MM
  /\ Value(l_sub(a, b, known)) = (Value(a) - Value(b)) % MM

MulExact(a, b, known) ==
  /\ Value(l_mul(a, b, known)) = (Value(a) * Value(b)) % MM
  /\ SignedValue(lmul(a.low, b.low)) = Signed(a.low) * Signed(b.low)

CompareExact(a, b, known) ==
  /\ l_lts(a, b) <=> SignedValue(a) < SignedValue(b)
  /\ l_les(a, b, known) <=> SignedValue(a) <= SignedValue(b)
  /\ l_ltu(a, b) <=> Value(a) < Value(b)
  /\ l_leu(a, b) <=> Value(a) <= Value(b)
  /\ l_eq(a, b) <=> Value(a) = Value(b)

ShiftExact(a, f) ==
  /\ Value(l_lsl(a, f)) = (Value(a) * Pow2[f]) % MM
  /\ Value(l_lsr(a, f)) = Value(a) \div Pow2[f]
  /\ SignedValue(l_asr(a, f)) = SignedValue(a) \div Pow2[f]

(* Rounding towards zero; by 0, the quotient is all ones.                  *)
SignedOf(x) == IF l_negative(x) THEN x - MM ELSE x

DivExact(x, d) ==
  LET u == div_pos(x, d)
      s == div_called(x, d)
  IN  /\ d # 0 => u.q = x \div d /\ u.r = x % d
      /\ d = 0 => u.q = MM - 1 /\ u.r = x
      /\ d # 0 =>
           /\ (s.q * d + s.r) % MM = x
           /\ l_magnitude(s.r) < l_magnitude(d)
           /\ s.r # 0 => l_negative(s.r) = l_negative(x)

(* The hardware multiplier, in the modes the instructions use. *)
MultiplierExact(a, b) ==
  /\ mul_hw(a, b, <<TRUE, TRUE>>) = [pl |-> mul(a, b), ph |-> mulh(a, b)]
  /\ mul_hw(a, b, <<TRUE, FALSE>>).ph = mulhsu(a, b)
  /\ mul_hw(a, b, <<FALSE, FALSE>>).ph = mulhu(a, b)

(* The operators of long long and its division agree with the integers of  *)
(* twice the width, whether or not the compiler knew an operand, at every  *)
(* carry, sign and distance (trv32p3_cnn_c_longlong.h, trv32p3_cnn_c_div.c *)
(* and the multiplier they use).                                           *)
LongLongExact ==
  /\ call.kind = "pair" =>
       /\ \A known \in BOOLEAN :
            /\ AddExact(call.a, call.b, known)
            /\ MulExact(call.a, call.b, known)
            /\ CompareExact(call.a, call.b, known)
       /\ DivExact(Value(call.a), Value(call.b))
       /\ MultiplierExact(call.a.low, call.b.low)
  /\ call.kind = "shift" => ShiftExact(call.a, call.f)
=============================================================================
