-------------------------------- MODULE Alu ---------------------------------
(***************************************************************************)
(* The arithmetic of the core, as its simulator computes it                *)
(* (isg/trv32p3_cnn_inline_primitives.h): words of W bits, 32 in the       *)
(* source, as the naturals below M.                                        *)
(***************************************************************************)
EXTENDS Powers

CONSTANT W   \* the width of a word; the shifts want a power of two

ASSUME WAssumption == W \in Nat \ {0}

M == Pow2[W]
Word == 0 .. M - 1

Signed(a) == IF a < M \div 2 THEN a ELSE a - M

add(a, b) == (a + b) % M
sub(a, b) == (a - b) % M

mul(a, b) == (a * b) % M
mulh(a, b) == ((Signed(a) * Signed(b)) \div M) % M
mulhsu(a, b) == ((Signed(a) * b) \div M) % M
mulhu(a, b) == (a * b) \div M

lt(a, b) == Signed(a) < Signed(b)

(* The bits of a word, and the word with some bits. *)
Bits(a) == {k \in 0 .. W - 1 : (a \div Pow2[k]) % 2 = 1}
Number(bits) ==
  LET below[n \in 0 .. W] ==
        IF n = 0 THEN 0 ELSE below[n - 1] + (IF n - 1 \in bits THEN Pow2[n - 1] ELSE 0)
  IN  below[W]

band(a, b) == Number(Bits(a) \cap Bits(b))
bor(a, b) == Number(Bits(a) \cup Bits(b))
bxor(a, b) == Number((Bits(a) \cup Bits(b)) \ (Bits(a) \cap Bits(b)))

(* Shifts take the low bits of the distance only. *)
Distance(b) == b % W
sll(a, b) == (a * Pow2[Distance(b)]) % M
srl(a, b) == a \div Pow2[Distance(b)]
sra(a, b) == (Signed(a) \div Pow2[Distance(b)]) % M

(* The multiplier, for operands with an extra bit each: the sign, or zero. *)
Mode(a, signed) == IF signed THEN Signed(a) ELSE a
mul_hw(a, b, mode) ==
  LET r == Mode(a, mode[1]) * Mode(b, mode[2])
  IN  [pl |-> r % M, ph |-> (r \div M) % M]
=============================================================================
