------------------------------- MODULE Numbers -------------------------------
(***************************************************************************)
(* strtol and strtoul of the run-time library (runtime/src/strtol.c,       *)
(* strtoul.c) for longs of any width.  A text is a sequence of characters  *)
(* that ends with "end"; Digit gives the value of a digit or a letter.     *)
(***************************************************************************)
EXTENDS Integers, Sequences

CONSTANTS LONG_MAX, Digit

VARIABLE number   \* the text that a program has converted, or NoNumber

LONG_MIN == -LONG_MAX - 1
ULONG_MAX == 2 * LONG_MAX + 1

\* What is no digit or letter has no value.
ASSUME DigitAssumption ==
  /\ LONG_MAX \in Nat \ {0}
  /\ Digit \in [DOMAIN Digit -> Nat]
  /\ DOMAIN Digit \cap {"space", "+", "-", "other", "end"} = {}

(* C's division and remainder, which go towards zero. *)
CDiv(x, y) == IF x < 0 THEN -((-x) \div y) ELSE x \div y
CRem(x, y) == x - y * CDiv(x, y)

SkipSpace(nptr) ==
  CHOOSE s \in DOMAIN nptr : nptr[s] # "space" /\ \A r \in 1 .. s - 1 : nptr[r] = "space"

(* White space, the sign, and the prefix 0x: where the digits start, and   *)
(* the base they are in.                                                   *)
Opening(nptr, base) ==
  LET blank  == SkipSpace(nptr)
      sign   == IF nptr[blank] \in {"+", "-"} THEN blank + 1 ELSE blank
      prefix == base \in {0, 16} /\ nptr[sign] = "0" /\ nptr[sign + 1] = "x"
      start  == IF prefix THEN sign + 2 ELSE sign
  IN  [neg   |-> nptr[blank] = "-",
       start |-> start,
       base  |-> CASE prefix -> 16
                   [] ~prefix /\ base = 0 -> IF nptr[start] = "0" THEN 8 ELSE 10
                   [] OTHER -> base]

(* The last accumulator that may take another digit, and the greatest      *)
(* digit it may take.                                                      *)
Limits(neg, base) ==
  LET most == IF neg THEN LONG_MIN ELSE LONG_MAX
      lim  == CRem(most, base)
      over == neg /\ lim > 0
  IN  [neg    |-> neg,
       most   |-> most,
       cutoff |-> CDiv(most, base) + (IF over THEN 1 ELSE 0),
       cutlim |-> IF neg THEN -(IF over THEN lim - base ELSE lim) ELSE lim]

LimitsUnsigned(base) ==
  [neg |-> FALSE, most |-> ULONG_MAX, cutoff |-> ULONG_MAX \div base, cutlim |-> ULONG_MAX % base]

(* Fault: the accumulator at the limit takes any digit. *)
BeyondOnly(lim, acc, d) == IF lim.neg THEN acc < lim.cutoff ELSE acc > lim.cutoff

Beyond(lim, acc, d) ==
  \/ IF lim.neg THEN acc < lim.cutoff ELSE acc > lim.cutoff
  \/ acc = lim.cutoff /\ d > lim.cutlim

(* One turn of the loop: the first digit that does not fit leaves the end  *)
(* of the range (any is -1), and the others are passed over.               *)
Taken(lim, base, r, d) ==
  CASE r.any = -1 \/ Beyond(lim, r.acc, d) -> [any |-> -1, acc |-> lim.most]
    [] OTHER -> [any |-> 1, acc |-> IF lim.neg THEN r.acc * base - d ELSE r.acc * base + d]

IsDigit(c, base) == c \in DOMAIN Digit /\ Digit[c] < base

DigitsEnd(nptr, start, base) ==
  CHOOSE s \in start .. Len(nptr) :
    ~IsDigit(nptr[s], base) /\ \A r \in start .. s - 1 : IsDigit(nptr[r], base)

Converted(nptr, o, lim) ==
  LET s == DigitsEnd(nptr, o.start, o.base)
      turn[i \in 0 .. s - o.start] ==
        IF i = 0 THEN [any |-> 0, acc |-> 0]
        ELSE Taken(lim, o.base, turn[i - 1], Digit[nptr[o.start + i - 1]])
  IN  [s |-> s, any |-> turn[s - o.start].any, acc |-> turn[s - o.start].acc]

Outcome(r, value) ==
  [value |-> value, erange |-> r.any = -1, endptr |-> IF r.any = 0 THEN 1 ELSE r.s]

strtol(nptr, base) ==
  LET o == Opening(nptr, base)
      r == Converted(nptr, o, Limits(o.neg, o.base))
  IN  Outcome(r, r.acc)

strtoul(nptr, base) ==
  LET o == Opening(nptr, base)
      r == Converted(nptr, o, LimitsUnsigned(o.base))
  IN  Outcome(r, IF o.neg /\ r.any = 1 THEN (-r.acc) % (ULONG_MAX + 1) ELSE r.acc)
-----------------------------------------------------------------------------
(* A program converts any text, again and again: spaces, a sign, and what  *)
(* follows.  "other" is a character that is neither digit nor letter.      *)

NoNumber == [spaces |-> <<>>, sign |-> <<>>, text |-> <<>>, base |-> 10]

NumbersInit == number = NoNumber

Convert(spaces, sign, text, base) ==
  /\ number = NoNumber
  /\ number' = [spaces |-> spaces, sign |-> sign, text |-> text, base |-> base]

Returned == number # NoNumber /\ number' = NoNumber

NumbersNext ==
  \/ \E spaces \in Seq({"space"}), sign \in {<<>>, <<"+">>, <<"-">>},
        text \in Seq(DOMAIN Digit \cup {"other"}), base \in {0} \cup 2 .. 36 :
       Convert(spaces, sign, text, base)
  \/ Returned

NumbersSpec == NumbersInit /\ [][NumbersNext]_number
-----------------------------------------------------------------------------
(* The value of all of the digits, exactly. *)
Worth(digits, base) ==
  LET v[i \in 0 .. Len(digits)] == IF i = 0 THEN 0 ELSE v[i - 1] * base + Digit[digits[i]]
  IN  v[Len(digits)]

(* A text of spaces, a sign and a tail gives what its digits are worth, or *)
(* the end of the range if that is beyond it, and the first character that *)
(* is not part of the number; without a digit, the start of the text.      *)
NumberExact(spaces, sign, text, base) ==
  LET nptr  == spaces \o sign \o text \o <<"end">>
      hex   == base \in {0, 16} /\ Len(text) > 1 /\ text[1] = "0" /\ text[2] = "x"
      b     == CASE hex -> 16
                 [] ~hex /\ base = 0 -> IF Len(text) > 0 /\ text[1] = "0" THEN 8 ELSE 10
                 [] OTHER -> base
      tail  == IF hex THEN SubSeq(text, 3, Len(text)) ELSE text
      n     == CHOOSE n \in 0 .. Len(tail) :
                 /\ \A i \in 1 .. n : IsDigit(tail[i], b)
                 /\ n < Len(tail) => ~IsDigit(tail[n + 1], b)
      v     == Worth(SubSeq(tail, 1, n), b)
      minus == sign = <<"-">>
      end   == IF n = 0 THEN 1 ELSE Len(spaces \o sign) + (IF hex THEN 2 ELSE 0) + n + 1
      limit == IF minus THEN -LONG_MIN ELSE LONG_MAX
      most  == IF v > limit THEN limit ELSE v
  IN  /\ strtol(nptr, base) = [value |-> IF minus THEN -most ELSE most, erange |-> v > limit, endptr |-> end]
      /\ strtoul(nptr, base) =
           [value  |-> CASE v > ULONG_MAX -> ULONG_MAX
                         [] v <= ULONG_MAX /\ minus -> (-v) % (ULONG_MAX + 1)
                         [] OTHER -> v,
            erange |-> v > ULONG_MAX, endptr |-> end]

(* strtol and strtoul give the value, the end of the range and ERANGE if   *)
(* it is beyond, and the end of the number (strtol.c:53, strtoul.c:55).    *)
NumbersExact == NumberExact(number.spaces, number.sign, number.text, number.base)
=============================================================================
