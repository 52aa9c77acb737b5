------------------------------ MODULE CnnUnit -------------------------------
(***************************************************************************)
(* The multiply-accumulate step of the CNN unit (lib/cnn.p, incmac, and    *)
(* the primitives generated from it, prim/primitives.v) as a program uses  *)
(* it: x22 is reset, then a step is made for each pair of an input and a   *)
(* weight.  Words have Width bits, 32 in the source: there the product is  *)
(* computed in twice as many and saturated, the sum in Width bits.         *)
(***************************************************************************)
EXTENDS Powers

CONSTANTS
  Width,    \* the width of a word
  MaxSteps  \* bound: steps in an accumulation

ASSUME WidthAssumption == Width \in Nat \ {0} /\ MaxSteps \in Nat

VARIABLES
  X22,         \* the accumulator
  X23, X24,    \* the addresses of the next input (a byte) and weight (a word)
  steps,       \* steps made
  sum          \* history: the sum of the saturated products, as an integer

cnnVars == <<X22, X23, X24, steps, sum>>

MAX_INT == Pow2[Width - 1] - 1
MIN_INT == -Pow2[Width - 1]
SignedWord == MIN_INT .. MAX_INT

\* The low W bits of an integer, as a signed word.
Low(n) == ((n - MIN_INT) % Pow2[Width]) + MIN_INT

SATURATION(n) == IF n > MAX_INT THEN MAX_INT ELSE IF n < MIN_INT THEN MIN_INT ELSE Low(n)

\* Fault: the product is computed in W bits too.
MultNarrow(a, b) == SATURATION(Low(a * b))

mult(a, b) == SATURATION(a * b)

mac(c, a, b) == SATURATION(Low(c + mult(a, b)))

CnnInit == X22 = 0 /\ X23 = 0 /\ X24 = 0 /\ steps = 0 /\ sum = 0

IncMac(a, b) ==
  /\ steps < MaxSteps
  /\ X22' = mac(X22, a, b)
  /\ X23' = Low(X23 + 1)
  /\ X24' = Low(X24 + 4)
  /\ steps' = steps + 1
  /\ sum' = sum + SATURATION(a * b)

\* The program goes on to the next output.
Restart ==
  /\ X22' = 0
  /\ steps' = 0
  /\ sum' = 0
  /\ UNCHANGED <<X23, X24>>

CnnNext == (\E a, b \in SignedWord : IncMac(a, b)) \/ Restart

CnnSpec == CnnInit /\ [][CnnNext]_cnnVars
-----------------------------------------------------------------------------
\* The accumulator is the exact sum of the saturated products whenever that sum
\* is a word, also when partial sums were not.
SumIsExact == sum \in SignedWord => X22 = sum

\* What the source of the step says, INT32_SATURATION(c + multResult) with a
\* parameter of 64 bits: a sum that is out of range saturates.
SumSaturates == [][steps' = steps + 1 => X22' = SATURATION(X22 + (sum' - sum))]_cnnVars
=============================================================================
