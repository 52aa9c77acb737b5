---------------------------- MODULE MCArithmetic ----------------------------
(***************************************************************************)
(* Arithmetic for TLC: the accumulator of the CNN unit, step by step, long  *)
(* longs in halves of three bits, and the functions of MathBits for the    *)
(* doubles of a small format.  One of the three is looked at.              *)
(***************************************************************************)
EXTENDS CnnUnit, LongLong, MathBits

VARIABLE part   \* which

\* Roots have to be normal; exponents above 1 say nothing new of a root and leave
\* TLC's integers.  Of two numbers, it is enough that they are some exponents apart.
Roots == {x \in Double : ~x.neg /\ x.hi < (Bias + 2) * Pow2[H]}
Parts == {x \in Double : x.hi < 4 * Pow2[H] \/ ~Finite(x)}

MCMathNext ==
  \/ /\ asked = NotAsked
     /\ \/ \E x \in Double : AskWhole(x)
        \/ \E x \in Double, n \in -MaxInt - 1 .. MaxInt : AskScaled(x, n)
        \/ \E x \in Roots : AskRoot(x)
        \/ \E x, y \in Parts : AskRemainder(x, y)
  \/ Answered

MCInit == CnnInit /\ CallInit /\ MathInit /\ part \in {"cnn", "long long", "math"}
MCNext ==
  \/ part = "cnn" /\ CnnNext /\ UNCHANGED <<call, asked, part>>
  \/ part = "long long" /\ CallNext /\ UNCHANGED <<cnnVars, asked, part>>
  \/ part = "math" /\ MCMathNext /\ UNCHANGED <<cnnVars, call, part>>
MCSpec == MCInit /\ [][MCNext]_<<cnnVars, call, asked, part>>
=============================================================================
