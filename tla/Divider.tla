------------------------------ MODULE Divider ------------------------------
(***************************************************************************)
(* The multi-cycle division unit (lib/div.p): a restoring divider that     *)
(* makes one quotient bit per cycle, for the words of Alu (W = 32 in the   *)
(* source).  One step is one clock cycle; the operation and its operands   *)
(* are what the div instruction in EX drives, if there is one.  Words are  *)
(* unsigned numbers, negative ones in two's complement.                    *)
(***************************************************************************)
EXTENDS Alu

CONSTANTS
  Reg,      \* register numbers, 0 among them
  None      \* no division under way, no register written

ASSUME RegAssumption == Reg \subseteq Nat /\ 0 \in Reg /\ None \notin Reg

Op == {"div", "divu", "rem", "remu"}

VARIABLES
  cnt, PA, B, Q_addr_reg, is_div, is_neg,  \* the unit's registers
  x_w1,   \* what the unit writes in this cycle: <<register, value>> or None
  req     \* history: the division under way, or None

vars == <<cnt, PA, B, Q_addr_reg, is_div, is_neg, x_w1, req>>

Init ==
  /\ cnt = 0
  /\ PA = 0
  /\ B = 0
  /\ Q_addr_reg = 0
  /\ is_div = FALSE
  /\ is_neg = FALSE
  /\ x_w1 = None
  /\ req = None

Negative(w) == w >= M \div 2
Neg(w) == (M - w) % M
Magnitude(w) == IF Negative(w) THEN Neg(w) ELSE w

Hi(pa) == pa \div M
Lo(pa) == pa % M

\* Fault: the partial remainder is compared as if it could not equal b.
div_step_strict(pa, b) ==
  LET new  == (2 * pa) % (M * M)
  IN  IF Hi(new) > b THEN (Hi(new) - b) * M + Lo(new) + 1 ELSE new

\* One division step.  The shifted remainder keeps W bits, as new_pa does.
div_step(pa, b) ==
  LET new  == (2 * pa) % (M * M)
      diff == Hi(new) - b
  IN  IF diff >= 0 THEN diff * M + Lo(new) + 1 ELSE new

\* The value written back in the last cycle.
Result ==
  LET res == IF is_div THEN Lo(PA) ELSE Hi(PA)
  IN  IF B = 0 /\ is_div THEN M - 1 ELSE IF is_neg THEN Neg(res) ELSE res

\* Fault: the sign of a remainder takes the divisor's sign into account.
SignOfBoth(op, a, b) ==
  op \in {"div", "rem"} /\ (Negative(a) # Negative(b))

\* Whether the result is negated: quotients by both signs, remainders by the
\* sign of the dividend.
ResultSign(op, a, b) ==
  op \in {"div", "rem"} /\ (Negative(a) # (Negative(b) /\ op = "div"))

\* div_start: a division to x0 is dropped.
Start(op, a, b, wad) ==
  /\ cnt = 0
  /\ wad # 0
  /\ LET signed == op \in {"div", "rem"}
     IN  /\ PA' = IF signed THEN Magnitude(a) ELSE a
         /\ B' = IF signed THEN Magnitude(b) ELSE b
  /\ is_neg' = ResultSign(op, a, b)
  /\ is_div' = (op \in {"div", "divu"})
  /\ Q_addr_reg' = wad
  /\ cnt' = W + 1
  /\ x_w1' = None
  /\ req' = [op |-> op, a |-> a, b |-> b, wad |-> wad]

NoStart(wad) ==
  /\ cnt = 0
  /\ wad = 0
  /\ x_w1' = None
  /\ UNCHANGED <<cnt, PA, B, Q_addr_reg, is_div, is_neg, req>>

\* Fault: the last step is not made.
StepShort ==
  /\ cnt > 2
  /\ PA' = div_step(PA, B)
  /\ cnt' = cnt - 1
  /\ x_w1' = None
  /\ UNCHANGED <<B, Q_addr_reg, is_div, is_neg, req>>

Step ==
  /\ cnt > 1
  /\ PA' = div_step(PA, B)
  /\ cnt' = cnt - 1
  /\ x_w1' = None
  /\ UNCHANGED <<B, Q_addr_reg, is_div, is_neg, req>>

Finish ==
  /\ cnt = 1
  /\ x_w1' = <<Q_addr_reg, Result>>
  /\ cnt' = cnt - 1
  /\ req' = None
  /\ UNCHANGED <<PA, B, Q_addr_reg, is_div, is_neg>>

\* div_wad is 0 when the instruction in EX is not a division.
Next ==
  \/ \E op \in Op, a \in Word, b \in Word, wad \in Reg : Start(op, a, b, wad)
  \/ NoStart(0)
  \/ Step
  \/ Finish

Spec == Init /\ [][Next]_vars
FairSpec == Spec /\ WF_vars(Step \/ Finish)
-----------------------------------------------------------------------------
\* state_to_core: what the hazard logic sees of the unit.
div_bsy == cnt # 0
div_adr == Q_addr_reg
div_wnc == cnt = 2
-----------------------------------------------------------------------------
\* The behavioural models divs, rems, divu and remu, with RISC-V's results for
\* a zero divisor and for the quotient that overflows.
Abs(x)  == IF x < 0 THEN -x ELSE x
Wrap(x) == x % M
Truncated(x, y) == IF (x < 0) = (y < 0) THEN Abs(x) \div Abs(y) ELSE -(Abs(x) \div Abs(y))

Reference(op, a, b) ==
  CASE op = "divu" -> IF b = 0 THEN M - 1 ELSE a \div b
    [] op = "remu" -> IF b = 0 THEN a ELSE a % b
    [] op = "div"  -> IF b = 0 THEN M - 1 ELSE Wrap(Truncated(Signed(a), Signed(b)))
    [] op = "rem"  -> IF b = 0 THEN a
                      ELSE Wrap(Signed(a) - Signed(b) * Truncated(Signed(a), Signed(b)))
-----------------------------------------------------------------------------
Request == [op : Op, a : Word, b : Word, wad : Reg]

TypeOK ==
  /\ cnt \in 0 .. W + 1
  /\ PA \in 0 .. M * M - 1
  /\ B \in Word
  /\ Q_addr_reg \in Reg
  /\ is_div \in BOOLEAN
  /\ is_neg \in BOOLEAN
  /\ x_w1 \in (Reg \X Word) \union {None}
  /\ req \in Request \union {None}

\* After Done steps the low bits of PA are the quotient, the high half is the
\* remainder, of the Done leading bits of the dividend by the divisor; the bits
\* not yet used stand above the quotient.
Done == W + 1 - cnt
Dividend == IF req.op \in {"div", "rem"} THEN Magnitude(req.a) ELSE req.a
Quotient == PA % Pow2[Done]
PartialDivision ==
  div_bsy =>
    /\ Lo(PA) \div Pow2[Done] = Dividend % Pow2[W - Done]
    /\ Dividend \div Pow2[W - Done] = Quotient * B + Hi(PA)
    /\ B # 0 => Hi(PA) < B

\* What is written back is the reference result of the division requested, in
\* the register requested, for every operand pair.
AnswersReference ==
  [][x_w1' # None => x_w1' = <<req.wad, Reference(req.op, req.a, req.b)>>]_vars

\* Every division ends with its register written.
DivisionEnds == div_bsy ~> x_w1 # None
=============================================================================
