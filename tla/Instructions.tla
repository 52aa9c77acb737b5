---------------------------- MODULE Instructions ----------------------------
(***************************************************************************)
(* What the instructions of the core do to its registers and its data      *)
(* memory (lib/alu.n, ldst.n, ctrl.n, div.n, cnn.n, ocd.n), with the data  *)
(* abstracted: words are 0 .. NumVals - 1, code addresses count            *)
(* instructions, and one instruction stands for each class the pipeline    *)
(* tells apart.                                                            *)
(*   alu    rd := rs1 + rs2 + imm       any one-cycle result on port x_w1  *)
(*   ld st  rd := DM[rs1 + imm], DM[rs1 + imm] := rs2                      *)
(*   br     to pc + imm when rs1 = rs2                                     *)
(*   jal jalr   to pc + imm or rs1 + imm, rd := the next address           *)
(*   div    rd := rs1 / rs2, by the multi-cycle unit                       *)
(*   mac    the CNN step: it reads MacReads and writes MacWrites           *)
(*   swbrk  the software breakpoint                                        *)
(***************************************************************************)
EXTENDS Integers

CONSTANTS
  NumRegs,    \* registers; X[0] is always 0
  NumVals,    \* values of a word
  NumAddrs,   \* instructions of the program memory
  NumCells,   \* cells of the data memory
  MacReads,   \* X20 .. X24 in the source
  MacWrites,  \* X22 .. X24 in the source
  None        \* no instruction

ASSUME SizeAssumption ==
  /\ NumRegs \in Nat \ {0}
  /\ NumVals \in Nat \ {0}
  /\ NumAddrs \in Nat \ {0}
  /\ NumCells \in Nat \ {0}
ASSUME MacAssumption ==
  /\ MacReads \subseteq 1 .. NumRegs - 1
  /\ MacWrites \subseteq MacReads

Reg  == 0 .. NumRegs - 1
Val  == 0 .. NumVals - 1
Addr == 0 .. NumAddrs - 1
Cell == 0 .. NumCells - 1

Op == {"alu", "ld", "st", "br", "jal", "jalr", "div", "mac", "swbrk"}
Instr == [op : Op, rd : Reg, rs1 : Reg, rs2 : Reg, imm : Nat]

ASSUME NoneAssumption == None \notin Instr

\* Instructions whose result goes through the register write port x_w1 in EX.
PortOps == {"alu", "ld", "jal", "jalr"}

Next1(a) == (a + 1) % NumAddrs

\* The cell a load or store addresses, and the targets of control transfers.
CellOf(i, R)       == (R[i.rs1] + i.imm) % NumCells
BranchTo(i, a)     == (a + i.imm) % NumAddrs
JumpTo(i, a, R)    == IF i.op = "jal" THEN (a + i.imm) % NumAddrs
                      ELSE (R[i.rs1] + i.imm) % NumAddrs
Taken(i, R)        == i.op = "br" /\ R[i.rs1] = R[i.rs2]

Quotient(a, b) == IF b = 0 THEN NumVals - 1 ELSE a \div b

\* The CNN step, with one register for each role: a register that depends on
\* every register read.
Ones(R) == {r \in MacReads : R[r] # 0}
MacValue(r, R) == IF Ones(R) = MacReads THEN 0 ELSE (R[r] + 1) % NumVals

\* The value an instruction at address a puts on x_w1.
PortValue(i, a, R, D) ==
  CASE i.op = "alu" -> (R[i.rs1] + R[i.rs2] + i.imm) % NumVals
    [] i.op = "ld"  -> D[CellOf(i, R)]
    [] i.op \in {"jal", "jalr"} -> Next1(a) % NumVals

\* The registers and the data memory after an instruction.
RegsAfter(i, a, R, D) ==
  [r \in Reg |->
     IF r = 0 THEN R[r]
     ELSE IF i.op \in PortOps /\ r = i.rd THEN PortValue(i, a, R, D)
     ELSE IF i.op = "div" /\ r = i.rd THEN Quotient(R[i.rs1], R[i.rs2])
     ELSE IF i.op = "mac" /\ r \in MacWrites THEN MacValue(r, R)
     ELSE R[r]]

MemAfter(i, R, D) ==
  IF i.op = "st" THEN [D EXCEPT ![CellOf(i, R)] = R[i.rs2]] ELSE D

\* The address of the instruction that follows.
PcAfter(i, a, R) ==
  IF i.op \in {"jal", "jalr"} THEN JumpTo(i, a, R)
  ELSE IF Taken(i, R) THEN BranchTo(i, a)
  ELSE Next1(a)
=============================================================================
