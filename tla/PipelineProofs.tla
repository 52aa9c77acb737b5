--------------------------- MODULE PipelineProofs ---------------------------
(***************************************************************************)
(* Proofs about Pipeline, and that it implements Isa, for every instruction*)
(* mix, program, latency of the division unit and size of the machine; and *)
(* about DebugCore, for every number of breakpoints and every such pipeline.*)
(***************************************************************************)
EXTENDS DebugCore, TLAPS

\* The fetch register is empty when the PCU leaves debug mode.
RefetchAfterDebug == r_state = "LEAVE0" => ~r_fetched

\* An instruction that stays in ID or comes into it finds EX's gap respected.
Control ==
  /\ FetchedIsAtPC
  /\ RefetchAfterDebug
  /\ LinkIsNext
  /\ HoldOff
  /\ PortExclusive
  /\ DivNotLost

\* An instruction of two cycles in ID keeps the next from being issued.
LEMMA NoIssueBehind ==
  ASSUME NEW req \in BOOLEAN, NEW exe,
         Cycle(req, exe), ID # None, ID.i.op \in TwoCycleOps, ~br_EX, ~hw_stall
  PROVE  ID' = None
  <1>1. ~interruptible
    BY DEF interruptible, issue_sig
  <1>2. ~issue_ins(req)
    BY <1>1 DEF issue_ins
  <1>3. exe = None
    BY DEF Cycle, CoreCycle, DebuggerPaced, Quiet
  <1>4. QED
    BY <1>2, <1>3 DEF Cycle, CoreCycle, Issue

\* What moves from ID to EX.
LEMMA AdvanceOnly ==
  ASSUME Advance, EX' # None
  PROVE  ID # None /\ ~br_EX /\ ~hw_stall /\ EX'.i = ID.i
  BY DEF Advance

LEMMA HoldOffStep ==
  ASSUME Control, NEW req \in BOOLEAN, NEW exe, Cycle(req, exe)
  PROVE  HoldOff'
  <1> SUFFICES ASSUME EX' # None, EX'.i.op \in TwoCycleOps
               PROVE  ID' = None
    BY DEF HoldOff, TwoCycleOps
  <1>1. ID # None /\ ~br_EX /\ ~hw_stall /\ EX'.i = ID.i
    BY AdvanceOnly DEF Cycle, CoreCycle
  <1>2. QED
    BY <1>1, NoIssueBehind

\* PC moves with the instruction that is issued, and stays while ID is stalled.
LEMMA LinkStep ==
  ASSUME Control, NEW req \in BOOLEAN, NEW exe, Cycle(req, exe)
  PROVE  LinkIsNext'
  <1> SUFFICES ASSUME InProgram(ID')
               PROVE  PC' = Next1(ID'.pc)
    BY DEF LinkIsNext, InProgram, Next1
  <1>1. CASE issue_ins(req)
    <2>1. ~br_EX /\ interruptible /\ r_fetched /\ ~stop_issue(req)
      BY <1>1 DEF issue_ins
    <2>2. issue_sig /\ ~hw_stall
      BY <2>1 DEF interruptible
    <2>3. ~jump_ID
      BY <2>2 DEF jump_ID, issue_sig, TwoCycleOps
    <2>4. update_pc(req) /\ next_pc = Next1(PC)
      BY <2>1, <2>2, <2>3 DEF update_pc, could_issue, next_pc, could_jump
    <2>5. PC' = Next1(PC)
      BY <2>4 DEF Cycle, CoreCycle, Pcu
    <2>6. ID'.pc = PC
      BY <1>1 DEF Cycle, CoreCycle, Issue
    <2>7. QED
      BY <2>5, <2>6
  <1>2. CASE ~issue_ins(req)
    <2>1. exe = None /\ hw_stall /\ ~br_EX /\ ID' = ID
      BY <1>2 DEF Cycle, CoreCycle, Issue, InProgram
    <2>2. ~update_pc(req)
      BY <2>1 DEF update_pc, could_issue, could_jump, jump_ID
    <2>3. PC' = PC
      BY <2>2 DEF Cycle, CoreCycle, Pcu
    <2>4. QED
      BY <2>1, <2>3 DEF Control, LinkIsNext
  <1>3. QED
    BY <1>1, <1>2

\* The instruction fetched is the one at the new PC, whenever it can be issued.
LEMMA FetchStep ==
  ASSUME Control, NEW req \in BOOLEAN, NEW exe, Cycle(req, exe)
  PROVE  FetchedIsAtPC'
  <1> SUFFICES ASSUME r_fetched', r_state' \in {"NORMAL", "LEAVE1", "LEAVE2"}
               PROVE  pm_rd' = PM[PC']
    BY DEF FetchedIsAtPC, Cycle, CoreCycle
  <1> USE DEF Cycle, CoreCycle, Pcu
  <1>1. r_state # "DEBUG"
    OBVIOUS
  <1>2. pm_rd' = PM[IF fetch_next THEN next_pc ELSE PC]
    BY <1>1
  <1>3. CASE r_state = "LEAVE0"
    <2>1. ~r_fetched
      BY <1>3 DEF Control, RefetchAfterDebug
    <2>2. fetch_next = could_jump /\ update_pc(req) = could_jump
      BY <2>1 DEF fetch_next, update_pc, could_jump
    <2>3. QED
      BY <1>2, <2>2
  <1>4. CASE r_state = "LEAVE1"
    <2>1. fetch_next = could_jump /\ update_pc(req) = could_jump
      BY <1>4 DEF fetch_next, update_pc, stop_issue, could_jump
    <2>2. QED
      BY <1>2, <2>1
  <1>5. CASE r_state \notin {"LEAVE0", "LEAVE1"}
    <2>1. ~stop_issue(req)
      BY <1>1, <1>5 DEF stop_issue, NextState
    <2>2. fetch_next = update_pc(req)
      BY <2>1, <1>5 DEF fetch_next, update_pc, could_jump, could_issue
    <2>3. QED
      BY <1>2, <2>2
  <1>6. QED
    BY <1>3, <1>4, <1>5

LEMMA RefetchStep ==
  ASSUME TypeOK, NEW req \in BOOLEAN, NEW exe, Cycle(req, exe)
  PROVE  RefetchAfterDebug'
  BY DEF RefetchAfterDebug, Cycle, CoreCycle, Pcu, NextState, TypeOK

\* A write of the division unit is announced one cycle before (div_wnc), and ID
\* then holds back what would use the port.
LEMMA PortStep ==
  ASSUME TypeOK, NEW req \in BOOLEAN, NEW exe, Cycle(req, exe)
  PROVE  PortExclusive'
  <1> SUFFICES ASSUME div_cnt' = 1, EX' # None, EX'.i.op \in PortOps
               PROVE  FALSE
    BY DEF PortExclusive, DivWrites, ExPort, PortOps
  <1>1. div_cnt = 2
    BY DivCyclesAssumption DEF Cycle, CoreCycle, Divide, div_bsy, TypeOK
  <1>2. ID # None /\ ~hw_stall /\ EX'.i = ID.i
    BY AdvanceOnly DEF Cycle, CoreCycle
  <1>3. DivHazard(ID.i)
    BY <1>1, <1>2 DEF DivHazard, div_wnc
  <1>4. QED
    BY <1>2, <1>3 DEF hw_stall

\* A division that moves to EX was not stalled, and the one before it had left.
LEMMA DivStep ==
  ASSUME Control, NEW req \in BOOLEAN, NEW exe, Cycle(req, exe)
  PROVE  DivNotLost'
  <1> SUFFICES ASSUME EX' # None, EX'.i.op = "div"
               PROVE  div_cnt' = 0
    BY DEF DivNotLost, div_bsy
  <1>1. ID # None /\ ~hw_stall /\ ID.i.op = "div"
    BY AdvanceOnly DEF Cycle, CoreCycle
  <1>2. div_cnt = 0
    BY <1>1 DEF hw_stall, DivHazard, div_bsy
  <1>3. ~(EX # None /\ EX.i.op = "div")
    BY <1>1 DEF Control, HoldOff, TwoCycleOps
  <1>4. QED
    BY <1>2, <1>3 DEF Cycle, CoreCycle, Divide, div_bsy

-----------------------------------------------------------------------------
\* Type correctness.

LEMMA ModType ==
  ASSUME NEW n \in Nat \ {0}, NEW x \in Nat
  PROVE  x % n \in 0 .. n - 1
  OBVIOUS

LEMMA DivType ==
  ASSUME NEW n \in Nat, NEW a \in 0 .. n - 1, NEW b \in 0 .. n - 1, b # 0
  PROVE  a \div b \in 0 .. n - 1
  OBVIOUS

LEMMA ValMod ==
  ASSUME NEW x \in Nat
  PROVE  x % NumVals \in Val
  <1>1. NumVals \in Nat \ {0}
    BY SizeAssumption
  <1>2. QED
    BY <1>1, ModType DEF Val

LEMMA QuotientType ==
  ASSUME NEW a \in Val, NEW b \in Val
  PROVE  Quotient(a, b) \in Val
  BY DivType, SizeAssumption DEF Quotient, Val

\* The addresses an instruction computes.
LEMMA AddressTypes ==
  ASSUME NEW i \in Instr, NEW a \in Addr, NEW R \in [Reg -> Val]
  PROVE  /\ Next1(a) \in Addr
         /\ BranchTo(i, a) \in Addr
         /\ JumpTo(i, a, R) \in Addr
         /\ CellOf(i, R) \in Cell
  <1>1. R[i.rs1] \in Nat /\ i.imm \in Nat /\ a \in Nat
    BY DEF Instr, Addr, Val
  <1>2. a + 1 \in Nat /\ a + i.imm \in Nat /\ R[i.rs1] + i.imm \in Nat
    BY <1>1
  <1>3. NumAddrs \in Nat \ {0} /\ NumCells \in Nat \ {0}
    BY SizeAssumption
  <1>4. /\ (a + 1) % NumAddrs \in Addr
        /\ (a + i.imm) % NumAddrs \in Addr
        /\ (R[i.rs1] + i.imm) % NumAddrs \in Addr
        /\ (R[i.rs1] + i.imm) % NumCells \in Cell
    BY <1>2, <1>3, ModType DEF Addr, Cell
  <1>5. QED
    BY <1>4 DEF Next1, BranchTo, JumpTo, CellOf

LEMMA StoredType ==
  ASSUME TypeOK
  PROVE  Stored \in [Cell -> Val]
  BY DEF TypeOK, Stored, ExSlot, Instr

LEMMA PcuType ==
  ASSUME TypeOK, NEW req \in BOOLEAN, Pcu(req)
  PROVE  /\ PC' \in Addr
         /\ r_fetched' \in BOOLEAN
         /\ r_state' \in {"NORMAL", "DEBUG", "LEAVE0", "LEAVE1", "LEAVE2"}
         /\ pm_rd' \in Instr \union {None}
  <1>1. next_pc \in Addr
    <2>1. CASE ~could_jump
      <3>1. None \notin Instr
        BY NoneAssumption
      <3>2. PC + 1 \in Nat
        BY DEF TypeOK, Addr
      <3>3. QED
        BY <2>1, <3>2, ModType, SizeAssumption DEF next_pc, Next1, Addr
    <2>2. CASE br_EX
      BY <2>2 DEF next_pc, could_jump, jump_pc, br_EX, TypeOK, ExSlot
    <2>3. CASE jump_ID /\ ~br_EX
      <3>1. ID.i \in Instr /\ ID.pc \in Addr
        BY <2>3 DEF jump_ID, TypeOK, Slot
      <3>2. JumpTo(ID.i, ID.pc, X) \in Addr
        BY <3>1, AddressTypes DEF TypeOK
      <3>3. QED
        BY <2>3, <3>2 DEF next_pc, could_jump, jump_pc, TypeOK
    <2>4. QED
      BY <2>1, <2>2, <2>3 DEF could_jump
  <1>2. PC' \in Addr
    BY <1>1 DEF Pcu, TypeOK
  <1>3. r_state' \in {"NORMAL", "DEBUG", "LEAVE0", "LEAVE1", "LEAVE2"}
    BY DEF Pcu, NextState, TypeOK
  <1>4. pm_rd' \in Instr \union {None}
    <2>1. (IF fetch_next THEN next_pc ELSE PC) \in Addr
      BY <1>1 DEF TypeOK
    <2>2. PM[IF fetch_next THEN next_pc ELSE PC] \in Instr
      BY <2>1, InstrAssumption DEF TypeOK
    <2>3. QED
      BY <2>2 DEF Pcu, TypeOK
  <1>5. QED
    BY <1>2, <1>3, <1>4 DEF Pcu

LEMMA IssueType ==
  ASSUME TypeOK, Control, NEW req \in BOOLEAN, NEW exe \in DbgInstrs \union {None},
         Issue(req, exe)
  PROVE  ID' \in Slot
  <1>1. CASE issue_ins(req)
    <2>1. r_fetched /\ r_state \in {"NORMAL", "LEAVE2"}
      BY <1>1 DEF issue_ins, stop_issue, TypeOK
    <2>2. pm_rd = PM[PC]
      BY <2>1 DEF Control, FetchedIsAtPC
    <2>3. pm_rd \in Instr
      BY <2>2, InstrAssumption DEF TypeOK
    <2>4. QED
      BY <1>1, <2>3 DEF Issue, Slot, TypeOK
  <1>2. CASE ~issue_ins(req) /\ exe # None
    BY <1>2, InstrAssumption DEF Issue, Slot, TypeOK
  <1>3. CASE ~issue_ins(req) /\ exe = None
    BY <1>3 DEF Issue, Slot, TypeOK
  <1>4. QED
    BY <1>1, <1>2, <1>3

LEMMA AdvanceType ==
  ASSUME TypeOK, Advance
  PROVE  EX' \in ExSlot
  <1>1. CASE ID # None /\ ~br_EX /\ ~hw_stall
    <2>1. ID.i \in Instr /\ ID.pc \in Addr /\ ID.ocd \in BOOLEAN
      BY <1>1 DEF TypeOK, Slot
    <2>2. CellOf(ID.i, X) \in Cell /\ BranchTo(ID.i, ID.pc) \in Addr
      BY <2>1, AddressTypes DEF TypeOK
    <2>3. Stored[CellOf(ID.i, X)] \in Val
      BY <2>2, StoredType
    <2>4. QED
      BY <1>1, <2>1, <2>2, <2>3 DEF Advance, ExSlot, TypeOK
  <1>2. CASE ~(ID # None /\ ~br_EX /\ ~hw_stall)
    BY <1>2 DEF Advance, ExSlot
  <1>3. QED
    BY <1>1, <1>2

LEMMA PortType ==
  ASSUME TypeOK
  PROVE  x_w1 \in Val
  <1>1. CASE ~ExPort
    BY <1>1 DEF x_w1, TypeOK
  <1>2. CASE ExPort
    <2>1. /\ X[EX.i.rs1] \in Nat /\ X[EX.i.rs2] \in Nat /\ EX.i.imm \in Nat
          /\ EX.tgt \in Nat /\ EX.data \in Val
          /\ EX.i.op \in {"alu", "ld", "jal", "jalr"}
      BY <1>2 DEF ExPort, PortOps, TypeOK, ExSlot, Instr, Val, Addr
    <2>2. /\ (X[EX.i.rs1] + X[EX.i.rs2] + EX.i.imm) % NumVals \in Val
          /\ EX.tgt % NumVals \in Val
      <3>1. X[EX.i.rs1] + X[EX.i.rs2] + EX.i.imm \in Nat
        BY <2>1
      <3>2. QED
        BY <2>1, <3>1, ValMod
    <2>3. QED
      BY <1>2, <2>1, <2>2 DEF x_w1
  <1>3. QED
    BY <1>1, <1>2

LEMMA MacType ==
  ASSUME NEW R \in [Reg -> Val], NEW r \in Reg
  PROVE  MacValue(r, R) \in Val
  <1>1. R[r] + 1 \in Nat
    BY DEF Val
  <1>2. (R[r] + 1) % NumVals \in Val /\ 0 \in Val
    BY <1>1, ValMod, SizeAssumption DEF Val
  <1>3. QED
    BY <1>2 DEF MacValue

LEMMA DivideType ==
  ASSUME TypeOK, Divide
  PROVE  div_cnt' \in 0 .. DivCycles /\ div_adr' \in Reg /\ div_val' \in Val
  <1>1. CASE div_cnt = 0 /\ EX # None /\ EX.i.op = "div" /\ EX.i.rd # 0
    <2>1. X[EX.i.rs1] \in Val /\ X[EX.i.rs2] \in Val /\ EX.i.rd \in Reg
      BY <1>1 DEF TypeOK, ExSlot, Instr
    <2>2. QED
      BY <1>1, <2>1, QuotientType, DivCyclesAssumption DEF Divide
  <1>2. CASE ~(div_cnt = 0 /\ EX # None /\ EX.i.op = "div" /\ EX.i.rd # 0)
    BY <1>2, DivCyclesAssumption DEF Divide, div_bsy, TypeOK
  <1>3. QED
    BY <1>1, <1>2

-----------------------------------------------------------------------------
\* The inductive invariant: types need that what is issued was fetched, and
\* control needs the ranges of the counter and of the state.
IInv == TypeOK /\ Control

LEMMA InitIInv == Init => IInv
  <1> SUFFICES ASSUME Init PROVE IInv
    OBVIOUS
  <1>1. 0 \in Addr /\ 0 \in Reg /\ 0 \in Val
    BY SizeAssumption DEF Addr, Reg, Val
  <1>2. TypeOK
    <2>1. X \in [Reg -> Val]
      BY <1>1 DEF Init
    <2>2. div_cnt \in 0 .. DivCycles
      BY DivCyclesAssumption DEF Init
    <2>3. ID \in Slot /\ EX \in ExSlot /\ pm_rd \in Instr \union {None}
      BY DEF Init, Slot, ExSlot
    <2>4. QED
      BY <1>1, <2>1, <2>2, <2>3 DEF Init, TypeOK
  <1>3. Control
    BY DEF Init, Control, FetchedIsAtPC, RefetchAfterDebug, LinkIsNext, InProgram,
           HoldOff, PortExclusive, DivWrites, DivNotLost
  <1>4. QED
    BY <1>2, <1>3 DEF IInv

LEMMA CycleIInv ==
  ASSUME IInv, NEW req \in BOOLEAN, NEW exe \in DbgInstrs \union {None},
         Cycle(req, exe)
  PROVE  IInv'
  <1>1. TypeOK /\ Control
    BY DEF IInv
  <1>2. X' \in [Reg -> Val]
    <2>1. x_w1 \in Val /\ \A r \in Reg : MacValue(r, X) \in Val
      BY <1>1, PortType, MacType DEF TypeOK
    <2>2. QED
      BY <1>1, <2>1 DEF Cycle, CoreCycle, WriteBack, TypeOK
  <1>3. DM' \in [Cell -> Val] /\ PM' \in [Addr -> ProgInstrs]
    BY <1>1, StoredType DEF Cycle, CoreCycle, WriteBack, TypeOK
  <1>4. TypeOK'
    BY <1>1, <1>2, <1>3, PcuType, IssueType, AdvanceType, DivideType DEF Cycle, CoreCycle, TypeOK
  <1>5. Control'
    BY <1>1, HoldOffStep, LinkStep, FetchStep, RefetchStep, PortStep, DivStep DEF Control
  <1>6. QED
    BY <1>4, <1>5 DEF IInv

LEMMA PatchIInv ==
  ASSUME IInv, NEW a \in Addr, NEW i \in PatchInstrs, PatchProgram(a, i)
  PROVE  IInv'
  <1>1. TypeOK'
    BY InstrAssumption DEF IInv, TypeOK, PatchProgram, pcuVars, divVars
  <1>2. Control'
    BY DEF IInv, PatchProgram, pcuVars, divVars, Control, FetchedIsAtPC, RefetchAfterDebug,
           LinkIsNext, InProgram, HoldOff, PortExclusive, DivWrites, ExPort, DivNotLost,
           div_bsy, Quiet
  <1>3. QED
    BY <1>1, <1>2 DEF IInv

\* Nothing is in the pipeline and nothing fetched after a reset.
LEMMA ResetIInv ==
  ASSUME IInv, Reset
  PROVE  IInv'
  <1>1. 0 \in Addr /\ 0 \in Reg /\ 0 \in Val
    BY SizeAssumption DEF Addr, Reg, Val
  <1>2. X' \in [Reg -> Val] /\ DM' \in [Cell -> Val] /\ PM' \in [Addr -> ProgInstrs]
    BY <1>1 DEF Reset, IInv, TypeOK
  <1>3. div_cnt' \in 0 .. DivCycles
    BY DivCyclesAssumption DEF Reset
  <1>4. ID' \in Slot /\ EX' \in ExSlot /\ pm_rd' \in Instr \union {None}
    BY DEF Reset, Slot, ExSlot
  <1>5. TypeOK'
    BY <1>1, <1>2, <1>3, <1>4 DEF Reset, TypeOK
  <1>6. Control'
    BY DEF Reset, Control, FetchedIsAtPC, RefetchAfterDebug, LinkIsNext, InProgram,
           HoldOff, PortExclusive, DivWrites, ExPort, DivNotLost
  <1>7. QED
    BY <1>5, <1>6 DEF IInv

LEMMA InductiveInvariant == Spec => []IInv
  <1>1. IInv /\ [Next]_vars => IInv'
    <2> SUFFICES ASSUME IInv, [Next]_vars PROVE IInv'
      OBVIOUS
    <2>1. CASE Clock
      BY <2>1, CycleIInv DEF Clock
    <2>2. CASE \E a \in Addr, i \in PatchInstrs : PatchProgram(a, i)
      BY <2>2, PatchIInv
    <2>3. CASE UNCHANGED vars
      BY <2>3 DEF vars, IInv, TypeOK, Control, FetchedIsAtPC, RefetchAfterDebug, LinkIsNext,
           InProgram, HoldOff, PortExclusive, DivWrites, ExPort, DivNotLost, div_bsy
    <2>4. CASE Reset
      BY <2>4, ResetIInv
    <2>5. QED
      BY <2>1, <2>2, <2>3, <2>4 DEF Next
  <1>2. QED
    BY InitIInv, <1>1, PTL DEF Spec

-----------------------------------------------------------------------------
\* Type correctness: every register, instruction slot and memory cell keeps a
\* value of its type; in particular no empty word is ever issued.
THEOREM TypeCorrect == Spec => []TypeOK
  BY InductiveInvariant, PTL DEF IInv

\* What can be issued is what the program has at PC (pcu.p, user_next_pc).
THEOREM FetchCorrect == Spec => []FetchedIsAtPC
  BY InductiveInvariant, PTL DEF IInv, Control

\* The link address of a jump is the address after it (pcu.p, lnk_id).
THEOREM LinkCorrect == Spec => []LinkIsNext
  BY InductiveInvariant, PTL DEF IInv, Control

\* EX and the division unit never write a register through x_w1 at once
\* (div.n, div_wp).
THEOREM PortNeverShared == Spec => []PortExclusive
  BY InductiveInvariant, PTL DEF IInv, Control

\* No division is dropped because the unit is busy (div.n, div_busy and cycles).
THEOREM NoDivisionLost == Spec => []DivNotLost
  BY InductiveInvariant, PTL DEF IInv, Control

\* The core halts at a software breakpoint before another instruction is issued
\* (ocd.n, swbrk_instr).
THEOREM SoftwareBreakpointHalts == Spec => SwbreakStops
  <1> DEFINE Stops == r_state = "NORMAL" /\ EX # None /\ EX.i.op = "swbrk"
                        => ID = None /\ (Reset \/ (ID' = None /\ r_state' = "DEBUG"))
  <1>1. IInv /\ [Next]_vars => [Stops]_vars
    <2> SUFFICES ASSUME IInv, Next, r_state = "NORMAL", EX # None, EX.i.op = "swbrk"
                 PROVE  ID = None /\ (Reset \/ (ID' = None /\ r_state' = "DEBUG"))
      OBVIOUS
    <2>1. ID = None
      BY DEF IInv, Control, HoldOff, TwoCycleOps
    <2> SUFFICES ASSUME ~Reset
                 PROVE  ID' = None /\ r_state' = "DEBUG"
      BY <2>1
    <2>2. PICK req \in BOOLEAN, exe \in DbgInstrs \union {None} :
                 Cycle(req, exe)
      BY DEF Next, Clock, PatchProgram
    <2>3. interruptible
      BY <2>1 DEF interruptible, issue_sig, hw_stall
    <2>4. req /\ exe = None
      BY <2>2 DEF Cycle, CoreCycle, DebuggerPaced
    <2>5. ~issue_ins(req)
      BY <2>3, <2>4 DEF issue_ins, stop_issue
    <2>6. ID' = None
      BY <2>1, <2>2, <2>4, <2>5 DEF Cycle, CoreCycle, Issue, hw_stall
    <2>7. r_state' = "DEBUG"
      BY <2>2, <2>3, <2>4 DEF Cycle, CoreCycle, Pcu, NextState
    <2>8. QED
      BY <2>6, <2>7
  <1>2. QED
    BY <1>1, InductiveInvariant, PTL DEF Spec, SwbreakStops
-----------------------------------------------------------------------------
(***************************************************************************)
(* Pipeline implements Isa.  An invariant says how the instructions under  *)
(* way stand to the program (Order); a cycle then does one of four things  *)
(* to them (FlowOfCycle), and each is a step of Isa or none.               *)
(***************************************************************************)

\* Instructions in ID and EX are the program's, at the address they carry, or
\* the debugger's.
FromProgram ==
  /\ InProgram(ID) => ID.i = PM[ID.pc]
  /\ InProgram(EX) => EX.i = PM[EX.pc]

\* A debugger's instruction enters an empty pipeline, and its jump leaves ID
\* before the core is resumed.
Debugger ==
  /\ ID # None /\ ID.ocd => /\ EX = None
                            /\ ID.i \in DbgInstrs
                            /\ ID.i.op = "jalr" => r_state = "DEBUG"
  /\ EX # None /\ EX.ocd => EX.i \in DbgInstrs

\* While the core is halted, and until it has left debug mode, the program is
\* out of the pipeline.
Halted ==
  /\ InProgram(ID) => r_state = "NORMAL"
  /\ InProgram(EX) => r_state \in {"NORMAL", "DEBUG"}

\* Behind the instruction in EX is the one that follows it, as far as ID knows:
\* the branch in EX may still be taken.
InOrder ==
  InProgram(EX) =>
    IF ID # None THEN ID.pc = Next1(EX.pc)
    ELSE PC = IF EX.i.op \in {"jal", "jalr"} THEN JumpTo(EX.i, EX.pc, X) ELSE Next1(EX.pc)

\* What ID computed for EX is what EX would compute.
Operands ==
  EX # None =>
    /\ EX.i.op \in {"ld", "st"} => EX.cell = CellOf(EX.i, X)
    /\ EX.i.op = "ld" => EX.data = DM[EX.cell]
    /\ EX.i.op = "br" => EX.tgt = BranchTo(EX.i, EX.pc)
    /\ EX.i.op \in {"jal", "jalr"} /\ ~EX.ocd => EX.tgt = Next1(EX.pc)

\* The instruction in EX has nothing to do with the register a division under
\* way will write.
Results ==
  div_bsy =>
    /\ div_adr # 0
    /\ EX # None => div_adr \notin Reads(EX.i) \union Writes(EX.i)

Order == FromProgram /\ Debugger /\ Halted /\ InOrder /\ Operands /\ Results
-----------------------------------------------------------------------------
\* What a cycle does to the flow of instructions: a branch is taken, ID is
\* stalled, ID jumps, or all goes on to the next stage.

Moved ==
  LET c == CellOf(ID.i, X)
  IN  [i |-> ID.i, pc |-> ID.pc, ocd |-> ID.ocd, cell |-> c,
       tgt |-> IF ID.i.op = "br" THEN BranchTo(ID.i, ID.pc) ELSE PC,
       data |-> Stored[c]]

Branches == br_EX /\ InProgram(EX) /\ ID' = None /\ EX' = None /\ PC' = EX.tgt

Stalls ==
  /\ ~br_EX /\ ID # None /\ ID' = ID /\ EX' = None /\ PC' = PC
  /\ r_state = "NORMAL" => r_state' = "NORMAL"
  /\ r_state = "DEBUG" /\ ID.i.op = "jalr" => r_state' = "DEBUG"

Jumps ==
  /\ ~br_EX /\ ID # None /\ ~hw_stall /\ ID.i.op \in {"jal", "jalr"}
  /\ ID' = None /\ EX' = Moved /\ PC' = JumpTo(ID.i, ID.pc, X)

Issues == ID' = [i |-> PM[PC], pc |-> PC, ocd |-> FALSE] /\ PC' = Next1(PC) /\ r_state' = "NORMAL"
Debugs ==
  /\ ID = None /\ EX = None /\ PC' = PC
  /\ r_state' = "DEBUG"
  /\ \E i \in DbgInstrs : ID' = [i |-> i, pc |-> PC, ocd |-> TRUE]

Flows ==
  /\ ~br_EX /\ ~hw_stall
  /\ ID # None => ID.i.op \notin {"jal", "jalr"}
  /\ EX' = IF ID = None THEN None ELSE Moved
  /\ Issues \/ Debugs \/ (ID' = None /\ PC' = PC)

LEMMA BranchIsProgram ==
  ASSUME Debugger, br_EX
  PROVE  InProgram(EX)
  BY InstrAssumption DEF Debugger, br_EX, Taken, InProgram

\* A debugger's jump is over before the PCU leaves debug mode, and the program
\* is out of the pipeline.
LEMMA NoJumpLeaves ==
  ASSUME Debugger, Halted, could_jump
  PROVE  r_state # "LEAVE0"
  <1>1. CASE br_EX
    BY <1>1, BranchIsProgram DEF Halted
  <1>2. CASE jump_ID
    <2>1. ID # None /\ ID.i.op \in {"jal", "jalr"}
      BY <1>2 DEF jump_ID
    <2>2. CASE ID.ocd
      BY <2>1, <2>2, InstrAssumption DEF Debugger
    <2>3. CASE ~ID.ocd
      BY <2>1, <2>3 DEF Halted, InProgram
    <2>4. QED
      BY <2>2, <2>3
  <1>3. QED
    BY <1>1, <1>2 DEF could_jump

LEMMA FlowOfCycle ==
  ASSUME IInv, Order, NEW req \in BOOLEAN, NEW exe \in DbgInstrs \union {None},
         Cycle(req, exe)
  PROVE  Branches \/ Stalls \/ Jumps \/ Flows
  <1> USE DEF Cycle, CoreCycle
  <1>1. TypeOK /\ Control /\ Debugger /\ Halted
    BY DEF IInv, Order
  <1>2. ID # None \/ EX # None => exe = None
    BY DEF DebuggerPaced, Quiet
  <1>3. CASE br_EX
    <2>1. InProgram(EX) /\ r_state # "LEAVE0"
      BY <1>1, <1>3, BranchIsProgram, NoJumpLeaves DEF could_jump
    <2>2. PC' = EX.tgt
      BY <1>3, <2>1 DEF Pcu, update_pc, next_pc, could_jump, jump_pc
    <2>3. ID' = None
      BY <1>2, <1>3, <2>1 DEF Issue, issue_ins, InProgram
    <2>4. EX' = None
      BY <1>3 DEF Advance
    <2>5. QED
      BY <1>3, <2>1, <2>2, <2>3, <2>4 DEF Branches
  <1>4. CASE ~br_EX /\ hw_stall
    <2>1. ID # None /\ ~interruptible /\ ~could_issue
      BY <1>4 DEF hw_stall, interruptible, could_issue
    <2>2. ID' = ID
      BY <1>2, <1>4, <2>1 DEF Issue, issue_ins
    <2>3. EX' = None
      BY <1>4 DEF Advance
    <2>4. PC' = PC
      BY <1>4, <2>1 DEF Pcu, update_pc, could_jump, jump_ID
    <2>5. r_state = "NORMAL" => r_state' = "NORMAL"
      BY <2>1 DEF Pcu, NextState
    <2>6. r_state = "DEBUG" /\ ID.i.op = "jalr" => r_state' = "DEBUG"
      BY <2>1 DEF Pcu, NextState, DebuggerPaced
    <2>7. QED
      BY <1>4, <2>1, <2>2, <2>3, <2>4, <2>5, <2>6 DEF Stalls
  <1>5. CASE jump_ID /\ ~br_EX
    <2>1. ID # None /\ ~hw_stall /\ ID.i.op \in {"jal", "jalr"} /\ could_jump
      BY <1>5 DEF jump_ID, could_jump
    <2>2. r_state # "LEAVE0"
      BY <1>1, <2>1, NoJumpLeaves
    <2>3. PC' = JumpTo(ID.i, ID.pc, X)
      BY <1>5, <2>1, <2>2 DEF Pcu, update_pc, next_pc, jump_pc
    <2>4. ID' = None
      BY <1>5, <2>1, NoIssueBehind DEF TwoCycleOps
    <2>5. EX' = Moved
      BY <1>5, <2>1 DEF Advance, Moved
    <2>6. QED
      BY <1>5, <2>1, <2>3, <2>4, <2>5 DEF Jumps
  <1>6. CASE ~br_EX /\ ~hw_stall /\ ~jump_ID
    <2>1. ID # None => ID.i.op \notin {"jal", "jalr"}
      BY <1>6 DEF jump_ID
    <2>2. EX' = IF ID = None THEN None ELSE Moved
      BY <1>6 DEF Advance, Moved
    <2>3. update_pc(req) = issue_ins(req) /\ next_pc = Next1(PC)
      BY <1>6 DEF update_pc, issue_ins, could_issue, interruptible, could_jump, next_pc, issue_sig
    <2>4. CASE issue_ins(req)
      <3>1. r_fetched /\ ~stop_issue(req) /\ interruptible
        BY <2>4 DEF issue_ins
      <3>2. r_state \in {"NORMAL", "LEAVE2"} /\ r_state' = "NORMAL"
        BY <1>1, <3>1 DEF stop_issue, Pcu, NextState, TypeOK
      <3>3. pm_rd = PM[PC]
        BY <1>1, <3>1, <3>2 DEF Control, FetchedIsAtPC
      <3>4. Issues
        BY <2>3, <2>4, <3>2, <3>3 DEF Issues, Issue, Pcu
      <3>5. QED
        BY <1>6, <2>1, <2>2, <3>4 DEF Flows
    <2>5. CASE ~issue_ins(req) /\ exe # None
      <3>1. ID = None /\ EX = None /\ r_state = "DEBUG" /\ req
        BY <2>5 DEF DebuggerPaced, Quiet
      <3>2. Debugs
        BY <2>3, <2>5, <3>1 DEF Debugs, Issue, Pcu, NextState
      <3>3. QED
        BY <1>6, <2>1, <2>2, <3>2 DEF Flows
    <2>6. CASE ~issue_ins(req) /\ exe = None
      <3>1. ID' = None /\ PC' = PC
        BY <1>6, <2>3, <2>6 DEF Issue, Pcu
      <3>2. QED
        BY <1>6, <2>1, <2>2, <3>1 DEF Flows
    <2>7. QED
      BY <2>4, <2>5, <2>6
  <1>7. QED
    BY <1>3, <1>4, <1>5, <1>6
-----------------------------------------------------------------------------
\* The order of the program is kept.

LEMMA IdShape ==
  ASSUME TypeOK, ID # None
  PROVE  ID.i \in Instr /\ ID.pc \in Addr /\ ID.ocd \in BOOLEAN
  BY DEF TypeOK, Slot

LEMMA MovedShape ==
  ASSUME TypeOK, ID # None
  PROVE  /\ Moved # None
         /\ Moved.i = ID.i /\ Moved.pc = ID.pc /\ Moved.ocd = ID.ocd
         /\ Moved.cell = CellOf(ID.i, X)
         /\ Moved.tgt = IF ID.i.op = "br" THEN BranchTo(ID.i, ID.pc) ELSE PC
         /\ Moved.data = Stored[CellOf(ID.i, X)]
  <1>1. CellOf(ID.i, X) \in Cell /\ BranchTo(ID.i, ID.pc) \in Addr
    BY IdShape, AddressTypes DEF TypeOK
  <1>2. Stored[CellOf(ID.i, X)] \in Val
    BY <1>1, StoredType
  <1>3. Moved \in [i : Instr, pc : Addr, ocd : BOOLEAN, cell : Cell, tgt : Addr, data : Val]
    BY <1>1, <1>2, IdShape DEF Moved, TypeOK
  <1>4. QED
    BY <1>3, EmptySlotAssumption DEF Moved

LEMMA IssuedShape ==
  ASSUME TypeOK, Issues
  PROVE  InProgram(ID') /\ ID'.i = PM[PC] /\ ID'.pc = PC
  <1>1. [i |-> PM[PC], pc |-> PC, ocd |-> FALSE] \in [i : Instr, pc : Addr, ocd : BOOLEAN]
    BY InstrAssumption DEF TypeOK
  <1>2. QED
    BY <1>1, EmptySlotAssumption DEF Issues, InProgram

LEMMA DebuggerShape ==
  ASSUME TypeOK, Debugs
  PROVE  ID' # None /\ ID'.ocd /\ ID'.i \in DbgInstrs /\ ID'.pc = PC
  <1>1. PICK i \in DbgInstrs : ID' = [i |-> i, pc |-> PC, ocd |-> TRUE]
    BY DEF Debugs
  <1>2. ID' \in [i : Instr, pc : Addr, ocd : BOOLEAN]
    BY <1>1, InstrAssumption DEF TypeOK
  <1>3. QED
    BY <1>1, <1>2, EmptySlotAssumption

\* What a step of the pipeline moves to EX was in ID, and not stalled.
LEMMA MovesOnly ==
  ASSUME Branches \/ Stalls \/ Jumps \/ Flows, EX' # None
  PROVE  ID # None /\ EX' = Moved /\ ~br_EX /\ ~hw_stall /\ (Jumps \/ Flows)
  BY DEF Branches, Stalls, Jumps, Flows

\* The base an address was computed from is not written while its instruction
\* goes from ID to EX (jalr_read, agu_read_after_write and read_after_div).
LEMMA BaseKept ==
  ASSUME TypeOK, ID # None, ~hw_stall, ID.i.op \in {"jalr", "ld", "st"}, WriteBack
  PROVE  X'[ID.i.rs1] = X[ID.i.rs1]
  <1>1. ID.i.rs1 \in Reg /\ ID.i.rs1 \in Reads(ID.i)
    BY IdShape DEF Instr, Reads
  <1>2. ID.i.rs1 \notin ExWrites
    BY DEF hw_stall, BaseHazard
  <1>3. ~(div_bsy /\ div_adr = ID.i.rs1)
    BY <1>1 DEF hw_stall, DivHazard
  <1>4. ID.i.rs1 \notin x_w1_wad
    BY <1>2, <1>3 DEF x_w1_wad, ExPort, ExWrites, DivWrites, div_bsy
  <1>5. ~(EX # None /\ EX.i.op = "mac" /\ ID.i.rs1 \in MacWrites)
    BY <1>2 DEF ExWrites
  <1>6. QED
    BY <1>1, <1>4, <1>5 DEF WriteBack

LEMMA FromProgramStep ==
  ASSUME TypeOK, FromProgram, Branches \/ Stalls \/ Jumps \/ Flows, PM' = PM
  PROVE  FromProgram'
  <1>1. InProgram(ID') => ID'.i = PM[ID'.pc]
    BY IssuedShape, DebuggerShape DEF FromProgram, Branches, Stalls, Jumps, Flows, InProgram
  <1>2. InProgram(EX') => EX'.i = PM[EX'.pc]
    BY MovesOnly, MovedShape DEF FromProgram, InProgram
  <1>3. QED
    BY <1>1, <1>2 DEF FromProgram, InProgram

LEMMA DebuggerStep ==
  ASSUME TypeOK, Debugger, Branches \/ Stalls \/ Jumps \/ Flows
  PROVE  Debugger'
  <1>1. ASSUME ID' # None, ID'.ocd
        PROVE  EX' = None /\ ID'.i \in DbgInstrs /\ (ID'.i.op = "jalr" => r_state' = "DEBUG")
    <2>1. CASE Stalls
      BY <1>1, <2>1 DEF Stalls, Debugger
    <2>2. CASE ~Stalls
      <3>1. Flows /\ Debugs
        BY <1>1, <2>2, IssuedShape DEF Branches, Jumps, Flows, InProgram
      <3>2. QED
        BY <3>1, DebuggerShape DEF Flows, Debugs
    <2>3. QED
      BY <2>1, <2>2
  <1>2. EX' # None /\ EX'.ocd => EX'.i \in DbgInstrs
    BY MovesOnly, MovedShape DEF Debugger
  <1>3. QED
    BY <1>1, <1>2 DEF Debugger

LEMMA HaltedStep ==
  ASSUME TypeOK, Halted, Branches \/ Stalls \/ Jumps \/ Flows,
         NEW req \in BOOLEAN, Pcu(req)
  PROVE  Halted'
  <1>1. ASSUME InProgram(ID') PROVE r_state' = "NORMAL"
    <2>1. CASE Stalls
      BY <1>1, <2>1 DEF Stalls, Halted, InProgram
    <2>2. CASE ~Stalls
      BY <1>1, <2>2, DebuggerShape DEF Branches, Jumps, Flows, Issues, InProgram
    <2>3. QED
      BY <2>1, <2>2
  <1>2. ASSUME InProgram(EX') PROVE r_state' \in {"NORMAL", "DEBUG"}
    <2>1. r_state = "NORMAL"
      BY <1>2, MovesOnly, MovedShape DEF Halted, InProgram
    <2>2. QED
      BY <2>1 DEF Pcu, NextState
  <1>3. QED
    BY <1>1, <1>2 DEF Halted, InProgram

LEMMA InOrderStep ==
  ASSUME TypeOK, LinkIsNext, Branches \/ Stalls \/ Jumps \/ Flows, WriteBack
  PROVE  InOrder'
  <1> SUFFICES ASSUME InProgram(EX')
               PROVE  IF ID' # None THEN ID'.pc = Next1(EX'.pc)
                      ELSE PC' = IF EX'.i.op \in {"jal", "jalr"}
                                 THEN JumpTo(EX'.i, EX'.pc, X') ELSE Next1(EX'.pc)
    BY DEF InOrder, InProgram, JumpTo, Next1
  <1>1. ID # None /\ EX' = Moved /\ ~hw_stall /\ (Jumps \/ Flows)
    BY MovesOnly DEF InProgram
  <1>2. EX'.i = ID.i /\ EX'.pc = ID.pc /\ InProgram(ID)
    BY <1>1, MovedShape DEF InProgram
  <1>3. PC = Next1(ID.pc)
    BY <1>2 DEF LinkIsNext
  <1>4. CASE Jumps
    <2>1. ID.i.op = "jalr" => X'[ID.i.rs1] = X[ID.i.rs1]
      BY <1>1, BaseKept
    <2>2. JumpTo(ID.i, ID.pc, X') = JumpTo(ID.i, ID.pc, X)
      BY <1>4, <2>1 DEF Jumps, JumpTo
    <2>3. QED
      BY <1>2, <1>4, <2>2 DEF Jumps
  <1>5. CASE Flows
    BY <1>1, <1>2, <1>3, <1>5, IssuedShape DEF Flows, Debugs, InProgram
  <1>6. QED
    BY <1>1, <1>4, <1>5

LEMMA OperandsStep ==
  ASSUME TypeOK, LinkIsNext, Branches \/ Stalls \/ Jumps \/ Flows, WriteBack
  PROVE  Operands'
  <1> SUFFICES ASSUME EX' # None
               PROVE  /\ EX'.i.op \in {"ld", "st"} => EX'.cell = CellOf(EX'.i, X')
                      /\ EX'.i.op = "ld" => EX'.data = DM'[EX'.cell]
                      /\ EX'.i.op = "br" => EX'.tgt = BranchTo(EX'.i, EX'.pc)
                      /\ EX'.i.op \in {"jal", "jalr"} /\ ~EX'.ocd => EX'.tgt = Next1(EX'.pc)
    BY DEF Operands, CellOf, BranchTo, Next1
  <1>1. ID # None /\ EX' = Moved /\ ~hw_stall
    BY MovesOnly
  <1>2. /\ EX'.i = ID.i /\ EX'.pc = ID.pc /\ EX'.ocd = ID.ocd
        /\ EX'.cell = CellOf(ID.i, X)
        /\ EX'.tgt = IF ID.i.op = "br" THEN BranchTo(ID.i, ID.pc) ELSE PC
        /\ EX'.data = Stored[CellOf(ID.i, X)]
    BY <1>1, MovedShape
  <1>3. ID.i.op \in {"ld", "st"} => CellOf(ID.i, X') = CellOf(ID.i, X)
    BY <1>1, BaseKept DEF CellOf
  <1>4. DM' = Stored
    BY DEF WriteBack
  <1>5. ~ID.ocd => PC = Next1(ID.pc)
    BY <1>1 DEF LinkIsNext, InProgram
  <1>6. QED
    BY <1>2, <1>3, <1>4, <1>5

LEMMA ResultsStep ==
  ASSUME TypeOK, Control, Results, Branches \/ Stalls \/ Jumps \/ Flows, Divide
  PROVE  Results'
  <1> SUFFICES ASSUME div_cnt' # 0
               PROVE  /\ div_adr' # 0
                      /\ EX' # None => div_adr' \notin Reads(EX'.i) \union Writes(EX'.i)
    BY DEF Results, div_bsy, Reads, Writes
  <1>1. CASE div_cnt = 0
    <2>1. EX # None /\ EX.i.op = "div" /\ EX.i.rd # 0 /\ div_adr' = EX.i.rd
      BY <1>1 DEF Divide, div_bsy
    <2>2. ID = None
      BY <2>1 DEF Control, HoldOff, TwoCycleOps
    <2>3. QED
      BY <2>1, <2>2, MovesOnly
  <1>2. CASE div_cnt # 0
    <2>1. div_adr' = div_adr /\ div_adr # 0
      BY <1>2 DEF Divide, Results, div_bsy
    <2>2. ASSUME EX' # None PROVE div_adr \notin Reads(EX'.i) \union Writes(EX'.i)
      <3>1. ID # None /\ EX'.i = ID.i /\ ~hw_stall
        BY <2>2, MovesOnly, MovedShape
      <3>2. QED
        BY <1>2, <3>1 DEF hw_stall, DivHazard, div_bsy
    <2>3. QED
      BY <2>1, <2>2
  <1>3. QED
    BY <1>1, <1>2

LEMMA CycleOrder ==
  ASSUME IInv, Order, NEW req \in BOOLEAN, NEW exe \in DbgInstrs \union {None},
         Cycle(req, exe)
  PROVE  Order'
  <1>1. TypeOK /\ Control /\ LinkIsNext
    BY DEF IInv, Control
  <1>2. Branches \/ Stalls \/ Jumps \/ Flows
    BY FlowOfCycle
  <1>3. Pcu(req) /\ WriteBack /\ Divide /\ PM' = PM
    BY DEF Cycle, CoreCycle
  <1>4. QED
    BY <1>1, <1>2, <1>3, FromProgramStep, DebuggerStep, HaltedStep, InOrderStep,
       OperandsStep, ResultsStep DEF Order

LEMMA OrderInvariant == Spec => [](IInv /\ Order)
  <1>1. Init => Order
    BY DEF Init, Order, FromProgram, Debugger, Halted, InOrder, Operands, Results, InProgram, div_bsy
  <1>2. IInv /\ Order /\ [Next]_vars => Order'
    <2> SUFFICES ASSUME IInv, Order, [Next]_vars PROVE Order'
      OBVIOUS
    <2>1. CASE Clock
      BY <2>1, CycleOrder DEF Clock
    <2>2. CASE \E a \in Addr, i \in PatchInstrs : PatchProgram(a, i)
      BY <2>2 DEF PatchProgram, Quiet, pcuVars, divVars, Order, FromProgram, Debugger, Halted,
           InOrder, Operands, Results, InProgram, div_bsy
    <2>3. CASE UNCHANGED vars
      BY <2>3 DEF vars, Order, FromProgram, Debugger, Halted, InOrder, Operands, Results,
           InProgram, div_bsy, JumpTo, CellOf, Reads, Writes
    <2>4. CASE Reset
      BY <2>4 DEF Reset, Order, FromProgram, Debugger, Halted, InOrder, Operands, Results,
           InProgram, div_bsy
    <2>5. QED
      BY <2>1, <2>2, <2>3, <2>4 DEF Next
  <1>3. QED
    BY <1>1, <1>2, InductiveInvariant, PTL DEF Spec
-----------------------------------------------------------------------------
\* The program counter of the instruction set. A debugger's jump moves it when
\* it goes to EX, an instruction of the program when it leaves EX.

LEMMA PcOfProgram ==
  ASSUME TypeOK, Order, Control, Branches \/ Stalls \/ Jumps \/ Flows, InProgram(EX)
  PROVE  AbsPc' = PcAfter(EX.i, EX.pc, X)
  <1>1. /\ EX # None /\ ~EX.ocd /\ EX.i \in Instr /\ InOrder /\ Operands
        /\ EX.i.op \in TwoCycleOps => ID = None
        /\ ID # None => ~ID.ocd
    BY DEF InProgram, TypeOK, ExSlot, Order, Control, HoldOff, Debugger
  <1>2. CASE Branches
    <2>1. AbsPc' = EX.tgt
      BY <1>2 DEF Branches, AbsPc, InProgram
    <2>2. Taken(EX.i, X) /\ EX.i.op = "br" /\ EX.tgt = BranchTo(EX.i, EX.pc)
      BY <1>1, <1>2 DEF Branches, br_EX, Taken, Operands
    <2>3. QED
      BY <2>1, <2>2 DEF PcAfter
  <1>3. CASE ID # None /\ ~Branches
    <2>1. ~br_EX /\ EX.i.op \notin {"jal", "jalr"} /\ ID.pc = Next1(EX.pc)
      BY <1>1, <1>3 DEF Stalls, Jumps, Flows, InOrder, InProgram, TwoCycleOps
    <2>2. AbsPc' = ID.pc
      BY <1>1, <1>3, MovedShape DEF Stalls, Jumps, Flows, AbsPc, InProgram
    <2>3. PcAfter(EX.i, EX.pc, X) = Next1(EX.pc)
      BY <1>1, <2>1 DEF PcAfter, br_EX
    <2>4. QED
      BY <2>1, <2>2, <2>3
  <1>4. CASE ID = None /\ ~Branches
    <2>1. Flows /\ EX' = None /\ ~br_EX
      BY <1>4 DEF Stalls, Jumps, Flows
    <2>2. AbsPc' = PC
      BY <1>1, <2>1, IssuedShape DEF Flows, Debugs, AbsPc, InProgram
    <2>3. PC = IF EX.i.op \in {"jal", "jalr"} THEN JumpTo(EX.i, EX.pc, X) ELSE Next1(EX.pc)
      BY <1>1, <1>4 DEF InOrder
    <2>4. QED
      BY <1>1, <2>1, <2>2, <2>3 DEF PcAfter, br_EX
  <1>5. QED
    BY <1>2, <1>3, <1>4

LEMMA PcOfOthers ==
  ASSUME TypeOK, Order, Control, Branches \/ Stalls \/ Jumps \/ Flows, ~InProgram(EX)
  PROVE  AbsPc' = IF Jumps /\ ID.ocd THEN JumpTo(ID.i, ID.pc, X) ELSE AbsPc
  <1>1. ~Branches
    BY DEF Branches
  <1>2. CASE InProgram(ID)
    <2>1. ID # None /\ ~ID.ocd
      BY <1>2 DEF InProgram
    <2>2. AbsPc = ID.pc
      BY <1>2 DEF AbsPc
    <2>3. AbsPc' = ID.pc
      BY <1>1, <2>1, MovedShape DEF Stalls, Jumps, Flows, AbsPc, InProgram
    <2>4. QED
      BY <2>1, <2>2, <2>3
  <1>3. CASE ~InProgram(ID)
    <2>1. AbsPc = PC
      BY <1>3 DEF AbsPc
    <2>2. EX' # None => EX'.ocd
      BY <1>3, MovesOnly, MovedShape DEF InProgram
    <2>3. CASE Stalls
      BY <1>3, <2>1, <2>2, <2>3 DEF Stalls, Jumps, AbsPc, InProgram
    <2>4. CASE Jumps
      BY <1>3, <2>1, <2>2, <2>4 DEF Jumps, AbsPc, InProgram
    <2>5. CASE Flows
      <3>1. ~Jumps
        BY <2>5 DEF Flows, Jumps
      <3>2. CASE Issues
        BY <2>1, <2>2, <3>1, <3>2, IssuedShape DEF AbsPc, InProgram
      <3>3. CASE Debugs
        BY <2>1, <2>2, <3>1, <3>3, DebuggerShape DEF Debugs, AbsPc, InProgram
      <3>4. CASE ID' = None /\ PC' = PC
        BY <2>1, <2>2, <3>1, <3>4 DEF AbsPc, InProgram
      <3>5. QED
        BY <2>5, <3>2, <3>3, <3>4 DEF Flows
    <2>6. QED
      BY <1>1, <2>3, <2>4, <2>5
  <1>4. QED
    BY <1>2, <1>3
-----------------------------------------------------------------------------
\* The registers of the instruction set: those of the core, with the quotient of
\* a division under way.

LEMMA AbsRegsAt ==
  ASSUME NEW r \in Reg
  PROVE  AbsRegs[r] = IF div_bsy /\ r = div_adr THEN div_val ELSE X[r]
  BY DEF AbsRegs

LEMMA AbsRegsType ==
  ASSUME TypeOK
  PROVE  AbsRegs \in [Reg -> Val]
  BY DEF AbsRegs, TypeOK

\* What the instruction in EX reads has its value in the core's registers.
LEMMA ReadsSettled ==
  ASSUME TypeOK, Results, EX # None, NEW r \in Reads(EX.i), r \in Reg
  PROVE  AbsRegs[r] = X[r]
  BY AbsRegsAt DEF Results

\* The register a division under way writes keeps its value through the cycle,
\* the one in which it is written included.
LEMMA DivisionSettled ==
  ASSUME TypeOK, PortExclusive, Results, WriteBack, Divide, div_bsy
  PROVE  AbsRegs'[div_adr] = div_val
  <1>1. div_adr \in Reg /\ div_adr' = div_adr /\ div_val' = div_val /\ div_cnt' = div_cnt - 1
    BY DEF TypeOK, Divide, div_bsy
  <1>2. AbsRegs'[div_adr] = IF div_cnt' # 0 THEN div_val ELSE X'[div_adr]
    BY <1>1 DEF AbsRegs, div_bsy
  <1>3. CASE div_cnt = 1
    <2>1. ~ExPort /\ x_w1_wad = {div_adr} /\ x_w1 = div_val
      BY <1>3 DEF PortExclusive, DivWrites, x_w1_wad, x_w1
    <2>2. X'[div_adr] = div_val
      BY <1>1, <2>1 DEF WriteBack
    <2>3. QED
      BY <1>2, <2>2
  <1>4. CASE div_cnt # 1
    BY <1>1, <1>2, <1>4 DEF TypeOK, div_bsy
  <1>5. QED
    BY <1>3, <1>4

\* Every other register is what the core has written, unless a division starts.
LEMMA OthersWritten ==
  ASSUME TypeOK, Results, WriteBack, Divide, NEW r \in Reg, ~(div_bsy /\ r = div_adr),
         ~(EX # None /\ EX.i.op = "div")
  PROVE  AbsRegs'[r] = X'[r] /\ AbsRegs[r] = X[r]
  <1>1. div_cnt' = (IF div_bsy THEN div_cnt - 1 ELSE 0) /\ div_adr' = div_adr
    BY DEF Divide
  <1>2. AbsRegs'[r] = IF div_cnt' # 0 /\ r = div_adr' THEN div_val' ELSE X'[r]
    BY DEF AbsRegs, div_bsy
  <1>3. QED
    BY <1>1, <1>2, AbsRegsAt

LEMMA RegsWithoutInstruction ==
  ASSUME TypeOK, PortExclusive, Results, WriteBack, Divide, EX = None
  PROVE  AbsRegs' = AbsRegs /\ DM' = DM
  <1>1. ASSUME NEW r \in Reg PROVE AbsRegs'[r] = AbsRegs[r]
    <2>1. CASE div_bsy /\ r = div_adr
      BY <2>1, DivisionSettled, AbsRegsAt
    <2>2. CASE ~(div_bsy /\ r = div_adr)
      <3>1. X'[r] = X[r]
        BY <2>2 DEF WriteBack, x_w1_wad, ExPort, DivWrites, div_bsy
      <3>2. QED
        BY <2>2, <3>1, OthersWritten
    <2>3. QED
      BY <2>1, <2>2
  <1>2. AbsRegs' = AbsRegs
    BY <1>1 DEF AbsRegs
  <1>3. QED
    BY <1>2 DEF WriteBack, Stored

\* The registers the instruction in EX reads, by class.
LEMMA SourcesSettled ==
  ASSUME TypeOK, Results, EX # None
  PROVE  /\ EX.i.op \notin {"jal", "mac", "swbrk"} => AbsRegs[EX.i.rs1] = X[EX.i.rs1]
         /\ EX.i.op \in {"alu", "br", "div", "st"} => AbsRegs[EX.i.rs2] = X[EX.i.rs2]
         /\ EX.i.op = "mac" => \A r \in MacReads : AbsRegs[r] = X[r]
  <1>1. EX.i.op \in Op /\ EX.i.rs1 \in Reg /\ EX.i.rs2 \in Reg /\ MacReads \subseteq Reg
    BY MacAssumption, SizeAssumption DEF TypeOK, ExSlot, Instr, Reg
  <1>2. QED
    BY <1>1, ReadsSettled DEF Reads, Op

LEMMA MemoryOfInstruction ==
  ASSUME TypeOK, Results, Operands, WriteBack, EX # None
  PROVE  DM' = MemAfter(EX.i, AbsRegs, DM)
  <1>1. EX.i.op = "st" => EX.cell = CellOf(EX.i, AbsRegs) /\ AbsRegs[EX.i.rs2] = X[EX.i.rs2]
    BY SourcesSettled DEF Operands, CellOf
  <1>2. QED
    BY <1>1 DEF WriteBack, Stored, MemAfter

\* The value EX puts on the write port.
LEMMA PortValueOfInstruction ==
  ASSUME TypeOK, Results, Operands, EX # None, EX.i.op \in PortOps,
         EX.i.op \in {"jal", "jalr"} => ~EX.ocd
  PROVE  x_w1 = PortValue(EX.i, EX.pc, AbsRegs, DM)
  <1>1. CASE EX.i.op = "alu"
    BY <1>1, SourcesSettled DEF x_w1, ExPort, PortValue
  <1>2. CASE EX.i.op = "ld"
    <2>1. EX.data = DM[CellOf(EX.i, AbsRegs)]
      BY <1>2, SourcesSettled DEF Operands, CellOf
    <2>2. QED
      BY <1>2, <2>1 DEF x_w1, ExPort, PortOps, PortValue
  <1>3. CASE EX.i.op \in {"jal", "jalr"}
    BY <1>3 DEF x_w1, ExPort, PortOps, PortValue, Operands
  <1>4. QED
    BY <1>1, <1>2, <1>3 DEF PortOps

LEMMA MacOfInstruction ==
  ASSUME TypeOK, Results, EX # None, EX.i.op = "mac", NEW r \in MacWrites
  PROVE  MacValue(r, X) = MacValue(r, AbsRegs)
  <1>1. \A q \in MacReads : AbsRegs[q] = X[q]
    BY SourcesSettled
  <1>2. Ones(AbsRegs) = Ones(X)
    BY <1>1 DEF Ones
  <1>3. AbsRegs[r] = X[r]
    BY <1>1, MacAssumption
  <1>4. QED
    BY <1>2, <1>3 DEF MacValue

\* What WriteBack does with an instruction in EX to a register that no division
\* under way writes.
LEMMA WrittenInEx ==
  ASSUME TypeOK, PortExclusive, WriteBack, EX # None, NEW r \in Reg, ~(div_bsy /\ r = div_adr)
  PROVE  X'[r] = IF EX.i.op \in PortOps /\ r = EX.i.rd /\ r # 0 THEN x_w1
                 ELSE IF EX.i.op = "mac" /\ r \in MacWrites THEN MacValue(r, X)
                 ELSE X[r]
  <1>1. r \in x_w1_wad <=> EX.i.op \in PortOps /\ r = EX.i.rd /\ r # 0
    BY DEF x_w1_wad, ExPort, DivWrites, div_bsy
  <1>2. QED
    BY <1>1 DEF WriteBack

LEMMA RegsOfInstruction ==
  ASSUME TypeOK, Control, Results, Operands, WriteBack, Divide, EX # None,
         EX.ocd => EX.i.rd = 0 \/ EX.i.op \notin {"jal", "jalr"}
  PROVE  AbsRegs' = RegsAfter(EX.i, EX.pc, AbsRegs, DM)
  <1>1. PortExclusive /\ DivNotLost
    BY DEF Control
  <1>2. EX.i.op \in Op /\ EX.i.rd \in Reg
    BY DEF TypeOK, ExSlot, Instr
  <1>3. ASSUME NEW r \in Reg
        PROVE  AbsRegs'[r] = RegsAfter(EX.i, EX.pc, AbsRegs, DM)[r]
    <2>1. CASE div_bsy /\ r = div_adr
      <3>1. r # 0 /\ r \notin Writes(EX.i) /\ EX.i.op # "div"
        BY <1>1, <2>1 DEF Results, DivNotLost
      <3>2. ~(EX.i.op \in PortOps /\ r = EX.i.rd) /\ ~(EX.i.op = "mac" /\ r \in MacWrites)
        BY <3>1 DEF Writes, PortOps
      <3>3. RegsAfter(EX.i, EX.pc, AbsRegs, DM)[r] = AbsRegs[r]
        BY <3>1, <3>2 DEF RegsAfter
      <3>4. QED
        BY <1>1, <2>1, <3>3, DivisionSettled, AbsRegsAt
    <2>2. CASE EX.i.op = "div"
      <3>1. div_cnt = 0
        BY <1>1, <2>2 DEF DivNotLost, div_bsy
      <3>2. X'[r] = X[r] /\ AbsRegs[r] = X[r]
        BY <1>1, <2>2, <3>1, WrittenInEx, AbsRegsAt DEF div_bsy, PortOps
      <3>3. RegsAfter(EX.i, EX.pc, AbsRegs, DM)[r] =
              IF r # 0 /\ r = EX.i.rd THEN Quotient(AbsRegs[EX.i.rs1], AbsRegs[EX.i.rs2])
              ELSE AbsRegs[r]
        BY <2>2 DEF RegsAfter, PortOps
      <3>4. AbsRegs'[r] = IF div_cnt' # 0 /\ r = div_adr' THEN div_val' ELSE X'[r]
        BY DEF AbsRegs, div_bsy
      <3>5. CASE EX.i.rd = 0
        <4>1. div_cnt' = 0
          BY <3>1, <3>5 DEF Divide, div_bsy
        <4>2. QED
          BY <3>2, <3>3, <3>4, <3>5, <4>1
      <3>6. CASE EX.i.rd # 0
        <4>1. /\ div_cnt' = DivCycles /\ DivCycles # 0 /\ div_adr' = EX.i.rd
              /\ div_val' = Quotient(X[EX.i.rs1], X[EX.i.rs2])
          BY <2>2, <3>1, <3>6, DivCyclesAssumption DEF Divide
        <4>2. AbsRegs[EX.i.rs1] = X[EX.i.rs1] /\ AbsRegs[EX.i.rs2] = X[EX.i.rs2]
          BY <2>2, SourcesSettled
        <4>3. QED
          BY <3>2, <3>3, <3>4, <3>6, <4>1, <4>2
      <3>7. QED
        BY <3>5, <3>6
    <2>3. CASE EX.i.op # "div" /\ ~(div_bsy /\ r = div_adr)
      <3>1. AbsRegs'[r] = X'[r] /\ AbsRegs[r] = X[r]
        BY <2>3, OthersWritten
      <3>2. CASE r = 0
        <4>1. ~(EX.i.op = "mac" /\ r \in MacWrites)
          BY <3>2, MacAssumption
        <4>2. X'[r] = X[r]
          BY <1>1, <2>3, <3>2, <4>1, WrittenInEx
        <4>3. QED
          BY <3>1, <3>2, <4>2 DEF RegsAfter
      <3>3. CASE r # 0 /\ EX.i.op \in PortOps /\ r = EX.i.rd
        <4>1. X'[r] = x_w1
          BY <1>1, <2>3, <3>3, WrittenInEx
        <4>2. x_w1 = PortValue(EX.i, EX.pc, AbsRegs, DM)
          BY <3>3, PortValueOfInstruction
        <4>3. RegsAfter(EX.i, EX.pc, AbsRegs, DM)[r] = PortValue(EX.i, EX.pc, AbsRegs, DM)
          BY <3>3 DEF RegsAfter
        <4>4. QED
          BY <3>1, <4>1, <4>2, <4>3
      <3>4. CASE r # 0 /\ ~(EX.i.op \in PortOps /\ r = EX.i.rd)
        <4>1. X'[r] = IF EX.i.op = "mac" /\ r \in MacWrites THEN MacValue(r, X) ELSE X[r]
          BY <1>1, <2>3, <3>4, WrittenInEx
        <4>2. RegsAfter(EX.i, EX.pc, AbsRegs, DM)[r] =
                IF EX.i.op = "mac" /\ r \in MacWrites THEN MacValue(r, AbsRegs) ELSE AbsRegs[r]
          BY <2>3, <3>4 DEF RegsAfter
        <4>3. QED
          BY <3>1, <4>1, <4>2, MacOfInstruction
      <3>5. QED
        BY <3>2, <3>3, <3>4
    <2>4. QED
      BY <2>1, <2>2, <2>3
  <1>4. AbsRegs' = [r \in Reg |-> AbsRegs'[r]]
    BY DEF AbsRegs
  <1>5. RegsAfter(EX.i, EX.pc, AbsRegs, DM)
          = [r \in Reg |-> RegsAfter(EX.i, EX.pc, AbsRegs, DM)[r]]
    BY DEF RegsAfter
  <1>6. QED
    BY <1>3, <1>4, <1>5
-----------------------------------------------------------------------------
\* Every step of the pipeline is one of the instruction set, or none.

LEMMA SameInstructions ==
  ASSUME NEW i, NEW a, NEW R, NEW D
  PROVE  /\ Abs!RegsAfter(i, a, R, D) = RegsAfter(i, a, R, D)
         /\ Abs!MemAfter(i, R, D) = MemAfter(i, R, D)
         /\ Abs!PcAfter(i, a, R) = PcAfter(i, a, R)
         /\ Abs!JumpTo(i, a, R) = JumpTo(i, a, R)
  <1>1. /\ Abs!CellOf(i, R) = CellOf(i, R) /\ Abs!JumpTo(i, a, R) = JumpTo(i, a, R)
        /\ Abs!BranchTo(i, a) = BranchTo(i, a) /\ Abs!Taken(i, R) = Taken(i, R)
        /\ Abs!Next1(a) = Next1(a) /\ Abs!PortOps = PortOps /\ Abs!Reg = Reg
    BY DEF Abs!CellOf, CellOf, Abs!JumpTo, JumpTo, Abs!BranchTo, BranchTo, Abs!Taken, Taken,
           Abs!Next1, Next1, Abs!PortOps, PortOps, Abs!Reg, Reg
  <1>2. \A r : Abs!MacValue(r, R) = MacValue(r, R)
    BY DEF Abs!MacValue, MacValue, Abs!Ones, Ones
  <1>3. Abs!PortValue(i, a, R, D) = PortValue(i, a, R, D)
    BY <1>1 DEF Abs!PortValue, PortValue
  <1>4. \A x, y : Abs!Quotient(x, y) = Quotient(x, y)
    BY DEF Abs!Quotient, Quotient
  <1>5. Abs!RegsAfter(i, a, R, D) = RegsAfter(i, a, R, D)
    BY <1>1, <1>2, <1>3, <1>4 DEF Abs!RegsAfter, RegsAfter
  <1>6. QED
    BY <1>1, <1>5 DEF Abs!MemAfter, MemAfter, Abs!PcAfter, PcAfter

\* What the program counter of the instruction set depends on is settled.
LEMMA PcSettled ==
  ASSUME TypeOK, Results, EX # None
  PROVE  PcAfter(EX.i, EX.pc, AbsRegs) = PcAfter(EX.i, EX.pc, X)
  <1>1. EX.i.op = "jalr" => AbsRegs[EX.i.rs1] = X[EX.i.rs1]
    BY SourcesSettled, ReadsSettled DEF Reads, TypeOK, ExSlot, Instr
  <1>2. EX.i.op = "br" => AbsRegs[EX.i.rs1] = X[EX.i.rs1] /\ AbsRegs[EX.i.rs2] = X[EX.i.rs2]
    BY SourcesSettled
  <1>3. QED
    BY <1>1, <1>2 DEF PcAfter, JumpTo, Taken

\* A debugger's jump changes no register and no memory.
LEMMA JumpChangesNothing ==
  ASSUME TypeOK, NEW i \in DbgInstrs, i.op = "jalr", NEW a
  PROVE  RegsAfter(i, a, AbsRegs, DM) = AbsRegs /\ MemAfter(i, AbsRegs, DM) = DM
  <1>1. i.rd = 0
    BY InstrAssumption
  <1>2. ASSUME NEW r \in Reg PROVE RegsAfter(i, a, AbsRegs, DM)[r] = AbsRegs[r]
    BY <1>1 DEF RegsAfter
  <1>3. RegsAfter(i, a, AbsRegs, DM) = [r \in Reg |-> RegsAfter(i, a, AbsRegs, DM)[r]]
    BY DEF RegsAfter
  <1>4. AbsRegs = [r \in Reg |-> AbsRegs[r]]
    BY DEF AbsRegs
  <1>5. QED
    BY <1>2, <1>3, <1>4 DEF MemAfter

LEMMA CycleImplements ==
  ASSUME IInv, Order, NEW req \in BOOLEAN, NEW exe \in DbgInstrs \union {None},
         Cycle(req, exe)
  PROVE  [Abs!Next]_Abs!vars
  <1>1. TypeOK /\ Control /\ PortExclusive /\ Debugger /\ Results /\ Operands /\ FromProgram
    BY DEF IInv, Control, Order
  <1>2. Branches \/ Stalls \/ Jumps \/ Flows
    BY FlowOfCycle
  <1>3. WriteBack /\ Divide /\ PM' = PM
    BY DEF Cycle, CoreCycle
  <1>4. CASE InProgram(EX)
    <2>1. EX # None /\ ~EX.ocd /\ EX.i = PM[EX.pc] /\ AbsPc = EX.pc
      BY <1>1, <1>4 DEF InProgram, FromProgram, AbsPc
    <2>2. AbsPc' = PcAfter(EX.i, EX.pc, AbsRegs)
      BY <1>1, <1>2, <1>4, <2>1, PcOfProgram, PcSettled
    <2>3. AbsRegs' = RegsAfter(EX.i, EX.pc, AbsRegs, DM)
      BY <1>1, <1>3, <2>1, RegsOfInstruction
    <2>4. DM' = MemAfter(EX.i, AbsRegs, DM)
      BY <1>1, <1>3, <2>1, MemoryOfInstruction
    <2>5. Abs!Execute
      BY <1>3, <2>1, <2>2, <2>3, <2>4, SameInstructions DEF Abs!Execute
    <2>6. QED
      BY <2>5 DEF Abs!Next
  <1>5. CASE EX # None /\ EX.ocd
    <2>1. EX.i \in DbgInstrs /\ ~InProgram(EX) /\ ~(Jumps /\ ID.ocd)
      BY <1>1, <1>5 DEF Debugger, InProgram, Jumps
    <2>2. AbsPc' = AbsPc
      BY <1>1, <1>2, <2>1, PcOfOthers
    <2>3. AbsRegs' = RegsAfter(EX.i, EX.pc, AbsRegs, DM)
      BY <1>1, <1>3, <1>5, <2>1, InstrAssumption, RegsOfInstruction
    <2>4. DM' = MemAfter(EX.i, AbsRegs, DM)
      BY <1>1, <1>3, <1>5, MemoryOfInstruction
    <2>5. CASE EX.i.op = "alu"
      <3>1. RegsAfter(EX.i, EX.pc, AbsRegs, DM) = RegsAfter(EX.i, AbsPc, AbsRegs, DM)
        BY <2>5 DEF RegsAfter, PortValue
      <3>2. Abs!DebugExecute(EX.i)
        BY <1>3, <2>2, <2>3, <2>4, <2>5, <3>1, SameInstructions DEF Abs!DebugExecute
      <3>3. QED
        BY <2>1, <3>2 DEF Abs!Next
    <2>6. CASE EX.i.op = "jalr"
      BY <1>1, <1>3, <2>1, <2>2, <2>3, <2>4, <2>6, JumpChangesNothing DEF Abs!vars
    <2>7. QED
      BY <2>1, <2>5, <2>6, InstrAssumption
  <1>6. CASE EX = None
    <2>1. AbsRegs' = AbsRegs /\ DM' = DM /\ ~InProgram(EX)
      BY <1>1, <1>3, <1>6, RegsWithoutInstruction DEF InProgram
    <2>2. CASE Jumps /\ ID.ocd
      <3>1. ID.i \in DbgInstrs /\ ID.i.op = "jalr" /\ ID # None /\ ~hw_stall
        BY <1>1, <2>2, InstrAssumption DEF Debugger, Jumps
      <3>2. AbsRegs[ID.i.rs1] = X[ID.i.rs1]
        <4>1. ID.i.rs1 \in Reg /\ ID.i.rs1 \in Reads(ID.i)
          BY <1>1, <3>1, IdShape DEF Instr, Reads
        <4>2. QED
          BY <3>1, <4>1, AbsRegsAt DEF hw_stall, DivHazard
      <3>3. AbsPc' = JumpTo(ID.i, AbsPc, AbsRegs)
        BY <1>1, <1>2, <2>1, <2>2, <3>1, <3>2, PcOfOthers DEF JumpTo
      <3>4. Abs!DebugExecute(ID.i)
        BY <1>1, <1>3, <2>1, <3>1, <3>3, SameInstructions, JumpChangesNothing
           DEF Abs!DebugExecute
      <3>5. QED
        BY <3>1, <3>4 DEF Abs!Next
    <2>3. CASE ~(Jumps /\ ID.ocd)
      BY <1>1, <1>2, <1>3, <2>1, <2>3, PcOfOthers DEF Abs!vars
    <2>4. QED
      BY <2>2, <2>3
  <1>7. QED
    BY <1>4, <1>5, <1>6 DEF InProgram

LEMMA PatchImplements ==
  ASSUME NEW a \in Addr, NEW i \in PatchInstrs, PatchProgram(a, i)
  PROVE  Abs!Next
  <1>1. Abs!DebugPatch(a, i)
    BY DEF PatchProgram, pcuVars, divVars, Abs!DebugPatch, AbsPc, AbsRegs, InProgram, div_bsy
  <1>2. QED
    BY <1>1 DEF Abs!Next, Abs!Addr, Addr

LEMMA ResetImplements ==
  ASSUME Reset
  PROVE  Abs!Next
  <1>1. AbsPc' = 0 /\ AbsRegs' = [r \in Reg |-> 0]
    BY DEF Reset, AbsPc, AbsRegs, InProgram, div_bsy
  <1>2. Abs!Reset
    BY <1>1 DEF Reset, Abs!Reset, Abs!Reg, Reg, Abs!Cell, Cell, Abs!Val, Val
  <1>3. QED
    BY <1>2 DEF Abs!Next

\* Whatever is in the pipeline, and whatever the debugger does: the program, its
\* registers and its memory go through what the instruction set says, one
\* instruction after the other (pcu.p, the hw_stall rules, div.p).
THEOREM Implements == Spec => ImplementsIsa
  <1>1. Init => Abs!Init
    <2> SUFFICES ASSUME Init PROVE Abs!Init
      OBVIOUS
    <2>1. AbsPc = 0 /\ AbsRegs = [r \in Reg |-> 0]
      BY DEF Init, AbsPc, AbsRegs, InProgram, div_bsy
    <2>2. QED
      BY <2>1 DEF Init, Abs!Init, Abs!Reg, Reg, Abs!Cell, Cell, Abs!Val, Val, Abs!Addr, Addr
  <1>2. IInv /\ Order /\ [Next]_vars => [Abs!Next]_Abs!vars
    <2> SUFFICES ASSUME IInv, Order, [Next]_vars PROVE [Abs!Next]_Abs!vars
      OBVIOUS
    <2>1. CASE Clock
      BY <2>1, CycleImplements DEF Clock
    <2>2. CASE \E a \in Addr, i \in PatchInstrs : PatchProgram(a, i)
      BY <2>2, PatchImplements
    <2>3. CASE UNCHANGED vars
      BY <2>3 DEF vars, Abs!vars, AbsPc, AbsRegs, InProgram, div_bsy
    <2>4. CASE Reset
      BY <2>4, ResetImplements
    <2>5. QED
      BY <2>1, <2>2, <2>3, <2>4 DEF Next
  <1>3. QED
    BY <1>1, <1>2, OrderInvariant, PTL DEF Spec, ImplementsIsa, Abs!Spec

(***************************************************************************)
(* The debug controller on the pipeline.                                   *)
(***************************************************************************)

Leaving == r_state \in {"LEAVE0", "LEAVE1", "LEAVE2"}

\* A resume or a step in progress: the pipeline is empty and the core has not
\* issued yet. After it the core has; a core that was stepped is to halt again.
InProgress ==
  /\ Quiet
  /\ dbg_instr_exec
  /\ jtag_ir \in {"RESUME", "STEP"}
  /\ released = 0
  /\ jtag_ir = "STEP" => reg_dbg_mode
  /\ r_state = "LEAVE2" => r_fetched

Afterwards ==
  /\ jtag_ir = "STEP" => released = 1 /\ reg_dbg_mode
  /\ jtag_ir = "RESUME" => released >= 1

\* The core in the cycle of its reset.
Cleared == r_state = "NORMAL" /\ ~r_fetched /\ Quiet

DbgInv ==
  /\ r_state \in {"NORMAL", "DEBUG", "LEAVE0", "LEAVE1", "LEAVE2"}
  /\ bp_enable \subseteq Bps
  /\ released \in 0 .. 2
  /\ HaltReported
  /\ dbg_instr_exec => Leaving
  /\ Leaving => InProgress
  /\ ~Leaving => Afterwards
  /\ reset_instr => Cleared

Cmd == Command \union {None}

\* What a command is when the core is not halted, and when a release is under way.
LEMMA Waiting ==
  ASSUME DbgInv, NEW cmd, DebuggerWaits(cmd)
  PROVE  /\ Leaving => cmd = None
         /\ r_state # "DEBUG" => /\ ~Executes(cmd, "RESUME")
                                 /\ ~Executes(cmd, "STEP")
                                 /\ ~Executes(cmd, "EXECUTE")
         /\ Executes(cmd, "RESUME") \/ Executes(cmd, "STEP") \/ Executes(cmd, "EXECUTE") => Quiet
         /\ ~Leaving => ~Follows(cmd, "RESUME") /\ ~Follows(cmd, "STEP")
         /\ reset_instr => cmd = None
  BY DEF DbgInv, InProgress, Leaving, DebuggerWaits, Executes, Follows

\* The core leaves debug mode for a resume or a step only.
LEMMA ReleaseIsCommanded ==
  ASSUME DbgInv, NEW cmd, NEW ext_break, DebuggerWaits(cmd), r_state = "DEBUG",
         ~ocd_req(cmd, ext_break)
  PROVE  Executes(cmd, "RESUME") \/ Executes(cmd, "STEP")
  <1>1. reg_dbg_mode /\ ~Leaving
    BY DEF DbgInv, HaltReported, Leaving
  <1>2. QED
    BY <1>1, Waiting DEF ocd_req, core_step

\* The core steps as its pipeline does, unless it is being reset.
LEMMA OrdinaryCycle ==
  ASSUME NEW cmd, NEW ext_break, DbgCycle(cmd, ext_break), ~Resets(cmd), ~reset_instr
  PROVE  CoreCycle(ocd_req(cmd, ext_break), ocd_exe(cmd)) /\ ~reset_instr'
  BY DEF DbgCycle, CoreStep, Delay

\* The step of the core that the debug controller drives is one of Pipeline.
LEMMA DrivesCycle ==
  ASSUME DbgInv, NEW cmd \in Cmd, NEW ext_break \in BOOLEAN, DbgCycle(cmd, ext_break),
         ~Resets(cmd), ~reset_instr
  PROVE  Clock
  <1> DEFINE req == ocd_req(cmd, ext_break)
             exe == ocd_exe(cmd)
  <1>1. req \in BOOLEAN
    BY DEF ocd_req
  <1>2. exe \in DbgInstrs \union {None}
    BY DEF ocd_exe, Executes, Cmd, Command
  <1>3. exe # None => r_state = "DEBUG" /\ req /\ Quiet
    <2> SUFFICES ASSUME exe # None PROVE r_state = "DEBUG" /\ req /\ Quiet
      OBVIOUS
    <2>1. Executes(cmd, "EXECUTE")
      BY DEF ocd_exe
    <2>2. r_state = "DEBUG" /\ Quiet
      BY <2>1, Waiting DEF DbgCycle
    <2>3. ~Executes(cmd, "RESUME") /\ ~Executes(cmd, "STEP")
      BY <2>1 DEF Executes
    <2>4. QED
      BY <2>2, <2>3, ReleaseIsCommanded DEF DbgCycle
  <1>4. r_state = "DEBUG" /\ ~req => ~(ID # None /\ ID.i.op = "jalr")
    BY ReleaseIsCommanded, Waiting DEF DbgCycle, Quiet
  <1>5. r_state = "NORMAL" /\ EX # None /\ EX.i.op = "swbrk" => req
    <2> SUFFICES ASSUME r_state = "NORMAL", EX # None, EX.i.op = "swbrk" PROVE req
      OBVIOUS
    <2>1. ~Executes(cmd, "RESUME") /\ ~Executes(cmd, "STEP") /\ ~Follows(cmd, "STEP")
      BY Waiting DEF DbgCycle, Leaving
    <2>2. set_dbg_mode(cmd, ext_break)
      BY <2>1 DEF set_dbg_mode, ocd_swbreak
    <2>3. QED
      BY <2>1, <2>2 DEF ocd_req, core_step
  <1>6. DebuggerPaced(req, exe)
    BY <1>3, <1>4, <1>5 DEF DebuggerPaced
  <1>7. Cycle(req, exe)
    BY <1>6, OrdinaryCycle DEF Cycle
  <1>8. QED
    BY <1>1, <1>2, <1>7 DEF Clock

\* What a cycle does to a core that is at rest and not being released to issue.
LEMMA QuietStays ==
  ASSUME NEW req, Quiet, Issue(req, None), Advance, ~issue_ins(req)
  PROVE  Quiet'
  BY DEF Quiet, Issue, Advance, hw_stall

LEMMA LeavingStep ==
  ASSUME DbgInv, NEW cmd \in Cmd, NEW ext_break \in BOOLEAN, DbgCycle(cmd, ext_break),
         ~Resets(cmd), ~reset_instr, Leaving
  PROVE  DbgInv'
  <1> DEFINE req == ocd_req(cmd, ext_break)
  <1>0. CoreCycle(req, ocd_exe(cmd)) /\ ~reset_instr'
    BY OrdinaryCycle
  <1>1. cmd = None /\ InProgress
    BY Waiting DEF DbgCycle, DbgInv
  <1>2. ocd_exe(cmd) = None /\ jtag_ir' = jtag_ir /\ bp_enable' = bp_enable
    BY <1>1 DEF ocd_exe, Executes, DbgCycle, Breakpoints
  <1>3. reg_dbg_mode => reg_dbg_mode'
    BY <1>1 DEF DbgCycle, Status, set_dbg_mode, Executes
  <1>4. Pcu(req) /\ Issue(req, None) /\ Advance
    BY <1>0, <1>2 DEF CoreCycle
  <1>5. CASE r_state \in {"LEAVE0", "LEAVE1"}
    <2>1. ~issue_ins(req)
      BY <1>5 DEF issue_ins, stop_issue
    <2>2. Quiet'
      BY <1>1, <1>4, <2>1, QuietStays DEF InProgress
    <2>3. dbg_instr_exec' /\ released' = 0
      BY <1>1, <1>5, <2>1 DEF InProgress, DbgCycle, Delay, Count, ocd_mode, Executes
    <2>4. r_state' \in {"LEAVE1", "LEAVE2"} /\ r_fetched'
      BY <1>4, <1>5 DEF Pcu, NextState
    <2>5. InProgress'
      BY <1>1, <1>2, <1>3, <2>2, <2>3, <2>4 DEF InProgress
    <2>6. QED
      BY <1>0, <1>2, <2>3, <2>4, <2>5 DEF DbgInv, Leaving, HaltReported
  <1>6. CASE r_state = "LEAVE2"
    <2>1. issue_ins(req)
      BY <1>1, <1>6 DEF InProgress, Quiet, issue_ins, interruptible, issue_sig, hw_stall,
                        br_EX, stop_issue
    <2>2. ~dbg_instr_exec' /\ released' = 1
      BY <1>1, <1>6, <2>1 DEF InProgress, DbgCycle, Delay, Count, ocd_mode, Executes
    <2>3. r_state' = "NORMAL"
      BY <1>4, <1>6 DEF Pcu, NextState
    <2>4. Afterwards'
      BY <1>1, <1>2, <1>3, <2>2 DEF InProgress, Afterwards
    <2>5. QED
      BY <1>0, <1>2, <2>2, <2>3, <2>4 DEF DbgInv, Leaving, HaltReported
  <1>7. QED
    BY <1>5, <1>6 DEF Leaving

LEMMA NormalStep ==
  ASSUME DbgInv, NEW cmd \in Cmd, NEW ext_break \in BOOLEAN, DbgCycle(cmd, ext_break),
         ~Resets(cmd), ~reset_instr,
         r_state = "NORMAL"
  PROVE  DbgInv'
  <1> DEFINE req == ocd_req(cmd, ext_break)
  <1>0. CoreCycle(req, ocd_exe(cmd)) /\ ~reset_instr'
    BY OrdinaryCycle
  <1>1. /\ ~Executes(cmd, "RESUME") /\ ~Executes(cmd, "STEP")
        /\ ~Follows(cmd, "RESUME") /\ ~Follows(cmd, "STEP")
    BY Waiting DEF DbgCycle, Leaving
  <1>2. ~dbg_instr_exec /\ ~dbg_instr_exec' /\ Afterwards
    BY <1>1 DEF DbgInv, Leaving, DbgCycle, Delay, ocd_mode
  <1>3. reg_dbg_mode' = (req \/ reg_dbg_mode) /\ (reg_dbg_mode => req)
    BY <1>1 DEF DbgCycle, Status, ocd_req, core_step, set_dbg_mode
  <1>4. r_state' = "NORMAL" \/ (r_state' = "DEBUG" /\ req)
    BY <1>0 DEF CoreCycle, Pcu, NextState
  <1>5. bp_enable' \subseteq Bps
    BY DEF DbgInv, DbgCycle, Breakpoints, Cmd, Command, Executes
  <1>6. released' \in 0 .. 2 /\ (released >= 1 => released' >= 1)
    BY <1>1 DEF DbgInv, DbgCycle, Count
  <1>7. jtag_ir' \in {"STEP", "RESUME"} => jtag_ir' = jtag_ir
    BY <1>1 DEF DbgCycle, Executes
  <1>8. jtag_ir' = "STEP" => released' = 1 /\ reg_dbg_mode'
    <2> SUFFICES ASSUME jtag_ir' = "STEP" PROVE released' = 1 /\ reg_dbg_mode'
      OBVIOUS
    <2>1. released = 1 /\ req /\ reg_dbg_mode'
      BY <1>2, <1>3, <1>7 DEF Afterwards
    <2>2. ~issue_ins(req)
      BY <2>1 DEF issue_ins, stop_issue
    <2>3. QED
      BY <1>1, <2>1, <2>2 DEF DbgCycle, Count
  <1>9. Afterwards'
    BY <1>2, <1>6, <1>7, <1>8 DEF Afterwards
  <1>10. QED
    BY <1>0, <1>2, <1>3, <1>4, <1>5, <1>6, <1>9 DEF DbgInv, HaltReported, Leaving

LEMMA DebugStep ==
  ASSUME DbgInv, NEW cmd \in Cmd, NEW ext_break \in BOOLEAN, DbgCycle(cmd, ext_break),
         ~Resets(cmd), ~reset_instr,
         r_state = "DEBUG"
  PROVE  DbgInv'
  <1> DEFINE req == ocd_req(cmd, ext_break)
             release == Executes(cmd, "RESUME") \/ Executes(cmd, "STEP")
  <1>0. CoreCycle(req, ocd_exe(cmd)) /\ ~reset_instr'
    BY OrdinaryCycle
  <1>1. reg_dbg_mode /\ ~dbg_instr_exec /\ Afterwards /\ ~issue_ins(req)
    BY DEF DbgInv, HaltReported, Leaving, issue_ins, stop_issue
  <1>2. req = ~release
    <2>1. ~release => req
      BY ReleaseIsCommanded DEF DbgCycle
    <2>2. release => ~req
      BY DEF ocd_req, core_step
    <2>3. req \in BOOLEAN
      BY DEF ocd_req
    <2>4. QED
      BY <2>1, <2>2, <2>3
  <1>3. bp_enable' \subseteq Bps
    BY DEF DbgInv, DbgCycle, Breakpoints, Cmd, Command, Executes
  <1>4. CASE release
    <2>1. Quiet /\ ocd_exe(cmd) = None
      BY <1>4, Waiting DEF DbgCycle, ocd_exe, Executes
    <2>2. Quiet'
      BY <1>0, <1>1, <2>1, QuietStays DEF CoreCycle
    <2>3. r_state' = "LEAVE0"
      BY <1>0, <1>2, <1>4 DEF CoreCycle, Pcu, NextState
    <2>4. dbg_instr_exec' /\ released' = 0 /\ jtag_ir' \in {"RESUME", "STEP"}
      BY <1>4 DEF DbgCycle, Delay, Count, ocd_mode, Executes
    <2>5. jtag_ir' = "STEP" => reg_dbg_mode'
      BY <1>1, <1>4 DEF DbgCycle, Status, set_dbg_mode, Executes
    <2>6. QED
      BY <1>0, <1>3, <2>2, <2>3, <2>4, <2>5 DEF DbgInv, InProgress, Leaving, HaltReported
  <1>5. CASE ~release
    <2>1. r_state' = "DEBUG"
      BY <1>0, <1>2, <1>5 DEF CoreCycle, Pcu, NextState
    <2>2. ~dbg_instr_exec' /\ released' = released
      BY <1>1, <1>5 DEF DbgCycle, Delay, Count, ocd_mode
    <2>3. reg_dbg_mode'
      BY <1>1, <1>5 DEF DbgCycle, Status, set_dbg_mode
    <2>4. jtag_ir' \in {"STEP", "RESUME"} => jtag_ir' = jtag_ir
      BY <1>5 DEF DbgCycle, Executes
    <2>5. Afterwards'
      BY <1>1, <2>2, <2>3, <2>4 DEF Afterwards
    <2>6. QED
      BY <1>0, <1>3, <2>1, <2>2, <2>3, <2>5 DEF DbgInv, Leaving, HaltReported
  <1>6. QED
    BY <1>4, <1>5

LEMMA DbgInvInit == DbgInit => DbgInv
  BY DEF DbgInit, Init, DbgInv, Cleared, HaltReported, Leaving, Afterwards

\* A reset comes to a core that is not being released, and leaves it running.
LEMMA ResetStep ==
  ASSUME DbgInv, NEW cmd \in Cmd, NEW ext_break \in BOOLEAN, DbgCycle(cmd, ext_break),
         Resets(cmd)
  PROVE  DbgInv'
  <1>1. cmd # None /\ ~Executes(cmd, "RESUME") /\ ~Executes(cmd, "STEP")
    BY DEF Resets, Executes
  <1>2. ~Leaving /\ ~reset_instr /\ ~dbg_instr_exec
    BY <1>1, Waiting DEF DbgCycle, DbgInv
  <1>3. Reset
    BY <1>2 DEF DbgCycle, CoreStep
  <1>4. r_state' = "NORMAL" /\ Cleared'
    BY <1>3 DEF Reset, Cleared, Quiet
  <1>5. ~dbg_instr_exec' /\ released' = released
    BY <1>1, <1>2 DEF DbgCycle, Delay, Count, Resets
  <1>6. jtag_ir' \notin {"RESUME", "STEP"}
    BY <1>1 DEF DbgCycle, Resets, Executes
  <1>7. bp_enable' \subseteq Bps
    BY DEF DbgInv, DbgCycle, Breakpoints, Cmd, Command, Executes
  <1>8. QED
    BY <1>4, <1>5, <1>6, <1>7 DEF DbgInv, HaltReported, Leaving, Afterwards

\* The core stands still in the cycle of its reset.
LEMMA HeldStep ==
  ASSUME DbgInv, NEW cmd \in Cmd, NEW ext_break \in BOOLEAN, DbgCycle(cmd, ext_break),
         reset_instr
  PROVE  DbgInv'
  <1>1. cmd = None
    BY Waiting DEF DbgCycle
  <1>2. UNCHANGED vars /\ jtag_ir' = jtag_ir /\ bp_enable' = bp_enable
    BY <1>1 DEF DbgCycle, CoreStep, Resets, Executes, Breakpoints
  <1>3. Cleared /\ ~Leaving /\ Afterwards
    BY DEF DbgInv, Cleared, Leaving
  <1>4. released' = released
    BY <1>1, <1>3 DEF DbgCycle, Count, Executes, issue_ins, Cleared
  <1>5. ~dbg_instr_exec' /\ (reg_dbg_mode => reg_dbg_mode')
    BY <1>1, <1>3 DEF DbgCycle, Delay, Status, set_dbg_mode, ocd_mode, Executes, Cleared
  <1>6. Cleared' /\ r_state' = "NORMAL"
    BY <1>2, <1>3 DEF vars, Cleared, Quiet
  <1>7. QED
    BY <1>2, <1>3, <1>4, <1>5, <1>6 DEF DbgInv, HaltReported, Leaving, Afterwards

LEMMA PatchStep ==
  ASSUME DbgInv, DbgPatch
  PROVE  DbgInv'
  BY DEF DbgPatch, PatchProgram, pcuVars, dbgVars, DbgInv, Cleared, HaltReported, Leaving, InProgress,
         Afterwards, Quiet

LEMMA CommandedCycle ==
  ASSUME DbgNext, ~DbgPatch
  PROVE  \E cmd \in Cmd, ext_break \in BOOLEAN : DbgCycle(cmd, ext_break)
  BY DEF DbgNext, Tick, DbgCommand, Cmd

\* An instruction of the program gets to ID in a cycle of the PCU's only.
LEMMA IssuedByPcu ==
  ASSUME DbgInv, NEW cmd \in Cmd, NEW ext_break \in BOOLEAN, DbgCycle(cmd, ext_break), IssueStep
  PROVE  issue_ins(ocd_req(cmd, ext_break)) /\ ID'.pc = PC /\ ~Resets(cmd) /\ ~reset_instr
  <1>1. ~Resets(cmd)
    <2> SUFFICES ASSUME Resets(cmd) PROVE FALSE
      OBVIOUS
    <2>1. cmd # None
      BY DEF Resets, Executes
    <2>2. ID' = None
      BY <2>1, Waiting DEF DbgCycle, CoreStep, Reset
    <2>3. QED
      BY <2>2 DEF IssueStep, InProgram
  <1>2. ~reset_instr
    <2> SUFFICES ASSUME reset_instr PROVE FALSE
      OBVIOUS
    <2>1. ID' = None
      BY <1>1 DEF DbgCycle, CoreStep, vars, DbgInv, Cleared, Quiet
    <2>2. QED
      BY <2>1 DEF IssueStep, InProgram
  <1>3. Issue(ocd_req(cmd, ext_break), ocd_exe(cmd))
    BY <1>1, <1>2, OrdinaryCycle DEF CoreCycle
  <1>4. QED
    BY <1>1, <1>2, <1>3 DEF Issue, IssueStep, InProgram

LEMMA DbgInvariant == DbgSpec => []DbgInv
  <1>1. DbgInv /\ [DbgNext]_allVars => DbgInv'
    <2> SUFFICES ASSUME DbgInv, [DbgNext]_allVars PROVE DbgInv'
      OBVIOUS
    <2>1. CASE DbgPatch
      BY <2>1, PatchStep
    <2>2. CASE DbgNext /\ ~DbgPatch
      <3>1. PICK cmd \in Cmd, ext_break \in BOOLEAN : DbgCycle(cmd, ext_break)
        BY <2>2, CommandedCycle
      <3>2. r_state \in {"NORMAL", "DEBUG"} \/ Leaving
        BY DEF DbgInv, Leaving
      <3>3. QED
        BY <3>1, <3>2, NormalStep, DebugStep, LeavingStep, ResetStep, HeldStep
    <2>3. CASE UNCHANGED allVars
      BY <2>3 DEF allVars, vars, dbgVars, DbgInv, Cleared, HaltReported, Leaving, InProgress, Afterwards,
                  Quiet
    <2>4. QED
      BY <2>1, <2>2, <2>3
  <1>2. QED
    BY DbgInvInit, <1>1, PTL DEF DbgSpec

-----------------------------------------------------------------------------
\* The status register reports every halt (debug_controller.v, status_register).
THEOREM HaltsAreReported == DbgSpec => []HaltReported
  BY DbgInvariant, PTL DEF DbgInv

\* A step issues exactly one instruction and a resume at least one before the
\* core halts again (debug_controller.v, core_step and core_resume).
THEOREM StepIssuesOne == DbgSpec => []ReleasedCount
  <1>1. DbgInv => ReleasedCount
    BY DEF DbgInv, Leaving, Afterwards, ReleasedCount
  <1>2. QED
    BY <1>1, DbgInvariant, PTL

\* The debug controller and the pipeline together implement Pipeline: what was
\* assumed of the debug request there holds (debug_controller.v, ocd_req_out).
THEOREM ImplementsPipeline == DbgSpec => DrivesPipeline
  <1>1. DbgInit => Init
    BY DEF DbgInit
  <1>2. DbgInv /\ [DbgNext]_allVars => [Next]_vars
    <2> SUFFICES ASSUME DbgInv, [DbgNext]_allVars PROVE Next \/ UNCHANGED vars
      OBVIOUS
    <2>1. CASE DbgPatch
      BY <2>1 DEF DbgPatch, Next
    <2>2. CASE DbgNext /\ ~DbgPatch
      <3>1. PICK cmd \in Cmd, ext_break \in BOOLEAN : DbgCycle(cmd, ext_break)
        BY <2>2, CommandedCycle
      <3>2. CASE ~Resets(cmd) /\ ~reset_instr
        BY <3>1, <3>2, DrivesCycle DEF Next
      <3>3. CASE Resets(cmd) \/ reset_instr
        BY <3>1, <3>3 DEF DbgCycle, CoreStep, Next
      <3>4. QED
        BY <3>2, <3>3
    <2>3. CASE UNCHANGED allVars
      BY <2>3 DEF allVars
    <2>4. QED
      BY <2>1, <2>2, <2>3
  <1>3. QED
    BY <1>1, <1>2, DbgInvariant, PTL DEF DbgSpec, DrivesPipeline, Spec

\* No instruction at an enabled breakpoint is issued but the first of a release
\* (debug_controller.v, check_breakpoint_hit).
THEOREM BreakpointsStop == DbgSpec => BreakpointStops
  <1> DEFINE Stops == IssueStep /\ (\E b \in bp_enable : dbg_bp[b] = ID'.pc)
                        => released = 0 /\ released' = 1
  <1>1. DbgInv /\ [DbgNext]_allVars => [Stops]_allVars
    <2> SUFFICES ASSUME DbgInv, DbgNext, IssueStep, NEW b \in bp_enable, dbg_bp[b] = ID'.pc
                 PROVE  released = 0 /\ released' = 1
      OBVIOUS
    <2>1. ~DbgPatch
      BY DEF DbgPatch, PatchProgram, Quiet, IssueStep, InProgram
    <2>2. PICK cmd \in Cmd, ext_break \in BOOLEAN : DbgCycle(cmd, ext_break)
      BY <2>1, CommandedCycle
    <2> DEFINE req == ocd_req(cmd, ext_break)
    <2>3. issue_ins(req) /\ ID'.pc = PC
      BY <2>2, IssuedByPcu
    <2>4. r_state = "LEAVE2" \/ (r_state = "NORMAL" /\ ~req)
      BY <2>3 DEF issue_ins, stop_issue, DbgInv
    <2>5. CASE r_state = "NORMAL" /\ ~req
      <3>1. /\ ~Executes(cmd, "RESUME") /\ ~Executes(cmd, "STEP")
            /\ ~Follows(cmd, "RESUME") /\ ~Follows(cmd, "STEP")
        BY <2>2, <2>5, Waiting DEF DbgCycle, Leaving
      <3>2. b \in hits
        BY <2>3 DEF hits, DbgInv
      <3>3. new_bp_hit(cmd)
        BY <3>1, <3>2 DEF new_bp_hit, core_resume, core_step
      <3>4. req
        BY <3>1, <3>3 DEF ocd_req, set_dbg_mode, core_step
      <3>5. QED
        BY <2>5, <3>4
    <2>6. CASE r_state = "LEAVE2"
      <3>1. InProgress /\ cmd = None
        BY <2>2, <2>6, Waiting DEF DbgInv, Leaving, DbgCycle
      <3>2. QED
        BY <2>2, <2>3, <3>1 DEF InProgress, DbgCycle, Count, Executes, Resets
    <2>7. QED
      BY <2>4, <2>5, <2>6
  <1>2. QED
    BY <1>1, DbgInvariant, PTL DEF DbgSpec, BreakpointStops

\* A core that was asked to halt issues nothing more, resets included, until it is
\* resumed or stepped (debug_controller.v, ocd_req_out and set_dbg_mode).
THEOREM HaltsStay == DbgSpec => HaltStays
  <1> DEFINE Stays == reg_dbg_mode => /\ IssueStep => r_state = "LEAVE2"
                                      /\ reg_dbg_mode' \/ jtag_ir' = "RESUME"
  <1>1. DbgInv /\ [DbgNext]_allVars => [Stays]_allVars
    <2> SUFFICES ASSUME DbgInv, DbgNext, reg_dbg_mode
                 PROVE  /\ IssueStep => r_state = "LEAVE2"
                        /\ reg_dbg_mode' \/ jtag_ir' = "RESUME"
      OBVIOUS
    <2>1. CASE DbgPatch
      BY <2>1 DEF DbgPatch, dbgVars, PatchProgram, Quiet, IssueStep, InProgram
    <2>2. CASE ~DbgPatch
      <3>1. PICK cmd \in Cmd, ext_break \in BOOLEAN : DbgCycle(cmd, ext_break)
        BY <2>2, CommandedCycle
      <3> DEFINE req == ocd_req(cmd, ext_break)
      <3>2. reg_dbg_mode' \/ jtag_ir' = "RESUME"
        BY <3>1 DEF DbgCycle, Status, set_dbg_mode, Executes
      <3>3. ASSUME IssueStep PROVE r_state = "LEAVE2"
        <4>1. issue_ins(req)
          BY <3>1, <3>3, IssuedByPcu
        <4>2. r_state = "LEAVE2" \/ (r_state = "NORMAL" /\ ~req)
          BY <4>1 DEF issue_ins, stop_issue, DbgInv
        <4>3. r_state = "NORMAL" => req
          BY <3>1, Waiting DEF DbgCycle, ocd_req, core_step, Leaving
        <4>4. QED
          BY <4>2, <4>3
      <3>4. QED
        BY <3>2, <3>3
    <2>3. QED
      BY <2>1, <2>2
  <1>2. QED
    BY <1>1, DbgInvariant, PTL DEF DbgSpec, HaltStays
-----------------------------------------------------------------------------
(***************************************************************************)
(* A breakpoint that is hit is one the core has come to, if none is in the *)
(* slots behind branches and jumps.                                        *)
(***************************************************************************)

JumpOps == {"br", "jal", "jalr"}

\* The debugger keeps breakpoints out of the slots behind branches and jumps,
\* and puts neither into a program.
JumpsGuarded ==
  /\ JumpOps \subseteq NoBpBehind
  /\ \A i \in PatchInstrs : i.op \notin JumpOps

BpsApart ==
  /\ dbg_bp \in [Bps -> Addr]
  /\ \A b \in bp_enable, a \in Addr : PM[a].op \in JumpOps => dbg_bp[b] \notin Behind(a)

\* Nothing is under way that could take the core away from PC.
NoneJumps ==
  /\ ID # None => ID.i.op \notin JumpOps
  /\ EX # None => EX.i.op # "br"

\* A hit asks for a halt; a resume or a step withdraws it.
BpInv ==
  /\ reg_bp_hit => reg_dbg_mode /\ ~Leaving
  /\ reg_bp_hit /\ r_state = "NORMAL" => NoneJumps
  /\ BpsApart

\* What holds of the pipeline holds of the one the debug controller drives.
LEMMA DrivenPipeline == DbgSpec => [](IInv /\ Order)
  BY ImplementsPipeline, OrderInvariant, PTL DEF DrivesPipeline

LEMMA SecondSlot ==
  ASSUME NEW a \in Addr
  PROVE  Next1(Next1(a)) = (a + 2) % NumAddrs
  <1>1. NumAddrs \in Nat \ {0} /\ a \in Nat /\ a < NumAddrs
    BY SizeAssumption DEF Addr
  <1>2. CASE a + 1 < NumAddrs
    <2>1. (a + 1) % NumAddrs = a + 1
      BY <1>1, <1>2
    <2>2. QED
      BY <1>1, <2>1 DEF Next1
  <1>3. CASE a + 1 = NumAddrs
    <2>1. (a + 1) % NumAddrs = 0
      BY <1>1, <1>3
    <2>2. 1 % NumAddrs = (a + 2) % NumAddrs
      <3>1. CASE NumAddrs = 1
        BY <1>1, <1>3, <3>1
      <3>2. CASE NumAddrs > 1
        BY <1>1, <1>3, <3>2
      <3>3. QED
        BY <1>1, <3>1, <3>2
    <2>3. QED
      BY <2>1, <2>2 DEF Next1
  <1>4. QED
    BY <1>1, <1>2, <1>3

\* At a breakpoint no branch and no jump is in the pipeline.
LEMMA ApartFromJumps ==
  ASSUME IInv, Order, BpsApart, NEW b \in bp_enable, dbg_bp[b] = PC, r_state = "NORMAL"
  PROVE  NoneJumps
  <1>1. TypeOK /\ LinkIsNext /\ FromProgram /\ Debugger /\ InOrder
    BY DEF IInv, Control, Order
  <1>2. \A a \in Addr : PM[a].op \in JumpOps => PC # Next1(a) /\ PC # (a + 2) % NumAddrs
    BY DEF BpsApart, Behind, Next1
  <1>3. ASSUME ID # None, ID.i.op \in JumpOps
        PROVE  FALSE
    <2>1. ID.pc \in Addr
      BY <1>1, <1>3 DEF TypeOK, Slot
    <2>2. InProgram(ID)
      BY <1>1, <1>3, InstrAssumption DEF Debugger, InProgram, JumpOps
    <2>3. QED
      BY <1>1, <1>2, <1>3, <2>1, <2>2 DEF FromProgram, LinkIsNext
  <1>4. ASSUME EX # None, EX.i.op = "br"
        PROVE  FALSE
    <2>1. EX.pc \in Addr
      BY <1>1, <1>4 DEF TypeOK, ExSlot
    <2>2. InProgram(EX)
      BY <1>1, <1>4, InstrAssumption DEF Debugger, InProgram
    <2>3. PM[EX.pc].op \in JumpOps
      BY <1>1, <1>4, <2>2 DEF FromProgram, JumpOps
    <2>4. CASE ID = None
      <3>1. PC = Next1(EX.pc)
        BY <1>1, <1>4, <2>2, <2>4 DEF InOrder
      <3>2. QED
        BY <1>2, <2>1, <2>3, <3>1
    <2>5. CASE ID # None
      <3>1. InProgram(ID) /\ ID.pc = Next1(EX.pc)
        BY <1>1, <1>4, <2>2, <2>5 DEF InOrder, Debugger, InProgram
      <3>2. PC = Next1(Next1(EX.pc))
        BY <1>1, <3>1 DEF LinkIsNext
      <3>3. QED
        BY <1>2, <2>1, <2>3, <3>2, SecondSlot
    <2>6. QED
      BY <2>4, <2>5
  <1>5. QED
    BY <1>3, <1>4 DEF NoneJumps

\* A release withdraws a hit, and none comes before it has issued.
LEMMA ReleasedUnhit ==
  ASSUME DbgInv, BpInv, NEW cmd \in Cmd, NEW ext_break \in BOOLEAN, DbgCycle(cmd, ext_break),
         Leaving
  PROVE  ~reg_bp_hit'
  <1>1. cmd = None /\ InProgress /\ ~reg_bp_hit
    BY Waiting DEF DbgCycle, DbgInv, BpInv
  <1>2. ~new_bp_hit(cmd)
    BY <1>1 DEF InProgress, new_bp_hit, core_resume, core_step, Follows
  <1>3. QED
    BY <1>1, <1>2 DEF DbgCycle, Status

\* A core that has come to a breakpoint halts, and does not jump.
LEMMA HitHalts ==
  ASSUME DbgInv, IInv, Order, BpInv, NEW cmd \in Cmd, NEW ext_break \in BOOLEAN,
         DbgCycle(cmd, ext_break), r_state = "NORMAL", reg_bp_hit'
  PROVE  ocd_req(cmd, ext_break) /\ ocd_exe(cmd) = None /\ NoneJumps
  <1>1. /\ ~Executes(cmd, "RESUME") /\ ~Executes(cmd, "STEP") /\ ~Executes(cmd, "EXECUTE")
        /\ ~Follows(cmd, "RESUME") /\ ~Follows(cmd, "STEP")
    BY Waiting DEF DbgCycle, Leaving
  <1>2. new_bp_hit(cmd) \/ reg_bp_hit
    BY DEF DbgCycle, Status
  <1>3. ocd_req(cmd, ext_break)
    BY <1>1, <1>2 DEF ocd_req, core_step, set_dbg_mode, BpInv
  <1>4. CASE reg_bp_hit
    BY <1>1, <1>3, <1>4 DEF BpInv, ocd_exe
  <1>5. CASE ~reg_bp_hit
    <2>1. PICK b \in Bps : dbg_bp[b] = PC /\ b \in bp_enable
      BY <1>2, <1>5 DEF new_bp_hit, hits
    <2>2. NoneJumps
      BY <2>1, ApartFromJumps DEF BpInv
    <2>3. QED
      BY <1>1, <1>3, <2>2 DEF ocd_exe
  <1>6. QED
    BY <1>4, <1>5

LEMMA BpsApartStep ==
  ASSUME JumpsGuarded, BpsApart, NEW cmd \in Cmd, NEW ext_break \in BOOLEAN,
         DbgCycle(cmd, ext_break)
  PROVE  BpsApart'
  <1>1. PM' = PM
    BY DEF DbgCycle, CoreStep, CoreCycle, Reset, vars
  <1>2. CASE Executes(cmd, "BP_ENABLE")
    <2>1. cmd.bp \in Bps /\ cmd.adr \in Addr
      BY <1>2 DEF Executes, Cmd, Command
    <2>2. /\ dbg_bp' = [dbg_bp EXCEPT ![cmd.bp] = cmd.adr]
          /\ bp_enable' \subseteq bp_enable \union {cmd.bp}
      BY <1>2 DEF DbgCycle, Breakpoints
    <2>3. \A a \in Addr : PM[a].op \in JumpOps => cmd.adr \notin Behind(a)
      BY <1>2 DEF DbgCycle, DebuggerWaits, Executes, JumpsGuarded
    <2>4. QED
      BY <1>1, <2>1, <2>2, <2>3 DEF BpsApart, Behind
  <1>3. CASE ~Executes(cmd, "BP_ENABLE")
    <2>1. dbg_bp' = dbg_bp /\ bp_enable' \subseteq bp_enable
      BY <1>3 DEF DbgCycle, Breakpoints
    <2>2. QED
      BY <1>1, <2>1 DEF BpsApart, Behind
  <1>4. QED
    BY <1>2, <1>3

LEMMA BpCycle ==
  ASSUME JumpsGuarded, DbgInv, IInv, Order, BpInv, NEW cmd \in Cmd, NEW ext_break \in BOOLEAN,
         DbgCycle(cmd, ext_break)
  PROVE  BpInv'
  <1> DEFINE req == ocd_req(cmd, ext_break)
  <1>1. BpsApart'
    BY BpsApartStep DEF BpInv
  <1> SUFFICES ASSUME reg_bp_hit'
               PROVE  reg_dbg_mode' /\ ~Leaving' /\ (r_state' = "NORMAL" => NoneJumps')
    BY <1>1 DEF BpInv
  <1>2. /\ ~Executes(cmd, "RESUME") /\ ~Executes(cmd, "STEP")
        /\ new_bp_hit(cmd) \/ reg_bp_hit
    BY DEF DbgCycle, Status
  <1>3. reg_dbg_mode'
    BY <1>2 DEF DbgCycle, Status, set_dbg_mode, BpInv
  <1>4. ~Leaving
    BY ReleasedUnhit
  <1>5. CASE Resets(cmd)
    <2>1. ~reset_instr
      BY <1>5, Waiting DEF DbgCycle, Resets, Executes
    <2>2. r_state' = "NORMAL" /\ ID' = None /\ EX' = None
      BY <1>5, <2>1 DEF DbgCycle, CoreStep, Reset
    <2>3. QED
      BY <1>3, <2>2 DEF Leaving, NoneJumps
  <1>6. CASE ~Resets(cmd) /\ reset_instr
    <2>1. r_state' = "NORMAL" /\ ID' = None /\ EX' = None
      BY <1>6 DEF DbgCycle, CoreStep, vars, DbgInv, Cleared, Quiet
    <2>2. QED
      BY <1>3, <2>1 DEF Leaving, NoneJumps
  <1>7. CASE ~Resets(cmd) /\ ~reset_instr
    <2>1. Pcu(req) /\ Issue(req, ocd_exe(cmd)) /\ Advance
      BY <1>7, OrdinaryCycle DEF CoreCycle
    <2>2. CASE r_state = "DEBUG"
      <3>1. req
        BY <1>2, <2>2, ReleaseIsCommanded DEF DbgCycle
      <3>2. r_state' = "DEBUG"
        BY <2>1, <2>2, <3>1 DEF Pcu, NextState
      <3>3. QED
        BY <1>3, <3>2 DEF Leaving
    <2>3. CASE r_state = "NORMAL"
      <3>1. req /\ ocd_exe(cmd) = None /\ NoneJumps
        BY <2>3, HitHalts
      <3>2. r_state' \in {"NORMAL", "DEBUG"}
        BY <2>1, <2>3 DEF Pcu, NextState
      <3>3. ~issue_ins(req)
        BY <2>3, <3>1 DEF issue_ins, stop_issue
      <3>4. ID' # None => ID # None /\ ID' = ID
        BY <2>1, <3>1, <3>3 DEF Issue
      <3>5. EX' # None => ID # None /\ EX'.i = ID.i
        BY <2>1 DEF Advance
      <3>6. NoneJumps'
        BY <3>1, <3>4, <3>5 DEF NoneJumps, JumpOps
      <3>7. QED
        BY <1>3, <3>2, <3>6 DEF Leaving
    <2>4. QED
      BY <1>4, <2>2, <2>3 DEF DbgInv, Leaving
  <1>8. QED
    BY <1>5, <1>6, <1>7

LEMMA BpPatch ==
  ASSUME JumpsGuarded, IInv, BpInv, DbgPatch
  PROVE  BpInv'
  <1>1. PICK a \in Addr, i \in PatchInstrs : PatchProgram(a, i)
    BY DEF DbgPatch
  <1>2. PM' = [PM EXCEPT ![a] = i] /\ PM \in [Addr -> ProgInstrs]
    BY <1>1 DEF PatchProgram, IInv, TypeOK
  <1>3. \A b \in Addr : PM'[b].op \in JumpOps => PM[b].op \in JumpOps
    BY <1>2 DEF JumpsGuarded
  <1>4. UNCHANGED <<dbg_bp, bp_enable, reg_bp_hit, reg_dbg_mode, r_state, ID, EX>>
    BY <1>1 DEF DbgPatch, dbgVars, PatchProgram, pcuVars
  <1>5. BpsApart'
    BY <1>3, <1>4 DEF BpInv, BpsApart, Behind
  <1>6. QED
    BY <1>4, <1>5 DEF BpInv, Leaving, NoneJumps

LEMMA BpInvariant ==
  ASSUME JumpsGuarded
  PROVE  DbgSpec => []BpInv
  <1>1. DbgInit => BpInv
    <2>1. 0 \in Addr
      BY SizeAssumption DEF Addr
    <2>2. QED
      BY <2>1 DEF DbgInit, BpInv, BpsApart
  <1>2. DbgInv /\ IInv /\ Order /\ BpInv /\ [DbgNext]_allVars => BpInv'
    <2> SUFFICES ASSUME DbgInv, IInv, Order, BpInv, [DbgNext]_allVars PROVE BpInv'
      OBVIOUS
    <2>1. CASE DbgPatch
      BY <2>1, BpPatch
    <2>2. CASE DbgNext /\ ~DbgPatch
      BY <2>2, CommandedCycle, BpCycle
    <2>3. CASE UNCHANGED allVars
      BY <2>3 DEF allVars, vars, dbgVars, BpInv, BpsApart, NoneJumps, Leaving, Behind
    <2>4. QED
      BY <2>1, <2>2, <2>3
  <1>3. QED
    BY <1>1, <1>2, DbgInvariant, DrivenPipeline, PTL DEF DbgSpec

\* When no breakpoint is behind a branch or a jump, a core that reports a hit
\* stays at the address of the breakpoint until it halts (check_breakpoint_hit
\* in debug_controller.v, the rule of ctrl.n with jal and jalr added).
THEOREM BreakpointStays ==
  ASSUME JumpsGuarded
  PROVE  DbgSpec => BreakpointHolds
  <1> DEFINE Holds == reg_bp_hit' /\ ~reset_instr' /\ r_state \in {"NORMAL", "LEAVE2"} => PC' = PC
  <1>1. DbgInv /\ IInv /\ Order /\ BpInv /\ [DbgNext]_allVars => [Holds]_allVars
    <2> SUFFICES ASSUME DbgInv, IInv, Order, BpInv, DbgNext, reg_bp_hit', ~reset_instr',
                        r_state \in {"NORMAL", "LEAVE2"}
                 PROVE  PC' = PC
      OBVIOUS
    <2>1. CASE DbgPatch
      BY <2>1 DEF DbgPatch, PatchProgram, pcuVars
    <2>2. CASE ~DbgPatch
      <3>1. PICK cmd \in Cmd, ext_break \in BOOLEAN : DbgCycle(cmd, ext_break)
        BY <2>2, CommandedCycle
      <3> DEFINE req == ocd_req(cmd, ext_break)
      <3>2. ~Resets(cmd) /\ r_state = "NORMAL"
        BY <3>1, ReleasedUnhit DEF DbgCycle, Delay, Leaving
      <3>3. CASE reset_instr
        BY <3>1, <3>2, <3>3 DEF DbgCycle, CoreStep, vars
      <3>4. CASE ~reset_instr
        <4>1. Pcu(req)
          BY <3>1, <3>2, <3>4, OrdinaryCycle DEF CoreCycle
        <4>2. req /\ NoneJumps
          BY <3>1, <3>2, HitHalts
        <4>3. ~could_jump
          BY <4>2 DEF NoneJumps, JumpOps, could_jump, br_EX, jump_ID, Taken
        <4>4. ~update_pc(req)
          BY <3>2, <4>2, <4>3 DEF update_pc, could_issue, stop_issue, interruptible
        <4>5. QED
          BY <4>1, <4>4 DEF Pcu
      <3>5. QED
        BY <3>3, <3>4
    <2>3. QED
      BY <2>1, <2>2
  <1>2. QED
    BY <1>1, DbgInvariant, DrivenPipeline, BpInvariant, PTL DEF DbgSpec, BreakpointHolds
=============================================================================
