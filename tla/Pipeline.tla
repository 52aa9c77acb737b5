------------------------------ MODULE Pipeline ------------------------------
(***************************************************************************)
(* The three-stage pipeline (IF, ID, EX) of the core: the program control  *)
(* unit (lib/trv32p3_cnn_pcu.p), the instruction registers and the hazard  *)
(* stalls generated from the hw_stall rules (controller/decoder.v and      *)
(* hazards.v), the register file with its one general write port, and the  *)
(* scoreboard of the division unit (lib/div.p, state_to_core).             *)
(*                                                                         *)
(* A Cycle is one clock cycle.  Its inputs are the debug request ocd_req   *)
(* and the debugger's instruction ocd_exe.  The data memory is RvMemory,   *)
(* which DataPort implements; the value a division will write is computed  *)
(* when it starts, which Divider justifies.                                *)
(***************************************************************************)
EXTENDS Instructions

CONSTANTS
  ProgInstrs,  \* the instructions programs are made of
  DbgInstrs,   \* the instructions a debugger executes
  PatchInstrs, \* the instructions a debugger writes into the program
  DivCycles    \* cycles of a division after its EX cycle (33 in the source)

ASSUME InstrAssumption ==
  /\ ProgInstrs \subseteq Instr
  /\ PatchInstrs \subseteq ProgInstrs
  /\ DbgInstrs \subseteq {i \in Instr : i.op = "alu" \/ (i.op = "jalr" /\ i.rd = 0)}
ASSUME DivCyclesAssumption == DivCycles \in Nat /\ DivCycles >= 2

VARIABLES
  PC, r_fetched, r_state,      \* the PCU
  pm_rd,                       \* the instruction the program memory delivers
  ID, EX,                      \* the instructions in the two other stages
  X,                           \* the registers
  PM, DM,                      \* program and data memory
  div_cnt, div_adr, div_val    \* the division unit

pcuVars == <<PC, r_fetched, r_state, pm_rd>>
divVars == <<div_cnt, div_adr, div_val>>
vars == <<PC, r_fetched, r_state, pm_rd, ID, EX, X, PM, DM, div_cnt, div_adr, div_val>>

Init ==
  /\ PC = 0
  /\ r_fetched = FALSE
  /\ r_state = "NORMAL"
  /\ pm_rd = None
  /\ ID = None
  /\ EX = None
  /\ X = [r \in Reg |-> 0]
  /\ PM \in [Addr -> ProgInstrs]
  /\ DM \in [Cell -> Val]
  /\ div_cnt = 0
  /\ div_adr = 0
  /\ div_val = 0
-----------------------------------------------------------------------------
\* Hazards of the instruction in ID.

div_bsy == div_cnt # 0
div_wnc == div_cnt = 2

\* Registers the instruction in EX writes.
ExWrites ==
  IF EX = None THEN {}
  ELSE (IF EX.i.op \in PortOps THEN {EX.i.rd} \ {0} ELSE {})
       \union (IF EX.i.op = "mac" THEN MacWrites ELSE {})

\* Registers an instruction reads, and those it writes in EX.
Reads(i) ==
  CASE i.op \in {"alu", "br", "div", "st"} -> {i.rs1, i.rs2}
    [] i.op \in {"ld", "jalr"} -> {i.rs1}
    [] i.op = "mac" -> MacReads
    [] OTHER -> {}

Writes(i) ==
  CASE i.op \in PortOps -> {i.rd} \ {0}
    [] i.op = "mac" -> MacWrites
    [] OTHER -> {}

\* Fault: the base of a store is not checked.
BaseHazardLoadsOnly(i) == i.op \in {"jalr", "ld"} /\ i.rs1 \in ExWrites

\* jalr_read and agu_read_after_write: ID reads a base register EX writes.
BaseHazard(i) == i.op \in {"jalr", "ld", "st"} /\ i.rs1 \in ExWrites

\* Fault: nothing keeps the write port free for the division.
DivHazardNoPort(i) ==
  \/ div_bsy /\ div_adr \in Reads(i)
  \/ div_bsy /\ div_adr \in Writes(i)
  \/ div_bsy /\ i.op = "div"

\* read_after_div, write_after_div, div_busy, div_wp.
DivHazard(i) ==
  \/ div_bsy /\ div_adr \in Reads(i)
  \/ div_bsy /\ div_adr \in Writes(i)
  \/ div_bsy /\ i.op = "div"
  \/ div_wnc /\ i.op \in PortOps

hw_stall == ID # None /\ (BaseHazard(ID.i) \/ DivHazard(ID.i))

\* Faults: div or swbrk does not hold off the next instruction.
TwoCycleNoDiv   == {"jal", "jalr", "swbrk"}
TwoCycleNoSwbrk == {"jal", "jalr", "div"}

\* Instructions with cycles(2) keep the next one from being issued for a cycle.
TwoCycleOps == {"jal", "jalr", "div", "swbrk"}
issue_sig == ~(ID # None /\ ID.i.op \in TwoCycleOps)
-----------------------------------------------------------------------------
\* user_issue and user_next_pc.

br_EX   == EX # None /\ Taken(EX.i, X)
jump_ID == ID # None /\ ID.i.op \in {"jal", "jalr"} /\ ~hw_stall

interruptible == issue_sig /\ (~hw_stall \/ br_EX)
could_issue   == issue_sig /\ ~hw_stall
could_jump    == br_EX \/ jump_ID

stop_issue(ocd_req) ==
  \/ r_state = "NORMAL" /\ ocd_req /\ interruptible
  \/ r_state \in {"DEBUG", "LEAVE0", "LEAVE1"}

issue_ins(ocd_req) == r_fetched /\ ~br_EX /\ interruptible /\ ~stop_issue(ocd_req)

NextState(ocd_req) ==
  CASE r_state = "NORMAL" -> IF ocd_req /\ interruptible THEN "DEBUG" ELSE "NORMAL"
    [] r_state = "DEBUG"  -> IF ocd_req THEN "DEBUG" ELSE "LEAVE0"
    [] r_state = "LEAVE0" -> "LEAVE1"
    [] r_state = "LEAVE1" -> IF r_fetched THEN "LEAVE2" ELSE "LEAVE1"
    [] r_state = "LEAVE2" -> "NORMAL"

jump_pc ==
  IF r_state = "LEAVE0" THEN PC
  ELSE IF br_EX THEN EX.tgt
  ELSE JumpTo(ID.i, ID.pc, X)

next_pc == IF could_jump THEN jump_pc ELSE Next1(PC)

\* Fault: the program counter advances past an instruction that is stalled.
UpdatePcOnStall(ocd_req) == (issue_sig /\ r_fetched /\ ~stop_issue(ocd_req)) \/ could_jump

\* Fault: the fetch advances while the instruction at PC is not issued yet.
FetchNextInLeave1 == (could_issue /\ r_fetched) \/ could_jump

update_pc(ocd_req) == (could_issue /\ r_fetched /\ ~stop_issue(ocd_req)) \/ could_jump
fetch_next == (could_issue /\ r_fetched /\ r_state # "LEAVE1") \/ could_jump

Pcu(ocd_req) ==
  /\ r_state' = NextState(ocd_req)
  /\ PC' = IF update_pc(ocd_req) THEN next_pc ELSE PC
  /\ r_fetched' = (r_state # "DEBUG")
  /\ pm_rd' = IF r_state # "DEBUG" THEN PM[IF fetch_next THEN next_pc ELSE PC] ELSE pm_rd
-----------------------------------------------------------------------------
\* The instruction registers. A branch that is taken kills the one in ID; a
\* stalled one stays there and sends a bubble to EX.

Issue(ocd_req, ocd_exe) ==
  ID' = IF issue_ins(ocd_req) THEN [i |-> pm_rd, pc |-> PC, ocd |-> FALSE]
        ELSE IF ocd_exe # None THEN [i |-> ocd_exe, pc |-> PC, ocd |-> TRUE]
        ELSE IF hw_stall /\ ~br_EX THEN ID
        ELSE None

\* The data memory after the store in EX.
Stored == IF EX # None /\ EX.i.op = "st" THEN [DM EXCEPT ![EX.cell] = X[EX.i.rs2]] ELSE DM

\* ID reads the base of an address and the link address; a load's data arrive
\* with it in EX.
Advance ==
  EX' = IF ID # None /\ ~br_EX /\ ~hw_stall
        THEN LET c == CellOf(ID.i, X)
             IN  [i |-> ID.i, pc |-> ID.pc, ocd |-> ID.ocd, cell |-> c,
                  tgt |-> IF ID.i.op = "br" THEN BranchTo(ID.i, ID.pc) ELSE PC,
                  data |-> Stored[c]]
        ELSE None
-----------------------------------------------------------------------------
\* EX, and the division unit beside it. When both drive the write port, the
\* port takes the data and the register of EX.

ExPort == EX # None /\ EX.i.op \in PortOps
DivWrites == div_cnt = 1

x_w1 ==
  IF ExPort
  THEN CASE EX.i.op = "alu" -> (X[EX.i.rs1] + X[EX.i.rs2] + EX.i.imm) % NumVals
         [] EX.i.op = "ld"  -> EX.data
         [] EX.i.op \in {"jal", "jalr"} -> EX.tgt % NumVals
  ELSE div_val

x_w1_wad ==
  IF ExPort /\ EX.i.rd # 0 THEN {EX.i.rd}
  ELSE IF DivWrites THEN {div_adr}
  ELSE {}

WriteBack ==
  /\ X' = [r \in Reg |->
             IF r \in x_w1_wad THEN x_w1
             ELSE IF EX # None /\ EX.i.op = "mac" /\ r \in MacWrites THEN MacValue(r, X)
             ELSE X[r]]
  /\ DM' = Stored

\* Fault: the unit is stalled along with ID.
DivideStalled ==
  IF hw_stall THEN UNCHANGED divVars
  ELSE IF div_cnt = 0 /\ EX # None /\ EX.i.op = "div" /\ EX.i.rd # 0
  THEN /\ div_cnt' = DivCycles
       /\ div_adr' = EX.i.rd
       /\ div_val' = Quotient(X[EX.i.rs1], X[EX.i.rs2])
  ELSE /\ div_cnt' = IF div_bsy THEN div_cnt - 1 ELSE 0
       /\ UNCHANGED <<div_adr, div_val>>

Divide ==
  IF div_cnt = 0 /\ EX # None /\ EX.i.op = "div" /\ EX.i.rd # 0
  THEN /\ div_cnt' = DivCycles
       /\ div_adr' = EX.i.rd
       /\ div_val' = Quotient(X[EX.i.rs1], X[EX.i.rs2])
  ELSE /\ div_cnt' = IF div_bsy THEN div_cnt - 1 ELSE 0
       /\ UNCHANGED <<div_adr, div_val>>
-----------------------------------------------------------------------------
\* The debugger's side. Each of its requests is shifted in over JTAG, which
\* takes many cycles: it finds ID and EX empty, and a jump it has the core
\* execute is over before it resumes the core. A software breakpoint in EX
\* raises the request.

Quiet == ID = None /\ EX = None

DebuggerPaced(ocd_req, ocd_exe) ==
  /\ ocd_exe # None => r_state = "DEBUG" /\ ocd_req /\ Quiet
  /\ r_state = "DEBUG" /\ ~ocd_req => ~(ID # None /\ ID.i.op = "jalr")
  /\ r_state = "NORMAL" /\ EX # None /\ EX.i.op = "swbrk" => ocd_req

CoreCycle(ocd_req, ocd_exe) ==
  /\ Pcu(ocd_req)
  /\ Issue(ocd_req, ocd_exe)
  /\ Advance
  /\ WriteBack
  /\ Divide
  /\ UNCHANGED PM

Cycle(ocd_req, ocd_exe) == DebuggerPaced(ocd_req, ocd_exe) /\ CoreCycle(ocd_req, ocd_exe)

\* The debugger writes the program memory of the halted core.
PatchProgram(a, i) ==
  /\ r_state = "DEBUG"
  /\ Quiet
  /\ PM' = [PM EXCEPT ![a] = i]
  /\ UNCHANGED <<pcuVars, divVars, ID, EX, X, DM>>

\* Every register of the core is cleared, whatever it is doing. The memories are
\* not, but for a store that dm_wbb has not written yet, or writes just now.
Reset ==
  /\ PC' = 0
  /\ r_fetched' = FALSE
  /\ r_state' = "NORMAL"
  /\ pm_rd' = None
  /\ ID' = None
  /\ EX' = None
  /\ X' = [r \in Reg |-> 0]
  /\ \E c \in Cell, v \in Val : DM' = [DM EXCEPT ![c] = v]
  /\ div_cnt' = 0
  /\ div_adr' = 0
  /\ div_val' = 0
  /\ UNCHANGED PM

Clock == \E ocd_req \in BOOLEAN, ocd_exe \in DbgInstrs \union {None} : Cycle(ocd_req, ocd_exe)

Next ==
  \/ Clock
  \/ \E a \in Addr, i \in PatchInstrs : PatchProgram(a, i)
  \/ Reset

Spec == Init /\ [][Next]_vars
FairSpec == Spec /\ WF_vars(Clock)
-----------------------------------------------------------------------------
Slot == {None} \union [i : Instr, pc : Addr, ocd : BOOLEAN]
ExSlot == {None} \union [i : Instr, pc : Addr, ocd : BOOLEAN,
                         cell : Cell, tgt : Addr, data : Val]

ASSUME EmptySlotAssumption ==
  /\ None \notin [i : Instr, pc : Addr, ocd : BOOLEAN]
  /\ None \notin [i : Instr, pc : Addr, ocd : BOOLEAN, cell : Cell, tgt : Addr, data : Val]

TypeOK ==
  /\ PC \in Addr
  /\ r_fetched \in BOOLEAN
  /\ r_state \in {"NORMAL", "DEBUG", "LEAVE0", "LEAVE1", "LEAVE2"}
  /\ pm_rd \in Instr \union {None}
  /\ ID \in Slot
  /\ EX \in ExSlot
  /\ X \in [Reg -> Val]
  /\ PM \in [Addr -> ProgInstrs]
  /\ DM \in [Cell -> Val]
  /\ div_cnt \in 0 .. DivCycles
  /\ div_adr \in Reg
  /\ div_val \in Val

InProgram(slot) == slot # None /\ ~slot.ocd

\* Whatever the program counter, the stalls and the debugger did: an instruction
\* that is ready to be issued is the one the program has at PC now.
FetchedIsAtPC ==
  r_fetched /\ r_state \in {"NORMAL", "LEAVE1", "LEAVE2"} => pm_rd = PM[PC]

\* When an instruction is in ID, PC is the address after it: the link address of
\* a jump, and the address a debugger resumes at.
LinkIsNext == InProgram(ID) => PC = Next1(ID.pc)

\* The division unit and EX never use the register write port at once.
PortExclusive == DivWrites => ~ExPort

\* An instruction of two cycles leaves a gap behind it.
HoldOff == EX # None /\ EX.i.op \in TwoCycleOps => ID = None

\* A division in EX finds the unit free, or it would be dropped.
DivNotLost == EX # None /\ EX.i.op = "div" => ~div_bsy

\* The core stops at a software breakpoint: when the one in EX raises the debug
\* request, no later instruction has been issued, and none is.
SwbreakStops ==
  [][r_state = "NORMAL" /\ EX # None /\ EX.i.op = "swbrk"
       => ID = None /\ (Reset \/ (ID' = None /\ r_state' = "DEBUG"))]_vars

\* The pipeline executes the program as the instruction set says. The next
\* instruction is the oldest in the pipeline; a register that a division under
\* way will write already has its value.
AbsRegs == [r \in Reg |-> IF div_bsy /\ r = div_adr THEN div_val ELSE X[r]]
AbsPc == IF InProgram(EX) THEN EX.pc ELSE IF InProgram(ID) THEN ID.pc ELSE PC

Abs == INSTANCE Isa WITH pc <- AbsPc, regs <- AbsRegs, dmem <- DM, pmem <- PM

ImplementsIsa == Abs!Spec
=============================================================================
