-------------------------------- MODULE Isa --------------------------------
(***************************************************************************)
(* What the pipeline promises the program and the debugger: instructions   *)
(* execute one at a time, in program order, each on the results of all the *)
(* earlier ones.  A debugger may halt the core between two instructions,   *)
(* execute instructions of its own, set the program counter and change the *)
(* program; the core then goes on at the program counter, with the changed *)
(* program.  It may reset the core.  No pipeline, no hazards, no latency   *)
(* of a division.                                                          *)
(***************************************************************************)
EXTENDS Instructions

CONSTANTS
  ProgInstrs,  \* the instructions programs are made of
  DbgInstrs,   \* the instructions a debugger executes
  PatchInstrs  \* the instructions a debugger writes into the program

VARIABLES
  pc,      \* the address of the next instruction
  regs,    \* the registers
  dmem,    \* the data memory
  pmem     \* the program

vars == <<pc, regs, dmem, pmem>>

Init ==
  /\ pc = 0
  /\ regs = [r \in Reg |-> 0]
  /\ dmem \in [Cell -> Val]
  /\ pmem \in [Addr -> ProgInstrs]

\* The next instruction of the program.
Execute ==
  LET i == pmem[pc]
  IN  /\ pc' = PcAfter(i, pc, regs)
      /\ regs' = RegsAfter(i, pc, regs, dmem)
      /\ dmem' = MemAfter(i, regs, dmem)
      /\ UNCHANGED pmem

\* An instruction the debugger has the core execute: it leaves pc alone unless
\* it is a jump.
DebugExecute(i) ==
  /\ pc' = IF i.op = "jalr" THEN JumpTo(i, pc, regs) ELSE pc
  /\ regs' = RegsAfter(i, pc, regs, dmem)
  /\ dmem' = MemAfter(i, regs, dmem)
  /\ UNCHANGED pmem

\* The debugger writes the program memory.
DebugPatch(a, i) ==
  /\ pmem' = [pmem EXCEPT ![a] = i]
  /\ UNCHANGED <<pc, regs, dmem>>

\* The core starts again. The memories stay, but for one cell: the latest store
\* may be undone, or the one under way done (ResetMemory says when).
Reset ==
  /\ pc' = 0
  /\ regs' = [r \in Reg |-> 0]
  /\ \E c \in Cell, v \in Val : dmem' = [dmem EXCEPT ![c] = v]
  /\ UNCHANGED pmem

Next ==
  \/ Execute
  \/ \E i \in DbgInstrs : DebugExecute(i)
  \/ \E a \in Addr, i \in PatchInstrs : DebugPatch(a, i)
  \/ Reset

Spec == Init /\ [][Next]_vars
=============================================================================
