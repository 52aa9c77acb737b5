----------------------------- MODULE MCDebugCore ----------------------------
(***************************************************************************)
(* DebugCore for TLC: every program of three instructions made from those  *)
(* below, one breakpoint, and commands and breaks in every cycle they may  *)
(* come in.                                                                *)
(***************************************************************************)
EXTENDS DebugCore

I(op, rd, rs1, rs2, imm) == [op |-> op, rd |-> rd, rs1 |-> rs1, rs2 |-> rs2, imm |-> imm]

MCProgInstrs == {
  I("alu", 1, 1, 0, 1), I("br", 0, 1, 0, 2), I("swbrk", 0, 0, 0, 0)}

\* For liveness and for the place of a breakpoint: the instructions that jump,
\* stall or are waited for.
MCJumpInstrs == {I("br", 0, 1, 0, 2), I("jalr", 0, 1, 0, 1), I("div", 1, 1, 0, 0)}

MCDbgInstrs == {I("jalr", 0, 0, 0, 0)}
MCPatchInstrs == {I("alu", 1, 1, 0, 1)}

\* None of these instructions uses the data memory; resets leave it alone here.
MCInit == DbgInit /\ DM = [c \in Cell |-> 0]
MCNext == DbgNext /\ UNCHANGED DM
MCSpec == MCInit /\ [][MCNext]_allVars
MCFairSpec == MCSpec /\ WF_allVars(Tick)
=============================================================================
