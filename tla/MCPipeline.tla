----------------------------- MODULE MCPipeline -----------------------------
(***************************************************************************)
(* Pipeline for TLC: every program of three instructions made from those   *)
(* below, the smallest that has an instruction in each stage and two       *)
(* behind a branch.  The registers 1 and 2 carry every dependency: results *)
(* into the bases of loads, stores and jumps, into and out of divisions,   *)
(* into and out of the CNN step, and x0 as a destination.                  *)
(***************************************************************************)
EXTENDS Pipeline

I(op, rd, rs1, rs2, imm) == [op |-> op, rd |-> rd, rs1 |-> rs1, rs2 |-> rs2, imm |-> imm]

MCProgInstrs == {
  I("alu", 1, 1, 0, 1), I("ld", 1, 1, 0, 0), I("st", 0, 2, 1, 0),
  I("br", 0, 1, 2, 2), I("jal", 2, 0, 0, 2), I("jalr", 0, 1, 0, 1),
  I("div", 1, 1, 2, 0), I("mac", 0, 0, 0, 0), I("swbrk", 0, 0, 0, 0)}

MCDbgInstrs == {I("alu", 2, 0, 0, 1), I("jalr", 0, 2, 0, 0)}
MCPatchInstrs == {I("alu", 1, 1, 0, 1)}
=============================================================================
