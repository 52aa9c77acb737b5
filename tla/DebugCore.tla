----------------------------- MODULE DebugCore ------------------------------
(***************************************************************************)
(* The debug controller (controller/debug_controller.v) on top of the      *)
(* pipeline: the commands a debugger sends, the hardware breakpoints, the  *)
(* status register, and the request ocd_req that halts the core.           *)
(*                                                                         *)
(* In a clock cycle at most one command is executed: dbg_instr_exec_in is  *)
(* high for that cycle, and the command stays in the JTAG instruction      *)
(* register, jtag_ir, until the next one.  ext_break is the break input of *)
(* the chip.  A reset command, sent to this core or to all (SYNC_RESET),   *)
(* clears the core from the end of the cycle on, for another one; the      *)
(* controller is reset by the chip's own reset only.  The export of        *)
(* breakpoints to other cores is left out.                                 *)
(***************************************************************************)
EXTENDS Pipeline

CONSTANTS
  Bps,         \* the hardware breakpoints (four in the source)
  NoBpBehind   \* the debugger sets none in the two slots behind these instructions

VARIABLES
  jtag_ir,           \* the last command
  dbg_instr_exec,    \* a resume or a step has not issued its instruction yet
  reset_instr,       \* the reset of the core, in the cycle after the command
  bp_enable, dbg_bp, \* the breakpoints that are enabled, and their addresses
  reg_dbg_mode,      \* the status register: a halt was asked for,
  reg_bp_hit,        \* by a breakpoint,
  bp_hits,           \* the breakpoints that were hit,
  reg_swbreak,       \* by a software breakpoint
  released           \* history: instructions issued since the last resume or
                     \* step, counted up to two

bpVars == <<bp_enable, dbg_bp>>
statusVars == <<reg_dbg_mode, reg_bp_hit, bp_hits, reg_swbreak>>
dbgVars == <<jtag_ir, dbg_instr_exec, reset_instr, bp_enable, dbg_bp, reg_dbg_mode, reg_bp_hit,
             bp_hits, reg_swbreak, released>>
allVars == <<vars, dbgVars>>

Command ==
  [op : {"REQUEST", "RESUME", "STEP", "RESET", "SYNC_RESET"}]
    \union [op : {"EXECUTE"}, instr : DbgInstrs]
    \union [op : {"BP_ENABLE"}, bp : Bps, adr : Addr]
    \union [op : {"BP_DISABLE"}, bp : Bps]

DbgInit ==
  /\ Init
  /\ jtag_ir = "BYPASS"
  /\ dbg_instr_exec = FALSE
  /\ reset_instr = FALSE
  /\ bp_enable = {}
  /\ dbg_bp = [b \in Bps |-> 0]
  /\ reg_dbg_mode = FALSE
  /\ reg_bp_hit = FALSE
  /\ bp_hits = {}
  /\ reg_swbreak = FALSE
  /\ released = 0
-----------------------------------------------------------------------------
\* A command acts in the cycle it is executed (resume0, step0); a resume or a
\* step acts on (resume1, step1) until the core has left debug mode.

Executes(cmd, op) == cmd # None /\ cmd.op = op
Follows(cmd, op) == cmd = None /\ jtag_ir = op /\ dbg_instr_exec
Resets(cmd) == Executes(cmd, "RESET") \/ Executes(cmd, "SYNC_RESET")

\* Fault: debug mode lasts through the first issue.
OcdModeThroughLeave2 == r_state # "NORMAL"

ocd_mode == r_state \in {"DEBUG", "LEAVE0", "LEAVE1"}
ocd_swbreak == EX # None /\ EX.i.op = "swbrk"

core_step(cmd)   == Executes(cmd, "STEP") \/ Follows(cmd, "STEP")
core_resume(cmd) == Executes(cmd, "RESUME") \/ Follows(cmd, "RESUME")

\* The breakpoints hit: those enabled at PC, and those hit before.
hits == {b \in Bps : IF dbg_bp[b] = PC THEN b \in bp_enable ELSE reg_bp_hit /\ b \in bp_hits}

\* Fault: the breakpoint that stopped the core stops it again.
BpHitAlways(cmd) == hits # {}

new_bp_hit(cmd) == hits # {} /\ ~core_resume(cmd) /\ ~core_step(cmd)

\* Faults: the mode does not last; a software breakpoint does not set it.
SetDbgModePulse(cmd, ext_break) ==
  /\ ~Executes(cmd, "RESUME")
  /\ Executes(cmd, "REQUEST") \/ ext_break \/ new_bp_hit(cmd) \/ ocd_swbreak

SetDbgModeNoSwbreak(cmd, ext_break) ==
  /\ ~Executes(cmd, "RESUME")
  /\ Executes(cmd, "REQUEST") \/ ext_break \/ new_bp_hit(cmd) \/ reg_dbg_mode

set_dbg_mode(cmd, ext_break) ==
  /\ ~Executes(cmd, "RESUME")
  /\ Executes(cmd, "REQUEST") \/ ext_break \/ new_bp_hit(cmd) \/ ocd_swbreak \/ reg_dbg_mode

\* Fault: the request is the status bit, a cycle late.
OcdReqLate(cmd, ext_break) ==
  /\ ~Executes(cmd, "RESUME") /\ ~core_step(cmd)
  /\ reg_dbg_mode

ocd_req(cmd, ext_break) ==
  /\ ~Executes(cmd, "RESUME") /\ ~core_step(cmd)
  /\ reg_dbg_mode \/ set_dbg_mode(cmd, ext_break)

ocd_exe(cmd) == IF Executes(cmd, "EXECUTE") THEN cmd.instr ELSE None

\* Fault: the status register is reset along with the core.
StatusReset(cmd, ext_break) ==
  /\ reg_dbg_mode' = (set_dbg_mode(cmd, ext_break) /\ ~Resets(cmd))
  /\ reg_bp_hit' = (~Executes(cmd, "RESUME") /\ ~Executes(cmd, "STEP")
                      /\ (new_bp_hit(cmd) \/ reg_bp_hit))
  /\ bp_hits' = hits
  /\ reg_swbreak' = (~core_resume(cmd) /\ ~core_step(cmd) /\ (ocd_swbreak \/ reg_swbreak))

Status(cmd, ext_break) ==
  /\ reg_dbg_mode' = set_dbg_mode(cmd, ext_break)
  /\ reg_bp_hit' = (~Executes(cmd, "RESUME") /\ ~Executes(cmd, "STEP")
                      /\ (new_bp_hit(cmd) \/ reg_bp_hit))
  /\ bp_hits' = hits
  /\ reg_swbreak' = (~core_resume(cmd) /\ ~core_step(cmd) /\ (ocd_swbreak \/ reg_swbreak))

Breakpoints(cmd) ==
  /\ bp_enable' = IF Executes(cmd, "RESET") THEN {}
                  ELSE IF Executes(cmd, "BP_ENABLE") THEN bp_enable \union {cmd.bp}
                  ELSE IF Executes(cmd, "BP_DISABLE") THEN bp_enable \ {cmd.bp}
                  ELSE bp_enable
  /\ dbg_bp' = IF Executes(cmd, "BP_ENABLE") THEN [dbg_bp EXCEPT ![cmd.bp] = cmd.adr]
               ELSE dbg_bp

\* Fault: nothing ends a resume or a step.
DelayForever(cmd) ==
  /\ dbg_instr_exec' = ((Executes(cmd, "RESUME") \/ Executes(cmd, "STEP")) \/ dbg_instr_exec)
  /\ reset_instr' = Resets(cmd)

\* delay_proc: remember a resume or a step until the core has left debug mode,
\* and a reset for a cycle.
Delay(cmd) ==
  /\ dbg_instr_exec' = IF (Executes(cmd, "RESUME") \/ Executes(cmd, "STEP")) /\ ocd_mode THEN TRUE
                       ELSE IF ~ocd_mode THEN FALSE
                       ELSE dbg_instr_exec
  /\ reset_instr' = Resets(cmd)

Count(cmd, ext_break) ==
  released' = IF Executes(cmd, "RESUME") \/ Executes(cmd, "STEP") THEN 0
              ELSE IF issue_ins(ocd_req(cmd, ext_break)) /\ ~Resets(cmd) /\ released < 2
              THEN released + 1
              ELSE released
-----------------------------------------------------------------------------
\* The debugger reads the status register before it goes on: it resumes, steps
\* and executes on a halted core that is at rest, and it sends no command while
\* a resume or a step is under way. It requests a halt, and sets and clears
\* breakpoints, when it likes.
Behind(a) == {(a + 1) % NumAddrs, (a + 2) % NumAddrs}

DebuggerWaits(cmd) ==
  cmd # None =>
    /\ ~dbg_instr_exec /\ ~reset_instr
    /\ cmd.op \in {"RESUME", "STEP", "EXECUTE"} => r_state = "DEBUG" /\ Quiet
    /\ cmd.op = "BP_ENABLE" => \A a \in Addr : PM[a].op \in NoBpBehind => cmd.adr \notin Behind(a)

\* What the core does meanwhile.
CoreStep(cmd, ext_break) ==
  \/ /\ ~Resets(cmd) /\ ~reset_instr
     /\ CoreCycle(ocd_req(cmd, ext_break), ocd_exe(cmd))
  \/ Resets(cmd) /\ Reset
  \/ reset_instr /\ UNCHANGED vars

DbgCycle(cmd, ext_break) ==
  /\ DebuggerWaits(cmd)
  /\ CoreStep(cmd, ext_break)
  /\ Status(cmd, ext_break)
  /\ Breakpoints(cmd)
  /\ Delay(cmd)
  /\ Count(cmd, ext_break)
  /\ jtag_ir' = IF cmd # None THEN cmd.op ELSE jtag_ir

\* A cycle without a command: the processor's clock does not wait for one.
Tick == \E ext_break \in BOOLEAN : DbgCycle(None, ext_break)

DbgCommand == \E cmd \in Command, ext_break \in BOOLEAN : DbgCycle(cmd, ext_break)

DbgPatch == /\ \E a \in Addr, i \in PatchInstrs : PatchProgram(a, i)
            /\ UNCHANGED dbgVars

DbgNext == Tick \/ DbgCommand \/ DbgPatch

DbgSpec == DbgInit /\ [][DbgNext]_allVars
DbgFairSpec == DbgSpec /\ WF_allVars(Tick)
-----------------------------------------------------------------------------
DbgTypeOK ==
  /\ TypeOK
  /\ jtag_ir \in {"BYPASS", "REQUEST", "RESUME", "STEP", "EXECUTE", "BP_ENABLE", "BP_DISABLE",
                 "RESET", "SYNC_RESET"}
  /\ dbg_instr_exec \in BOOLEAN
  /\ reset_instr \in BOOLEAN
  /\ bp_enable \subseteq Bps
  /\ dbg_bp \in [Bps -> Addr]
  /\ reg_dbg_mode \in BOOLEAN
  /\ reg_bp_hit \in BOOLEAN
  /\ bp_hits \subseteq Bps
  /\ reg_swbreak \in BOOLEAN
  /\ released \in 0 .. 2

\* The debug controller drives the core as Pipeline assumes: every step of the
\* two together is a step of Pipeline, so what Pipeline guarantees holds here.
DrivesPipeline == Spec

\* An instruction goes from the program memory to ID in this step.
IssueStep == InProgram(ID') /\ ~(hw_stall /\ ~br_EX)

\* The core never issues the instruction at an enabled breakpoint, unless it is
\* the first one after a resume or a step.
BreakpointStops ==
  [][IssueStep /\ (\E b \in bp_enable : dbg_bp[b] = ID'.pc) => released = 0 /\ released' = 1]_allVars

\* A core that a debugger stepped and that has halted again has issued exactly
\* one instruction; one that was resumed has issued at least one, even from a
\* breakpoint or with a break coming in.
ReleasedCount ==
  r_state = "DEBUG" =>
    /\ jtag_ir = "STEP" => released = 1
    /\ jtag_ir = "RESUME" => released >= 1

\* A debugger that polls the status register is not misled: as long as the core
\* is halted, whatever halted it, the register says that a halt was asked for.
HaltReported == r_state = "DEBUG" => reg_dbg_mode

\* A breakpoint hit that is reported is one the core has come to: it stays at
\* the address of the breakpoint until it halts there, unless it is reset. A
\* comment of ctrl.n says when that can be expected: breakpoints trigger by
\* fetching, hence none may be set in the two slots behind a branch.
BreakpointHolds ==
  [][reg_bp_hit' /\ ~reset_instr' /\ r_state \in {"NORMAL", "LEAVE2"} => PC' = PC]_allVars

\* Once a halt has been asked for, no instruction is issued but the first of a
\* resume or a step, and only a resume withdraws what was asked for.  The core
\* does not get away by a reset either: it leaves debug mode with its registers
\* cleared, and is back before it has issued anything.
HaltStays ==
  [][reg_dbg_mode =>
       /\ IssueStep => r_state = "LEAVE2"
       /\ reg_dbg_mode' \/ jtag_ir' = "RESUME"]_allVars

\* Whatever asked for the halt, the core halts, as soon as no more resets come.
HaltFollows == reg_dbg_mode ~> (r_state = "DEBUG" \/ reset_instr)

\* Stalls end: a core that is neither debugged nor reset goes on executing.
NoHazardDeadlock == <>[](r_state = "NORMAL" /\ ~reset_instr) => []<>(EX # None)
=============================================================================
