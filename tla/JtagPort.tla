------------------------------ MODULE JtagPort ------------------------------
(***************************************************************************)
(* The JTAG port: the TAP controller and its instruction register          *)
(* (controller/jtag_tap_controller.v), the data scan register and the      *)
(* synchronisation to the processor clock (jtag_scan_register.v and        *)
(* jtag_interface.v).                                                      *)
(*                                                                         *)
(* The edges of TCK and of the processor clock interleave freely, but for  *)
(* MinTicks: the processor clock ticks at least that often in each half    *)
(* period of TCK.  The build (.used_go_config.cfg) has 500 MHz and 100     *)
(* MHz, which is two.  A word being shifted in is any word at all.         *)
(***************************************************************************)
EXTENDS Naturals

CONSTANTS
  Instrs,    \* instructions a debugger shifts in
  Words,     \* data words it shifts in
  MinTicks,  \* processor clock ticks in a half period of TCK, at least
  None

ASSUME TicksAssumption == MinTicks \in Nat \ {0}
ASSUME WordsAssumption == {"BYPASS", "RESERVED"} \cap Instrs = {} /\ "core" \notin Words

VARIABLES
  jtag_tck,                              \* the level of TCK
  state,                                 \* the TAP controller
  jtag_ireg_master, jtag_ireg_slave,     \* the instruction register
  scan_reg_master, scan_reg_slave,       \* the data scan register
  jtag_update_ir_REG, jtag_update_dr_REG,
  sync_ir_REG, sync_dr_REG,              \* samples by the processor clock, newest first
  dbg_instr_exec_REG, dbg_data_we_REG,   \* strobes to the debug controller
  ticks,                                 \* ticks since the last edge of TCK, up to MinTicks
  due_ir, got_ir, due_dr, got_dr,        \* history: what was updated, what has arrived,
  num_ir, num_dr                         \* and how often something has, modulo two

tapVars == <<state, jtag_ireg_master, scan_reg_master, jtag_update_ir_REG, jtag_update_dr_REG>>
slaveVars == <<jtag_ireg_slave, scan_reg_slave>>
syncVars == <<sync_ir_REG, sync_dr_REG, dbg_instr_exec_REG, dbg_data_we_REG>>
historyVars == <<due_ir, got_ir, num_ir, due_dr, got_dr, num_dr>>
jtagVars == <<jtag_tck, tapVars, slaveVars, syncVars, ticks, historyVars>>

JtagInit ==
  /\ jtag_tck = 0
  /\ state = "TEST_LOGIC_RESET"
  /\ jtag_ireg_master = "BYPASS"
  /\ jtag_ireg_slave = "BYPASS"
  /\ scan_reg_master = "core"
  /\ scan_reg_slave = "core"
  /\ jtag_update_ir_REG = FALSE
  /\ jtag_update_dr_REG = FALSE
  /\ sync_ir_REG = <<TRUE, TRUE, TRUE>>
  /\ sync_dr_REG = <<TRUE, TRUE, TRUE>>
  /\ dbg_instr_exec_REG = FALSE
  /\ dbg_data_we_REG = FALSE
  /\ ticks = 0
  /\ due_ir = None /\ got_ir = None /\ num_ir = 0
  /\ due_dr = None /\ got_dr = None /\ num_dr = 0
-----------------------------------------------------------------------------
\* The state machine of the TAP controller: the state after TMS = 0, after TMS = 1.

OnZero ==
  [TEST_LOGIC_RESET |-> "RUN_TEST_IDLE", RUN_TEST_IDLE |-> "RUN_TEST_IDLE",
   SELECT_DR_SCAN |-> "CAPTURE_DR", CAPTURE_DR |-> "SHIFT_DR", SHIFT_DR |-> "SHIFT_DR",
   EXIT1_DR |-> "PAUSE_DR", PAUSE_DR |-> "PAUSE_DR", EXIT2_DR |-> "SHIFT_DR",
   UPDATE_DR |-> "RUN_TEST_IDLE",
   SELECT_IR_SCAN |-> "CAPTURE_IR", CAPTURE_IR |-> "SHIFT_IR", SHIFT_IR |-> "SHIFT_IR",
   EXIT1_IR |-> "PAUSE_IR", PAUSE_IR |-> "PAUSE_IR", EXIT2_IR |-> "SHIFT_IR",
   UPDATE_IR |-> "RUN_TEST_IDLE"]

OnOne ==
  [TEST_LOGIC_RESET |-> "TEST_LOGIC_RESET", RUN_TEST_IDLE |-> "SELECT_DR_SCAN",
   SELECT_DR_SCAN |-> "SELECT_IR_SCAN", CAPTURE_DR |-> "EXIT1_DR", SHIFT_DR |-> "EXIT1_DR",
   EXIT1_DR |-> "UPDATE_DR", PAUSE_DR |-> "EXIT2_DR", EXIT2_DR |-> "UPDATE_DR",
   UPDATE_DR |-> "SELECT_DR_SCAN",
   SELECT_IR_SCAN |-> "TEST_LOGIC_RESET", CAPTURE_IR |-> "EXIT1_IR", SHIFT_IR |-> "EXIT1_IR",
   EXIT1_IR |-> "UPDATE_IR", PAUSE_IR |-> "EXIT2_IR", EXIT2_IR |-> "UPDATE_IR",
   UPDATE_IR |-> "SELECT_DR_SCAN"]

next_state(tms) == IF tms = 1 THEN OnOne[state] ELSE OnZero[state]

\* A rising edge of TCK: the state machine steps and the scan registers capture
\* or shift. The strobes follow the update states a period later.
TckRise(tms) ==
  /\ jtag_tck = 0
  /\ ticks = MinTicks
  /\ jtag_tck' = 1
  /\ ticks' = 0
  /\ state' = next_state(tms)
  /\ CASE state = "CAPTURE_IR" -> jtag_ireg_master' = "RESERVED"
       [] state = "SHIFT_IR" -> jtag_ireg_master' \in Instrs
       [] OTHER -> UNCHANGED jtag_ireg_master
  /\ CASE state = "CAPTURE_DR" -> scan_reg_master' = "core"
       [] state = "SHIFT_DR" -> scan_reg_master' \in Words
       [] OTHER -> UNCHANGED scan_reg_master
  /\ jtag_update_ir_REG' = (state = "UPDATE_IR")
  /\ jtag_update_dr_REG' = (state = "UPDATE_DR")
  /\ UNCHANGED <<slaveVars, syncVars, historyVars>>

next_ireg ==
  CASE state = "TEST_LOGIC_RESET" -> "BYPASS"
    [] state = "UPDATE_IR" -> jtag_ireg_master
    [] OTHER -> jtag_ireg_slave

\* A falling edge: an updated register takes over what was shifted in. Then the
\* processor has a command, or a word for the register the command names.
TckFall ==
  /\ jtag_tck = 1
  /\ ticks = MinTicks
  /\ jtag_tck' = 0
  /\ ticks' = 0
  /\ jtag_ireg_slave' = next_ireg
  /\ scan_reg_slave' = IF state = "UPDATE_DR" THEN scan_reg_master ELSE scan_reg_slave
  /\ due_ir' = IF state = "UPDATE_IR" THEN jtag_ireg_slave' ELSE due_ir
  /\ due_dr' = IF state = "UPDATE_DR" THEN <<jtag_ireg_slave, scan_reg_slave'>> ELSE due_dr
  /\ UNCHANGED <<tapVars, syncVars, got_ir, num_ir, got_dr, num_dr>>
-----------------------------------------------------------------------------
\* The processor clock.

Sample(sync, level) == <<level, sync[1], sync[2]>>

\* Fault: the edge is looked for over two ticks.
StrobeLong(sync) == sync[1] /\ ~sync[3]

\* Fault: the strobe comes when the level falls.
StrobeAtEnd(sync) == ~sync[2] /\ sync[3]

Strobe(sync) == sync[2] /\ ~sync[3]

\* With the strobe of the tick before, the debug controller executes the command
\* in the instruction register, or takes the word in the scan register.
Tick ==
  /\ sync_ir_REG' = Sample(sync_ir_REG, jtag_update_ir_REG)
  /\ sync_dr_REG' = Sample(sync_dr_REG, jtag_update_dr_REG)
  /\ dbg_instr_exec_REG' = Strobe(sync_ir_REG)
  /\ dbg_data_we_REG' = Strobe(sync_dr_REG)
  /\ IF dbg_instr_exec_REG
     THEN got_ir' = jtag_ireg_slave /\ num_ir' = 1 - num_ir /\ due_ir' = None
     ELSE UNCHANGED <<got_ir, num_ir, due_ir>>
  /\ IF dbg_data_we_REG
     THEN got_dr' = <<jtag_ireg_slave, scan_reg_slave>> /\ num_dr' = 1 - num_dr /\ due_dr' = None
     ELSE UNCHANGED <<got_dr, num_dr, due_dr>>
  /\ ticks' = IF ticks < MinTicks THEN ticks + 1 ELSE ticks
  /\ UNCHANGED <<jtag_tck, tapVars, slaveVars>>

JtagNext == TckFall \/ Tick \/ \E tms \in {0, 1} : TckRise(tms)

JtagSpec == JtagInit /\ [][JtagNext]_jtagVars

\* The processor clock runs, and TCK is not stopped low: a scan ends in
\* RUN_TEST_IDLE or goes on with the next.
JtagFairSpec == JtagSpec /\ WF_jtagVars(Tick) /\ WF_jtagVars(\E tms \in {0, 1} : TckRise(tms))
-----------------------------------------------------------------------------
TapState == DOMAIN OnZero
Command == Instrs \union {"BYPASS", "RESERVED"}
Word == Words \union {"core"}

ASSUME NoneAssumption == None \notin Command \union (Command \X Word)

TypeOK ==
  /\ jtag_tck \in {0, 1}
  /\ state \in TapState
  /\ jtag_ireg_master \in Command /\ jtag_ireg_slave \in Command
  /\ scan_reg_master \in Word /\ scan_reg_slave \in Word
  /\ jtag_update_ir_REG \in BOOLEAN /\ jtag_update_dr_REG \in BOOLEAN
  /\ sync_ir_REG \in BOOLEAN \X BOOLEAN \X BOOLEAN
  /\ sync_dr_REG \in BOOLEAN \X BOOLEAN \X BOOLEAN
  /\ dbg_instr_exec_REG \in BOOLEAN /\ dbg_data_we_REG \in BOOLEAN
  /\ ticks \in 0 .. MinTicks
  /\ due_ir \in Command \union {None} /\ got_ir \in Command \union {None}
  /\ due_dr \in (Command \X Word) \union {None} /\ got_dr \in (Command \X Word) \union {None}
  /\ num_ir \in {0, 1} /\ num_dr \in {0, 1}

\* What is scanned out is not out of date: when the register that the last
\* command names is captured, that command has been executed and the last word
\* written has been taken, though nothing synchronises the capture with the
\* processor and the scan may follow the command at once
\* (jtag_scan_register.v:45-46).
CapturedIsCurrent ==
  [][state = "CAPTURE_DR" /\ state' # "CAPTURE_DR" => due_ir = None /\ due_dr = None]_jtagVars

\* Every command that is shifted in is executed exactly once, while it is in the
\* instruction register, and in the end: however the two clocks run, and even
\* when the next scan or a reset of the TAP controller follows at once.
CommandBox == INSTANCE Mailbox WITH Msg <- Command, box <- due_ir, taken <- got_ir, count <- num_ir
EveryCommandOnce == CommandBox!FairSpec

\* Every data word is taken exactly once, by the register its command names.
WordBox == INSTANCE Mailbox WITH Msg <- Command \X Word, box <- due_dr, taken <- got_dr, count <- num_dr
EveryWordOnce == WordBox!FairSpec
=============================================================================
