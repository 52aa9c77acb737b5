----------------------------- MODULE DebugAccess -----------------------------
(***************************************************************************)
(* The debugger's way to the memories (lib/ocd.n; the registers and the    *)
(* decoding of commands are in controller/debug_controller.v).  A command  *)
(* is a move in the pipeline beside the instructions: it is decoded in     *)
(* stage 1, uses and increments ocd_addr in stage 2 (EX) and moves its     *)
(* data in stage 3, with the port of the core's loads and stores.  For the *)
(* data memory this module takes RvMemory, which DataPort implements: a    *)
(* load or store has its address in the first cycle, its data in the next. *)
(*                                                                         *)
(* A debugger halts the core first.  In debug mode there is no instruction *)
(* in ID; otherwise an access of the core's would take the debugger's      *)
(* place on the port, whose address is a priority multiplexer.             *)
(***************************************************************************)
EXTENDS RvMemory

CONSTANTS
  IWords,     \* instruction words, 0 among them
  NumWords,   \* words of program memory
  NumAddr     \* addresses, 2^32 in the source: some are in neither memory

VARIABLES
  ocd_addr, ocd_data, ocd_instr,
  ocd_EX, ocd_S3,   \* the moves in stages 2 and 3, "none" if there are none
  PM, pm_rd         \* program memory and its read data

debugVars == <<ocd_addr, ocd_data, ocd_instr, ocd_EX, ocd_S3, PM, pm_rd>>

Byte == 0 .. ByteVals - 1

(* What the proofs assume of the constants. *)
ConstantTypes ==
  /\ NumBytes \in Nat /\ NumWords \in Nat
  /\ NumAddr \in Nat \ {0} /\ ByteVals \in Nat \ {0}
  /\ StoreData \subseteq [0 .. 3 -> Byte] /\ 0 \in IWords

ByteMoves == {"ld_DMb", "st_DMb"}
WordMoves == {"ld_PMb", "st_PMb"}
Moves == ByteMoves \cup WordMoves

DbgInit ==
  /\ Init
  /\ ocd_addr = 0
  /\ ocd_data = 0
  /\ ocd_instr = 0
  /\ ocd_EX = "none"
  /\ ocd_S3 = "none"
  /\ PM \in [0 .. NumWords - 1 -> IWords]
  /\ pm_rd \in IWords

(* What comes over JTAG in a cycle: a command, or the word of a data scan  *)
(* for one of the registers.  A scan takes longer than a move; here it     *)
(* only leaves a cycle free, for the pipeline to be as full as it can be.  *)
NoInput == [to |-> "none", value |-> 0]
Commands ==
  {[to |-> move, value |-> 0] :
     move \in (IF ocd_addr \in Addr THEN ByteMoves ELSE {})
             \cup (IF ocd_addr < 4 * NumWords THEN WordMoves ELSE {})}
RegisterWrites ==
  {[to |-> "ocd_addr", value |-> a] : a \in 0 .. NumAddr - 1}
  \cup {[to |-> "ocd_data", value |-> v] : v \in Byte}
  \cup {[to |-> "ocd_instr", value |-> w] : w \in IWords}

Inputs == IF ocd_EX = "none" THEN {NoInput} \cup Commands \cup RegisterWrites ELSE {NoInput}

(* Fault: a store does not move on to the next byte. *)
IncrementLoadsOnly ==
  CASE ocd_EX = "ld_DMb" -> 1
    [] ocd_EX \in WordMoves -> 4
    [] OTHER -> 0

Increment ==
  CASE ocd_EX \in ByteMoves -> 1
    [] ocd_EX \in WordMoves -> 4
    [] OTHER -> 0

(* The registers: what the debugger writes goes before what a move does. *)
OcdRegisters(in) ==
  /\ ocd_addr' = IF in.to = "ocd_addr" THEN in.value ELSE (ocd_addr + Increment) % NumAddr
  /\ ocd_data' = IF in.to = "ocd_data" THEN in.value
                 ELSE IF ocd_S3 = "ld_DMb" THEN result[0] ELSE ocd_data
  /\ ocd_instr' = IF in.to = "ocd_instr" THEN in.value
                  ELSE IF ocd_S3 = "ld_PMb" THEN pm_rd ELSE ocd_instr

(* Stage 2 of a move of program memory; otherwise the core may fetch. *)
ProgramMemory ==
  /\ PM' = IF ocd_EX = "st_PMb" THEN [PM EXCEPT ![ocd_addr \div 4] = ocd_instr] ELSE PM
  /\ IF ocd_EX = "ld_PMb" THEN pm_rd' = PM[ocd_addr \div 4] ELSE UNCHANGED pm_rd

(* Write data: of the move in stage 3, or of the core's store in EX. *)
WriteData ==
  IF ocd_S3 = "st_DMb" THEN {[i \in 0 .. 3 |-> ocd_data]}
  ELSE IF st_EX # "none" THEN StoreData
  ELSE {[i \in 0 .. 3 |-> 0]}

(* The address: that of stage 2 of a move, or that of the core's           *)
(* instruction in ID, of which there is none in debug mode.                *)
Access(in) ==
  \/ ocd_EX = "ld_DMb" /\ Load("lb", ocd_addr)
  \/ ocd_EX = "st_DMb" /\ Store("sb", ocd_addr)
  \/ ocd_EX \notin ByteMoves /\ Other
  \/ /\ ocd_EX = "none"
     /\ in = NoInput
     /\ \/ \E op \in Loads, a \in Addr : Load(op, a)
        \/ \E op \in Stores, a \in Addr : Store(op, a)

Cycle(in) ==
  /\ ocd_EX' = IF in.to \in Moves THEN in.to ELSE "none"
  /\ ocd_S3' = ocd_EX
  /\ OcdRegisters(in)
  /\ ProgramMemory
  /\ \E d \in WriteData : bytes' = Done(d)
  /\ Access(in)

DbgNext == \E in \in Inputs : Cycle(in)

DbgSpec == DbgInit /\ [][DbgNext]_<<vars, debugVars>>
-----------------------------------------------------------------------------
View == INSTANCE DebuggerView WITH
          bytes     <- IF ocd_S3 = "st_DMb" THEN [bytes EXCEPT ![base] = ocd_data] ELSE bytes,
          words     <- PM,
          ocd_data  <- IF ocd_S3 = "ld_DMb" THEN result[0] ELSE ocd_data,
          ocd_instr <- IF ocd_S3 = "ld_PMb" THEN pm_rd ELSE ocd_instr,
          storing   <- st_EX # "none" /\ ocd_S3 # "st_DMb"

(* A debugger's moves are atomic and in order: each is of the byte or word *)
(* at the cursor, sees every store the program made before it was halted   *)
(* and every earlier move, and nothing of the program's comes between its  *)
(* stages (ocd.n:60-98).                                                   *)
MovesAtomic == View!Spec
=============================================================================
