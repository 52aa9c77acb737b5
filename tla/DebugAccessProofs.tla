-------------------------- MODULE DebugAccessProofs --------------------------
(***************************************************************************)
(* Proof that the debugger's moves are atomic, for memories and addresses  *)
(* of any size; and that its commands and words cross the clocks of the    *)
(* JTAG port whole, once, and in time, however fast the processor's is.    *)
(***************************************************************************)
EXTENDS DebugAccess, JtagPort, TLAPS

Types ==
  /\ bytes \in [Addr -> Byte]
  /\ ocd_addr \in 0 .. NumAddr - 1
  /\ ocd_data \in Byte
  /\ ocd_EX \in Moves \union {"none"}
  /\ ocd_S3 \in Moves \union {"none"}
  /\ st_EX \in Stores \union {"none"}

\* A move is alone in the pipeline: no other is behind it, and the core stores
\* nothing when it uses the cursor.
Alone ==
  /\ ocd_S3 # "none" => ocd_EX = "none"
  /\ ocd_EX # "none" => st_EX = "none"
  /\ ocd_EX \in ByteMoves => ocd_addr \in Addr
  /\ ocd_EX \in WordMoves => ocd_addr < 4 * NumWords

\* In stage 3 the port is at the move's byte.
AtPort ==
  /\ ocd_S3 = "ld_DMb" => result[0] \in Byte
  /\ ocd_S3 = "st_DMb" => st_EX = "sb" /\ base \in Addr

\* A store of the core's writes aligned bytes.
StoreAligned == st_EX # "none" => base \in Nat /\ base % Size(st_EX) = 0

IInv == Types /\ Alone /\ AtPort /\ StoreAligned

LEMMA SizeType == \A op : Size(op) \in {1, 2, 4}
  BY DEF Size

LEMMA SameWord ==
  ASSUME NEW b \in Nat, NEW n \in {1, 2, 4}, b % n = 0, NEW a \in b .. b + n - 1
  PROVE  a \div 4 = b \div 4
  <1>1. CASE n = 1
    BY <1>1
  <1>2. CASE n = 2
    BY <1>2
  <1>3. CASE n = 4
    BY <1>3
  <1>4. QED
    BY <1>1, <1>2, <1>3

LEMMA AlignedDown ==
  ASSUME NEW a \in Nat, NEW n \in {1, 2, 4}
  PROVE  AlignDown(a, n) \in Nat /\ AlignDown(a, n) % n = 0
  <1>1. CASE n = 1
    BY <1>1 DEF AlignDown
  <1>2. CASE n = 2
    BY <1>2 DEF AlignDown
  <1>3. CASE n = 4
    BY <1>3 DEF AlignDown
  <1>4. QED
    BY <1>1, <1>2, <1>3

\* The memory after the store in EX.
LEMMA DoneType ==
  ASSUME ConstantTypes, IInv, NEW d \in WriteData
  PROVE  Done(d) \in [Addr -> Byte]
  <1>1. d \in [0 .. 3 -> Byte]
    BY DEF WriteData, ConstantTypes, IInv, Types, Byte
  <1>2. ASSUME NEW a \in Addr, st_EX \in Stores, a \in base .. base + Size(st_EX) - 1
        PROVE  d[a - base] \in Byte
    <2>1. a - base \in 0 .. 3
      <3>1. base \in Nat /\ a \in Nat
        BY <1>2, SizeType DEF IInv, StoreAligned, Stores, Addr, ConstantTypes
      <3>2. Size(st_EX) \in {1, 2, 4}
        BY SizeType
      <3>3. QED
        BY <1>2, <3>1, <3>2
    <2>2. QED
      BY <1>1, <2>1
  <1>3. QED
    BY <1>2 DEF Done, IInv, Types

LEMMA NoStoreDone ==
  ASSUME IInv, st_EX = "none", NEW d
  PROVE  Done(d) = bytes
  BY DEF Done, Stores, IInv, Types

\* A store of the core's writes in one word.
LEMMA StoreInOneWord ==
  ASSUME ConstantTypes, IInv, NEW d, NEW a \in Addr, NEW b \in Addr,
         Done(d)[a] # bytes[a], Done(d)[b] # bytes[b]
  PROVE  a \div 4 = b \div 4
  <1>1. /\ st_EX \in Stores
        /\ a \in base .. base + Size(st_EX) - 1
        /\ b \in base .. base + Size(st_EX) - 1
    BY DEF Done
  <1>2. base \in Nat /\ base % Size(st_EX) = 0
    BY <1>1 DEF IInv, StoreAligned, Stores
  <1>3. QED
    BY <1>1, <1>2, SizeType, SameWord
-----------------------------------------------------------------------------
\* The invariant is kept.

\* What a command or a scan may be, in terms of the state.
LEMMA InputType ==
  ASSUME ConstantTypes, NEW in \in Inputs
  PROVE  /\ in.to = "ocd_addr" => in.value \in 0 .. NumAddr - 1
         /\ in.to = "ocd_data" => in.value \in Byte
         /\ in.to = "ocd_instr" => in.value \in IWords
         /\ in.to \in {"none", "ocd_addr", "ocd_data", "ocd_instr"} \union Moves
         /\ in.to \in ByteMoves => ocd_addr \in Addr
         /\ in.to \in WordMoves => ocd_addr < 4 * NumWords
         /\ ocd_EX # "none" => in.to = "none"
         /\ in.to = "none" => in = NoInput
  BY DEF Inputs, NoInput, Commands, RegisterWrites, Moves, ByteMoves, WordMoves

LEMMA AddressType ==
  ASSUME ConstantTypes, IInv
  PROVE  (ocd_addr + Increment) % NumAddr \in 0 .. NumAddr - 1
  <1>1. ocd_addr \in Nat /\ Increment \in Nat /\ NumAddr \in Nat \ {0}
    BY DEF ConstantTypes, IInv, Types, Increment
  <1>2. ocd_addr + Increment \in Nat
    BY <1>1
  <1>3. QED
    BY <1>1, <1>2

\* The cursor stays where no move uses it.
LEMMA CursorStays ==
  ASSUME ConstantTypes, IInv, ocd_EX = "none"
  PROVE  (ocd_addr + Increment) % NumAddr = ocd_addr
  <1>1. Increment = 0 /\ ocd_addr \in 0 .. NumAddr - 1 /\ NumAddr \in Nat \ {0}
    BY DEF ConstantTypes, IInv, Types, Increment, ByteMoves, WordMoves
  <1>2. (ocd_addr + 0) % NumAddr = ocd_addr
    BY <1>1
  <1>3. QED
    BY <1>1, <1>2

LEMMA LoadByte ==
  ASSUME ConstantTypes, IInv, NEW d \in WriteData, bytes' = Done(d), ocd_addr \in Addr,
         Load("lb", ocd_addr)
  PROVE  result'[0] = bytes'[ocd_addr] /\ bytes'[ocd_addr] \in Byte
  <1>1. ocd_addr \in Nat /\ Size("lb") = 1
    BY DEF ConstantTypes, Addr, Size
  <1>2. ocd_addr % Size("lb") = 0
    BY <1>1
  <1>3. result' = Loaded("lb", bytes', ocd_addr)
    BY <1>2 DEF Load
  <1>4. ocd_addr + 0 = ocd_addr
    BY <1>1
  <1>5. QED
    BY <1>1, <1>3, <1>4, DoneType DEF Loaded

LEMMA StoreByte ==
  ASSUME ConstantTypes, ocd_addr \in Addr, Store("sb", ocd_addr)
  PROVE  st_EX' = "sb" /\ base' = ocd_addr
  <1>1. ocd_addr \in Nat /\ Size("sb") = 1
    BY DEF ConstantTypes, Addr, Size
  <1>2. ocd_addr - (ocd_addr % 1) = ocd_addr
    BY <1>1
  <1>3. QED
    BY <1>1, <1>2 DEF Store, AlignDown

LEMMA StepIInv ==
  ASSUME ConstantTypes, IInv, NEW in \in Inputs, Cycle(in)
  PROVE  IInv'
  <1>1. PICK d \in WriteData : bytes' = Done(d)
    BY DEF Cycle
  <1>2. /\ OcdRegisters(in) /\ Access(in)
        /\ ocd_EX' = IF in.to \in Moves THEN in.to ELSE "none"
        /\ ocd_S3' = ocd_EX
    BY DEF Cycle
  <1>3. st_EX' \in Stores \union {"none"}
    BY <1>2 DEF Access, Load, Store, Other, Stores
  <1>4. Types'
    <2>1. bytes' \in [Addr -> Byte]
      BY <1>1, DoneType
    <2>2. ocd_addr' \in 0 .. NumAddr - 1
      BY <1>2, InputType, AddressType DEF OcdRegisters
    <2>3. ocd_data' \in Byte
      BY <1>2, InputType DEF OcdRegisters, IInv, Types, AtPort
    <2>4. QED
      BY <1>2, <1>3, <2>1, <2>2, <2>3 DEF Types, IInv
  <1>5. Alone'
    <2>1. ocd_EX' # "none" => ocd_EX = "none" /\ in.to \in Moves
      BY <1>2, InputType DEF Moves, ByteMoves, WordMoves
    <2>2. ocd_EX' # "none" => ocd_addr' = ocd_addr
      BY <1>2, <2>1, CursorStays DEF OcdRegisters, Moves, ByteMoves, WordMoves
    <2>3. ocd_EX' # "none" => st_EX' = "none"
      BY <1>2, <2>1 DEF Access, Other, NoInput, Moves, ByteMoves, WordMoves
    <2>4. QED
      BY <1>2, <2>1, <2>2, <2>3, InputType DEF Alone, ByteMoves, WordMoves, Moves
  <1>6. AtPort'
    <2>1. ASSUME ocd_EX = "ld_DMb" PROVE result'[0] \in Byte
      <3>1. ocd_addr \in Addr /\ Load("lb", ocd_addr)
        BY <1>2, <2>1 DEF Access, ByteMoves, IInv, Alone
      <3>2. QED
        BY <1>1, <3>1, LoadByte
    <2>2. ASSUME ocd_EX = "st_DMb" PROVE st_EX' = "sb" /\ base' \in Addr
      <3>1. ocd_addr \in Addr /\ Store("sb", ocd_addr)
        BY <1>2, <2>2 DEF Access, ByteMoves, IInv, Alone
      <3>2. QED
        BY <3>1, StoreByte
    <2>3. QED
      BY <1>2, <2>1, <2>2 DEF AtPort
  <1>7. StoreAligned'
    <2> SUFFICES ASSUME st_EX' # "none" PROVE base' \in Nat /\ base' % Size(st_EX') = 0
      BY DEF StoreAligned, Size
    <2>1. PICK op \in Stores, a \in Addr : Store(op, a)
      BY <1>2 DEF Access, Load, Other, IInv, Alone, ByteMoves, Stores
    <2>2. a \in Nat
      BY DEF Addr, ConstantTypes
    <2>3. QED
      BY <2>1, <2>2, SizeType, AlignedDown DEF Store
  <1>8. QED
    BY <1>4, <1>5, <1>6, <1>7 DEF IInv
-----------------------------------------------------------------------------
\* A move takes effect at once, in its stage 2, for a debugger that sees what
\* stage 3 will do.

ViewBytes == IF ocd_S3 = "st_DMb" THEN [bytes EXCEPT ![base] = ocd_data] ELSE bytes
ViewData  == IF ocd_S3 = "ld_DMb" THEN result[0] ELSE ocd_data
ViewInstr == IF ocd_S3 = "ld_PMb" THEN pm_rd ELSE ocd_instr
Storing   == st_EX # "none" /\ ocd_S3 # "st_DMb"

LEMMA MoveStep ==
  ASSUME ConstantTypes, IInv, ocd_EX # "none", NEW in \in Inputs, Cycle(in)
  PROVE  View!Next
  <1>1. /\ ocd_S3 = "none" /\ st_EX = "none" /\ in = NoInput /\ ocd_EX \in Moves
        /\ ocd_S3' = ocd_EX /\ Access(in) /\ OcdRegisters(in) /\ ProgramMemory
    BY InputType DEF IInv, Alone, Types, Cycle
  <1>2. PICK d \in WriteData : bytes' = Done(d)
    BY DEF Cycle
  <1>3. bytes' = bytes
    BY <1>1, <1>2, NoStoreDone
  <1>4. /\ ocd_addr' = (ocd_addr + Increment) % NumAddr
        /\ ocd_data' = ocd_data /\ ocd_instr' = ocd_instr
    BY <1>1 DEF OcdRegisters, NoInput
  <1>5. /\ ViewBytes = bytes /\ ViewData = ocd_data /\ ViewInstr = ocd_instr /\ ~Storing
    BY <1>1 DEF ViewBytes, ViewData, ViewInstr, Storing
  <1>6. CASE ocd_EX = "ld_DMb"
    <2>1. ocd_addr \in Addr /\ Load("lb", ocd_addr) /\ Increment = 1
      <3>1. ocd_EX \in ByteMoves
        BY <1>6 DEF ByteMoves
      <3>2. Increment = 1
        BY <1>6 DEF Increment, ByteMoves, WordMoves
      <3>3. Load("lb", ocd_addr)
        BY <1>1, <1>6, <3>1 DEF Access
      <3>4. QED
        BY <3>1, <3>2, <3>3 DEF IInv, Alone
    <2>2. ViewData' = bytes[ocd_addr]
      BY <1>1, <1>2, <1>3, <1>6, <2>1, LoadByte DEF ViewData
    <2>3. ViewBytes' = bytes /\ ViewInstr' = ocd_instr /\ ~Storing' /\ PM' = PM
      BY <1>1, <1>3, <1>4, <1>6, <2>1
         DEF ViewBytes, ViewInstr, Storing, Load, ProgramMemory
    <2>4. View!GetByte
      BY <1>4, <1>5, <2>1, <2>2, <2>3 DEF View!GetByte, View!Addr, Addr, View!Advance,
         View!memories, ViewBytes, ViewData, ViewInstr
    <2>5. QED
      BY <1>5, <2>3, <2>4 DEF View!Next, View!Move, Storing
  <1>7. CASE ocd_EX = "st_DMb"
    <2>1. ocd_addr \in Addr /\ Store("sb", ocd_addr) /\ Increment = 1
      <3>1. ocd_EX \in ByteMoves
        BY <1>7 DEF ByteMoves
      <3>2. Increment = 1
        BY <1>7 DEF Increment, ByteMoves, WordMoves
      <3>3. Store("sb", ocd_addr)
        BY <1>1, <1>7, <3>1 DEF Access
      <3>4. QED
        BY <3>1, <3>2, <3>3 DEF IInv, Alone
    <2>2. ViewBytes' = [bytes EXCEPT ![ocd_addr] = ocd_data]
      BY <1>1, <1>3, <1>4, <1>7, <2>1, StoreByte DEF ViewBytes
    <2>3. ViewData' = ocd_data /\ ViewInstr' = ocd_instr /\ ~Storing' /\ PM' = PM
      BY <1>1, <1>4, <1>7 DEF ViewData, ViewInstr, Storing, ProgramMemory
    <2>4. View!PutByte
      BY <1>4, <1>5, <2>1, <2>2, <2>3 DEF View!PutByte, View!Addr, Addr, View!Advance,
         ViewBytes, ViewData, ViewInstr
    <2>5. QED
      BY <1>5, <2>3, <2>4 DEF View!Next, View!Move, Storing
  <1>8. CASE ocd_EX \in WordMoves
    <2>1. ocd_addr < 4 * NumWords /\ Other /\ Increment = 4
      BY <1>1, <1>8 DEF IInv, Alone, WordMoves, ByteMoves, Access, Increment
    <2>2. ViewBytes' = bytes /\ ViewData' = ocd_data /\ ~Storing'
      BY <1>1, <1>3, <1>4, <1>8, <2>1 DEF WordMoves, ViewBytes, ViewData, Storing, Other
    <2>3. CASE ocd_EX = "ld_PMb"
      <3>1. ViewInstr' = PM[ocd_addr \div 4] /\ PM' = PM
        BY <1>1, <2>3 DEF ProgramMemory, ViewInstr
      <3>2. View!GetWord
        BY <1>4, <1>5, <2>1, <2>2, <3>1 DEF View!GetWord, View!Advance, View!memories,
           ViewBytes, ViewData, ViewInstr
      <3>3. QED
        BY <1>5, <2>2, <3>2 DEF View!Next, View!Move, Storing
    <2>4. CASE ocd_EX = "st_PMb"
      <3>1. ViewInstr' = ocd_instr /\ PM' = [PM EXCEPT ![ocd_addr \div 4] = ocd_instr]
        BY <1>1, <1>4, <2>4 DEF ProgramMemory, ViewInstr
      <3>2. View!PutWord
        BY <1>4, <1>5, <2>1, <2>2, <3>1 DEF View!PutWord, View!Advance,
           ViewBytes, ViewData, ViewInstr
      <3>3. QED
        BY <1>5, <2>2, <3>2 DEF View!Next, View!Move, Storing
    <2>5. QED
      BY <1>8, <2>3, <2>4 DEF WordMoves
  <1>9. QED
    BY <1>1, <1>6, <1>7, <1>8 DEF Moves, ByteMoves, WordMoves

\* Otherwise the debugger writes a register, and the core may store.
LEMMA OtherStep ==
  ASSUME ConstantTypes, IInv, ocd_EX = "none", NEW in \in Inputs, Cycle(in)
  PROVE  View!Next
  <1>1. /\ ocd_S3' = "none" /\ OcdRegisters(in) /\ PM' = PM
    BY DEF Cycle, ProgramMemory
  <1>2. PICK d \in WriteData : bytes' = Done(d)
    BY DEF Cycle
  <1>3. /\ ocd_addr' = IF in.to = "ocd_addr" THEN in.value ELSE ocd_addr
        /\ ocd_data' = IF in.to = "ocd_data" THEN in.value ELSE ViewData
        /\ ocd_instr' = IF in.to = "ocd_instr" THEN in.value ELSE ViewInstr
    BY <1>1, CursorStays DEF OcdRegisters, ViewData, ViewInstr
  <1>4. ViewBytes' = bytes' /\ ViewData' = ocd_data' /\ ViewInstr' = ocd_instr'
    BY <1>1 DEF ViewBytes, ViewData, ViewInstr
  <1>5. View!SetRegister
    <2>1. /\ in.to = "ocd_addr" => in.value \in 0 .. NumAddr - 1
          /\ in.to = "ocd_data" => in.value \in Byte
          /\ in.to = "ocd_instr" => in.value \in IWords
      BY InputType
    <2>2. ocd_addr \in 0 .. NumAddr - 1
      BY DEF IInv, Types
    <2>3. \/ ocd_addr' \in 0 .. NumAddr - 1 /\ ViewData' = ViewData /\ ViewInstr' = ViewInstr
          \/ ViewData' \in Byte /\ ocd_addr' = ocd_addr /\ ViewInstr' = ViewInstr
          \/ ViewInstr' \in IWords /\ ocd_addr' = ocd_addr /\ ViewData' = ViewData
      BY <1>3, <1>4, <2>1, <2>2
    <2>4. QED
      BY <2>3 DEF View!SetRegister, View!Byte, Byte, ViewData, ViewInstr
  <1>6. CASE ocd_S3 = "st_DMb"
    <2>1. d = [i \in 0 .. 3 |-> ocd_data] /\ st_EX = "sb" /\ base \in Addr /\ base \in Nat
      BY <1>6 DEF WriteData, IInv, AtPort, Addr, ConstantTypes
    <2>2. Done(d) = [bytes EXCEPT ![base] = ocd_data]
      <3>1. Size(st_EX) = 1 /\ st_EX \in Stores
        BY <2>1 DEF Size, Stores
      <3>2. \A a \in Addr : a \in base .. base + Size(st_EX) - 1 <=> a = base
        BY <2>1, <3>1 DEF Addr, ConstantTypes
      <3>3. d[base - base] = ocd_data
        BY <2>1
      <3>4. QED
        BY <3>1, <3>2, <3>3 DEF Done, IInv, Types
    <2>3. ViewBytes' = ViewBytes
      BY <1>2, <1>4, <1>6, <2>2 DEF ViewBytes
    <2>4. View!CoreRuns
      BY <1>1, <2>3 DEF View!CoreRuns, ViewBytes
    <2>5. QED
      BY <1>5, <2>4 DEF View!Next
  <1>7. CASE ocd_S3 # "st_DMb"
    <2>1. ViewBytes = bytes /\ (Storing <=> st_EX # "none")
      BY <1>7 DEF ViewBytes, Storing
    <2>2. ViewBytes' \in [Addr -> Byte]
      BY <1>2, <1>4, DoneType
    <2>3. \A a, b \in Addr : ViewBytes'[a] # ViewBytes[a] /\ ViewBytes'[b] # ViewBytes[b]
            => a \div 4 = b \div 4
      BY <1>2, <1>4, <2>1, StoreInOneWord
    <2>4. ~Storing => ViewBytes' = ViewBytes
      BY <1>2, <1>4, <2>1, NoStoreDone
    <2>5. View!CoreRuns
      BY <1>1, <2>2, <2>3, <2>4 DEF View!CoreRuns, View!Addr, Addr, View!Byte, Byte, ViewBytes,
         Storing
    <2>6. QED
      BY <1>5, <2>5 DEF View!Next
  <1>8. QED
    BY <1>6, <1>7

\* Each move is of the byte or word at the cursor, after all earlier stores and
\* moves, with nothing of the program's in between (ocd.n:60-98).
THEOREM Atomic ==
  ASSUME ConstantTypes
  PROVE  DbgSpec => MovesAtomic
  <1>1. DbgInit => IInv /\ View!Init
    <2> SUFFICES ASSUME DbgInit PROVE IInv /\ View!Init
      OBVIOUS
    <2>1. 0 \in Byte /\ 0 \in 0 .. NumAddr - 1
      BY DEF ConstantTypes, Byte
    <2>2. IInv
      BY <2>1 DEF DbgInit, Init, IInv, Types, Alone, AtPort, StoreAligned, Moves, ByteMoves,
         WordMoves
    <2>3. View!Init
      BY DEF ConstantTypes, DbgInit, Init, View!Init, View!Addr, Addr
    <2>4. QED
      BY <2>2, <2>3
  <1>2. IInv /\ [DbgNext]_<<vars, debugVars>> => IInv' /\ [View!Next]_View!vars
    <2> SUFFICES ASSUME IInv, [DbgNext]_<<vars, debugVars>>
                 PROVE  IInv' /\ [View!Next]_View!vars
      OBVIOUS
    <2>1. CASE DbgNext
      BY <2>1, StepIInv, MoveStep, OtherStep DEF DbgNext
    <2>2. CASE UNCHANGED <<vars, debugVars>>
      <3>1. UNCHANGED <<bytes, st_EX, base, result, ocd_addr, ocd_data, ocd_instr, ocd_EX,
                        ocd_S3, PM, pm_rd>>
        BY <2>2 DEF vars, debugVars
      <3>2. IInv'
        BY <3>1 DEF IInv, Types, Alone, AtPort, StoreAligned, Size
      <3>3. UNCHANGED View!vars
        BY <3>1 DEF View!vars, View!memories, View!registers
      <3>4. QED
        BY <3>2, <3>3
    <2>3. QED
      BY <2>1, <2>2
  <1>3. QED
    BY <1>1, <1>2, PTL DEF DbgSpec, MovesAtomic, View!Spec
-----------------------------------------------------------------------------
(***************************************************************************)
(* The JTAG port.                                                          *)
(***************************************************************************)

\* The two synchronisations, of the instruction register and of the scan
\* register, are alike.
Channels == {"ir", "dr"}

Updating(c) == state = IF c = "ir" THEN "UPDATE_IR" ELSE "UPDATE_DR"
Level(c) == IF c = "ir" THEN jtag_update_ir_REG ELSE jtag_update_dr_REG
Samples(c) == IF c = "ir" THEN sync_ir_REG ELSE sync_dr_REG
Strobed(c) == IF c = "ir" THEN dbg_instr_exec_REG ELSE dbg_data_we_REG
Due(c) == IF c = "ir" THEN due_ir ELSE due_dr

\* The states that may follow an update at once, and those two clocks later.
Soon == {"RUN_TEST_IDLE", "SELECT_DR_SCAN"}
Later == Soon \union {"CAPTURE_DR", "SELECT_IR_SCAN"}

\* Nothing is due and the strobe is away: the samples are on their way down, or
\* were never up but for those of the reset.
Away(c) ==
  /\ ~Level(c) /\ ~Strobed(c) /\ Due(c) = None
  /\ Updating(c) => jtag_tck = 1
  /\ state = "TEST_LOGIC_RESET" => /\ Samples(c)[1] => Samples(c)[2]
                                   /\ Samples(c)[2] => Samples(c)[3]
                                   /\ ticks # 0 => ~Samples(c)[1]
  /\ state \in Later => /\ ~Samples(c)[1]
                        /\ Samples(c)[2] => Samples(c)[3]
                        /\ ticks # 0 /\ jtag_tck = 0 => ~Samples(c)[2]
  /\ state \notin Later \union {"TEST_LOGIC_RESET"} =>
       /\ ~Samples(c)[1] /\ ~Samples(c)[2]
       /\ ticks # 0 \/ jtag_tck = 0 => ~Samples(c)[3]

\* The register has been updated, and the samples are all down.
Waiting(c) ==
  /\ ~Level(c) /\ ~Strobed(c) /\ Due(c) # None
  /\ Updating(c) /\ jtag_tck = 0
  /\ ~Samples(c)[1] /\ ~Samples(c)[2] /\ ~Samples(c)[3]

\* The level is up, for two half periods: the samples fill up, and the strobe
\* comes with the third.
Up(c) ==
  /\ Level(c) /\ state \in Soon
  /\ Samples(c)[2] => Samples(c)[1]
  /\ Samples(c)[3] => Samples(c)[2]
  /\ Strobed(c) => Samples(c)[3]
  /\ Due(c) = None <=> Samples(c)[3] /\ ~Strobed(c)
  /\ ticks # 0 \/ jtag_tck = 0 => Samples(c)[1]
  /\ ticks # 0 /\ jtag_tck = 0 => Samples(c)[2]

\* The level has just gone down, after two samples at least.
Down(c) ==
  /\ ~Level(c) /\ state \in Later /\ jtag_tck = 1 /\ ticks = 0
  /\ Samples(c)[1] /\ Samples(c)[2]
  /\ Strobed(c) => Samples(c)[3]
  /\ Due(c) = None <=> Samples(c)[3] /\ ~Strobed(c)

\* After two samples only, the strobe comes with the first one that is down, and
\* acts with the second: before the half period that follows is over.
Pending(c) ==
  /\ ~Level(c) /\ state \in Later /\ (jtag_tck = 1 <=> ticks # 0)
  /\ ~Samples(c)[1] /\ Samples(c)[2] /\ Samples(c)[3]
  /\ Strobed(c) /\ Due(c) # None

Crossing(c) == Away(c) \/ Waiting(c) \/ Up(c) \/ Down(c) \/ Pending(c)

\* What is due is in the registers.
Bound ==
  /\ due_ir # None => due_ir = jtag_ireg_slave
  /\ due_dr # None => due_dr = <<jtag_ireg_slave, scan_reg_slave>>

JtagInv == TypeOK /\ Bound /\ \A c \in Channels : Crossing(c)

LEMMA AfterUpdate ==
  ASSUME NEW tms \in {0, 1}, state \in {"UPDATE_IR", "UPDATE_DR"}
  PROVE  next_state(tms) \in Soon
  BY DEF next_state, OnOne, OnZero, Soon

LEMMA AfterSoon ==
  ASSUME NEW tms \in {0, 1}, state \in Soon
  PROVE  next_state(tms) \in Later
  BY DEF next_state, OnOne, OnZero, Soon, Later

LEMMA AfterReset ==
  ASSUME NEW tms \in {0, 1}, state = "TEST_LOGIC_RESET"
  PROVE  next_state(tms) \in {"TEST_LOGIC_RESET", "RUN_TEST_IDLE"}
  BY DEF next_state, OnOne, OnZero

LEMMA AfterTapState ==
  ASSUME NEW tms \in {0, 1}, state \in TapState
  PROVE  next_state(tms) \in TapState
  BY DEF next_state, OnOne, OnZero, TapState

LEMMA ChannelType ==
  ASSUME TypeOK, NEW c \in Channels
  PROVE  /\ Level(c) \in BOOLEAN /\ Strobed(c) \in BOOLEAN
         /\ Samples(c)[1] \in BOOLEAN /\ Samples(c)[2] \in BOOLEAN /\ Samples(c)[3] \in BOOLEAN
         /\ jtag_tck \in {0, 1} /\ ticks \in Nat
  BY TicksAssumption DEF TypeOK, Channels, Level, Strobed, Samples

LEMMA CrossingRises ==
  ASSUME TypeOK, NEW c \in Channels, Crossing(c), NEW tms \in {0, 1}, TckRise(tms)
  PROVE  Crossing(c)'
  <1>1. /\ jtag_tck = 0 /\ jtag_tck' = 1 /\ ticks # 0 /\ ticks' = 0
        /\ state' = next_state(tms)
        /\ Level(c)' <=> Updating(c)
        /\ Samples(c)' = Samples(c) /\ Strobed(c)' = Strobed(c) /\ Due(c)' = Due(c)
    BY TicksAssumption DEF TckRise, syncVars, historyVars, Channels, Level, Updating, Samples,
       Strobed, Due
  <1>2. /\ Level(c) \in BOOLEAN /\ Strobed(c) \in BOOLEAN
        /\ Samples(c)[1] \in BOOLEAN /\ Samples(c)[2] \in BOOLEAN /\ Samples(c)[3] \in BOOLEAN
    BY ChannelType
  <1>3. CASE Away(c)
    <2>1. ~Updating(c)
      BY <1>1, <1>3 DEF Away
    <2>2. state = "TEST_LOGIC_RESET" => state' \in {"TEST_LOGIC_RESET", "RUN_TEST_IDLE"}
      BY <1>1, AfterReset
    <2> HIDE DEF Level, Samples, Strobed, Due, Updating
    <2>3. QED
      BY <1>1, <1>2, <1>3, <2>1, <2>2 DEF Away, Crossing, Later, Soon
  <1>4. CASE Waiting(c)
    <2>1. state' \in Soon
      BY <1>1, <1>4, AfterUpdate DEF Waiting, Updating
    <2>2. QED
      BY <1>1, <1>2, <1>4, <2>1 DEF Waiting, Up, Crossing
  <1>5. CASE Up(c)
    <2>1. state' \in Later /\ ~Updating(c)
      BY <1>1, <1>5, AfterSoon DEF Up, Updating, Soon
    <2>2. QED
      BY <1>1, <1>2, <1>5, <2>1 DEF Up, Down, Crossing
  <1>6. ~Down(c) /\ ~Pending(c)
    BY <1>1 DEF Down, Pending
  <1>7. QED
    BY <1>3, <1>4, <1>5, <1>6 DEF Crossing

LEMMA CrossingFalls ==
  ASSUME TypeOK, TypeOK', NEW c \in Channels, Crossing(c), TckFall
  PROVE  Crossing(c)'
  <1>1. /\ jtag_tck = 1 /\ jtag_tck' = 0 /\ ticks # 0 /\ ticks' = 0
        /\ state' = state /\ Level(c)' = Level(c)
        /\ Samples(c)' = Samples(c) /\ Strobed(c)' = Strobed(c)
    BY TicksAssumption DEF TckFall, tapVars, syncVars, Channels, Level, Samples, Strobed
  <1>2. /\ ~Updating(c) => Due(c)' = Due(c)
        /\ Updating(c) => Due(c)' # None
    <2>1. jtag_ireg_slave' # None
      BY NoneAssumption DEF TypeOK
    <2>2. <<jtag_ireg_slave, scan_reg_slave'>> # None
      BY NoneAssumption DEF TypeOK
    <2>3. QED
      BY <2>1, <2>2 DEF TckFall, Channels, Updating, Due
  <1>3. /\ Level(c) \in BOOLEAN /\ Strobed(c) \in BOOLEAN
        /\ Samples(c)[1] \in BOOLEAN /\ Samples(c)[2] \in BOOLEAN /\ Samples(c)[3] \in BOOLEAN
    BY ChannelType
  <1>4. Updating(c)' <=> Updating(c)
    BY <1>1 DEF Updating
  <1>5. CASE Away(c) /\ ~Updating(c)
    BY <1>1, <1>2, <1>3, <1>4, <1>5 DEF Away, Crossing
  <1>6. CASE Away(c) /\ Updating(c)
    <2>1. state \notin Later \union {"TEST_LOGIC_RESET"}
      BY <1>6 DEF Updating, Later, Soon
    <2>2. QED
      BY <1>1, <1>2, <1>3, <1>4, <1>6, <2>1 DEF Away, Waiting, Crossing
  <1>7. CASE Up(c)
    <2>1. ~Updating(c)
      BY <1>7 DEF Up, Updating, Soon
    <2>2. QED
      BY <1>1, <1>2, <1>3, <1>7, <2>1 DEF Up, Crossing
  <1>8. CASE Pending(c)
    <2>1. ~Updating(c)
      BY <1>8 DEF Pending, Updating, Later, Soon
    <2>2. QED
      BY <1>1, <1>2, <1>3, <1>8, <2>1 DEF Pending, Crossing
  <1>9. ~Waiting(c) /\ ~Down(c)
    BY <1>1 DEF Waiting, Down
  <1>10. QED
    BY <1>5, <1>6, <1>7, <1>8, <1>9 DEF Crossing

LEMMA CrossingTicks ==
  ASSUME TypeOK, NEW c \in Channels, Crossing(c), Tick
  PROVE  Crossing(c)'
  <1>1. /\ UNCHANGED <<jtag_tck, state>> /\ ticks' # 0
        /\ Level(c)' = Level(c)
        /\ Strobed(c)' = (Samples(c)[2] /\ ~Samples(c)[3])
        /\ Due(c)' = IF Strobed(c) THEN None ELSE Due(c)
        /\ Samples(c)' = <<Level(c), Samples(c)[1], Samples(c)[2]>>
    BY TicksAssumption DEF Tick, TypeOK, tapVars, Sample, Strobe, Channels, Level, Samples, Strobed,
       Due
  <1>2. /\ Samples(c)'[1] = Level(c)
        /\ Samples(c)'[2] = Samples(c)[1]
        /\ Samples(c)'[3] = Samples(c)[2]
    BY <1>1
  <1>3. /\ Level(c) \in BOOLEAN /\ Strobed(c) \in BOOLEAN
        /\ Samples(c)[1] \in BOOLEAN /\ Samples(c)[2] \in BOOLEAN /\ Samples(c)[3] \in BOOLEAN
        /\ jtag_tck \in {0, 1} /\ ticks \in Nat
    BY ChannelType
  <1>4. Updating(c)' <=> Updating(c)
    BY <1>1 DEF Updating
  <1>5. CASE Away(c)
    BY <1>1, <1>2, <1>3, <1>4, <1>5 DEF Away, Crossing, Later, Soon
  <1>6. CASE Waiting(c)
    BY <1>1, <1>2, <1>3, <1>4, <1>6 DEF Waiting, Crossing
  <1>7. CASE Up(c)
    BY <1>1, <1>2, <1>3, <1>7 DEF Up, Crossing
  <1>8. CASE Down(c)
    <2>1. ~Updating(c)
      BY <1>8 DEF Down, Updating, Later, Soon
    <2>2. QED
      BY <1>1, <1>2, <1>3, <1>4, <1>8, <2>1 DEF Down, Away, Pending, Crossing, Later, Soon
  <1>9. CASE Pending(c)
    <2>1. ~Updating(c)
      BY <1>9 DEF Pending, Updating, Later, Soon
    <2>2. QED
      BY <1>1, <1>2, <1>3, <1>4, <1>9, <2>1 DEF Pending, Away, Crossing, Later, Soon
  <1>10. QED
    BY <1>5, <1>6, <1>7, <1>8, <1>9 DEF Crossing

\* What is due leaves its traces in the state of the TAP controller.
LEMMA DueWhen ==
  ASSUME TypeOK, NEW c \in Channels, Crossing(c), Due(c) # None
  PROVE  /\ jtag_tck = 1 => state \in Later
         /\ jtag_tck = 0 /\ ticks # 0 => Updating(c) \/ state \in Soon
  <1>1. /\ Level(c) \in BOOLEAN /\ Strobed(c) \in BOOLEAN
        /\ Samples(c)[1] \in BOOLEAN /\ Samples(c)[2] \in BOOLEAN /\ Samples(c)[3] \in BOOLEAN
        /\ jtag_tck \in {0, 1} /\ ticks \in Nat
    BY ChannelType
  <1>2. QED
    BY <1>1 DEF Crossing, Away, Waiting, Up, Down, Pending, Later

\* A strobe finds something due.
LEMMA StrobedDue ==
  ASSUME TypeOK, NEW c \in Channels, Crossing(c), Strobed(c)
  PROVE  Due(c) # None
  <1>1. /\ Level(c) \in BOOLEAN /\ Strobed(c) \in BOOLEAN
        /\ Samples(c)[1] \in BOOLEAN /\ Samples(c)[2] \in BOOLEAN /\ Samples(c)[3] \in BOOLEAN
    BY ChannelType
  <1>2. QED
    BY <1>1 DEF Crossing, Away, Waiting, Up, Down, Pending

LEMMA JtagInvInit == JtagInit => JtagInv
  <1> SUFFICES ASSUME JtagInit
               PROVE  JtagInv
    OBVIOUS
  <1>1. TypeOK
    <2>1. state \in TapState
      BY DEF JtagInit, TapState, OnZero
    <2>2. /\ sync_ir_REG \in BOOLEAN \X BOOLEAN \X BOOLEAN
          /\ sync_dr_REG \in BOOLEAN \X BOOLEAN \X BOOLEAN
      BY DEF JtagInit
    <2>3. ticks \in 0 .. MinTicks
      BY TicksAssumption DEF JtagInit
    <2>4. QED
      BY <2>1, <2>2, <2>3 DEF JtagInit, TypeOK, Command, Word
  <1>2. Bound
    BY DEF JtagInit, Bound
  <1>3. ASSUME NEW c \in Channels
        PROVE  Crossing(c)
    <2>1. /\ state = "TEST_LOGIC_RESET" /\ ticks = 0 /\ ~Updating(c)
          /\ ~Level(c) /\ ~Strobed(c) /\ Due(c) = None /\ Samples(c) = <<TRUE, TRUE, TRUE>>
      BY DEF JtagInit, Channels, Updating, Level, Samples, Strobed, Due
    <2>2. Samples(c)[1] /\ Samples(c)[2] /\ Samples(c)[3]
      BY <2>1
    <2>3. state \notin Later
      BY <2>1 DEF Later, Soon
    <2>4. Away(c)
      BY <2>1, <2>2, <2>3 DEF Away
    <2>5. QED
      BY <2>4 DEF Crossing
  <1>4. QED
    BY <1>1, <1>2, <1>3 DEF JtagInv

LEMMA JtagTypes ==
  ASSUME TypeOK, [JtagNext]_jtagVars
  PROVE  TypeOK'
  <1>1. ASSUME NEW tms \in {0, 1}, TckRise(tms)
        PROVE  TypeOK'
    <2>1. state' \in TapState
      BY <1>1, AfterTapState DEF TckRise, TypeOK
    <2>2. jtag_ireg_master' \in Command /\ scan_reg_master' \in Word
      BY <1>1 DEF TckRise, TypeOK, Command, Word
    <2>3. QED
      BY <1>1, <2>1, <2>2, TicksAssumption DEF TckRise, TypeOK, slaveVars, syncVars, historyVars
  <1>2. CASE TckFall
    <2>1. jtag_ireg_slave' \in Command /\ scan_reg_slave' \in Word
      BY <1>2 DEF TckFall, next_ireg, TypeOK, Command
    <2>2. due_ir' \in Command \union {None} /\ due_dr' \in (Command \X Word) \union {None}
      BY <1>2, <2>1 DEF TckFall, TypeOK
    <2>3. QED
      BY <1>2, <2>1, <2>2, TicksAssumption DEF TckFall, TypeOK, tapVars, syncVars
  <1>3. CASE Tick
    <2>1. sync_ir_REG' \in BOOLEAN \X BOOLEAN \X BOOLEAN /\ sync_dr_REG' \in BOOLEAN \X BOOLEAN \X BOOLEAN
      BY <1>3 DEF Tick, TypeOK, Sample
    <2>2. dbg_instr_exec_REG' \in BOOLEAN /\ dbg_data_we_REG' \in BOOLEAN
      BY <1>3 DEF Tick, TypeOK, Strobe
    <2>3. ticks' \in 0 .. MinTicks
      BY <1>3, TicksAssumption DEF Tick, TypeOK
    <2>4. QED
      BY <1>3, <2>1, <2>2, <2>3 DEF Tick, TypeOK, tapVars, slaveVars
  <1>4. CASE UNCHANGED jtagVars
    BY <1>4 DEF jtagVars, tapVars, slaveVars, syncVars, historyVars, TypeOK
  <1>5. QED
    BY <1>1, <1>2, <1>3, <1>4 DEF JtagNext

\* Nothing is due when an update, or the reset of the TAP controller, changes
\* a register that it would have been taken from.
LEMMA NothingDue ==
  ASSUME JtagInv, TckFall, state \in {"UPDATE_IR", "UPDATE_DR", "TEST_LOGIC_RESET"}
  PROVE  due_ir = None /\ due_dr = None
  <1>1. state \notin Later /\ jtag_tck = 1
    BY DEF TckFall, Later, Soon
  <1>2. Due("ir") = None /\ Due("dr") = None
    BY <1>1, DueWhen DEF JtagInv, Channels
  <1>3. QED
    BY <1>2 DEF Due

LEMMA BoundStep ==
  ASSUME JtagInv, [JtagNext]_jtagVars
  PROVE  Bound'
  <1>1. ASSUME NEW tms \in {0, 1}, TckRise(tms)
        PROVE  Bound'
    BY <1>1 DEF JtagInv, Bound, TckRise, slaveVars, historyVars
  <1>2. CASE TckFall
    <2>1. CASE state \in {"UPDATE_IR", "UPDATE_DR", "TEST_LOGIC_RESET"}
      BY <1>2, <2>1, NothingDue DEF TckFall, next_ireg, Bound
    <2>2. CASE state \notin {"UPDATE_IR", "UPDATE_DR", "TEST_LOGIC_RESET"}
      BY <1>2, <2>2 DEF TckFall, next_ireg, JtagInv, Bound
    <2>3. QED
      BY <2>1, <2>2
  <1>3. CASE Tick
    BY <1>3 DEF JtagInv, Bound, Tick, slaveVars
  <1>4. CASE UNCHANGED jtagVars
    BY <1>4 DEF JtagInv, Bound, jtagVars, slaveVars, historyVars
  <1>5. QED
    BY <1>1, <1>2, <1>3, <1>4 DEF JtagNext

LEMMA JtagInvNext ==
  ASSUME JtagInv, [JtagNext]_jtagVars
  PROVE  JtagInv'
  <1>1. TypeOK /\ TypeOK' /\ Bound'
    BY JtagTypes, BoundStep DEF JtagInv
  <1>2. ASSUME NEW c \in Channels
        PROVE  Crossing(c)'
    <2>1. Crossing(c)
      BY DEF JtagInv
    <2>2. CASE UNCHANGED jtagVars
      BY <2>1, <2>2 DEF jtagVars, tapVars, syncVars, historyVars, Crossing, Away, Waiting, Up, Down,
         Pending, Updating, Level, Samples, Strobed, Due
    <2>3. QED
      BY <1>1, <2>1, <2>2, CrossingRises, CrossingFalls, CrossingTicks DEF JtagNext
  <1>3. QED
    BY <1>1, <1>2 DEF JtagInv

\* The registers of the port keep their types, for any instructions and words.
THEOREM JtagTypeCorrect == JtagSpec => []TypeOK
  <1>1. JtagInv => TypeOK
    BY DEF JtagInv
  <1>2. QED
    BY <1>1, JtagInvInit, JtagInvNext, PTL DEF JtagSpec

\* What is captured to be scanned out is not out of date, if the processor
\* clock ticks in each half period of TCK: it need not be twice as fast as the
\* build makes it (jtag_scan_register.v:45-46).
THEOREM CaptureCorrect == JtagSpec => CapturedIsCurrent
  <1>1. ASSUME JtagInv, [JtagNext]_jtagVars
        PROVE  [state = "CAPTURE_DR" /\ state' # "CAPTURE_DR"
                  => due_ir = None /\ due_dr = None]_jtagVars
    <2>1. SUFFICES ASSUME JtagNext, state = "CAPTURE_DR", state' # "CAPTURE_DR"
                   PROVE  due_ir = None /\ due_dr = None
      BY <1>1 DEF jtagVars
    <2>2. PICK tms \in {0, 1} : TckRise(tms)
      BY <2>1 DEF JtagNext, TckFall, Tick, tapVars
    <2>3. jtag_tck = 0 /\ ticks # 0
      BY <2>2, TicksAssumption DEF TckRise
    <2>4. Due("ir") = None /\ Due("dr") = None
      BY <1>1, <2>1, <2>3, DueWhen DEF JtagInv, Channels, Updating, Soon
    <2>5. QED
      BY <2>4 DEF Due
  <1>2. QED
    BY <1>1, JtagInvInit, JtagInvNext, PTL DEF JtagSpec, CapturedIsCurrent

\* Every command shifted in is executed as it was shifted in, at most once and
\* before the next one, however the clocks interleave (jtag_interface.v).
THEOREM CommandsCrossOnce == JtagSpec => CommandBox!Spec
  <1>1. JtagInit => CommandBox!Init
    BY DEF JtagInit, CommandBox!Init
  <1>2. ASSUME JtagInv, [JtagNext]_jtagVars
        PROVE  [CommandBox!Next]_CommandBox!vars
    <2>1. ASSUME NEW tms \in {0, 1}, TckRise(tms)
          PROVE  UNCHANGED CommandBox!vars
      BY <2>1 DEF TckRise, historyVars, CommandBox!vars
    <2>2. CASE TckFall /\ state = "UPDATE_IR"
      <3>1. due_ir = None /\ due_ir' = jtag_ireg_slave' /\ UNCHANGED <<got_ir, num_ir>>
        BY <2>2, <1>2, NothingDue DEF TckFall
      <3>2. jtag_ireg_slave' \in Command
        BY <1>2, JtagTypes DEF JtagInv, TypeOK
      <3>3. QED
        BY <3>1, <3>2 DEF CommandBox!Put, CommandBox!Next
    <2>3. CASE TckFall /\ state # "UPDATE_IR"
      BY <2>3 DEF TckFall, CommandBox!vars
    <2>4. CASE Tick /\ dbg_instr_exec_REG
      <3>1. Strobed("ir") /\ "ir" \in Channels /\ Crossing("ir") /\ TypeOK
        BY <1>2, <2>4 DEF Strobed, Channels, JtagInv
      <3>2. due_ir # None
        BY <3>1, StrobedDue DEF Due
      <3>3. QED
        BY <1>2, <2>4, <3>2 DEF JtagInv, Bound, Tick, CommandBox!Take, CommandBox!Next
    <2>5. CASE Tick /\ ~dbg_instr_exec_REG
      BY <2>5 DEF Tick, CommandBox!vars
    <2>6. CASE UNCHANGED jtagVars
      BY <2>6 DEF jtagVars, historyVars, CommandBox!vars
    <2>7. QED
      BY <1>2, <2>1, <2>2, <2>3, <2>4, <2>5, <2>6 DEF JtagNext
  <1>3. QED
    BY <1>1, <1>2, JtagInvInit, JtagInvNext, PTL DEF JtagSpec, CommandBox!Spec

\* Every data word is taken as it was shifted in, by the register that the
\* command named when it was, at most once and before the next one.
THEOREM WordsCrossOnce == JtagSpec => WordBox!Spec
  <1>1. JtagInit => WordBox!Init
    BY DEF JtagInit, WordBox!Init
  <1>2. ASSUME JtagInv, [JtagNext]_jtagVars
        PROVE  [WordBox!Next]_WordBox!vars
    <2>1. ASSUME NEW tms \in {0, 1}, TckRise(tms)
          PROVE  UNCHANGED WordBox!vars
      BY <2>1 DEF TckRise, historyVars, WordBox!vars
    <2>2. CASE TckFall /\ state = "UPDATE_DR"
      <3>1. /\ due_dr = None /\ due_dr' = <<jtag_ireg_slave, scan_reg_slave'>>
            /\ UNCHANGED <<got_dr, num_dr>>
        BY <2>2, <1>2, NothingDue DEF TckFall
      <3>2. <<jtag_ireg_slave, scan_reg_slave'>> \in Command \X Word
        BY <1>2, JtagTypes DEF JtagInv, TypeOK
      <3>3. QED
        BY <3>1, <3>2 DEF WordBox!Put, WordBox!Next
    <2>3. CASE TckFall /\ state # "UPDATE_DR"
      BY <2>3 DEF TckFall, WordBox!vars
    <2>4. CASE Tick /\ dbg_data_we_REG
      <3>1. Strobed("dr") /\ "dr" \in Channels /\ Crossing("dr") /\ TypeOK
        BY <1>2, <2>4 DEF Strobed, Channels, JtagInv
      <3>2. due_dr # None
        BY <3>1, StrobedDue DEF Due
      <3>3. QED
        BY <1>2, <2>4, <3>2 DEF JtagInv, Bound, Tick, WordBox!Take, WordBox!Next
    <2>5. CASE Tick /\ ~dbg_data_we_REG
      BY <2>5 DEF Tick, WordBox!vars
    <2>6. CASE UNCHANGED jtagVars
      BY <2>6 DEF jtagVars, historyVars, WordBox!vars
    <2>7. QED
      BY <1>2, <2>1, <2>2, <2>3, <2>4, <2>5, <2>6 DEF JtagNext
  <1>3. QED
    BY <1>1, <1>2, JtagInvInit, JtagInvNext, PTL DEF JtagSpec, WordBox!Spec
=============================================================================
