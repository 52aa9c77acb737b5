---------------------------- MODULE DebuggerView ----------------------------
(***************************************************************************)
(* What a debugger is promised of the memories of a halted core: a cursor, *)
(* and commands each of which moves one byte of data memory or one word of *)
(* program memory at once and puts the cursor behind it.  The program's    *)
(* own stores get in between only while the core has one under way.        *)
(***************************************************************************)
EXTENDS Integers

CONSTANTS
  NumBytes,   \* bytes of data memory
  NumWords,   \* words of program memory
  NumAddr,    \* addresses
  ByteVals,
  IWords      \* instruction words

VARIABLES
  bytes, words,                   \* data memory, program memory
  ocd_addr, ocd_data, ocd_instr,  \* the cursor, what is moved
  storing                         \* a store of the core's is under way

memories == <<bytes, words>>
registers == <<ocd_addr, ocd_data, ocd_instr>>
vars == <<memories, registers, storing>>

Addr == 0 .. NumBytes - 1
Byte == 0 .. ByteVals - 1

Init ==
  /\ bytes = [a \in Addr |-> 0]
  /\ words \in [0 .. NumWords - 1 -> IWords]
  /\ ocd_addr = 0
  /\ ocd_data = 0
  /\ ocd_instr \in IWords
  /\ storing = FALSE

Advance(n) == ocd_addr' = (ocd_addr + n) % NumAddr

GetByte ==
  /\ ocd_addr \in Addr
  /\ Advance(1)
  /\ ocd_data' = bytes[ocd_addr]
  /\ UNCHANGED <<memories, ocd_instr>>

PutByte ==
  /\ ocd_addr \in Addr
  /\ Advance(1)
  /\ bytes' = [bytes EXCEPT ![ocd_addr] = ocd_data]
  /\ UNCHANGED <<words, ocd_data, ocd_instr>>

GetWord ==
  /\ ocd_addr < 4 * NumWords
  /\ Advance(4)
  /\ ocd_instr' = words[ocd_addr \div 4]
  /\ UNCHANGED <<memories, ocd_data>>

PutWord ==
  /\ ocd_addr < 4 * NumWords
  /\ Advance(4)
  /\ words' = [words EXCEPT ![ocd_addr \div 4] = ocd_instr]
  /\ UNCHANGED <<bytes, ocd_data, ocd_instr>>

Move ==
  /\ ~storing
  /\ GetByte \/ PutByte \/ GetWord \/ PutWord
  /\ UNCHANGED storing

(* The debugger writes one of the registers, or does nothing, ... *)
SetRegister ==
  \/ ocd_addr' \in 0 .. NumAddr - 1 /\ UNCHANGED <<ocd_data, ocd_instr>>
  \/ ocd_data' \in Byte /\ UNCHANGED <<ocd_addr, ocd_instr>>
  \/ ocd_instr' \in IWords /\ UNCHANGED <<ocd_addr, ocd_data>>

(* ... while the core may complete a store to one word and begin another. *)
CoreRuns ==
  /\ \/ UNCHANGED bytes
     \/ /\ storing
        /\ bytes' \in [Addr -> Byte]
        /\ \A a, b \in Addr : bytes'[a] # bytes[a] /\ bytes'[b] # bytes[b] => a \div 4 = b \div 4
  /\ storing' \in BOOLEAN
  /\ UNCHANGED words

Next == Move \/ (SetRegister /\ CoreRuns)

Spec == Init /\ [][Next]_vars
=============================================================================
