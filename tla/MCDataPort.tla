----------------------------- MODULE MCDataPort -----------------------------
(***************************************************************************)
(* The data port for TLC: DataPort with two words, one-bit bytes, and two  *)
(* register values to store that differ in every pair of lanes a wrong     *)
(* steering could mix up; and DebugAccess, the debugger's way to it, with  *)
(* one word of data memory, two of program memory, addresses beyond either *)
(* and one of those values to store.  A behaviour is of one of the two.    *)
(***************************************************************************)
EXTENDS DataPort

VARIABLES
  part,
  bytes, st_EX, base, result,   \* those of DebugAccess
  ocd_addr, ocd_data, ocd_instr, ocd_EX, ocd_S3, PM, pm_rd

debug == <<bytes, st_EX, base, result,
           ocd_addr, ocd_data, ocd_instr, ocd_EX, ocd_S3, PM, pm_rd>>

D == INSTANCE DebugAccess WITH
       StoreData <- {[l \in 0 .. 3 |-> IF l \in {0, 3} THEN 1 ELSE 0]},
       NumBytes <- 4, IWords <- {0, 1}, NumWords <- 2, NumAddr <- 8

ASSUME DebuggerAssumption == D!ConstantTypes

MCStoreData ==
  {[l \in 0 .. 3 |-> IF l \in {0, 3} THEN 1 ELSE 0],
   [l \in 0 .. 3 |-> IF l \in {0} THEN 0 ELSE 1]}

MCInit ==
  /\ part \in {"program", "debugger"}
  /\ Init
  /\ D!DbgInit
  /\ pm_rd = 0   \* no move uses it before a load of PM sets it
  /\ part = "program" => PM = [w \in 0 .. 1 |-> 0]

MCNext ==
  /\ UNCHANGED part
  /\ \/ part = "program" /\ Next /\ UNCHANGED debug
     \/ part = "debugger" /\ D!DbgNext /\ UNCHANGED vars

MCSpec == MCInit /\ [][MCNext]_<<vars, debug, part>>
-----------------------------------------------------------------------------
(* The debugger's moves are atomic and in order: MovesAtomic of DebugAccess. *)
MovesAtomic == D!View!Init /\ [][part = "debugger" => D!View!Next]_(D!View!vars)
=============================================================================
