------------------------------ MODULE Allocator ------------------------------
(***************************************************************************)
(* What malloc, calloc, realloc and free promise a program.  Storage is     *)
(* handed out in runs of blocks.  A run that is handed out shares no block  *)
(* with one the program holds, and a request is refused only when no run of *)
(* free blocks is long enough for it.  Which run is taken is left open.     *)
(***************************************************************************)
EXTENDS Integers

CONSTANT NrOfBlocks   \* the blocks of the pool are 0 .. NrOfBlocks - 1

VARIABLES
  held,      \* the runs the program holds
  request    \* the call under way: the blocks it wants and the run it replaces

vars == <<held, request>>

Blocks == 0 .. NrOfBlocks - 1

Run == [at : Blocks, size : 1 .. NrOfBlocks]

(* The blocks of a run. *)
Extent(run) == run.at .. run.at + run.size - 1

None == [at |-> -1, size |-> 0]

NoRequest == [size |-> 0, old |-> None]

Requests == [size : Nat \ {0}, old : Run \cup {None}]

TypeOK ==
  /\ held \subseteq Run
  /\ request \in Requests \cup {NoRequest}

(* The runs of n blocks none of which is held. *)
FreeRuns(n) ==
  {run \in Run :
     /\ run.size = n
     /\ run.at + n <= NrOfBlocks
     /\ \A other \in held : Extent(run) \cap Extent(other) = {}}

Init ==
  /\ held = {}
  /\ request = NoRequest

(* The program asks for some blocks; realloc names the run they replace. *)
Ask ==
  /\ request = NoRequest
  /\ request' \in Requests
  /\ request'.old \in held \cup {None}
  /\ UNCHANGED held

(* Nothing the program holds is touched, but the run realloc replaces. *)
Grant ==
  /\ request # NoRequest
  /\ \E run \in FreeRuns(request.size) : held' = (held \ {request.old}) \cup {run}
  /\ request' = NoRequest

Refuse ==
  /\ request # NoRequest
  /\ FreeRuns(request.size) = {}
  /\ request' = NoRequest
  /\ UNCHANGED held

Release(run) ==
  /\ request = NoRequest
  /\ held' = held \ {run}
  /\ UNCHANGED request

Next ==
  \/ Ask
  \/ Grant
  \/ Refuse
  \/ \E run \in held : Release(run)

Spec == Init /\ [][Next]_vars

(* No block is in two runs: Grant keeps it so. *)
HeldDisjoint ==
  \A run, other \in held : run # other => Extent(run) \cap Extent(other) = {}

=============================================================================
