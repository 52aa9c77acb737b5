------------------------------ MODULE Startup -------------------------------
(***************************************************************************)
(* The life of a program: _start calls the constructors, main and exit     *)
(* (runtime/src/crt0.c); exit calls the functions registered with atexit,  *)
(* the latest first, from a table of limited size (runtime/src/atexit.c).  *)
(* The first one registered is _fini, which calls the destructors.         *)
(*                                                                         *)
(* Constructors, main, registered functions and destructors are the        *)
(* program's own code: while one of them runs it may register functions,   *)
(* call exit - also from within exit, which does not return to it - or     *)
(* abort.                                                                  *)
(***************************************************************************)
EXTENDS Integers

CONSTANTS
  CAPACITY,   \* of the table, 64 in the source
  Ctors,      \* the constructors and destructors of the program
  Dtors,
  MaxAtexit   \* bound: calls of atexit by the program

ASSUME CapacityAssumption == CAPACITY \in Nat
ASSUME BoundAssumption == MaxAtexit \in Nat

VARIABLES
  stage,       \* what is on the stack below the program's code
  t,           \* the local variable of _init or _fini
  busy,        \* the program's code runs
  atexits,     \* the table: the call of atexit that filled an entry
  atexit_nxt,  \* the index of the next free entry
  tried,       \* history: calls of atexit so far
  registered,  \* history: those that reported success
  runs         \* history: how often the function of each call has been called

startupVars == <<stage, t, busy, atexits, atexit_nxt, tried, registered, runs>>

_fini == 0   \* the first call of atexit

Registrations == 0 .. MaxAtexit

StartupInit ==
  /\ stage = "reset"
  /\ t = 0
  /\ busy = FALSE
  /\ atexits = [i \in 0 .. CAPACITY - 1 |-> _fini]
  /\ atexit_nxt = 0
  /\ tried = 0
  /\ registered = {}
  /\ runs = [r \in Registrations |-> 0]

(* Fault: a full table is reported as a success. *)
CxaAtexitSilent ==
  /\ IF atexit_nxt = CAPACITY
     THEN UNCHANGED <<atexits, atexit_nxt>>
     ELSE /\ atexits' = [atexits EXCEPT ![atexit_nxt] = tried]
          /\ atexit_nxt' = atexit_nxt + 1
  /\ registered' = registered \cup {tried}
  /\ tried' = tried + 1
  /\ UNCHANGED runs

(* __cxa_atexit: a full table takes nothing, and the call says so. *)
CxaAtexit ==
  /\ IF atexit_nxt = CAPACITY
     THEN UNCHANGED <<atexits, atexit_nxt, registered>>
     ELSE /\ atexits' = [atexits EXCEPT ![atexit_nxt] = tried]
          /\ atexit_nxt' = atexit_nxt + 1
          /\ registered' = registered \cup {tried}
  /\ tried' = tried + 1
  /\ UNCHANGED runs

table == <<atexits, atexit_nxt, tried, registered, runs>>

_start ==
  /\ stage = "reset"
  /\ CxaAtexit
  /\ stage' = "init"
  /\ t' = Ctors
  /\ UNCHANGED busy

(* _init, in the reverse order of the list. *)
Construct ==
  /\ stage = "init" /\ ~busy /\ t # 0
  /\ t' = t - 1
  /\ busy' = TRUE
  /\ UNCHANGED <<stage, table>>

Main ==
  /\ stage = "init" /\ ~busy /\ t = 0
  /\ stage' = "main"
  /\ busy' = TRUE
  /\ UNCHANGED <<t, table>>

Register ==
  /\ busy /\ tried <= MaxAtexit
  /\ CxaAtexit
  /\ UNCHANGED <<stage, t, busy>>

ProgramReturns ==
  /\ busy /\ stage # "main"
  /\ busy' = FALSE
  /\ UNCHANGED <<stage, t, table>>

(* The program calls exit, or main returns to _start, which does. *)
Exit ==
  /\ busy
  /\ stage' = "finalize"
  /\ busy' = FALSE
  /\ UNCHANGED <<t, table>>

(* Fault: the entry is taken off the table once its function has returned. *)
FinalizeKeeps ==
  LET r == atexits[atexit_nxt - 1]
  IN  /\ stage = "finalize" /\ ~busy /\ atexit_nxt # 0
      /\ atexit_nxt' = IF runs[r] = 0 THEN atexit_nxt ELSE atexit_nxt - 1
      /\ runs' = [runs EXCEPT ![r] = @ + 1]
      /\ IF r = _fini THEN stage' = "fini" /\ t' = 0 /\ UNCHANGED busy
                      ELSE busy' = TRUE /\ UNCHANGED <<stage, t>>
      /\ UNCHANGED <<atexits, tried, registered>>

(* A turn of __cxa_finalize: the entry is free again before its function   *)
(* is called.                                                              *)
Finalize ==
  LET r == atexits[atexit_nxt - 1]
  IN  /\ stage = "finalize" /\ ~busy /\ atexit_nxt # 0
      /\ atexit_nxt' = atexit_nxt - 1
      /\ runs' = [runs EXCEPT ![r] = @ + 1]
      /\ IF r = _fini THEN stage' = "fini" /\ t' = 0 /\ UNCHANGED busy
                      ELSE busy' = TRUE /\ UNCHANGED <<stage, t>>
      /\ UNCHANGED <<atexits, tried, registered>>

Destruct ==
  /\ stage = "fini" /\ ~busy /\ t # Dtors
  /\ t' = t + 1
  /\ busy' = TRUE
  /\ UNCHANGED <<stage, table>>

FiniReturns ==
  /\ stage = "fini" /\ ~busy /\ t = Dtors
  /\ stage' = "finalize"
  /\ UNCHANGED <<t, busy, table>>

(* clib_exit: the simulator is told, and nothing happens any more. *)
ClibExit ==
  /\ stage = "finalize" /\ ~busy /\ atexit_nxt = 0
  /\ stage' = "exit"
  /\ UNCHANGED <<t, busy, table>>

(* abort and _Exit call nothing more. *)
Abort ==
  /\ busy
  /\ stage' = "aborted"
  /\ busy' = FALSE
  /\ UNCHANGED <<t, table>>

Progress ==
  _start \/ Construct \/ Main \/ ProgramReturns \/ Exit \/ Finalize \/ Destruct \/ FiniReturns \/ ClibExit

StartupNext == Register \/ Abort \/ Progress

StartupSpec == StartupInit /\ [][StartupNext]_startupVars /\ WF_startupVars(Progress)
-----------------------------------------------------------------------------
(* The functions that are to be called are in the table, in the order in   *)
(* which they were registered; the others have been called, once.          *)
TableOrdered ==
  /\ atexit_nxt \in 0 .. CAPACITY
  /\ \A i, j \in 0 .. atexit_nxt - 1 : i < j => atexits[i] < atexits[j]
  /\ {r \in registered : runs[r] = 0} = {atexits[i] : i \in 0 .. atexit_nxt - 1}
  /\ \A r \in registered : runs[r] \in {0, 1} /\ r < tried

(* A function registered with success is called once, and the one that was *)
(* registered last is called first; one that was refused is not called.    *)
(* This also goes for functions that others register while exit calls them *)
(* (atexit.c:45-51).                                                       *)
LatestFirst(r) ==
  /\ r \in registered
  /\ runs[r] = 0
  /\ \A later \in registered : later > r => runs[later] = 1

ExitRunsLatestFirst ==
  [][\A r \in Registrations : runs'[r] # runs[r] => LatestFirst(r)]_startupVars

(* exit ends, and no function that was registered is left out, also when   *)
(* one of them calls exit; unless the program aborts.                      *)
ExitEnds ==
  stage = "finalize" ~>
    \/ stage = "exit" /\ \A r \in registered : runs[r] = 1
    \/ stage = "aborted"
=============================================================================
