# trv32p3_cnn: verification project

trv32p3_cnn is a 32-bit RISC-V core (RV32IM subset) with a three-stage pipeline, a
multi-cycle divider, a CNN multiply-accumulate unit, an on-chip debug controller
behind a JTAG port, and the run-time library its compiler needs. The hardware is described
in nML and PDG (`lib/*.n`, `lib/*.p`); the Verilog under `hdl/` is generated from
that description. The library is C (`lib/runtime`, `lib/*.h`, `lib/*.c`). The modules here
are translated from these sources; paths below are relative to `src/`.

To check: `tlc -config X.cfg M` for a run of the table in section 3, `tlapm M.tla` for
the eight `*Proofs` modules.

## 1. Inventory

### The hardware

| Component | State | Operations | What makes it correct |
|---|---|---|---|
| Data memory write-back buffer (`lib/dm.p`, `dm_wbb`) | address/strobe/data registers of one store, `edm_st_ff`, `edm_wbb_ff`, `edm_addr_match_ff`, the memory eDM | a clock cycle with a load, a store or neither; a debugger's byte access; reset | it cannot be told from a memory without a buffer; every store gets to eDM; a reset undoes the latest store at most |
| Data memory port (`lib/dm.p`, `dm_merge`; `lib/ldst.n`) | column and store kind of the last access | lb, lbu, lh, lhu, lw, sb, sh, sw | bytes read are the bytes last stored, extended correctly |
| Division unit (`lib/div.p`) | `cnt`, `PA`, `B`, sign and kind flags | start, step, write back | RISC-V quotient and remainder, zero divisor and overflow included; ends |
| PCU and pipeline (`lib/trv32p3_cnn_pcu.p`, `lib/ctrl.n`, `lib/div.n`, `lib/ldst.n`, `controller/hazards.v`, `controller/decoder.v`) | PC, `r_fetched`, `r_state`, instruction registers, register file | one clock cycle: fetch, issue or stall, execute, write back; reset | the pipelined core executes the program one instruction after the other |
| Debug controller (`controller/debug_controller.v`, `lib/ocd.n`) | command, breakpoints, status register, `dbg_instr_exec`, `ocd_addr`, `ocd_data`, `ocd_instr` | request, resume, step, execute, breakpoint on/off, reset, moves to and from both memories | the core halts where it was told to, steps by one, and the status tells the truth; moves are atomic and in order |
| JTAG port (`controller/jtag_*.v`) | TAP state, instruction and data scan registers, synchronisers | edges of TCK, ticks of the processor clock | every command and word arrives exactly once, and a scan does not capture what is older than them |
| CNN unit (`lib/cnn.p`, `lib/cnn.n`) | accumulator x22, pointers x23 and x24 | mac, incmac, exp, relu | accumulation is exact, or saturates |
| ALU, multiplier (`lib/alu.n`, `lib/mpy.n`, `isg/trv32p3_cnn_inline_primitives.h`) | none | combinational | 32-bit arithmetic |

How they interact: the pipeline drives the address of a load or store in ID and
takes or gives the data in EX, one cycle later; `dm_merge` steers the lanes and
passes words on to `dm_wbb`. A division leaves EX at once and comes back
33 cycles later for the register file's one general write port: the
pipeline learns of it through `div_bsy`, `div_adr` and `div_wnc` only. The debug
controller sees PC, `ocd_mode` and `ocd_swbreak` and drives `ocd_req`, an
instruction to execute and `dbg_reset`; its moves between the memories and its registers
take a stage each beside the pipeline's and use its data port; its own commands come over
JTAG from another clock.

### The software

| Component | State | Operations | What makes it correct |
|---|---|---|---|
| Heap (`runtime/src/malloc.c`) | pool of blocks, a head word per chunk, a doubly linked list of free chunks | malloc, calloc, realloc, free | storage handed out is disjoint; malloc refuses only when nothing is long enough; the list survives being joined while it is walked |
| Start-up and exit (`runtime/src/crt0.c`, `atexit.c`) | table of exit functions, position in the lists of constructors and destructors | `_start`, `_init`, `__cxa_atexit`, `__cxa_finalize`, `_fini`, exit, abort | each registered function runs once, the latest first, and exit ends |
| Streams (`runtime/src/stdio.c`) | `FOPEN_MAX` FILE objects, errno | open, close, reopen, all uses of a stream, with and without a host | a FILE stands for the stream the host opened for it, and slots are neither lost nor shared |
| Sorting (`runtime/src/qsort.c`) | the array, the part that is sorted, the pointers into it, the calls that wait | qsort and the turns of its loops | a sorted permutation, whichever way the partition takes, and an end |
| Strings (`runtime/src/string.c`) | the place of strtok | memory and string functions, strtok | what they write and where, what they find |
| Numbers (`runtime/src/strtol.c`, `strtoul.c`) | errno | strtol, strtoul | value, end pointer, ERANGE at the edges |
| Bit-level mathematics (`runtime/src/math.c`) | none | ldexp, ceil, floor, round, sqrt, fmod | exact or nearest result, subnormal numbers included |
| Long long (`trv32p3_cnn_c_longlong.h`, `trv32p3_cnn_c_div.c`) | none | all operators on two words, division by restoring | the arithmetic of twice the width |

`lib/newlib`, `lib/softfloat`, `lib/compiler-rt` and `lib/libcxx-lite` are third-party code. The
library is sequential and its parts share nothing but the registers: exit calls the program's own
functions, which may register more and call exit again; qsort and the exit table call back; stdio
hands every operation to a host, if there is one.

### What is hard here

* Reads that happen a stage before the write they depend on, and a unit that
  writes dozens of cycles later: the stall rules must cover every pair.
* Two conditions in the PCU that must agree and are computed apart: whether PC
  advances, and whether the instruction at PC is issued - with jumps, stalls,
  halts and patched programs meeting in the same cycle.
* A single memory port shared by loads, delayed stores and the debugger's moves.
* A debugger that asks for a halt in any cycle, by four different causes, and a reset
  that clears the core but neither the memories nor the controller that asked for it.
* Commands that cross from one clock to another.
* A list changed by the walk over it, a table that grows while it is emptied, a pool of
  objects that are used again.
* Arithmetic in halves: carries, shifts by the width of a word, rounding across two words.

`PROJECT.json` lists these hazards at their lines, with the properties that would catch each going
wrong.

## 2. The modules

```
 hardware
  RvMemory  <== DataPort ----uses---> SeqMemory <-- ResetMemory <== DmWbb (DmWbbProofs)
     ^ EXTENDS     (DataPortProofs)       (ResetMemory EXTENDS SeqMemory)
  DebugAccess ==> DebuggerView    (DebugAccessProofs)
  Isa <== Pipeline (PipelineProofs)                 Divider  (value taken by Pipeline)
             ^ EXTENDS, and is implemented by
          DebugCore (PipelineProofs)
  Mailbox <== JtagPort (DebugAccessProofs)     (commands as DebugCore takes them)
 software
  Allocator <== Heap (HeapProofs)    Startup, Stdio, Qsort, Strings (RuntimeProofs)
  Powers <-- MathBits (MathProofs)   Numbers (MathProofs)
 arithmetic (ArithmeticProofs)
  Powers <-- CnnUnit     Powers <-- Alu <-- Divider     Alu <-- LongLong
```
`A <== B`: B is shown to implement the abstract specification A; `A <-- B`: B extends A.

### Hardware

**SeqMemory** is a memory whose stores take effect in the cycle their data are on
the bus. **ResetMemory** adds a reset in any cycle: `kept` is what a reset leaves in the row of the
latest store, which survives once its data have come and a cycle without a load has followed its
address. **DmWbb** is `dm_wbb`: `Load`, `Store` and `Idle` are the paths of
`process_request`, `WdmRd` is `process_result`, `DbgRead`/`DbgWrite` are
`dbg_access_wDM`, `Reset` clears its registers and leaves eDM. Only with a load is the port taken;
then the store of the cycle before goes to `edm_data_ff`. The refinement mapping takes for the
abstract memory eDM with the buffered lanes laid over it. `ld_EX` is the pipeline's: an answer
counts only in the cycle after a load.

**RvMemory** is the byte-addressed memory of the instruction set. **DataPort** is
`dm_merge` and the load/store rules of `ldst.n`, on top of SeqMemory, which DmWbb
justifies. A misaligned access is outside the specification: `dm_merge` has no
case for it, and DataPort's mapping does not look at the answer.

**DebuggerView** is what a debugger is promised of the memories of a halted core: a cursor, and
commands that each move one byte or one word at once. **DebugAccess** is what it gets
(`lib/ocd.n:60-98`): a move is decoded, increments `ocd_addr` in stage 2 while it uses the address,
and has its data in stage 3; `Cycle` is a clock cycle of the moves, the registers and the data
port, the core's own last stores included. A scan for the address register reads back the PC, not
`ocd_addr` (`debug_controller.v`, `dbg_register_mux`), so the view has no command to read the
cursor.

**Divider** is `div.p`, a bit a cycle: `Start`, `Step` and `Finish` are
the branches of the process, on the primitives of Alu; `Reference` is `divs`, `rems`, `divu` and `remu` of the same file.
Words are W bits wide. `req` is a history variable: the division under way.

**Instructions** has one instruction class for each behaviour the pipeline
distinguishes: `alu` (reads two registers in EX, writes through port `x_w1`), `ld`, `st`, `br`, `jal`,
`jalr`, `div`, `mac` (the CNN step: its own ports), `swbrk`. **Isa** executes
one instruction per step. **Pipeline** is one clock cycle per step:
`Pcu` is `user_next_pc` and `user_issue`, `Issue` and `Advance` are the instruction registers
of the controller, `hw_stall` collects the `hw_stall` rules of `ldst.n`, `ctrl.n` and `div.n`,
`WriteBack` is the register file with the generated write-port multiplexers, and `Divide`
is the scoreboard side of the division unit. The value of a division is
computed when it starts (Divider shows it is that of the
reference); its effect on the register file comes `DivCycles` later. `Reset` clears every register
in any cycle; the memories stay, but for one cell: what ResetMemory says of the latest store is
coarsened here to "one cell may have changed". The refinement
mapping to Isa takes the oldest instruction in the pipeline for the next to be executed and
counts a register a division has yet to write as written.

**DebugCore** adds the debug controller: `set_dbg_mode`, `ocd_req`, `hits`,
`new_bp_hit` and `Delay` (`delay_proc`) are the signals of
`debug_controller.v`; `DbgCycle` is a clock cycle in which at most one command is executed.
After a reset command `CoreStep` holds the core for a cycle (`reset_instr`), while the controller,
which only the chip's reset clears, goes on: a local reset turns the breakpoints off, one sent to
all cores does not, and neither clears the status, so that a core that was halted is halted
again at address 0. `released` is a history variable, the instructions issued since the last
resume or step, up to two.

**Mailbox** is a box for one message, each taken once. **JtagPort** has an action for each
edge of TCK (`TckRise` for the master registers, `TckFall` for the slave
registers, as the two always-blocks have it) and one for the processor clock (`Tick`: three samples,
the registered strobe, the debug controller taking what is in the register).
`due_*`, `got_*` and `num_*` are history variables.

**CnnUnit** is `incmac` with its saturation and the reset of x22 between outputs, for W-bit words;
`sum` is the exact sum as a history variable. **Powers** has the powers of two, and **Alu** the primitives of the simulator
(`trv32p3_cnn_inline_primitives.h`) for words of W bits, the shifter's five-bit distance and the
multiplier's modes included.

### Software

**Allocator** hands out runs of blocks: any free run, and a refusal only if there is none.
**Heap** is `malloc.c`: the head words, the links in the words a reserved chunk gives away, one
action per turn of malloc's two loops (`Walk`, `Merge`, `TooShort`, `Take`), `Free`, and realloc as a
malloc that frees the old run in the step that takes the new one. calloc is malloc as far as the
heap goes. `chunks` is a history variable, where the chunks begin. `BlocksFor` computes in `size_t`, as the source
does, whose comment notes that there is "no guard against excessive values of `bytes'" (`malloc.c:150`): the last 19
values of `size_t` wrap in the sum, the chunk taken has no blocks or one, and the list may never come back to the
sentinel. Everything said of the heap is therefore under `SizesAssumption`: a program asks for no size with
`bytes + 19 > SIZE_MAX`, which is more than 4,294,967,276 bytes, of a pool of 262,144; and calloc's product (`malloc.c:198`),
which is not guarded either, is a size that has not wrapped.

**Startup** is the life of a program: `_start` registers `_fini`, constructs, calls main and exit
(`ProgramReturns` is one of its functions returning);
`Finalize` is a turn of `__cxa_finalize`. While the program's code runs (`busy`) it may register
functions, call exit, also from within exit, or abort. `registered` and `runs` are history.

**Stdio** has the FILE objects, the host's streams and errno, and every function of `stdio.c` by
what its result, errno and FILE depend on. `held` and `lost` are history. Three things the source
does that a reader may not expect, and which the model has: without a host, fdopen, remove, rename, close
and mkstemp report success, since what the library put in place of the answer means success
there; a freopen that fails leaves its FILE in use although the program has it no more (`lost`);
an fdopen nobody answers keeps the descriptor as its stream.

**Qsort** has the pointers of qsort as indexes, and a step for each turn of a loop: `ChoosePivot`, the turns of
the partition (`PassUp`, `PassDown`, `Exchange`), `Gather` for the two block swaps and what follows them, and the
insertion sort (`NextElement`, `Sink`, `SinkEnds`), which a short part (`FewElements`) and a partition that has swapped
nothing (`NothingSwapped`) share. `todo` is the stack: its last part is the one being sorted, the others are those
for which a call or `goto loop` is still to come. `Work` says what is left to do. The lengths 7 and 40 are constants.

**Strings** has the functions of `string.c` on a memory that is a function from addresses to characters; the one
that keeps something between its calls is strtok (`FirstToken`, `NextToken`, `last`). A loop that only looks is what
it finds (`Scan`, `Within`, `Differs`), a loop that writes is a recursive function. `CallBlocks` and
`CallTexts` are a program that calls the functions with blocks of memory and with strings.

**Strings**, **Numbers** and **MathBits** have a reference next to each function
(`CopiesExact`, `NumberExact`, `SqrtExact`, ...). A text "0x" with no digit behind it counts as no number, and the end
pointer is where it began, as in the source. MathBits works on doubles of E, H and L bits, with the source's constants
written in terms of these; sqrt's shift by the width of a word (`math.c:1785`), which C leaves
undefined, is what the core's shifter makes of it, a shift by 0. **LongLong** has each operator on two
words with its shortcuts for operands the compiler knows (`known`); `CallPair` and `CallShift` (in MathBits `AskWhole` and its like, in Numbers `Convert`) are a
program that asks for one of them on any operands.

Definitions whose comment begins with "Fault:" are not part of any specification. They are
plausible errors in the definition that follows them, with which the corresponding run fails
(`mutants` in `PROJECT.json`).

## 3. The runs

| Run | Checks | Shows |
|---|---|---|
| MCDmWbb | OneStoreWaits, ImplementsMemory, StoresReachMemory | the buffered memory answers as one without a buffer, whatever the order of loads, stores, debugger accesses and resets, and a reset undoes at most the latest store; stored bytes reach eDM |
| MCDataPort | ImplementsRvMemory, MovesAtomic | every load size, column and signedness reads what was last stored; a debugger's moves are atomic and in order, behind the program's last stores |
| MCDivider | PartialDivision, AnswersReference, DivisionEnds | every operand pair of 4 bits, all four operations, back to back: the value written is the reference's; each division ends |
| MCPipeline | FetchedIsAtPC, LinkIsNext, PortExclusive, DivNotLost, SwbreakStops, ImplementsIsa | every program of three instructions out of nine, halted, patched, resumed and reset at any time, executes as Isa says |
| MCDebugCore | ReleasedCount, HaltReported, DrivesPipeline, BreakpointStops, HaltStays | steps issue one instruction; no instruction at a breakpoint is issued unless released; the status says so when the core is halted; a core that was asked to halt does not get away, not by a reset either; the controller is a debugger Pipeline allows |
| MCDebugJumps | BreakpointHolds, HaltFollows, NoHazardDeadlock | with no breakpoints behind branches and jumps, a reported hit is where the core halts; every halt asked for comes; no stall stops a core for good |
| MCBreakpointBehindJump | BreakpointHolds, violated | the rule of `ctrl.n` keeps breakpoints away from branches only: see Findings |
| MCJtagPort | CapturedIsCurrent, EveryCommandOnce, EveryWordOnce | no command or word is lost, duplicated or mixed up with the next one, and what a scan reads back is not older than them |
| MCArithmetic | SumIsExact, LongLongExact, RoundingExact, RootExact, RemainderExact | the CNN accumulator is the exact sum whenever that is a word; long long arithmetic; rounding, roots and remainders of all doubles of a small format |
| MCCnnSaturation | SumSaturates, violated | the accumulation never saturates: see Findings |
| MCHeap | HeapConsistent, ImplementsAllocator, CallReturns | blocks, free list and what the program holds agree at every turn of malloc's loops; malloc hands out free runs and refuses only when none is long enough (which one it takes, the first that fits, is not part of Allocator); every call returns; all this for sizes that do not wrap |
| MCRuntime | TableOrdered, FilesKept, SortExact, StringsExact, NumbersExact, ExitRunsLatestFirst, ExitEnds | exit calls each function once, latest first, and ends; a FILE stands for its own stream; qsort returns the array in order, and every turn of its loops leaves less to do; the functions on memory, strings and numbers agree with their references |

MCArithmetic and MCRuntime put independent parts of the library beside each other; each part has
variables of its own, and a step picks the input of each function (MCQsortNext, MCStringsNext, MCNumbersNext, and their like in MCArithmetic). CHECK_DEADLOCK is off in
these two only: the steps of the CNN unit run out, and a program ends.

### Bounds, and why they are enough

* MCDmWbb: 2 rows, 2 lanes, 2 byte values. The code tells apart "the same row or
  another" and "lane strobed or not"; lanes and rows are treated alike. The proofs
  (section 4) lift the bound.
* MCDataPort: 2 words, the four lanes the code has, one-bit bytes (a byte is its
  sign and its value at once), store data that tell the lanes apart. The debugger's part has
  1 word of data, 2 of program, one value for the program's last stores, and as many
  addresses as the cursor needs to run off both.
* MCDivider: W = 4 has the smallest integer, the overflowing quotient, zero divisors
  and a trial subtraction at full width; register 0 and another.
* MCPipeline: programs wrap around after three instructions, so each of the nine meets
  each, itself included, at distances one to three, which is the depth of the pipeline; a
  division runs for 3 cycles, so that there are cycles
  in which it is busy, about to write, and writing. 3 registers
  (x0 and two others), one-bit values, 2 cells.
* MCDebugCore: one breakpoint (four in the source, which are combined by a
  disjunction only), 3 addresses, 2 registers, programs of three instructions out of an ALU operation, a branch
  and a software breakpoint, none of which uses data memory, so that resets leave it alone here. The data path is
  covered by MCPipeline, jumps and stalls under the debugger by MCDebugJumps, and the safety properties
  of this run are proved without bounds (section 4). MCDebugJumps has 4 addresses, so that a jump
  can go past the two slots behind it.
* MCJtagPort: MinTicks = 1. `.used_go_config.cfg` (line 83 and on, of
  `hdl/trv32p3_cnn_vlog-hwswdbg/`) has the processor at 500 MHz and TCK at 100 MHz, two and
  a half ticks to a half period; the protocol already works from one, and section 4 proves it from there on. With 0 it
  does not: TLC then finds a lost command.
* MCHeap: a pool of 5 blocks and runs of one, two and three of them (0, 13 and 40 bytes): a free chunk can
  have a free neighbour on either side or on both, the list can hold them in either order, and a chunk can be
  split, fit exactly, or be joined twice and still be too short. SIZE_MAX = 59 puts the largest size just below
  the wrap: 40 + 19 = 59.
* MCArithmetic: the CNN step with W = 4 and sums of up to 6 steps, enough to wrap in both directions
  and to come back; long long with halves of 3 bits, all pairs and all distances up
  to twice the width; doubles of 4 exponent bits with words of 2 and 4 fraction bits, subnormal numbers, infinities and what is
  not a number among them, so that carries run between the words and exponents end in either; all ints of 7 bits for
  ldexp, so that the sum of exponents wraps, and passes the largest and the least; roots up to 4, beyond
  which only the exponent differs; for fmod all pairs of numbers with exponents up to 3, infinities and what is not a number.
* MCRuntime: a table of 3 exit functions and 5 registrations, 2 constructors, 2 destructors; 2 FILE
  objects and 3 streams of the host, so that both run out; all arrays of up to 7 elements
  with three keys and of 9 with two for qsort, with the two lengths at which it changes its ways at 4 and 7 instead of 7 and 40, so
  that each way is taken, also in the parts of a part; blocks of up to 5 characters at all overlaps, strings of up to 3,
  texts of up to 5 with up to 2 delimiters for strtok; longs of 5 bits. The proofs lift the bounds but those of ExitEnds.

### Fairness

* DmWbb, `WF(IdleCycle \/ StoreCycle)`: a program cannot load in every
  cycle for ever, as the jump that closes its loop is not a load.
* Divider, `WF(Step \/ Finish)`: the clock runs.
* DebugCore, `WF(Tick)`: the processor's clock does not wait for commands, and a command takes
  many cycles to be shifted in. HaltFollows and NoHazardDeadlock are about what comes once no more
  resets are sent: a debugger that resets the core all the time keeps it at address 0.
* JtagPort, `WF(Tick)` and `WF(TckRise)`: the processor clock runs, and a debugger does not stop
  TCK low in the middle of a scan. TMS is free.
* Heap, `WF(Walk \/ Merge \/ TooShort \/ Take)`: the processor runs the loops of malloc. Nothing makes a
  program call it.
* Startup, `WF(Progress)`: the library runs on, and a function of the program that is called returns, exits or
  aborts at some time.

### Assumptions about the debugger

`DebuggerPaced` and `DebuggerWaits` say what the hardware relies on: instructions are
executed on a halted core at rest, resumes and steps are given to such a core, and
no command is sent while a resume or a step is under way or in the cycle of a reset. A command takes
some tens of TCK periods over JTAG, each several processor cycles long, and the debugger reads the status
register first. A halt or a reset may be asked for, and a breakpoint set or cleared, at any time.
DrivesPipeline shows that DebuggerPaced follows from DebuggerWaits and the controller.

DebugAccess assumes that the core is halted before anything is moved, that a scan takes longer than the
three stages of a move, and that no move is made at an address outside the memories.

### Findings

1. **The CNN accumulation does not saturate** (`lib/cnn.p:27` and `:55`).
   `INT32_SATURATION(c + multResult)` takes an int64_t, but the sum of two words is a
   word, and has wrapped before it is extended (`prim/primitives.v:466-467`). The
   comparisons with MAX_INT32 and MIN_INT32 are dead. SumIsExact shows what still holds: wrapping
   sums come back.
2. **Breakpoints behind jal and jalr** (`lib/ctrl.n:273-284`). The comment explains why no
   hardware breakpoint may be set in the slots behind a taken branch: breakpoints
   trigger by fetching. The rule that follows names class(branch) only. A jump in ID leaves PC at the address
   behind it for a cycle, so a breakpoint there is reported as hit, and the core halts at the
   jump's target, without getting to the breakpoint.

## 4. The proofs

All proofs are of `Spec` (`DbgSpec`, `JtagSpec`, `CnnSpec`, `CallSpec`, `MathSpec`,
`NumbersSpec`, `StartupSpec`, `StreamsSpec`, `QsortSpec`, `StringsSpec`) for every value of the constants, from the named
assumptions the modules declare (for DebugAccess, its `ConstantTypes`) and nothing else.

| Module | Theorem | Property |
|---|---|---|
| DmWbbProofs | TypeCorrect, WaitingStoresExclusive, Refinement | OneStoreWaits, ImplementsMemory |
| PipelineProofs | TypeCorrect, FetchCorrect, LinkCorrect, PortNeverShared, NoDivisionLost, SoftwareBreakpointHalts, Implements | FetchedIsAtPC, LinkIsNext, PortExclusive, DivNotLost, SwbreakStops, ImplementsIsa |
| PipelineProofs | HaltsAreReported, StepIssuesOne, ImplementsPipeline, BreakpointsStop, HaltsStay, BreakpointStays | HaltReported, ReleasedCount, DrivesPipeline, BreakpointStops, HaltStays, BreakpointHolds |
| DataPortProofs | Implements | ImplementsRvMemory |
| DebugAccessProofs | Atomic | MovesAtomic |
| DebugAccessProofs | JtagTypeCorrect, CaptureCorrect, CommandsCrossOnce, WordsCrossOnce | CapturedIsCurrent, and the safety parts of EveryCommandOnce and EveryWordOnce |
| ArithmeticProofs | DividerTypeCorrect, DivisionPartial, DivisionAnswers | PartialDivision, AnswersReference |
| ArithmeticProofs | AccumulatorExact | SumIsExact |
| ArithmeticProofs | LongLongCorrect | LongLongExact |
| MathProofs | RoundingCorrect | RoundingExact |
| MathProofs | RemainderCorrect | RemainderExact |
| MathProofs | RootCorrect | RootExact |
| MathProofs | NumbersCorrect | NumbersExact |
| RuntimeProofs | SortCorrect | SortExact |
| RuntimeProofs | StringsCorrect | StringsExact |
| RuntimeProofs | TableCorrect, LatestFirstCorrect, StreamsCorrect | TableOrdered, ExitRunsLatestFirst, FilesKept |
| HeapProofs | HeapCorrect, Implements, StorageDisjoint, LoopsEnd | HeapConsistent, ImplementsAllocator, that runs held are disjoint, and that each turn of malloc's loops leaves less to walk |

The two theorems named TypeCorrect, DividerTypeCorrect and JtagTypeCorrect say that TypeOK of DmWbb, Pipeline,
Divider and JtagPort is an invariant; no run spends its time on these, nor on the other type invariants, but HeapConsistent, which has Heap's as its first part.

*DmWbb.* The inductive invariant is TypeOK together with OneStoreWaits. The second is needed
because a buffered store and a store waiting for its data share the row and strobe registers; it holds
because a store cycle empties the buffer and a load cycle, which fills it, ends `edm_st_ff`. The refinement
has one lemma for each action; the hard one is the load, where the buffer is filled in the
cycle its answer is registered, and eDM with the buffer laid over it must be the
abstract memory after the store. A reset clears the buffer, and the abstract memory loses what `kept` does not
have of the latest row.

*Pipeline.* FetchedIsAtPC is not inductive on its own: `HoldOff`, an instruction of two cycles
leaves a gap behind it, must be known for the fetch address to be PC, and
LinkIsNext needs both; `RefetchAfterDebug` says that a core that begins to leave debug mode has nothing fetched
yet, however the debugger changed the program or PC. PortExclusive needs that a division about to write (`div_wnc`) held the
instruction in ID; DivNotLost that one in EX was checked against the busy unit in ID, and
that no division can have started in between. These parts are proved together, one step per part; a reset
establishes them all again, as the initial state does.

*DebugCore.* The invariant relates the history variable to the states of the PCU:
while a resume or a step is under way (`dbg_instr_exec`, `Leaving`) nothing has been issued; after it
the count agrees with what the PCU is about to do. ReleasedCount, HaltReported and
BreakpointStops follow, and HaltStays, as the status survives a reset and `OrdinaryCycle`, `ResetStep` and
`HeldStep` separate the cycles in which the core is held. ImplementsPipeline shows that every step of DebugCore is a
step of Pipeline or leaves it unchanged, for which `DebuggerPaced` must follow from `DebuggerWaits`; the theorems of
Pipeline thus hold for the core under its debug controller. BreakpointStays uses them: it assumes `JumpsGuarded`,
the rule with jal and jalr in it, which MCDebugJumps has and MCBreakpointBehindJump has not. PC is one or two addresses
behind the instructions in the pipeline (LinkIsNext, InOrder), so none of them is a branch or a jump when a breakpoint is hit
(`ApartFromJumps`); a hit asks for a halt until a resume or a step, so none is issued later.

*Isa.* That Pipeline implements Isa needs more than Control: `Order` says that what is in ID and EX was taken from
the program at the address it carries (or is the debugger's), that the one in ID follows the one in EX unless a branch
there is taken, that the operands ID computed are those EX would compute, and that the instruction in EX neither
reads nor writes the register of a division under way. A cycle then is one of four things (`FlowOfCycle`): the branch
in EX is taken, ID is stalled, ID jumps, or everything goes on. An instruction counts as executed when it leaves
EX, a debugger's jump when it leaves ID. With ImplementsPipeline this holds under the debug controller too.

*DataPort.* The invariant is the types, the lanes a waiting store will write, and that loads and stores are not
in EX at once. `MaskIsRange` says that the lanes of a write mask are the bytes from the aligned address
on, and `BytesRead` that an aligned load's columns are; the rest is arithmetic of rows and columns.

*DebugAccess.* The invariant says that a move is alone in the pipeline (`Alone`), that in stage 3 the port is at
its byte (`AtPort`), and that a store of the program's is aligned. The theorem assumes `ConstantTypes`, which
MCDataPort states of its instance and TLC evaluates.

*Startup.* The invariant says that the table holds the functions that were registered and not yet
called, in the order of their registration. A function registered while the table is emptied is later than
all the others, and is called next; so every call is of the latest one left.

*Heap.* malloc may split a chunk, reserve it and free another in one step. So the invariant is stated for
any heads, links, chunks and runs (`Sound`), and there is a lemma for each of these changes, for joining and for
the first pool, which the steps put together. It has two parts that HeapConsistent does not need and the
refinement does: no block lies outside the chunks, and the links make one list and not several rings, put without
induction: a set that holds the sentinel and is closed under `next` has all the free chunks. For the walk it says
that the chunks passed so far, linked up to the candidate, are too short and have a reserved successor
(`Passed`); when the walk is back at the sentinel these are all the free chunks, so no free run is long enough, and
the refusal is the allocator's. LoopsEnd says why the walk ends although malloc takes chunks off the list it walks: each turn
takes one off, or goes on to a chunk that was ahead and no longer is (`Ahead`, `AheadLess`), or has nothing more to join. That the candidate
is not ahead of itself is where the list must be one ring through the sentinel. With fairness, which is
TLC's part, this is CallReturns. All four theorems rest on `SizesAssumption`, by way of `BlocksExact`: a size gets the fewest
blocks that hold it and the head word, at least one. For a sum that wraps none of this is so.

*JTAG.* A command and a word go through the same stages, so there is one invariant for both channels
(`Crossing`): nothing is due (`Away`); something is, and its update register will rise at the end of the half period
(`Waiting`); the rise is on its way through the three samples (`Up`), with the strobe exactly in one of the ticks; the
register has fallen and the fall is on its way (`Down`); or the strobe is up at an edge of TCK (`Pending`), and the
debug controller acts at the next tick. Each says in which states of the TAP it can be, and this is what the theorems need: the registers that
are due are not shifted again (`Bound`), and CAPTURE_DR is not left while anything is due. One tick to a
half period of TCK is what the argument uses, as TicksAssumption has it.

*Streams.* FilesKept is inductive with the types of the tables. A FILE that a call takes is in nobody's
hands (`OwnStream`), and a stream the host opens is not one it has open; the lemmas are about a FILE that comes to
stand for a stream (`FileTaken`), and one that is given up (`FileGiven`).

*Induction on numbers.* The induction theorems of the library take an operator as a parameter, which no prover here
can instantiate. So the induction is stated for sets: a set of naturals that is not empty has a least element
(`Least`, from WFMin of the library and the order of the naturals), and one with 0 and every successor has all of them (`Induction`).
`Recursion` then says that a function defined by recursion over a range of numbers is what its definition says, which
Pow2 (`Pow2Recursive`), the number made of bits, the loop of the restoring division and that of strtol need.

*Divider.* The invariant (`DivInv`) is that the leading bits of the dividend have been divided by the divisor, giving
the quotient in the low bits of the pair and the remainder in its high word, with the bits to come between the two
(`Partial`). `Shifted` is what a step does to the pair, `DivStepPartial` that it takes one bit more; the overflowing
quotient needs that magnitudes of W bits are at most half of the range. `Answer` relates the
signs the unit puts on quotient and remainder to the integer division of the reference, by cases of the signs.

*CNN.* SumIsExact is not inductive, since a sum that is no word may become one again. The invariant is that the
accumulator and the sum differ by a multiple of the range (`Congruent`); two words that do are equal.

*Long long.* For each operator there is a lemma that its words are those of the exact result: carries and borrows
(`SumCarry`, `DifferenceBorrow`), the order of pairs (`Lexicographic`), products of halves and what signs change of
their high words (`ProductWords`, `SignedProduct`), bits that do not overlap add up (`DisjointBits`,
`Joined`) for the shifts within a word, and `ShiftFar` for those beyond; the division has a loop invariant like the divider's (`Looped`), with
all ones for a zero divisor, and is then carried to signed numbers by congruence (`Same`).

*Rounding.* The two words of a double are one number (`Place`), in which its exponent and its mantissa are digits,
and what carries out of the mantissa is right there: if the exponent field of a word is e and the rest with its first
bit is w, it counts for w * 2^(e - 1), even when w has just become 2^(P + 1) (`UnitsAt`). Each of the steps of the source, a cut
(`CutPlace`), one more in the last place (`AwayPlace`) and a half (`HalfPlace`), does to Place what it should in
either word, so that RoundingExact comes down to integers of 2^(P - j) units (`RoundedUnits`, `UnitRounding`, `HalfRounding`). It is
assumed that E, H and L make a format, with which the two words divide the mantissa as in the source (`Format`), and that
the exponents go beyond the mantissa (`WideExponents`), without which a number could round up into infinity: 52 bits and a bias of 1023 in a
double, 23 and 127 in a float.

*ldexp.* A number that is not 0 is a mantissa of P + 1 bits times a power of two, subnormal or not
(`NormalForm`, `LdexpForm`), and scaling it is exact while the exponent is one of a normal number (`ScaledUp`), and the nearest integer
to a quotient below (`ScaledDown`); the two together are `LdexpCorrect`. A sum of exponents that wraps is one of a number so large or so small that the
answer is infinity or 0 (`SumOfInts`); this is what Far in the source is for, and it needs that Far is
beyond all exponents and far from the largest int (`WideInts`). `FormatAssumption` is these three assumptions and the one of the
roots below; TLC evaluates it for the format of MCArithmetic.

*fmod.* The two words of a mantissa are one number (`Both`), on which a turn of the loop is a subtraction, if it can be,
and a doubling (`FmodTurnBoth`). What the turns have left stays below twice the divisor and differs from the dividend times a power of two
by a multiple of the divisor (`TurnsLeft`), so that the last turn leaves the remainder and a difference of 0 before it means that there is
none (`TurnsRemainder`). That is the remainder of the mantissas; with subnormal operands brought to the same form (`NumberApart`), it is that of the numbers,
in units of the divisor's exponent (`RemainderUnits`), and putting it together gives a double that is exact, normal or shifted across its two words
to where a subnormal one is (`ComposedUnits`, `UnderflowedUnits`). The loop is not run when the words of the dividend are
below those of the divisor, which is the order of the magnitudes (`UnitsIncrease`, `LessPlace`).

*sqrt.* Bit by bit, the loops keep (`RootLeft`): with N the number whose root is taken, q its bits so far and r the place of the last one,
the partial remainder is y = 2 * (N - q * q) / r, s = 2 * q, and y < 2 * (s + r). sqrtf does this in one word (`FloatTurns`), sqrt in two
(`RootWords`): the first loop changes the low word only by what is shifted out of it, and the second has the borrows and carries
(`HighTurns`, `LowTurns`). One bit more than the mantissa has is computed, and rounding by it, which is never a tie since
no square is in the middle, gives the integer whose neighbours by a half have squares around N (`NearestRoot`); in
units of the exponent these are the neighbours IsRoot is stated with (`RootIs`). A subnormal number gets its high word
from the low one in at most two turns and then a last shift. The width of that shift may be that of a word, which C leaves undefined and the
core takes for 0: the low word is then OR-ed into the high one as it is. But a turn has left nothing in its low H + 1 bits, so it
only sets bits that the next statement masks off (`LastShiftWords`).
`NormalRoots` says that no root is subnormal and that two high words with what is shifted in hold a low one: with 52 bits and a
bias of 1023, and 20 and 32 bits in the words, it is so.

*Numbers.* The limits are such that cutoff * base + cutlim is the end of the range, with 0 <= cutlim < base, also for
negative numbers, where C's remainder is negative and the source puts it right (`LimitsAre`, from `CDivision`). From this follows
the invariant of the loop: as long as what the digits so far are worth is in the range, the accumulator is that
or its negation, and then it is the end of the range and stays there, since what digits are worth only grows (`Counted`,
`TakenCounted`); `ConversionCounts` carries it through all of the turns. The rest is about positions: white space, a sign, a prefix
and digits lie one behind the other (`Layout`, `Opened`), so the number ends where the reference says (`Ends`, `DigitsEndAt`). All that is
assumed is that a long holds more than 0 and that white space, signs and the end are no digits (`DigitAssumption`).

*Sorting.* The invariant (`SortInv`) has three parts. The array is the given one with its elements in another
order (`Shuffled`, by a function that moves indexes), so that at the end every key occurs as often (`SameElements`).
The parts still to be sorted are apart from each other, and any two elements not in one part are in order already
(`Settled`); what moves elements inside the current part only keeps this (`SettledShuffled`). And each loop has its
own: the partition keeps equal elements at both ends, less and greater ones inside (`Partitioned`), the insertion
a part in order but for one element (`Sinking`). `SwapRangeExact` says what vecswap moves, `EndsChange` that exchanging
as many elements as the shorter of two neighbouring runs has makes the two change places, so that `Gather` leaves less,
equal and greater ones side by side (`GatherExact`). A partition that has swapped nothing leaves a part with everything
less or greater than its pivot, which the insertion then sorts like any other. `StepLessens` shows that each turn makes Work less in
the order of the dictionary on four naturals, for Gather because the pivot is in none of the parts that remain; that
qsort ends follows, as this order has no endless descent, and needs no fairness but that the processor runs. The lengths may be any
numbers, the lesser at least 1 (`LengthsAssumption`).

*Strings.* What the CHOOSE of a loop denotes is found by the least number of a set (`FirstExists`, `ScanExact`,
`WithinExact`, `DiffersExact`), and what a copying loop leaves by induction on its turns (`memcpyExact`, `CopyDownExact`).
memmove may go either way over blocks that overlap: upwards no character is read behind the place that has been written
(`Moved`), downwards none before it (`MovedDown`). Each function then has a lemma that it is its reference, for all
memories and strings. The comparisons stop where the order of the dictionary is decided (`DifferenceExact`); strstr
looks at the zero last, where only an empty string can begin. For strtok the invariant (`Walk`) is that the calls
have gone over p characters of the text: behind them the memory is as it was, before them it differs only by the
zeros that have replaced delimiters, the tokens are the runs of other characters that begin there, each a string, and the pointer is null or
behind p. A call finds no run behind p, or the next one (`strtokExact`, `TokenRuns`), and `WalkGoes` puts p behind its
delimiter. A text may be left at any point: the pointer stays, but the next text does not use it. A character has a greatest value, at least 1 (`CharAssumption`).

*Model-checked only.* Liveness (StoresReachMemory, DivisionEnds, NoHazardDeadlock, HaltFollows, CallReturns,
ExitEnds and the fairness parts of EveryCommandOnce and EveryWordOnce): the proof system
does not reason about fairness and ENABLED. Every other property of a passing run is proved. The two
properties expected to fail, SumSaturates and BreakpointHolds of MCBreakpointBehindJump, have their counterexamples.

## 5. Not modelled

* Instruction encodings and the selection of functional units by the decoder: generated tables. Illegal
  encodings. exp and relu: a table and a comparison.
* Requests of malloc, realloc and calloc whose size wraps in a `size_t` (`malloc.c:150-152, 198`): excluded by
  Heap's `SizesAssumption`, since the source does not guard against them.
* Blocks of more than 2 GB for memmove, whose downward loop has an `int` for its index (`string.c:39`); the
  core's memory is smaller, and the model's index a number.
* Addresses outside eDM; misaligned accesses, for which `dm_merge` has no case.
* Of the debug controller: the export of breakpoints to other cores, and the reset of the debug registers
  in DebugAccess. Of the JTAG port: TDO, bypass, TRST and the value a capture takes.
* Of the library: exp, log, pow and the trigonometric functions, whose rounding errors are numerical analysis;
  formatted output, which the host does; the host itself.
* Third-party code: `lib/newlib`, `lib/softfloat`, `lib/compiler-rt`, `lib/libcxx-lite`. Generated code: the
  simulators under `lib/isg` (but for the primitives the long long library is made of), the VHDL and the further Verilog
  variants, memory images, synthesis scripts. Programs that run on the core: the examples.

Counted in lines of C and C++ that are not tests, most of the repository is in the previous paragraph:
`lib/softfloat`, `lib/isg` and `lib/oneliners` alone, and the examples. Of the library's own C code the
modules have what keeps state or is hard to get right; of `math.c`, whose 2,500 lines are mostly polynomials, the
functions that take a double apart.

## 6. Plan

Done, in this order: the buffer with its abstract memory, the port above it, the divider, the
instruction set and the pipeline, the debug controller on the pipeline, JTAG, CNN; proofs for the
buffer, the pipeline and the debug controller; then the heap and its allocator, start-up and exit, streams, the
pure functions of the library, long long and mathematics; the debugger's moves; resets of the buffer, the core and
under the debug controller; proofs for start-up, resets and the heap, that the pipeline implements the
instruction set, the data port its memory, and that the debugger's moves are atomic; proofs for the arithmetic of the
divider, the CNN unit and long long, for rounding, ldexp, fmod and sqrt, for strtol and strtoul, for the streams, for the crossing of the clocks, for qsort, and for the
functions on memory and strings.

Next, the models:

1. The reset of the debug registers in the middle of a move (DebugAccess).
2. The export of breakpoints: two cores, each with its controller, that halt and reset each other.
3. The read-back path of JTAG: the value the scan register captures, bit by bit.

Next, the proofs: those of the models above, and for the steps of the divider, of exit and of a scan that
each leaves less to do, as SortExact says of qsort and LoopsEnd of malloc, so that only fairness itself is left to TLC.
