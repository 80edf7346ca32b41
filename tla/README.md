# A TLA+ model of the RSD out-of-order processor and its tools

RSD (`Processor/Src`) is a superscalar out-of-order processor in SystemVerilog.
Instructions are fetched and decoded in order, renamed onto physical registers,
issued out of order, and retired in order by an active list (a reorder buffer).
What makes it correct is spread over many modules that change state on the same
clock edge: maps and free lists that are updated speculatively and undone when a
branch was mispredicted, pointers of circular queues that wrap, several lanes
that act in one cycle, phases of three state machines that wait on each other.

Around the core stand programs in C, C++ and Python: an assembler that lowers
65xx source to the fixed-width instructions of the core and a disassembler that
folds them back, two host programs that load an image on the Zynq board and
print its output, and a simulation driver that samples the core and writes a
pipeline log which a parser reads.

This project models the rename and recovery part of the core cycle by cycle and
the tools around it as whole programs, checks both with TLC on small instances
and proves the safety properties of the core, of the board and of the simulation
for every size with TLAPS.

Paths of the core are relative to `src/Processor/Src`, those of the tools to
`src/Processor`.

## 1. The system

| component | state | operations | hard behaviour |
|---|---|---|---|
| Fetch and prediction (`Pipeline/FetchStage`, `FetchUnit`) | PC, BTB, PHT, global history, PHT update queue | predict, update, redirect | prediction results of several lanes in a cycle, history repaired on a misprediction, update queue at its limit |
| Decode (`Pipeline/PreDecodeStage`, `DecodeStage`, `Decoder`) | pipeline registers, picked lanes | instruction bits to op fields, picking, early branch resolution | what a word means is spread over the table and the execution units; a flush of the later lanes |
| Rename (`Pipeline/RenameStage`, `RenameLogic`) | RMT, retirement RMT, flags map, three free lists, serializer phase | rename a group, undo, release | bypass between lanes, order of undoing, lists at their limits, a cleared serialized op |
| Active list (`RenameLogic/ActiveList`) | entries, head, tail, count, execution states, recovery register | push, write, retire, pop from the tail | several failures in a cycle, recovery register reset against recorded, full against empty range |
| Recovery manager, committer (`Recovery`, `RenameLogicCommitter`) | two phase machines, flush range, number of entries to pop | start, count, pop, resume | two detectors in one cycle, a recovery that must wait, mutual waiting |
| Commit stage (`Pipeline/CommitStage`) | none of its own | decide which head lanes retire and which starts a recovery | several failed lanes, ops that may not recover yet |
| Dispatch and scheduler (`Scheduler`, `Pipeline/DispatchStage`, `ScheduleStage`) | issue queue and its free list, wakeup matrix, replay queue, wakeup pipeline registers | allocate, wake, select, replay, flush | lazily flushed ops under a latched range, entries returned over several cycles |
| Back ends (`Pipeline/*BackEnd`) | pipeline registers | execute, write a register and the execution state, ask for a replay | flush in every stage by pointer comparison |
| Load store unit (`LoadStoreUnit`) | load queue, store queue, store committer | allocate, execute, forward, retire, recover | ordering violations, youngest older store, retired stores in flight |
| Caches (`Cache`) | lines, MSHRs, request arbiter, flush manager | hit, miss, victim, flush | MSHR phases of several misses, handshake of a flush, arbitration |
| Memory (`Memory`) | AXI read and write queues | requests and responses | serial numbers, order of responses, stores under way across a reset of the core |
| Multiplier, divider, FP (`MulDivUnit`, `Primitives/Divider`, `FloatingPointUnit`) | divider phase, reservation | request, finish, release | a reserved divider whose op is flushed or replayed |
| Register file, bypass | registers | read, write, bypass | data path only |
| Privileged (`Privileged`) | CSRs | trap, return, interrupt | interrupt with the pipeline empty but a recovery under way |
| IO, counters, tops, RAM macros | timer, wiring | | none that concerns order |
| Assembler (`Tools/Asm/m65f32asm.c`) | tables of labels, constants and fixups, code buffer, `cur_pc` | one line: label, directive, instruction; fixups; image | names used before they are defined, tables at their limits, the order of the mnemonic tables, T as address and as value, RAM mapped behind ROM |
| Disassembler (`Tools/Asm/m65f32dis.c`) | code buffer, position | read the image, list words, fold two into one line | a fold that leaves out what its words say |
| Board host (`Project/Vivado/ARM_Linux/ProgramLoader/loader.c`, `Project/Vivado/TargetBoards/Zedboard/project_src/run_simple.c`, `Src/Memory/Axi4LiteControlRegister.sv`, `Src/Memory/ControlQueue.sv`) | memory and data cache, run register, queue of characters, read channel | hold in reset, clear, load, flush, release, poll, print | status registers that are one clock old, a cache that evicts at any time, a host killed between two steps, a store of the last program that lands on the next one, a queue at its limit |
| Simulation driver (`Src/SysDeps/Verilator/TestMain.cpp`, `VerilatorHelper.h`) | cycle, counts, last committed PC | load the image, clock and sample, CSV rows, register dump | samples after the edge mix two cycles |
| Log (`Src/SysDeps/Verilator/Dumper.h`, `Tools/KanataConverter/RSD_Parser.py`) | ops by serial id, last retired id, events | write the stages of a cycle, read them back | serial ids wrap, ops are flushed before they are ever shown, retirement is one cycle after commit |

How they interact, as far as the model goes: `RenameStage` renames a group when
`RenameLogic` and `ActiveList` are `allocatable`, and pushes entries that hold the
new and the previous mapping. A back end stage writes an execution state into
`ActiveList`; a failed op is recorded in its recovery register if it is the
oldest one. A misprediction raises `exceptionDetectedInRwStage` at once, a trap
or fault waits for `CommitStage`. `RecoveryManager` then moves to RECOVER_0,
broadcasts the flush range to every stage and queue, and waits in RECOVER_1 for
`RenameLogicCommitter`, which pops the flushed entries from the tail, restores
the maps from them and releases their registers, and for the issue queue.

The tools interact through two files and the ports of the core. The image
(`code.hex`) of the assembler has four readers, which share its order of words
and the place of RAM behind ROM: the simulator, the disassembler and the two
hosts. The driver reads the core's debug register, which the core fills one cycle
later than its commit signals, and the log is all the parser knows of the core.

What makes each component correct, and therefore is or will be checked: free
lists conserve registers; the maps equal what program order says; the wrong path
never retires and nothing else is flushed; no failure is forgotten; phases make
progress; an assembled line does what its mnemonic and addressing mode say; a
branch reaches its label; the image reads back as it was written; a listing says
what its words do; RSD runs only when the image is in memory, and only its own
stores change it; its output is
printed in order and once; log, CSV, counts and dump agree with what retired.
For the planned parts: a load reads the youngest older store, no violation is
missed; an issue queue entry has one owner; a woken op has its operands; a line
has one owner and a miss is answered once.

`PROJECT.json` lists the components with their status and the hazards by line.

## 2. Modules

| module | models | code |
|---|---|---|
| `QueuePointers` | arithmetic of the circular pointers, with the width of an index | `Primitives/Queue.sv` |
| `FreeListOps` | data path of `MultiWidthFreeList`: reset, read and write addresses, one clock edge | `Primitives/FreeList.sv` |
| `MultiWidthFreeList` | a free list with its client as `RenameLogic` uses it | `FreeList.sv`, `RenameLogic.sv:203-247` |
| `FifoList` | abstract: what a free list promises, a FIFO queue | |
| `ActiveListOps` | ages, flush ranges, `SelectiveFlushDetector` | `SchedulerTypes.sv`, `ActiveListIndexTypes.sv`, `ActiveList.sv:294-311` |
| `CommitDecision` | `DecideCommit` with its helpers | `CommitStage.sv:22-219` |
| `CommitWalk` | `DecideCommit` against an in-order walk | |
| `RenameRecovery` | rename, retirement and recovery, all registers of seven modules of the core | `RenameLogic`, `RMT`, `RetirementRMT`, `ActiveList`, `RenameLogicCommitter`, `RecoveryManager`, `CommitStage` |
| `InOrderCore` | abstract: the ops in flight, the retired map and the front map | |
| `RenameRecoveryLive` | `RenameRecovery` with a clock and fairness | |
| `M65Words` | 32-bit words, instruction formats, opcodes | `enc_*` of `m65f32asm.c`, `decode` of `m65f32dis.c` |
| `AsmOperands` | expressions, registers, addressing modes | `parse_atom` .. `parse_operand` of `m65f32asm.c` |
| `AsmLowering` | the words of an instruction | `assemble_line`, `emit_*` of `m65f32asm.c` |
| `M65Machine` | what a word does | `Decoder/Decoder.sv`, `ExecUnit/IntALU.sv`, `Shifter.sv` |
| `AsmMeaning` | what a line of source says, without its lowering, and which lines the claims of `MCAsmClaims` are about | |
| `Disassembler` | the text of one or two words | `dis_raw`, `match_traditional` of `m65f32dis.c` |
| `HexImage` | the image and its readers | `write_hex`, `read_hex`, `loadHexFile`, the word loops of the hosts |
| `Toolchain` | assembler and disassembler as programs | `m65f32asm.c`, `m65f32dis.c` |
| `ToolchainProperties` | what they have to get right | |
| `BoardHost` | both host programs, the read channel, the queue, RSD's stores under way | `loader.c`, `run_simple.c`, `Axi4LiteControlRegister.sv`, `ControlQueue.sv`, `Axi4Memory.sv` |
| `DebugLog` | lines of the log of a cycle, and their parser | `Dumper.h`, `RSD_Parser.py` |
| `TracedCore` | the stages of the core as the debug register shows them | `Controller.sv`, the stages under `Pipeline`, `Debug/Debug.sv` |
| `SimulationDriver` | the sampling loop around `TracedCore` and `DebugLog` | `TestMain.cpp`, `VerilatorHelper.h` |
| `MCAsmClaims`, `MCListing` | the repository's claims about its two tools, on one program each | |
| `MC*` | values of the constants for the runs | |
| `MultiWidthFreeList_proofs` | theorems about the free list | |
| `CommitDecision_proofs`, `CommitWalk_proofs` | theorems about the commit stage | |
| `RenameRecovery_proofs` | pointers, recovery control, wrong path, both maps follow program order | |
| `RenameRegisters_proofs` | no register is lost or doubled, refinement to `InOrderCore`, ranges of all registers | |
| `BoardHost_proofs` | the board: what RSD runs and what is printed | |
| `TracedCore_proofs` | where an op can be, and which ops are dead, in the traced core | |
| `SimulationDriver_proofs` | log, rows, counts and dump are those of the core | |

### RenameRecovery

A step is one clock edge. Unprimed variables are the registers (`rmt`,
`gprFree`, `al`, `recoveryReg`, `manager`, `committer`, ...), the operators
between are the combinational logic under the names of the code, primed
variables are what the edge stores. The cycles are told apart by the phases:

| action | manager | committer | what happens |
|---|---|---|---|
| `Run` | COMMIT | COMMIT | rename a group, take results, retire, perhaps detect a failure |
| `StartRecovery` | RECOVER_0 | COMMIT | the front end is cleared, the back end is flushed by range, the length is latched, the recovery register is reset |
| `LoadRecoveryCount` | RECOVER_1 | RECOVER_0 | the committer loads the length |
| `PopFlushed` | RECOVER_1 | RECOVER_1 | up to COMMIT_WIDTH entries are popped and undone |
| `AwaitIssueQueue` | RECOVER_1 | COMMIT | renaming goes on, nothing retires |

In each, ops of the back end may write results (`Writes`), several in a cycle.
The environment is the choice of the group, of the writes with their execution
state, and of the cycles the scheduler takes to drain (`iqReturning`,
`staleOps`). An op that is replayed stays in `backEnd`.

Abstractions: an entry keeps what renaming needs (not the PC, the kind of the
op, the queue pointers); the fifteen execution states are the six classes that
the code tells apart; an entry outside the window reads `NoEntry`, for the code
reads none (lanes beyond `commitNum` or `popTailNum` are masked). Every op is a
whole instruction, because `MICRO_OP_MAX_NUM` is 1 (`CommitDecision` itself
keeps instructions of several ops). `failed`, `condemned` and `archFlags` are
history variables; no guard reads them. The register file has no model: the
properties are about names of registers.

Bounds, all in `CONSTANTS`: sizes and widths; `Ops`, the ops the decoder offers;
`Outcomes`, the execution states; `FLUSHED_OPS_LINGER`, whether the replay queue
may keep flushed ops after a recovery; `MISPREDICT_AT_FULL`, which excludes one
cycle (`FullListWrap`), because the code goes wrong there (finding 1) and
everything after it would be a consequence.

### Toolchain

One step is one source line, one fixup or one listing entry; the rest of the two
programs (`write_hex`, `read_hex`) is one step each. Everything that decides what
is emitted is a function of the line and of the tables: `AsmOperands` from the
text of an operand to its addressing mode, `AsmLowering` from mnemonic and mode
to words, with the C functions' names. The text is abstracted to what the parser
tells apart: how an operand starts, its expression, the index after it. A
call of `error()` ends the program, so an operation that may fail returns the
set of its results.

`M65Machine` is the reference for the meaning of words: the decoder and the
units behind it, one instruction at a time. A machine is `[r, mem, fl, next]`:
the registers, the words of memory written, the flags and where control goes.
Flags are the operation and the operands that last set them; multiplication and
division are free functions. `AsmMeaning` states each source instruction on the
same machine by its mnemonic and addressing mode, with no word and no T.

The assembler differs from the meaning in many places, and the repository claims
otherwise at nearly each of them. Those claims are two runs that must be violated.
`MCAsmClaims` is one program of 28 lines, each labelled with the place of the
comment or test that says what it does; its property `CompatibleSemantics` is the
first sentence of `Compat/test.asm`: every line is accepted and has the semantics
it says. `MCListing` takes one instruction per pattern of the disassembler and its
neighbours through assembler, image, listing and assembler again; its property
`ReconstructsNotation` is the header of `m65f32dis.c`. Both modules add one
variable (`diverging`, `lost`) in which a last step leaves the lines that break
the claim, so the trace of the violation names all of them; lines that behave
stand in the programs as controls.

The passing run says the rest, as implications: outside the combinations that
`Divergent` and `LosesMeaning` take from those two runs, what has a meaning is
assembled to words that do it, and each entry of a listing says what its words do.
`CutOff` sets apart constants too wide for the field of the fixed-width forms
(`ADDI`, `LD Rd, [Rs + off]`), of which the repository claims nothing. Many mnemonics
have no meaning in `AsmMeaning` (`Kind` is "none": TRAP, PER, REP and the suffixed
ADC.B and INC.W, for instance): of these the run checks tables, image and listing only.

Besides those two, `placed`, the address of each line, is the only history variable.

### BoardHost

Both programs in one module, told apart by `host`; `hpc` is the place in the
program. `Clock` is one clock of the programmable logic: `ARREADY`, `RVALID`,
the registers the host reads (each a copy of the queue's state one clock ago)
and the queue with its push and pop. A read of the host is a transaction:
`Ask` raises `ARVALID`, `Deliver` hands over the answer. `Evict` writes any dirty
word of `run_simple`'s cache back at any time; `Rerun` kills the loader
anywhere, or starts `run_simple` again after it ended. `sent`, `accepted`,
`printed` and `lost` are history. Memory is in words.

RSD stores to the same memory. `RsdStore` hands an entry (`ENTRY_WORDS` words) to
`Axi4Memory` while RSD runs and fewer than `WRITE_ID_NUM` stores are under way
(`pending`); `StoreLands` writes one to memory at any later time, in any order. The
host resets the core by `programLoaded`, not `Axi4Memory` (`Main_Zynq.sv:270`), so
what is under way at `HoldReset` stays under way; `late` remembers it. A word that RSD
stores is told by the run of the host that released it (`era`) and by nothing else,
which is all that "its own store, of this release" needs; two stores of one release
to one entry that are under way together count as one.

`Evict` and `StoreLands` have no fairness: the cache may keep its lines, the bus a
store. Opening and mapping the devices, with its early exits, comes before `Init`.

### TracedCore and SimulationDriver

A step is a clock cycle. The front end moves by the stall and clear network of
`Controller.sv`; the back end ops go down the stages of their pipe, may be held,
replayed or fail; the commit signals, the recovery phases and the flush range are
those that the log shows. What decides a stall, an issue or a failure is left
open: `RenameRecovery` is the model of that. An op's number in fetch order stands
for its PC, its value and its physical register, which is all the CSV, the dump
and the log can tell apart. `Sample` is the body of the driver's loop, after the
edge: the debug register of the cycle that ended, the commit signals of the cycle
that begins. The last committed pc is what the LEDs show (`LedOut`): the low bits
(`LED_NUM` values, 2^16 in the core) of a pc that combinational logic takes from the
ops that commit in the cycle that begins, or keeps (`CommitStage.sv:344-349`). The
driver reads it only under `ENABLE_PC_GOAL`, stops when it equals the low bits of
`PC_GOAL`, and labels the dump with it; otherwise the label stays 0. `DebugLog`
composes `DumpCycle` (the dumper) and `ParseCycle` (the parser), so the log's text has no variable of its own. `retired` and `dead` are
history variables: an op is dead from the edge at which a stage is cleared under
it or a flush selects it, and retired ops are never dead.

Bounds: `MaxOp`, the ops fetched, and `MaxSpan`, how far the fetch may be ahead of
the youngest op that retired (`SerialLimit`). The second is a bound of the model
only: the serial counter (`NextPCStage.sv:257`) goes on after a recovery, so that
the ops of wrong paths count, and nothing in the core stops it. The parser relies
on it (`SpanFits`). `MCSimulation` has the largest span that fits.

## 3. Runs

| run | instance | states | shows |
|---|---|---|---|
| `MCFreeList` | SIZE 5, index modulo 8, two lanes each way, all registers in the list at first (`LOGICAL_NUM = 0`) | 48006 | `TypeOK`, `NoLossNoDuplicate`, `FifoSpec` |
| `MCCommitWalk` | 3 lanes, count up to 4 | 4320, all inputs | `DecidesLikeTheWalk` |
| `MCRecovery` | list of 4, two lanes, two writes per cycle, all outcomes | 67688 | the six recovery properties |
| `MCRenameMaps` | list of 4, free lists of 2, writers of registers and flags, REFETCH_THIS (pops the failed op too) | 297504 | `TypeOK`, conservation, maps in program order, `InOrderSpec` |
| `MCRecoveryLive` | list of 4, one rename lane, two commit lanes | 36640 | `RecoveryEnds`, `HeadLeaves` |
| `MCRecoveryFullList` | as `MCRecovery`, `MISPREDICT_AT_FULL` | violation | finding 1 |
| `MCFlagListWrap` | flags list of 6, index modulo 8 | violation | finding 2 |
| `MCToolchain` | 1415 single lines (mnemonics by syntax of operand), every opcode as data, pairs of words, sequences of three lines from ROM and from RAM | 59697 | `TypeOK` and the five properties below |
| `MCBoard` | an image of one line, sizes 16 and 24, 8 words of memory, one store under way, queue of 2, 3 characters, two runs | 840789 | `TypeOK`, `RsdRunsTheImage`, `OutputIsExact`, `LoaderPrintsAll` |
| `MCSimulation` | 5 ops, span of 6, 24 serial ids starting at 21, list of 3, two lanes, four LED values, goal 7 | 283213 | `TypeOK`, `LogTellsTheTruth`, `CsvFollowsCommits`, `ResultsAgree` |
| `MCAsmClaims` | 28 lines of the tests and of the assembler's comments | violation | findings 3 to 16 |
| `MCListing` | 20 instructions, listed whole | violation | findings 17 to 20 |

Why the bounds are enough. A list of 4 with two lanes each way has every relative
position of head and tail, a window that wraps, full and empty lists, full and
partial groups, and flush ranges of each length 0 to 4 so that the committer
needs up to two groups. Two results in a cycle are enough for a race of two
failures, and four ops in flight for a third one that was recorded before. Free
lists of 2 run empty and full, which is where a wrong count shows. Each run
takes only the data that its question tells apart: plain ops where failures are
asked about, all writers where maps are. In `MCRenameMaps` all four ops of the list
may write the one register, so that a recovery pops two of its writers in a cycle;
several registers are the theorems' part. `MCFreeList` takes a size with room
above it in the index; that a size which is a power of two behaves the same is
what the theorems say for every size.

`MCToolchain`. Lines are independent of each other but for the tables, so single
lines with operand values on both sides of each boundary (the register window,
12, 13 and 14 bits, the sign) cover the lowering, and sequences of three lines
the tables: two labels, one constant and two fixups fill them. Meanings are
compared in two machines whose registers all differ. Directed programs go to the
ends of the ranges of branches and jumps and past the end of RAM.
`MCBoard`. A size of 24 has a ragged tail, 3 characters overfill a queue of 2, two
runs put a restart at every step of a run, one poll per report and two reports
let `run_simple` end, and one store under way, to an entry of the image, may land
before, between and after the stores of the next load.
`MCSimulation`. Five ops with two mispredictions (one in the decoder, one in the
back end) fill a list of 3, the serial ids wrap in the middle, all five ops may be fetched before the first retires, which is all that the
parser can tell apart, and it drops its old ops at the period of 8 ids. Four LED
values are fewer than the ops, so that pcs with equal low bits meet.

What the tool properties say. `LoweringKeepsMeaning`: outside `Divergent` and
`CutOff`, a line that has a meaning is assembled, and its words have the same effect
in every machine. `ControlReachesItsLabel`: every branch and jump, forward or
backward, goes to the final address of its label exactly when its field can hold the
way. `DataSeesEarlierLabels`: data that names a label of the same or an earlier line
holds its address. `ImageRoundTrip`: the image is the code for all its
readers. `ListingSaysWhatItDoes`: each entry outside `LosesMeaning`, assembled
again, has the effect of its words. `RsdRunsTheImage`: while RSD is released, a word
that it has not stored itself since is the image's, through caches, kills and resets,
except in an entry with a store under way at a reset.
`OutputIsExact`: every accepted character is printed, queued or lost with a
killed host, in order and once. `LogTellsTheTruth`: the parser's retired and
flushed ops are those of the core. `CsvFollowsCommits` and `ResultsAgree`: rows,
counts, dump and the pc of the dump, although taken from signals of two cycles, are
states along the retired ops.

The properties of `MCRecovery` are stated over the history variables:
`condemned` are the ops on a path that a failed op has made wrong, `failed` the
ops whose recovery is still owed. Together they say that a recovery removes the
wrong path, all of it (`RecoveryComplete`) and nothing else (`NoOpLost`,
`FlushesOnlyWrongPath`), before any of it retires (`WrongPathNeverRetires`), and
that a failure that cannot be served yet is kept (`OldestFailureKept`).

Fairness (`RenameRecoveryLive`). The clock ticks: `[]<><<Tick>>_clk`. Of the
environment: the op at the head leaves the back end infinitely often or is no
longer there (the scheduler replays an op until its operands are there, and the
oldest op waits for nobody); the issue queue stops returning entries (a counter
of `ISSUE_QUEUE_RETURN_INDEX_CYCLE` cycles, `IssueQueue.sv:289`); flushed ops
drain from the replay queue and the wakeup registers (their counts fall with
each replay, `ReplayQueue.sv:643`). Nothing is assumed of the phases, of the
recovery register or of retirement: that they make progress is the result.

Fairness (`BoardHost`): `WF_vars(HostStep)` and `WF_vars(Clock)`. The host program
keeps running and the clock keeps ticking. Nothing is assumed of RSD, of its
stores, of the cache or of who restarts the host. `LoaderPrintsAll` is one leads-to: from
any state with the loader there is a later one in which every character the queue took
is printed or lost with a killed loader; `run_simple` may end with characters in the
queue.

Deadlock is checked in every run but the five of the tools, which end: the
source is assembled, refused or listed, `run_simple` exits, the simulation stops.

Every property of a passing run has a mutant: a definition of the code changed
as a plausible bug would change it (`..._NoBypass`, `..._WrapShort`, placed
before the definition it replaces), under which TLC finds the property violated.

## 4. Findings

1. `ActiveList.sv:299`: a misprediction of the youngest op of a full list with no
   retirement in that cycle flushes the whole list. The flush range is empty,
   its two pointers are equal and the count is the size, which the code takes
   for the range of all ops. Run `MCRecoveryFullList`; theorem
   `AmbiguousRangeFlushesAll` for every size.
2. `Queue.sv:233`: the tail of a queue is truncated to the width of its index
   before it is compared with `SIZE`. The flags free list has 30 entries and 5
   bits, and starts with its tail at 30: if the first release returns two flags
   registers, the tail is 0 where it should be 2, and two registers are lost.
   The scalar list (64 entries) and the FP list (112 entries, 7 bits) are not
   affected. Run `MCFlagListWrap`; the proofs below need `NoIndexOverflow` for
   this reason.

Findings 3 to 16 are the lines in `diverging` when `MCAsmClaims` ends; places are in
`Tools/Asm/m65f32asm.c` unless another file is named, `PROJECT.json` quotes each claim.

3. 971: XOR is assembled as a flagless OR, XORI as ORI, and XOR with one operand
   refused. The table of ALU mnemonics is searched for "the name, or X and the name"
   row by row, and the row OR comes before XOR. `BasicALU/test.asm:44` expects 0xF0 in
   R12 and gets 0xFF; the committed `code.hex` holds the OR (0x1034: `18C20900`).
4. `Decoder/Decoder.sv:671`: ROL is executed as ROR. The comment leaves the amount to
   the execution unit, which does not invert it (`Compat/test.asm:226`, `:233`).
5. 1050: a read-modify-write through DPX, DPY, ABSX, ABSY, INDX, INDY, a far ABS or an
   indirect address builds the address of its store in T, where the value is, and
   stores the address.
6. 1493: TRB destroys R1.
7. 1525: XBA drops the upper half of A, as its own note at 1527 admits.
8. 1545: PEI (dp) pushes `mem[mem[dp]]`.
9. 1730: STA.B stores 32 bits.
10. 1684: CMP.B compares all of A.
11. 1745: XADC sets flags.
12. 1711: XINC ignores its operand.
13. 1026: a shift with a first operand A is taken for the accumulator form, the rest of
   the line ignored.
14. 349, 306: a negative immediate of AND, ORA, EOR or BIT is extended with zeros, a BIT
   immediate cut to 13 bits, the address of a far pointer cut to 14.
15. 925: an indexed CMP is taken for `CMP Rs1, Rs2` and refused.
16. 482: a label that is not defined yet is 0 in an expression, without the fixup that
   the comment at 480 announces.

Findings 17 to 20 are the lines in `lost` when `MCListing` ends; places are in
`Tools/Asm/m65f32dis.c`, the claim is its header (lines 4 to 7).

17. 329: a negative B+ offset is printed as 16 bits without sign.
18. 552: a fold prints LDA or STA whatever the register of the access is, so STZ, LDX,
   STY and ST through an index are listed as accesses of A.
19. 134: flags are printed as `, F', which the assembler refuses; flagless operations are
   read back with flags; CMP in three operands is refused.
20. 205: a jump below 256 is printed as a number that the assembler takes for a
   direct-page operand.

Behaviour of passing runs that a reader may not expect, of which the repository
claims nothing:

Assembler (`CutOff`, `Reaches`): immediates over 13 bits of the `...I` forms and
offsets over 14 bits of LD and ST are cut. A branch beyond 2^20 words, a jump to another
256 MB or to an odd address is cut. JMP and JSR refuse a number up to 0xFF. A
redefinition by EQU is refused once the table is full.

Disassembler (`LosesMeaning`): besides findings 17 to 20, words that the assembler never
emits: a LUI/ORI pair with F or with bit 12, a link with a condition, RTS through
another register; SYS and STACK beyond the table.

Board host (`BoardHost`): a store of RSD under way when a host resets it may land on the
next load (`StoredLate`); a size that is no multiple of 16 sends bytes of an
uninitialized buffer (`TailWords`); holding RSD in reset does not empty the
queue, so a restarted host prints what the last one left; the status
registers are a clock old, and a host that reads twice without a clock between
would read a character twice: the two clocks of the read channel are what makes
it safe, with none to spare.

Simulation driver: `TestMain.cpp:42` does not reduce the head of the active list
to its size, so rows and dump of a commit across the end of the array read
behind it (`CommitsWrap`; the SystemVerilog test bench reduces it). Counts are one
cycle behind the dump. `RSD_Parser.py:75` extends a serial id across a wrap only if
the youngest retired id lies in the last quarter of the range and the new one in
the first; its comment (line 72) lets them differ by half of it. A quarter is what
it can tell apart, for every size: the theorems `LogSafe` and `QuarterIsTheLimit`.
Line 73 concludes a bound on the ops in flight; it is one on the ids since the last
retirement, those of flushed ops included. With the 1024 ids of the core the quarter
is 256 ops.

## 5. Proofs

Every safety property that a run checks of the core, of the board and of the
simulation is also a theorem for every value of the constants. What stays with
TLC, and why, is at the end of this section. Modules build on each other:

    CommitDecision_proofs --> CommitWalk_proofs
            |
            v
    RenameRecovery_proofs --> RenameRegisters_proofs

    TracedCore_proofs --> SimulationDriver_proofs

`MultiWidthFreeList_proofs`. For every size, width and number of logical
registers, under `NoIndexOverflow`: the index range is the size itself, or a
push and a pop of full width beyond the end still fit in the index. (The scalar
list satisfies the first, the FP list the second, the flags list neither.) The
inductive invariant adds to `TypeOK` what makes it inductive: the tail is
`count` places after the head modulo the size (it may stand at `SIZE` before the
first push), the entries of that window are distinct, the client's registers
are the others, and their number is `SIZE + LOGICAL_NUM - count`, without
which nothing would bound a push. From lemmas on `WrapAdd` (it is injective and
additive) follows the lemma that a clock edge turns the contents `q` into
`SubSeq(q, n + 1, Len(q)) \o s`; from that `FreeListCorrect`, the invariant of
the specification, and its corollaries `FreeListTypeCorrect` (`[]TypeOK`),
`FreeListConserves` (`[]NoLossNoDuplicate`) and `FreeListIsFifo`
(`Spec => FifoSpec`, each step maps to a step of the abstract queue).

`CommitDecision_proofs`. `OnlyFinishedOpsRetire`: for every width, count and
combination of execution states, when every op is a whole instruction, the ops
that retire are a prefix of finished ones, an op that failed retires only as the
last one and with its recovery, and a recovery starts at the first failure. That
the operators' choices (a first lane, an oldest op) find anything rests on
`LeastElement`: the library's well-founded order on the naturals, used as a
relation, gives the least element of any set of naturals, and so arguments by a
least counterexample.

`CommitWalk_proofs`. `DecidesAsTheWalk` (`Spec => []DecidesLikeTheWalk`, every
`COMMIT_WIDTH`). The walk is a recursive function, about which induction is out of
reach. Instead a closed form (the first lane at which the walk stops) is shown to
satisfy the recursive equation, and two solutions of it to agree, from a
greatest lane at which they would differ.

`RenameRecovery_proofs`, pointers. For every size of the active list and every
window: `AgeIsProgramOrder` (the age of the i-th op is head + i),
`SelectiveFlushIsByAge` (the detector that compares only pointers selects exactly
the ops from the head of the range on), `FlushEntryNumIsExact` (the length
popped is their number), each with the one exception of
`AmbiguousRangeFlushesAll`: when the youngest op of a full list mispredicts, the head
of its range meets the tail, the detector selects every op and all are popped.

`RenameRecovery_proofs`, control. `RecoveryStaysInList` (`Spec =>
[]RecoveryWithinList`), for every size of the active list, all widths, any ops and
outcomes, and with `MISPREDICT_AT_FULL` as well as without: the wrong flush of
finding 1 pops too much, but never more than there is. `RecoveryWithinList` is far
from inductive, because the number of entries to pop is computed from two latched
pointers. `RecoveryInv` follows the chain:

- `ListInv`: the tail is `count` places after the head;
- `PhaseInv`: the committer leaves COMMIT only under the manager's RECOVER_1,
  and what it has loaded or is about to load is at most `count`;
- `RangeInv`: in RECOVER_0 the flush range is a suffix of the window. This needs
  that the op that failed is still in the window when its range is latched: it
  has just written, so it was in the back end, and what retires is finished
  (`OnlyFinishedOpsRetire`); or it is the op that recovers at the head, and then
  nothing older can fail in the same cycle, since all that is older is finished;
- `OpsInv`: finished and executing ops are disjoint, both in the window, and the
  executing ones outside what will be popped (`Kept`; the flush selects by age,
  `SelectiveFlushIsByAge`);
- `RegInv`: the recovery register names a finished op in `Kept` that failed, so
  the record of a failure during a recovery outlives the pops.

One lemma per action shows that a step preserves it (`OperatePreserves` for the
two ordinary cycles, `StartRecoveryPreserves`, `LoadRecoveryCountPreserves`,
`PopFlushedPreserves`); the later modules have the same lemmas for their invariants.

`RenameRecovery_proofs`, wrong path. The argument is about one op, the culprit:
the oldest op that failed and still owes its recovery. All that is condemned is
younger than the culprit (or is it, when it is fetched again) and all that is younger
is condemned. `WrongPathInv` says that the recovery register names the culprit
(`RecordInv`), and that in RECOVER_0, when the register is about to be reset, the
latched flush range carries that fact (`StartInv`). Theorems, without any
assumption: `WrongPathNeverCommits`, `OldestFailureIsKept`, `RecoveryIsComplete`.
`LossInv` adds that whatever is neither finished nor executing, and whatever will be
popped, is condemned. It is the opposite direction, and false when a full list
mispredicts at its youngest op; hence `NoOpIsLost` and `PopsOnlyWrongPath` (an
action property) assume `~MISPREDICT_AT_FULL`. Finding 1 is the run that shows that
they need it.

`RenameRecovery_proofs`, maps. `RmtIsInProgramOrder` and `FlagsMapIsInProgramOrder`, without
assumption. A map is the value of the last writer in a set of places (`Last`), and a
cycle splits or moves that set: retirement moves its old end into the retirement
RMT, renaming adds the lanes of the group at the young end, a pop removes a suffix
whose oldest writer holds the mapping from before it. The invariant
(`MapsInv`) adds only that each entry names a logical register.

`RenameRegisters_proofs`, registers. `NoGprIsLostOrDoubled` and `NoFlagIsLostOrDoubled`.
`GprConserved` sums five places whose parts move in the same cycle. The invariants
`GprInv` and `FlagInv` say that free list, pipeline registers, destinations in the
window and retirement RMT each list a part of the registers without repetition
(`Conserved`), and that the list's count is the distance of its pointers. A cycle
pops the list for the lanes that write (compaction of the ports, `NthLaneLists`),
pushes what the pipeline registers hold, and fills those with the previous
mappings of the ops that retire or the destinations of those that are popped; that
what is released is what leaves the RMT is the program order of the maps. One
lemma about `Conserved` serves both lists. They assume `GprPointersFit` and
`FlagPointersFit`, the `NoIndexOverflow` of the two lists. The shipped sizes
satisfy the first; they do not satisfy the second (finding 2), and `MCFlagListWrap`
is the run that shows that the theorem needs it.

`RenameRegisters_proofs`, the whole. `CoreIsInOrder` (`Spec => InOrderSpec`, assuming
`GprPointersFit`): each cycle is one step of the in-order machine or a stutter. The
machine's sequence is the window; that it loses ops only at its ends is the
recovery control, that both maps are the applied ops is `MapsInv`, and that a
register given to an op is used by nobody else is `GprInv`.
`RegistersStayInRange` (`[]TypeOK`, both assumptions): that no list, map or entry
names a register outside the file rests on the partition, the ranges of the
control registers on `RecoveryInv`.

`BoardHost_proofs`, for every image, memory, queue size and number of runs.
`OutputIsAlwaysExact` rests on status registers that are one clock old. `StatusInv`
says what they are good for: an answer that says "not empty" was taken after the
last pop, the queue then stays nonempty until this host reads its head, and the
head that is answered is the one that is popped. It needs `ChannelInv`, that a
transaction of a killed host ends before the next host asks.
`RsdAlwaysRunsTheImage` rests on `MemoryInv`: `Memory`, what RSD would read if the
cache were flushed, is a prefix of the load at each of its steps, whatever was
evicted, and nothing is left in the cache when RSD is released. RSD's stores need two
more facts: a store under way is of the release that is running or was under way at
the last reset (`late`), and a word of memory that is neither the load's nor of this
release lies in an entry of `late`. That entry is excepted by name, so the theorem says
of every other word that no reset, kill or store of an earlier release reaches it.
`BoardStaysInRange` is `[]TypeOK`.

`TracedCore_proofs`, for every width of the stages, size of the list, program and
choice of stalls, replays and failures. `CoreInv` has five parts, and one cycle of
the core keeps them (`CoreStep`):

- `CoreTypes`: every register is of its type, and the back end holds only ops of the
  list;
- `OrderInv`: program order runs from the retired ops through the list and the
  rename, decode, predecode and fetch stages; an op sent on from the decode stage
  (`picked`) is no longer in it;
- `StageInv`: an op of the list is in the dispatch stage, in the back end or done;
  what commits is done, and nothing commits in a recovery;
- `DeadInv`: what is dead has left every stage, and of the list are dead exactly the
  ops from `flushFrom` on, once the recovery has started to take them back;
- `WidthInv`: no stage holds more than a group and the list never overflows, as
  `RnStageSendBubbleLower` leaves room for one.

A cycle moves everything at once, so the step is cut in three: the front end
(`FrontSources`, `FrontDeaths`: each stage's next ops come from it or from the one
before, and what is not handed on is newly dead), the list (`OpsStep`: what is kept
and what is new) and the back end. The proof of `DeadInv` corrected the model: an op
already sent on to rename out of a cleared decode stage was counted as dead
(`NewlyDead` now takes `picked` away). With groups of two no run shows it; with
three such an op may be older than the one that failed, and retire.

`SimulationDriver_proofs`. `DriverInv` joins `CoreInv` with `SpanInv` (the fetch is
within `MaxSpan` of the youngest retired op), `RetiredInv` (the map, the count and
the pc are those of the retired ops), `CsvInv` and `OutInv` (each row and the dump
are the registers after the retired ops and those before it in the list).
`DriverSafe` is `[]DriverInv`, without assumption; `DriverTypes` and
`RowsFollowCommits` follow. What these need of folds is that retiring in a closed
form (each register has its last writer) equals retiring one op after the other.

The log. `LogHolds`, inductive on top of `DriverInv`, says what the parser knows
between two cycles: it has every op in flight under the number of its place in the
fetch order (`Known`, and `Shown` once it is past the fetch), the newest number it
has retired is that of the youngest retired op, what it has flushed or left out is
dead, and all that is dead except in the list has been told (`Told`). The proof goes line by
line: `GidIsRebuilt` says that an op within a quarter of the ids after the youngest
retired one gets its number back whatever wraps; a line that is good in
the state in which it meets the parser (`GoodLine`) leaves it `Sound` and takes
nothing away from the others, so that lines of one stage can be parsed in any
number; each stage of the debug register writes good lines only; and the
retirements, the only lines that move the newest number, are the last of a cycle.
`LogSafe`, and with it `LogIsTrue` (`[]LogTellsTheTruth`) and `DumpsAgree`
(`[]ResultsAgree`, in which the parser's count occurs), assume `SpanFits`;
`QuarterIsTheLimit` shows an op that is mistaken at the next larger span.

Only model-checked:

- `RecoveryEnds`, `HeadLeaves`, `LoaderPrintsAll`: liveness and `ENABLED` are out of
  the prover's reach;
- the properties of `ToolchainProperties`: what they compare is data (words,
  images, texts) over finite tables, and `M65Machine` uses bit operations of a
  module the prover cannot use.

Induction with a predicate as a parameter is out of reach too. Where a proof needs
it (folds over the lines of a cycle, over the ops of a list), the predicate is a set
of naturals: `SetInduction` says that one with 0 and with the successor of each of
its elements has all of them, by the least one that it lacks. No module uses a
RECURSIVE operator.

Assumptions on constants: `QueueSizeAssumption`, `WidthAssumption`,
`ActiveListSizeAssumption`, `CommitWidthAssumption`, `CoreAssumption`,
`RegisterAssumption` (logical registers are numbered from 0, the free lists fit
their index ranges and are longer than a group); of the board `QueueAssumption`,
`BoundAssumption`, `SizeAssumption` (the text has the lines that its size says and
fits in memory); of the simulation `LogAssumption` (the number of serial ids is a
multiple of four) and a `CoreAssumption` of its own (widths, sizes and bounds are
positive, each op has a destination and a pipe). Each is in the module that declares
the constants, and evaluated by TLC. Hypotheses of single theorems are
`NoIndexOverflow`, `GprPointersFit`, `FlagPointersFit`, `~MISPREDICT_AT_FULL` and
`SpanFits`, each explained with the finding, the run or the theorem that shows the
need of it.

## 6. Not modelled, and why

Core: register file, bypass, counters, top modules and RAM macros are data paths
or wiring, without order to get wrong. The single-width `FreeList`: used by parts
that come later. Recovery from the retirement RMT: disabled by
`RECOVERY_FROM_RRMT`. The FP free list: a third instance of the module that is
modelled. In the model of the recovery, the PC that is refetched and the load and
store queue tails are left out. Load store unit, caches, memory, scheduler,
divider, predictors, interrupts: see the plan.

Tools: floating point instructions of the assembler and the disassembler (a table
of more rows of the same shape), the lexing of a line into tokens, the layout of a
listing, messages and options; the operators of an expression other than `+` and
`-`; flags as bits, since the last flag operation tells
apart what the properties need; the opening and mapping of devices and the write
channel of the control registers beyond the run register; the reset sequence and
the serial dumper of the simulation; the comments of log lines and the Kanata file
that the converter writes from the parser's events.

## 7. Plan

In this order, most important first. Each gets a module that can be proved about
(constants with assumptions, one action per operation, invariants of named
parts, recursive functions instead of RECURSIVE operators), an MC module with
small values, and the runs below.

1. `LoadStoreQueue`: `LoadQueue`, `StoreQueue` and `StoreCommitter` with
   recovery of the tails. Abstract specification: a load returns the youngest
   older store's value or asks for a refetch; a violating load is always found.
   Run with queues of 4, one load and one store port, two addresses.
2. `IssueScheduler`: issue queue free list and its return of entries, replay
   queue, wakeup registers with the latched flush range, and the wakeup table's
   pointers, flags included. Property: an entry has one owner, no flushed op is
   issued, no live op is lost. Its interface replaces the two environment
   variables `iqReturning` and `staleOps`.
3. `RenameSerializer` with the stall and clear network of `TracedCore`: a
   fence issues alone, and the cleared op of `RenameStage.sv:67` is examined.
4. `DCacheMiss`: MSHR phases, victim write-back, flush; then the arbiter
   (`MemoryAccessController`) and `CacheFlushManager`; abstract: a memory that
   answers every read with the last write. Liveness of a miss.
5. Small machines: the divider's handshake with replay, the PHT update queue,
   the interrupt trigger.
