# A TLA+ model of the z80f core

z80f is a Zilog Z80 core written in C++. A host derives from `z80f::Bus`,
constructs a `z80f::Z80` over it and calls `step()` or `run_for()`; the core
calls the host back at every bus cycle. This directory holds TLA+ modules
translated from that source, the instances TLC checks, and theorems proved with
TLAPS. Paths below are relative to the repository.

## The system

| Part | Source | State | Operations |
| --- | --- | --- | --- |
| Interrupt and control core | `src/z80.cpp`, `include/z80f/z80.hpp`, `registers.hpp` | PC, SP, IFF1, IFF2, IM, I, `halted`, `ei_pending`; the NMI line and its edge latch, the INT line and its pulse latch | `step`, `handle_nmi`, `handle_int`, `reset`, `load_snapshot`, `save_snapshot`, `set_nmi_line`, `set_int_line`, `pulse_int_line` |
| Bus cycles | `src/z80.cpp`, `include/z80f/bus.hpp` | none beyond the C++ stack | `machine_cycle`, `read8`, `write8`, `fetch_opcode`, `push16`, `pop16`, `io_in`, `io_out`; callbacks `on_m_cycle`, `read_memory`, `write_memory`, `acknowledge_interrupt` |
| Decoder and timing | `src/decode.cpp`, `src/timing.cpp` | `instruction_t_states_` | `dispatch_unprefixed`, `_cb`, `_ed`, `_index`, `_index_cb`, `base_t_for` |
| ALU and flags | `src/instructions.cpp`, `src/flags.cpp` | A, F, HL | `alu_*`, `cb_*` |
| Block instructions | `src/instructions.cpp` | BC, DE, HL, PC, memory | `block_ld`, `block_cp`, `block_in`, `block_out` |
| Cycle counters | `src/z80.cpp` | `cycles_`, `base_cycle_counter_` | `run_for`, `cycles_since_reset`, `reset_cycle_counter` |
| Refresh register, WZ, Q | `src/z80.cpp`, `src/decode.cpp` | R, WZ, Q, `flags_modified_` | `inc_r`, `write_flags` |
| Hosts | `examples/` | memory, ports | the loop around `step`, the interrupt calls |

Everything runs on one thread. The parts interact through calls, the shared
`Registers`, and the callbacks: the host's code runs in the middle of an
instruction, at every bus cycle, and may change the interrupt inputs there. That
is where the concurrency of this system is. What is hard:

- **Interleaving.** An input changes between any two steps, and in the middle of
  a step. Which of the two interrupts is taken, and what a latch remembers, depends
  on the order.
- **Protocol.** IFF1, IFF2, the EI shadow, HALT and RETN form a protocol among the
  interrupted program, its handlers and the core; it is right only over whole
  nestings of them.
- **Numeric edges.** PC, SP and addresses wrap at 16 bits inside an instruction.
- **Timing.** A table, overrides in the decoder and the sum of the bus cycles must
  agree for every opcode of seven pages.
- **State handed from one instruction to a later one.** C through a sum of many bytes,
  H and N to DAA, Q to SCF, WZ to BIT, the registers of a block instruction to its own
  next round: each is right only over a sequence of instructions, interrupts included.
- **Replacement under a running step.** `reset()` and `load_snapshot()` assign all of the
  state; the step that made the callback goes on with its locals.
- **Time.** A host drives a line by slices of T-states: whether an interrupt is taken once
  depends on how long instructions, critical sections and handlers last.
- **Liveness.** A held INT line must be served, and a step must return.

## Modules

| Module | What it is |
| --- | --- |
| `Z80Word` | bytes, words, casts |
| `Z80Control` | the control core, one action per path through `step()` |
| `Z80ControlHistory` | the same with history variables, and the properties stated with them |
| `Z80ControlProofs` | its theorems: widths, enables, HALT, the stack |
| `Z80HistoryProofs` | theorems about what the latches know of the past, and about the frames on the stack |
| `Z80BusCycles` | `step()` as a sequence of bus cycles, with host calls between any two |
| `Z80BusRefinement` | `Z80BusCycles` implements `Z80Control` |
| `Z80Timing` | every opcode: bus cycles, their order, declared T-states |
| `Z80TimingProofs` | its theorems, for any opcodes and any bound on prefixes |
| `Z80BusReset` | `Z80BusCycles` with `reset()` called from the callbacks |
| `Z80BusProofs` | their theorems: the refinement, and the reset |
| `SpectrumHost` | the frame loop of `zx_spectrum_host.cpp` around `Z80Control` and `Z80Timing` |
| `Z80Cycles` | `cycles_`, `step()`, `run_for()`, `cycles_since_reset()` as numbers |
| `Z80CyclesProofs` | their theorems, for any width of the counter and of int |
| `Z80Alu` | the ALU, the CB page and the flag tables as operators on operands and F |
| `Z80Arithmetic` | programs that add, subtract, adjust, shift and turn numbers of one byte or two with it |
| `Z80ArithmeticProofs` | its theorems, for any numbers |
| `Z80Block` | the sixteen block instructions on registers, memory and ports |
| `Z80BlockProofs` | their theorems, for any width of the registers |
| `Z80Latches` | Q, the opcodes that set it, and the bits 5 and 3 of F it shows in |
| `Z80LatchesProofs` | its theorems |
| `MCPrograms`, `MCZ80*`, `MCSpectrumHost` | programs, bounds and the instances for TLC |

`Z80BusCycles`, `Z80ControlHistory` and `SpectrumHost` extend `Z80Control` and reuse its
actions; `Z80BusReset` extends `Z80BusCycles`. `Z80BusRefinement` composes the fine-grained
module with an instance of the coarse one, `SpectrumHost` the control core with the
T-states of an instance of `Z80Timing`. `Z80Timing` itself abstracts registers, and the
byte fetched next is chosen by the environment. `Z80Arithmetic` extends
`Z80Alu`. The others stand alone: each keeps the registers its code works on and leaves
the rest of the processor to its neighbours.

### Z80Control

The abstract specification: `step()` as if it ran at once. `ServiceNmi` is
`handle_nmi`, `AcceptInt` is `handle_int` (for the byte `d` on the data bus),
`HaltCycle` the NOP-like cycle of a halted processor, and `Execute` a fetch, its
prefixes and one instruction. `NothingAccepted` holds what lines 218 to 228 of
`z80.cpp` do on the way to the last two. Between steps the host calls `SetNmiLine`,
`SetIntLine`, `PulseIntLine`, `Reset` and `LoadSnapshot`.

PC, SP, I, IM, the enables, HALT, the latches and memory are exact, and so is
the order of bytes and the wrap of addresses. A, F and the other data registers are
not kept: a condition may hold or not, and an instruction that stores a register,
or goes where one points, uses any value of the constant `RegPairs`. Every opcode
of every page has an action, so the theorems speak of any program. `IN`, `OUT` and
the ALU are `Inert`. Memory is the ROM/RAM split of the hosts in `examples/`: writes
outside `RamAddrs` are ignored, reads of unmapped addresses give `OpenBus`.

The prefix loop of `dispatch_index` (`decode.cpp:1178-1187`) becomes `PrefixRun`,
the number of DD and FD bytes before the opcode; `MaxPrefix` bounds it. A program
with a longer run has no step here; `Z80Timing` has no such bound.

### Z80BusCycles and Z80BusRefinement

`phase` names the bus cycle in progress; one action is the code from the return of
one callback to the next one. The locals on the C++ stack (`op`, `value` of `push16`,
`databus`) are variables. Latches are sampled in `Begin...`, before the first
callback, which is what the code does. The host may call the line functions in every
phase; it replaces registers (`reset`, `load_snapshot`) only between steps, as the
hosts of the repository do.

In `handle_int` the mode is looked at after the push (`ByMode`), so IM is read as it is then.
This grain is given to both interrupt services, HALT, the prefixes, `EI`, `DI`, `IM`,
`LD SP,nn`, `JR`, `JP`, `CALL`, `RET`, `RETN`, `RST`, `PUSH`, `POP` and instructions
with operands that only compute. Conditional branches, stores and block instructions
have no bus cycles here and are absent from its program.

`Z80BusReset` lets the host call `reset()` in every phase but `host`. Only the registers
change; `phase`, the address of the cycle in progress and the other locals stay, as they do
on the C++ stack. Left out: a reset from a callback of `idle()`, whose cycles are not phases,
and `load_snapshot()` from a callback.

The refinement's linearisation point is the start of the step. Auxiliary variables
hold the state the step will end with, taken from an instance of `Z80Control` at that
moment; the refinement mapping shows them while the step runs. That the final
bus cycle arrives exactly at them is the content of `ImplementsControl`. One choice is made
later than the mapping shows it: which pair `PUSH qq` stores. The ends foresee it, and
`Foreseen` lets the push store that pair; as every pair could have been foreseen, no
behaviour is lost, and `RegPairs` may be any set.

### Z80Timing

The tables and the dispatch functions as functions from an opcode to its list of bus
cycles and to the value the function returns. `t` is `instruction_t_states_`, summed by
`machine_cycle`. The page graph (base, CB, ED, DD/FD, DD CB) is the module's
next-state relation, with the fallback of `dispatch_index` to the base page. Wait
states are the host's and enter neither sum.

### Z80Cycles and SpectrumHost

`Z80Cycles` keeps nothing but time. A step is one or more machine cycles of any duration
with any wait states; `start` and `total` are the locals of `step` and `run_for`. The counter
is modulo `CounterSize` (2^64 in the code) and an int modulo `IntSize` (2^32), so casts,
differences and sums do what they do there; a signed sum that overflows is undefined in C++
and wraps here, as in the builds there are. The host calls `reset_cycle_counter`, `reset`,
`save_snapshot` and `load_snapshot` in callbacks and between calls. The true durations are
history variables, and so is `replaced`: a callback of the call in progress assigned `cycles_`.

`SpectrumHost` is `main()` of the example, made to go on frame after frame: run a slice,
raise the INT line, run 64 T-states, lower it. Its steps are those of `Z80Control`; their
T-states come from `Z80Timing` for instructions and from the cycles of the services. `Init`
is the snapshot the host edits, IFF1 set and IFF2 clear. `Duration` covers the base and ED
pages, and tells a branch taken from where PC went; the instance's program keeps to that.

### Z80Alu and Z80Arithmetic

`Z80Alu` translates `alu_*`, `cb_*`, the tables of `flags.cpp`, and what `decode.cpp` computes
itself (NEG, CPL, RLD, RRD), with F as a record of its eight bits. Carries, half carries
and overflows are the code's bit expressions on sums of the width it keeps, not the
rules they stand for. SCF and CCF are in `Z80Latches`.

The rules are stated by programs. `Z80Arithmetic` adds or subtracts numbers of one or two
bytes: ADD or ADC, then ADC for the further byte, DAA behind each in decimal, and INC, DEC or
CPL between. It also doubles and halves numbers byte by byte, turns a byte in eight or
nine places by any mixture of instructions, and turns digits. The machine keeps A, F and the
bytes stored; loads, stores and loop jumps touch no flag and are no steps.

### Z80Block

One action per round (`LdRound` is `block_ld` and so on), with the ED byte, the opcode and the
jump behind it in the memory the block works on. Behind the forms that do not repeat stands
a conditional jump back, so that a program does by P/V and Z what the R forms do by PC - 2.
Bytes are opaque, each with its origin; only a search compares them. A byte register has
`Base` values and a pair `Base * Base`. `Interrupt` is `handle_int` and a handler that keeps
the registers. A block that overwrites its instruction ends in status `elsewhere`. S, H, N, C,
the undocumented flags and WZ are left out; P/V of the port forms is any value.

### Z80Latches

A byte is the set of its bits among 5 and 3, so `|` and `^` are union and symmetric
difference. Q is assigned by no single function: `write_flags` sets `flags_modified_`, the end
of `step` makes Q of it, and prefixes, both services, HALT and reset clear Q. The opcodes
that reach a `write_flags` are listed page by page as the cases of `decode.cpp` have them
(`MainWrites`, `IndexWrites`, `EdWrites`, ...), the cases of `dispatch_index` for themselves, since
they repeat those of the main page. SCF, CCF, EX AF and POP AF do to F what they do; what any
other writer leaves in A and F is any value. `Affects` is the reference beside the lists: the
instructions that affect F by their place in the table of opcodes, with or without a prefix.
The history `wrote` comes from the reference, Q from the lists.

## Properties

`Z80Control`:

- `TypeOK` — widths; fails where a cast is missing.
- `Iff1NeedsIff2` — IFF1 implies IFF2, so a RETN can give back no enable that was not
  suspended.
- `HaltedOnHalt` — a halted processor's PC is on a HALT opcode; this is what makes the
  `pc + 1` of both interrupt services right.

`Z80ControlHistory`, with history variables for the words on the stack (and which
interrupt or call put them there), what the program did last (the service of an NMI is no
instruction and leaves it), and what the host's calls have asked for (`level` and `risen` of the
NMI line, `pulsed` of INT):

- `StackHoldsFrames` — memory holds exactly the words pushed and not popped, in order,
  through every nesting and wrap, and interrupts pushed the address of the instruction
  they kept from running.
- `EnablesAgree` — outside NMI handlers IFF1 equals IFF2.
- `NmiTransparent` — RETN of an outermost NMI handler that changed no enable gives
  back PC and IFF1, whatever else the handler runs. For an NMI nested in another it does
  not hold: the inner handler finds IFF1 already off and its RETN turns it on (as on the
  real processor).
- `EiShadow` — behind an EI one instruction runs before an INT is taken, also when NMI
  services come between the two.
- `IntAsAsked` — every INT has a high line or a pulse behind it, and the pulse was made since
  the last step that looked at INT: a pulse is one INT at most and does not linger. And with
  IFF1 on nothing is run in front of a pulse or a high line (one held over `reset()` too) but
  the instruction behind an EI: no INT is lost that could be taken, and the shadow lasts
  for one instruction only.
- `NmiOncePerEdge` — one NMI for each rise of the line, by the very next step, none without
  one, and none for a line held over `reset()`.
- `NoIntNesting` — handlers ending in `EI; RET` do not stack up, with NMIs outside them.
- `QuietHostSettles` — when the host stops calling with INT low, interrupts end for
  good and the handlers are left.
- `LevelIntServed` — a held INT line is accepted again and again.

`Z80BusRefinement`: `ImplementsControl`. `Z80BusCycles`: `StepReturns` — every call comes back,
whatever the host does in its callbacks; `StepExecutes` is violated (below).

`Z80Timing`: `TimingAssertion` (the assertion of `z80.cpp:241`, for all opcodes),
`LongestInstruction` (21 T-states plus 4 per prefix: how far `run_for` can overshoot),
`ReadsBeforeWrites` (no instruction reads after it first wrote, so bank switching in a
write callback cannot disturb it).

`Z80BusReset`: `ResetSilences` — after a reset in a callback INT stays off when the step
returns, a fetched RETN included; EI itself is the exception. `HaltedOnHalt` again.

`SpectrumHost`: `FrameServed` — no frame's interrupt is missed; `FrameOnce` — none is taken
twice; `FramesEnd` — `run_for` comes back, also in HALT.

`Z80Cycles`: `StepExact` — a step returns the T-states it took; `RunForExact` — so does
`run_for`, and its overshoot is less than its last step (both unless `replaced`); `SinceReset` —
`cycles_since_reset` across wraps, resets and snapshots in callbacks too; `RunForReturns` —
`run_for` comes back once callbacks no longer set the counter back under it.

`Z80Arithmetic`: `LongExact` — bytes stored and C make up the exact sum or difference at
every byte; `SignedOrder` — S and P/V compare signed numbers; `DecimalExact` — DAA gives
decimal results with their carry; `PairMatchesChain` — the 16-bit instructions give result
and flags of the 8-bit chain; `ShortForms` — CP, NEG, INC, DEC, BIT, SET, RES and the logic
agree with the instructions they abbreviate; `ShiftExact` and `TurnExact` — nothing is lost
between the bytes, C and the digits of A, in any order of instructions.

`Z80Block`: `TransferExact` — memory after k rounds, overlap, wraps and self-overwriting
included, against a definition without rounds; `SearchExact` — where a search ends and what
Z and P/V say; `PortSequence` — the order and addresses of the port accesses;
`RoundsExact` — no round twice and none left out, under interrupts; `BlockEnds`.

`Z80Latches`: `QAgrees` — Q is F if the step before was an instruction that affects F, and zero
otherwise: no opcode of any page forgets `write_flags` or calls it for nothing; `ScfRule` — what
SCF and CCF show.

## Runs

Distinct states in parentheses.

| Run | Checks | Instance |
| --- | --- | --- |
| `Control` (144 600) | `StackHoldsFrames`, `EnablesAgree`, `NmiTransparent`, `EiShadow`, `IntAsAsked`, `NmiOncePerEdge` | three programs in one ROM, picked by a byte of RAM: IM 1 with an `EI; HALT` loop and a handler with PUSH/POP; IM 2 with two vectors, one across a page, calls, DI windows, an NMI handler that enables INT; IM 0 with three bytes on the data bus, HALT behind two prefixes, RST; two snapshots |
| `Opcodes` (1 170 000) | `TypeOK`, `Iff1NeedsIff2`, `HaltedOnHalt` | every opcode of every page in three bytes of RAM |
| `Liveness` (1 500) | `NoIntNesting`, `QuietHostSettles`, `LevelIntServed` | IM 1, an `EI; HALT` loop, NMI outside its handlers only |
| `Bus` (156 000) | `ImplementsControl`, `StepReturns` | IM 2 loop with HALT, CALL, RST, PUSH, POP, operands; NMI edge in the middle of a push; a snapshot of the HALT |
| `BusAck` | `StepExecutes`, violated | the same program |
| `BusReset` (1 226 000) | `ResetSilences`, `HaltedOnHalt` | a loop with EI, HALT, CALL, a prefixed RET, RETN and RETI; INT, NMI, two resets inside steps |
| `Timing` (1 100) | `TimingAssertion`, `LongestInstruction`, `ReadsBeforeWrites` | all 256 bytes on every page |
| `Spectrum` (4 700) | `FrameServed`, `FrameOnce`, `FramesEnd` | the example's program, then a loop with a critical section, branches and a prefixed HALT |
| `Cycles` (825 000) | `StepExact`, `RunForExact`, `SinceReset`, `RunForReturns` | counter of 16 values, int of 8, wait states, a snapshot |
| `Arithmetic` (1 085 000) | `LongExact`, `DecimalExact`, `SignedOrder`, `PairMatchesChain`, `ShortForms`, `ShiftExact`, `TurnExact` | every pair of bytes and both carries; words at the edges of bytes, digits and signs in all pairs; every byte turned |
| `Block` (998 000) | `TransferExact`, `SearchExact`, `PortSequence`, `RoundsExact`, `BlockEnds` | sixteen addresses, every start and count, instruction across the end of memory, one interrupt |
| `Latches` (771) | `QAgrees`, `ScfRule` | all 256 opcodes of the main, CB and ED pages behind none, one and two prefixes in every state of A, F and Q; two snapshots |

Bounds, and why they are enough:

- `EdgeSP` (a set of stack pointers) limits where the host raises NMI. Without it NMIs
  nest without bound, because an NMI needs no enable. `Control` raises edges one word
  down, in calls and handlers, and its snapshots bring one to the main program, so NMI in
  NMI, NMI in INT and INT in NMI all happen, and depth changes nothing else in the
  code. `Liveness` raises them in the main program only, as `NoIntNesting` requires. `Bus` uses FFFF, a value SP has only in the
  middle of a push, so the edge arrives between the two bytes.
- `MaxPrefix` is 2 or 3, the longest run in the programs; two prefixes already go
  round the loop of `dispatch_index`, and the counter only matters to `PrefixRun`.
  In `Z80Timing` it stops counting, not fetching.
- RAM is the sixteen bytes at the top of memory with SP starting at 0, so every push
  goes through the wrap of SP. `Opcodes` instead has three bytes at the reset address
  and open bus elsewhere, so instructions overwrite themselves.
- `Operands` and `Counters` are all bytes, or edge values: the code's formulas look at bits 3
  to 8, 11 to 13, 15 and 16 of sums and at digits against 9, and the words are the ones
  that put a carry or none across each.
- `Base` is 4: a block of up to sixteen bytes wraps, overlaps itself at every distance,
  runs over its instruction and its stack frame, and a count of zero is the whole memory. No
  comparison in the code knows 256. `MaxInterrupts` (1) is enough for a round to be repeated
  or skipped; a second interrupt meets only another value of the same registers.
- `CounterSize` 16 and `IntSize` 8 let the counter wrap within a few steps and every
  difference of a step (`MaxStep` 2) fit in an int, as real steps fit in 2^31.
  `SaveTimes` is one value of the counter, to keep the states few. `ModestTargets` are slices
  an int holds with their overshoot, a negative one among them.
- `MaxResets` is 2: a reset in a step, and one in the step after it.
- `Frame` is 500 T-states in place of 69888, longer than two rounds of the program's loop;
  `Window` is the 64 of the code. `Z80Latches` has no bound but `MaxPrefix`.
- Programs are fixed; what depends on data (conditions, repeats, registers stored) is
  nondeterministic.

The run `BusAck` shows a disagreement of the code with its header: `z80.hpp:23-24` says a
step executes one instruction, "including any pending interrupt acknowledge that completed
first". `step()` returns right after the acknowledge, without an instruction.

Some properties hold only under a condition that the header does not name. Each condition is
a premise of the property or a bound of the instance, and these are the cases it leaves out:

- `StepReturns` and `RunForReturns` need prefix runs to end (`MaxPrefix`, `MaxStep`). Over
  memory of DD and FD bytes only, the loop of `dispatch_index` never leaves the step.
- `StepExact` and `RunForExact` except calls in which a callback assigned `cycles_`: with
  `reset()` or `load_snapshot()` in a callback the counter changes under the local `start`, and
  step returns another number, possibly a negative one.
- `RunForExact` needs the slice and its overshoot to fit in an int (`ModestTargets`). With a
  slice near INT_MAX the last step takes the total past its end.
- `ResetSilences` speaks of the enables only. PC and SP are not those of a reset when the step
  it interrupted writes its locals over them: a reset in the last operand read of `LD SP,nn`
  ends with PC = 1 and SP = 0.
- `EiShadow` counts the first instruction of an NMI handler as the one behind the EI, as
  `step()` does (`z80.cpp:228`): after EI, NMI and RETN a waiting INT is taken in front of the
  instruction that stands behind the EI. `registers.hpp:47` promises one instruction, no more.
- A pulse that meets an NMI stays latched over its service but not over the first instruction
  of the handler, which runs with IFF1 off; a pulse in the shadow of an EI is gone likewise.
  `IntAsAsked` therefore speaks of what can be taken; `tests/test_interrupts.cpp:210-235`
  expects a masked pulse to be lost.
- `StackHoldsFrames` is checked, and proved, with the stack in RAM: a word of which one half
  is written to ROM or open bus cannot be popped again.
- `Z80Latches` does not keep WZ. `BIT n,(HL)` takes bits 5 and 3 from it (`decode.cpp:820`), as
  `tests/test_flags.cpp:222-246` expects; `CHANGELOG.md:18-19` speaks of the effective address.

In `SpectrumHost` one thing is the program's and not the host's merit: the INT line is high for
64 T-states, so a handler that ends in `EI; RET` sooner would be entered again. The
instance's handler, two PUSH and POP pairs, lasts just long enough.

Fairness: weak fairness of the step (or of its bus cycles), and none for the host. It
stands for the loop of `run_for` (`z80.cpp:246-252`) or the host's own loop, and, inside
a step, for C++ code that runs to its next callback. Conditions and inputs get no
fairness. `QuietHostSettles` and `LevelIntServed` assume in their premise that the
host eventually makes no more calls, and a program that keeps enabling interrupts is
given by the instance. In `Bus` the host need not even call again. In `Z80Block`, `Z80Cycles` and `SpectrumHost` it is the same fairness: of
rounds and returns, of the code inside `run_for`, of the frame loop, and in the first two none
for interrupts or the host's calls.

## Proofs

`Z80ControlProofs` proves, for any ROM, RAM, open-bus value, data bus, snapshots and
`RegPairs` that satisfy `HostAssumption` and `SnapshotAssumption`, any bounds, and every
opcode:

- `TypeCorrect` — `Spec => []TypeOK`. `TypeOK` is inductive. The work is that every
  sum that reaches PC or SP passes through a cast, one step per instruction group in
  `InstructionType`, and that stores leave memory a function to bytes.
- `EnablesOrdered` — `Spec => []Iff1NeedsIff2`, inductive by itself: only `Ei`, `Di`, `RetN`,
  the two services, `Reset` and `LoadSnapshot` touch the enables.
- `HaltedSitsOnHalt` — `Spec => []HaltedOnHalt`. Inductive together with `TypeOK`. A halted
  processor writes nothing, so only the HALT step matters: PC becomes
  `W16(W16(pc + n + 1) - 1)`, which is the address of the byte fetched
  (`BackOne`), whatever the prefix run `n`.
- `PushThenPop` — what `push16` writes at any SP, `pop16` reads back, and SP returns,
  because the two addresses are always different (`PushAddresses`).

`Z80LatchesProofs` proves, for any number of prefixes and any snapshots with Q equal to F or
zero (`LatchAssumption`, what `save_snapshot()` can return):

- `QCurrent` — `Spec => []QAgrees`. Inductive with `TypeOK`, and it rests on `WritesWhenAffects`: for
  every opcode of every page, behind any number of prefixes, the lists taken from the cases
  of the decoder say the same as the reference (`MainAgrees`, `IndexAgrees`, `EdAgrees`, `CbAgrees`).
- `ScfCorrect` — `Spec => ScfRule`, from it and `MixedSelf` (F ^ F is zero and F ^ 0 is F): the
  code's one expression is the two-case rule.

`Z80HistoryProofs` proves, for every program and every order of host calls, that the three
latches of the code stand for what happened. `HistoryInv` is inductive: `ei_pending` is set exactly
behind an EI that no instruction has followed (`EiRemembered`, which needs that every opcode
but FB clears it, `OthersEndShadow`), a pulse is latched exactly if the host made one and no step
has looked at INT since (`PulseRemembered`), and an NMI is pending exactly if the host's calls
made an edge (`EdgeRemembered`). From it:

- `ShadowHolds` — `HSpec => EiShadow`.
- `IntsAreAnswered` — `HSpec => IntAsAsked`.
- `EdgesAreNew` — `HSpec => NmiOncePerEdge`.

The frames on the stack depend on the program: one that pops what it did not push breaks them.
What a program has to do for them is an action that every step satisfies, and a premise; all
else (memory map, host calls, nesting, places) is arbitrary. TLC found `KeepsStack` and
`NmiLeftByRetN` true of every step of the instance `Control`, and `IntLeftBehindEi` of `Liveness`.

- `StackIsKept` — `HSpec /\ [][KeepsStack]_hvars => []StackHoldsFrames`. `KeepsStack`: pushes land
  in RAM and fewer than 65536 bytes deep, stores miss the frames, SP is loaded from no register
  and no cell. The property is inductive with the types (`FramesType`): a push writes two
  addresses that no older frame has modulo 65536 (`HeldByPush`, `CastApart`), and whatever an
  instruction does to SP is a push of the word in `PushedFrame`, a pop, or a move that drops
  the frames (`StackShape`).
- `EnablesRestored` — `HSpec /\ [][NmiLeftByRetN]_hvars => []EnablesAgree`. `NmiLeftByRetN`: the last
  NMI frame is popped by RETN or RETI, and snapshots have equal enables. Inductive.
- `NmiIsTransparent` — `NmiTransparent` under both premises. `SavedEnable`: IFF2 is the enable an
  outermost NMI found, until its frame is marked as touched.
- `IntsNeverNest` — `HSpec /\ [][IntLeftBehindEi]_hvars => []NoIntNesting`. `IntLeftBehindEi`: in an
  INT handler the instruction behind EI leaves it, and no NMI falls between the two.
  `OffInHandler`: in a handler both enables are off, but in the shadow of an EI. The
  premise on NMIs is needed: an NMI there uses up the shadow and its RETN turns INT on
  before the RET has run. NMIs elsewhere in a handler are free, which the run does not show.

`Z80BusProofs` proves both theorems about the grain of bus cycles, for every program, memory
map, register pair, prefix bound and number of resets:

- `BusImplementsControl` — `RSpec => ImplementsControl`. The invariant `BusInv` says for every
  phase where the step will end, in terms of the registers and locals as they are then
  (`Foresight`): in `pushHi` that SP will be one less and memory hold both bytes of `word`,
  in `popHi` that PC will be the joined bytes, in `M1` that some number of prefixes from here
  stands the opcode whose effect the ends are. Each bus cycle keeps it, one lemma per action,
  the prefix loop by moving the count down by one (`PrefixBehind`). `SameStep` shows that the
  step the ends make is the step of the mapped registers; with it the beginning of a step maps
  to `Control!Step`, a bus cycle to a stutter (at the return because `Foresight` then says that
  the registers are the ends), a line change to itself, and `reset` and `load_snapshot` to
  themselves.
- `ResetStaysSilent` — `WSpec => []ResetSilences`. `ResetSilences` looks only at the return of
  the step and is not inductive: `StaysOff` adds that both enables stay off through every bus
  cycle that the step cut by the reset still runs, unless the cycle is that of an EI, which
  ends its step.

`Z80BlockProofs` proves, for byte registers of any number of values from 2 on, any place of
the program and the stack, and any number of interrupts:

- `RoundsAreExact` — `Spec => []RoundsExact`. `ControlInv` says that the registers count the
  rounds (HL, DE and BC, or B, have moved by as many, modulo their width), that P/V and Z tell
  whether rounds are left, and that PC, or the copy of it on the stack while a handler runs,
  stands on the instruction exactly then. A counter of zero is the whole memory
  (`CountsDown`, `CountsDownB`).
- `CopiesAreExact`, `SearchesAreExact`, `PortsAreExact` — `TransferExact`, `SearchExact`,
  `PortSequence`. `MemoryInv` adds, as long as nothing has written to the operands, what memory
  holds after so many rounds, byte by byte, the bytes an overlapping copy has already
  overwritten included (`CopyNext`, `SourceByte`), which bytes a search has passed, and what
  the ports saw.

`Z80CyclesProofs` proves, for counters and ints of any width and any durations and wait states:

- `SinceResetHolds` — `Spec => []SinceReset`. Inductive with the types and `SavedSince`, the same
  of the saved snapshot.
- `StepReturnsItsTime`, `RunForReturnsItsTime` — `Spec => []StepExact`, `Spec => []RunForExact`.
  `AnswersInv` adds `StepShadow` (in a step the counter is as far past `start` as the step has
  taken) and `RunShadow` (the total is the time of the steps, below the target when
  `step()` is called).

They rest on lemmas about the remainder by a width that is no number (`OneRemainder`,
`EarlyRemainder`), as the proofs about the blocks do, and on `FitsInt`: a step, and the target of `run_for` with one step on top,
fit an int. The code does not check it; past it the sum in `run_for` overflows.

`Z80TimingProofs` proves, for any set of opcode bytes and any number of counted prefixes:

- `TimingAssertionHolds` — `Spec => []TimingAssertion`. `TimingInv` says that while the opcode is
  looked for only its bytes have been counted, and that the cycles still to be made (`Rest`)
  always make up the difference between `t` and `declared`. It needs every opcode of every page
  to fit its declaration: `BaseFits`, `CbFits`, `EdFits`, `IndexFits`, `IndexCbFits`, with the
  rows of `base_timing` evaluated. No instruction makes more than eleven cycles behind its
  opcode, so the sum is written out and needs no induction (`Join`, `Shift`).
- `InstructionsAreShort`, `WritesComeLast` — `Spec => []LongestInstruction`,
  `Spec => []ReadsBeforeWrites`, from the same invariant: a list that fits has no read behind
  a write (`Ordered`).

`Z80ArithmeticProofs` proves every rule of `Z80Arithmetic`, which the run `Arithmetic` checks for
all bytes and for words at the edges, for all words: the only assumption is
`OperandsAssumption`, that `Operands[n]` holds numbers of `n` bytes and that what is counted
and what stands in A are bytes. Numbers have one byte or two, as the code's register
pairs, so a proof goes byte by byte and needs no induction over data. The lemmas below the
theorems turn the code's bit tricks into arithmetic, one ALU operator at a time (`AddFields`,
`SubFields`, `RotateFields`, `DaaFields`, `PairFields`: what each bit of F is; `AddExact`,
`SubExact`, `LeftExact`, `RightExact`: what it means). `Shape` says where a program is
(`ShapeHolds`): how many bytes are done, what comes next, and that C is still the C of the
start in front of the first byte.

- `LongExactHolds` — `Spec => []LongExact`. `LongInv` is the same equation in front of every byte,
  with the carry that the next instruction will take in (`Held`): none for the ADD or SUB of
  the first byte, C for the others, and INC, DEC and CPL keep it (`CountFields`).
- `SignedOrderHolds`, `PairMatchesChainHolds`, `ShortFormsHolds` — the rules about F at the end.
  `LastByte` keeps what the exact equation forgets: with which bytes and which carry from
  below the last instruction was run, and that F is what it left. From it the signs of the
  last byte decide the sign of the number (`LastDecides`), the bits 15, 13, 12 and 11 of a
  sum of words are bits of the last sum of bytes (`PairBits`), and CP agrees with the F that
  SUB left. NEG, INC and DEC agree with SUB and ADD for every byte (`NegIsSub`, `IncIsAdd`,
  `DecIsSub`); BIT, RES, SET and the logic by the sets of bits that make up a byte
  (`WeighBits`, `BitsBack`, `WeighTwo`).
- `DecimalExactHolds` — `Spec => []DecimalExact`. `DecimalInv` has the decimal equation in front of
  an addition or subtraction, and between it and its DAA what A, C, H and N hold
  (`LeftToAdjust`): the binary result of two decimal digits each, with its half carry and
  carry. That is all DAA needs to find the digits (`SumAdjusted`, `DifferenceAdjusted`).
- `ShiftExactHolds` — `Spec => []ShiftExact`, inductive with `Shape`.
- `TurnExactHolds` — `Spec => []TurnExact`. `TurnInv` adds to the places of the bits that turns in
  eight places keep the parity and whether the byte is zero, which is why Z and P/V, set by
  a CB turn long ago, still tell of the byte (`TurnKeeps`; `ParityOfOnes` counts the ones).
  A turn to the right is one to the left backwards (`LeftTurn`, `ByteTurns`), and so are RLD
  and RRD (`RldRrd`).

`SnapshotAssumption` says the host loads what `save_snapshot()` can return: IFF1 implies
IFF2, and a halted snapshot sits on a HALT (in ROM, as restoring RAM is left to the
host). `examples/zx_spectrum_host.cpp:85` edits IFF1 alone and leaves it; for such a
host `EnablesOrdered` does not hold; that its INTs are served all the same is what the run
`Spectrum` shows.

Only model-checked:

- The liveness properties (`QuietHostSettles`, `LevelIntServed`, `StepReturns`, `StepExecutes`,
  `FramesEnd`, `RunForReturns`, `BlockEnds`): fairness is out of the prover's reach.
- `FrameServed` and `FrameOnce` of `SpectrumHost`: they hold of its program and its T-states, not
  of every program. A theorem would need that no critical section lasts as long as the
  line and no handler is shorter, which is what they say; TLC adds up the T-states of the
  program in `MCSpectrumHost` instead.

## Not modelled, and planned

In order:

1. Conditional branches, stores and block instructions at the grain of bus cycles, and with them
   `reset()` in the callbacks of idle cycles and `load_snapshot()` in any callback.
2. The remaining flags of block instructions, and WZ: what each instruction leaves in it.
3. R: its seven bits count opcode fetches, acknowledges and HALT cycles, the last byte of
   DD CB excepted; it shows in LD A,R and the refresh address only.
4. The Mega Drive host's mirror and bank register, with the gate around its loop.

Left out for good: the hosts' video, sound and contention; the test harness;
formatting and build files.
