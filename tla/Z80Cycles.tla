----------------------------- MODULE Z80Cycles -----------------------------
(***************************************************************************)
(* The cycle counters of the core, and step() and run_for() as what they     *)
(* return: T-states as an unsigned counter that wraps, differences of it as  *)
(* int, and the host that calls them, adds wait states in on_m_cycle and     *)
(* resets, saves and restores the counters.  What a step executes is left    *)
(* to the other modules: here it is one or more cycles of any duration.      *)
(***************************************************************************)
EXTENDS Integers

CONSTANTS
    CounterSize,    \* values of cycles_ (2^64 in the code)
    IntSize,        \* values of an int (2^32)
    Durations,      \* T-states of a cycle
    Waits,          \* wait states the host adds to one
    MaxStep,        \* bound: T-states of a step with its wait states
    Targets,        \* arguments of run_for
    SaveTimes       \* bound: counter values at which the host saves a snapshot

ASSUME CyclesAssumption ==
    /\ IntSize \in Nat \ {0} /\ IntSize % 2 = 0
    /\ CounterSize \in Nat \ {0} /\ CounterSize % IntSize = 0
    /\ Durations \subseteq Nat \ {0} /\ Waits \subseteq Nat
    /\ MaxStep \in Nat /\ Targets \subseteq Int

\* What the host keeps to, as the core returns T-states as an int.
ASSUME FitsInt ==
    /\ MaxStep < IntSize \div 2
    /\ \A t \in Targets : t + MaxStep <= IntSize \div 2

VARIABLES
    cycles,     \* cycles_
    base,       \* base_cycle_counter_
    start,      \* the local of step(); zero outside
    total,      \* the local of run_for(); zero outside
    call,       \* [kind, target]: the call in progress, or the last one
    phase,      \* "host", "loop" of run_for, "step", or "cycle": in a callback
    answer,     \* what the last call returned; zero during one
    saved,      \* a snapshot's counters and, as history, its `since`
    since,      \* history: T-states since reset() or reset_cycle_counter()
    stepTime,   \* history: T-states of the step
    runTime,    \* history: T-states of the steps of run_for
    replaced    \* history: a callback of the call assigned cycles_

vars == <<cycles, base, start, total, call, phase, answer, saved, since, stepTime, runTime, replaced>>
counters == <<cycles, base, since>>

\* uint64_t and int arithmetic.  A cast to int is modulo 2^32 since C++20; a
\* signed sum that overflows is undefined, and wraps in the builds there are.
Counter(n) == n % CounterSize
ToInt(n) == LET k == n % IntSize IN IF k < IntSize \div 2 THEN k ELSE k - IntSize

Init ==
    /\ cycles = 0 /\ base = 0
    /\ start = 0 /\ total = 0
    /\ call = [kind |-> "none", target |-> 0]
    /\ phase = "host"
    /\ answer = 0
    /\ saved = [cycles |-> 0, base |-> 0, since |-> 0]
    /\ since = 0 /\ stepTime = 0 /\ runTime = 0 /\ replaced = FALSE

-----------------------------------------------------------------------------
(* The core                                                                 *)

\* uint64_t start = cycles_
BeginStep == start' = cycles /\ stepTime' = 0 /\ phase' = "step"

CallStep ==
    /\ phase = "host"
    /\ call' = [kind |-> "step", target |-> 0]
    /\ BeginStep
    /\ answer' = 0 /\ runTime' = 0 /\ replaced' = FALSE
    /\ UNCHANGED <<counters, total, saved>>

CallRunFor ==
    /\ phase = "host"
    /\ \E t \in Targets : call' = [kind |-> "run_for", target |-> t]
    /\ total' = 0
    /\ phase' = "loop"
    /\ answer' = 0 /\ runTime' = 0 /\ stepTime' = 0 /\ replaced' = FALSE
    /\ UNCHANGED <<counters, start, saved>>

Loop ==
    /\ phase = "loop" /\ total < call.target
    /\ BeginStep
    /\ UNCHANGED <<counters, total, call, answer, saved, runTime, replaced>>

LoopReturn ==
    /\ phase = "loop" /\ total >= call.target
    /\ answer' = total /\ total' = 0
    /\ phase' = "host"
    /\ UNCHANGED <<counters, start, call, saved, stepTime, runTime, replaced>>

\* MUTANT of MachineCycle: the wait states are not counted.
MachineCycleBare(d, w) == cycles' = Counter(cycles + d)

MachineCycle(d, w) == cycles' = Counter(cycles + d + w)

\* machine_cycle, from the return of on_m_cycle to the next one.
Cycle ==
    /\ phase \in {"step", "cycle"}
    /\ \E d \in Durations, w \in Waits :
         /\ stepTime + d + w <= MaxStep
         /\ MachineCycle(d, w)
         /\ stepTime' = stepTime + d + w
         /\ since' = Counter(since + d + w)
    /\ phase' = "cycle"
    /\ UNCHANGED <<base, start, total, call, answer, saved, runTime, replaced>>

\* MUTANT of ReturnStep: the length of a step is the whole counter.
ReturnStepAll == ToInt(cycles)

ReturnStep == ToInt(Counter(cycles - start))

\* MUTANT of Added: run_for keeps the last step instead of the sum.
AddedLast(t) == t

\* total += step()
Added(t) == ToInt(total + t)

\* return static_cast<int>(cycles_ - start), and what run_for does with it.
EndStep ==
    /\ phase = "cycle"
    /\ IF call.kind = "step"
         THEN answer' = ReturnStep /\ phase' = "host" /\ UNCHANGED <<total, runTime>>
         ELSE /\ total' = Added(ReturnStep)
              /\ runTime' = IF runTime < IntSize THEN runTime + stepTime ELSE runTime
              /\ phase' = "loop" /\ UNCHANGED answer
    /\ start' = 0
    /\ UNCHANGED <<counters, call, saved, stepTime, replaced>>

-----------------------------------------------------------------------------
(* The host, between calls and in callbacks                                 *)

ResetCycleCounter ==
    /\ base' = cycles /\ since' = 0
    /\ UNCHANGED <<cycles, saved>>

\* MUTANT of Reset: base_cycle_counter_ stays.
ResetKeepsBase == cycles' = 0 /\ since' = 0 /\ UNCHANGED <<base, saved>>

Reset == cycles' = 0 /\ base' = 0 /\ since' = 0 /\ UNCHANGED saved

SaveSnapshot ==
    /\ cycles \in SaveTimes
    /\ saved' = [cycles |-> cycles, base |-> base, since |-> since]
    /\ UNCHANGED counters

LoadSnapshot ==
    /\ cycles' = saved.cycles /\ base' = saved.base /\ since' = saved.since
    /\ UNCHANGED saved

Host ==
    /\ phase # "loop"
    /\ \/ (ResetCycleCounter \/ SaveSnapshot) /\ UNCHANGED replaced
       \/ (Reset \/ LoadSnapshot) /\ replaced' = (replaced \/ phase # "host")
    /\ UNCHANGED <<start, total, call, phase, answer, stepTime, runTime>>

Next == CallStep \/ CallRunFor \/ Loop \/ LoopReturn \/ Cycle \/ EndStep \/ Host

Spec == Init /\ [][Next]_vars

\* C++ code runs to its return: no step has cycles without end (MaxStep).
FairSpec == Spec /\ WF_vars(Loop \/ LoopReturn \/ Cycle \/ EndStep)

-----------------------------------------------------------------------------
(* Properties                                                               *)

\* step() returns the T-states it took with their wait states, also across
\* the wrap of the counter and around the host's reset_cycle_counter (the
\* comment of step: "Returns the exact number of T-states consumed"), unless a
\* callback assigned the counter under it.
StepExact == phase = "host" /\ call.kind = "step" /\ ~replaced => answer = stepTime

\* run_for returns what its steps took together, which is the T-states asked
\* for or more, and no more than its last step makes it.
RunForExact ==
    phase = "host" /\ call.kind = "run_for" /\ ~replaced =>
        /\ answer = runTime
        /\ answer >= call.target
        /\ runTime > 0 => runTime - stepTime < call.target

\* cycles_since_reset() is the time since the last reset of either kind,
\* modulo the counter, across its wrap and through snapshots, which take the
\* time of their own history with them.
SinceReset == Counter(cycles - base) = since

\* run_for comes back, also after callbacks that set its total back (a step
\* over reset() returns less than nothing), once they no longer do.
ReplacesNoMore == <>[][cycles' = cycles \/ Cycle \/ phase = "host"]_vars

RunForReturns == ReplacesNoMore => (phase = "loop" ~> phase = "host")

=============================================================================
