-------------------------- MODULE Z80CyclesProofs --------------------------
(***************************************************************************)
(* What step() and cycles_since_reset() return, for counters and ints of any *)
(* size.  The invariant is about differences of a counter that wraps.       *)
(***************************************************************************)
EXTENDS Z80Cycles, TLAPS

-----------------------------------------------------------------------------
(* Remainders by a divisor that is a constant and no numeral                 *)

\* The remainder is below the divisor.
LEMMA RemainderRange ==
    ASSUME NEW d \in Nat \ {0}, NEW n \in Int PROVE n % d \in 0 .. d - 1
BY SMT

\* The remainder is what is left above a multiple of the divisor.
LEMMA RemainderIs ==
    ASSUME NEW d \in Nat \ {0}, NEW q \in Int, NEW r \in 0 .. d - 1, NEW n \in Int,
           n = d * q + r
    PROVE  n % d = r
<1> DEFINE p == n \div d
           s == n % d
<1>1. p \in Int /\ n = d * p + s BY SMT
<1>2. s \in 0 .. d - 1 BY RemainderRange
<1> HIDE DEF p, s
<1>3. s = r BY <1>1, <1>2, SMT
<1> QED BY <1>3 DEF s

\* A number below the divisor is its own remainder.
LEMMA SmallRemainder ==
    ASSUME NEW d \in Nat \ {0}, NEW n \in 0 .. d - 1 PROVE n % d = n
<1>1. n = d * 0 + n BY SMT
<1> QED BY <1>1, RemainderIs, SMT

\* Taking the remainder early changes nothing in a sum.
LEMMA EarlyRemainder ==
    ASSUME NEW d \in Nat \ {0}, NEW m \in Int, NEW n \in Int
    PROVE  ((m % d) + n) % d = (m + n) % d
<1> DEFINE p == m \div d
           q == ((m % d) + n) \div d
           r == m % d
           s == ((m % d) + n) % d
<1>1. p \in Int /\ r \in Int /\ m = d * p + r BY SMT
<1>2. q \in Int /\ r + n = d * q + s BY <1>1, SMT
<1>3. s \in 0 .. d - 1 BY <1>1, RemainderRange
<1> HIDE DEF p, q, r, s
<1> DEFINE u == d * p
           v == d * q
<1>4. u \in Int /\ v \in Int /\ d * (p + q) = u + v BY <1>1, <1>2, SMT
<1>5. m + n = d * (p + q) + s
  <2>1. m = u + r /\ r + n = v + s BY <1>1, <1>2
  <2> HIDE DEF u, v
  <2>2. m + n = (u + v) + s BY <1>1, <1>3, <1>4, <2>1, SMT
  <2> QED BY <1>4, <2>2
<1>6. p + q \in Int /\ m + n \in Int BY <1>1, <1>2
<1>7. (m + n) % d = s BY <1>3, <1>5, <1>6, RemainderIs
<1> QED BY <1>7 DEF r, s

-----------------------------------------------------------------------------
(* The constants                                                            *)

\* The counter and the int as divisors, an int no wider than the counter.
LEMMA Sizes ==
    /\ CounterSize \in Nat \ {0} /\ IntSize \in Nat \ {0}
    /\ IntSize = 2 * (IntSize \div 2) /\ IntSize \div 2 \in Nat
    /\ IntSize <= CounterSize
    /\ MaxStep \in Nat /\ MaxStep < IntSize \div 2 /\ MaxStep < CounterSize
<1>1. /\ CounterSize \in Nat \ {0} /\ IntSize \in Nat \ {0}
      /\ IntSize % 2 = 0 /\ CounterSize % IntSize = 0
      /\ MaxStep \in Nat /\ MaxStep < IntSize \div 2
  BY CyclesAssumption, FitsInt
<1>2. IntSize = 2 * (IntSize \div 2) /\ IntSize \div 2 \in Nat
  BY <1>1, SMT
<1>3. IntSize <= CounterSize
  <2> SUFFICES ASSUME ~(IntSize <= CounterSize) PROVE FALSE OBVIOUS
  <2>1. CounterSize \in 0 .. IntSize - 1 BY <1>1, SMT
  <2>2. CounterSize % IntSize = CounterSize BY <1>1, <2>1, SmallRemainder
  <2> QED BY <1>1, <2>2
<1>4. MaxStep < CounterSize BY <1>1, <1>2, <1>3, SMT
<1> QED BY <1>1, <1>2, <1>3, <1>4

\* A count below half an int survives the casts to the counter and to int.
LEMMA SmallCounts ==
    ASSUME NEW n \in Nat, n < IntSize \div 2
    PROVE  Counter(n) = n /\ ToInt(n) = n
<1>1. n \in 0 .. CounterSize - 1 /\ n \in 0 .. IntSize - 1 BY Sizes, SMT
<1>2. n % CounterSize = n /\ n % IntSize = n BY <1>1, Sizes, SmallRemainder
<1> QED BY <1>2 DEF Counter, ToInt

\* The counter takes time as time: T-states later it is that much further from
\* any reading of it.
LEMMA LaterReading ==
    ASSUME NEW c \in Int, NEW b \in Int, NEW x \in Int
    PROVE  Counter(Counter(c + x) - b) = Counter(Counter(c - b) + x)
<1> DEFINE m == c + x
           n == 0 - b
           k == c - b
<1>1. m \in Int /\ n \in Int /\ k \in Int /\ k + x = m + n BY SMT
<1> HIDE DEF m, n, k
<1>2. ((m % CounterSize) + n) % CounterSize = (m + n) % CounterSize
  BY <1>1, Sizes, EarlyRemainder
<1>3. ((k % CounterSize) + x) % CounterSize = (k + x) % CounterSize
  BY <1>1, Sizes, EarlyRemainder
<1>4. (m % CounterSize) + n = (m % CounterSize) - b
  <2>1. m % CounterSize \in Int BY <1>1, Sizes, RemainderRange
  <2> QED BY <2>1, SMT DEF n
<1> QED BY <1>1, <1>2, <1>3, <1>4 DEF Counter, m, k

\* A counter value is a counter value.
LEMMA CounterRange == ASSUME NEW n \in Int PROVE Counter(n) \in 0 .. CounterSize - 1
BY Sizes, RemainderRange DEF Counter

-----------------------------------------------------------------------------
(* cycles_since_reset()                                                     *)

CountersType ==
    /\ cycles \in 0 .. CounterSize - 1 /\ base \in 0 .. CounterSize - 1
    /\ since \in 0 .. CounterSize - 1
    /\ saved \in [cycles : 0 .. CounterSize - 1, base : 0 .. CounterSize - 1,
                  since : 0 .. CounterSize - 1]

\* A snapshot's counters agree with the history they were saved with.
SavedSince == Counter(saved.cycles - saved.base) = saved.since

SinceInv == CountersType /\ SinceReset /\ SavedSince

LEMMA SinceInit == Init => SinceInv
<1> SUFFICES ASSUME Init PROVE SinceInv OBVIOUS
<1>1. 0 \in 0 .. CounterSize - 1 /\ Counter(0) = 0
  BY Sizes, SmallRemainder, SMT DEF Counter
<1>2. CountersType BY <1>1 DEF Init, CountersType
<1>3. cycles - base = 0 /\ saved.cycles - saved.base = 0 BY DEF Init
<1> QED BY <1>1, <1>2, <1>3 DEF Init, SinceInv, SinceReset, SavedSince

LEMMA SinceNext == SinceInv /\ [Next]_vars => SinceInv'
<1> SUFFICES ASSUME SinceInv, [Next]_vars PROVE SinceInv' OBVIOUS
<1> USE DEF SinceInv
<1>1. CASE UNCHANGED <<counters, saved>>
  BY <1>1 DEF counters, CountersType, SinceReset, SavedSince
<1>2. CASE Cycle
  <2>1. PICK d \in Durations, w \in Waits :
           cycles' = Counter(cycles + d + w) /\ since' = Counter(since + d + w)
    BY <1>2 DEF Cycle, MachineCycle
  <2> DEFINE x == d + w
  <2>2. x \in Int /\ cycles \in Int /\ base \in Int /\ since \in Int /\ d \in Int /\ w \in Int
    BY CyclesAssumption, Sizes, SMT DEF CountersType
  <2>3. cycles' = Counter(cycles + x) /\ since' = Counter(since + x)
    BY <2>1, <2>2, SMT
  <2> HIDE DEF x
  <2>4. base' = base /\ saved' = saved BY <1>2 DEF Cycle
  <2>5. Counter(cycles' - base') = Counter(Counter(cycles - base) + x)
    BY <2>2, <2>3, <2>4, LaterReading
  <2>6. SinceReset' BY <2>3, <2>5 DEF SinceReset
  <2>7. cycles + x \in Int /\ since + x \in Int BY <2>2, SMT
  <2>8. cycles' \in 0 .. CounterSize - 1 /\ since' \in 0 .. CounterSize - 1
    BY <2>3, <2>7, CounterRange
  <2> QED BY <2>4, <2>6, <2>8 DEF CountersType, SavedSince
<1>3. CASE Host
  <2> USE DEF CountersType
  <2>1. 0 \in 0 .. CounterSize - 1 /\ Counter(0) = 0
    BY Sizes, SmallRemainder, SMT DEF Counter
  <2>2. CASE ResetCycleCounter
    <3>1. cycles - cycles = 0 BY Sizes, SMT
    <3>2. base' = cycles /\ since' = 0 /\ cycles' = cycles /\ saved' = saved
      BY <2>2 DEF ResetCycleCounter
    <3> QED BY <2>1, <3>1, <3>2 DEF SinceReset, SavedSince
  <2>3. CASE Reset
    <3>1. cycles' - base' = 0 BY <2>3 DEF Reset
    <3> QED BY <2>1, <2>3, <3>1 DEF Reset, SinceReset, SavedSince
  <2>4. CASE SaveSnapshot
    <3>1. UNCHANGED counters /\ saved' = [cycles |-> cycles, base |-> base, since |-> since]
      BY <2>4 DEF SaveSnapshot
    <3>2. saved'.cycles = cycles /\ saved'.base = base /\ saved'.since = since BY <3>1
    <3>3. CountersType' BY <3>1 DEF counters
    <3> QED BY <3>1, <3>2, <3>3 DEF counters, SinceReset, SavedSince
  <2>5. CASE LoadSnapshot
    <3>1. /\ cycles' = saved.cycles /\ base' = saved.base /\ since' = saved.since
          /\ saved' = saved
      BY <2>5 DEF LoadSnapshot
    <3>2. CountersType' BY <3>1
    <3> QED BY <3>1, <3>2 DEF SinceReset, SavedSince
  <2> QED BY <1>3, <2>2, <2>3, <2>4, <2>5 DEF Host
<1> QED
  BY <1>1, <1>2, <1>3
  DEF Next, CallStep, CallRunFor, Loop, LoopReturn, EndStep, vars, counters

\* For counters of any width, any durations and any order of calls, resets and
\* snapshots, cycles_ - base_cycle_counter_ is the time since the last reset of
\* either kind, modulo the counter.
THEOREM SinceResetHolds == Spec => []SinceReset
<1>1. SinceInv => SinceReset BY DEF SinceInv
<1> QED BY SinceInit, SinceNext, <1>1, PTL DEF Spec

-----------------------------------------------------------------------------
(* step() and run_for()                                                     *)

CallType ==
    /\ start \in 0 .. CounterSize - 1
    /\ phase \in {"host", "loop", "step", "cycle"}
    /\ call.kind \in {"none", "step", "run_for"}
    /\ call.kind = "run_for" => call.target \in Targets
    /\ stepTime \in 0 .. MaxStep
    /\ replaced \in BOOLEAN

\* While a step runs and nobody assigns cycles_, it is the step's T-states past
\* its reading at the start; outside of steps only answers are left of it.
StepShadow ==
    phase \in {"step", "cycle"} /\ ~replaced => Counter(cycles - start) = stepTime

\* A phase of a call is one of that kind's.
CallPhase ==
    /\ phase \in {"step", "cycle", "loop"} => call.kind # "none"
    /\ phase = "loop" => call.kind = "run_for"

\* run_for's total is the time of its steps, and it calls step() only while
\* that is below the target.
RunShadow ==
    call.kind = "run_for" /\ ~replaced =>
        /\ runTime \in Nat
        /\ phase # "host" => total = runTime
        /\ phase \in {"step", "cycle"} => runTime < call.target
        /\ phase = "loop" /\ runTime > 0 => runTime - stepTime < call.target

AnswersInv ==
    CountersType /\ CallType /\ StepShadow /\ CallPhase /\ RunShadow
      /\ StepExact /\ RunForExact

\* Between the bounds an int does not overflow: runTime counts to the end.
LEMMA RunTimeFits ==
    ASSUME AnswersInv, call.kind = "run_for", ~replaced, phase = "cycle"
    PROVE  /\ runTime + stepTime \in Nat /\ runTime + stepTime < IntSize \div 2
           /\ runTime < IntSize
<1>1. /\ runTime \in Nat /\ runTime < call.target /\ call.target \in Targets
      /\ stepTime \in 0 .. MaxStep
  BY DEF AnswersInv, RunShadow, CallType
<1>2. call.target \in Int /\ call.target + MaxStep <= IntSize \div 2
  BY <1>1, CyclesAssumption, FitsInt
<1>3. stepTime \in Nat /\ stepTime <= MaxStep BY <1>1, Sizes, SMT
<1> DEFINE t == call.target
<1>4. t \in Int /\ t + MaxStep <= IntSize \div 2 /\ runTime < t BY <1>1, <1>2
<1> HIDE DEF t
<1> QED BY <1>1, <1>3, <1>4, Sizes, SMT

\* A step that nobody disturbed returns its T-states.
LEMMA ReturnsStepTime ==
    ASSUME AnswersInv, ~replaced, phase = "cycle" PROVE ReturnStep = stepTime
<1>1. Counter(cycles - start) = stepTime /\ stepTime \in 0 .. MaxStep
  BY DEF AnswersInv, StepShadow, CallType
<1>2. stepTime \in Nat /\ stepTime < IntSize \div 2 BY <1>1, Sizes, SMT
<1> QED BY <1>1, <1>2, SmallCounts DEF ReturnStep

LEMMA AnswersInit == Init => AnswersInv
<1> SUFFICES ASSUME Init PROVE AnswersInv OBVIOUS
<1>1. CountersType BY SinceInit DEF SinceInv
<1>2. 0 \in 0 .. CounterSize - 1 /\ 0 \in 0 .. MaxStep BY Sizes, SMT
<1>3. CallType BY <1>2 DEF Init, CallType
<1>4. phase = "host" /\ call.kind = "none" BY DEF Init
<1> QED
  BY <1>1, <1>3, <1>4
  DEF AnswersInv, StepShadow, CallPhase, RunShadow, StepExact, RunForExact

\* Every step keeps the types of the counters.
LEMMA CountersTyped == CountersType /\ Next => CountersType'
<1> SUFFICES ASSUME CountersType, Next PROVE CountersType' OBVIOUS
<1> USE DEF CountersType
<1>1. CASE UNCHANGED <<counters, saved>> BY <1>1 DEF counters
<1>2. CASE Cycle
  <2>1. PICK d \in Durations, w \in Waits :
           cycles' = Counter(cycles + d + w) /\ since' = Counter(since + d + w)
    BY <1>2 DEF Cycle, MachineCycle
  <2>2. cycles + d + w \in Int /\ since + d + w \in Int BY CyclesAssumption, Sizes, SMT
  <2> QED BY <1>2, <2>1, <2>2, CounterRange DEF Cycle
<1>3. CASE Host
  <2>1. 0 \in 0 .. CounterSize - 1 BY Sizes, SMT
  <2>2. CASE ResetCycleCounter BY <2>1, <2>2 DEF ResetCycleCounter
  <2>3. CASE Reset BY <2>1, <2>3 DEF Reset
  <2>4. CASE SaveSnapshot BY <2>4 DEF SaveSnapshot, counters
  <2>5. CASE LoadSnapshot BY <2>5 DEF LoadSnapshot
  <2> QED BY <1>3, <2>2, <2>3, <2>4, <2>5 DEF Host
<1> QED
  BY <1>1, <1>2, <1>3
  DEF Next, CallStep, CallRunFor, Loop, LoopReturn, EndStep, counters

\* A step starts at no T-states of its own.
LEMMA StepBegins ==
    ASSUME CountersType, BeginStep, cycles' = cycles
    PROVE  StepShadow' /\ start' \in 0 .. CounterSize - 1 /\ stepTime' \in 0 .. MaxStep
<1>1. cycles - cycles = 0 /\ 0 \in 0 .. MaxStep BY Sizes, SMT DEF CountersType
<1>2. Counter(0) = 0 BY Sizes, SmallCounts, SMT
<1>3. cycles' - start' = 0 /\ stepTime' = 0 BY <1>1 DEF BeginStep
<1> QED BY <1>1, <1>2, <1>3 DEF BeginStep, StepShadow, CountersType

\* The host steps of a call leave what it counts, or mark it replaced.
LEMMA HostKeepsAnswers ==
    ASSUME AnswersInv, Host, CountersType' PROVE AnswersInv'
<1>1. UNCHANGED <<start, total, call, phase, answer, stepTime, runTime>> BY DEF Host
<1>2. CallType' /\ CallPhase'
  <2>1. replaced' \in BOOLEAN BY DEF Host, AnswersInv, CallType
  <2> QED BY <1>1, <2>1 DEF AnswersInv, CallType, CallPhase
<1>3. CASE replaced' = replaced /\ (cycles' = cycles \/ phase = "host")
  BY <1>1, <1>2, <1>3 DEF AnswersInv, StepShadow, RunShadow, StepExact, RunForExact
<1>4. CASE replaced' /\ phase # "host"
  BY <1>1, <1>2, <1>4 DEF AnswersInv, StepShadow, RunShadow, StepExact, RunForExact
<1>5. CASE (ResetCycleCounter \/ SaveSnapshot) /\ UNCHANGED replaced
  BY <1>3, <1>5 DEF ResetCycleCounter, SaveSnapshot, counters
<1>6. CASE (Reset \/ LoadSnapshot) /\ replaced' = (replaced \/ phase # "host")
  <2>1. replaced \in BOOLEAN BY DEF AnswersInv, CallType
  <2>2. CASE phase = "host"
    <3>1. replaced' = replaced BY <1>6, <2>1, <2>2
    <3> QED BY <1>3, <2>2, <3>1
  <2>3. CASE phase # "host"
    <3>1. replaced' BY <1>6, <2>3
    <3> QED BY <1>4, <2>3, <3>1
  <2> QED BY <2>2, <2>3
<1> QED BY <1>5, <1>6 DEF Host

\* A cycle adds its T-states to the step and to the counter alike.
LEMMA CycleKeepsAnswers ==
    ASSUME AnswersInv, Cycle, CountersType' PROVE AnswersInv'
<1>1. PICK d \in Durations, w \in Waits :
         /\ stepTime + d + w <= MaxStep
         /\ cycles' = Counter(cycles + d + w)
         /\ stepTime' = stepTime + d + w
  BY DEF Cycle, MachineCycle
<1> DEFINE x == d + w
<1>2. /\ x \in Nat /\ d \in Nat /\ w \in Nat /\ cycles \in Int /\ start \in Int
      /\ stepTime \in Nat
  BY CyclesAssumption, Sizes, SMT DEF AnswersInv, CountersType, CallType
<1>3. /\ cycles' = Counter(cycles + x) /\ stepTime' = stepTime + x
      /\ stepTime + x \in 0 .. MaxStep
  BY <1>1, <1>2, Sizes, SMT
<1> HIDE DEF x
<1>4. UNCHANGED <<start, total, call, answer, runTime, replaced>>
      /\ phase' = "cycle" /\ phase \in {"step", "cycle"}
  BY DEF Cycle
<1>5. StepShadow'
  <2> SUFFICES ASSUME ~replaced PROVE Counter(cycles' - start) = stepTime'
    BY <1>4 DEF StepShadow
  <2>1. Counter(cycles' - start) = Counter(Counter(cycles - start) + x)
    <3> DEFINE c == cycles
               b == start
    <3>1. c \in Int /\ b \in Int /\ x \in Int BY <1>2
    <3> HIDE DEF c, b
    <3>2. Counter(Counter(c + x) - b) = Counter(Counter(c - b) + x)
      BY <3>1, LaterReading
    <3> QED BY <1>3, <3>2 DEF c, b
  <2>2. Counter(cycles - start) = stepTime BY <1>4 DEF AnswersInv, StepShadow
  <2>3. stepTime + x \in Nat /\ stepTime + x < IntSize \div 2 BY <1>2, <1>3, Sizes, SMT
  <2> QED BY <1>3, <2>1, <2>2, <2>3, SmallCounts
<1>6. CallType' /\ CallPhase' BY <1>3, <1>4 DEF AnswersInv, CallType, CallPhase
<1>7. RunShadow' BY <1>4 DEF AnswersInv, RunShadow
<1> QED BY <1>4, <1>5, <1>6, <1>7 DEF AnswersInv, StepExact, RunForExact

\* The end of a step: its T-states are the answer, or are added to the total.
LEMMA EndStepKeepsAnswers ==
    ASSUME AnswersInv, EndStep, CountersType' PROVE AnswersInv'
<1>1. /\ phase = "cycle" /\ start' = 0
      /\ UNCHANGED <<counters, call, saved, stepTime, replaced>>
  BY DEF EndStep
<1>2. 0 \in 0 .. CounterSize - 1 BY Sizes, SMT
<1>3. CASE call.kind = "step"
  <2>1. answer' = ReturnStep /\ phase' = "host" BY <1>3 DEF EndStep
  <2>2. CallType' /\ CallPhase' /\ StepShadow' /\ RunShadow' /\ RunForExact'
    BY <1>1, <1>2, <1>3, <2>1
    DEF AnswersInv, CallType, CallPhase, StepShadow, RunShadow, RunForExact
  <2>3. StepExact' BY <1>1, <2>1, ReturnsStepTime DEF StepExact
  <2> QED BY <2>2, <2>3 DEF AnswersInv
<1>4. CASE call.kind # "step"
  <2>1. call.kind = "run_for" /\ phase' = "loop" /\ total' = Added(ReturnStep)
        /\ runTime' = IF runTime < IntSize THEN runTime + stepTime ELSE runTime
    BY <1>1, <1>4 DEF EndStep, AnswersInv, CallPhase, CallType
  <2>2. RunShadow'
    <3> SUFFICES ASSUME ~replaced
                 PROVE  /\ runTime' \in Nat /\ total' = runTime'
                        /\ runTime' > 0 => runTime' - stepTime' < call.target
      BY <1>1, <2>1 DEF RunShadow
    <3>1. /\ runTime + stepTime \in Nat /\ runTime + stepTime < IntSize \div 2
          /\ runTime < IntSize
      BY <1>1, <2>1, RunTimeFits
    <3>2. /\ total = runTime /\ runTime \in Nat /\ runTime < call.target
          /\ stepTime \in Int
      BY <1>1, <2>1, Sizes, SMT DEF AnswersInv, RunShadow, CallType
    <3>3. runTime' = runTime + stepTime BY <2>1, <3>1
    <3>4. total' = ToInt(runTime + stepTime)
      BY <1>1, <2>1, <3>2, ReturnsStepTime DEF Added
    <3>5. total' = runTime + stepTime BY <3>1, <3>4, SmallCounts
    <3>6. (runTime + stepTime) - stepTime = runTime BY <3>2, SMT
    <3> QED BY <1>1, <3>1, <3>2, <3>3, <3>5, <3>6
  <2>3. CallType' /\ CallPhase' /\ StepShadow' /\ StepExact' /\ RunForExact'
    BY <1>1, <1>2, <2>1
    DEF AnswersInv, CallType, CallPhase, StepShadow, StepExact, RunForExact
  <2> QED BY <2>2, <2>3 DEF AnswersInv
<1> QED BY <1>3, <1>4

LEMMA AnswersNext == AnswersInv /\ [Next]_vars => AnswersInv'
<1> SUFFICES ASSUME AnswersInv, [Next]_vars PROVE AnswersInv' OBVIOUS
<1>1. CASE UNCHANGED vars
  BY <1>1 DEF vars, AnswersInv, CountersType, CallType, StepShadow, CallPhase,
              RunShadow, StepExact, RunForExact
<1>2. CASE Next
  <2>1. CountersType' BY <1>2, CountersTyped DEF AnswersInv
  <2>2. CASE CallStep
    <3>1. /\ call' = [kind |-> "step", target |-> 0] /\ BeginStep /\ replaced' = FALSE
          /\ cycles' = cycles
      BY <2>2 DEF CallStep, counters
    <3>2. call'.kind = "step" /\ phase' = "step" BY <3>1 DEF BeginStep
    <3>3. StepShadow' /\ start' \in 0 .. CounterSize - 1 /\ stepTime' \in 0 .. MaxStep
      BY <3>1, StepBegins DEF AnswersInv
    <3>4. CallType' BY <3>1, <3>2, <3>3 DEF CallType
    <3> QED
      BY <2>1, <3>2, <3>3, <3>4
      DEF AnswersInv, CallPhase, RunShadow, StepExact, RunForExact
  <2>3. CASE CallRunFor
    <3>1. PICK t \in Targets : call' = [kind |-> "run_for", target |-> t]
      BY <2>3 DEF CallRunFor
    <3>2. /\ call'.kind = "run_for" /\ call'.target \in Targets
          /\ total' = 0 /\ runTime' = 0 /\ stepTime' = 0 /\ phase' = "loop"
          /\ start' = start /\ replaced' = FALSE
      BY <2>3, <3>1 DEF CallRunFor
    <3>3. 0 \in 0 .. MaxStep /\ 0 \in Nat /\ ~(0 > 0) BY Sizes, SMT
    <3>4. CallType' BY <3>2, <3>3 DEF AnswersInv, CallType
    <3>5. RunShadow' BY <3>2, <3>3 DEF RunShadow
    <3> QED
      BY <2>1, <3>2, <3>4, <3>5
      DEF AnswersInv, CallPhase, StepShadow, StepExact, RunForExact
  <2>4. CASE Loop
    <3>1. /\ phase = "loop" /\ total < call.target /\ BeginStep
          /\ UNCHANGED <<cycles, total, call, runTime, replaced>>
      BY <2>4 DEF Loop, counters
    <3>2. StepShadow' /\ start' \in 0 .. CounterSize - 1 /\ stepTime' \in 0 .. MaxStep
      BY <3>1, StepBegins DEF AnswersInv
    <3>3. phase' = "step" /\ call.kind = "run_for"
      BY <3>1 DEF BeginStep, AnswersInv, CallPhase
    <3>4. CallType' /\ CallPhase' BY <3>1, <3>2, <3>3 DEF AnswersInv, CallType, CallPhase
    <3>5. RunShadow' BY <3>1, <3>3 DEF AnswersInv, RunShadow
    <3> QED BY <2>1, <3>2, <3>3, <3>4, <3>5 DEF AnswersInv, StepExact, RunForExact
  <2>5. CASE LoopReturn
    <3>1. /\ phase = "loop" /\ total >= call.target /\ answer' = total /\ phase' = "host"
          /\ UNCHANGED <<start, call, stepTime, runTime, replaced>>
      BY <2>5 DEF LoopReturn
    <3>2. CallType' /\ CallPhase' /\ StepShadow'
      BY <3>1 DEF AnswersInv, CallType, CallPhase, StepShadow
    <3>3. RunShadow' /\ RunForExact' /\ StepExact'
      BY <3>1 DEF AnswersInv, CallPhase, RunShadow, RunForExact, StepExact
    <3> QED BY <2>1, <3>2, <3>3 DEF AnswersInv
  <2> QED
    BY <1>2, <2>1, <2>2, <2>3, <2>4, <2>5,
       CycleKeepsAnswers, EndStepKeepsAnswers, HostKeepsAnswers
    DEF Next
<1> QED BY <1>1, <1>2

\* For every width of the counter and of int, step() returns the T-states it
\* took, also across the wrap, as long as no callback assigns the counter and a
\* step fits an int.
THEOREM StepReturnsItsTime == Spec => []StepExact
<1>1. AnswersInv => StepExact BY DEF AnswersInv
<1> QED BY AnswersInit, AnswersNext, <1>1, PTL DEF Spec

\* run_for() returns the sum over its steps, at least the target and less than
\* one step past it, as long as target and last step fit an int.
THEOREM RunForReturnsItsTime == Spec => []RunForExact
<1>1. AnswersInv => RunForExact BY DEF AnswersInv
<1> QED BY AnswersInit, AnswersNext, <1>1, PTL DEF Spec

=============================================================================
