--------------------------- MODULE EnergySequence ---------------------------
(***************************************************************************)
(* A sequence of actions, step by step: the energy state that travels from *)
(* one step to the next (openwhisk/energy_state.go), and the measurement   *)
(* each step adds to it (readEnergy, deltaRAPLUJ and attributionDetail of  *)
(* metrics_helpers.go), over a RAPL register that wraps and readings that  *)
(* fail or come out low.  The readings, the extraction and the reinjection *)
(* are those of runHandler; a step without a freeze is one segment, the    *)
(* others are in SegmentMeter.                                             *)
(*                                                                         *)
(* Of the energy_* parameters and of __energy_state, what is kept is the   *)
(* trace they belong to, the threshold (0 is disabled, an extension adds   *)
(* 1), consumed_before_j and the interruption classes; a form that does    *)
(* not decode is Bad.  CPU time is counted in cores busy all the step.     *)
(***************************************************************************)
EXTENDS Integers

CONSTANTS
    NoState,        \* no energy_* keys, no __energy_state, a nil *EnergyState
    Bad,            \* present, and not decodable
    NoClasses,      \* a state without interruption_class
    ClassMaps,      \* interruption_class of the sequences, by step, or NoClasses
    RaplMax,        \* max_energy_range_uj
    Near,           \* RaplMax * RAPL_OVERFLOW_PROXIMITY_THRESHOLD
    MaxUse,         \* the most energy the socket uses in a step
    MaxLow,         \* by how much a reading may come out low
    Cores,          \* the cores of the socket
    MaxBefore,      \* CPU time of the container before the step
    MaxSteps,       \* the length of a sequence
    MaxTraces,      \* how many sequences are invoked
    MaxExtensions   \* how many extensions one of them is granted

States == [trace : 1 .. MaxTraces, threshold : 0 .. 1 + MaxExtensions, consumed : Nat,
           classes : ClassMaps]

ASSUME EnergySequenceAssumption ==
    /\ NoState # Bad /\ {NoState, Bad} \intersect States = {}
    /\ NoClasses \notin [1 .. MaxSteps -> STRING]
    /\ RaplMax \in Nat \ {0} /\ Near \in 0 .. RaplMax
    /\ MaxUse \in 0 .. RaplMax - 1 /\ MaxLow \in Nat
    /\ Cores \in Nat \ {0} /\ MaxBefore \in Nat
    /\ MaxSteps \in Nat \ {0} /\ MaxTraces \in Nat /\ MaxExtensions \in Nat
    /\ ClassMaps \subseteq {NoClasses} \union
           [1 .. MaxSteps -> {"UNKILLABLE", "KILL_SAFE", "absent"}]

VARIABLES
    counter,  \* the RAPL register
    params,   \* energy_* and __energy_state: what the next step is given, what
              \* of it the business code of the running one sees
    pc,       \* "none", "ready", "running" or "answered"
    n,        \* the number of the step
    energy,   \* energyState of the step
    named,    \* its action_name decoded
    start,    \* its first readings
    before,   \* the CPU time of its container when it began
    last,     \* the measure reported for the step that ended last: its value,
              \* the truth over the time measured, what its readings were
    now,      \* the sequence under way: its number, its classes, its threshold
    truth,    \* what its steps really used
    intact,   \* nothing was lost or damaged on the way to this step
    exact     \* every reading so far was right, no step outran the margin

seqVars == <<now, truth, intact, exact>>
vars == <<counter, params, pc, n, energy, named, start, before, last, seqVars>>

Forms == States \union {NoState, Bad}
Readings == [energy : 0 .. RaplMax - 1, cpu : Nat, right : BOOLEAN]
NoReading == [energy |-> 0, cpu |-> 0, right |-> TRUE]
NoParams == [first |-> NoState, side |-> NoState]
NoLast == [measured |-> 0, real |-> 0, startRight |-> TRUE, endRight |-> TRUE,
           nearTop |-> FALSE]

(* The types of the state: a measure is never negative.                    *)
ETypeOK ==
    /\ counter \in 0 .. RaplMax - 1
    /\ params \in [first : Forms, side : Forms]
    /\ pc \in {"none", "ready", "running", "answered"}
    /\ n \in 0 .. MaxSteps
    /\ energy \in States \union {NoState}
    /\ named \in BOOLEAN
    /\ start \in Readings /\ before \in 0 .. MaxBefore
    /\ last \in [measured : Nat, real : 0 .. MaxUse, startRight : BOOLEAN,
                endRight : BOOLEAN, nearTop : BOOLEAN]
    /\ now \in [trace : 0 .. MaxTraces, classes : ClassMaps \union {NoClasses},
               threshold : 0 .. 1 + MaxExtensions]
    /\ truth \in 0 .. MaxUse * MaxSteps
    /\ intact \in BOOLEAN /\ exact \in BOOLEAN

Init ==
    /\ counter \in 0 .. RaplMax - 1
    /\ params = NoParams
    /\ pc = "none"
    /\ n = 0
    /\ energy = NoState
    /\ named = TRUE
    /\ start = NoReading
    /\ before = 0
    /\ last = NoLast
    /\ now = [trace |-> 0, classes |-> NoClasses, threshold |-> 0]
    /\ truth = 0
    /\ intact = FALSE
    /\ exact = TRUE

----------------------------------------------------------------------------
(* Attribution                                                             *)

MutantNoWrap(from, to) == IF to >= from THEN to - from ELSE 0
MutantAlwaysWraps(from, to) ==
    IF to >= from THEN to - from ELSE (RaplMax - from) + to

(* A register that went down has wrapped only if it was near its top;      *)
(* else the reading is not trusted, and counts for nothing.                *)
deltaRAPLUJ(from, to) ==
    IF to >= from THEN to - from
    ELSE IF from >= Near THEN (RaplMax - from) + to
    ELSE 0

Least(a, b) == IF a < b THEN a ELSE b

MutantSigned(joules, cpu) == (joules * Least(cpu, Cores)) \div Cores

(* The share of the socket's energy, the ratio capped at one.  Zero when a *)
(* difference is not positive.                                             *)
Share(joules, cpu) ==
    IF joules <= 0 \/ cpu <= 0 THEN 0 ELSE (joules * Least(cpu, Cores)) \div Cores

attributionDetail(from, to) ==
    Share(deltaRAPLUJ(from.energy, to.energy), to.cpu - from.cpu)

(* A reading of the register and of the CPU time: right, the energy        *)
(* somewhat low, or the CPU time zero where reading it fails.              *)
Sampled(register, cpu) ==
    [energy : {register}, cpu : {cpu}, right : {TRUE}]
        \union [energy : {register - low : low \in 1 .. Least(MaxLow, register)},
                cpu : {cpu}, right : {FALSE}]
        \union [energy : {register}, cpu : {0}, right : {FALSE}]

(* Where the handlers read, an energy that cannot be read is zero too.     *)
Read(register, cpu) ==
    Sampled(register, cpu) \union [energy : {0}, cpu : {cpu}, right : {FALSE}]

(* The measure between two readings, and what was really used meanwhile.   *)
Measure(from, to, real) ==
    [measured |-> attributionDetail(from, to), real |-> real,
     startRight |-> from.right, endRight |-> to.right, nearTop |-> from.energy >= Near]

----------------------------------------------------------------------------
(* The energy state                                                        *)

Decoded(form) == IF form = Bad THEN NoState ELSE form

MutantSidecarFirst(p) == Decoded(IF p.side # NoState THEN p.side ELSE p.first)

(* ExtractEnergyState: energy_* mark a first step, whatever __energy_state *)
(* says; a form that does not decode is as good as none.                   *)
ExtractEnergyState(p) == Decoded(IF p.first # NoState THEN p.first ELSE p.side)

(* What is left of it for the business code.  The body is written anew     *)
(* only when a state was extracted, and only one form is taken out of it.  *)
Seen(p) ==
    IF ExtractEnergyState(p) = NoState THEN p
    ELSE IF p.first # NoState THEN [p EXCEPT !.first = NoState]
    ELSE NoParams

MutantNotAdded(s, measured) == s

(* consumed_before_j grows, all else is passed on; a nil state is not.     *)
ReinjectEnergyState(s, measured) == [s EXCEPT !.consumed = @ + measured]

MutantNotPublished(s, granted) == s

(* Interact, once the monitor has returned: the threshold of the last      *)
(* ResumeExecution replaces the one the step began with.                   *)
FinalThreshold(s, granted) ==
    IF granted = 0 THEN s ELSE [s EXCEPT !.threshold = now.threshold + granted]

interruptionClassUnresolved(s) == s.classes # NoClasses /\ ~named

MutantHeadClass(s) ==
    /\ s.classes # NoClasses
    /\ ~named \/ s.classes[1] = "UNKILLABLE"

(* The class map holds the step's own class, found by its own name; a name *)
(* that is not known counts as UNKILLABLE, a class that is absent does not.*)
isNonInterruptibleForThisStep(s) ==
    /\ s.classes # NoClasses
    /\ ~named \/ s.classes[n] = "UNKILLABLE"

shouldMonitorEnergy ==
    energy # NoState /\ energy.threshold > 0 /\ ~interruptionClassUnresolved(energy)

Killable == shouldMonitorEnergy /\ ~isNonInterruptibleForThisStep(energy)

----------------------------------------------------------------------------
(* A sequence is invoked: by the scheduler, with energy_* parameters, or   *)
(* by anyone else, without.  The arguments may hold the __energy_state of  *)
(* an earlier result: nobody takes it out of the last one.                 *)
Invoked(first, classes, threshold) ==
    /\ pc \in {"none", "answered"}
    /\ now.trace < MaxTraces
    /\ \E side \in {NoState, params.side} :
           params' = [first |-> first, side |-> side]
    /\ pc' = "ready"
    /\ n' = 1
    /\ now' = [trace |-> now.trace + 1, classes |-> classes, threshold |-> threshold]
    /\ truth' = 0
    /\ intact' = (first \in States)
    /\ exact' = TRUE
    /\ last' = NoLast
    /\ UNCHANGED <<counter, energy, named, start, before>>

InvokedByScheduler ==
    \E classes \in ClassMaps, threshold \in 0 .. 1 :
        \/ Invoked([trace |-> now.trace + 1, threshold |-> threshold, consumed |-> 0,
                    classes |-> classes], classes, threshold)
        \/ Invoked(Bad, classes, threshold)

InvokedUnmanaged == Invoked(NoState, NoClasses, 0)

(* __energy_state is damaged between two steps.                            *)
Corrupted ==
    /\ pc = "ready" /\ params.side \in States
    /\ params' = [params EXCEPT !.side = Bad]
    /\ intact' = (intact /\ params.first # NoState)
    /\ UNCHANGED <<counter, pc, n, energy, named, start, before, last, now, truth, exact>>

(* runHandler up to Interact.                                              *)
StepBegins ==
    /\ pc = "ready"
    /\ before' \in 0 .. MaxBefore
    /\ start' \in Read(counter, before')
    /\ exact' = (exact /\ start'.right)
    /\ energy' = ExtractEnergyState(params)
    /\ named' \in BOOLEAN
    /\ params' = Seen(params)
    /\ pc' = "running"
    /\ last' = NoLast
    /\ UNCHANGED <<counter, n, now, truth, intact>>

(* No executor, or its process has exited: the sequence fails.             *)
StepRefused ==
    /\ pc = "ready"
    /\ pc' = "answered"
    /\ params' = NoParams
    /\ UNCHANGED <<counter, n, energy, named, start, before, last, seqVars>>

(* The locals of runHandler are gone.                                      *)
HandlerReturns ==
    /\ energy' = NoState
    /\ named' = TRUE
    /\ start' = NoReading
    /\ before' = 0

Used(joules) == (counter + joules) % RaplMax

(* The socket used this much while the step ran, and the step these cores; *)
(* recordMetricsImpl reads the end of it, or, when that gives zero, falls  *)
(* back on what the monitor measured before a kill.                        *)
Worked(joules, cores, fallback) ==
    /\ counter' = Used(joules)
    /\ \E end \in Read(Used(joules), before + cores) :
           LET detail == Measure(start, end, Share(joules, cores)) IN
           last' = IF detail.measured = 0 /\ fallback.measured > 0 THEN fallback
                                                                  ELSE detail
    /\ HandlerReturns

(* The sequence goes on, or ends here.                                     *)
Answered ==
    \/ n < MaxSteps /\ n' = n + 1 /\ pc' = "ready"
    \/ n' = n /\ pc' = "answered"

(* A result that is an object.  The sidecar's end reading is another than  *)
(* recordMetrics's; without a state what the business code returns stands, *)
(* and it may return what it was given.                                    *)
StepReturnsObject ==
    \E joules \in 0 .. MaxUse, cores \in 0 .. Cores, granted \in 0 .. MaxExtensions :
    \E sidecar \in Read(Used(joules), before + cores) :
        /\ pc = "running"
        /\ granted = 0 \/ (shouldMonitorEnergy /\ energy.trace = now.trace)
        /\ now.threshold + granted <= 1 + MaxExtensions
        /\ Worked(joules, cores, NoLast)
        /\ now' = [now EXCEPT !.threshold = @ + granted]
        /\ IF energy = NoState
           THEN params' \in {NoParams, params}
           ELSE params' = [first |-> NoState,
                           side |-> ReinjectEnergyState(FinalThreshold(energy, granted),
                                                        attributionDetail(start, sidecar))]
        /\ truth' = truth + Share(joules, cores)
        /\ exact' = (exact /\ sidecar.right /\ joules <= RaplMax - Near)
        /\ Answered
        /\ UNCHANGED intact

(* An array, or null: there is nowhere to attach the state.                *)
StepReturnsNoObject ==
    \E joules \in 0 .. MaxUse, cores \in 0 .. Cores :
        /\ pc = "running"
        /\ Worked(joules, cores, NoLast)
        /\ params' = NoParams
        /\ truth' = truth + Share(joules, cores)
        /\ intact' = FALSE
        /\ Answered
        /\ UNCHANGED <<now, exact>>

(* What the monitor measures of a step: from its own first reading to the  *)
(* tick or the freeze it kills after, when the socket has used this much   *)
(* and the step kept these cores busy.  Where it cannot read the energy it *)
(* does not monitor, or waits for the next tick.                           *)
MonitorMeasures(joules, cores) ==
    {Measure(first, tick, Share(joules, cores)) :
        first \in Sampled(counter, before),
        tick \in Sampled(Used(joules), before + cores)}

(* The monitor killed it: what it measured live is at hand.  The response  *)
(* is an error, and the sequence goes no further.                          *)
StepKilled ==
    \E joules \in 0 .. MaxUse, cores \in 0 .. Cores :
        /\ pc = "running" /\ Killable
        /\ \E sofar \in 0 .. joules, busy \in 0 .. Cores :
               \E live \in MonitorMeasures(sofar, busy) : Worked(joules, cores, live)
        /\ params' = NoParams
        /\ pc' = "answered"
        /\ UNCHANGED <<n, seqVars>>

(* It exited, or answered neither an object nor an array: an error,        *)
(* without a measure.                                                      *)
StepFails ==
    /\ pc = "running"
    /\ \E joules \in 0 .. MaxUse : counter' = Used(joules)
    /\ HandlerReturns
    /\ params' = NoParams
    /\ pc' = "answered"
    /\ UNCHANGED <<n, last, seqVars>>

Next ==
    \/ InvokedByScheduler \/ InvokedUnmanaged \/ Corrupted
    \/ StepBegins \/ StepRefused
    \/ StepReturnsObject \/ StepReturnsNoObject \/ StepKilled \/ StepFails

Spec == Init /\ [][Next]_vars

----------------------------------------------------------------------------
(* Properties                                                              *)

(* Whatever earlier sequences left behind, a step reached by the state of  *)
(* its own sequence runs under it: its trace, the threshold as the last    *)
(* extension left it, and a kill only if its own class, not that of the    *)
(* head of the sequence, lets it be killed.                                *)
CarriedState ==
    pc = "running" /\ intact =>
        /\ energy # NoState
        /\ energy.trace = now.trace
        /\ energy.threshold = now.threshold
        /\ Killable /\ now.classes # NoClasses => now.classes[n] # "UNKILLABLE"

(* consumed_before_j is what the steps before this one really used, across *)
(* any number of wraps of the register, as long as no reading was wrong    *)
(* and no step used more than what lies between the margin and the top.    *)
ConsumedIsTrue ==
    pc = "running" /\ intact /\ exact => energy.consumed = truth

(* A measure is more than what was used while it was taken only after a    *)
(* first reading that was wrong, or after a last one that was wrong with   *)
(* the first near the top: the readings of the handlers, or, where a       *)
(* killed step is reported with what its monitor measured, the monitor's.  *)
(* A reading that merely went backwards never adds the whole range of the  *)
(* register, the incident deltaRAPLUJ was written for.                     *)
OvercountExplained ==
    last.measured > last.real =>
        \/ ~last.startRight
        \/ last.nearTop /\ ~last.endRight

(* energy_state.go:43 and :143: the business code sees neither energy_*    *)
(* nor __energy_state.                                                     *)
PlumbingHidden == pc = "running" => params = NoParams
=============================================================================
