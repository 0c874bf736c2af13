---------------------------- MODULE SegmentMeter ----------------------------
(***************************************************************************)
(* The energy of a step, measured by segments: a confirmed freeze closes   *)
(* the segment, a confirmed resume opens the next (energySegments.go).     *)
(* The monitor of an activation keeps a stepMeter of its own; the freeze   *)
(* marks belong to the executor, and the final measurement reads them.     *)
(*                                                                         *)
(* A reading is a pair of counters that only grow: e, the energy of the    *)
(* node, and c, the CPU time of the cgroup.  The kernel may show the last  *)
(* stretch of CPU time late.  What a segment between two readings is worth *)
(* is left open: nothing here depends on the formula of the attribution.   *)
(***************************************************************************)
EXTENDS Integers, Sequences, FiniteSets, Totals

CONSTANTS
    Activations,   \* the invocations of one executor
    Monitored,     \* those that have an energy state
    Concurrency,   \* how many the platform sends at once
    MaxEnergy,     \* bound: what the energy counter reaches
    MaxCPU,        \* bound: what the CPU counter reaches
    MaxCycles,     \* bound: pause cycles of an activation
    Share(_, _)    \* attributedEnergyUJ of a segment, between two readings

Reading == [e : 0..MaxEnergy, c : 0..MaxCPU]

ASSUME SegmentMeterAssumption ==
    /\ IsFiniteSet(Activations) /\ Monitored \subseteq Activations
    /\ Concurrency \in Nat /\ MaxCycles \in Nat
    /\ MaxEnergy \in Nat /\ MaxCPU \in Nat
    /\ \A r, s \in Reading : Share(r, s) \in Nat

VARIABLES
    energy,      \* the energy counter of the node
    cpu,         \* the CPU time the cgroup has used
    lag,         \* how much of it the kernel does not show yet
    frozen,      \* the cgroup is frozen
    marks,       \* freezeMarks of the executor
    at,          \* where each invocation is
    cycles,      \* the pause cycles it had
    begun,       \* the reading of its runHandler at the start
    meter,       \* its stepMeter
    metered,     \* the reading its stepMeter started from
    final        \* the CPU time that recordMetricsImpl reports of it

nodeVars == <<energy, cpu, lag>>
vars == <<nodeVars, frozen, marks, at, cycles, begun, meter, metered, final>>

Zero == [e |-> 0, c |-> 0]
Mark == [freeze : Reading, resumed : BOOLEAN, resume : Reading]
Meter == [closed : Int, seg : Reading, frozen : BOOLEAN, frozenAt : Reading,
          lastSeg : Reading, lastUJ : Nat]
Phases == {"new", "called", "run", "freezing", "frozen", "refined", "thawed",
           "ended", "killed", "over"}

(* Every counter is in its bounds, what the kernel shows is what was used, *)
(* and the meters and marks hold readings.                                 *)
STypeOK ==
    /\ energy \in 0..MaxEnergy /\ cpu \in 0..MaxCPU /\ lag \in 0..cpu
    /\ frozen \in BOOLEAN
    /\ marks \in Seq(Mark)
    /\ at \in [Activations -> Phases]
    /\ cycles \in [Activations -> 0..MaxCycles]
    /\ begun \in [Activations -> Reading]
    /\ meter \in [Activations -> Meter]
    /\ metered \in [Activations -> Reading]
    /\ final \in [Activations -> [cpu : Int, still : Int, upTo : Reading, killed : BOOLEAN]]

newStepMeter(r) ==
    [closed |-> 0, seg |-> r, frozen |-> FALSE, frozenAt |-> Zero,
     lastSeg |-> Zero, lastUJ |-> 0]

Init ==
    /\ energy = 0 /\ cpu = 0 /\ lag = 0
    /\ frozen = FALSE
    /\ marks = <<>>
    /\ at = [a \in Activations |-> "new"]
    /\ cycles = [a \in Activations |-> 0]
    /\ begun = [a \in Activations |-> Zero]
    /\ meter = [a \in Activations |-> newStepMeter(Zero)]
    /\ metered = [a \in Activations |-> Zero]
    /\ final = [a \in Activations |->
                    [cpu |-> 0, still |-> 0, upTo |-> Zero, killed |-> FALSE]]

Active == {a \in Activations : at[a] \notin {"new", "over"}}
Dead == \E a \in Activations : at[a] = "killed" \/ final[a].killed
Goes(a, phase) == at' = [at EXCEPT ![a] = phase]

----------------------------------------------------------------------------
(* The node and the kernel.                                                *)

(* segmentSnapshot: what both counters show now.                           *)
Now == [e |-> energy, c |-> cpu - lag]

NodeWorks ==
    /\ energy < MaxEnergy
    /\ energy' = energy + 1
    /\ UNCHANGED <<cpu, lag, frozen, marks, at, cycles, begun, meter, metered, final>>

(* The process computes; the kernel accounts for it at once, or later.     *)
ActionRuns ==
    /\ ~frozen /\ ~Dead /\ Active # {} /\ cpu < MaxCPU
    /\ cpu' = cpu + 1
    /\ lag' \in {0, lag + 1}
    /\ UNCHANGED <<energy, frozen, marks, at, cycles, begun, meter, metered, final>>

KernelCounts ==
    /\ lag > 0
    /\ lag' = 0
    /\ UNCHANGED <<energy, cpu, frozen, marks, at, cycles, begun, meter, metered, final>>

----------------------------------------------------------------------------
(* freezeMarks                                                             *)
MarkOf(freeze, resumed, resume) ==
    [freeze |-> freeze, resumed |-> resumed, resume |-> resume]

noteFreeze(ms, r) == Append(ms, MarkOf(r, FALSE, Zero))

(* The last mark is there and its step has not resumed.                    *)
OpenMark(ms) == ms # <<>> /\ ~ms[Len(ms)].resumed

LastAs(ms, mark) == [ms EXCEPT ![Len(ms)] = mark]
WithCPU(r, c) == [e |-> r.e, c |-> c]

noteResume(ms, r) ==
    IF OpenMark(ms)
    THEN LastAs(ms, MarkOf(ms[Len(ms)].freeze, TRUE, r))
    ELSE ms

MutantMarkNotRefined(ms, c) == ms
MutantCPUAdded(ms, c) ==
    IF OpenMark(ms) /\ c > ms[Len(ms)].freeze.c
    THEN [ms EXCEPT ![Len(ms)].freeze.c = @ + c]
    ELSE ms

refineFreezeCPU(ms, c) ==
    IF OpenMark(ms) /\ c > ms[Len(ms)].freeze.c
    THEN LastAs(ms, MarkOf(WithCPU(ms[Len(ms)].freeze, c), FALSE, Zero))
    ELSE ms

(* stepMeter                                                               *)
closeAt(m, r) ==
    LET uj == Share(m.seg, r)
    IN [closed |-> m.closed + uj, seg |-> m.seg, frozen |-> TRUE,
        frozenAt |-> r, lastSeg |-> m.seg, lastUJ |-> uj]

MutantRefinedTwice(m, c) ==
    LET r == WithCPU(m.frozenAt, c)
    IN [m EXCEPT !.frozenAt = r, !.closed = @ + Share(m.lastSeg, r),
                 !.lastUJ = Share(m.lastSeg, r)]

(* CPU time shown late belongs to the segment that the freeze closed.      *)
refineFrozenCPU(m, c) ==
    IF m.frozen /\ c > m.frozenAt.c
    THEN LET r == WithCPU(m.frozenAt, c)
             uj == Share(m.lastSeg, r)
         IN [closed |-> m.closed + uj - m.lastUJ, seg |-> m.seg, frozen |-> TRUE,
             frozenAt |-> r, lastSeg |-> m.lastSeg, lastUJ |-> uj]
    ELSE m

openAt(m, r) ==
    [closed |-> m.closed, seg |-> r, frozen |-> FALSE, frozenAt |-> m.frozenAt,
     lastSeg |-> m.lastSeg, lastUJ |-> m.lastUJ]

stepUJ(m, r) == IF m.frozen THEN m.closed ELSE m.closed + Share(m.seg, r)

----------------------------------------------------------------------------
(* An invocation.                                                          *)

MutantMarksKept == marks

(* An invocation begins without marks.                                     *)
MarksReset == <<>>

(* runHandler takes its first reading; Interact resets the marks.          *)
InteractStarts(a) ==
    /\ at[a] = "new" /\ Cardinality(Active) < Concurrency /\ ~Dead
    /\ begun' = [begun EXCEPT ![a] = Now]
    /\ marks' = MarksReset
    /\ Goes(a, "called")
    /\ UNCHANGED <<nodeVars, frozen, cycles, meter, metered, final>>

MonitorStarts(a) ==
    /\ at[a] = "called" /\ a \in Monitored
    /\ metered' = [metered EXCEPT ![a] = Now]
    /\ meter' = [meter EXCEPT ![a] = newStepMeter(Now)]
    /\ Goes(a, "run")
    /\ UNCHANGED <<nodeVars, frozen, marks, cycles, begun, final>>

(* The threshold is reached and freezeExecution confirmed.                 *)
Freezes(a) ==
    /\ at[a] = "run" /\ ~frozen /\ cycles[a] < MaxCycles
    /\ frozen' = TRUE
    /\ cycles' = [cycles EXCEPT ![a] = @ + 1]
    /\ Goes(a, "freezing")
    /\ UNCHANGED <<nodeVars, marks, begun, meter, metered, final>>

(* A reading that fails, or goes backwards, leaves the cycle unmarked.     *)
closeSegmentAtFreeze(a) ==
    /\ at[a] = "freezing"
    /\ \/ /\ Now.c >= meter[a].seg.c
          /\ meter' = [meter EXCEPT ![a] = closeAt(@, Now)]
          /\ marks' = noteFreeze(marks, Now)
       \/ UNCHANGED <<meter, marks>>
    /\ Goes(a, "frozen")
    /\ UNCHANGED <<nodeVars, frozen, cycles, begun, metered, final>>

(* The command has come: the CPU time is read once more before the process *)
(* is thawed or killed.  A reading that fails changes nothing.             *)
refineFrozenSegment(a) ==
    /\ at[a] = "frozen"
    /\ \/ /\ meter[a].frozen
          /\ meter' = [meter EXCEPT ![a] = refineFrozenCPU(@, Now.c)]
          /\ marks' = refineFreezeCPU(marks, Now.c)
       \/ UNCHANGED <<meter, marks>>
    /\ Goes(a, "refined")
    /\ UNCHANGED <<nodeVars, frozen, cycles, begun, metered, final>>

Resumes(a) ==
    /\ at[a] = "refined"
    /\ frozen' = FALSE
    /\ Goes(a, "thawed")
    /\ UNCHANGED <<nodeVars, marks, cycles, begun, meter, metered, final>>

(* The thaw was not confirmed: it may have happened.  What comes next, a   *)
(* kill or another answer of the scheduler, begins with a refinement.      *)
ResumeFails(a) ==
    /\ at[a] = "refined"
    /\ frozen' \in {frozen, FALSE}
    /\ Goes(a, "frozen")
    /\ UNCHANGED <<nodeVars, marks, cycles, begun, meter, metered, final>>

MutantResumeReading(m) == cpu - lag

(* The CPU time from which the next segment starts: the one of the freeze, *)
(* since the process may have run before the reading of the resume.        *)
ResumeCPU(m) == m.frozenAt.c

(* A resume reading that fails is replaced by the energy of the freeze.    *)
openSegmentAtResume(a) ==
    /\ at[a] = "thawed"
    /\ \E e \in {energy, meter[a].frozenAt.e} :
           LET r == [e |-> e, c |-> ResumeCPU(meter[a])]
           IN IF meter[a].frozen
              THEN /\ meter' = [meter EXCEPT ![a] = openAt(@, r)]
                   /\ marks' = noteResume(marks, r)
              ELSE UNCHANGED <<meter, marks>>
    /\ Goes(a, "run")
    /\ UNCHANGED <<nodeVars, frozen, cycles, begun, metered, final>>

(* Killed: the process is gone, and the proxy gives the executor up.       *)
Kills(a) ==
    /\ at[a] = "refined"
    /\ frozen' = FALSE
    /\ Goes(a, "killed")
    /\ UNCHANGED <<nodeVars, marks, cycles, begun, meter, metered, final>>

(* Killed at the threshold without a pause, or after a failed freeze.      *)
KillsUnpaused(a) ==
    /\ at[a] = "run" /\ ~Dead
    /\ frozen' = FALSE
    /\ Goes(a, "killed")
    /\ UNCHANGED <<nodeVars, marks, cycles, begun, meter, metered, final>>

(* The action answers, and the monitor is stopped between two cycles.      *)
Answers(a) ==
    /\ at[a] \in {"called", "run"} /\ ~frozen /\ ~Dead
    /\ Goes(a, "ended")
    /\ UNCHANGED <<nodeVars, frozen, marks, cycles, begun, meter, metered, final>>

----------------------------------------------------------------------------
(* segmentedAttribution: one segment up to each freeze and one after the   *)
(* last resume; the first mark that is open ends them.                     *)
Begins(from, ms, i) == IF i = 1 THEN from ELSE ms[i - 1].resume
Ends(to, ms, i) == IF i > Len(ms) THEN to ELSE ms[i].freeze

(* attributionDetail gives no CPU time to a segment whose energy counter   *)
(* stood still; Unattributed is the CPU time of such a segment.            *)
DeltaProcess(r, s) == IF s.e > r.e /\ s.c > r.c THEN s.c - r.c ELSE 0
Unattributed(r, s) == IF s.e > r.e THEN 0 ELSE s.c - r.c

(* What the loop adds, given the worth of each segment: nothing for one    *)
(* that it never gets to.                                                  *)
Added(worth, ms) ==
    [i \in 1..(Len(ms) + 1) |->
         IF \A j \in 1..(i - 1) : ms[j].resumed THEN worth[i] ELSE 0]

segmentedAttribution(from, to, ms) ==
    LET worth == [i \in 1..(Len(ms) + 1) |->
                      Share(Begins(from, ms, i), Ends(to, ms, i))]
    IN Total(Added(worth, ms))
segmentedCPU(from, to, ms) ==
    LET worth == [i \in 1..(Len(ms) + 1) |->
                      DeltaProcess(Begins(from, ms, i), Ends(to, ms, i))]
    IN Total(Added(worth, ms))
StillCPU(from, to, ms) ==
    LET worth == [i \in 1..(Len(ms) + 1) |->
                      Unattributed(Begins(from, ms, i), Ends(to, ms, i))]
    IN Total(Added(worth, ms))

(* recordMetricsImpl reads the counters and the marks of the executor.     *)
(* This reading and the first one of the run are taken to succeed: where   *)
(* one fails the code counts 0 instead, see EnergySequence.                *)
recordMetrics(a) ==
    /\ at[a] \in {"ended", "killed"}
    /\ final' = [final EXCEPT ![a] =
           [cpu |-> segmentedCPU(begun[a], Now, marks),
            still |-> StillCPU(begun[a], Now, marks),
            upTo |-> Now, killed |-> at[a] = "killed"]]
    /\ Goes(a, "over")
    /\ UNCHANGED <<nodeVars, frozen, marks, cycles, begun, meter, metered>>

----------------------------------------------------------------------------
Environment == NodeWorks \/ ActionRuns \/ KernelCounts

Cycle(a) ==
    \/ Freezes(a) \/ closeSegmentAtFreeze(a) \/ refineFrozenSegment(a)
    \/ Resumes(a) \/ ResumeFails(a) \/ openSegmentAtResume(a) \/ Kills(a)
    \/ KillsUnpaused(a)

Step(a) ==
    \/ InteractStarts(a) \/ MonitorStarts(a) \/ Cycle(a) \/ Answers(a)
    \/ recordMetrics(a)

Next == Environment \/ \E a \in Activations : Step(a)

Spec == Init /\ [][Next]_vars

----------------------------------------------------------------------------
(* The activation has a stepMeter that counts.                             *)
Metering(a) ==
    at[a] \in {"run", "freezing", "frozen", "refined", "thawed", "killed"}

(* The meter of the monitor and the marks of the executor stay in step:    *)
(* the last mark is open exactly while the meter is frozen, both hold the  *)
(* same readings, and no CPU time falls between two segments.              *)
MarksFollowMeter ==
    /\ \A i \in 1..Len(marks) :
           /\ marks[i].resumed => marks[i].resume.c = marks[i].freeze.c
           /\ i < Len(marks) => marks[i].resumed
    /\ \A a \in Activations : Metering(a) =>
           /\ meter[a].frozen <=> OpenMark(marks)
           /\ meter[a].frozen =>
                  marks[Len(marks)].freeze = meter[a].frozenAt
           /\ ~meter[a].frozen =>
                  meter[a].seg = Begins(metered[a], marks, Len(marks) + 1)

(* What the monitor compares with the threshold, and reports for a kill,   *)
(* is what the marks give the sidecar and the collector, from the same     *)
(* start: "trois calculs partagent ces segments".                          *)
MeterMatchesMarks ==
    \A a \in Activations : Metering(a) =>
        stepUJ(meter[a], Now) =
            segmentedAttribution(metered[a], Now, marks)

(* All the CPU time of a step that answered, between the first and the     *)
(* last reading of its run, which succeed, falls in its segments, once,    *)
(* however many freezes it went through and whichever readings of a freeze *)
(* or a resume failed: "compte une fois et une seule".  What is not        *)
(* reported is the CPU time of segments whose energy counter stood still,  *)
(* and nothing else.                                                       *)
CPUCountedOnce ==
    \A a \in Activations :
        at[a] = "over" /\ ~final[a].killed
        => final[a].cpu + final[a].still = final[a].upTo.c - begun[a].c
=============================================================================
