# Verification of the energy-aware OpenWhisk Go runtime

TLA+ specifications of the proxy that runs inside an action container
(`src/openwhisk`), checked with TLC on small instances and proved with TLAPS for
every instance: the controller and the lifecycle it implements, the executor
with its monitors, the proxy, the channel to the scheduler, the energy state
along sequences and the energy segments. Every invariant of a passing run is
proved; what is left to TLC alone is said in section 4.

## 1. The system

A container holds one HTTP proxy and the process of one action. `/init` uploads
and starts the action, `/run` passes it an activation. An activation may carry
an energy budget: a monitor then measures it while it runs, and when the
threshold is reached freezes the process through its cgroup, asks the scheduler
for an extension, and resumes or kills it. Several activations may go through
one process at once (`concurrency: 5`).

| Component | State | Operations | Hard parts |
|---|---|---|---|
| `ActivationController` (cgroupFreezer.go) | `state`, `lastPauseID`, the cgroup's files | freeze, resume, kill, Close, WaitForExit | an operation is a write followed by polling; timeouts; a mutex held while waiting for the reaper |
| `Executor` (executor.go) | process, pipes, `exited` | Start, Interact, Stop | answer, exit and kill at the same moment; many receivers of one exit; Stop under a running Interact |
| Energy monitor (energyMonitor.go) | threshold, result, pause cycle | monitorEnergy, runPauseCycle | several monitors on one controller; lost, late or wrong answers of the scheduler; UNKILLABLE steps |
| HTTP proxy (actionProxy.go, initHandler.go, runHandler.go) | `theExecutor`, `initialized`, directories, `pendingInitEntry` | /init, /run | one goroutine per request over fields without a lock |
| Deliveries (pushgateway.go, schedulerChannel.go) | attempts | pushMetrics, postExecutionKilled, postExecutionPaused | retries after an ambiguous failure; order between the two receivers and the response |
| Energy segments (energySegments.go) | `stepMeter`, `freezeMarks` | close, open, refine | marks shared by the activations of a process |
| Attribution (metrics_helpers.go) | none | RAPL delta, CPU share | wrap-around, readings that fail or go backwards |
| Sidecar (energy_state.go) | `__energy_state` | extract, reinject | carried from step to step and beyond the sequence; damaged or lost on the way |
| Scheduler channel (schedulerChannel.go) | `addrCache`, the pool of connections, `connRecorder` | resolve, forget, dial, postExecutionPaused | a background resolution against dials; dials that outlive their call; a shared pool |
| Upload (extractor.go, zip.go, tar.go, compiler.go) | directories | extract, compile | I/O only |

Calls go proxy → executor → controller; the monitor is a goroutine of
`Interact` and shares with it `energyMonitorResult` and two channels; the reaper
is a goroutine of `Executor.Start` and shares with everyone `exited`; the
handlers share the fields of `ActionProxy`.

What makes each correct: the controller's state tells the truth about the
kernel and is left only as its diagram says; the monitor thaws only what the
scheduler granted, kills nothing for an UNKILLABLE step, and loses no kill; Interact
returns; the proxy measures a run on its own process, delivers in the order the
scheduler relies on, and counts every measurement once; the energy the monitor
acts on and the energy the collector is sent are made of the same segments; a
step of a sequence runs under the state of its own sequence and hands on what
it really used; a report to the scheduler ends, leaks nothing, and says truly
why it failed.

## 2. Modules

    ActivationLifecycle         what the controller promises, without kernel or mutex
    CgroupFreezer               the controller, the kernel's side of it, the reaper
    CgroupFreezerRefinement     refinement mapping CgroupFreezer -> ActivationLifecycle
    CgroupFreezerProofs         theorems about CgroupFreezer (TLAPS)
    EnergyMonitor               extends CgroupFreezer: Interact, monitors, pause cycles, Stop
    EnergyMonitorProofs         theorems about EnergyMonitor (TLAPS); extends CgroupFreezerProofs
    ActionProxy                 the handlers of /init and /run and their deliveries
    ActionProxyProofs           theorems about ActionProxy (TLAPS)
    SegmentMeter                the energy of a step by segments: meter, marks, readings
    SegmentMeterProofs          theorems about SegmentMeter (TLAPS); extends TotalsProofs
    Totals                      the running total of segmentedAttribution
    TotalsProofs                lemmas about totals, by induction over the sequence (TLAPS)
    SchedulerChannel            address cache, dials, connection pool, report of a freeze
    SchedulerChannelProofs      theorems about SchedulerChannel (TLAPS)
    EnergySequence              the energy state and its measurement along sequences
    EnergySequenceProofs        theorems about EnergySequence (TLAPS)
    MC*                         instances for TLC

Definitions named `Mutant...` are plausible faults of the definition that
follows; no specification uses them. They serve to show that each property can
fail.

### CgroupFreezer

`pc[c]` says where goroutine `c` is inside the controller; a caller that is not
idle holds `a.mu`. A call is one step when it returns at once (a repeat, a
rejection, a failed write) and otherwise a write step (`FreezeWritten`,
`ResumeWritten`, `KillWritten`) followed by a step that confirms or times out;
a kill has a third, the wait for the reaping, with the mutex still held. The
kernel is `knob` (what `cgroup.freeze` holds), `frozen` and `Populated` (what
`cgroup.events` says), `killSent`. It acts at any time: after a timeout too, so
UNKNOWN really is unknown. The action may fork, exit or be killed from outside
at any moment. A timeout is only taken when the last read did not confirm, as
`waitForEventField` reads before it looks at the deadline. `MayFail` says which operations may fail,
`KillConfirmBounded` whether KILL_CONFIRM_WAIT_TIMEOUT_MS is positive.
A cgroup whose process never started is not in the model: calls come after Start.

### EnergyMonitor

One executor. `ipc` is Interact, `mpc` its monitor, both per activation. The
controller is not abstracted: the monitor calls the actions of CgroupFreezer.
Energy is abstracted to the outcome of the comparison at a tick; a threshold is
named by the pause whose extension granted it. `PostAnswered` lets the scheduler
answer any command for any pause_id; `granted` records the extensions it gave,
also those whose answer was lost. `HandlerDropsExecutor` and `StopBegins` are what the
proxy does to this executor; StartLatestAction noted the executor it stops
before it started the new one, so `StopBegins` does not ask that it still be in
place. The check of Exited (runHandler.go:136) and the call of Interact
(runHandler.go:202) are one step here, and two in ActionProxy. After `Executor.Stop`, which sets `proc.cmd` to
nil, an Interact still in flight ends in a panic of its handler
(`InteractPanics`), as the code does. `config`, chosen once among `Configs`, says
which activations have a pause policy, which are UNKILLABLE, whether the proxy
may replace the executor, and which pause_ids newPauseID may draw.

### ActionProxy

One step per access to a shared field: the nil check, the check of Exited, the
call of Interact, the measurement, the take of the pending entry, each attempt
of each delivery, `theExecutor = nil`, the response. A nil dereference is the
outcome "panic" (net/http ends that handler only). An executor is named by the
/init that created it. A measurement is abstracted to the executor whose cgroup
was read. `config` holds OW_DEBUG, the concurrency of the action and the
runs that carry an energy state. `currentDir` and `dirs` are the numbers of the
upload directories, and an /init starts the highest one there is (`highestDir`),
as the extractor finds it. Requests are named in the order they arrive,
which loses no behaviour. One /init is handled at a time. A kill may leave the process alive, as one that is refused or not
confirmed does (`Killed`): it is reported and the executor given up all the
same. Why a kill fails is in EnergyMonitor.
Not in the model: the returns of pushMetrics when the point cannot be
marshalled or the request not be built (pushgateway.go:140-143, 156-159), which
do not report the point as undelivered, COLLECTOR_URL unset (no push at all), a
/run body that cannot be read, the branch of StartLatestAction for an empty base
directory (unreachable: the handler has just extracted into it), the two
unsynchronised memory accesses inside one such step.

### SegmentMeter

`meter` is the stepMeter of each monitor, `marks` the freezeMarks of the one
executor. A reading is a pair of counters, the energy of the node and the CPU
time of the cgroup; `lag` is CPU time that was used and is not shown yet, which
the source reports of some kernels (energySegments.go:196-204). What a segment
is worth is the constant `Share`, so that what is proved holds for any
attribution; TLC uses a product of the two deltas, which is not additive, so a
boundary in the wrong place shows. `at` follows one invocation through its
pauses: the freeze, its reading (`closeSegmentAtFreeze`), the refinement before
the thaw or the kill, the thaw, the reading of the resume. Each reading may
fail. A resume that fails may have thawed the process and goes back to the
frozen phase, from where the code refines and kills or polls again.
`segmentedAttribution` is the running total (`Totals`) of what its loop adds
segment by segment, nothing from the first open mark on (`Added`). Left out: wall time, the value in joules that `recordMetricsImpl` reports
and its fallback for a kill measured as zero (in EnergySequence), an energy
counter or a CPU time that cannot be read at the start or the end of a run (the
code then counts 0, metrics_helpers.go:379-382 and 415-419; also in
EnergySequence), wrap-around (the counters grow to a bound). `CPUCountedOnce` is
therefore about runs whose first and last readings succeed. The freeze and the kill are taken as confirmed here; EnergyMonitor has
the others.

### SchedulerChannel

`call[c]` is a report (postExecutionPaused), `dial[c]` the dial it asked for, a
goroutine of net/http that is not cancelled with it, `rec[c]` its connRecorder;
`res[r]` a goroutine of resolveAsync. An address is the number of the place the
scheduler had it from; `home` is where it is now, and a dial to another fails.
The pool is that of net/http: a connection that is free goes to a report that
waits, whoever dialled it, else to the pool, else it is closed. `stage` records
which step a report had reached when it returned, and is what the recorded
cause is compared with. The recorder keeps what decides the cause; durations,
the backoff and the choice among addresses of a name are left out, and so is the
second attempt net/http makes by itself when a reused connection is found closed
before anything was written on it: here that report fails. What the
scheduler's command does is in EnergyMonitor, postExecutionKilled in
ActionProxy; their connections are not counted here.

### EnergySequence

Sequences are invoked one after the other, by the scheduler (with `energy_*`
parameters) or by anyone (without); each step is one /run. `StepBegins` is
runHandler up to Interact: the first readings, ExtractEnergyState, the body the
business code is given. The `StepReturns...`, `StepKilled` and `StepFails`
actions are the rest: the end readings of the sidecar and of recordMetrics,
which are two, the threshold Interact publishes, ReinjectEnergyState. A reading
is right, fails (0, as the code then goes on with), or comes out low by up to
`MaxLow`. The monitor has readings of its own (`MonitorMeasures`): a first one
when it starts and one at the tick or the freeze it kills after; it needs the
energy to start and to go on, but a CPU time it cannot read counts as 0. A
killed step whose own measure is zero is reported with the monitor's, and `last`
holds whichever was reported, with what was really used over the time it covers.
The register wraps at `RaplMax`. CPU time is in cores busy for the
whole step, so the float ratio is an integer division. Of a state, the trace,
the threshold, `consumed_before_j` and the class map are kept. `now` and
`truth` are what the scheduler and the socket know; `intact` says that nothing
on the way to this step lost or damaged the state, `exact` that all readings
were right and no step used more than `RaplMax - Near`, the margin for which
deltaRAPLUJ can tell a wrap. A step without a freeze is one segment; freezes are
in SegmentMeter, what the monitor does in EnergyMonitor: here it may extend the
threshold or kill a step that may be killed. An extension is granted to the
trace under way only.

## 3. What TLC checks

| Run | Instance | States | Shows |
|---|---|---|---|
| controller | 2 goroutines, 2 pauses + shutdown, all failures, unbounded reaping wait, fair | 18,301 | `StateIsTrue`, `NoUseAfterClose`, `OneOperation`, `ThawedUnderItsPause`, refinement `KeepsLifecycle`; `CallsReturn`, `ExitIsPublished` |
| monitor_shared | 2 activations on one process, one killable and one UNKILLABLE, or both killable and one without a pause policy; 2 pauses, all failures, replacement, bounded reaping wait | 1,625,889 | no kill by the monitor of an UNKILLABLE step (that of a killable neighbour may kill the process they share), no kill lost or, with all operations confirmed, made up; nothing left frozen except behind a kill, a replacement or an unconfirmed operation (UNKNOWN); a pause owned by one monitor, threshold and cycles reported, thaw only after a grant |
| monitor_live | 2 killable activations with replacement, or 2 UNKILLABLE ones; no failed operation, fair | 165,961 | `InvocationReturns` |
| proxy | 2 /init, 2 /run, at once, one at a time, or one at a time under OW_DEBUG; 2 attempts, fair | 1,310,823 | `MeasuredThenAnnounced`, `InitPointOnce`, `InitPointConserved`, `GivesUpItsOwn`, `RequestsEnd`; `NoPanic` and `MeasuredAlone` where one run goes at a time without OW_DEBUG |
| segments | 2 activations in turn, 2 pauses each, energy up to 3, CPU time up to 2 | 3,416,191 | `MarksFollowMeter`, `MeterMatchesMarks`, `CPUCountedOnce` |
| channel | 3 reports, 2 at once, 2 attempts to resolve, a pool of 1, a scheduler that moves once; a name, an address or no URL; fair | 539,035 | `OneResolver`, `FailureIsTrue`, `NoConnectionLeaks`, `RecorderSealed`, `ChannelEnds` |
| sequence | 2 sequences of 2 steps, a register of 4 with the margin at 3, up to 2 used per step, 2 cores, 1 extension | 245,562 | `CarriedState`, `ConsumedIsTrue`, `OvercountExplained` |

Bounds. Two goroutines suffice to contend for a mutex and for one activation to
see what another did to the process; two pause_ids to tell the pause in force
from a stale one; one activation without a pause and one with to cover both
ways to kill; two attempts for a retry and for giving up; two /init for a failed
upload and its repetition, or a replacement. A monitor may use a pause_id once,
so pauses also bound the number of cycles. For the segments: two freezes to
have a mark before the last one, two activations in turn so that marks of an
earlier one could leak, CPU time 2 and energy 3 so that a segment, its late CPU
time and the next segment can all differ from zero. For the channel: two
reports at once so that a connection can go to the one that did not dial it, a
third so that one is reused; a pool of one so that it is full; one move so that
a kept address goes stale. For the sequences: a second one so that a state can
outlive its own, two steps so that a state is handed on, a register small
enough for every step to start on either side of the margin and to wrap, use
above the margin, and CPU time before the step so that a failed reading goes
backwards. Symmetry is used for interchangeable
values only and never in a run with a liveness property. The wait for the
reaping is unbounded in `controller` and bounded in `monitor_shared`; the proofs
cover both. Deadlock is not reported where a finite
set of requests has been served.

Fairness. The kernel carries out what its control files say; goroutines run
(weak fairness); `a.mu` is granted to a goroutine that keeps asking (strong
fairness: a Go mutex in starvation mode hands over in order); polling loops,
POSTs and deliveries have deadlines. In SchedulerChannel a resolution attempt,
a connection attempt and a report each end, the last by its own timeout;
nothing is assumed of the name server or of the scheduler. The liveness runs of the monitor assume
that cgroup operations are confirmed and, for an UNKILLABLE step, that a
scheduler asked again and again grants the extension in the end, which is what
its wait queue is for. Both assumptions are needed. With a freeze that times
out the kill that follows is refused, the process stays frozen and alive, and
Interact, which selects on the answer and on the exit only, waits for ever.
With a resume that fails an UNKILLABLE step polls for ever (`exit_releases`);
the same happens, with no failed operation, to an UNKILLABLE step whose process
is killed by the monitor of a killable activation beside it or by a
replacement: the state is STOPPED, every resume is rejected. So
`InvocationReturns` is checked with activations of one kind, and with a
replacement only where they are killable.

### Disagreements between the code and what it says

Each of these is a run that TLC ends with a counterexample.

- `reported_kill`: a kill refused from UNKNOWN is logged and reported as done.
- `exit_releases`: the poll loop of an UNKILLABLE step does not look at the stop
  channel; with a failed resume Interact never returns.
- `shared_measure`: with several activations on one process, one gives the
  executor up before the other measures.
- `shared_marks`: a second activation that enters Interact erases the freeze
  marks of one that is frozen (executor.go:178). Its monitor and its final
  measurement then disagree: the point sent to the collector counts the freeze.

- `visible_plumbing`: energy parameters that do not decode stay in the body the
  business code is given (runHandler.go:159), and so does an `__energy_state`
  beside `energy_*` (energy_state.go:152-166).

Met while modelling, without a run of their own:

- A first reading that fails is only logged and counts as 0 (runHandler.go:105,
  metrics_helpers.go:381): the whole register, or all the CPU time of the
  container, is then attributed to the step, where metrics_helpers.go:441 says
  "Retourne 0 si les données sont insuffisantes". `OvercountExplained` names this
  and a second way: a reading that went backwards while the first one was near
  the top still adds almost the whole range. Both are also true of the monitor,
  whose first CPU reading counts as 0 when it fails (energyMonitor.go:423): its
  measure is compared with the threshold, and is what a killed step is reported
  with when its own measure is zero (metrics_helpers.go:640-643), so that a step
  with a right first reading of its own may be overcounted.
- Nobody takes `__energy_state` out of the last result (energy_state.go:224
  defers it): an invocation without `energy_*` whose arguments hold one runs
  under, and may be killed for, a sequence that is over. A result that is an
  array or null drops the state, and the steps after it run unmonitored. A step
  without a state may return an `__energy_state` of its own making.
- The sidecar's measure is "la même valeur que celle envoyée au collecteur"
  (runHandler.go:337) up to a second reading: one of the two may fail.
- `resolving` goes down after the address is set. A dial that fails in between
  forgets the address, its resolveAsync does nothing, and no address is kept
  with none being resolved (schedulerChannel.go:352-356): the next dial resolves
  in place.
- A report that is served by a connection another gave back, and fails while its
  own dial still resolves, is blamed on "resolve"; its trace may carry a
  connection time, which schedulerChannel.go:421 says is zero. `FailureIsTrue`
  states the exception.
- A request that cannot be built returns an error and an empty cause, which
  schedulerChannel.go:426 reserves for a call that succeeded; an answer cut in
  its body is "unreadable_response".

- The freeze of an UNKILLABLE step that times out leaves 1 in cgroup.freeze and
  the state UNKNOWN, from which no resume is accepted; the step goes on with its
  threshold (energyMonitor.go:565-573). The kernel may still freeze the process,
  also after the step has answered and the container is warm. `NotLeftFrozen`
  states the exception.
- After a resume that timed out an UNKILLABLE step is polled for with
  cgroup.freeze at 0 (cgroupFreezer.go:436), where energyMonitor.go:554-559 says
  that every such path keeps the process frozen.
- A run released by the kill of another on the same process returns "command
  exited" without a measurement (runHandler.go:300), which executor.go:319-320
  gives as the defect that closing `exited` repairs.
- A segment in which the energy counter did not move reports no CPU time
  (metrics_helpers.go:474), so that "Tout le temps CPU de l'étape est ainsi
  compté une fois et une seule" (energySegments.go:292-293) is true of the
  segments and not always of `cpu_process_usec`; `CPUCountedOnce` says exactly
  how much is missing.
- With several activations at once a handler that passed the nil check of
  `theExecutor` (runHandler.go:125, 130) dereferences it after another set it to nil
  (runHandler.go:264, 302): `NoPanic` holds only with one at a time.
- A pause cycle is born with outcome "killed" (energyMonitor.go:550) and keeps
  it when the freeze of an UNKILLABLE step fails, though the step goes on;
  "queued_wait" (metricHandler.go:83) is never recorded, since a cycle is added
  only when it ends.
- The point of the /init "belongs to the same invocation as this /run"
  (metrics_helpers.go:674), but goes to whichever run records first: a later one
  if the first run exits or is quicker than the /init handler.
- `initialized` is read when an /init arrives and set when it ends: two that
  overlap would both succeed (initHandler.go:64). The model takes one /init at a
  time, as the platform sends them.
- An action that refuses its acknowledgement keeps running (actionProxy.go:171).
- With OW_DEBUG a run on a replaced executor gives up the new one
  (runHandler.go:302) or dereferences `proc.cmd` after Stop set it to nil
  (executor.go:260, 403). `GivesUpItsOwn` and `NoPanic` are therefore stated
  for a proxy without OW_DEBUG.
- The process of an executor that was given up may live on: after a kill that was
  refused (`reported_kill`) nobody refers to it any more.

Also met: `postExecutionKilled` is documented (schedulerChannel.go:722) as run
off the response path and is called synchronously (runHandler.go:282);
`NewExecutor` may return nil and `StartLatestAction` does not check; the cgroup of
a killed action is never removed, since `theExecutor = nil` skips Stop.

## 4. What is proved

`CgroupFreezerProofs`, for any set of callers, any pause_ids, any `MayFail`:

| Theorem | States |
|---|---|
| `TypeCorrectness` | `Spec => []TypeOK` |
| `StateTruth` | `Spec => []StateIsTrue` |
| `MutualExclusion` | `Spec => []OneOperation` |
| `SafeClose` | `Spec => []NoUseAfterClose` |
| `ThawDiscipline` | `Spec => ThawedUnderItsPause` |
| `Refinement` | `Spec => KeepsLifecycle` |

The only assumption is `CgroupFreezerAssumption` (NoPause and Shutdown differ
from each other and from the pause_ids). None of the properties is inductive:
a confirmation step makes `FROZEN` true of the kernel only because the caller
that polls is the one that wrote, so the invariant `Inv` ties `state` to the
caller inside (FREEZING exactly while one is "freezing", and so on), ties the
knob to it, says that a caller past "killing" saw an empty cgroup that stays empty, and that before Start nothing
has been called. `Inv` is proved one action at a time; the theorems follow from
it, and the action property and the refinement from it and one case per action.
The refinement maps a freeze at its confirmation, a resume and a kill at their
write.

`SegmentMeterProofs`, for any finite set of activations, any number of cycles,
any bounds of the counters and any `Share` with natural values:

| Theorem | States |
|---|---|
| `SegmentTypes` | `Spec => []STypeOK`, for any `Concurrency` |
| `MarksInStep` | `Concurrency = 1` implies `Spec => []MarksFollowMeter` |
| `MeterAgreesWithMarks` | `Concurrency = 1` implies `Spec => []MeterMatchesMarks` |
| `StepCPUCountedOnce` | `Concurrency = 1` implies `Spec => []CPUCountedOnce` |

The hypothesis is needed: `shared_marks` is the counterexample with two. Besides
it the proofs use `SegmentMeterAssumption`. `MarksFollowMeter` is not inductive:
that the mark which is opened, refined or completed is the one of this cycle
rests on there being one active invocation (`Alone`), on the marks being empty
until its monitor starts and on a cycle beginning with an open segment
(`Between`), and that meter and mark are refined together or not at all on their
holding the same reading. `MarksInv` is the conjunction; each operation on the
marks has a lemma, and each action a step.

The other two are about totals over the marks. `MeterMatchesMarks` compares an
energy that the meter keeps up to date with one computed from all the marks; the
invariant `Totalled` says that `closed` is the total of the segments the marks
close and that a frozen meter remembers the last of them. Then `closeAt` and
`noteFreeze` append the same value (`CloseHolds`), the two refinements replace
the same value (`RefineHolds`), and a resume changes none (`ResumeHolds`).
`CPUCountedOnce` needs that the CPU time of the start, of the freezes in turn and
of now rises (`Rising`, in `Counted`): the counter never goes back, and a
refinement never passes the reading of now. As a segment starts at the CPU time
of the freeze before it, the segments adjoin, and their CPU times telescope to
the difference of the two readings (`WholeStepCounted`).

`TotalsProofs` carries the induction over the marks, for every sequence of
integers. The definition of `Total` only says that it is the end of some function
that solves the recursion. A solution exists for each prefix (`RunningExists`) and
its end does not depend on the choice (`RunningUnique`); from that follow the type
of a total, what one more value adds (`TotalGrows`) and the telescoping of two
totals (`TotalsTelescope`). The induction itself (`UpTo`) is stated for a set of
numbers, not for a predicate, and follows from the least element of what is
missing in it (`WFMin` for the order of the naturals), so that no operator has to
be passed to a theorem.

`EnergyMonitorProofs`, for any number of activations on one process, any
concurrency limit and `Configs`, any set of pause_ids, any `MayFail`, a bounded
or an unbounded reaping wait, and a scheduler that answers as it likes:

| Theorem | States |
|---|---|
| `MonitorIsTyped` | `MSpec => []MTypeOK` |
| `UnkillableIsSafe` | `MSpec => []UnkillableNeverKilled` |
| `KillsAreReported` | `MSpec => []NoKillLost` |
| `WarmIsThawed` | `MSpec => []NotLeftFrozen` |
| `FalseKillsAreUnknown` | `MSpec => []FalseKillOnlyIfUnknown` |
| `PollsOwnTheirPause` | `MSpec => []PauseIsOwned` |
| `ThresholdIsTheLast` | `MSpec => []ThresholdOfLastResume` |
| `CyclesAreRecorded` | `MSpec => []EveryCycleRecorded` |
| `ThawsAreGranted` | `MSpec => ThawNeedsGrant` |
| `ControllerStaysTrue` | `MSpec => [](StateIsTrue /\ OneOperation /\ NoUseAfterClose)` |
| `ExecutorKeepsLifecycle` | `MSpec => KeepsLifecycle` |

From `EnergyMonitorAssumption` (who the callers are) and
`CgroupFreezerAssumption`. The invariant `MInv` has the controller's `Inv` as
its first part: a step of the executor is a step of the controller, or takes the
answer of a call, which `Inv` survives (`TakesInv`, `ControllerView`). The last
two theorems rest on that, so what was proved of the controller for any client
holds of the one it has. The other parts: a call in the controller belongs to
the phase of its caller and carries its pause (`MonitorsCall`); a pause_id is
drawn once (`DrawnOnce`); the process is frozen exactly under the pause of one
monitor that is past its freeze and not past its resume (`Ownership`), which is
what keeps two monitors on one controller from undoing each other's pauses; who
wrote `cgroup.kill` (`KilledBy`); every pause drawn is recorded once or is the
cycle under way (`RecordedOnce`); the threshold and the cycles of a result agree
(`Thresholds`); Interact, its report and its monitor agree (`Phases`).

`ActionProxyProofs`, for any finite set of runs, any /init requests, concurrency
limits, attempts and ring size (`ActionProxyAssumption`):

| Theorem | States |
|---|---|
| `ProxyIsTyped` | `Spec => []PTypeOK` |
| `InitIsCountedOnce` | `Spec => []InitPointOnce` |
| `InitIsNeverLost` | `Spec => []InitPointConserved` |
| `MeasurementsComeFirst` | `Spec => []MeasuredThenAnnounced` |
| `LoneRunNeverPanics` | `Spec => []NoPanic` |
| `LoneRunIsMeasured` | `Spec => []MeasuredAlone` |
| `HandlersGiveUpTheirOwn` | `Spec => GivesUpItsOwn` |
| `InitStartsItsOwnCode` | `Spec => []StartsItsOwnCode` |

The invariant `PInv` says where the entry of an /init is and that one run at
most carries it (`Carriers`), what is settled by the time a run has reached each
phase (`DeliveriesInOrder`), that executors in place or in use were started
(`Executors`), that one /init is open and, without OW_DEBUG, at most one ever
succeeds (`OneInit`), that the upload of an /init is in the highest directory
until it is started (`OwnCode`), and that a run that is alone finds its executor
in place until it gives it up (`Alone`): without `OneInit`, a second /init could
take it away.

`SchedulerChannelProofs`, for any finite set of reports, any number of attempts,
any size of the pool, and a scheduler that moves at any time
(`SchedulerChannelAssumption`):

| Theorem | States |
|---|---|
| `ChannelIsTyped` | `Spec => []CTypeOK` |
| `OneResolution` | `Spec => []OneResolver` |
| `ConnectionsAddUp` | `Spec => []NoConnectionLeaks` |
| `CauseIsTrue` | `Spec => []FailureIsTrue` |
| `RecorderIsSealed` | `Spec => RecorderSealed` |

Not even the type of `open` is inductive: that the number of connections does
not go below zero needs the count of `NoConnectionLeaks`, so the invariant
`CInv` proves both together, with cardinalities of the sets of calls that use
or were dialled a connection. The cause of a failure is true because a waiting
report's recorder is at the step of its dial, and a report with a connection
whose own dial goes on was served by another (`RecorderAgrees`).

`EnergySequenceProofs`, for a register of any width and margin, any number of
cores, steps, sequences and extensions, and a step that uses less than the whole
range of the register (`EnergySequenceAssumption`):

| Theorem | States |
|---|---|
| `MeasuresAreTyped` | `Spec => []ETypeOK` |
| `StateIsCarried` | `Spec => []CarriedState` |
| `ConsumedAddsUp` | `Spec => []ConsumedIsTrue` |
| `OvercountsAreExplained` | `Spec => []OvercountExplained` |

The invariant `EInv` says what the next step will extract from the parameters as
they stand (`Carried`), that a right first reading is still that of the register
(`StartIsTrue`), and bounds the energy used so far (`UsedSoFar`). What is said of
an overcount holds of any two readings, the first taken when the step began
(`MeasureExplained`): those of the handler and those of the monitor. The lemmas
beneath it are the arithmetic of the code: deltaRAPLUJ with a wrap and with a
reading that went backwards, and the share by CPU time.

Every inductive invariant (`MInv`, `PInv`, `CInv`, `EInv`, `MarksInv` with
`Totalled` and `Counted`) was checked by TLC on
the instance of its run before it was proved.

Only model-checked:

- all liveness (`CallsReturn`, `ExitIsPublished`, `InvocationReturns`,
  `RequestsEnd`, `ChannelEnds`), which needs fairness and ENABLED;
- the properties of the runs that end with a counterexample.

## 5. What is not modelled

Worth adding: the one output pipe that the activations of a process read, and
overlapping /init requests. The source names the first as a limit of its own
(executor.go:333-337), the platform does not send the second.

Left out for good: archive formats, file type detection, the external compiler,
the parsing of /proc, cgroup files and core masks, logging, the verification
tool under `cmd/`, launchers and examples: I/O or single-threaded code without
state that outlives a call.
