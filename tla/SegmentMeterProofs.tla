------------------------- MODULE SegmentMeterProofs -------------------------
(***************************************************************************)
(* Types, for any number of activations that share the executor.  And, as  *)
(* long as it serves one activation at a time, for any attribution, any    *)
(* number of cycles and any readings that fail: the freeze marks of the    *)
(* executor hold the readings of the monitor's meter, both give the same   *)
(* energy, and the CPU time of a step that answered is counted once.       *)
(***************************************************************************)
EXTENDS SegmentMeter, TotalsProofs, FiniteSetTheorems, TLAPS

(* The types of what the argument is about.                                *)
MarksType ==
    /\ energy \in 0..MaxEnergy /\ cpu \in 0..MaxCPU /\ lag \in 0..cpu
    /\ marks \in Seq(Mark)
    /\ at \in [Activations -> Phases]
    /\ metered \in [Activations -> Reading]
    /\ meter \in [Activations -> Meter]

(* The executor serves one activation at a time.                           *)
Alone == \A a, b \in Active : a = b

(* The marks were reset, and a cycle begins with an open segment.          *)
Between ==
    \A a \in Activations :
        /\ at[a] = "called" => marks = <<>>
        /\ at[a] \in {"run", "freezing"} => ~meter[a].frozen

(* Every mark is resumed at the CPU time of its freeze, and all but the    *)
(* last are resumed.                                                       *)
WellMarked(ms) ==
    \A i \in 1..Len(ms) :
        /\ ms[i].resumed => ms[i].resume.c = ms[i].freeze.c
        /\ i < Len(ms) => ms[i].resumed

(* A meter that started at r and the marks hold the same readings.         *)
InStep(m, ms, r) ==
    /\ m.frozen <=> OpenMark(ms)
    /\ m.frozen => ms[Len(ms)].freeze = m.frozenAt
    /\ ~m.frozen => m.seg = Begins(r, ms, Len(ms) + 1)

MeteringPhases == {"run", "freezing", "frozen", "refined", "thawed", "killed"}

Follows ==
    \A a \in Activations :
        at[a] \in MeteringPhases => InStep(meter[a], marks, metered[a])

MarksInv == MarksType /\ Alone /\ Between /\ WellMarked(marks) /\ Follows

----------------------------------------------------------------------------
LEMMA NowIsReading ==
  ASSUME MarksType
  PROVE  Now \in Reading
  BY SegmentMeterAssumption DEF SegmentMeterAssumption, MarksType, Now, Reading

LEMMA ZeroIsReading == Zero \in Reading
  BY SegmentMeterAssumption DEF SegmentMeterAssumption, Zero, Reading

(* noteFreeze opens a mark.                                                *)
LEMMA NoteFreezeMarks ==
  ASSUME NEW ms \in Seq(Mark), NEW r \in Reading, WellMarked(ms), ~OpenMark(ms)
  PROVE  /\ noteFreeze(ms, r) \in Seq(Mark)
         /\ WellMarked(noteFreeze(ms, r))
         /\ OpenMark(noteFreeze(ms, r))
         /\ noteFreeze(ms, r)[Len(noteFreeze(ms, r))].freeze = r
<1> DEFINE k == MarkOf(r, FALSE, Zero)
           ns == Append(ms, k)
<1>1. k \in Mark /\ k.freeze = r /\ k.resumed = FALSE
  BY ZeroIsReading DEF MarkOf, Mark
<1> HIDE DEF k
<1>2. /\ ns \in Seq(Mark) /\ Len(ns) = Len(ms) + 1 /\ ns[Len(ns)] = k
      /\ \A i \in 1..Len(ms) : ns[i] = ms[i]
  BY <1>1
<1>3. ns # <<>>
  BY <1>2
<1>4. \A i \in 1..Len(ms) : ms[i].resumed
  BY DEF WellMarked, OpenMark
<1>5. noteFreeze(ms, r) = ns
  BY DEF noteFreeze, k
<1> HIDE DEF ns
<1>6. WellMarked(ns)
  <2> SUFFICES ASSUME NEW i \in 1..Len(ns)
               PROVE  /\ ns[i].resumed => ns[i].resume.c = ns[i].freeze.c
                      /\ i < Len(ns) => ns[i].resumed
    BY DEF WellMarked
  <2>1. CASE i = Len(ns)
    BY <1>1, <1>2, <2>1
  <2>2. CASE i # Len(ns)
    BY <1>2, <1>4, <2>2 DEF WellMarked
  <2> QED
    BY <2>1, <2>2
<1> QED
  BY <1>1, <1>2, <1>3, <1>5, <1>6 DEF OpenMark

(* A change of the last mark that keeps it well formed keeps the others.   *)
LEMMA LastMarkReplaced ==
  ASSUME NEW ms \in Seq(Mark), WellMarked(ms), ms # <<>>, NEW k \in Mark,
         k.resumed => k.resume.c = k.freeze.c
  PROVE  /\ LastAs(ms, k) \in Seq(Mark)
         /\ LastAs(ms, k) # <<>>
         /\ LastAs(ms, k)[Len(LastAs(ms, k))] = k
         /\ WellMarked(LastAs(ms, k))
<1> DEFINE ns == LastAs(ms, k)
<1>1. Len(ms) \in 1..Len(ms)
  OBVIOUS
<1>2. /\ ns \in Seq(Mark) /\ Len(ns) = Len(ms) /\ ns[Len(ms)] = k
      /\ \A i \in 1..Len(ms) : i # Len(ms) => ns[i] = ms[i]
  BY <1>1 DEF LastAs
<1> HIDE DEF ns
<1>3. ns # <<>>
  BY <1>1, <1>2
<1>4. WellMarked(ns)
  <2> SUFFICES ASSUME NEW i \in 1..Len(ns)
               PROVE  /\ ns[i].resumed => ns[i].resume.c = ns[i].freeze.c
                      /\ i < Len(ns) => ns[i].resumed
    BY Zenon DEF WellMarked
  <2>1. CASE i = Len(ms)
    BY <1>2, <2>1
  <2>2. CASE i # Len(ms)
    <3>1. ns[i] = ms[i] /\ i \in 1..Len(ms) /\ Len(ns) = Len(ms)
      BY <1>2, <2>2
    <3> QED
      BY <3>1, Zenon DEF WellMarked
  <2> QED
    BY <2>1, <2>2
<1> QED
  BY <1>2, <1>3, <1>4 DEF ns

(* noteResume completes the open mark.                                     *)
LEMMA NoteResumeMarks ==
  ASSUME NEW ms \in Seq(Mark), NEW r \in Reading, WellMarked(ms), OpenMark(ms),
         r.c = ms[Len(ms)].freeze.c
  PROVE  /\ noteResume(ms, r) \in Seq(Mark)
         /\ WellMarked(noteResume(ms, r))
         /\ ~OpenMark(noteResume(ms, r))
         /\ noteResume(ms, r) # <<>>
         /\ noteResume(ms, r)[Len(noteResume(ms, r))].resume = r
<1> DEFINE k == MarkOf(ms[Len(ms)].freeze, TRUE, r)
<1>1. ms # <<>> /\ ms[Len(ms)] \in Mark
  BY DEF OpenMark
<1>2. ms[Len(ms)].freeze \in Reading
  BY <1>1 DEF Mark
<1>3. k \in Mark /\ k.freeze = ms[Len(ms)].freeze /\ k.resumed = TRUE /\ k.resume = r
  BY <1>2 DEF MarkOf, Mark
<1> DEFINE ns == noteResume(ms, r)
<1>4. ns = LastAs(ms, k)
  BY DEF noteResume
<1> HIDE DEF k, ns
<1>5. k.resumed => k.resume.c = k.freeze.c
  BY <1>3
<1>6. ns \in Seq(Mark) /\ ns # <<>> /\ ns[Len(ns)] = k /\ WellMarked(ns)
  BY <1>1, <1>3, <1>4, <1>5, LastMarkReplaced, Zenon
<1> QED
  BY <1>3, <1>6 DEF OpenMark, ns

(* refineFreezeCPU changes the CPU time of the open mark.                  *)
LEMMA RefineMarks ==
  ASSUME NEW ms \in Seq(Mark), NEW c \in 0..MaxCPU, WellMarked(ms), OpenMark(ms),
         c > ms[Len(ms)].freeze.c
  PROVE  /\ refineFreezeCPU(ms, c) \in Seq(Mark)
         /\ WellMarked(refineFreezeCPU(ms, c))
         /\ OpenMark(refineFreezeCPU(ms, c))
         /\ refineFreezeCPU(ms, c)[Len(refineFreezeCPU(ms, c))].freeze =
                WithCPU(ms[Len(ms)].freeze, c)
<1> DEFINE r == WithCPU(ms[Len(ms)].freeze, c)
           k == MarkOf(r, FALSE, Zero)
<1>1. ms # <<>> /\ ms[Len(ms)] \in Mark
  BY DEF OpenMark
<1>2. r \in Reading
  BY <1>1, SegmentMeterAssumption DEF Mark, Reading, WithCPU
<1>3. k \in Mark /\ k.freeze = r /\ k.resumed = FALSE
  BY <1>2, ZeroIsReading DEF MarkOf, Mark
<1> DEFINE ns == refineFreezeCPU(ms, c)
<1>4. ns = LastAs(ms, k)
  BY DEF refineFreezeCPU
<1> HIDE DEF k, ns
<1>5. k.resumed => k.resume.c = k.freeze.c
  BY <1>3
<1>6. ns \in Seq(Mark) /\ ns # <<>> /\ ns[Len(ns)] = k /\ WellMarked(ns)
  BY <1>1, <1>3, <1>4, <1>5, LastMarkReplaced, Zenon
<1> QED
  BY <1>3, <1>6 DEF OpenMark, ns

----------------------------------------------------------------------------
(* The steps of the specification, one activation at a time.               *)

LEMMA OthersIdle ==
  ASSUME MarksInv, NEW a \in Active, NEW b \in Activations, b # a
  PROVE  at[b] \in {"new", "over"}
  BY DEF MarksInv, Alone, Active

(* What a step of one activation has to show.                              *)
LEMMA OneMoves ==
  ASSUME MarksInv, NEW a \in Activations, NEW p \in Phases,
         \A b \in Activations : b # a => at[b] \in {"new", "over"},
         at' = [at EXCEPT ![a] = p],
         energy' \in 0..MaxEnergy, cpu' \in 0..MaxCPU, lag' \in 0..cpu',
         marks' \in Seq(Mark),
         metered' \in [Activations -> Reading],
         meter' \in [Activations -> Meter],
         WellMarked(marks'),
         p = "called" => marks' = <<>>,
         p \in {"run", "freezing"} => ~meter'[a].frozen,
         p \in MeteringPhases => InStep(meter'[a], marks', metered'[a])
  PROVE  MarksInv'
<1>1. at \in [Activations -> Phases]
  BY DEF MarksInv, MarksType
<1>2. at' \in [Activations -> Phases] /\ at'[a] = p
  BY <1>1
<1>3. \A b \in Activations : b # a => at'[b] \in {"new", "over"}
  BY <1>1
<1>4. MarksType'
  BY <1>2 DEF MarksType
<1>5. Alone'
  BY <1>3 DEF Alone, Active
<1>6. Between'
  BY <1>2, <1>3 DEF Between
<1>7. Follows'
  <2> SUFFICES ASSUME NEW b \in Activations, at'[b] \in MeteringPhases
               PROVE  InStep(meter'[b], marks', metered'[b])
    BY DEF Follows
  <2>1. b = a
    BY <1>3 DEF MeteringPhases
  <2> QED
    BY <1>2, <2>1
<1> QED
  BY <1>4, <1>5, <1>6, <1>7 DEF MarksInv

(* A step of an active invocation that leaves meters and marks alone.      *)
LEMMA QuietMove ==
  ASSUME MarksInv, NEW a \in Active, NEW p \in Phases,
         at' = [at EXCEPT ![a] = p],
         UNCHANGED <<energy, cpu, lag, marks, meter, metered>>,
         p # "called",
         p \in {"run", "freezing"} => at[a] = "run",
         p \in MeteringPhases => at[a] \in MeteringPhases
  PROVE  MarksInv'
<1>1. a \in Activations
  BY DEF Active
<1>2. \A b \in Activations : b # a => at[b] \in {"new", "over"}
  BY OthersIdle
<1>3. p \in {"run", "freezing"} => ~meter'[a].frozen
  BY <1>1 DEF MarksInv, Between
<1>4. p \in MeteringPhases => InStep(meter'[a], marks', metered'[a])
  BY <1>1 DEF MarksInv, Follows
<1>5. WellMarked(marks')
  BY DEF MarksInv
<1>6. /\ energy' \in 0..MaxEnergy /\ cpu' \in 0..MaxCPU /\ lag' \in 0..cpu'
      /\ marks' \in Seq(Mark)
      /\ metered' \in [Activations -> Reading]
      /\ meter' \in [Activations -> Meter]
  BY DEF MarksInv, MarksType
<1> QED
  BY <1>1, <1>2, <1>3, <1>4, <1>5, <1>6, OneMoves

LEMMA MarksInvInit ==
  ASSUME Init
  PROVE  MarksInv
<1>1. MarksType
  BY SegmentMeterAssumption, ZeroIsReading
  DEF Init, SegmentMeterAssumption, MarksType, Phases, Meter, newStepMeter
<1>2. Alone
  BY DEF Init, Alone, Active
<1>3. Between /\ Follows
  BY DEF Init, Between, Follows, MeteringPhases
<1>4. WellMarked(marks)
  BY DEF Init, WellMarked
<1> QED
  BY <1>1, <1>2, <1>3, <1>4 DEF MarksInv

(* The node and the kernel only move the counters.                         *)
LEMMA EnvironmentKeeps ==
  ASSUME MarksInv, Environment
  PROVE  MarksInv'
<1>1. /\ energy' \in 0..MaxEnergy /\ cpu' \in 0..MaxCPU /\ lag' \in 0..cpu'
  BY SegmentMeterAssumption
  DEF SegmentMeterAssumption, MarksInv, MarksType, Environment, NodeWorks,
      ActionRuns, KernelCounts
<1>2. UNCHANGED <<marks, at, meter, metered>>
  BY DEF Environment, NodeWorks, ActionRuns, KernelCounts
<1>3. MarksType'
  BY <1>1, <1>2 DEF MarksInv, MarksType
<1>4. Alone' /\ Between' /\ Follows' /\ WellMarked(marks')
  BY <1>2 DEF MarksInv, Alone, Active, Between, Follows
<1> QED
  BY <1>3, <1>4 DEF MarksInv

(* With one invocation at a time a new one finds no other.                 *)
LEMMA StartsAlone ==
  ASSUME Concurrency = 1, NEW a \in Activations, InteractStarts(a)
  PROVE  \A b \in Activations : at[b] \in {"new", "over"}
<1>1. IsFiniteSet(Active)
  BY SegmentMeterAssumption, FS_Subset DEF SegmentMeterAssumption, Active
<1>2. Cardinality(Active) \in Nat /\ Cardinality(Active) < 1
  BY <1>1, FS_CardinalityType DEF InteractStarts
<1>3. Active = {}
  BY <1>1, <1>2, FS_EmptySet
<1> QED
  BY <1>3 DEF Active

(* With one invocation at a time the marks that are reset are nobody's.    *)
LEMMA InteractStartsKeeps ==
  ASSUME MarksInv, Concurrency = 1, NEW a \in Activations, InteractStarts(a)
  PROVE  MarksInv'
<1>1. \A b \in Activations : b # a => at[b] \in {"new", "over"}
  BY StartsAlone
<1>2. marks' = <<>> /\ UNCHANGED <<energy, cpu, lag, meter, metered>>
  BY DEF InteractStarts, MarksReset, nodeVars
<1>3. marks' \in Seq(Mark) /\ WellMarked(marks')
  BY <1>2 DEF WellMarked
<1>4. at' = [at EXCEPT ![a] = "called"] /\ "called" \in Phases
  BY DEF InteractStarts, Goes, Phases
<1>5. /\ energy' \in 0..MaxEnergy /\ cpu' \in 0..MaxCPU /\ lag' \in 0..cpu'
      /\ metered' \in [Activations -> Reading]
      /\ meter' \in [Activations -> Meter]
  BY <1>2 DEF MarksInv, MarksType
<1>6. "called" \notin MeteringPhases /\ "called" \notin {"run", "freezing"}
  BY DEF MeteringPhases
<1> QED
  BY <1>1, <1>2, <1>3, <1>4, <1>5, <1>6, OneMoves

(* A meter starts where it is read, and no mark is there.                  *)
LEMMA MonitorStartsKeeps ==
  ASSUME MarksInv, NEW a \in Activations, MonitorStarts(a)
  PROVE  MarksInv'
<1>1. a \in Active
  BY DEF MonitorStarts, Active
<1>2. \A b \in Activations : b # a => at[b] \in {"new", "over"}
  BY <1>1, OthersIdle
<1>3. marks' = <<>> /\ marks' = marks
  BY DEF MonitorStarts, MarksInv, Between
<1>4. Now \in Reading
  BY NowIsReading DEF MarksInv
<1>5. newStepMeter(Now) \in Meter
  BY <1>4, ZeroIsReading DEF newStepMeter, Meter
<1>6. /\ meter' \in [Activations -> Meter] /\ meter'[a] = newStepMeter(Now)
      /\ metered' \in [Activations -> Reading] /\ metered'[a] = Now
  BY <1>4, <1>5 DEF MonitorStarts, MarksInv, MarksType
<1>7. ~meter'[a].frozen /\ meter'[a].seg = metered'[a]
  BY <1>6 DEF newStepMeter
<1>8. InStep(meter'[a], marks', metered'[a])
  BY <1>3, <1>7 DEF InStep, OpenMark, Begins
<1>9. /\ energy' \in 0..MaxEnergy /\ cpu' \in 0..MaxCPU /\ lag' \in 0..cpu'
      /\ marks' \in Seq(Mark) /\ WellMarked(marks')
  BY DEF MonitorStarts, nodeVars, MarksInv, MarksType
<1>10. at' = [at EXCEPT ![a] = "run"] /\ "run" \in Phases
  BY DEF MonitorStarts, Goes, Phases
<1> QED
  BY <1>2, <1>6, <1>7, <1>8, <1>9, <1>10, OneMoves

(* The three steps that move the meter of an invocation and the marks.     *)
LEMMA MeterMoves ==
  ASSUME MarksInv, NEW a \in Active, NEW p \in MeteringPhases,
         at' = [at EXCEPT ![a] = p],
         UNCHANGED <<energy, cpu, lag, metered>>,
         NEW m \in Meter, meter' = [meter EXCEPT ![a] = m],
         marks' \in Seq(Mark), WellMarked(marks'),
         p \in {"run", "freezing"} => ~m.frozen,
         InStep(m, marks', metered[a])
  PROVE  MarksInv'
<1>1. a \in Activations /\ p \in Phases /\ p # "called"
  BY DEF Active, MeteringPhases, Phases
<1>2. \A b \in Activations : b # a => at[b] \in {"new", "over"}
  BY OthersIdle
<1>3. meter' \in [Activations -> Meter] /\ meter'[a] = m
  BY <1>1 DEF MarksInv, MarksType
<1>4. /\ energy' \in 0..MaxEnergy /\ cpu' \in 0..MaxCPU /\ lag' \in 0..cpu'
      /\ metered' \in [Activations -> Reading] /\ metered'[a] = metered[a]
  BY DEF MarksInv, MarksType
<1> QED
  BY <1>1, <1>2, <1>3, <1>4, OneMoves

LEMMA CloseKeeps ==
  ASSUME MarksInv, NEW a \in Activations, closeSegmentAtFreeze(a)
  PROVE  MarksInv'
<1>1. /\ a \in Active /\ at[a] \in MeteringPhases /\ ~meter[a].frozen
      /\ "frozen" \in MeteringPhases /\ "frozen" \in Phases
      /\ at' = [at EXCEPT ![a] = "frozen"]
      /\ UNCHANGED <<energy, cpu, lag, metered>>
  BY DEF closeSegmentAtFreeze, Active, MeteringPhases, Phases, Goes, nodeVars,
         MarksInv, Between
<1>2. CASE UNCHANGED <<meter, marks>>
  BY <1>1, <1>2, QuietMove
<1>3. CASE /\ meter' = [meter EXCEPT ![a] = closeAt(@, Now)]
           /\ marks' = noteFreeze(marks, Now)
  <2> DEFINE m == closeAt(meter[a], Now)
  <2>1. Now \in Reading /\ meter[a] \in Meter
    BY NowIsReading DEF MarksInv, MarksType
  <2>2. Share(meter[a].seg, Now) \in Nat
    BY <2>1, SegmentMeterAssumption DEF SegmentMeterAssumption, Meter
  <2>3. m \in Meter /\ m.frozen = TRUE /\ m.frozenAt = Now
    BY <2>1, <2>2 DEF closeAt, Meter
  <2>4. ~OpenMark(marks)
    BY <1>1 DEF MarksInv, Follows, InStep
  <2>5. /\ marks' \in Seq(Mark) /\ WellMarked(marks') /\ OpenMark(marks')
        /\ marks'[Len(marks')].freeze = Now
    BY <1>3, <2>1, <2>4, NoteFreezeMarks DEF MarksInv, MarksType
  <2>6. meter' = [meter EXCEPT ![a] = m]
    BY <1>3
  <2> HIDE DEF m
  <2>7. InStep(m, marks', metered[a])
    BY <2>3, <2>5 DEF InStep
  <2> QED
    BY <1>1, <2>3, <2>5, <2>6, <2>7, MeterMoves
<1> QED
  BY <1>2, <1>3 DEF closeSegmentAtFreeze

(* Meter and mark hold the same reading, so both are refined or neither.   *)
LEMMA RefineKeeps ==
  ASSUME MarksInv, NEW a \in Activations, refineFrozenSegment(a)
  PROVE  MarksInv'
<1>1. /\ a \in Active /\ at[a] \in MeteringPhases
      /\ "refined" \in MeteringPhases /\ "refined" \in Phases
      /\ at' = [at EXCEPT ![a] = "refined"]
      /\ UNCHANGED <<energy, cpu, lag, metered>>
  BY DEF refineFrozenSegment, Active, MeteringPhases, Phases, Goes, nodeVars
<1>2. CASE UNCHANGED <<meter, marks>>
  BY <1>1, <1>2, QuietMove
<1>3. CASE /\ meter[a].frozen
           /\ meter' = [meter EXCEPT ![a] = refineFrozenCPU(@, Now.c)]
           /\ marks' = refineFreezeCPU(marks, Now.c)
  <2> DEFINE m == refineFrozenCPU(meter[a], Now.c)
  <2>1. Now \in Reading /\ Now.c \in 0..MaxCPU /\ meter[a] \in Meter
    BY NowIsReading DEF MarksInv, MarksType, Reading
  <2>2. /\ OpenMark(marks) /\ marks[Len(marks)].freeze = meter[a].frozenAt
        /\ marks \in Seq(Mark) /\ WellMarked(marks)
    BY <1>1, <1>3 DEF MarksInv, MarksType, Follows, InStep
  <2>3. CASE Now.c > meter[a].frozenAt.c
    <3> DEFINE r == WithCPU(meter[a].frozenAt, Now.c)
    <3>1. r \in Reading
      BY <2>1 DEF WithCPU, Reading, Meter
    <3>2. Share(meter[a].lastSeg, r) \in Nat
      BY <2>1, <3>1, SegmentMeterAssumption DEF SegmentMeterAssumption, Meter
    <3>3. m \in Meter /\ m.frozen = TRUE /\ m.frozenAt = r
      BY <1>3, <2>1, <2>3, <3>1, <3>2 DEF refineFrozenCPU, Meter
    <3>4. /\ marks' \in Seq(Mark) /\ WellMarked(marks') /\ OpenMark(marks')
          /\ marks'[Len(marks')].freeze = r
      BY <1>3, <2>1, <2>2, <2>3, RefineMarks
    <3>5. meter' = [meter EXCEPT ![a] = m]
      BY <1>3
    <3> HIDE DEF m, r
    <3>6. InStep(m, marks', metered[a])
      BY <3>3, <3>4 DEF InStep
    <3> QED
      BY <1>1, <3>3, <3>4, <3>5, <3>6, MeterMoves
  <2>4. CASE ~(Now.c > meter[a].frozenAt.c)
    <3>1. m = meter[a] /\ marks' = marks
      BY <1>3, <2>2, <2>4 DEF refineFrozenCPU, refineFreezeCPU
    <3>2. meter' = meter
      BY <1>3, <3>1 DEF MarksInv, MarksType
    <3> QED
      BY <1>1, <3>1, <3>2, QuietMove
  <2> QED
    BY <2>3, <2>4
<1> QED
  BY <1>2, <1>3 DEF refineFrozenSegment

(* The next segment starts where the mark says that the step resumed.      *)
LEMMA OpenKeeps ==
  ASSUME MarksInv, NEW a \in Activations, openSegmentAtResume(a)
  PROVE  MarksInv'
<1>1. /\ a \in Active /\ at[a] \in MeteringPhases
      /\ "run" \in MeteringPhases /\ "run" \in Phases
      /\ at' = [at EXCEPT ![a] = "run"]
      /\ UNCHANGED <<energy, cpu, lag, metered>>
  BY DEF openSegmentAtResume, Active, MeteringPhases, Phases, Goes, nodeVars
<1>2. meter[a] \in Meter /\ marks \in Seq(Mark) /\ WellMarked(marks)
  BY DEF MarksInv, MarksType
<1>3. InStep(meter[a], marks, metered[a])
  BY <1>1 DEF MarksInv, Follows
<1>4. CASE meter[a].frozen
  <2>1. PICK e \in {energy, meter[a].frozenAt.e} :
            LET r == [e |-> e, c |-> ResumeCPU(meter[a])]
            IN /\ meter' = [meter EXCEPT ![a] = openAt(@, r)]
               /\ marks' = noteResume(marks, r)
    BY <1>4 DEF openSegmentAtResume
  <2> DEFINE r == [e |-> e, c |-> ResumeCPU(meter[a])]
             m == openAt(meter[a], r)
  <2>2. r \in Reading /\ r.c = meter[a].frozenAt.c
    BY <1>2 DEF ResumeCPU, Reading, Meter, MarksInv, MarksType
  <2>3. meter' = [meter EXCEPT ![a] = m] /\ marks' = noteResume(marks, r)
    BY <2>1
  <2> HIDE DEF r
  <2>4. m \in Meter /\ m.frozen = FALSE /\ m.seg = r
    BY <1>2, <2>2 DEF openAt, Meter
  <2>5. OpenMark(marks) /\ r.c = marks[Len(marks)].freeze.c
    BY <1>3, <1>4, <2>2 DEF InStep
  <2>6. /\ marks' \in Seq(Mark) /\ WellMarked(marks') /\ ~OpenMark(marks')
        /\ marks' # <<>> /\ marks'[Len(marks')].resume = r
    BY <1>2, <2>2, <2>3, <2>5, NoteResumeMarks
  <2> HIDE DEF m
  <2>7. Len(marks') + 1 # 1 /\ Len(marks') + 1 - 1 = Len(marks')
    BY <2>6
  <2>8. InStep(m, marks', metered[a])
    BY <2>4, <2>6, <2>7 DEF InStep, Begins
  <2> QED
    BY <1>1, <2>3, <2>4, <2>6, <2>8, MeterMoves
<1>5. CASE ~meter[a].frozen
  <2>1. UNCHANGED <<meter, marks>>
    BY <1>5 DEF openSegmentAtResume
  <2>2. meter' = [meter EXCEPT ![a] = meter[a]]
    BY <2>1 DEF MarksInv, MarksType
  <2> QED
    BY <1>1, <1>2, <1>3, <1>5, <2>1, <2>2, MeterMoves
<1> QED
  BY <1>4, <1>5

(* The steps that leave meters and marks alone.                            *)
LEMMA QuietKeeps ==
  ASSUME MarksInv, NEW a \in Activations,
         Freezes(a) \/ Resumes(a) \/ ResumeFails(a) \/ Kills(a)
             \/ KillsUnpaused(a) \/ Answers(a) \/ recordMetrics(a)
  PROVE  MarksInv'
<1> USE DEF Active, MeteringPhases, Phases, Goes, nodeVars
<1>1. CASE Freezes(a)
  BY <1>1, QuietMove DEF Freezes
<1>2. CASE Resumes(a)
  BY <1>2, QuietMove DEF Resumes
<1>3. CASE ResumeFails(a)
  BY <1>3, QuietMove DEF ResumeFails
<1>4. CASE Kills(a)
  BY <1>4, QuietMove DEF Kills
<1>5. CASE Answers(a)
  BY <1>5, QuietMove DEF Answers
<1>6. CASE recordMetrics(a)
  BY <1>6, QuietMove DEF recordMetrics
<1>7. CASE KillsUnpaused(a)
  BY <1>7, QuietMove DEF KillsUnpaused
<1> QED
  BY <1>1, <1>2, <1>3, <1>4, <1>5, <1>6, <1>7

----------------------------------------------------------------------------
LEMMA MarksInvStep ==
  ASSUME MarksInv, Concurrency = 1, [Next]_vars
  PROVE  MarksInv'
<1>1. CASE Environment
  BY <1>1, EnvironmentKeeps
<1>2. ASSUME NEW a \in Activations, Step(a)
      PROVE  MarksInv'
  BY <1>2, InteractStartsKeeps, MonitorStartsKeeps, CloseKeeps, RefineKeeps,
     OpenKeeps, QuietKeeps
  DEF Step, Cycle
<1>3. CASE UNCHANGED vars
  BY <1>3 DEF vars, nodeVars, MarksInv, MarksType, Alone, Active, Between, Follows
<1> QED
  BY <1>1, <1>2, <1>3 DEF Next

LEMMA MarksInvMeans ==
  ASSUME MarksInv
  PROVE  MarksFollowMeter
<1>1. \A i \in 1..Len(marks) :
           /\ marks[i].resumed => marks[i].resume.c = marks[i].freeze.c
           /\ i < Len(marks) => marks[i].resumed
  BY DEF MarksInv, WellMarked
<1>2. \A a \in Activations : Metering(a) =>
           /\ meter[a].frozen <=> OpenMark(marks)
           /\ meter[a].frozen =>
                  marks[Len(marks)].freeze = meter[a].frozenAt
           /\ ~meter[a].frozen =>
                  meter[a].seg = Begins(metered[a], marks, Len(marks) + 1)
  BY DEF MarksInv, Follows, InStep, Metering, MeteringPhases
<1> QED
  BY <1>1, <1>2 DEF MarksFollowMeter

(* With one activation at a time the marks that the executor hands to the  *)
(* final measurement hold the readings of the monitor's meter, whatever    *)
(* the attribution, the number of pauses and the readings that failed.     *)
THEOREM MarksInStep ==
  ASSUME Concurrency = 1
  PROVE  Spec => []MarksFollowMeter
<1>1. Init => MarksInv
  BY MarksInvInit
<1>2. MarksInv /\ [Next]_vars => MarksInv'
  BY MarksInvStep
<1>3. MarksInv => MarksFollowMeter
  BY MarksInvMeans
<1> QED
  BY <1>1, <1>2, <1>3, PTL DEF Spec

----------------------------------------------------------------------------
(* The types, however many activations share the executor.                 *)

LEMMA BeginsType ==
  ASSUME NEW from \in Reading, NEW ms \in Seq(Mark), NEW i \in 1..(Len(ms) + 1)
  PROVE  Begins(from, ms, i) \in Reading
<1>1. CASE i = 1
  BY <1>1 DEF Begins
<1>2. CASE i # 1
  <2>1. i - 1 \in 1..Len(ms)
    BY <1>2
  <2>2. ms[i - 1] \in Mark
    BY <2>1
  <2> QED
    BY <1>2, <2>2 DEF Begins, Mark
<1> QED
  BY <1>1, <1>2

LEMMA EndsType ==
  ASSUME NEW to \in Reading, NEW ms \in Seq(Mark), NEW i \in 1..(Len(ms) + 1)
  PROVE  Ends(to, ms, i) \in Reading
<1>1. CASE i > Len(ms)
  BY <1>1 DEF Ends
<1>2. CASE ~(i > Len(ms))
  <2>1. i \in 1..Len(ms)
    BY <1>2
  <2>2. ms[i] \in Mark
    BY <2>1
  <2> QED
    BY <1>2, <2>2 DEF Ends, Mark
<1> QED
  BY <1>1, <1>2

(* What the loop adds of the energy and of the CPU time.                   *)
AddedShare(from, to, ms) ==
    Added([i \in 1..(Len(ms) + 1) |-> Share(Begins(from, ms, i), Ends(to, ms, i))], ms)
AddedCPU(from, to, ms) ==
    Added([i \in 1..(Len(ms) + 1) |->
               DeltaProcess(Begins(from, ms, i), Ends(to, ms, i))], ms)
AddedStill(from, to, ms) ==
    Added([i \in 1..(Len(ms) + 1) |->
               Unattributed(Begins(from, ms, i), Ends(to, ms, i))], ms)

LEMMA CPUTimeType ==
  ASSUME NEW r \in Reading, NEW s \in Reading
  PROVE  DeltaProcess(r, s) \in Int /\ Unattributed(r, s) \in Int
<1>1. r.c \in Int /\ s.c \in Int
  BY SegmentMeterAssumption DEF SegmentMeterAssumption, Reading
<1> QED
  BY <1>1 DEF DeltaProcess, Unattributed

LEMMA AddedCPUType ==
  ASSUME NEW from \in Reading, NEW to \in Reading, NEW ms \in Seq(Mark)
  PROVE  /\ AddedCPU(from, to, ms) \in Seq(Int)
         /\ AddedStill(from, to, ms) \in Seq(Int)
         /\ Len(AddedCPU(from, to, ms)) = Len(ms) + 1
         /\ Len(AddedStill(from, to, ms)) = Len(ms) + 1
<1>1. ASSUME NEW i \in 1..(Len(ms) + 1)
      PROVE  /\ DeltaProcess(Begins(from, ms, i), Ends(to, ms, i)) \in Int
             /\ Unattributed(Begins(from, ms, i), Ends(to, ms, i)) \in Int
  <2>1. Begins(from, ms, i) \in Reading /\ Ends(to, ms, i) \in Reading
    BY BeginsType, EndsType
  <2> QED
    BY <2>1, CPUTimeType
<1>2. Len(ms) + 1 \in Nat
  OBVIOUS
<1> QED
  BY <1>1, <1>2 DEF Added, AddedCPU, AddedStill

(* What recordMetricsImpl reports is a number.                             *)
LEMMA ReportedType ==
  ASSUME NEW from \in Reading, NEW to \in Reading, NEW ms \in Seq(Mark)
  PROVE  segmentedCPU(from, to, ms) \in Int /\ StillCPU(from, to, ms) \in Int
  BY AddedCPUType, TotalType DEF segmentedCPU, StillCPU, AddedCPU, AddedStill

LEMMA LastAsType ==
  ASSUME NEW ms \in Seq(Mark), ms # <<>>, NEW k \in Mark
  PROVE  LastAs(ms, k) \in Seq(Mark)
<1>1. Len(ms) \in 1..Len(ms)
  OBVIOUS
<1> QED
  BY <1>1 DEF LastAs

LEMMA NoteFreezeType ==
  ASSUME NEW ms \in Seq(Mark), NEW r \in Reading
  PROVE  noteFreeze(ms, r) \in Seq(Mark)
<1> DEFINE k == MarkOf(r, FALSE, Zero)
<1>1. k \in Mark
  BY ZeroIsReading DEF MarkOf, Mark
<1>2. noteFreeze(ms, r) = Append(ms, k)
  BY DEF noteFreeze
<1> HIDE DEF k
<1> QED
  BY <1>1, <1>2

LEMMA NoteResumeType ==
  ASSUME NEW ms \in Seq(Mark), NEW r \in Reading
  PROVE  noteResume(ms, r) \in Seq(Mark)
<1>1. CASE OpenMark(ms)
  <2>1. ms[Len(ms)] \in Mark
    BY <1>1 DEF OpenMark
  <2>2. MarkOf(ms[Len(ms)].freeze, TRUE, r) \in Mark
    BY <2>1 DEF MarkOf, Mark
  <2> QED
    BY <1>1, <2>2, LastAsType DEF noteResume, OpenMark
<1>2. CASE ~OpenMark(ms)
  BY <1>2 DEF noteResume
<1> QED
  BY <1>1, <1>2

LEMMA WithCPUType ==
  ASSUME NEW r \in Reading, NEW c \in 0..MaxCPU
  PROVE  WithCPU(r, c) \in Reading
  BY DEF WithCPU, Reading

LEMMA RefineMarksType ==
  ASSUME NEW ms \in Seq(Mark), NEW c \in 0..MaxCPU
  PROVE  refineFreezeCPU(ms, c) \in Seq(Mark)
<1>1. CASE OpenMark(ms) /\ c > ms[Len(ms)].freeze.c
  <2>1. ms[Len(ms)] \in Mark
    BY <1>1 DEF OpenMark
  <2>2. ms[Len(ms)].freeze \in Reading
    BY <2>1 DEF Mark
  <2>3. MarkOf(WithCPU(ms[Len(ms)].freeze, c), FALSE, Zero) \in Mark
    BY <2>2, WithCPUType, ZeroIsReading DEF MarkOf, Mark
  <2> QED
    BY <1>1, <2>3, LastAsType DEF refineFreezeCPU, OpenMark
<1>2. CASE ~(OpenMark(ms) /\ c > ms[Len(ms)].freeze.c)
  BY <1>2 DEF refineFreezeCPU
<1> QED
  BY <1>1, <1>2

LEMMA ShareType ==
  ASSUME NEW r \in Reading, NEW s \in Reading
  PROVE  Share(r, s) \in Nat
  BY SegmentMeterAssumption DEF SegmentMeterAssumption

LEMMA MeterTypes ==
  ASSUME NEW m \in Meter, NEW r \in Reading, NEW c \in 0..MaxCPU
  PROVE  /\ closeAt(m, r) \in Meter
         /\ openAt(m, r) \in Meter
         /\ refineFrozenCPU(m, c) \in Meter
         /\ newStepMeter(r) \in Meter
<1>1. /\ m.seg \in Reading /\ m.lastSeg \in Reading /\ m.frozenAt \in Reading
      /\ m.closed \in Int /\ m.lastUJ \in Nat
  BY DEF Meter
<1>2. Share(m.seg, r) \in Nat
  BY <1>1, ShareType
<1>3. closeAt(m, r) \in Meter /\ openAt(m, r) \in Meter
  BY <1>1, <1>2 DEF closeAt, openAt, Meter
<1>4. WithCPU(m.frozenAt, c) \in Reading
  BY <1>1, WithCPUType
<1>5. Share(m.lastSeg, WithCPU(m.frozenAt, c)) \in Nat
  BY <1>1, <1>4, ShareType
<1>6. refineFrozenCPU(m, c) \in Meter
  BY <1>1, <1>4, <1>5 DEF refineFrozenCPU, Meter
<1>7. newStepMeter(r) \in Meter
  BY ZeroIsReading DEF newStepMeter, Meter
<1> QED
  BY <1>3, <1>6, <1>7

LEMMA STypeInit ==
  ASSUME Init
  PROVE  STypeOK
<1>1. newStepMeter(Zero) \in Meter
  BY ZeroIsReading DEF newStepMeter, Meter
<1>2. final \in [Activations -> [cpu : Int, still : Int, upTo : Reading,
                                 killed : BOOLEAN]]
  BY ZeroIsReading DEF Init
<1>3. /\ energy \in 0..MaxEnergy /\ cpu \in 0..MaxCPU /\ lag \in 0..cpu
      /\ frozen \in BOOLEAN /\ marks \in Seq(Mark)
  <2>1. energy = 0 /\ cpu = 0 /\ lag = 0 /\ frozen = FALSE /\ marks = <<>>
    BY DEF Init
  <2>2. MaxEnergy \in Nat /\ MaxCPU \in Nat
    BY SegmentMeterAssumption DEF SegmentMeterAssumption
  <2>3. energy \in 0..MaxEnergy /\ cpu \in 0..MaxCPU /\ lag \in 0..cpu
    BY <2>1, <2>2
  <2>4. marks \in Seq(Mark)
    BY <2>1
  <2>5. frozen \in BOOLEAN
    BY <2>1
  <2> QED
    BY <2>3, <2>4, <2>5
<1>4. /\ at \in [Activations -> Phases] /\ cycles \in [Activations -> 0..MaxCycles]
      /\ begun \in [Activations -> Reading] /\ metered \in [Activations -> Reading]
      /\ meter \in [Activations -> Meter]
  BY <1>1, ZeroIsReading, SegmentMeterAssumption
  DEF Init, SegmentMeterAssumption, Phases
<1> QED
  BY <1>2, <1>3, <1>4 DEF STypeOK

(* The node and the kernel only move the counters, within their bounds.    *)
LEMMA EnvironmentType ==
  ASSUME STypeOK, Environment
  PROVE  STypeOK'
<1>1. /\ energy' \in 0..MaxEnergy /\ cpu' \in 0..MaxCPU /\ lag' \in 0..cpu'
  BY SegmentMeterAssumption
  DEF SegmentMeterAssumption, STypeOK, Environment, NodeWorks, ActionRuns,
      KernelCounts
<1>2. UNCHANGED <<frozen, marks, at, cycles, begun, meter, metered, final>>
  BY DEF Environment, NodeWorks, ActionRuns, KernelCounts
<1> QED
  BY <1>1, <1>2 DEF STypeOK

LEMMA NowType ==
  ASSUME STypeOK
  PROVE  Now \in Reading /\ Now.c \in 0..MaxCPU
  BY NowIsReading DEF STypeOK, MarksType, Reading

LEMMA StepType ==
  ASSUME STypeOK, NEW a \in Activations, Step(a)
  PROVE  STypeOK'
<1>1. Now \in Reading /\ Now.c \in 0..MaxCPU
  BY NowType
<1>2. /\ energy' \in 0..MaxEnergy /\ cpu' \in 0..MaxCPU /\ lag' \in 0..cpu'
  BY DEF STypeOK, Step, InteractStarts, MonitorStarts, Cycle, Freezes,
         closeSegmentAtFreeze, refineFrozenSegment, Resumes, ResumeFails,
         openSegmentAtResume, Kills, KillsUnpaused, Answers, recordMetrics, nodeVars
<1>3. frozen' \in BOOLEAN
  BY DEF STypeOK, Step, InteractStarts, MonitorStarts, Cycle, Freezes,
         closeSegmentAtFreeze, refineFrozenSegment, Resumes, ResumeFails,
         openSegmentAtResume, Kills, KillsUnpaused, Answers, recordMetrics
<1>4. at' \in [Activations -> Phases]
  <2>1. \E p \in Phases : at' = [at EXCEPT ![a] = p]
    BY DEF Step, InteractStarts, MonitorStarts, Cycle, Freezes,
           closeSegmentAtFreeze, refineFrozenSegment, Resumes, ResumeFails,
           openSegmentAtResume, Kills, KillsUnpaused, Answers, recordMetrics,
           Goes, Phases
  <2> QED
    BY <2>1 DEF STypeOK
<1>5. cycles' \in [Activations -> 0..MaxCycles]
  <2>1. CASE Freezes(a)
    <3>1. cycles[a] + 1 \in 0..MaxCycles
      BY <2>1, SegmentMeterAssumption DEF Freezes, STypeOK, SegmentMeterAssumption
    <3> QED
      BY <2>1, <3>1 DEF Freezes, STypeOK
  <2>2. CASE ~Freezes(a)
    BY <2>2
    DEF STypeOK, Step, InteractStarts, MonitorStarts, Cycle, closeSegmentAtFreeze,
        refineFrozenSegment, Resumes, ResumeFails, openSegmentAtResume, Kills,
        KillsUnpaused, Answers, recordMetrics
  <2> QED
    BY <2>1, <2>2
<1>6. begun' \in [Activations -> Reading] /\ metered' \in [Activations -> Reading]
  BY <1>1
  DEF STypeOK, Step, InteractStarts, MonitorStarts, Cycle, Freezes,
      closeSegmentAtFreeze, refineFrozenSegment, Resumes, ResumeFails,
      openSegmentAtResume, Kills, KillsUnpaused, Answers, recordMetrics
<1>7. /\ marks' \in Seq(Mark) /\ meter' \in [Activations -> Meter]
  <2>0. marks \in Seq(Mark) /\ meter \in [Activations -> Meter] /\ meter[a] \in Meter
    BY DEF STypeOK
  <2>1. CASE InteractStarts(a)
    BY <2>0, <2>1 DEF InteractStarts, MarksReset
  <2>2. CASE MonitorStarts(a)
    BY <1>1, <2>0, <2>2, MeterTypes DEF MonitorStarts
  <2>3. CASE closeSegmentAtFreeze(a)
    BY <1>1, <2>0, <2>3, MeterTypes, NoteFreezeType DEF closeSegmentAtFreeze
  <2>4. CASE refineFrozenSegment(a)
    BY <1>1, <2>0, <2>4, MeterTypes, RefineMarksType DEF refineFrozenSegment
  <2>5. CASE openSegmentAtResume(a)
    <3>1. CASE meter[a].frozen
      <4>1. PICK e \in {energy, meter[a].frozenAt.e} :
                LET r == [e |-> e, c |-> ResumeCPU(meter[a])]
                IN /\ meter' = [meter EXCEPT ![a] = openAt(@, r)]
                   /\ marks' = noteResume(marks, r)
        BY <2>5, <3>1 DEF openSegmentAtResume
      <4> DEFINE r == [e |-> e, c |-> ResumeCPU(meter[a])]
      <4>2. r \in Reading
        BY <2>0 DEF ResumeCPU, Reading, Meter, STypeOK
      <4>3. meter' = [meter EXCEPT ![a] = openAt(meter[a], r)]
            /\ marks' = noteResume(marks, r)
        BY <4>1
      <4> HIDE DEF r
      <4> QED
        BY <1>1, <2>0, <4>2, <4>3, MeterTypes, NoteResumeType
    <3>2. CASE ~meter[a].frozen
      BY <2>0, <2>5, <3>2 DEF openSegmentAtResume
    <3> QED
      BY <3>1, <3>2
  <2>6. CASE \/ Freezes(a) \/ Resumes(a) \/ ResumeFails(a) \/ Kills(a)
             \/ KillsUnpaused(a) \/ Answers(a) \/ recordMetrics(a)
    BY <2>0, <2>6
    DEF Freezes, Resumes, ResumeFails, Kills, KillsUnpaused, Answers, recordMetrics
  <2> QED
    BY <2>1, <2>2, <2>3, <2>4, <2>5, <2>6 DEF Step, Cycle
<1>8. final' \in [Activations -> [cpu : Int, still : Int, upTo : Reading,
                                  killed : BOOLEAN]]
  <2>1. CASE recordMetrics(a)
    <3>1. /\ segmentedCPU(begun[a], Now, marks) \in Int
          /\ StillCPU(begun[a], Now, marks) \in Int
      BY <1>1, ReportedType DEF STypeOK
    <3> QED
      BY <1>1, <2>1, <3>1 DEF recordMetrics, STypeOK
  <2>2. CASE ~recordMetrics(a)
    BY <2>2
    DEF STypeOK, Step, InteractStarts, MonitorStarts, Cycle, Freezes,
        closeSegmentAtFreeze, refineFrozenSegment, Resumes, ResumeFails,
        openSegmentAtResume, Kills, KillsUnpaused, Answers
  <2> QED
    BY <2>1, <2>2
<1> QED
  BY <1>2, <1>3, <1>4, <1>5, <1>6, <1>7, <1>8 DEF STypeOK

(* Every counter, mark and meter keeps its type, and what is reported is   *)
(* a number, however many activations share the executor.                  *)
THEOREM SegmentTypes == Spec => []STypeOK
<1>1. Init => STypeOK
  BY STypeInit
<1>2. STypeOK /\ [Next]_vars => STypeOK'
  <2> SUFFICES ASSUME STypeOK, [Next]_vars
               PROVE  STypeOK'
    OBVIOUS
  <2>1. CASE UNCHANGED vars
    BY <2>1 DEF STypeOK, vars, nodeVars
  <2> QED
    BY <2>1, EnvironmentType, StepType DEF Next
<1> QED
  BY <1>1, <1>2, PTL DEF Spec

----------------------------------------------------------------------------
(* What the meter has summed up is the total over the marks.               *)

(* What each freeze closed.                                                *)
ClosedSegments(from, ms) ==
    [i \in 1..Len(ms) |-> Share(Begins(from, ms, i), ms[i].freeze)]

(* A meter that started at r holds the total of the segments that the      *)
(* marks close and, while frozen, the last of them, to be able to replace  *)
(* it.                                                                     *)
HoldsTotal(m, ms, r) ==
    /\ m.closed = Total(ClosedSegments(r, ms))
    /\ m.frozen => /\ m.lastSeg = Begins(r, ms, Len(ms))
                   /\ m.lastUJ = Share(m.lastSeg, m.frozenAt)

Totalled ==
    \A a \in Activations :
        at[a] \in MeteringPhases => HoldsTotal(meter[a], marks, metered[a])

LEMMA ClosedType ==
  ASSUME NEW from \in Reading, NEW ms \in Seq(Mark)
  PROVE  /\ ClosedSegments(from, ms) \in Seq(Int)
         /\ Len(ClosedSegments(from, ms)) = Len(ms)
         /\ \A i \in 1..Len(ms) :
                /\ ClosedSegments(from, ms)[i] = Share(Begins(from, ms, i), ms[i].freeze)
                /\ Share(Begins(from, ms, i), ms[i].freeze) \in Int
<1>1. ASSUME NEW i \in 1..Len(ms)
      PROVE  Share(Begins(from, ms, i), ms[i].freeze) \in Int
  <2>1. i \in 1..(Len(ms) + 1) /\ ms[i] \in Mark
    OBVIOUS
  <2>2. Begins(from, ms, i) \in Reading /\ ms[i].freeze \in Reading
    BY <2>1, BeginsType DEF Mark
  <2> QED
    BY <2>2, ShareType
<1>2. Len(ms) \in Nat
  OBVIOUS
<1> QED
  BY <1>1, <1>2 DEF ClosedSegments

(* Where a segment begins depends on the marks before it only.             *)
LEMMA BeginsFromPrefix ==
  ASSUME NEW from, NEW ms, NEW ns, NEW n \in Nat,
         \A i \in 1..n : ns[i] = ms[i], NEW i \in 1..(n + 1)
  PROVE  Begins(from, ns, i) = Begins(from, ms, i)
<1>1. CASE i = 1
  BY <1>1 DEF Begins
<1>2. CASE i # 1
  <2>1. i - 1 \in 1..n
    BY <1>2
  <2> QED
    BY <1>2, <2>1 DEF Begins
<1> QED
  BY <1>1, <1>2

(* A new mark adds the segment that it closes.                             *)
LEMMA ClosedAppend ==
  ASSUME NEW from \in Reading, NEW ms \in Seq(Mark), NEW k \in Mark
  PROVE  /\ Total(ClosedSegments(from, Append(ms, k)))
              = Total(ClosedSegments(from, ms))
                + Share(Begins(from, ms, Len(ms) + 1), k.freeze)
         /\ Begins(from, Append(ms, k), Len(ms) + 1) = Begins(from, ms, Len(ms) + 1)
<1> DEFINE ns == Append(ms, k)
           v == ClosedSegments(from, ms)
           w == ClosedSegments(from, ns)
<1>1. /\ ns \in Seq(Mark) /\ Len(ns) = Len(ms) + 1 /\ ns[Len(ns)] = k
      /\ \A i \in 1..Len(ms) : ns[i] = ms[i]
      /\ Len(ms) \in Nat /\ Len(ms) + 1 \in 1..(Len(ms) + 1)
      /\ \A i \in 1..Len(ms) : i \in 1..(Len(ms) + 1)
  OBVIOUS
<1> HIDE DEF ns
<1>2. /\ v \in Seq(Int) /\ Len(v) = Len(ms) /\ w \in Seq(Int) /\ Len(w) = Len(ns)
      /\ \A i \in 1..Len(ms) : v[i] = Share(Begins(from, ms, i), ms[i].freeze)
      /\ \A i \in 1..Len(ns) : w[i] = Share(Begins(from, ns, i), ns[i].freeze)
  BY <1>1, ClosedType
<1> HIDE DEF v, w
<1>3. \A i \in 1..(Len(ms) + 1) : Begins(from, ns, i) = Begins(from, ms, i)
  BY <1>1, BeginsFromPrefix
<1>4. ASSUME NEW i \in 1..Len(v) PROVE w[i] = v[i]
  <2>1. i \in 1..Len(ms) /\ i \in 1..Len(ns)
    BY <1>1, <1>2
  <2>2. w[i] = Share(Begins(from, ns, i), ns[i].freeze)
    BY <1>2, <2>1
  <2>3. ns[i] = ms[i] /\ Begins(from, ns, i) = Begins(from, ms, i)
    BY <1>1, <1>3, <2>1
  <2> QED
    BY <1>2, <2>1, <2>2, <2>3
<1>5. w[Len(w)] = Share(Begins(from, ms, Len(ms) + 1), k.freeze)
  BY <1>1, <1>2, <1>3
<1>6. Total(w) = Total(v) + w[Len(w)]
  BY <1>1, <1>2, <1>4, TotalGrows
<1> QED
  BY <1>1, <1>3, <1>5, <1>6 DEF v, w, ns

LEMMA LastAsIs ==
  ASSUME NEW ms \in Seq(Mark), ms # <<>>, NEW k \in Mark
  PROVE  /\ LastAs(ms, k) \in Seq(Mark) /\ Len(LastAs(ms, k)) = Len(ms)
         /\ LastAs(ms, k)[Len(ms)] = k
         /\ \A i \in 1..Len(ms) : i # Len(ms) => LastAs(ms, k)[i] = ms[i]
<1>1. Len(ms) \in 1..Len(ms)
  OBVIOUS
<1> QED
  BY <1>1 DEF LastAs

(* A change of the last mark replaces what the last segment was worth.     *)
LEMMA ClosedReplaced ==
  ASSUME NEW from \in Reading, NEW ms \in Seq(Mark), ms # <<>>, NEW k \in Mark
  PROVE  /\ Total(ClosedSegments(from, LastAs(ms, k)))
              = Total(ClosedSegments(from, ms))
                + Share(Begins(from, ms, Len(ms)), k.freeze)
                - Share(Begins(from, ms, Len(ms)), ms[Len(ms)].freeze)
         /\ Begins(from, LastAs(ms, k), Len(ms)) = Begins(from, ms, Len(ms))
         /\ Len(LastAs(ms, k)) = Len(ms)
<1> DEFINE ns == LastAs(ms, k)
           n == Len(ms)
           v == ClosedSegments(from, ms)
           w == ClosedSegments(from, ns)
           p == [i \in 1..(n - 1) |-> v[i]]
<1>1. /\ n \in 1..n /\ n - 1 \in Nat /\ (n - 1) + 1 = n
      /\ \A i \in 1..(n - 1) : i \in 1..n /\ i # n
  OBVIOUS
<1>2. /\ ns \in Seq(Mark) /\ Len(ns) = n /\ ns[n] = k
      /\ \A i \in 1..n : i # n => ns[i] = ms[i]
  BY LastAsIs
<1> HIDE DEF ns
<1>3. /\ v \in Seq(Int) /\ Len(v) = n /\ w \in Seq(Int) /\ Len(w) = n
      /\ \A i \in 1..n : v[i] = Share(Begins(from, ms, i), ms[i].freeze)
      /\ \A i \in 1..n : w[i] = Share(Begins(from, ns, i), ns[i].freeze)
  BY <1>2, ClosedType
<1> HIDE DEF v, w, n
<1>4. p \in Seq(Int) /\ Len(p) = n - 1 /\ \A i \in 1..(n - 1) : p[i] = v[i]
  <2>1. \A i \in 1..(n - 1) : v[i] \in Int
    BY <1>1, <1>3
  <2>2. PICK m \in Nat : m = n - 1
    BY <1>1
  <2>3. p = [i \in 1..m |-> v[i]] /\ \A i \in 1..m : v[i] \in Int
    BY <2>1, <2>2
  <2> HIDE DEF p
  <2>4. p \in Seq(Int) /\ Len(p) = m /\ \A i \in 1..m : p[i] = v[i]
    BY <2>3
  <2> QED
    BY <2>2, <2>4
<1> HIDE DEF p
<1>5. \A i \in 1..n : Begins(from, ns, i) = Begins(from, ms, i)
  <2>1. \A i \in 1..(n - 1) : ns[i] = ms[i]
    BY <1>1, <1>2
  <2> QED
    BY <1>1, <2>1, BeginsFromPrefix
<1>6. \A i \in 1..(n - 1) : w[i] = v[i]
  BY <1>1, <1>2, <1>3, <1>5
<1>7. Total(v) = Total(p) + v[n]
  BY <1>1, <1>3, <1>4, TotalGrows
<1>8. Total(w) = Total(p) + w[n]
  <2>1. Len(w) = Len(p) + 1 /\ \A i \in 1..Len(p) : w[i] = p[i]
    BY <1>1, <1>3, <1>4, <1>6
  <2> QED
    BY <1>3, <1>4, <2>1, TotalGrows
<1>9. /\ v[n] = Share(Begins(from, ms, n), ms[n].freeze)
      /\ w[n] = Share(Begins(from, ms, n), k.freeze)
  BY <1>1, <1>2, <1>3, <1>5
<1>10. Total(p) \in Int /\ v[n] \in Int /\ w[n] \in Int
  BY <1>1, <1>3, <1>4, TotalType
<1>11. Total(w) = Total(v) + w[n] - v[n]
  BY <1>7, <1>8, <1>10
<1> QED
  BY <1>1, <1>2, <1>5, <1>9, <1>11 DEF v, w, ns, n

(* The total over all marks is that of the segments they close and, unless *)
(* the last mark is open, of the segment after it.                         *)
LEMMA AttributionTotal ==
  ASSUME NEW from \in Reading, NEW to \in Reading, NEW ms \in Seq(Mark), WellMarked(ms)
  PROVE  segmentedAttribution(from, to, ms)
             = Total(ClosedSegments(from, ms))
               + (IF OpenMark(ms) THEN 0 ELSE Share(Begins(from, ms, Len(ms) + 1), to))
<1> DEFINE n == Len(ms)
           v == ClosedSegments(from, ms)
           w == AddedShare(from, to, ms)
           last == IF OpenMark(ms) THEN 0 ELSE Share(Begins(from, ms, n + 1), to)
<1>1. n \in Nat /\ n + 1 \in 1..(n + 1) /\ \A i \in 1..n : i \in 1..(n + 1)
  OBVIOUS
<1>2. /\ v \in Seq(Int) /\ Len(v) = n
      /\ \A i \in 1..n : v[i] = Share(Begins(from, ms, i), ms[i].freeze)
  BY ClosedType
<1>3. \A i \in 1..(n + 1) : Share(Begins(from, ms, i), Ends(to, ms, i)) \in Int
  <2> SUFFICES ASSUME NEW i \in 1..(n + 1)
               PROVE  Share(Begins(from, ms, i), Ends(to, ms, i)) \in Int
    OBVIOUS
  <2>1. Begins(from, ms, i) \in Reading /\ Ends(to, ms, i) \in Reading
    BY BeginsType, EndsType
  <2> QED
    BY <2>1, ShareType
<1>4. w \in Seq(Int) /\ Len(w) = n + 1
  BY <1>1, <1>3 DEF Added, AddedShare
<1>5. \A i \in 1..(n + 1) :
          w[i] = IF \A j \in 1..(i - 1) : ms[j].resumed
                 THEN Share(Begins(from, ms, i), Ends(to, ms, i)) ELSE 0
  BY DEF Added, AddedShare
<1>6. \A j \in 1..n : j < n => ms[j].resumed
  BY DEF WellMarked
<1>7. ASSUME NEW i \in 1..n PROVE w[i] = v[i]
  <2>1. \A j \in 1..(i - 1) : ms[j].resumed
    BY <1>1, <1>6
  <2>2. Ends(to, ms, i) = ms[i].freeze
    BY <1>1 DEF Ends
  <2> HIDE DEF w, v, n
  <2>3. w[i] = Share(Begins(from, ms, i), Ends(to, ms, i))
    BY <1>1, <1>5, <2>1
  <2> QED
    BY <1>2, <2>2, <2>3
<1>8. w[n + 1] = last
  <2>1. (\A j \in 1..n : ms[j].resumed) <=> ~OpenMark(ms)
    BY <1>1, <1>6 DEF OpenMark
  <2>2. Ends(to, ms, n + 1) = to
    BY <1>1 DEF Ends
  <2>3. (n + 1) - 1 = n
    BY <1>1
  <2>4. w[n + 1] = IF \A j \in 1..n : ms[j].resumed
                   THEN Share(Begins(from, ms, n + 1), to) ELSE 0
    BY <1>1, <1>5, <2>2, <2>3
  <2> QED
    BY <2>1, <2>4
<1> HIDE DEF v, w, last
<1>9. Total(w) = Total(v) + last
  BY <1>2, <1>4, <1>7, <1>8, TotalGrows
<1> QED
  BY <1>9 DEF segmentedAttribution, AddedShare, v, w, last

(* closeAt adds to the meter what noteFreeze adds to the marks.            *)
LEMMA CloseHolds ==
  ASSUME NEW m \in Meter, NEW ms \in Seq(Mark), NEW r \in Reading, NEW x \in Reading,
         ~m.frozen, InStep(m, ms, r), HoldsTotal(m, ms, r)
  PROVE  HoldsTotal(closeAt(m, x), noteFreeze(ms, x), r)
<1> DEFINE k == MarkOf(x, FALSE, Zero)
           ns == Append(ms, k)
           uj == Share(m.seg, x)
<1>1. k \in Mark /\ k.freeze = x
  BY ZeroIsReading DEF MarkOf, Mark
<1>2. noteFreeze(ms, x) = ns
  BY DEF noteFreeze
<1> HIDE DEF k
<1>3. m.seg = Begins(r, ms, Len(ms) + 1) /\ m.closed = Total(ClosedSegments(r, ms))
  BY DEF InStep, HoldsTotal
<1>4. /\ Total(ClosedSegments(r, ns)) = m.closed + uj
      /\ Begins(r, ns, Len(ms) + 1) = m.seg
  BY <1>1, <1>3, ClosedAppend
<1>5. Len(ns) = Len(ms) + 1
  BY <1>1
<1> HIDE DEF ns
<1>6. /\ closeAt(m, x).closed = m.closed + uj /\ closeAt(m, x).lastSeg = m.seg
      /\ closeAt(m, x).lastUJ = uj /\ closeAt(m, x).frozenAt = x
  BY DEF closeAt
<1> QED
  BY <1>2, <1>4, <1>5, <1>6 DEF HoldsTotal

(* Refining replaces the same segment in the meter and in the marks.       *)
LEMMA RefineHolds ==
  ASSUME NEW m \in Meter, NEW ms \in Seq(Mark), NEW r \in Reading, NEW c \in 0..MaxCPU,
         m.frozen, InStep(m, ms, r), HoldsTotal(m, ms, r)
  PROVE  HoldsTotal(refineFrozenCPU(m, c), refineFreezeCPU(ms, c), r)
<1>1. /\ OpenMark(ms) /\ ms # <<>> /\ ms[Len(ms)].freeze = m.frozenAt
      /\ m.lastSeg = Begins(r, ms, Len(ms)) /\ m.lastUJ = Share(m.lastSeg, m.frozenAt)
      /\ m.closed = Total(ClosedSegments(r, ms))
  BY DEF InStep, HoldsTotal, OpenMark
<1>2. CASE c > m.frozenAt.c
  <2> DEFINE x == WithCPU(m.frozenAt, c)
             k == MarkOf(x, FALSE, Zero)
             ns == LastAs(ms, k)
             uj == Share(m.lastSeg, x)
  <2>1. x \in Reading /\ m.lastSeg \in Reading /\ m.closed \in Int /\ m.lastUJ \in Nat
    BY WithCPUType DEF Meter
  <2>2. k \in Mark /\ k.freeze = x
    BY <2>1, ZeroIsReading DEF MarkOf, Mark
  <2>3. refineFreezeCPU(ms, c) = ns
    BY <1>1, <1>2 DEF refineFreezeCPU
  <2>4. /\ refineFrozenCPU(m, c).closed = m.closed + uj - m.lastUJ
        /\ refineFrozenCPU(m, c).lastSeg = m.lastSeg
        /\ refineFrozenCPU(m, c).lastUJ = uj /\ refineFrozenCPU(m, c).frozenAt = x
    BY <1>2 DEF refineFrozenCPU
  <2> HIDE DEF k, x
  <2>5. /\ Total(ClosedSegments(r, ns)) = m.closed + uj - m.lastUJ
        /\ Begins(r, ns, Len(ms)) = m.lastSeg /\ Len(ns) = Len(ms)
    BY <1>1, <2>2, ClosedReplaced
  <2> HIDE DEF ns
  <2> QED
    BY <2>3, <2>4, <2>5 DEF HoldsTotal
<1>3. CASE ~(c > m.frozenAt.c)
  <2>1. refineFrozenCPU(m, c) = m /\ refineFreezeCPU(ms, c) = ms
    BY <1>1, <1>3 DEF refineFrozenCPU, refineFreezeCPU
  <2> QED
    BY <2>1
<1> QED
  BY <1>2, <1>3

(* Opening the next segment leaves the closed ones as they are.            *)
LEMMA ResumeHolds ==
  ASSUME NEW m \in Meter, NEW ms \in Seq(Mark), NEW r \in Reading, NEW x \in Reading,
         m.frozen, InStep(m, ms, r), HoldsTotal(m, ms, r)
  PROVE  HoldsTotal(openAt(m, x), noteResume(ms, x), r)
<1> DEFINE k == MarkOf(ms[Len(ms)].freeze, TRUE, x)
           ns == LastAs(ms, k)
           uj == Share(Begins(r, ms, Len(ms)), ms[Len(ms)].freeze)
<1>1. /\ OpenMark(ms) /\ ms # <<>> /\ ms[Len(ms)] \in Mark
      /\ m.closed = Total(ClosedSegments(r, ms)) /\ m.closed \in Int
      /\ Len(ms) \in 1..Len(ms)
  BY DEF InStep, HoldsTotal, OpenMark, Meter
<1>2. k \in Mark /\ k.freeze = ms[Len(ms)].freeze
  BY <1>1 DEF MarkOf, Mark
<1>3. noteResume(ms, x) = ns
  BY <1>1 DEF noteResume
<1> HIDE DEF k
<1>4. uj \in Int
  BY <1>1, ClosedType
<1>5. Total(ClosedSegments(r, ns)) = m.closed + uj - uj
  BY <1>1, <1>2, ClosedReplaced
<1>6. Total(ClosedSegments(r, ns)) = m.closed
  BY <1>1, <1>4, <1>5
<1>7. openAt(m, x).closed = m.closed /\ openAt(m, x).frozen = FALSE
  BY DEF openAt
<1> HIDE DEF ns
<1> QED
  BY <1>3, <1>6, <1>7 DEF HoldsTotal

(* What a step of one activation has to show.                              *)
LEMMA OneTotalled ==
  ASSUME MarksInv, NEW a \in Activations, NEW p \in Phases,
         \A b \in Activations : b # a => at[b] \in {"new", "over"},
         at' = [at EXCEPT ![a] = p],
         p \in MeteringPhases => HoldsTotal(meter'[a], marks', metered'[a])
  PROVE  Totalled'
<1>1. at \in [Activations -> Phases]
  BY DEF MarksInv, MarksType
<1>2. at'[a] = p /\ \A b \in Activations : b # a => at'[b] \in {"new", "over"}
  BY <1>1
<1> SUFFICES ASSUME NEW b \in Activations, at'[b] \in MeteringPhases
             PROVE  HoldsTotal(meter'[b], marks', metered'[b])
  BY DEF Totalled
<1>3. b = a
  BY <1>2 DEF MeteringPhases
<1> QED
  BY <1>2, <1>3

(* The meter starts empty, and so do the marks.                            *)
LEMMA MonitorStartsTotalled ==
  ASSUME MarksInv, NEW a \in Activations, MonitorStarts(a)
  PROVE  Totalled'
<1>1. a \in Active /\ at' = [at EXCEPT ![a] = "run"] /\ "run" \in Phases
  BY DEF MonitorStarts, Active, Goes, Phases
<1>2. marks' = <<>>
  BY DEF MonitorStarts, MarksInv, Between
<1>3. meter'[a] = newStepMeter(Now)
  BY DEF MonitorStarts, MarksInv, MarksType
<1>4. ClosedSegments(metered'[a], <<>>) = <<>>
  BY DEF ClosedSegments
<1>5. HoldsTotal(meter'[a], marks', metered'[a])
  BY <1>2, <1>3, <1>4, TotalEmpty DEF HoldsTotal, newStepMeter
<1> QED
  BY <1>1, <1>5, OthersIdle, OneTotalled

(* The three steps that move the meter and the marks.                      *)
LEMMA MeterMovesTotalled ==
  ASSUME MarksInv, Totalled, NEW a \in Activations,
         closeSegmentAtFreeze(a) \/ refineFrozenSegment(a) \/ openSegmentAtResume(a)
  PROVE  Totalled'
<1>1. /\ a \in Active /\ at[a] \in MeteringPhases /\ metered' = metered
      /\ meter \in [Activations -> Meter] /\ meter[a] \in Meter
      /\ marks \in Seq(Mark) /\ metered[a] \in Reading
  BY DEF closeSegmentAtFreeze, refineFrozenSegment, openSegmentAtResume, Active,
         MeteringPhases, MarksInv, MarksType
<1>2. \E p \in Phases : at' = [at EXCEPT ![a] = p]
  BY DEF closeSegmentAtFreeze, refineFrozenSegment, openSegmentAtResume, Goes, Phases
<1>3. /\ InStep(meter[a], marks, metered[a])
      /\ HoldsTotal(meter[a], marks, metered[a])
  BY <1>1 DEF MarksInv, Follows, Totalled
<1>4. Now \in Reading /\ Now.c \in 0..MaxCPU
  BY NowIsReading DEF MarksInv, Reading
<1>5. HoldsTotal(meter'[a], marks', metered[a])
  <2>1. CASE UNCHANGED <<meter, marks>>
    BY <1>3, <2>1
  <2>2. CASE /\ at[a] = "freezing"
             /\ meter' = [meter EXCEPT ![a] = closeAt(@, Now)]
             /\ marks' = noteFreeze(marks, Now)
    <3>1. ~meter[a].frozen
      BY <2>2 DEF MarksInv, Between
    <3>2. meter'[a] = closeAt(meter[a], Now)
      BY <1>1, <2>2
    <3> QED
      BY <1>1, <1>3, <1>4, <2>2, <3>1, <3>2, CloseHolds
  <2>3. CASE /\ meter[a].frozen
             /\ meter' = [meter EXCEPT ![a] = refineFrozenCPU(@, Now.c)]
             /\ marks' = refineFreezeCPU(marks, Now.c)
    <3>1. meter'[a] = refineFrozenCPU(meter[a], Now.c)
      BY <1>1, <2>3
    <3> QED
      BY <1>1, <1>3, <1>4, <2>3, <3>1, RefineHolds
  <2>4. CASE openSegmentAtResume(a) /\ meter[a].frozen
    <3>1. PICK e \in {energy, meter[a].frozenAt.e} :
              LET r == [e |-> e, c |-> ResumeCPU(meter[a])]
              IN /\ meter' = [meter EXCEPT ![a] = openAt(@, r)]
                 /\ marks' = noteResume(marks, r)
      BY <2>4 DEF openSegmentAtResume
    <3> DEFINE r == [e |-> e, c |-> ResumeCPU(meter[a])]
    <3>2. r \in Reading
      BY <1>1 DEF ResumeCPU, Reading, Meter, MarksInv, MarksType
    <3>3. meter'[a] = openAt(meter[a], r) /\ marks' = noteResume(marks, r)
      BY <1>1, <3>1
    <3> HIDE DEF r
    <3> QED
      BY <1>1, <1>3, <2>4, <3>2, <3>3, ResumeHolds
  <2> QED
    BY <2>1, <2>2, <2>3, <2>4
    DEF closeSegmentAtFreeze, refineFrozenSegment, openSegmentAtResume
<1> QED
  BY <1>1, <1>2, <1>5, OthersIdle, OneTotalled

(* The steps that leave meters and marks alone.                            *)
LEMMA QuietTotalled ==
  ASSUME MarksInv, Totalled, NEW a \in Activations,
         Freezes(a) \/ Resumes(a) \/ ResumeFails(a) \/ Kills(a)
             \/ KillsUnpaused(a) \/ Answers(a) \/ recordMetrics(a)
  PROVE  Totalled'
<1>1. PICK p \in Phases :
          /\ at' = [at EXCEPT ![a] = p]
          /\ p \in MeteringPhases => at[a] \in MeteringPhases
  BY DEF Freezes, Resumes, ResumeFails, Kills, KillsUnpaused, Answers,
         recordMetrics, Goes, Phases, MeteringPhases
<1>2. UNCHANGED <<meter, marks, metered>> /\ a \in Active
  BY DEF Freezes, Resumes, ResumeFails, Kills, KillsUnpaused, Answers,
         recordMetrics, Active
<1>3. p \in MeteringPhases => HoldsTotal(meter'[a], marks', metered'[a])
  BY <1>1, <1>2 DEF Totalled
<1> QED
  BY <1>1, <1>2, <1>3, OthersIdle, OneTotalled

LEMMA TotalledStep ==
  ASSUME MarksInv, Totalled, Concurrency = 1, [Next]_vars
  PROVE  Totalled'
<1>1. CASE Environment \/ UNCHANGED vars
  <2>1. UNCHANGED <<at, meter, marks, metered>>
    BY <1>1 DEF Environment, NodeWorks, ActionRuns, KernelCounts, vars
  <2> QED
    BY <2>1 DEF Totalled
<1>2. ASSUME NEW a \in Activations, InteractStarts(a)
      PROVE  Totalled'
  <2>1. /\ at' = [at EXCEPT ![a] = "called"] /\ "called" \in Phases
        /\ "called" \notin MeteringPhases
    BY <1>2 DEF InteractStarts, Goes, Phases, MeteringPhases
  <2> QED
    BY <1>2, <2>1, StartsAlone, OneTotalled
<1> QED
  BY <1>1, <1>2, MonitorStartsTotalled, MeterMovesTotalled, QuietTotalled
  DEF Next, Step, Cycle

(* Meter and marks then give the same energy at every reading.             *)
LEMMA TotalledMeans ==
  ASSUME MarksInv, Totalled
  PROVE  MeterMatchesMarks
<1> SUFFICES ASSUME NEW a \in Activations, Metering(a)
             PROVE  stepUJ(meter[a], Now) = segmentedAttribution(metered[a], Now, marks)
  BY DEF MeterMatchesMarks
<1>1. at[a] \in MeteringPhases
  BY DEF Metering, MeteringPhases
<1>2. InStep(meter[a], marks, metered[a]) /\ HoldsTotal(meter[a], marks, metered[a])
  BY <1>1 DEF MarksInv, Follows, Totalled
<1>3. /\ Now \in Reading /\ metered[a] \in Reading /\ marks \in Seq(Mark)
      /\ WellMarked(marks) /\ meter[a].closed \in Int
  BY NowIsReading DEF MarksInv, MarksType, Meter
<1>4. segmentedAttribution(metered[a], Now, marks)
        = Total(ClosedSegments(metered[a], marks))
          + (IF OpenMark(marks) THEN 0
             ELSE Share(Begins(metered[a], marks, Len(marks) + 1), Now))
  BY <1>3, AttributionTotal
<1>5. CASE meter[a].frozen
  BY <1>2, <1>3, <1>4, <1>5 DEF InStep, HoldsTotal, stepUJ
<1>6. CASE ~meter[a].frozen
  BY <1>2, <1>3, <1>4, <1>6 DEF InStep, HoldsTotal, stepUJ
<1> QED
  BY <1>5, <1>6

(* With one activation at a time, what the monitor compares with the       *)
(* threshold is at every instant what segmentedAttribution makes of the    *)
(* marks, whatever the attribution of a segment, the number of pauses, the *)
(* refinements and the readings that failed.                               *)
THEOREM MeterAgreesWithMarks ==
  ASSUME Concurrency = 1
  PROVE  Spec => []MeterMatchesMarks
<1>1. Init => MarksInv /\ Totalled
  <2> SUFFICES ASSUME Init PROVE MarksInv /\ Totalled
    OBVIOUS
  <2>1. Totalled
    BY DEF Init, Totalled, MeteringPhases
  <2> QED
    BY <2>1, MarksInvInit
<1>2. MarksInv /\ Totalled /\ [Next]_vars => MarksInv' /\ Totalled'
  BY MarksInvStep, TotalledStep
<1>3. MarksInv /\ Totalled => MeterMatchesMarks
  BY TotalledMeans
<1> QED
  BY <1>1, <1>2, <1>3, PTL DEF Spec

----------------------------------------------------------------------------
(* The CPU time of a step that answered falls in its segments, once.       *)

(* The CPU times of the start, of the freezes in turn and of now rise.     *)
Rising(from, ms, to) ==
    /\ from.c <= to.c
    /\ \A i \in 1..Len(ms) : from.c <= ms[i].freeze.c /\ ms[i].freeze.c <= to.c
    /\ \A i, j \in 1..Len(ms) : i < j => ms[i].freeze.c <= ms[j].freeze.c

(* A step under way has rising readings; one that answered has no segment  *)
(* that a freeze left open; what was reported of one counts it once.       *)
Counted ==
    /\ \A a \in Active : Rising(begun[a], marks, Now)
    /\ \A a \in Activations : at[a] = "ended" => ~OpenMark(marks)
    /\ CPUCountedOnce

CPUInv == STypeOK /\ MarksInv /\ Counted

LEMMA CPUIsNumber ==
  ASSUME NEW r \in Reading
  PROVE  r.c \in Int
  BY SegmentMeterAssumption DEF SegmentMeterAssumption, Reading

LEMMA FreezeIsReading ==
  ASSUME NEW ms \in Seq(Mark), NEW i \in 1..Len(ms)
  PROVE  ms[i].freeze \in Reading
<1>1. ms[i] \in Mark
  OBVIOUS
<1> QED
  BY <1>1 DEF Mark

LEMMA RisingLater ==
  ASSUME NEW from \in Reading, NEW ms \in Seq(Mark), NEW to \in Reading,
         NEW next \in Reading, to.c <= next.c, Rising(from, ms, to)
  PROVE  Rising(from, ms, next)
<1>1. from.c \in Int /\ to.c \in Int /\ next.c \in Int
  BY CPUIsNumber
<1>2. ASSUME NEW i \in 1..Len(ms) PROVE ms[i].freeze.c <= next.c
  <2>1. ms[i].freeze.c \in Int /\ ms[i].freeze.c <= to.c
    BY FreezeIsReading, CPUIsNumber DEF Rising
  <2> QED
    BY <1>1, <2>1
<1>3. from.c <= next.c
  BY <1>1 DEF Rising
<1> QED
  BY <1>2, <1>3 DEF Rising

(* A mark made now rises above those before it.                            *)
LEMMA RisingFreeze ==
  ASSUME NEW from \in Reading, NEW ms \in Seq(Mark), NEW to \in Reading,
         Rising(from, ms, to)
  PROVE  Rising(from, noteFreeze(ms, to), to)
<1> DEFINE k == MarkOf(to, FALSE, Zero)
           ns == Append(ms, k)
<1>1. k \in Mark /\ k.freeze = to
  BY ZeroIsReading DEF MarkOf, Mark
<1>2. noteFreeze(ms, to) = ns
  BY DEF noteFreeze
<1> HIDE DEF k
<1>3. /\ Len(ns) = Len(ms) + 1 /\ Len(ms) \in Nat /\ ns[Len(ns)] = k
      /\ \A i \in 1..Len(ms) : ns[i] = ms[i]
  BY <1>1
<1> HIDE DEF ns
<1>4. from.c \in Int /\ to.c \in Int /\ from.c <= to.c
  BY CPUIsNumber DEF Rising
<1>5. ASSUME NEW i \in 1..Len(ns)
      PROVE  from.c <= ns[i].freeze.c /\ ns[i].freeze.c <= to.c
  <2>1. CASE i = Len(ns)
    BY <1>1, <1>3, <1>4, <2>1
  <2>2. CASE i # Len(ns)
    <3>1. i \in 1..Len(ms) /\ ns[i] = ms[i]
      BY <1>3, <2>2
    <3> QED
      BY <3>1 DEF Rising
  <2> QED
    BY <2>1, <2>2
<1>6. ASSUME NEW i \in 1..Len(ns), NEW j \in 1..Len(ns), i < j
      PROVE  ns[i].freeze.c <= ns[j].freeze.c
  <2>1. CASE j = Len(ns)
    BY <1>1, <1>3, <1>5, <2>1
  <2>2. CASE j # Len(ns)
    <3>1. i \in 1..Len(ms) /\ ns[i] = ms[i] /\ j \in 1..Len(ms) /\ ns[j] = ms[j]
      BY <1>3, <1>6, <2>2
    <3> QED
      BY <1>6, <3>1 DEF Rising
  <2> QED
    BY <2>1, <2>2
<1> QED
  BY <1>2, <1>4, <1>5, <1>6 DEF Rising

(* So does the last one when it is refined or resumed.                     *)
LEMMA RisingReplaced ==
  ASSUME NEW from \in Reading, NEW ms \in Seq(Mark), ms # <<>>, NEW to \in Reading,
         Rising(from, ms, to), NEW k \in Mark,
         ms[Len(ms)].freeze.c <= k.freeze.c, k.freeze.c <= to.c
  PROVE  Rising(from, LastAs(ms, k), to)
<1> DEFINE ns == LastAs(ms, k)
           n == Len(ms)
<1>1. /\ Len(ns) = n /\ ns[n] = k /\ \A i \in 1..n : i # n => ns[i] = ms[i]
  BY LastAsIs
<1>2. n \in 1..n
  OBVIOUS
<1>3. \A i \in 1..n : ms[i].freeze.c \in Int
  BY FreezeIsReading, CPUIsNumber
<1>4. from.c \in Int /\ to.c \in Int /\ from.c <= to.c /\ k.freeze.c \in Int
  BY CPUIsNumber DEF Rising, Mark
<1>5. /\ \A i \in 1..n : from.c <= ms[i].freeze.c /\ ms[i].freeze.c <= to.c
      /\ \A i, j \in 1..n : i < j => ms[i].freeze.c <= ms[j].freeze.c
  BY DEF Rising
<1>6. ms[n].freeze.c <= k.freeze.c
  OBVIOUS
<1> HIDE DEF ns, n
<1>7. ASSUME NEW i \in 1..n
      PROVE  from.c <= ns[i].freeze.c /\ ns[i].freeze.c <= to.c
  <2>1. CASE i = n
    <3>1. from.c <= ms[n].freeze.c /\ ms[n].freeze.c \in Int
      BY <1>2, <1>3, <1>5
    <3>2. from.c <= k.freeze.c
      BY <1>4, <1>6, <3>1
    <3> QED
      BY <1>1, <2>1, <3>2
  <2>2. CASE i # n
    BY <1>1, <1>5, <2>2
  <2> QED
    BY <2>1, <2>2
<1>8. ASSUME NEW i \in 1..n, NEW j \in 1..n, i < j
      PROVE  ns[i].freeze.c <= ns[j].freeze.c
  <2>0. i # n
    BY <1>2, <1>8
  <2>1. CASE j = n
    <3>1. ms[i].freeze.c <= ms[n].freeze.c /\ ms[i].freeze.c \in Int
          /\ ms[n].freeze.c \in Int
      BY <1>2, <1>3, <1>5, <1>8, <2>1
    <3>2. ms[i].freeze.c <= k.freeze.c
      BY <1>4, <1>6, <3>1
    <3> QED
      BY <1>1, <2>0, <2>1, <3>2
  <2>2. CASE j # n
    <3>1. ns[i] = ms[i] /\ ns[j] = ms[j]
      BY <1>1, <2>0, <2>2
    <3> QED
      BY <1>5, <1>8, <3>1
  <2> QED
    BY <2>1, <2>2
<1> QED
  BY <1>1, <1>4, <1>7, <1>8 DEF Rising, ns, n

(* A segment whose readings rise is counted whole, as attributed CPU time  *)
(* or as that of an energy counter that stood still.                       *)
LEMMA SegmentWhole ==
  ASSUME NEW r \in Reading, NEW s \in Reading, r.c <= s.c
  PROVE  DeltaProcess(r, s) + Unattributed(r, s) = s.c - r.c
<1>1. r.c \in Int /\ s.c \in Int
  BY CPUIsNumber
<1> QED
  BY <1>1 DEF DeltaProcess, Unattributed

(* The segments of rising readings adjoin, so their CPU times add up to    *)
(* the one from the start to the end.                                      *)
LEMMA WholeStepCounted ==
  ASSUME NEW from \in Reading, NEW to \in Reading, NEW ms \in Seq(Mark),
         WellMarked(ms), ~OpenMark(ms), Rising(from, ms, to)
  PROVE  segmentedCPU(from, to, ms) + StillCPU(from, to, ms) = to.c - from.c
<1> DEFINE n == Len(ms)
           v == AddedCPU(from, to, ms)
           w == AddedStill(from, to, ms)
           h == [i \in 0..(n + 1) |-> IF i = 0 THEN from.c ELSE Ends(to, ms, i).c]
<1>1. /\ v \in Seq(Int) /\ w \in Seq(Int) /\ Len(v) = n + 1 /\ Len(w) = n + 1
      /\ n \in Nat
  BY AddedCPUType
<1>2. \A j \in 1..n : ms[j].resumed /\ ms[j].resume.c = ms[j].freeze.c
  <2> SUFFICES ASSUME NEW j \in 1..n
               PROVE  ms[j].resumed /\ ms[j].resume.c = ms[j].freeze.c
    OBVIOUS
  <2>1. CASE j < n
    BY <2>1 DEF WellMarked
  <2>2. CASE ~(j < n)
    <3>1. j = n /\ ms # <<>>
      BY <2>2
    <3> QED
      BY <3>1 DEF WellMarked, OpenMark
  <2> QED
    BY <2>1, <2>2
<1>3. ASSUME NEW i \in 1..(n + 1)
      PROVE  /\ v[i] = DeltaProcess(Begins(from, ms, i), Ends(to, ms, i))
             /\ w[i] = Unattributed(Begins(from, ms, i), Ends(to, ms, i))
  <2>1. \A j \in 1..(i - 1) : ms[j].resumed
    BY <1>1, <1>2
  <2> QED
    BY <2>1 DEF Added, AddedCPU, AddedStill
<1>4. ASSUME NEW i \in 0..(n + 1) PROVE h[i] \in Int
  <2>1. CASE i = 0
    BY <2>1, CPUIsNumber
  <2>2. CASE i # 0
    <3>1. i \in 1..(n + 1)
      BY <1>1, <2>2
    <3>2. Ends(to, ms, i) \in Reading
      BY <3>1, EndsType
    <3> QED
      BY <2>2, <3>2, CPUIsNumber
  <2> QED
    BY <2>1, <2>2
<1>5. ASSUME NEW i \in 0..n
      PROVE  /\ h[i] = Begins(from, ms, i + 1).c
             /\ h[i + 1] = Ends(to, ms, i + 1).c
             /\ h[i] <= h[i + 1]
  <2>1. i + 1 \in 0..(n + 1) /\ i + 1 # 0 /\ i \in 0..(n + 1) /\ (i + 1) - 1 = i
    BY <1>1
  <2>2. h[i + 1] = Ends(to, ms, i + 1).c
    BY <2>1
  <2>3. CASE i = 0
    <3>1. h[i] = from.c /\ Begins(from, ms, i + 1) = from
      BY <2>1, <2>3 DEF Begins
    <3>2. from.c <= Ends(to, ms, i + 1).c
      <4>1. CASE n = 0
        BY <2>3, <4>1 DEF Ends, Rising
      <4>2. CASE n # 0
        <5>1. 1 \in 1..n /\ ~(1 > n)
          BY <1>1, <4>2
        <5>2. Ends(to, ms, 1) = ms[1].freeze
          BY <5>1 DEF Ends
        <5> QED
          BY <2>3, <5>1, <5>2 DEF Rising
      <4> QED
        BY <4>1, <4>2
    <3> QED
      BY <2>2, <3>1, <3>2
  <2>4. CASE i # 0
    <3>1. i \in 1..n /\ ~(i > n) /\ i + 1 # 1
      BY <1>1, <2>4
    <3>2. h[i] = ms[i].freeze.c
      BY <2>1, <2>4, <3>1 DEF Ends
    <3>3. Begins(from, ms, i + 1) = ms[i].resume
      BY <2>1, <3>1 DEF Begins
    <3>4. ms[i].freeze.c <= Ends(to, ms, i + 1).c
      <4>1. CASE i = n
        <5>1. Ends(to, ms, i + 1) = to
          BY <1>1, <4>1 DEF Ends
        <5> QED
          BY <3>1, <5>1 DEF Rising
      <4>2. CASE i # n
        <5>1. i + 1 \in 1..n /\ i < i + 1 /\ ~(i + 1 > n)
          BY <1>1, <3>1, <4>2
        <5>2. Ends(to, ms, i + 1) = ms[i + 1].freeze
          BY <5>1 DEF Ends
        <5> QED
          BY <3>1, <5>1, <5>2 DEF Rising
      <4> QED
        BY <4>1, <4>2
    <3> QED
      BY <1>2, <2>2, <3>1, <3>2, <3>3, <3>4
  <2> QED
    BY <2>3, <2>4
<1> HIDE DEF h, v, w
<1>6. ASSUME NEW i \in 0..n PROVE v[i + 1] + w[i + 1] = h[i + 1] - h[i]
  <2> DEFINE r == Begins(from, ms, i + 1)
             s == Ends(to, ms, i + 1)
  <2>1. i + 1 \in 1..(n + 1)
    BY <1>1
  <2>2. r \in Reading /\ s \in Reading
    BY <2>1, BeginsType, EndsType
  <2>3. h[i] = r.c /\ h[i + 1] = s.c /\ r.c <= s.c
    BY <1>5
  <2>4. v[i + 1] = DeltaProcess(r, s) /\ w[i + 1] = Unattributed(r, s)
    BY <1>3, <2>1
  <2> HIDE DEF r, s
  <2>5. DeltaProcess(r, s) + Unattributed(r, s) = s.c - r.c
    BY <2>2, <2>3, SegmentWhole
  <2> QED
    BY <2>3, <2>4, <2>5, Zenon
<1> HIDE DEF n
<1>7. (n + 1) - 1 = n
  BY <1>1
<1>8. Telescopes(v, w, h)
  BY <1>1, <1>4, <1>6, <1>7, Zenon DEF Telescopes
<1>9. Total(v) + Total(w) = h[n + 1] - h[0]
  BY <1>1, <1>8, TotalsTelescope
<1>10. h[0] = from.c /\ h[n + 1] = to.c
  <2>1. 0 \in 0..(n + 1) /\ n + 1 \in 0..(n + 1) /\ n + 1 # 0 /\ n + 1 > n
    BY <1>1
  <2> QED
    BY <2>1 DEF h, Ends, n
<1> QED
  BY <1>9, <1>10, Zenon
  DEF segmentedCPU, StillCPU, AddedCPU, AddedStill, v, w

LEMMA ShownCPU ==
  ASSUME NEW used \in 0..MaxCPU, NEW late \in 0..used
  PROVE  used - late \in 0..MaxCPU
  BY SegmentMeterAssumption DEF SegmentMeterAssumption

(* What the counter shows never goes back.                                 *)
LEMMA CounterRises ==
  ASSUME STypeOK, Environment
  PROVE  Now.c <= Now'.c
<1>1. cpu \in Int /\ lag \in Int /\ 0 <= lag
  BY SegmentMeterAssumption DEF STypeOK, SegmentMeterAssumption
<1>2. cpu - lag <= cpu' - lag'
  BY <1>1 DEF Environment, NodeWorks, ActionRuns, KernelCounts
<1> QED
  BY <1>2 DEF Now

LEMMA EnvironmentCounted ==
  ASSUME STypeOK, STypeOK', Counted, Environment
  PROVE  Counted'
<1>1. UNCHANGED <<marks, at, begun, final>>
  BY DEF Environment, NodeWorks, ActionRuns, KernelCounts
<1>2. Now \in Reading /\ Now' \in Reading
  <2>1. energy' \in 0..MaxEnergy /\ cpu' \in 0..MaxCPU /\ lag' \in 0..cpu'
    BY DEF STypeOK
  <2>2. Now' = [e |-> energy', c |-> cpu' - lag']
    BY DEF Now
  <2>3. cpu' - lag' \in 0..MaxCPU
    BY <2>1, ShownCPU, Zenon
  <2>4. Now' \in Reading
    BY <2>1, <2>2, <2>3 DEF Reading
  <2> QED
    BY <2>4, NowType
<1>3. ASSUME NEW a \in Active' PROVE Rising(begun'[a], marks', Now')
  <2>1. a \in Active /\ begun[a] \in Reading /\ marks \in Seq(Mark)
    BY <1>1, <1>3 DEF Active, STypeOK
  <2>2. Rising(begun[a], marks, Now)
    BY <2>1 DEF Counted
  <2>3. Rising(begun[a], marks, Now')
    BY <1>2, <2>1, <2>2, CounterRises, RisingLater
  <2> QED
    BY <1>1, <2>3
<1>4. \A a \in Activations : at'[a] = "ended" => ~OpenMark(marks')
  BY <1>1 DEF Counted
<1>5. CPUCountedOnce'
  BY <1>1 DEF Counted, CPUCountedOnce
<1> QED
  BY <1>3, <1>4, <1>5 DEF Counted

(* What a step of one activation has to show.                              *)
LEMMA OneCounted ==
  ASSUME STypeOK, Counted, NEW a \in Activations, NEW p \in Phases,
         \A b \in Activations : b # a => at[b] \in {"new", "over"},
         at' = [at EXCEPT ![a] = p],
         \A b \in Activations : b # a => begun'[b] = begun[b] /\ final'[b] = final[b],
         p \notin {"new", "over"} => Rising(begun'[a], marks', Now'),
         p = "ended" => ~OpenMark(marks'),
         p = "over" /\ ~final'[a].killed =>
             final'[a].cpu + final'[a].still = final'[a].upTo.c - begun'[a].c
  PROVE  Counted'
<1>1. at'[a] = p /\ \A b \in Activations : b # a => at'[b] = at[b]
  BY DEF STypeOK
<1>2. \A b \in Active' : Rising(begun'[b], marks', Now')
  BY <1>1 DEF Active
<1>3. \A b \in Activations : at'[b] = "ended" => ~OpenMark(marks')
  BY <1>1
<1>4. ASSUME NEW b \in Activations, at'[b] = "over" /\ ~final'[b].killed
      PROVE  final'[b].cpu + final'[b].still = final'[b].upTo.c - begun'[b].c
  <2>1. CASE b = a
    BY <1>1, <1>4, <2>1
  <2>2. CASE b # a
    <3>1. at[b] = "over" /\ begun'[b] = begun[b] /\ final'[b] = final[b]
      BY <1>1, <1>4, <2>2
    <3>2. final[b].cpu + final[b].still = final[b].upTo.c - begun[b].c
      BY <1>4, <3>1 DEF Counted, CPUCountedOnce
    <3> QED
      BY <3>1, <3>2
  <2> QED
    BY <2>1, <2>2
<1>5. CPUCountedOnce'
  BY <1>4 DEF CPUCountedOnce
<1> QED
  BY <1>2, <1>3, <1>5 DEF Counted

(* A step starts without marks, from the reading of now.                   *)
LEMMA InteractStartsCounted ==
  ASSUME STypeOK, Counted, Concurrency = 1, NEW a \in Activations, InteractStarts(a)
  PROVE  Counted'
<1>1. /\ at' = [at EXCEPT ![a] = "called"] /\ "called" \in Phases
      /\ marks' = <<>> /\ Now' = Now /\ final' = final
      /\ begun' = [begun EXCEPT ![a] = Now]
  BY DEF InteractStarts, Goes, Phases, MarksReset, nodeVars, Now
<1>2. begun'[a] = Now /\ \A b \in Activations : b # a => begun'[b] = begun[b]
  BY <1>1 DEF STypeOK
<1>3. Now.c \in Int
  BY NowType, CPUIsNumber
<1>4. Rising(begun'[a], marks', Now')
  BY <1>1, <1>2, <1>3 DEF Rising
<1> QED
  BY <1>1, <1>2, <1>4, StartsAlone, OneCounted

(* Every step of an activation under way but the last keeps its start; the *)
(* marks it makes or changes rise.                                         *)
LEMMA UnderWayCounted ==
  ASSUME STypeOK, MarksInv, Counted, NEW a \in Activations,
         MonitorStarts(a) \/ Cycle(a)
  PROVE  Counted'
<1>1. /\ a \in Active /\ UNCHANGED <<energy, cpu, lag, begun, final>>
  BY DEF MonitorStarts, Cycle, Freezes, closeSegmentAtFreeze, refineFrozenSegment,
         Resumes, ResumeFails, openSegmentAtResume, Kills, KillsUnpaused, nodeVars,
         Active
<1>2. PICK p \in Phases : at' = [at EXCEPT ![a] = p] /\ p \notin {"ended", "over"}
  BY DEF MonitorStarts, Cycle, Freezes, closeSegmentAtFreeze, refineFrozenSegment,
         Resumes, ResumeFails, openSegmentAtResume, Kills, KillsUnpaused, Goes,
         Phases
<1>3. /\ Now' = Now /\ Now \in Reading /\ Now.c \in 0..MaxCPU
      /\ begun[a] \in Reading /\ marks \in Seq(Mark) /\ meter[a] \in Meter
      /\ meter \in [Activations -> Meter]
  BY <1>1, NowType DEF Now, STypeOK
<1>4. Rising(begun[a], marks, Now)
  BY <1>1 DEF Counted
<1>5. Rising(begun[a], marks', Now)
  <2>1. CASE UNCHANGED marks
    BY <1>4, <2>1
  <2>2. CASE marks' = noteFreeze(marks, Now)
    BY <1>3, <1>4, <2>2, RisingFreeze
  <2>3. CASE marks' = refineFreezeCPU(marks, Now.c)
    <3>1. CASE OpenMark(marks) /\ Now.c > marks[Len(marks)].freeze.c
      <4> DEFINE x == WithCPU(marks[Len(marks)].freeze, Now.c)
                 k == MarkOf(x, FALSE, Zero)
      <4>1. marks # <<>> /\ Len(marks) \in 1..Len(marks)
        BY <1>3, <3>1 DEF OpenMark
      <4>2. marks[Len(marks)].freeze \in Reading
        BY <1>3, <4>1, FreezeIsReading
      <4>3. x \in Reading /\ x.c = Now.c
        BY <1>3, <4>2, WithCPUType DEF WithCPU
      <4>4. k \in Mark /\ k.freeze = x
        BY <4>3, ZeroIsReading DEF MarkOf, Mark
      <4>5. marks' = LastAs(marks, k)
        BY <2>3, <3>1 DEF refineFreezeCPU
      <4> HIDE DEF k, x
      <4>6. marks[Len(marks)].freeze.c <= k.freeze.c /\ k.freeze.c <= Now.c
        <5>1. marks[Len(marks)].freeze.c \in Int /\ Now.c \in Int
          BY <1>3, <4>2, CPUIsNumber
        <5> QED
          BY <3>1, <4>3, <4>4, <5>1
      <4> QED
        BY <1>3, <1>4, <4>1, <4>4, <4>5, <4>6, RisingReplaced
    <3>2. CASE ~(OpenMark(marks) /\ Now.c > marks[Len(marks)].freeze.c)
      BY <1>4, <2>3, <3>2 DEF refineFreezeCPU
    <3> QED
      BY <3>1, <3>2
  <2>4. CASE \E r \in Reading : marks' = noteResume(marks, r)
    <3>1. PICK r \in Reading : marks' = noteResume(marks, r)
      BY <2>4
    <3>2. CASE OpenMark(marks)
      <4> DEFINE k == MarkOf(marks[Len(marks)].freeze, TRUE, r)
      <4>1. marks # <<>> /\ Len(marks) \in 1..Len(marks)
        BY <1>3, <3>2 DEF OpenMark
      <4>2. marks[Len(marks)].freeze \in Reading
        BY <1>3, <4>1, FreezeIsReading
      <4>3. k \in Mark /\ k.freeze = marks[Len(marks)].freeze
        BY <4>2 DEF MarkOf, Mark
      <4>4. marks' = LastAs(marks, k)
        BY <3>1, <3>2 DEF noteResume
      <4> HIDE DEF k
      <4>5. marks[Len(marks)].freeze.c <= k.freeze.c /\ k.freeze.c <= Now.c
        <5>1. marks[Len(marks)].freeze.c \in Int
          BY <4>2, CPUIsNumber
        <5>2. marks[Len(marks)].freeze.c <= Now.c
          BY <1>4, <4>1 DEF Rising
        <5> QED
          BY <4>3, <5>1, <5>2
      <4> QED
        BY <1>3, <1>4, <4>1, <4>3, <4>4, <4>5, RisingReplaced
    <3>3. CASE ~OpenMark(marks)
      BY <1>4, <3>1, <3>3 DEF noteResume
    <3> QED
      BY <3>2, <3>3
  <2>5. ASSUME openSegmentAtResume(a)
        PROVE  UNCHANGED marks \/ \E r \in Reading : marks' = noteResume(marks, r)
    <3>1. CASE meter[a].frozen
      <4>1. PICK e \in {energy, meter[a].frozenAt.e} :
                marks' = noteResume(marks, [e |-> e, c |-> ResumeCPU(meter[a])])
        BY <2>5, <3>1 DEF openSegmentAtResume
      <4>2. [e |-> e, c |-> ResumeCPU(meter[a])] \in Reading
        BY <1>3 DEF ResumeCPU, Reading, Meter, STypeOK
      <4> QED
        BY <4>1, <4>2
    <3>2. CASE ~meter[a].frozen
      BY <2>5, <3>2 DEF openSegmentAtResume
    <3> QED
      BY <3>1, <3>2
  <2> QED
    BY <2>1, <2>2, <2>3, <2>4, <2>5
    DEF MonitorStarts, Cycle, Freezes, closeSegmentAtFreeze, refineFrozenSegment,
        Resumes, ResumeFails, Kills, KillsUnpaused
<1>6. \A b \in Activations : b # a => at[b] \in {"new", "over"}
  BY <1>1, OthersIdle
<1>7. /\ begun' = begun /\ final' = final
      /\ Rising(begun'[a], marks', Now') /\ p # "ended" /\ p # "over"
  BY <1>1, <1>2, <1>3, <1>5
<1> QED
  BY <1>2, <1>6, <1>7, OneCounted

(* The action answers only between two cycles: no segment is open.         *)
LEMMA AnswersCounted ==
  ASSUME STypeOK, MarksInv, Counted, NEW a \in Activations, Answers(a)
  PROVE  Counted'
<1>1. /\ a \in Active /\ at[a] \in {"called", "run"}
      /\ at' = [at EXCEPT ![a] = "ended"] /\ "ended" \in Phases
      /\ UNCHANGED <<marks, begun, final>> /\ Now' = Now
  BY DEF Answers, Active, Goes, Phases, nodeVars, Now
<1>2. ~OpenMark(marks')
  <2>1. CASE at[a] = "called"
    BY <1>1, <2>1 DEF MarksInv, Between, OpenMark
  <2>2. CASE at[a] = "run"
    <3>1. at[a] \in MeteringPhases /\ ~meter[a].frozen
      BY <2>2 DEF MeteringPhases, MarksInv, Between
    <3> QED
      BY <1>1, <3>1 DEF MarksInv, Follows, InStep
  <2> QED
    BY <1>1, <2>1, <2>2
<1>3. Rising(begun'[a], marks', Now')
  BY <1>1 DEF Counted
<1>4. \A b \in Activations : b # a => at[b] \in {"new", "over"}
  BY <1>1, OthersIdle
<1> QED
  BY <1>1, <1>2, <1>3, <1>4, OneCounted

(* What is reported of a step that answered is all of its CPU time.        *)
LEMMA RecordCounted ==
  ASSUME STypeOK, MarksInv, Counted, NEW a \in Activations, recordMetrics(a)
  PROVE  Counted'
<1> DEFINE f == [cpu |-> segmentedCPU(begun[a], Now, marks),
                 still |-> StillCPU(begun[a], Now, marks),
                 upTo |-> Now, killed |-> at[a] = "killed"]
<1>1. /\ a \in Active /\ at[a] \in {"ended", "killed"}
      /\ at' = [at EXCEPT ![a] = "over"] /\ "over" \in Phases
      /\ UNCHANGED <<marks, begun>> /\ final' = [final EXCEPT ![a] = f]
  BY DEF recordMetrics, Active, Goes, Phases
<1>2. final'[a] = f /\ \A b \in Activations : b # a => final'[b] = final[b]
  BY <1>1 DEF STypeOK
<1>3. ASSUME ~final'[a].killed
      PROVE  final'[a].cpu + final'[a].still = final'[a].upTo.c - begun'[a].c
  <2>1. at[a] = "ended"
    <3>1. f.killed = (at[a] = "killed")
      BY Zenon
    <3>2. ~(at[a] = "killed")
      BY <1>2, <1>3, <3>1, Zenon
    <3> QED
      BY <1>1, <3>2
  <2>2. ~OpenMark(marks) /\ Rising(begun[a], marks, Now) /\ WellMarked(marks)
    BY <1>1, <2>1 DEF Counted, MarksInv
  <2>3. begun[a] \in Reading /\ Now \in Reading /\ marks \in Seq(Mark)
    BY NowType DEF STypeOK
  <2>4. segmentedCPU(begun[a], Now, marks) + StillCPU(begun[a], Now, marks)
          = Now.c - begun[a].c
    BY <2>2, <2>3, WholeStepCounted
  <2> QED
    BY <1>1, <1>2, <2>4
<1>4. \A b \in Activations : b # a => at[b] \in {"new", "over"}
  BY <1>1, OthersIdle
<1> HIDE DEF f
<1> QED
  BY <1>1, <1>2, <1>3, <1>4, OneCounted

LEMMA CountedStep ==
  ASSUME CPUInv, Concurrency = 1, [Next]_vars
  PROVE  CPUInv'
<1>1. STypeOK /\ MarksInv /\ Counted
  BY DEF CPUInv
<1>2. MarksInv'
  BY <1>1, MarksInvStep
<1>3. CASE Environment
  BY <1>1, <1>2, <1>3, EnvironmentType, EnvironmentCounted DEF CPUInv
<1>4. ASSUME NEW a \in Activations, Step(a)
      PROVE  CPUInv'
  BY <1>1, <1>2, <1>4, StepType, InteractStartsCounted, UnderWayCounted,
     AnswersCounted, RecordCounted
  DEF CPUInv, Step
<1>5. CASE UNCHANGED vars
  <2>1. STypeOK'
    BY <1>1, <1>5 DEF STypeOK, vars, nodeVars
  <2>2. Counted'
    BY <1>1, <1>5 DEF Counted, CPUCountedOnce, Active, Now, vars, nodeVars
  <2> QED
    BY <1>2, <2>1, <2>2 DEF CPUInv
<1> QED
  BY <1>3, <1>4, <1>5 DEF Next

(* With one activation at a time, the CPU time reported of a step that     *)
(* answered and that of its segments whose energy counter stood still are  *)
(* together what the cgroup used between the first and the last reading of *)
(* its run, which are taken to succeed, whatever the freezes, the readings *)
(* of a freeze or a resume that failed and the CPU time shown late.        *)
THEOREM StepCPUCountedOnce ==
  ASSUME Concurrency = 1
  PROVE  Spec => []CPUCountedOnce
<1>1. Init => CPUInv
  <2> SUFFICES ASSUME Init PROVE CPUInv
    OBVIOUS
  <2>1. Counted
    BY DEF Init, Counted, CPUCountedOnce, Active
  <2> QED
    BY <2>1, STypeInit, MarksInvInit DEF CPUInv
<1>2. CPUInv /\ [Next]_vars => CPUInv'
  BY CountedStep
<1>3. CPUInv => CPUCountedOnce
  BY DEF CPUInv, Counted
<1> QED
  BY <1>1, <1>2, <1>3, PTL DEF Spec
=============================================================================
