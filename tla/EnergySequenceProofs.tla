------------------------ MODULE EnergySequenceProofs ------------------------
(***************************************************************************)
(* What a step is given and what it is charged, for a register of any      *)
(* width and margin, any number of cores, of steps and of extensions, and  *)
(* any energy a step uses short of the whole range of the register.        *)
(***************************************************************************)
EXTENDS EnergySequence, TLAPS

(* A state that belongs to the sequence under way, as its last step left   *)
(* it.                                                                     *)
OfSequence(s) ==
    /\ s \in States
    /\ s.trace = now.trace
    /\ s.threshold = now.threshold
    /\ s.classes = now.classes
    /\ exact => s.consumed = truth

(* What the next step will extract, and what the running one has.          *)
Carried ==
    /\ pc = "ready" /\ intact => OfSequence(ExtractEnergyState(params))
    /\ pc = "running" /\ intact => OfSequence(energy)

(* Nothing uses energy between the first readings and the end of a step,   *)
(* so a right one is still that of the register.                           *)
StartIsTrue ==
    pc = "running" =>
        /\ start.right => start.energy = counter /\ start.cpu = before
        /\ exact => start.right

(* The steps before this one used no more than MaxUse each.                *)
UsedSoFar ==
    /\ pc \in {"ready", "running"} => n > 0 /\ truth <= MaxUse * (n - 1)
    /\ truth <= MaxUse * n

(* The measures there may be, and what OvercountExplained says of one.     *)
Measures ==
    [measured : Nat, real : 0 .. MaxUse, startRight : BOOLEAN, endRight : BOOLEAN,
     nearTop : BOOLEAN]

Explained(m) == m.measured > m.real => ~m.startRight \/ (m.nearTop /\ ~m.endRight)

(* The inductive invariant.                                                *)
EInv == ETypeOK /\ Carried /\ StartIsTrue /\ UsedSoFar /\ OvercountExplained

----------------------------------------------------------------------------
(* Arithmetic of the register and of the attribution                       *)

LEMMA DivIsNat ==
  ASSUME NEW a \in Nat, NEW b \in Nat \ {0}
  PROVE  a \div b \in Nat
  OBVIOUS

LEMMA DivMonotone ==
  ASSUME NEW a \in Nat, NEW b \in Nat, NEW c \in Nat \ {0}, a <= b
  PROVE  a \div c <= b \div c
  OBVIOUS

LEMMA TimesMonotone ==
  ASSUME NEW a \in Nat, NEW b \in Nat, NEW c \in Nat, a <= b
  PROVE  a * c \in Nat /\ b * c \in Nat /\ a * c <= b * c
  OBVIOUS

LEMMA PartOfWhole ==
  ASSUME NEW a \in Nat, NEW c \in Nat \ {0}, NEW k \in 0 .. c
  PROVE  (a * k) \div c <= a
  OBVIOUS

(* The register after a step that used less than its range: one wrap at    *)
(* the most.                                                               *)
LEMMA UsedWraps ==
  ASSUME ETypeOK, NEW joules \in 0 .. MaxUse
  PROVE  /\ Used(joules) \in 0 .. RaplMax - 1
         /\ Used(joules) = IF counter + joules < RaplMax THEN counter + joules
                           ELSE counter + joules - RaplMax
<1>1. ASSUME NEW b \in Nat \ {0}, NEW a \in 0 .. b - 1, NEW j \in 0 .. b - 1
      PROVE  (a + j) % b = IF a + j < b THEN a + j ELSE a + j - b
  OBVIOUS
<1>2. /\ RaplMax \in Nat \ {0} /\ counter \in 0 .. RaplMax - 1
      /\ joules \in 0 .. RaplMax - 1
  BY EnergySequenceAssumption DEF EnergySequenceAssumption, ETypeOK
<1>3. Used(joules) = IF counter + joules < RaplMax THEN counter + joules
                     ELSE counter + joules - RaplMax
  BY <1>1, <1>2 DEF Used
<1> QED
  BY <1>2, <1>3

LEMMA ShareBounds ==
  ASSUME NEW joules \in Int, NEW cpu \in Int
  PROVE  Share(joules, cpu) \in Nat /\ (joules >= 0 => Share(joules, cpu) <= joules)
<1>1. CASE joules <= 0 \/ cpu <= 0
  BY <1>1 DEF Share
<1>2. CASE ~(joules <= 0 \/ cpu <= 0)
  <2>1. /\ joules \in Nat /\ Cores \in Nat \ {0} /\ Least(cpu, Cores) \in 0 .. Cores
        /\ Share(joules, cpu) = (joules * Least(cpu, Cores)) \div Cores
    BY <1>2, EnergySequenceAssumption DEF EnergySequenceAssumption, Share, Least
  <2>2. joules * Least(cpu, Cores) \in Nat
    BY <2>1, TimesMonotone
  <2> QED
    BY <2>1, <2>2, DivIsNat, PartOfWhole
<1> QED
  BY <1>1, <1>2

(* More energy on the socket is never a smaller share.                     *)
LEMMA ShareMonotone ==
  ASSUME NEW less \in Nat, NEW joules \in Nat, NEW cpu \in Int, less <= joules
  PROVE  Share(less, cpu) <= Share(joules, cpu)
<1>1. CASE less <= 0 \/ cpu <= 0
  BY <1>1, ShareBounds DEF Share
<1>2. CASE ~(less <= 0 \/ cpu <= 0)
  <2>1. /\ Cores \in Nat \ {0} /\ Least(cpu, Cores) \in Nat
        /\ Share(less, cpu) = (less * Least(cpu, Cores)) \div Cores
        /\ Share(joules, cpu) = (joules * Least(cpu, Cores)) \div Cores
    BY <1>2, EnergySequenceAssumption DEF EnergySequenceAssumption, Share, Least
  <2>2. /\ less * Least(cpu, Cores) \in Nat /\ joules * Least(cpu, Cores) \in Nat
        /\ less * Least(cpu, Cores) <= joules * Least(cpu, Cores)
    BY <2>1, TimesMonotone
  <2> QED
    BY <2>1, <2>2, DivMonotone
<1> QED
  BY <1>1, <1>2

LEMMA DeltaIsNat ==
  ASSUME NEW from \in 0 .. RaplMax - 1, NEW to \in 0 .. RaplMax - 1
  PROVE  deltaRAPLUJ(from, to) \in Nat
  BY EnergySequenceAssumption DEF EnergySequenceAssumption, deltaRAPLUJ

LEMMA AttributionIsNat ==
  ASSUME NEW from \in Readings, NEW to \in Readings
  PROVE  attributionDetail(from, to) \in Nat
<1>1. /\ from.energy \in 0 .. RaplMax - 1 /\ to.energy \in 0 .. RaplMax - 1
      /\ to.cpu - from.cpu \in Int
  BY DEF Readings
<1>2. deltaRAPLUJ(from.energy, to.energy) \in Int
  BY <1>1, DeltaIsNat
<1> QED
  BY <1>1, <1>2, ShareBounds DEF attributionDetail

(* A reading is right, or its register is low, or its CPU time is zero.    *)
LEMMA ReadGives ==
  ASSUME NEW register \in 0 .. RaplMax - 1, NEW cpu \in Nat,
         NEW r \in Read(register, cpu)
  PROVE  /\ r \in Readings
         /\ r.energy <= register
         /\ r.cpu \in {0, cpu}
         /\ r.right => r.energy = register /\ r.cpu = cpu
<1>1. RaplMax \in Nat /\ MaxLow \in Nat /\ register \in Nat
  BY EnergySequenceAssumption DEF EnergySequenceAssumption
<1>2. CASE r \in [energy : {register}, cpu : {cpu}, right : {TRUE}]
  <2>1. /\ r.energy = register /\ r.cpu = cpu /\ r.right = TRUE
        /\ r = [energy |-> r.energy, cpu |-> r.cpu, right |-> r.right]
    BY <1>2
  <2>2. r \in Readings
    BY <2>1 DEF Readings
  <2>3. r.energy <= register
    BY <1>1, <2>1
  <2> QED
    BY <2>1, <2>2, <2>3
<1>3. CASE r \in [energy : {0} \union {register - low : low \in 1 .. Least(MaxLow, register)},
                 cpu : {cpu}, right : {FALSE}]
  <2>1. /\ r.energy \in {0} \union {register - low : low \in 1 .. Least(MaxLow, register)}
        /\ r.cpu = cpu /\ r.right = FALSE
        /\ r = [energy |-> r.energy, cpu |-> r.cpu, right |-> r.right]
    BY <1>3
  <2>2. r.energy \in 0 .. register
    BY <1>1, <2>1 DEF Least
  <2>3. r.energy \in 0 .. RaplMax - 1 /\ r.energy <= register
    BY <1>1, <2>2
  <2> QED
    BY <2>1, <2>3 DEF Readings
<1>4. CASE r \in [energy : {register}, cpu : {0}, right : {FALSE}]
  <2>1. /\ r.energy = register /\ r.cpu = 0 /\ r.right = FALSE
        /\ r = [energy |-> r.energy, cpu |-> r.cpu, right |-> r.right]
    BY <1>4
  <2>2. r \in Readings
    <3>1. r.cpu \in Nat
      BY <2>1
    <3> QED
      BY <2>1, <3>1 DEF Readings
  <2>3. r.energy <= register
    BY <1>1, <2>1
  <2> QED
    BY <2>1, <2>2, <2>3
<1>5. CASE r \in [energy : {register - low : low \in 1 .. Least(MaxLow, register)},
                 cpu : {cpu}, right : {FALSE}]
  BY <1>3, <1>5
<1>6. CASE r \in [energy : {0}, cpu : {cpu}, right : {FALSE}]
  BY <1>3, <1>6
<1> QED
  BY <1>2, <1>4, <1>5, <1>6 DEF Read, Sampled

(* Right readings at both ends give the energy really used, wrapped or     *)
(* not, unless a wrap began below the margin.                              *)
LEMMA RightDelta ==
  ASSUME ETypeOK, NEW joules \in 0 .. MaxUse
  PROVE  /\ deltaRAPLUJ(counter, Used(joules)) <= joules
         /\ joules <= RaplMax - Near => deltaRAPLUJ(counter, Used(joules)) = joules
<1>1. /\ RaplMax \in Nat /\ Near \in Nat /\ counter \in 0 .. RaplMax - 1
      /\ joules \in 0 .. RaplMax - 1
  BY EnergySequenceAssumption DEF EnergySequenceAssumption, ETypeOK
<1> QED
  BY <1>1, UsedWraps DEF deltaRAPLUJ

(* A register that reads low after a right reading below the margin never  *)
(* counts for more than was used.                                          *)
LEMMA LowDelta ==
  ASSUME ETypeOK, NEW joules \in 0 .. MaxUse, counter < Near,
         NEW to \in 0 .. RaplMax - 1, to <= Used(joules)
  PROVE  deltaRAPLUJ(counter, to) <= joules
<1>1. /\ RaplMax \in Nat /\ Near \in Nat /\ counter \in 0 .. RaplMax - 1
      /\ joules \in 0 .. RaplMax - 1
  BY EnergySequenceAssumption DEF EnergySequenceAssumption, ETypeOK
<1> QED
  BY <1>1, UsedWraps DEF deltaRAPLUJ

(* What a reading after a first one is worth, whoever took the two.        *)
LEMMA LaterReading ==
  ASSUME ETypeOK, NEW joules \in 0 .. MaxUse, NEW cores \in 0 .. Cores,
         NEW from \in Readings, from.right => from.energy = counter /\ from.cpu = before,
         NEW end \in Read(Used(joules), before + cores)
  PROVE  /\ end \in Readings
         /\ attributionDetail(from, end) \in Nat
         /\ from.right /\ end.right /\ joules <= RaplMax - Near =>
                attributionDetail(from, end) = Share(joules, cores)
         /\ from.right /\ (end.right \/ from.energy < Near) =>
                attributionDetail(from, end) <= Share(joules, cores)
<1>1. before \in Nat /\ Cores \in Nat /\ counter \in 0 .. RaplMax - 1
  BY EnergySequenceAssumption DEF ETypeOK, EnergySequenceAssumption
<1>2. /\ end \in Readings
      /\ end.energy <= Used(joules)
      /\ end.cpu \in {0, before + cores}
      /\ end.right => end.energy = Used(joules) /\ end.cpu = before + cores
  <2>1. before + cores \in Nat /\ Used(joules) \in 0 .. RaplMax - 1
    BY <1>1, UsedWraps
  <2> QED
    BY <2>1, ReadGives
<1>3. attributionDetail(from, end) \in Nat
  BY <1>1, <1>2, AttributionIsNat
<1>4. joules \in Nat /\ MaxUse \in Nat
  BY EnergySequenceAssumption DEF EnergySequenceAssumption
<1>5. ASSUME from.right, end.right
      PROVE  attributionDetail(from, end)
                 = Share(deltaRAPLUJ(counter, Used(joules)), cores)
  <2>1. end.cpu - from.cpu = cores
    BY <1>1, <1>2, <1>5
  <2> QED
    BY <1>1, <1>2, <1>5, <2>1 DEF attributionDetail
<1>6. ASSUME from.right, end.right, joules <= RaplMax - Near
      PROVE  attributionDetail(from, end) = Share(joules, cores)
  BY <1>1, <1>5, <1>6, RightDelta
<1>7. ASSUME from.right, end.right
      PROVE  attributionDetail(from, end) <= Share(joules, cores)
  <2>1. deltaRAPLUJ(counter, Used(joules)) \in Nat
    BY <1>1, UsedWraps, DeltaIsNat
  <2> QED
    BY <1>1, <1>4, <1>5, <1>7, <2>1, RightDelta, ShareMonotone
<1>8. ASSUME from.right, from.energy < Near
      PROVE  attributionDetail(from, end) <= Share(joules, cores)
  <2>1. end.energy \in 0 .. RaplMax - 1 /\ counter < Near
    BY <1>1, <1>2, <1>8 DEF Readings
  <2>2. /\ deltaRAPLUJ(counter, end.energy) \in Nat
        /\ deltaRAPLUJ(counter, end.energy) <= joules
    BY <1>1, <1>2, <2>1, DeltaIsNat, LowDelta
  <2>3. CASE end.cpu = before + cores
    <3>1. attributionDetail(from, end) = Share(deltaRAPLUJ(counter, end.energy), cores)
      BY <1>1, <1>8, <2>3 DEF attributionDetail
    <3> QED
      BY <1>4, <2>2, <3>1, ShareMonotone
  <2>4. CASE end.cpu = 0
    <3>1. end.cpu - from.cpu <= 0
      BY <1>1, <1>8, <2>4
    <3>2. attributionDetail(from, end) = 0
      BY <3>1 DEF attributionDetail, Share
    <3> QED
      BY <1>4, <3>2, ShareBounds
  <2> QED
    BY <1>2, <2>3, <2>4
<1> QED
  BY <1>2, <1>3, <1>6, <1>7, <1>8

(* An overcount between the two has its explanation.                       *)
LEMMA MeasureExplained ==
  ASSUME ETypeOK, NEW joules \in 0 .. MaxUse, NEW cores \in 0 .. Cores,
         NEW from \in Readings, from.right => from.energy = counter /\ from.cpu = before,
         NEW end \in Read(Used(joules), before + cores)
  PROVE  LET m == Measure(from, end, Share(joules, cores)) IN m \in Measures /\ Explained(m)
<1> DEFINE m == Measure(from, end, Share(joules, cores))
<1>1. Share(joules, cores) \in 0 .. MaxUse
  <2>1. joules \in Int /\ cores \in Int /\ joules >= 0 /\ joules <= MaxUse /\ MaxUse \in Nat
    BY EnergySequenceAssumption DEF EnergySequenceAssumption
  <2> QED
    BY <2>1, ShareBounds
<1>2. /\ end \in Readings /\ attributionDetail(from, end) \in Nat
      /\ from.right /\ (end.right \/ from.energy < Near) =>
             attributionDetail(from, end) <= Share(joules, cores)
  BY LaterReading
<1>3. /\ from.right \in BOOLEAN /\ end.right \in BOOLEAN
      /\ from.energy \in Int /\ Near \in Int
  BY <1>2, EnergySequenceAssumption DEF EnergySequenceAssumption, Readings
<1>4. /\ m.measured = attributionDetail(from, end) /\ m.real = Share(joules, cores)
      /\ m.startRight = from.right /\ m.endRight = end.right
      /\ m.nearTop = (from.energy >= Near)
  BY DEF Measure
<1>5. m \in Measures
  BY <1>1, <1>2, <1>3 DEF Measure, Measures
<1>6. Explained(m)
  <2>1. ASSUME from.right, end.right \/ from.energy < Near
        PROVE  ~(m.measured > m.real)
    <3>1. /\ m.measured \in Int /\ m.real \in Int
          /\ m.measured <= m.real
      BY <1>1, <1>2, <1>4, <2>1
    <3> QED
      BY <3>1
  <2>2. from.energy < Near \/ from.energy >= Near
    BY <1>3
  <2> QED
    BY <1>3, <1>4, <2>1, <2>2 DEF Explained
<1> QED
  BY <1>5, <1>6

(* The first reading of the running step is one of that kind.              *)
LEMMA StartReading ==
  ASSUME EInv, pc = "running"
  PROVE  /\ ETypeOK /\ start \in Readings
         /\ start.right => start.energy = counter /\ start.cpu = before
  BY DEF EInv, ETypeOK, StartIsTrue

(* No measure, and whatever the monitor measured live.                     *)
LEMMA NoLastExplained == NoLast \in Measures /\ Explained(NoLast)
<1>1. 0 \in Nat /\ 0 \in 0 .. MaxUse
  BY EnergySequenceAssumption DEF EnergySequenceAssumption
<1> QED
  BY <1>1 DEF NoLast, Measures, Explained

LEMMA MonitorExplained ==
  ASSUME ETypeOK, NEW joules \in 0 .. MaxUse, NEW cores \in 0 .. Cores,
         NEW live \in MonitorMeasures(joules, cores)
  PROVE  live \in Measures /\ Explained(live)
<1>1. PICK first \in Sampled(counter, before), tick \in Sampled(Used(joules), before + cores) :
          live = Measure(first, tick, Share(joules, cores))
  BY DEF MonitorMeasures
<1>2. counter \in 0 .. RaplMax - 1 /\ before \in Nat
  BY EnergySequenceAssumption DEF EnergySequenceAssumption, ETypeOK
<1>3. first \in Read(counter, before) /\ tick \in Read(Used(joules), before + cores)
  BY <1>1 DEF Read
<1>4. first \in Readings /\ (first.right => first.energy = counter /\ first.cpu = before)
  BY <1>2, <1>3, ReadGives
<1> QED
  BY <1>1, <1>3, <1>4, MeasureExplained

----------------------------------------------------------------------------
LEMMA EInvInit ==
  ASSUME Init
  PROVE  EInv
<1>1. ETypeOK
  <2>1. /\ params \in [first : Forms, side : Forms] /\ energy \in States \union {NoState}
        /\ pc \in {"none", "ready", "running", "answered"} /\ named \in BOOLEAN
        /\ intact \in BOOLEAN /\ exact \in BOOLEAN
    BY DEF Init, NoParams, Forms
  <2>2. /\ counter \in 0 .. RaplMax - 1 /\ n \in 0 .. MaxSteps
        /\ before \in 0 .. MaxBefore /\ truth \in 0 .. MaxUse * MaxSteps
        /\ 0 \in 0 .. MaxUse /\ 0 \in 0 .. RaplMax - 1 /\ 0 \in 0 .. MaxTraces
        /\ 0 \in 0 .. 1 + MaxExtensions /\ 0 \in Nat
    BY EnergySequenceAssumption DEF EnergySequenceAssumption, Init
  <2>3. /\ start \in Readings
        /\ last \in [measured : Nat, real : 0 .. MaxUse, startRight : BOOLEAN,
                    endRight : BOOLEAN, nearTop : BOOLEAN]
        /\ now \in [trace : 0 .. MaxTraces, classes : ClassMaps \union {NoClasses},
                   threshold : 0 .. 1 + MaxExtensions]
    BY <2>2 DEF Init, NoReading, NoLast, Readings
  <2> QED
    BY <2>1, <2>2, <2>3 DEF ETypeOK
<1>2. Carried /\ StartIsTrue /\ OvercountExplained
  BY DEF Init, Carried, StartIsTrue, OvercountExplained, NoLast
<1>3. UsedSoFar
  BY EnergySequenceAssumption DEF EnergySequenceAssumption, Init, UsedSoFar
<1> QED
  BY <1>1, <1>2, <1>3 DEF EInv

(* Whatever the arguments hold, a sequence begins with a state of its own  *)
(* or with intact false.                                                   *)
LEMMA InvokedKeeps ==
  ASSUME EInv, NEW first \in Forms, NEW classes \in ClassMaps \union {NoClasses},
         NEW threshold \in 0 .. 1, Invoked(first, classes, threshold),
         first \in States => /\ first.trace = now.trace + 1 /\ first.threshold = threshold
                            /\ first.classes = classes /\ first.consumed = 0
  PROVE  EInv'
<1> USE DEF EInv, Invoked
<1>1. params' \in [first : Forms, side : Forms] /\ params'.first = first
  BY DEF ETypeOK, Forms
<1>2. /\ now' \in [trace : 0 .. MaxTraces, classes : ClassMaps \union {NoClasses},
                 threshold : 0 .. 1 + MaxExtensions]
      /\ now'.trace = now.trace + 1 /\ now'.classes = classes
      /\ now'.threshold = threshold
  <2>1. now.trace + 1 \in 0 .. MaxTraces /\ threshold \in 0 .. 1 + MaxExtensions
    BY EnergySequenceAssumption DEF EnergySequenceAssumption, ETypeOK
  <2> QED
    BY <2>1
<1>3. ETypeOK'
  BY <1>1, <1>2, EnergySequenceAssumption DEF EnergySequenceAssumption, ETypeOK, NoLast
<1>4. Carried'
  <2>1. ASSUME first \in States
        PROVE  OfSequence(ExtractEnergyState(params))'
    <3>1. ExtractEnergyState(params)' = first
      BY <1>1, <2>1, EnergySequenceAssumption
      DEF EnergySequenceAssumption, ExtractEnergyState, Decoded
    <3> QED
      BY <1>2, <2>1, <3>1 DEF OfSequence
  <2> QED
    BY <2>1 DEF Carried
<1>5. StartIsTrue' /\ OvercountExplained'
  BY DEF StartIsTrue, OvercountExplained, NoLast
<1>6. UsedSoFar'
  BY EnergySequenceAssumption DEF EnergySequenceAssumption, UsedSoFar
<1> QED
  BY <1>3, <1>4, <1>5, <1>6

LEMMA InvocationKeeps ==
  ASSUME EInv, InvokedByScheduler \/ InvokedUnmanaged
  PROVE  EInv'
<1>1. Bad \notin States /\ NoState \notin States
  BY EnergySequenceAssumption DEF EnergySequenceAssumption
<1>2. ASSUME NEW classes \in ClassMaps, NEW threshold \in 0 .. 1,
             Invoked(Bad, classes, threshold)
      PROVE  EInv'
  BY <1>1, <1>2, InvokedKeeps DEF Forms
<1>3. ASSUME InvokedUnmanaged
      PROVE  EInv'
  BY <1>1, <1>3, InvokedKeeps DEF Forms, InvokedUnmanaged
<1>4. ASSUME NEW classes \in ClassMaps, NEW threshold \in 0 .. 1,
             Invoked([trace |-> now.trace + 1, threshold |-> threshold, consumed |-> 0,
                      classes |-> classes], classes, threshold)
      PROVE  EInv'
  <2> DEFINE first == [trace |-> now.trace + 1, threshold |-> threshold, consumed |-> 0,
                       classes |-> classes]
  <2>1. now.trace + 1 \in 1 .. MaxTraces /\ threshold \in 0 .. 1 + MaxExtensions
    BY <1>4, EnergySequenceAssumption DEF EnergySequenceAssumption, EInv, ETypeOK, Invoked
  <2>2. first \in States /\ first \in Forms
    BY <2>1 DEF States, Forms
  <2>3. /\ first.trace = now.trace + 1 /\ first.threshold = threshold
        /\ first.classes = classes /\ first.consumed = 0
    OBVIOUS
  <2>4. Invoked(first, classes, threshold)
    BY <1>4
  <2> HIDE DEF first
  <2> QED
    BY <2>2, <2>3, <2>4, InvokedKeeps
<1> QED
  BY <1>2, <1>3, <1>4 DEF InvokedByScheduler

(* A damaged __energy_state counts only where it would be extracted.       *)
LEMMA CorruptedKeeps ==
  ASSUME EInv, Corrupted
  PROVE  EInv'
<1>1. /\ params' \in [first : Forms, side : Forms]
      /\ params'.first = params.first
  BY DEF EInv, ETypeOK, Corrupted, Forms
<1>2. ETypeOK'
  BY <1>1 DEF EInv, ETypeOK, Corrupted
<1>3. Carried'
  <2>1. ASSUME params.first # NoState
        PROVE  ExtractEnergyState(params)' = ExtractEnergyState(params)
    BY <1>1, <2>1 DEF ExtractEnergyState
  <2> QED
    BY <2>1 DEF EInv, Corrupted, Carried, OfSequence
<1>4. StartIsTrue' /\ UsedSoFar' /\ OvercountExplained'
  BY DEF EInv, Corrupted, StartIsTrue, UsedSoFar, OvercountExplained
<1> QED
  BY <1>2, <1>3, <1>4 DEF EInv

LEMMA ExtractedType ==
  ASSUME NEW p \in [first : Forms, side : Forms]
  PROVE  /\ ExtractEnergyState(p) \in States \union {NoState}
         /\ Seen(p) \in [first : Forms, side : Forms]
  BY DEF ExtractEnergyState, Decoded, Seen, Forms, NoParams

LEMMA StepBeginsKeeps ==
  ASSUME EInv, StepBegins
  PROVE  EInv'
<1>1. /\ energy' \in States \union {NoState}
      /\ params' \in [first : Forms, side : Forms]
  BY ExtractedType DEF EInv, ETypeOK, StepBegins
<1>2. /\ start' \in Readings
      /\ start'.right => start'.energy = counter /\ start'.cpu = before'
  <2>1. counter \in 0 .. RaplMax - 1 /\ before' \in Nat /\ start' \in Read(counter, before')
    BY EnergySequenceAssumption DEF EnergySequenceAssumption, EInv, ETypeOK, StepBegins
  <2> QED
    BY <2>1, ReadGives
<1>3. last' \in [measured : Nat, real : 0 .. MaxUse, startRight : BOOLEAN,
                endRight : BOOLEAN, nearTop : BOOLEAN]
  BY EnergySequenceAssumption DEF EnergySequenceAssumption, StepBegins, NoLast
<1>4. exact' \in BOOLEAN
  BY <1>2 DEF StepBegins
<1>5. ETypeOK'
  BY <1>1, <1>2, <1>3, <1>4 DEF EInv, ETypeOK, StepBegins
<1>6. Carried'
  BY DEF EInv, StepBegins, Carried, OfSequence
<1>7. StartIsTrue'
  BY <1>2 DEF StepBegins, StartIsTrue
<1>8. UsedSoFar' /\ OvercountExplained'
  BY DEF EInv, StepBegins, UsedSoFar, OvercountExplained, NoLast
<1> QED
  BY <1>5, <1>6, <1>7, <1>8 DEF EInv

LEMMA StepRefusedKeeps ==
  ASSUME EInv, StepRefused
  PROVE  EInv'
<1>1. ETypeOK'
  BY DEF EInv, ETypeOK, StepRefused, seqVars, NoParams, Forms
<1>2. Carried' /\ StartIsTrue' /\ UsedSoFar' /\ OvercountExplained'
  BY DEF EInv, StepRefused, seqVars, Carried, StartIsTrue, UsedSoFar, OvercountExplained
<1> QED
  BY <1>1, <1>2 DEF EInv

(* The locals of the handler are gone, and their types hold.               *)
LEMMA ReturnedTypes ==
  ASSUME HandlerReturns
  PROVE  /\ energy' \in States \union {NoState} /\ named' \in BOOLEAN
         /\ start' \in Readings /\ before' \in 0 .. MaxBefore
<1>1. 0 \in 0 .. RaplMax - 1 /\ 0 \in Nat /\ before' \in 0 .. MaxBefore
  BY EnergySequenceAssumption DEF EnergySequenceAssumption, HandlerReturns
<1> QED
  BY <1>1 DEF HandlerReturns, NoReading, Readings

(* The end of a step that was measured: an overcount has its explanation.  *)
LEMMA WorkedKeeps ==
  ASSUME EInv, pc = "running", NEW joules \in 0 .. MaxUse, NEW cores \in 0 .. Cores,
         NEW fallback \in Measures, Explained(fallback), Worked(joules, cores, fallback)
  PROVE  /\ counter' \in 0 .. RaplMax - 1
         /\ last' \in Measures
         /\ energy' \in States \union {NoState} /\ named' \in BOOLEAN
         /\ start' \in Readings /\ before' \in 0 .. MaxBefore
         /\ OvercountExplained'
<1>1. counter' \in 0 .. RaplMax - 1
  BY UsedWraps DEF EInv, Worked
<1>2. PICK end \in Read(Used(joules), before + cores) :
          last' \in {fallback, Measure(start, end, Share(joules, cores))}
  BY DEF Worked
<1>3. last' \in Measures /\ Explained(last')
  BY <1>2, StartReading, MeasureExplained
<1> QED
  BY <1>1, <1>3, ReturnedTypes DEF Worked, Explained, OvercountExplained

(* A step adds at most MaxUse to the truth.                                *)
LEMMA StepUses ==
  ASSUME EInv, pc = "running", NEW joules \in 0 .. MaxUse, NEW cores \in 0 .. Cores,
         truth' = truth + Share(joules, cores), Answered
  PROVE  /\ truth' \in 0 .. MaxUse * MaxSteps /\ UsedSoFar'
         /\ n' \in 0 .. MaxSteps /\ pc' \in {"ready", "answered"}
<1>1. /\ MaxUse \in Nat /\ MaxSteps \in Nat /\ n \in 1 .. MaxSteps /\ truth \in Nat
      /\ truth <= MaxUse * (n - 1)
  BY EnergySequenceAssumption
  DEF EnergySequenceAssumption, EInv, ETypeOK, UsedSoFar
<1>2. Share(joules, cores) \in 0 .. MaxUse
  <2>1. joules \in Int /\ cores \in Int /\ joules >= 0 /\ joules <= MaxUse
    BY <1>1
  <2> QED
    BY <1>1, <2>1, ShareBounds
<1>3. ASSUME NEW k \in Nat \ {0}
      PROVE  /\ MaxUse * (k - 1) + MaxUse = MaxUse * k
             /\ MaxUse * k <= MaxUse * (k + 1) /\ MaxUse * k \in Nat
  BY <1>1
<1>4. truth' \in Nat /\ truth' <= MaxUse * n
  <2>1. MaxUse * (n - 1) \in Nat /\ MaxUse * n \in Nat
    BY <1>1
  <2> QED
    BY <1>1, <1>2, <1>3, <2>1
<1>5. MaxUse * n <= MaxUse * MaxSteps /\ MaxUse * n \in Nat /\ MaxUse * MaxSteps \in Nat
  BY <1>1
<1>6. MaxUse * n <= MaxUse * (n + 1) /\ MaxUse * (n + 1) \in Nat
  BY <1>1
<1>7. CASE n < MaxSteps /\ n' = n + 1 /\ pc' = "ready"
  <2>1. n' - 1 = n /\ n' > 0 /\ n' \in 0 .. MaxSteps
    BY <1>1, <1>7
  <2> QED
    BY <1>4, <1>5, <1>6, <1>7, <2>1 DEF UsedSoFar
<1>8. CASE n' = n /\ pc' = "answered"
  BY <1>1, <1>4, <1>5, <1>8 DEF UsedSoFar
<1> QED
  BY <1>7, <1>8 DEF Answered

(* The state a step sends on is the one it got, with its own threshold and *)
(* its own measure.                                                        *)
LEMMA SentOn ==
  ASSUME NEW s \in States, NEW granted \in Nat, NEW measured \in Nat,
         now.threshold \in Nat, now.threshold + granted <= 1 + MaxExtensions
  PROVE  LET sent == ReinjectEnergyState(FinalThreshold(s, granted), measured) IN
         /\ sent \in States
         /\ sent.trace = s.trace /\ sent.classes = s.classes
         /\ sent.consumed = s.consumed + measured
         /\ sent.threshold = IF granted = 0 THEN s.threshold ELSE now.threshold + granted
<1> DEFINE final == FinalThreshold(s, granted)
<1>1. /\ final \in States /\ final.trace = s.trace /\ final.classes = s.classes
      /\ final.consumed = s.consumed
      /\ final.threshold = IF granted = 0 THEN s.threshold ELSE now.threshold + granted
  <2>1. MaxExtensions \in Nat
    BY EnergySequenceAssumption DEF EnergySequenceAssumption
  <2>2. CASE granted = 0
    BY <2>2 DEF FinalThreshold
  <2>3. CASE granted # 0
    <3>1. now.threshold + granted \in 0 .. 1 + MaxExtensions
      BY <2>1
    <3> QED
      BY <2>3, <3>1 DEF FinalThreshold, States
  <2> QED
    BY <2>2, <2>3
<1> HIDE DEF final
<1>2. final.consumed + measured \in Nat
  BY <1>1 DEF States
<1>3. /\ ReinjectEnergyState(final, measured) \in States
      /\ ReinjectEnergyState(final, measured).trace = final.trace
      /\ ReinjectEnergyState(final, measured).classes = final.classes
      /\ ReinjectEnergyState(final, measured).consumed = final.consumed + measured
      /\ ReinjectEnergyState(final, measured).threshold = final.threshold
  BY <1>1, <1>2 DEF ReinjectEnergyState, States
<1> QED
  BY <1>1, <1>3 DEF final

LEMMA ReturnsObjectKeeps ==
  ASSUME EInv, StepReturnsObject
  PROVE  EInv'
<1>0. PICK joules \in 0 .. MaxUse, cores \in 0 .. Cores, granted \in 0 .. MaxExtensions :
      \E sidecar \in Read(Used(joules), before + cores) :
        /\ pc = "running"
        /\ now.threshold + granted <= 1 + MaxExtensions
        /\ Worked(joules, cores, NoLast)
        /\ now' = [now EXCEPT !.threshold = @ + granted]
        /\ IF energy = NoState
           THEN params' \in {NoParams, params}
           ELSE params' = [first |-> NoState,
                           side |-> ReinjectEnergyState(FinalThreshold(energy, granted),
                                                        attributionDetail(start, sidecar))]
        /\ truth' = truth + Share(joules, cores)
        /\ exact' = (exact /\ sidecar.right /\ joules <= RaplMax - Near)
        /\ Answered
        /\ intact' = intact
  BY DEF StepReturnsObject
<1>1. PICK sidecar \in Read(Used(joules), before + cores) :
        /\ pc = "running"
        /\ now.threshold + granted <= 1 + MaxExtensions
        /\ Worked(joules, cores, NoLast)
        /\ now' = [now EXCEPT !.threshold = @ + granted]
        /\ IF energy = NoState
           THEN params' \in {NoParams, params}
           ELSE params' = [first |-> NoState,
                           side |-> ReinjectEnergyState(FinalThreshold(energy, granted),
                                                        attributionDetail(start, sidecar))]
        /\ truth' = truth + Share(joules, cores)
        /\ exact' = (exact /\ sidecar.right /\ joules <= RaplMax - Near)
        /\ Answered
        /\ intact' = intact
  BY <1>0
<1>2. /\ now.threshold \in Nat /\ granted \in Nat /\ MaxExtensions \in Nat
      /\ energy \in States \union {NoState} /\ NoState \notin States /\ NoState # Bad
      /\ Bad \notin States
  BY EnergySequenceAssumption DEF EnergySequenceAssumption, EInv, ETypeOK
<1>3. /\ sidecar \in Readings /\ attributionDetail(start, sidecar) \in Nat
      /\ start.right /\ sidecar.right /\ joules <= RaplMax - Near =>
             attributionDetail(start, sidecar) = Share(joules, cores)
  BY <1>1, StartReading, LaterReading
<1> DEFINE measured == attributionDetail(start, sidecar)
           sent == ReinjectEnergyState(FinalThreshold(energy, granted), measured)
<1>4. ASSUME energy # NoState
      PROVE  /\ sent \in States
             /\ sent.trace = energy.trace /\ sent.classes = energy.classes
             /\ sent.consumed = energy.consumed + measured
             /\ sent.threshold = IF granted = 0 THEN energy.threshold
                                ELSE now.threshold + granted
  BY <1>1, <1>2, <1>3, <1>4, SentOn
<1>5. ASSUME energy # NoState
      PROVE  params' = [first |-> NoState, side |-> sent]
  BY <1>1, <1>5
<1>6. ASSUME energy = NoState
      PROVE  params' \in {NoParams, params}
  BY <1>1, <1>6
<1> HIDE DEF sent, measured
<1>7. NoLast \in Measures /\ Explained(NoLast)
  BY NoLastExplained
<1>8. /\ counter' \in 0 .. RaplMax - 1
      /\ last' \in Measures
      /\ energy' \in States \union {NoState} /\ named' \in BOOLEAN
      /\ start' \in Readings /\ before' \in 0 .. MaxBefore
      /\ OvercountExplained'
  BY <1>1, <1>7, WorkedKeeps
<1>9. /\ truth' \in 0 .. MaxUse * MaxSteps /\ UsedSoFar'
      /\ n' \in 0 .. MaxSteps /\ pc' \in {"ready", "answered"}
  BY <1>1, StepUses
<1>10. /\ now' \in [trace : 0 .. MaxTraces, classes : ClassMaps \union {NoClasses},
                   threshold : 0 .. 1 + MaxExtensions]
       /\ now'.trace = now.trace /\ now'.classes = now.classes
       /\ now'.threshold = now.threshold + granted
  <2>1. now.threshold + granted \in 0 .. 1 + MaxExtensions
    BY <1>1, <1>2
  <2> QED
    BY <1>1, <2>1 DEF EInv, ETypeOK
<1>11. params' \in [first : Forms, side : Forms]
  BY <1>4, <1>5, <1>6 DEF EInv, ETypeOK, NoParams, Forms
<1>12. intact' \in BOOLEAN /\ exact' \in BOOLEAN
  BY <1>1 DEF EInv, ETypeOK
<1>13. ETypeOK'
  BY <1>8, <1>9, <1>10, <1>11, <1>12 DEF ETypeOK, Measures
<1>14. Carried'
  <2>1. ASSUME intact
        PROVE  OfSequence(ExtractEnergyState(params))'
    <3>1. energy # NoState /\ OfSequence(energy)
      BY <1>1, <1>2, <2>1 DEF EInv, Carried, OfSequence
    <3>2. ExtractEnergyState(params)' = sent
      BY <1>2, <1>4, <1>5, <3>1 DEF ExtractEnergyState, Decoded
    <3>3. sent.threshold = now'.threshold
      BY <1>2, <1>4, <1>10, <3>1 DEF OfSequence
    <3>4. exact' => sent.consumed = truth'
      <4>1. ASSUME exact'
            PROVE  measured = Share(joules, cores) /\ energy.consumed = truth
        <5>1. exact /\ sidecar.right /\ joules <= RaplMax - Near
          BY <1>1, <4>1
        <5>2. start.right
          BY <1>1, <5>1 DEF EInv, StartIsTrue
        <5> QED
          BY <1>3, <3>1, <5>1, <5>2 DEF OfSequence, measured
      <4> QED
        BY <1>1, <1>4, <3>1, <4>1
    <3> QED
      BY <1>4, <1>10, <3>1, <3>2, <3>3, <3>4 DEF OfSequence
  <2> QED
    BY <1>1, <1>9, <2>1 DEF Carried
<1>15. StartIsTrue'
  BY <1>9 DEF StartIsTrue
<1> QED
  BY <1>8, <1>9, <1>13, <1>14, <1>15 DEF EInv

LEMMA ReturnsNoObjectKeeps ==
  ASSUME EInv, StepReturnsNoObject
  PROVE  EInv'
<1>1. PICK joules \in 0 .. MaxUse, cores \in 0 .. Cores :
        /\ pc = "running"
        /\ Worked(joules, cores, NoLast)
        /\ truth' = truth + Share(joules, cores)
        /\ Answered
  BY DEF StepReturnsNoObject
<1>2. /\ params' = NoParams /\ intact' = FALSE /\ now' = now /\ exact' = exact
  BY DEF StepReturnsNoObject
<1>3. NoLast \in Measures /\ Explained(NoLast)
  BY NoLastExplained
<1>4. /\ counter' \in 0 .. RaplMax - 1
      /\ last' \in Measures
      /\ energy' \in States \union {NoState} /\ named' \in BOOLEAN
      /\ start' \in Readings /\ before' \in 0 .. MaxBefore
      /\ OvercountExplained'
  BY <1>1, <1>3, WorkedKeeps
<1>5. /\ truth' \in 0 .. MaxUse * MaxSteps /\ UsedSoFar'
      /\ n' \in 0 .. MaxSteps /\ pc' \in {"ready", "answered"}
  BY <1>1, StepUses
<1>6. ETypeOK'
  BY <1>2, <1>4, <1>5 DEF EInv, ETypeOK, NoParams, Forms, Measures
<1>7. Carried' /\ StartIsTrue'
  BY <1>2, <1>5 DEF Carried, StartIsTrue
<1> QED
  BY <1>4, <1>5, <1>6, <1>7 DEF EInv

LEMMA KilledKeeps ==
  ASSUME EInv, StepKilled
  PROVE  EInv'
<1>0. PICK joules \in 0 .. MaxUse, cores \in 0 .. Cores :
          \E sofar \in 0 .. joules, busy \in 0 .. Cores :
              \E live \in MonitorMeasures(sofar, busy) : Worked(joules, cores, live)
  BY DEF StepKilled
<1>1. PICK sofar \in 0 .. joules, busy \in 0 .. Cores :
          \E live \in MonitorMeasures(sofar, busy) : Worked(joules, cores, live)
  BY <1>0
<1>2. PICK live \in MonitorMeasures(sofar, busy) : Worked(joules, cores, live)
  BY <1>1
<1>3. live \in Measures /\ Explained(live)
  <2>1. sofar \in 0 .. MaxUse
    BY EnergySequenceAssumption DEF EnergySequenceAssumption
  <2> QED
    BY <2>1, MonitorExplained DEF EInv
<1>4. /\ pc = "running" /\ params' = NoParams /\ pc' = "answered"
      /\ n' = n /\ now' = now /\ truth' = truth /\ intact' = intact /\ exact' = exact
  BY DEF StepKilled, seqVars
<1>5. /\ counter' \in 0 .. RaplMax - 1
      /\ last' \in Measures
      /\ energy' \in States \union {NoState} /\ named' \in BOOLEAN
      /\ start' \in Readings /\ before' \in 0 .. MaxBefore
      /\ OvercountExplained'
  BY <1>4, <1>2, <1>3, WorkedKeeps
<1>6. ETypeOK'
  BY <1>4, <1>5 DEF EInv, ETypeOK, NoParams, Forms, Measures
<1>7. Carried' /\ StartIsTrue' /\ UsedSoFar'
  BY <1>4 DEF EInv, Carried, StartIsTrue, UsedSoFar
<1> QED
  BY <1>5, <1>6, <1>7 DEF EInv

LEMMA FailsKeeps ==
  ASSUME EInv, StepFails
  PROVE  EInv'
<1>1. counter' \in 0 .. RaplMax - 1
  BY UsedWraps DEF EInv, StepFails
<1>2. /\ energy' \in States \union {NoState} /\ named' \in BOOLEAN
      /\ start' \in Readings /\ before' \in 0 .. MaxBefore
  BY ReturnedTypes DEF StepFails
<1>3. /\ pc = "running" /\ params' = NoParams /\ pc' = "answered" /\ last' = last
      /\ n' = n /\ now' = now /\ truth' = truth /\ intact' = intact /\ exact' = exact
  BY DEF StepFails, seqVars
<1>4. ETypeOK'
  BY <1>1, <1>2, <1>3 DEF EInv, ETypeOK, NoParams, Forms
<1>5. Carried' /\ StartIsTrue' /\ UsedSoFar' /\ OvercountExplained'
  BY <1>3 DEF EInv, Carried, StartIsTrue, UsedSoFar, OvercountExplained
<1> QED
  BY <1>4, <1>5 DEF EInv

----------------------------------------------------------------------------
LEMMA EInvStep ==
  ASSUME EInv, [Next]_vars
  PROVE  EInv'
<1>1. CASE UNCHANGED vars
  BY <1>1 DEF vars, seqVars, EInv, ETypeOK, Carried, OfSequence, ExtractEnergyState,
      Decoded, StartIsTrue, UsedSoFar, OvercountExplained
<1> QED
  BY <1>1, InvocationKeeps, CorruptedKeeps, StepBeginsKeeps, StepRefusedKeeps,
     ReturnsObjectKeeps, ReturnsNoObjectKeeps, KilledKeeps, FailsKeeps
  DEF Next

LEMMA EInvHolds == Spec => []EInv
<1>1. Init => EInv
  BY EInvInit
<1>2. EInv /\ [Next]_vars => EInv'
  BY EInvStep
<1> QED
  BY <1>1, <1>2, PTL DEF Spec

LEMMA CarriedMeans ==
  ASSUME EInv
  PROVE  CarriedState /\ ConsumedIsTrue
<1>1. ASSUME pc = "running", intact
      PROVE  OfSequence(energy) /\ energy # NoState
  BY <1>1, EnergySequenceAssumption DEF EnergySequenceAssumption, EInv, Carried, OfSequence
<1>2. ASSUME pc = "running", intact, Killable, now.classes # NoClasses
      PROVE  now.classes[n] # "UNKILLABLE"
  BY <1>1, <1>2 DEF OfSequence, Killable, isNonInterruptibleForThisStep
<1>3. CarriedState
  BY <1>1, <1>2 DEF CarriedState, OfSequence
<1>4. ConsumedIsTrue
  BY <1>1 DEF ConsumedIsTrue, OfSequence
<1> QED
  BY <1>3, <1>4

(* The types hold: no reading, however wrong, and no wrap of the register  *)
(* makes attributionDetail charge a negative measure.                      *)
THEOREM MeasuresAreTyped == Spec => []ETypeOK
<1>1. EInv => ETypeOK
  BY DEF EInv
<1> QED
  BY <1>1, EInvHolds, PTL

(* ExtractEnergyState, ReinjectEnergyState and the threshold written back  *)
(* by Interact: a step whose state was neither lost nor damaged runs under *)
(* the state of its own sequence, as its last extension left it, and is    *)
(* killed only if its own class allows it, in a sequence of any length and *)
(* whatever __energy_state an earlier sequence left in the arguments.      *)
THEOREM StateIsCarried == Spec => []CarriedState
<1>1. EInv => CarriedState
  BY CarriedMeans
<1> QED
  BY <1>1, EInvHolds, PTL

(* consumed_before_j is the energy the earlier steps used, for a register  *)
(* of any width and any number of wraps, as long as the readings were      *)
(* right and no step used more than lies between the margin and the top.   *)
THEOREM ConsumedAddsUp == Spec => []ConsumedIsTrue
<1>1. EInv => ConsumedIsTrue
  BY CarriedMeans
<1> QED
  BY <1>1, EInvHolds, PTL

(* deltaRAPLUJ and the capped ratio: a measure exceeds what was used while *)
(* it was taken only after a wrong first reading, or a wrong last one with *)
(* the first near the top of the register.  The readings are the handlers',*)
(* or the monitor's own, whose first CPU reading counts as zero when it    *)
(* fails, where recordMetricsImpl falls back on killInfo.EnergyConsumedJ.  *)
THEOREM OvercountsAreExplained == Spec => []OvercountExplained
<1>1. EInv => OvercountExplained
  BY DEF EInv
<1> QED
  BY <1>1, EInvHolds, PTL
=============================================================================
