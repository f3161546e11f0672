------------------------- MODULE GpuSources_proofs --------------------------
(***************************************************************************)
(* Proofs about GpuSources, for any devices, card numbers and GPUs.        *)
(***************************************************************************)
EXTENDS GpuSources, FiniteSetTheorems, TLAPS

USE GpuAssumption

-----------------------------------------------------------------------------
(***************************************************************************)
(* Types                                                                   *)
(***************************************************************************)

\* What the devices share.
SharedTyped ==
  /\ drm \in [Ids -> Gpus \cup {NoGpu}]
  /\ nvml \in Libraries
  /\ g_gpu_sources \in Seq(Sources)
  /\ Len(g_gpu_sources) <= Cardinality(Ids)
  /\ plugs \in 0 .. MaxPlugs
  /\ held \in [Ids -> SUBSET Gpus]
  /\ calm \in [Devices -> BOOLEAN]

Total(f) == f = [d \in Devices |-> f[d]]

AllTotal ==
  /\ Total(stage) /\ Total(hw_gpus) /\ Total(done) /\ Total(sources)
  /\ Total(readings) /\ Total(gpu_info) /\ Total(shown)

\* What one device has, with how far its loops can be.
DeviceTyped(d) ==
  /\ stage[d] \in Stages
  /\ hw_gpus[d] \in Seq(Listings)
  /\ Len(hw_gpus[d]) <= Cardinality(Ids)
  /\ sources[d] \in Seq(Sources)
  /\ Len(sources[d]) <= Cardinality(Ids)
  /\ done[d] \in 0 .. Cardinality(Ids)
  /\ stage[d] = "probing" => Len(sources[d]) <= done[d] /\ done[d] <= Len(hw_gpus[d])
  /\ stage[d] = "reading" => done[d] <= Len(sources[d])
  /\ DOMAIN readings[d] \subseteq Ids
  /\ \A id \in DOMAIN readings[d] : readings[d][id] \in Metrics
  /\ DOMAIN gpu_info[d] \subseteq Ids
  /\ \A id \in DOMAIN gpu_info[d] : gpu_info[d][id] \in Nvidia
  /\ shown[d] \in Seq(Metrics)
  /\ Len(shown[d]) \in {0, Len(hw_gpus[d])}

Typed == SharedTyped /\ AllTotal /\ \A d \in Devices : DeviceTyped(d)

\* There are finitely many numbers of cards, which a scan goes through.
LEMMA IdsAreCounted == Cardinality(Ids) \in Nat
  BY FS_CardinalityType

\* A function of the numbers up to n is a sequence.
LEMMA FunctionIsSequence ==
  ASSUME NEW T, NEW n \in Nat, NEW f \in [1 .. n -> T]
  PROVE  f \in Seq(T) /\ Len(f) = n /\ DOMAIN f = 1 .. n
  OBVIOUS

\* The numbers in lists.
LEMMA SourceIds ==
  ASSUME NEW s \in Seq(Sources)
  PROVE  \A k \in DOMAIN s : s[k] \in Sources /\ s[k].id \in Ids
<1>1. \A k \in DOMAIN s : s[k] \in Sources
  OBVIOUS
<1> QED
  BY <1>1 DEF Sources

\* What hwinfo enumerates has a number.
LEMMA ListingIds ==
  ASSUME NEW s \in Seq(Listings)
  PROVE  \A k \in DOMAIN s : s[k] \in Listings /\ s[k].id \in Ids
<1>1. \A k \in DOMAIN s : s[k] \in Listings
  OBVIOUS
<1> QED
  BY <1>1 DEF Listings

\* What hwinfo lists: each GPU that is present, once, under its number.
LEMMA Enumeration ==
  ASSUME SharedTyped, NEW found \in getAllGPUs
  PROVE  /\ found \in Seq(Listings)
         /\ Len(found) <= Cardinality(Ids)
         /\ \A k \in DOMAIN found : found[k].gpu = drm[found[k].id]
         /\ \A id \in Ids : drm[id] # NoGpu => \E k \in DOMAIN found : found[k].id = id
<1> DEFINE S == {id \in Ids : drm[id] # NoGpu}
           n == Cardinality(S)
<1>1. IsFiniteSet(S) /\ n \in Nat /\ n <= Cardinality(Ids)
  BY FS_Subset, FS_CardinalityType
<1>2. PICK ids \in SetToSeqs(S) :
        found = [k \in DOMAIN ids |-> [id |-> ids[k], gpu |-> drm[ids[k]]]]
  BY DEF getAllGPUs
<1>3. ids \in [1 .. n -> S] /\ ids \in Injection(1 .. n, S)
  BY <1>2 DEF SetToSeqs, Injection, IsInjective
<1>4. ids \in Surjection(1 .. n, S)
  <2>1. Cardinality(1 .. n) = n
    BY <1>1, FS_Interval
  <2> QED
    BY <1>1, <1>3, <2>1, FS_Injection
<1>5. \A id \in S : \E k \in 1 .. n : ids[k] = id
  BY <1>4 DEF Surjection
<1> HIDE DEF n
<1>6. /\ found \in [1 .. n -> Listings]
      /\ \A k \in 1 .. n : found[k].id = ids[k] /\ found[k].gpu = drm[ids[k]]
  BY <1>2, <1>3 DEF SharedTyped, Listings
<1>7. found \in Seq(Listings) /\ Len(found) = n /\ DOMAIN found = 1 .. n
  BY <1>1, <1>6, FunctionIsSequence
<1> QED
  BY <1>1, <1>5, <1>6, <1>7

\* What is read from sysfs.
LEMMA SysfsTyped ==
  ASSUME SharedTyped, NEW kinds \in SUBSET Gpus, NEW id \in Ids
  PROVE  Sysfs(kinds, id) \in Values
  BY DEF Sysfs, Values, SharedTyped

\* A reading has its type.
LEMMA MeasureTyped ==
  ASSUME SharedTyped, NEW src \in Sources
  PROVE  Measure(src) \in Metrics
<1>1. src.id \in Ids /\ src.nvml \in Nvidia \cup {NoGpu}
  BY DEF Sources
<1>2. /\ Sysfs(Amd, src.id) \in Values
      /\ Sysfs(Intel \cup (IF src.hwmon THEN Amd ELSE {}), src.id) \in Values
  BY <1>1, SysfsTyped DEF Gpus
<1>3. src.nvml # NoGpu => [gpu |-> src.nvml, by |-> "nvml"] \in Values
  BY <1>1 DEF Values, Gpus
<1> QED
  BY <1>2, <1>3 DEF Measure, Metrics

\* A row has its type.
LEMMA RowTyped ==
  ASSUME NEW gpu \in Gpus, NEW m \in Metrics
  PROVE  Row(gpu, m) \in Metrics
<1>1. [gpu |-> gpu, by |-> "hwinfo"] \in Values
  BY DEF Values
<1> QED
  BY <1>1 DEF Row, Metrics

\* The reading for a row has its type.
LEMMA MatchTyped ==
  ASSUME NEW d \in Devices, DeviceTyped(d), NEW k \in DOMAIN hw_gpus[d]
  PROVE  Match(d, k) \in Metrics
<1>1. Silent \in Metrics
  BY DEF Silent, Metrics, Values
<1> QED
  BY <1>1 DEF Match, DeviceTyped

\* A description comes from a source that NVML knows.
LEMMA DescriptionOfSource ==
  ASSUME NEW id \in DOMAIN gpu_descriptions
  PROVE  \E src \in Range(g_gpu_sources) :
           src.id = id /\ src.nvml # NoGpu /\ gpu_descriptions[id] = src.nvml
<1> DEFINE known == {src \in Range(g_gpu_sources) : src.nvml # NoGpu}
           chosen == CHOOSE src \in known : src.id = id
<1>1. id \in {src.id : src \in known} /\ gpu_descriptions[id] = chosen.nvml
  BY DEF gpu_descriptions
<1>2. chosen \in known /\ chosen.id = id
  BY <1>1
<1> QED
  BY <1>1, <1>2

\* What gpu_descriptions returns are GPUs of NVIDIA, by their numbers.
LEMMA DescriptionsTyped ==
  ASSUME SharedTyped
  PROVE  /\ DOMAIN gpu_descriptions \subseteq Ids
         /\ \A id \in DOMAIN gpu_descriptions : gpu_descriptions[id] \in Nvidia
<1>1. g_gpu_sources \in Seq(Sources)
  BY DEF SharedTyped
<1>2. \A src \in Range(g_gpu_sources) : src \in Sources
  BY <1>1 DEF Range
<1>3. \A src \in Range(g_gpu_sources) : src.id \in Ids /\ src.nvml \in Nvidia \cup {NoGpu}
  BY <1>2 DEF Sources
<1> QED
  BY <1>3, DescriptionOfSource

\* The types of the proof, device by device, are those of the model.
LEMMA TypedImpliesTypeOK == Typed => TypeOK
<1> SUFFICES ASSUME Typed PROVE TypeOK
  OBVIOUS
<1>1. stage \in [Devices -> Stages]
  BY DEF Typed, AllTotal, Total, DeviceTyped
<1>2. hw_gpus \in [Devices -> Seq(Listings)]
  BY DEF Typed, AllTotal, Total, DeviceTyped
<1>3. done \in [Devices -> Nat] /\ \A d \in Devices : done[d] <= Cardinality(Ids)
  BY IdsAreCounted DEF Typed, AllTotal, Total, DeviceTyped
<1>4. sources \in [Devices -> Seq(Sources)]
  BY DEF Typed, AllTotal, Total, DeviceTyped
<1> QED
  BY <1>1, <1>2, <1>3, <1>4 DEF Typed, SharedTyped, DeviceTyped, TypeOK

\* At first nothing was scanned.
LEMMA InitTyped == Init => Typed
<1> SUFFICES ASSUME Init PROVE Typed
  OBVIOUS
<1>1. SharedTyped
  BY IdsAreCounted DEF Init, SharedTyped
<1>2. AllTotal
  BY DEF Init, AllTotal, Total
<1>3. ASSUME NEW d \in Devices PROVE DeviceTyped(d)
  BY IdsAreCounted DEF Init, DeviceTyped, Stages
<1> QED
  BY <1>1, <1>2, <1>3 DEF Typed

\* What a device has does not change.
Same(d) ==
  /\ stage'[d] = stage[d] /\ hw_gpus'[d] = hw_gpus[d] /\ done'[d] = done[d]
  /\ sources'[d] = sources[d] /\ readings'[d] = readings[d]
  /\ gpu_info'[d] = gpu_info[d] /\ shown'[d] = shown[d]

\* A step of d.
Turn(d) ==
  \/ Reconnect(d) \/ Probe(d) \/ PublishSources(d) \/ Describe(d)
  \/ Down(d)
  \/ CopySources(d) \/ ReadSource(d) \/ PushGpus(d)

\* It leaves what the other devices have alone.
LEMMA OthersAreSame ==
  ASSUME AllTotal, NEW d \in Devices, Turn(d)
  PROVE  AllTotal' /\ \A e \in Devices \ {d} : Same(e)
<1>1. CASE Reconnect(d)
  BY <1>1 DEF Reconnect, Forget, AllTotal, Total, Same
<1>2. CASE Probe(d)
  BY <1>2 DEF Probe, AllTotal, Total, Same
<1>3. CASE PublishSources(d)
  BY <1>3 DEF PublishSources, AllTotal, Total, Same
<1>4. CASE Describe(d)
  BY <1>4 DEF Describe, AllTotal, Total, Same
<1>5. CASE Down(d)
  BY <1>5 DEF Down, Forget, AllTotal, Total, Same
<1>6. CASE CopySources(d)
  BY <1>6 DEF CopySources, AllTotal, Total, Same
<1>7. CASE ReadSource(d)
  BY <1>7 DEF ReadSource, AllTotal, Total, Same
<1>8. CASE PushGpus(d)
  BY <1>8 DEF PushGpus, AllTotal, Total, Same
<1> QED
  BY <1>1, <1>2, <1>3, <1>4, <1>5, <1>6, <1>7, <1>8 DEF Turn

\* In its own turn a device keeps its types.
LEMMA TurnTyped ==
  ASSUME Typed, NEW d \in Devices, Turn(d)
  PROVE  DeviceTyped(d)'
<1> USE IdsAreCounted
<1>0. SharedTyped /\ AllTotal /\ DeviceTyped(d)
  BY DEF Typed
<1>1. CASE Reconnect(d)
  <2>1. /\ stage'[d] = "probing" /\ done'[d] = 0
        /\ sources'[d] = <<>> /\ readings'[d] = <<>> /\ gpu_info'[d] = <<>> /\ shown'[d] = <<>>
        /\ hw_gpus'[d] \in getAllGPUs
    BY <1>0, <1>1 DEF Reconnect, Forget, AllTotal, Total
  <2> QED
    BY <1>0, <2>1, Enumeration DEF DeviceTyped, Stages
<1>2. CASE Probe(d)
  <2> DEFINE id == hw_gpus[d][done[d] + 1].id
             src == SourceOf(id)
  <2>1. id \in Ids /\ src \in Sources
    <3>1. done[d] + 1 \in 1 .. Len(hw_gpus[d])
      BY <1>0, <1>2 DEF Probe, DeviceTyped
    <3>2. hw_gpus[d][done[d] + 1] \in Listings
      BY <1>0, <3>1 DEF DeviceTyped
    <3> QED
      BY <3>2 DEF SourceOf, Sources, Listings
  <2>2. /\ stage[d] = "probing" /\ done[d] < Len(hw_gpus[d])
        /\ stage'[d] = stage[d] /\ hw_gpus'[d] = hw_gpus[d] /\ done'[d] = done[d] + 1
        /\ sources'[d] = IF drm[id] = NoGpu THEN sources[d] ELSE Append(sources[d], src)
        /\ readings'[d] = readings[d] /\ gpu_info'[d] = gpu_info[d] /\ shown'[d] = shown[d]
    BY <1>0, <1>2 DEF Probe, AllTotal, Total
  <2> HIDE DEF id, src
  <2>3. /\ sources'[d] \in Seq(Sources)
        /\ Len(sources'[d]) <= Len(sources[d]) + 1
    BY <1>0, <2>1, <2>2 DEF DeviceTyped
  <2> QED
    BY <1>0, <2>2, <2>3 DEF DeviceTyped
<1>3. CASE PublishSources(d)
  <2>1. /\ stage'[d] = "probed" /\ done'[d] = 0 /\ sources'[d] = <<>>
        /\ hw_gpus'[d] = hw_gpus[d] /\ readings'[d] = readings[d]
        /\ gpu_info'[d] = gpu_info[d] /\ shown'[d] = shown[d]
    BY <1>0, <1>3 DEF PublishSources, AllTotal, Total
  <2> QED
    BY <1>0, <2>1 DEF DeviceTyped, Stages
<1>4. CASE Describe(d)
  <2>1. /\ stage[d] = "probed" /\ stage'[d] = "up" /\ gpu_info'[d] = gpu_descriptions
        /\ hw_gpus'[d] = hw_gpus[d] /\ done'[d] = done[d] /\ sources'[d] = sources[d]
        /\ readings'[d] = readings[d] /\ shown'[d] = shown[d]
    BY <1>0, <1>4 DEF Describe, AllTotal, Total
  <2> QED
    BY <1>0, <2>1, DescriptionsTyped DEF DeviceTyped, Stages
<1>5. CASE Down(d)
  <2>1. /\ stage'[d] = "down" /\ hw_gpus'[d] = <<>> /\ done'[d] = 0
        /\ sources'[d] = <<>> /\ readings'[d] = <<>> /\ gpu_info'[d] = <<>> /\ shown'[d] = <<>>
    BY <1>0, <1>5 DEF Down, Forget, AllTotal, Total
  <2> QED
    BY <2>1 DEF DeviceTyped, Stages
<1>6. CASE CopySources(d)
  <2>1. /\ stage'[d] = "reading" /\ sources'[d] = g_gpu_sources /\ done'[d] = 0
        /\ readings'[d] = <<>> /\ hw_gpus'[d] = hw_gpus[d]
        /\ gpu_info'[d] = gpu_info[d] /\ shown'[d] = shown[d]
    BY <1>0, <1>6 DEF CopySources, AllTotal, Total
  <2> QED
    BY <1>0, <2>1 DEF SharedTyped, DeviceTyped, Stages
<1>7. CASE ReadSource(d)
  <2> DEFINE src == sources[d][done[d] + 1]
  <2>1. src \in Sources /\ done[d] < Len(sources[d])
    BY <1>0, <1>7 DEF ReadSource, DeviceTyped
  <2>2. /\ stage'[d] = "reading" /\ done'[d] = done[d] + 1
        /\ readings'[d] = [id \in DOMAIN readings[d] \cup {src.id} |->
                             IF id = src.id THEN Measure(src) ELSE readings[d][id]]
        /\ sources'[d] = sources[d] /\ hw_gpus'[d] = hw_gpus[d]
        /\ gpu_info'[d] = gpu_info[d] /\ shown'[d] = shown[d]
    BY <1>0, <1>7 DEF ReadSource, AllTotal, Total
  <2>3. Measure(src) \in Metrics /\ src.id \in Ids
    BY <1>0, <2>1, MeasureTyped DEF Sources
  <2> HIDE DEF src
  <2> QED
    BY <1>0, <2>1, <2>2, <2>3 DEF DeviceTyped, Stages
<1>8. CASE PushGpus(d)
  <2>1. /\ stage'[d] = "up" /\ done'[d] = 0 /\ sources'[d] = <<>> /\ readings'[d] = <<>>
        /\ shown'[d] = [k \in DOMAIN hw_gpus[d] |-> Row(hw_gpus[d][k].gpu, Match(d, k))]
        /\ hw_gpus'[d] = hw_gpus[d] /\ gpu_info'[d] = gpu_info[d]
    BY <1>0, <1>8 DEF PushGpus, AllTotal, Total
  <2>2. ASSUME NEW k \in 1 .. Len(hw_gpus[d])
        PROVE  Row(hw_gpus[d][k].gpu, Match(d, k)) \in Metrics
    <3>1. hw_gpus[d][k] \in Listings /\ k \in DOMAIN hw_gpus[d]
      BY <1>0 DEF DeviceTyped
    <3> QED
      BY <1>0, <3>1, MatchTyped, RowTyped DEF Listings
  <2>3. DOMAIN hw_gpus[d] = 1 .. Len(hw_gpus[d]) /\ Len(hw_gpus[d]) \in Nat
    BY <1>0 DEF DeviceTyped
  <2>4. shown'[d] \in [1 .. Len(hw_gpus[d]) -> Metrics]
    BY <2>1, <2>2, <2>3
  <2>5. shown'[d] \in Seq(Metrics) /\ Len(shown'[d]) = Len(hw_gpus[d])
    BY <2>3, <2>4, FunctionIsSequence
  <2> QED
    BY <1>0, <2>1, <2>5 DEF DeviceTyped, Stages
<1> QED
  BY <1>1, <1>2, <1>3, <1>4, <1>5, <1>6, <1>7, <1>8 DEF Turn

\* In its own turn a device keeps the types of what is shared.
LEMMA TurnSharedTyped ==
  ASSUME Typed, NEW d \in Devices, Turn(d)
  PROVE  SharedTyped'
<1>0. SharedTyped /\ AllTotal /\ DeviceTyped(d)
  BY DEF Typed
<1>1. CASE Reconnect(d)
  BY <1>0, <1>1 DEF Reconnect, WhileProbing, SharedTyped
<1>2. CASE PublishSources(d)
  BY <1>0, <1>2 DEF PublishSources, SharedTyped, DeviceTyped
<1>3. CASE Down(d)
  BY <1>0, <1>3 DEF Down, SharedTyped
<1>4. CASE \/ Probe(d) \/ Describe(d) \/ CopySources(d) \/ ReadSource(d) \/ PushGpus(d)
  BY <1>0, <1>4 DEF Probe, Describe, CopySources, ReadSource, PushGpus, SharedTyped
<1> QED
  BY <1>1, <1>2, <1>3, <1>4 DEF Turn

\* A GPU that comes or goes changes nothing of the devices.
LEMMA ChangeIsOutside ==
  ASSUME Typed, NEW cards, Change(cards)
  PROVE  /\ AllTotal' /\ \A d \in Devices : Same(d)
         /\ nvml' = nvml /\ g_gpu_sources' = g_gpu_sources
         /\ calm' = [d \in Devices |-> FALSE]
  BY DEF Change, codeVars, Typed, AllTotal, Total, Same

\* What is the same has the same type.
LEMMA SameIsTyped ==
  ASSUME NEW d \in Devices, DeviceTyped(d), Same(d)
  PROVE  DeviceTyped(d)'
  BY DEF DeviceTyped, Same

\* A GPU that comes or goes changes no type.
LEMMA ChangeTyped ==
  ASSUME Typed, NEW cards \in [Ids -> Gpus \cup {NoGpu}], Change(cards)
  PROVE  Typed'
<1>1. SharedTyped'
  BY DEF Change, codeVars, Typed, SharedTyped
<1>2. AllTotal' /\ \A d \in Devices : Same(d)
  BY ChangeIsOutside
<1>3. \A d \in Devices : DeviceTyped(d)'
  BY <1>2, SameIsTyped DEF Typed
<1> QED
  BY <1>1, <1>2, <1>3 DEF Typed

\* Every step is a change of the system, a turn of a device, or no step.
LEMMA Steps ==
  ASSUME [Next]_vars
  PROVE  \/ \E gpu \in Gpus, id \in Ids : Plug(gpu, id)
         \/ \E id \in Ids : Unplug(id)
         \/ \E d \in Devices : Turn(d)
         \/ UNCHANGED vars
  BY DEF Next, Turn

\* Every step keeps the types.
LEMMA StepTyped == Typed /\ [Next]_vars => Typed'
<1> SUFFICES ASSUME Typed, [Next]_vars PROVE Typed'
  OBVIOUS
<1>1. ASSUME NEW gpu \in Gpus, NEW id \in Ids, Plug(gpu, id)
      PROVE  Typed'
  <2>1. [drm EXCEPT ![id] = gpu] \in [Ids -> Gpus \cup {NoGpu}]
    BY DEF Typed, SharedTyped
  <2> QED
    BY <1>1, <2>1, ChangeTyped DEF Plug
<1>2. ASSUME NEW id \in Ids, Unplug(id)
      PROVE  Typed'
  <2>1. [drm EXCEPT ![id] = NoGpu] \in [Ids -> Gpus \cup {NoGpu}]
    BY DEF Typed, SharedTyped
  <2> QED
    BY <1>2, <2>1, ChangeTyped DEF Unplug
<1>3. ASSUME NEW d \in Devices, Turn(d)
      PROVE  Typed'
  <2>1. \A e \in Devices \ {d} : DeviceTyped(e)'
    BY <1>3, OthersAreSame, SameIsTyped DEF Typed
  <2> QED
    BY <1>3, <2>1, TurnTyped, TurnSharedTyped, OthersAreSame DEF Typed
<1>4. CASE UNCHANGED vars
  <2>1. SharedTyped' /\ AllTotal'
    BY <1>4 DEF vars, codeVars, Typed, SharedTyped, AllTotal, Total
  <2>2. \A d \in Devices : Same(d)
    BY <1>4 DEF vars, codeVars, Same
  <2> QED
    BY <2>1, <2>2, SameIsTyped DEF Typed
<1> QED
  BY <1>1, <1>2, <1>3, <1>4, Steps

\* The types, in every behavior.
LEMMA TypedInvariant == Spec => []Typed
  BY InitTyped, StepTyped, PTL DEF Spec

\* Everything the scans find, the workers read and the trees show has its
\* type, for any devices, card numbers and GPUs.
THEOREM GpuTypeCorrect == Spec => []TypeOK
  BY TypedInvariant, TypedImpliesTypeOK, PTL

-----------------------------------------------------------------------------
(***************************************************************************)
(* What is known of a card number comes from GPUs that had it              *)
(***************************************************************************)

Heard(gpu, id) == gpu \in held[id] \cup {NoGpu}

AllHeard(m, id) ==
  Heard(m.memory_total.gpu, id) /\ Heard(m.memory_used.gpu, id) /\ Heard(m.clock.gpu, id)

SharedTraced ==
  /\ \A id \in Ids : Heard(drm[id], id)
  /\ \A k \in DOMAIN g_gpu_sources : Heard(g_gpu_sources[k].nvml, g_gpu_sources[k].id)

DeviceTraced(d) ==
  /\ \A k \in DOMAIN sources[d] : Heard(sources[d][k].nvml, sources[d][k].id)
  /\ \A k \in DOMAIN hw_gpus[d] : Heard(hw_gpus[d][k].gpu, hw_gpus[d][k].id)
  /\ \A id \in DOMAIN readings[d] : AllHeard(readings[d][id], id)
  /\ \A id \in DOMAIN gpu_info[d] : Heard(gpu_info[d][id], id)
  /\ \A k \in DOMAIN shown[d] : AllHeard(shown[d][k], hw_gpus[d][k].id)

Traced == SharedTraced /\ \A d \in Devices : DeviceTraced(d)

\* Which is why a row is of its GPU if that is the only one that had its
\* number.
LEMMA TracedRows == Typed /\ Traced => RowsAreOfTheirGpu
<1> SUFFICES ASSUME Typed, Traced,
                    NEW d \in Devices, NEW k \in DOMAIN hw_gpus[d],
                    held[hw_gpus[d][k].id] = {hw_gpus[d][k].gpu}
             PROVE  LET id == hw_gpus[d][k].id
                        gpu == hw_gpus[d][k].gpu
                    IN  /\ id \in DOMAIN gpu_info[d] => gpu_info[d][id] = gpu
                        /\ shown[d] # <<>> =>
                             \A field \in {"memory_total", "memory_used", "clock"} :
                               shown[d][k][field].gpu \in {gpu, NoGpu}
  BY DEF RowsAreOfTheirGpu
<1> DEFINE id == hw_gpus[d][k].id
           gpu == hw_gpus[d][k].gpu
<1>1. ASSUME id \in DOMAIN gpu_info[d]
      PROVE  gpu_info[d][id] = gpu
  <2>1. gpu_info[d][id] \in Nvidia /\ Heard(gpu_info[d][id], id)
    BY <1>1 DEF Typed, DeviceTyped, Traced, DeviceTraced
  <2> QED
    BY <2>1 DEF Heard, Gpus
<1>2. ASSUME shown[d] # <<>>
      PROVE  \A field \in {"memory_total", "memory_used", "clock"} :
               shown[d][k][field].gpu \in {gpu, NoGpu}
  <2>1. shown[d] \in Seq(Metrics) /\ Len(shown[d]) \in {0, Len(hw_gpus[d])}
    BY DEF Typed, DeviceTyped
  <2>2. Len(shown[d]) # 0
    BY <1>2, <2>1
  <2>3. hw_gpus[d] \in Seq(Listings)
    BY DEF Typed, DeviceTyped
  <2>4. k \in DOMAIN shown[d]
    BY <2>1, <2>2, <2>3
  <2>5. AllHeard(shown[d][k], id)
    BY <2>4 DEF Traced, DeviceTraced
  <2> QED
    BY <2>5 DEF AllHeard, Heard
<1> QED
  BY <1>1, <1>2

\* At first there is nothing to trace.
LEMMA InitTraced == Init => Traced
<1> SUFFICES ASSUME Init PROVE Traced
  OBVIOUS
<1>1. SharedTraced
  BY DEF Init, SharedTraced, Heard
<1>2. ASSUME NEW d \in Devices PROVE DeviceTraced(d)
  BY DEF Init, DeviceTraced
<1> QED
  BY <1>1, <1>2 DEF Traced

\* What is the same keeps its trace: what was heard is not forgotten.
LEMMA SameIsTraced ==
  ASSUME Typed, \A id \in Ids : held[id] \subseteq held'[id],
         NEW d \in Devices, DeviceTraced(d), Same(d)
  PROVE  DeviceTraced(d)'
<1>1. \A id \in Ids : \A gpu : Heard(gpu, id) => Heard(gpu, id)'
  BY DEF Heard
<1>2. DeviceTyped(d)
  BY DEF Typed
<1>3. \A k \in DOMAIN sources'[d] : Heard(sources[d][k].nvml, sources[d][k].id)'
  <2>1. \A k \in DOMAIN sources[d] : sources[d][k].id \in Ids
    BY <1>2, SourceIds DEF DeviceTyped
  <2> QED
    BY <1>1, <2>1 DEF Same, DeviceTraced, Heard
<1>4. \A k \in DOMAIN hw_gpus[d] : hw_gpus[d][k].id \in Ids
  BY <1>2, ListingIds DEF DeviceTyped
<1>5. \A k \in DOMAIN hw_gpus'[d] : Heard(hw_gpus[d][k].gpu, hw_gpus[d][k].id)'
  BY <1>1, <1>4 DEF Same, DeviceTraced, Heard
<1>6. \A id \in DOMAIN readings'[d] : AllHeard(readings[d][id], id)'
  BY <1>1, <1>2 DEF Same, DeviceTyped, DeviceTraced, AllHeard, Heard
<1>7. \A id \in DOMAIN gpu_info'[d] : Heard(gpu_info[d][id], id)'
  BY <1>1, <1>2 DEF Same, DeviceTyped, DeviceTraced, Heard
<1>8. \A k \in DOMAIN shown'[d] : AllHeard(shown[d][k], hw_gpus[d][k].id)'
  <2>1. DOMAIN shown[d] \subseteq DOMAIN hw_gpus[d]
    BY <1>2 DEF DeviceTyped
  <2> QED
    BY <1>1, <1>4, <2>1 DEF Same, DeviceTraced, AllHeard, Heard
<1> QED
  BY <1>3, <1>5, <1>6, <1>7, <1>8 DEF DeviceTraced

\* What is read under a number is of a GPU that has it, or of the one that
\* the handle is of.
LEMMA MeasureHeard ==
  ASSUME SharedTraced, NEW src \in Sources, Heard(src.nvml, src.id)
  PROVE  AllHeard(Measure(src), src.id)
<1>1. \A kinds : Heard(Sysfs(kinds, src.id).gpu, src.id)
  BY DEF Sysfs, Unread, SharedTraced, Heard, Sources
<1> QED
  BY <1>1 DEF Measure, AllHeard

\* A row falls back to the GPU that was listed.
LEMMA RowHeard ==
  ASSUME NEW d \in Devices, DeviceTraced(d), NEW k \in DOMAIN hw_gpus[d]
  PROVE  AllHeard(Row(hw_gpus[d][k].gpu, Match(d, k)), hw_gpus[d][k].id)
<1>1. AllHeard(Silent, hw_gpus[d][k].id)
  BY DEF Silent, Unread, AllHeard, Heard
<1>2. AllHeard(Match(d, k), hw_gpus[d][k].id)
  BY <1>1 DEF Match, DeviceTraced
<1>3. Heard(hw_gpus[d][k].gpu, hw_gpus[d][k].id)
  BY DEF DeviceTraced
<1> HIDE DEF Match
<1> QED
  BY <1>2, <1>3 DEF Row, AllHeard

\* In its own turn a device keeps the trace of everything.
LEMMA TurnTraced ==
  ASSUME Typed, Traced, NEW d \in Devices, Turn(d)
  PROVE  SharedTraced' /\ DeviceTraced(d)'
<1>0. /\ SharedTyped /\ AllTotal /\ DeviceTyped(d)
      /\ SharedTraced /\ DeviceTraced(d)
  BY DEF Typed, Traced
<1>1. CASE Reconnect(d)
  <2>1. /\ sources'[d] = <<>> /\ readings'[d] = <<>> /\ gpu_info'[d] = <<>> /\ shown'[d] = <<>>
        /\ hw_gpus'[d] \in getAllGPUs
        /\ g_gpu_sources' = g_gpu_sources /\ drm' = drm /\ held' = held
    BY <1>0, <1>1 DEF Reconnect, Forget, WhileProbing, AllTotal, Total
  <2>2. \A k \in DOMAIN hw_gpus'[d] :
          hw_gpus'[d][k].id \in Ids /\ hw_gpus'[d][k].gpu = drm[hw_gpus'[d][k].id]
    <3>1. hw_gpus'[d] \in Seq(Listings)
      BY <1>0, <2>1, Enumeration
    <3> QED
      BY <1>0, <2>1, <3>1, ListingIds, Enumeration
  <2>3. \A k \in DOMAIN hw_gpus'[d] : Heard(hw_gpus'[d][k].gpu, hw_gpus'[d][k].id)
    BY <1>0, <2>2 DEF SharedTraced
  <2>4. SharedTraced'
    BY <1>0, <2>1 DEF SharedTraced, Heard
  <2>5. \A k \in DOMAIN hw_gpus'[d] : Heard(hw_gpus[d][k].gpu, hw_gpus[d][k].id)'
    BY <2>1, <2>3 DEF Heard
  <2>6. /\ DOMAIN sources'[d] = {} /\ DOMAIN readings'[d] = {}
        /\ DOMAIN gpu_info'[d] = {} /\ DOMAIN shown'[d] = {}
    BY <2>1
  <2> QED
    BY <2>4, <2>5, <2>6 DEF DeviceTraced
<1>2. CASE Probe(d)
  <2> DEFINE id == hw_gpus[d][done[d] + 1].id
             src == SourceOf(id)
  <2>1. id \in Ids
    <3>1. done[d] + 1 \in 1 .. Len(hw_gpus[d])
      BY <1>0, <1>2, IdsAreCounted DEF Probe, DeviceTyped
    <3>2. hw_gpus[d][done[d] + 1] \in Listings
      BY <1>0, <3>1 DEF DeviceTyped
    <3> QED
      BY <3>2 DEF Listings
  <2>2. src \in Sources /\ Heard(src.nvml, src.id)
    <3>1. src.nvml \in {drm[id], NoGpu} /\ src.id = id /\ src \in Sources
      BY <2>1 DEF SourceOf, Sources
    <3>2. Heard(drm[id], id) /\ Heard(NoGpu, id)
      BY <1>0, <2>1 DEF SharedTraced, Heard
    <3> HIDE DEF src
    <3> QED
      BY <3>1, <3>2
  <2>3. /\ hw_gpus'[d] = hw_gpus[d]
        /\ sources'[d] = IF drm[id] = NoGpu THEN sources[d] ELSE Append(sources[d], src)
        /\ readings'[d] = readings[d] /\ gpu_info'[d] = gpu_info[d] /\ shown'[d] = shown[d]
        /\ g_gpu_sources' = g_gpu_sources /\ drm' = drm /\ held' = held
    BY <1>0, <1>2 DEF Probe, AllTotal, Total
  <2> HIDE DEF id, src
  <2>4. sources[d] \in Seq(Sources)
    BY <1>0 DEF DeviceTyped
  <2>5. \A k \in DOMAIN sources'[d] :
          sources'[d][k] = src \/ (k \in DOMAIN sources[d] /\ sources'[d][k] = sources[d][k])
    BY <2>2, <2>3, <2>4
  <2>6. \A k \in DOMAIN sources'[d] : Heard(sources'[d][k].nvml, sources'[d][k].id)
    BY <1>0, <2>2, <2>5 DEF DeviceTraced
  <2> QED
    BY <1>0, <2>3, <2>6 DEF SharedTraced, DeviceTraced, AllHeard, Heard
<1>3. CASE PublishSources(d)
  <2>1. /\ sources'[d] = <<>> /\ hw_gpus'[d] = hw_gpus[d] /\ readings'[d] = readings[d]
        /\ gpu_info'[d] = gpu_info[d] /\ shown'[d] = shown[d]
        /\ g_gpu_sources' = sources[d] /\ drm' = drm /\ held' = held
    BY <1>0, <1>3 DEF PublishSources, AllTotal, Total
  <2>2. SharedTraced'
    BY <1>0, <2>1 DEF SharedTraced, DeviceTraced, Heard
  <2>3. DOMAIN sources'[d] = {}
    BY <2>1
  <2>4. /\ \A k \in DOMAIN hw_gpus'[d] : Heard(hw_gpus[d][k].gpu, hw_gpus[d][k].id)'
        /\ \A id \in DOMAIN gpu_info'[d] : Heard(gpu_info[d][id], id)'
    BY <1>0, <2>1 DEF DeviceTraced, Heard
  <2>5. /\ \A id \in DOMAIN readings'[d] : AllHeard(readings[d][id], id)'
        /\ \A k \in DOMAIN shown'[d] : AllHeard(shown[d][k], hw_gpus[d][k].id)'
    BY <1>0, <2>1 DEF DeviceTraced, AllHeard, Heard
  <2> QED
    BY <2>2, <2>3, <2>4, <2>5 DEF DeviceTraced
<1>4. CASE Describe(d)
  <2>1. /\ gpu_info'[d] = gpu_descriptions /\ hw_gpus'[d] = hw_gpus[d]
        /\ sources'[d] = sources[d] /\ readings'[d] = readings[d] /\ shown'[d] = shown[d]
        /\ g_gpu_sources' = g_gpu_sources /\ drm' = drm /\ held' = held
    BY <1>0, <1>4 DEF Describe, AllTotal, Total
  <2>2. \A id \in DOMAIN gpu_descriptions : Heard(gpu_descriptions[id], id)
    BY <1>0, DescriptionOfSource DEF SharedTraced, Range
  <2> QED
    BY <1>0, <2>1, <2>2 DEF SharedTraced, DeviceTraced, AllHeard, Heard
<1>5. CASE Down(d)
  <2>1. /\ hw_gpus'[d] = <<>> /\ sources'[d] = <<>> /\ readings'[d] = <<>>
        /\ gpu_info'[d] = <<>> /\ shown'[d] = <<>>
        /\ g_gpu_sources' = g_gpu_sources /\ drm' = drm /\ held' = held
    BY <1>0, <1>5 DEF Down, Forget, AllTotal, Total
  <2> QED
    BY <1>0, <2>1 DEF SharedTraced, DeviceTraced, Heard
<1>6. CASE CopySources(d)
  <2>1. /\ sources'[d] = g_gpu_sources /\ readings'[d] = <<>> /\ hw_gpus'[d] = hw_gpus[d]
        /\ gpu_info'[d] = gpu_info[d] /\ shown'[d] = shown[d]
        /\ g_gpu_sources' = g_gpu_sources /\ drm' = drm /\ held' = held
    BY <1>0, <1>6 DEF CopySources, AllTotal, Total
  <2>2. SharedTraced'
    BY <1>0, <2>1 DEF SharedTraced, Heard
  <2>3. DOMAIN readings'[d] = {}
    BY <2>1
  <2>4. \A k \in DOMAIN sources'[d] : Heard(sources[d][k].nvml, sources[d][k].id)'
    BY <1>0, <2>1 DEF SharedTraced, Heard
  <2>5. /\ \A k \in DOMAIN hw_gpus'[d] : Heard(hw_gpus[d][k].gpu, hw_gpus[d][k].id)'
        /\ \A id \in DOMAIN gpu_info'[d] : Heard(gpu_info[d][id], id)'
    BY <1>0, <2>1 DEF DeviceTraced, Heard
  <2>6. \A k \in DOMAIN shown'[d] : AllHeard(shown[d][k], hw_gpus[d][k].id)'
    BY <1>0, <2>1 DEF DeviceTraced, AllHeard, Heard
  <2> QED
    BY <2>2, <2>3, <2>4, <2>5, <2>6 DEF DeviceTraced
<1>7. CASE ReadSource(d)
  <2> DEFINE src == sources[d][done[d] + 1]
  <2>1. src \in Sources /\ Heard(src.nvml, src.id)
    <3>1. done[d] + 1 \in DOMAIN sources[d]
      BY <1>0, <1>7, IdsAreCounted DEF ReadSource, DeviceTyped
    <3>2. src \in Sources
      BY <1>0, <3>1 DEF DeviceTyped
    <3> QED
      BY <1>0, <3>1, <3>2 DEF DeviceTraced
  <2>2. /\ readings'[d] = [id \in DOMAIN readings[d] \cup {src.id} |->
                             IF id = src.id THEN Measure(src) ELSE readings[d][id]]
        /\ sources'[d] = sources[d] /\ hw_gpus'[d] = hw_gpus[d]
        /\ gpu_info'[d] = gpu_info[d] /\ shown'[d] = shown[d]
        /\ g_gpu_sources' = g_gpu_sources /\ drm' = drm /\ held' = held
    BY <1>0, <1>7 DEF ReadSource, AllTotal, Total
  <2>3. AllHeard(Measure(src), src.id)
    BY <1>0, <2>1, MeasureHeard
  <2> HIDE DEF src
  <2>4. \A id \in DOMAIN readings'[d] : AllHeard(readings'[d][id], id)
    BY <1>0, <2>2, <2>3 DEF DeviceTraced
  <2> QED
    BY <1>0, <2>2, <2>4 DEF SharedTraced, DeviceTraced, AllHeard, Heard
<1>8. CASE PushGpus(d)
  <2>1. /\ sources'[d] = <<>> /\ readings'[d] = <<>>
        /\ shown'[d] = [k \in DOMAIN hw_gpus[d] |-> Row(hw_gpus[d][k].gpu, Match(d, k))]
        /\ hw_gpus'[d] = hw_gpus[d] /\ gpu_info'[d] = gpu_info[d]
        /\ g_gpu_sources' = g_gpu_sources /\ drm' = drm /\ held' = held
    BY <1>0, <1>8 DEF PushGpus, AllTotal, Total
  <2>2. \A k \in DOMAIN shown'[d] : AllHeard(shown'[d][k], hw_gpus[d][k].id)
    BY <1>0, <2>1, RowHeard
  <2>3. \A k \in DOMAIN shown'[d] : AllHeard(shown[d][k], hw_gpus[d][k].id)'
    BY <2>1, <2>2 DEF AllHeard, Heard
  <2>4. SharedTraced'
    BY <1>0, <2>1 DEF SharedTraced, Heard
  <2>5. DOMAIN sources'[d] = {} /\ DOMAIN readings'[d] = {}
    BY <2>1
  <2>6. /\ \A k \in DOMAIN hw_gpus'[d] : Heard(hw_gpus[d][k].gpu, hw_gpus[d][k].id)'
        /\ \A id \in DOMAIN gpu_info'[d] : Heard(gpu_info[d][id], id)'
    BY <1>0, <2>1 DEF DeviceTraced, Heard
  <2> QED
    BY <2>3, <2>4, <2>5, <2>6 DEF DeviceTraced
<1> QED
  BY <1>1, <1>2, <1>3, <1>4, <1>5, <1>6, <1>7, <1>8 DEF Turn

\* A GPU that comes or goes is heard of.
LEMMA ChangeTraced ==
  ASSUME Typed, Traced, NEW cards \in [Ids -> Gpus \cup {NoGpu}], Change(cards)
  PROVE  Traced'
<1>1. /\ drm' = cards /\ g_gpu_sources' = g_gpu_sources
      /\ \A id \in Ids : held'[id] = held[id] \cup ({cards[id]} \ {NoGpu})
  BY DEF Change, codeVars, Typed, SharedTyped
<1>2. \A id \in Ids : held[id] \subseteq held'[id]
  BY <1>1
<1>3. \A k \in DOMAIN g_gpu_sources : g_gpu_sources[k].id \in Ids
  BY SourceIds DEF Typed, SharedTyped
<1>4. SharedTraced'
  BY <1>1, <1>3 DEF Traced, SharedTraced, Heard
<1>5. \A d \in Devices : DeviceTraced(d)'
  BY <1>2, ChangeIsOutside, SameIsTraced DEF Traced
<1> QED
  BY <1>4, <1>5 DEF Traced

\* Every step keeps the traces.
LEMMA StepTraced == Typed /\ Traced /\ [Next]_vars => Traced'
<1> SUFFICES ASSUME Typed, Traced, [Next]_vars PROVE Traced'
  OBVIOUS
<1>1. ASSUME NEW gpu \in Gpus, NEW id \in Ids, Plug(gpu, id)
      PROVE  Traced'
  <2>1. [drm EXCEPT ![id] = gpu] \in [Ids -> Gpus \cup {NoGpu}]
    BY DEF Typed, SharedTyped
  <2> QED
    BY <1>1, <2>1, ChangeTraced DEF Plug
<1>2. ASSUME NEW id \in Ids, Unplug(id)
      PROVE  Traced'
  <2>1. [drm EXCEPT ![id] = NoGpu] \in [Ids -> Gpus \cup {NoGpu}]
    BY DEF Typed, SharedTyped
  <2> QED
    BY <1>2, <2>1, ChangeTraced DEF Unplug
<1>3. ASSUME NEW d \in Devices, Turn(d)
      PROVE  Traced'
  <2>1. held' = held
    BY <1>3 DEF Turn, Reconnect, Probe, PublishSources, Describe, Down,
                CopySources, ReadSource, PushGpus
  <2>2. \A e \in Devices \ {d} : DeviceTraced(e)'
    BY <1>3, <2>1, OthersAreSame, SameIsTraced DEF Typed, Traced
  <2> QED
    BY <1>3, <2>2, TurnTraced DEF Traced
<1>4. CASE UNCHANGED vars
  <2>1. /\ g_gpu_sources' = g_gpu_sources /\ drm' = drm /\ held' = held
        /\ \A d \in Devices : Same(d)
    BY <1>4 DEF vars, codeVars, Same
  <2>2. SharedTraced'
    BY <2>1 DEF Traced, SharedTraced, Heard
  <2>3. \A d \in Devices : DeviceTraced(d)'
    BY <2>1, SameIsTraced DEF Traced
  <2> QED
    BY <2>2, <2>3 DEF Traced
<1> QED
  BY <1>1, <1>2, <1>3, <1>4, Steps

\* What is shown and described under a number is of the GPU that has it, if
\* no other ever had it, whichever device scanned last.
THEOREM RowsOfTheirGpu == Spec => []RowsAreOfTheirGpu
<1>1. Spec => []Traced
  BY TypedInvariant, InitTraced, StepTraced, PTL DEF Spec
<1> QED
  BY <1>1, TypedInvariant, TracedRows, PTL

-----------------------------------------------------------------------------
(***************************************************************************)
(* A list that was made since the last GPU came or went is complete        *)
(***************************************************************************)

Accurate(list) ==
  \A k \in DOMAIN list : drm[list[k].id] # NoGpu /\ list[k] = SourceOf(list[k].id)

Lists(list, id) == \E k \in DOMAIN list : list[k].id = id

Full(list) == Accurate(list) /\ \A id \in Ids : drm[id] # NoGpu => Lists(list, id)

Described(d) ==
  nvml # {} =>
    DOMAIN gpu_info[d] = {g.id : g \in {h \in Range(hw_gpus[d]) : h.gpu \in Nvidia}}

FullListing(d) ==
  /\ \A k \in DOMAIN hw_gpus[d] : hw_gpus[d][k].gpu = drm[hw_gpus[d][k].id]
  /\ \A id \in Ids : drm[id] # NoGpu => Lists(hw_gpus[d], id)

CalmDevice(d) ==
  /\ stage[d] # "down"
  /\ FullListing(d)
  /\ stage[d] = "probing" =>
       Accurate(sources[d]) /\ \A k \in 1 .. done[d] : Lists(sources[d], hw_gpus[d][k].id)
  /\ stage[d] \in {"probed", "up", "reading"} => Full(g_gpu_sources)
  /\ stage[d] = "reading" =>
       /\ Full(sources[d])
       /\ \A id \in DOMAIN readings[d] : readings[d][id] = Measure(SourceOf(id))
       /\ \A k \in 1 .. done[d] : sources[d][k].id \in DOMAIN readings[d]
  /\ stage[d] \in {"up", "reading"} => Described(d)
  /\ \A k \in DOMAIN shown[d] : Complete(shown[d][k], hw_gpus[d][k].gpu)

\* The scans that could still replace the list are as recent as the last one.
CalmScans ==
  \A d \in Devices : calm[d] => \A e \in Devices : Scanning(e) => calm[e]

Calm == CalmScans /\ \A d \in Devices : calm[d] => CalmDevice(d)

\* Devices that were calm since their scan show all that there is to read.
LEMMA CalmIsSafe == Calm => RescanIsSafe
  BY DEF Calm, CalmDevice, Described, RescanIsSafe

\* At first no device is connected.
LEMMA InitCalm == Init => Calm
  BY DEF Init, Calm, CalmScans

\* What is read of a GPU that is there is all that there is to read of it.
LEMMA MeasuredIsComplete ==
  ASSUME SharedTyped, NEW id \in Ids, drm[id] # NoGpu
  PROVE  Complete(Row(drm[id], Measure(SourceOf(id))), drm[id])
<1> DEFINE gpu == drm[id]
           src == SourceOf(id)
           m == Measure(src)
<1>1. gpu \in Gpus /\ Present(gpu)
  BY DEF SharedTyped, Present
<1>2. src.id = id /\ src.hwmon = (gpu \in Amd)
      /\ src.nvml = IF nvml # {} /\ gpu \in Nvidia THEN gpu ELSE NoGpu
  BY DEF SourceOf
<1>3. nvml # {} => "memory_info" \in nvml
  BY DEF SharedTyped, Libraries
<1> HIDE DEF gpu, src, m
<1>4. ASSUME gpu \in Amd PROVE Complete(Row(gpu, m), gpu)
  <2>1. gpu \notin Nvidia /\ gpu \notin Intel /\ src.nvml = NoGpu /\ src.hwmon
    BY <1>2, <1>4
  <2>2. /\ m.memory_total = [gpu |-> gpu, by |-> "sysfs"]
        /\ m.memory_used = [gpu |-> gpu, by |-> "sysfs"]
        /\ m.clock = [gpu |-> gpu, by |-> "sysfs"]
    BY <1>2, <1>4, <2>1 DEF m, Measure, Sysfs, gpu
  <2> QED
    BY <1>4, <2>1, <2>2 DEF Row, Complete, Unread
<1>5. ASSUME gpu \in Intel PROVE Complete(Row(gpu, m), gpu)
  <2>1. gpu \notin Nvidia /\ gpu \notin Amd /\ src.nvml = NoGpu
    BY <1>2, <1>5
  <2>2. /\ m.memory_total = Unread /\ m.memory_used = Unread
        /\ m.clock = [gpu |-> gpu, by |-> "sysfs"]
    BY <1>2, <1>5, <2>1 DEF m, Measure, Sysfs, gpu
  <2> QED
    BY <1>5, <2>1, <2>2 DEF Row, Complete, Unread
<1>6. ASSUME gpu \in Nvidia PROVE Complete(Row(gpu, m), gpu)
  <2>1. gpu \notin Amd /\ gpu \notin Intel
    BY <1>6
  <2>2. /\ m.memory_total = m.memory_used
        /\ m.memory_total = IF "memory_info" \in nvml THEN [gpu |-> gpu, by |-> "nvml"]
                                                      ELSE Unread
        /\ m.clock = IF "clock_info" \in nvml THEN [gpu |-> gpu, by |-> "nvml"] ELSE Unread
    BY <1>1, <1>2, <1>6, <2>1 DEF m, Measure, Sysfs, gpu, Gpus
  <2> QED
    BY <1>6, <2>1, <2>2 DEF Row, Complete, Unread
<1> QED
  BY <1>1, <1>4, <1>5, <1>6 DEF Gpus, gpu, src, m

\* What a full list describes is every NVIDIA GPU there is.
LEMMA DescriptionsAreFull ==
  ASSUME SharedTyped, Full(g_gpu_sources), nvml # {}
  PROVE  DOMAIN gpu_descriptions = {id \in Ids : drm[id] \in Nvidia}
<1>1. \A k \in DOMAIN g_gpu_sources :
        /\ g_gpu_sources[k].id \in Ids
        /\ g_gpu_sources[k].nvml = IF drm[g_gpu_sources[k].id] \in Nvidia
                                     THEN drm[g_gpu_sources[k].id] ELSE NoGpu
  BY SourceIds DEF SharedTyped, Full, Accurate, SourceOf
<1>2. DOMAIN gpu_descriptions = {src.id : src \in {s \in Range(g_gpu_sources) : s.nvml # NoGpu}}
  BY DEF gpu_descriptions
<1>3. NoGpu \notin Nvidia
  BY DEF Gpus
<1>4. ASSUME NEW id \in DOMAIN gpu_descriptions
      PROVE  id \in Ids /\ drm[id] \in Nvidia
  <2>1. PICK k \in DOMAIN g_gpu_sources : g_gpu_sources[k].nvml # NoGpu /\ g_gpu_sources[k].id = id
    BY <1>2, <1>4 DEF Range
  <2> QED
    BY <1>1, <2>1
<1>5. ASSUME NEW id \in Ids, drm[id] \in Nvidia
      PROVE  id \in DOMAIN gpu_descriptions
  <2>1. PICK k \in DOMAIN g_gpu_sources : g_gpu_sources[k].id = id
    BY <1>3, <1>5 DEF Full, Lists
  <2>2. g_gpu_sources[k].nvml # NoGpu /\ g_gpu_sources[k] \in Range(g_gpu_sources)
    BY <1>1, <1>3, <1>5, <2>1 DEF Range
  <2> QED
    BY <1>2, <2>1, <2>2
<1> QED
  BY <1>4, <1>5

\* Nothing that keeps the cards and what d listed of them changes a listing.
LEMMA ListingStays ==
  ASSUME NEW d \in Devices, FullListing(d), hw_gpus'[d] = hw_gpus[d], drm' = drm
  PROVE  FullListing(d)'
  BY DEF FullListing, Lists

\* What is calm and the same stays complete as long as the shared list does.
LEMMA SameIsCalm ==
  ASSUME NEW d \in Devices, CalmDevice(d), Same(d), drm' = drm, nvml' = nvml,
         stage[d] \in {"probed", "up", "reading"} => Full(g_gpu_sources)'
  PROVE  CalmDevice(d)'
<1>1. /\ \A k \in DOMAIN hw_gpus'[d] : hw_gpus'[d][k].gpu = drm'[hw_gpus'[d][k].id]
      /\ \A id \in Ids : drm'[id] # NoGpu => Lists(hw_gpus'[d], id)
      /\ stage'[d] # "down"
  BY DEF CalmDevice, FullListing, Same, Lists
<1>2. ASSUME stage'[d] = "probing"
      PROVE  /\ Accurate(sources[d])'
             /\ \A k \in 1 .. done'[d] : Lists(sources'[d], hw_gpus'[d][k].id)
  BY <1>2 DEF CalmDevice, Same, Accurate, SourceOf, Lists
<1>3. ASSUME stage'[d] = "reading"
      PROVE  /\ Full(sources[d])'
             /\ \A id \in DOMAIN readings'[d] : (readings[d][id] = Measure(SourceOf(id)))'
             /\ \A k \in 1 .. done'[d] : sources'[d][k].id \in DOMAIN readings'[d]
  <2>1. \A id : SourceOf(id)' = SourceOf(id)
    BY DEF SourceOf
  <2>2. \A src : Measure(src)' = Measure(src)
    BY DEF Measure, Present, Sysfs
  <2>3. Full(sources[d])'
    BY <1>3 DEF CalmDevice, Same, Full, Accurate, SourceOf, Lists
  <2> QED
    BY <1>3, <2>1, <2>2, <2>3 DEF CalmDevice, Same
<1>4. stage'[d] \in {"up", "reading"} => Described(d)'
  BY DEF CalmDevice, Same, Described
<1>5. \A k \in DOMAIN shown'[d] : Complete(shown[d][k], hw_gpus[d][k].gpu)'
  BY DEF CalmDevice, Same, Complete
<1>6. stage'[d] \in {"probed", "up", "reading"} => Full(g_gpu_sources)'
  BY DEF Same
<1> QED
  BY <1>1, <1>2, <1>3, <1>4, <1>5, <1>6 DEF CalmDevice, FullListing, Lists

\* A calm scan ends with a full list.
LEMMA CalmScanIsFull ==
  ASSUME Typed, NEW d \in Devices, CalmDevice(d),
         stage[d] = "probing", done[d] = Len(hw_gpus[d])
  PROVE  Full(sources[d])
<1>1. DOMAIN hw_gpus[d] = 1 .. done[d]
  BY DEF Typed, DeviceTyped
<1>2. ASSUME NEW id \in Ids, drm[id] # NoGpu
      PROVE  Lists(sources[d], id)
  <2>1. PICK k \in DOMAIN hw_gpus[d] : hw_gpus[d][k].id = id
    BY <1>2 DEF CalmDevice, FullListing, Lists
  <2> QED
    BY <1>1, <2>1 DEF CalmDevice
<1> QED
  BY <1>2 DEF CalmDevice, Full

\* In its own turn a calm device keeps everything complete.
LEMMA TurnCalm ==
  ASSUME Typed, Calm, NEW d \in Devices, Turn(d), calm'[d]
  PROVE  CalmDevice(d)'
<1>0. /\ SharedTyped /\ AllTotal /\ DeviceTyped(d)
      /\ calm[d] => CalmDevice(d)
  BY DEF Typed, Calm
<1>1. CASE Reconnect(d)
  <2>1. /\ stage'[d] = "probing" /\ done'[d] = 0
        /\ sources'[d] = <<>> /\ shown'[d] = <<>> /\ hw_gpus'[d] \in getAllGPUs
        /\ drm' = drm /\ nvml' = nvml
    BY <1>0, <1>1 DEF Reconnect, Forget, AllTotal, Total
  <2>2. /\ \A k \in DOMAIN hw_gpus'[d] : hw_gpus'[d][k].gpu = drm[hw_gpus'[d][k].id]
        /\ \A id \in Ids : drm[id] # NoGpu => Lists(hw_gpus'[d], id)
    BY <1>0, <2>1, Enumeration DEF Lists
  <2>3. DOMAIN sources'[d] = {} /\ DOMAIN shown'[d] = {} /\ 1 .. done'[d] = {}
    BY <2>1
  <2> QED
    BY <2>1, <2>2, <2>3 DEF CalmDevice, FullListing, Accurate, Lists
<1>2. CASE Probe(d)
  <2> DEFINE id == hw_gpus[d][done[d] + 1].id
  <2>1. /\ stage[d] = "probing" /\ done[d] < Len(hw_gpus[d])
        /\ stage'[d] = "probing" /\ hw_gpus'[d] = hw_gpus[d] /\ done'[d] = done[d] + 1
        /\ sources'[d] = IF drm[id] = NoGpu THEN sources[d]
                                            ELSE Append(sources[d], SourceOf(id))
        /\ shown'[d] = shown[d] /\ drm' = drm /\ nvml' = nvml /\ calm' = calm
    BY <1>0, <1>2 DEF Probe, AllTotal, Total
  <2>2. CalmDevice(d)
    BY <1>0, <2>1
  <2>3. done[d] \in Nat /\ done[d] + 1 \in DOMAIN hw_gpus[d] /\ sources[d] \in Seq(Sources)
    BY <1>0, <2>1, IdsAreCounted DEF DeviceTyped
  <2>4. id \in Ids /\ drm[id] # NoGpu
    <3>1. hw_gpus[d][done[d] + 1] \in Listings
      BY <1>0, <2>3, ListingIds DEF DeviceTyped
    <3>2. hw_gpus[d][done[d] + 1].gpu = drm[id]
      BY <2>2, <2>3 DEF CalmDevice, FullListing
    <3> QED
      BY <3>1, <3>2 DEF Listings
  <2> HIDE DEF id
  <2>5. SourceOf(id).id = id /\ SourceOf(id) \in Sources
    BY <2>4 DEF SourceOf, Sources
  <2>6. /\ DOMAIN sources'[d] = DOMAIN sources[d] \cup {Len(sources[d]) + 1}
        /\ \A k \in DOMAIN sources[d] : sources'[d][k] = sources[d][k]
        /\ sources'[d][Len(sources[d]) + 1] = SourceOf(id)
    BY <2>1, <2>3, <2>4, <2>5
  <2>7. Accurate(sources'[d])
    BY <2>1, <2>2, <2>4, <2>5, <2>6 DEF CalmDevice, Accurate
  <2>8. \A k \in 1 .. done[d] + 1 : Lists(sources'[d], hw_gpus[d][k].id)
    <3>1. Lists(sources'[d], hw_gpus[d][done[d] + 1].id)
      BY <2>5, <2>6 DEF Lists, id
    <3>2. \A k \in 1 .. done[d] : Lists(sources'[d], hw_gpus[d][k].id)
      BY <2>1, <2>2, <2>6 DEF CalmDevice, FullListing, Lists
    <3> QED
      BY <2>3, <3>1, <3>2
  <2>9. Accurate(sources[d])'
    BY <2>1, <2>7 DEF Accurate, SourceOf
  <2>10. \A k \in DOMAIN shown'[d] : Complete(shown[d][k], hw_gpus[d][k].gpu)'
    BY <2>1, <2>2 DEF CalmDevice, Complete
  <2>11. \A k \in 1 .. done'[d] : Lists(sources[d], hw_gpus[d][k].id)'
    BY <2>1, <2>8 DEF Lists
  <2> QED
    BY <2>1, <2>2, <2>9, <2>10, <2>11 DEF CalmDevice, FullListing, Lists
<1>3. CASE PublishSources(d)
  <2>1. /\ stage[d] = "probing" /\ done[d] = Len(hw_gpus[d])
        /\ stage'[d] = "probed" /\ g_gpu_sources' = sources[d]
        /\ hw_gpus'[d] = hw_gpus[d] /\ shown'[d] = shown[d]
        /\ drm' = drm /\ nvml' = nvml /\ calm' = calm
    BY <1>0, <1>3 DEF PublishSources, AllTotal, Total
  <2>2. CalmDevice(d)
    BY <1>0, <2>1
  <2>3. Full(sources[d])
    BY <2>1, <2>2, CalmScanIsFull
  <2>4. Full(g_gpu_sources)'
    BY <2>1, <2>3 DEF Full, Accurate, SourceOf, Lists
  <2>5. \A k \in DOMAIN shown'[d] : Complete(shown[d][k], hw_gpus[d][k].gpu)'
    BY <2>1, <2>2 DEF CalmDevice, Complete
  <2> QED
    BY <2>1, <2>2, <2>4, <2>5 DEF CalmDevice, FullListing, Lists
<1>4. CASE Describe(d)
  <2>1. /\ stage[d] = "probed" /\ stage'[d] = "up" /\ gpu_info'[d] = gpu_descriptions
        /\ g_gpu_sources' = g_gpu_sources
        /\ hw_gpus'[d] = hw_gpus[d] /\ shown'[d] = shown[d]
        /\ drm' = drm /\ nvml' = nvml /\ calm' = calm
    BY <1>0, <1>4 DEF Describe, AllTotal, Total
  <2>2. CalmDevice(d) /\ Full(g_gpu_sources)
    BY <1>0, <2>1 DEF CalmDevice
  <2>3. Full(g_gpu_sources)'
    BY <2>1, <2>2 DEF Full, Accurate, SourceOf, Lists
  <2>4. {g.id : g \in {h \in Range(hw_gpus[d]) : h.gpu \in Nvidia}} = {id \in Ids : drm[id] \in Nvidia}
    <3>1. \A k \in DOMAIN hw_gpus[d] :
            hw_gpus[d][k].id \in Ids /\ hw_gpus[d][k].gpu = drm[hw_gpus[d][k].id]
      BY <1>0, <2>2, ListingIds DEF DeviceTyped, CalmDevice, FullListing
    <3>2. ASSUME NEW id \in Ids, drm[id] \in Nvidia
          PROVE  \E h \in Range(hw_gpus[d]) : h.gpu \in Nvidia /\ h.id = id
      <4>1. PICK k \in DOMAIN hw_gpus[d] : hw_gpus[d][k].id = id
        BY <2>2, <3>2 DEF CalmDevice, FullListing, Lists, Gpus
      <4> QED
        BY <3>1, <3>2, <4>1 DEF Range
    <3>3. ASSUME NEW h \in Range(hw_gpus[d]), h.gpu \in Nvidia
          PROVE  h.id \in Ids /\ drm[h.id] \in Nvidia
      BY <3>1, <3>3 DEF Range
    <3> DEFINE nvidia == {h \in Range(hw_gpus[d]) : h.gpu \in Nvidia}
    <3>4. \A h \in nvidia : h.id \in Ids /\ drm[h.id] \in Nvidia
      BY <3>3
    <3>5. \A id \in Ids : drm[id] \in Nvidia => \E h \in nvidia : h.id = id
      BY <3>2
    <3> HIDE DEF nvidia
    <3>6. {g.id : g \in nvidia} = {id \in Ids : drm[id] \in Nvidia}
      BY <3>4, <3>5
    <3> QED
      BY <3>6 DEF nvidia
  <2>5. Described(d)'
    BY <1>0, <2>1, <2>2, <2>4, DescriptionsAreFull DEF Described
  <2>6. \A k \in DOMAIN shown'[d] : Complete(shown[d][k], hw_gpus[d][k].gpu)'
    BY <2>1, <2>2 DEF CalmDevice, Complete
  <2> QED
    BY <2>1, <2>2, <2>3, <2>5, <2>6 DEF CalmDevice, FullListing, Lists
<1>5. CASE Down(d)
  BY <1>0, <1>5 DEF Down, SharedTyped
<1>6. CASE CopySources(d)
  <2>1. /\ stage[d] = "up" /\ stage'[d] = "reading" /\ sources'[d] = g_gpu_sources
        /\ done'[d] = 0 /\ readings'[d] = <<>> /\ g_gpu_sources' = g_gpu_sources
        /\ hw_gpus'[d] = hw_gpus[d] /\ gpu_info'[d] = gpu_info[d] /\ shown'[d] = shown[d]
        /\ drm' = drm /\ nvml' = nvml /\ calm' = calm
    BY <1>0, <1>6 DEF CopySources, AllTotal, Total
  <2>2. CalmDevice(d) /\ Full(g_gpu_sources) /\ Described(d)
    BY <1>0, <2>1 DEF CalmDevice
  <2>3. Full(g_gpu_sources)' /\ Full(sources[d])'
    BY <2>1, <2>2 DEF Full, Accurate, SourceOf, Lists
  <2>4. DOMAIN readings'[d] = {} /\ 1 .. done'[d] = {}
    BY <2>1
  <2>5. Described(d)'
    BY <2>1, <2>2 DEF Described
  <2>6. \A k \in DOMAIN shown'[d] : Complete(shown[d][k], hw_gpus[d][k].gpu)'
    BY <2>1, <2>2 DEF CalmDevice, Complete
  <2> QED
    BY <2>1, <2>2, <2>3, <2>4, <2>5, <2>6 DEF CalmDevice, FullListing, Lists
<1>7. CASE ReadSource(d)
  <2> DEFINE src == sources[d][done[d] + 1]
  <2>1. /\ stage[d] = "reading" /\ done[d] < Len(sources[d])
        /\ stage'[d] = "reading" /\ done'[d] = done[d] + 1
        /\ readings'[d] = [id \in DOMAIN readings[d] \cup {src.id} |->
                             IF id = src.id THEN Measure(src) ELSE readings[d][id]]
        /\ sources'[d] = sources[d] /\ g_gpu_sources' = g_gpu_sources
        /\ hw_gpus'[d] = hw_gpus[d] /\ gpu_info'[d] = gpu_info[d] /\ shown'[d] = shown[d]
        /\ drm' = drm /\ nvml' = nvml /\ calm' = calm
    BY <1>0, <1>7 DEF ReadSource, AllTotal, Total
  <2>2. CalmDevice(d) /\ Full(g_gpu_sources) /\ Full(sources[d]) /\ Described(d)
    BY <1>0, <2>1 DEF CalmDevice
  <2>3. Full(g_gpu_sources)' /\ Full(sources[d])'
    <3>1. g_gpu_sources' = g_gpu_sources /\ drm' = drm /\ nvml' = nvml
      BY <2>1
    <3>2. sources'[d] = sources[d]
      BY <2>1
    <3>3. Full(g_gpu_sources)'
      BY <2>2, <3>1 DEF Full, Accurate, SourceOf, Lists
    <3>4. Full(sources[d])'
      BY <2>2, <3>1, <3>2 DEF Full, Accurate, SourceOf, Lists
    <3> QED
      BY <3>3, <3>4
  <2>4. done[d] \in Nat /\ src = SourceOf(src.id)
    <3>1. done[d] \in Nat /\ done[d] + 1 \in DOMAIN sources[d]
      BY <1>0, <2>1, IdsAreCounted DEF DeviceTyped
    <3> QED
      BY <2>2, <3>1 DEF Full, Accurate
  <2>5. sources[d][done[d] + 1].id = src.id
    OBVIOUS
  <2> HIDE DEF src
  <2>6. \A id \in DOMAIN readings'[d] : readings'[d][id] = Measure(SourceOf(id))
    BY <2>1, <2>2, <2>4 DEF CalmDevice
  <2>7. \A k \in 1 .. done[d] + 1 : sources[d][k].id \in DOMAIN readings'[d]
    <3>1. \A k \in 1 .. done[d] : sources[d][k].id \in DOMAIN readings'[d]
      BY <2>1, <2>2 DEF CalmDevice
    <3>2. sources[d][done[d] + 1].id \in DOMAIN readings'[d]
      BY <2>1, <2>5
    <3> QED
      BY <2>4, <3>1, <3>2
  <2>8. (\A id \in DOMAIN readings[d] : readings[d][id] = Measure(SourceOf(id)))'
    <3>1. \A id : SourceOf(id)' = SourceOf(id)
      BY <2>1 DEF SourceOf
    <3>2. \A x : Measure(x)' = Measure(x)
      BY <2>1 DEF Measure, Present, Sysfs
    <3> QED
      BY <2>6, <3>1, <3>2
  <2>9. Described(d)'
    BY <2>1, <2>2 DEF Described
  <2>10. \A k \in DOMAIN shown'[d] : Complete(shown[d][k], hw_gpus[d][k].gpu)'
    BY <2>1, <2>2 DEF CalmDevice, Complete
  <2>11. (\A k \in 1 .. done[d] : sources[d][k].id \in DOMAIN readings[d])'
    BY <2>1, <2>7
  <2>12. FullListing(d)'
    <3>1. FullListing(d)
      BY <2>2 DEF CalmDevice
    <3> QED
      BY <2>1, <3>1, ListingStays
  <2> QED
    BY <2>1, <2>3, <2>8, <2>9, <2>10, <2>11, <2>12 DEF CalmDevice
<1>8. CASE PushGpus(d)
  <2>1. /\ stage[d] = "reading" /\ done[d] = Len(sources[d]) /\ stage'[d] = "up"
        /\ shown'[d] = [k \in DOMAIN hw_gpus[d] |-> Row(hw_gpus[d][k].gpu, Match(d, k))]
        /\ hw_gpus'[d] = hw_gpus[d] /\ gpu_info'[d] = gpu_info[d]
        /\ g_gpu_sources' = g_gpu_sources
        /\ drm' = drm /\ nvml' = nvml /\ calm' = calm
    BY <1>0, <1>8 DEF PushGpus, AllTotal, Total
  <2>2. CalmDevice(d) /\ Full(g_gpu_sources) /\ Full(sources[d]) /\ Described(d)
    BY <1>0, <2>1 DEF CalmDevice
  <2>3. Full(g_gpu_sources)'
    BY <2>1, <2>2 DEF Full, Accurate, SourceOf, Lists
  <2>4. ASSUME NEW k \in DOMAIN hw_gpus[d]
        PROVE  Complete(Row(hw_gpus[d][k].gpu, Match(d, k)), hw_gpus[d][k].gpu)
    <3> DEFINE id == hw_gpus[d][k].id
    <3>1. id \in Ids /\ hw_gpus[d][k].gpu = drm[id] /\ drm[id] # NoGpu
      <4>1. hw_gpus[d][k] \in Listings
        BY <1>0, ListingIds DEF DeviceTyped
      <4> QED
        BY <2>2, <4>1 DEF CalmDevice, FullListing, Listings
    <3>2. PICK j \in DOMAIN sources[d] : sources[d][j].id = id
      BY <2>2, <3>1 DEF Full, Lists
    <3>3. DOMAIN sources[d] = 1 .. done[d]
      BY <1>0, <2>1 DEF DeviceTyped
    <3>4. id \in DOMAIN readings[d] /\ readings[d][id] = Measure(SourceOf(id))
      BY <2>1, <2>2, <3>2, <3>3 DEF CalmDevice
    <3>5. Match(d, k) = Measure(SourceOf(id))
      BY <3>4 DEF Match
    <3> QED
      BY <1>0, <3>1, <3>5, MeasuredIsComplete
  <2>5. \A k \in DOMAIN shown'[d] : Complete(shown[d][k], hw_gpus[d][k].gpu)'
    BY <2>1, <2>4 DEF Complete
  <2>6. Described(d)'
    BY <2>1, <2>2 DEF Described
  <2>7. FullListing(d)'
    <3>1. FullListing(d)
      BY <2>2 DEF CalmDevice
    <3> QED
      BY <2>1, <3>1, ListingStays
  <2> QED
    BY <2>1, <2>3, <2>5, <2>6, <2>7 DEF CalmDevice
<1> QED
  BY <1>1, <1>2, <1>3, <1>4, <1>5, <1>6, <1>7, <1>8 DEF Turn

\* The list stays complete for the other devices.
LEMMA ListStaysFull ==
  ASSUME Typed, Calm, NEW d \in Devices, Turn(d),
         NEW e \in Devices, calm[e], Full(g_gpu_sources) \/ PublishSources(d)
  PROVE  Full(g_gpu_sources)'
<1>1. drm' = drm /\ nvml' = nvml
  BY DEF Turn, Reconnect, Probe, PublishSources, Describe, Down, CopySources, ReadSource, PushGpus
<1>2. CASE PublishSources(d)
  <2>1. Scanning(d) /\ stage[d] = "probing" /\ done[d] = Len(hw_gpus[d])
        /\ g_gpu_sources' = sources[d]
    BY <1>2 DEF PublishSources, Scanning
  <2>2. Full(sources[d])
    BY <2>1, CalmScanIsFull DEF Calm, CalmScans
  <2> QED
    BY <1>1, <2>1, <2>2 DEF Full, Accurate, SourceOf, Lists
<1>3. CASE ~PublishSources(d)
  <2>1. g_gpu_sources' = g_gpu_sources
    BY <1>3 DEF Turn, Reconnect, Probe, Describe, Down, CopySources, ReadSource,
                PushGpus, WhileProbing
  <2> QED
    BY <1>1, <1>3, <2>1 DEF Full, Accurate, SourceOf, Lists
<1> QED
  BY <1>2, <1>3

\* No scan that may still replace the list is older than a calm one.
LEMMA TurnCalmScans ==
  ASSUME Typed, Calm, NEW d \in Devices, Turn(d)
  PROVE  CalmScans' /\ \A e \in Devices \ {d} : calm'[e] = calm[e]
<1>0. /\ calm \in [Devices -> BOOLEAN] /\ AllTotal
      /\ \A e \in Devices \ {d} : stage'[e] = stage[e]
  BY OthersAreSame DEF Typed, SharedTyped, Same
<1>1. CASE Reconnect(d)
  <2>1. /\ calm' = [calm EXCEPT ![d] = \A e \in Devices \ {d} : Scanning(e) => calm[e]]
        /\ stage'[d] = "probing"
    BY <1>0, <1>1 DEF Reconnect, AllTotal, Total
  <2> QED
    BY <1>0, <2>1 DEF Calm, CalmScans, Scanning
<1>2. CASE Down(d)
  <2>1. calm' = [calm EXCEPT ![d] = FALSE] /\ stage'[d] = "down"
    BY <1>0, <1>2 DEF Down, AllTotal, Total
  <2> QED
    BY <1>0, <2>1 DEF Calm, CalmScans, Scanning
<1>3. CASE ~Reconnect(d) /\ ~Down(d)
  <2>1. calm' = calm
    BY <1>3 DEF Turn, Probe, PublishSources, Describe, CopySources, ReadSource, PushGpus
  <2>2. Scanning(d)' => Scanning(d)
    BY <1>0, <1>3 DEF Turn, Probe, PublishSources, Describe, CopySources, ReadSource,
                      PushGpus, Scanning, AllTotal, Total
  <2> QED
    BY <1>0, <2>1, <2>2 DEF Calm, CalmScans, Scanning
<1> QED
  BY <1>1, <1>2, <1>3

\* Every step keeps the lists complete, or ends the calm.
LEMMA StepCalm == Typed /\ Calm /\ [Next]_vars => Calm'
<1> SUFFICES ASSUME Typed, Calm, [Next]_vars PROVE Calm'
  OBVIOUS
<1>1. ASSUME NEW cards, Change(cards)
      PROVE  Calm'
  BY <1>1, ChangeIsOutside DEF Calm, CalmScans
<1>2. ASSUME NEW d \in Devices, Turn(d)
      PROVE  Calm'
  <2>1. drm' = drm /\ nvml' = nvml
    BY <1>2 DEF Turn, Reconnect, Probe, PublishSources, Describe, Down, CopySources,
                ReadSource, PushGpus
  <2>2. ASSUME NEW e \in Devices \ {d}, calm'[e]
        PROVE  CalmDevice(e)'
    <3>1. calm[e] /\ CalmDevice(e) /\ Same(e)
      BY <1>2, <2>2, TurnCalmScans, OthersAreSame DEF Calm, Typed
    <3>2. stage[e] \in {"probed", "up", "reading"} => Full(g_gpu_sources)'
      BY <1>2, <3>1, ListStaysFull DEF CalmDevice
    <3> QED
      BY <2>1, <3>1, <3>2, SameIsCalm
  <2> QED
    BY <1>2, <2>2, TurnCalm, TurnCalmScans DEF Calm
<1>3. CASE UNCHANGED vars
  <2>1. /\ drm' = drm /\ nvml' = nvml /\ calm' = calm /\ stage' = stage
        /\ g_gpu_sources' = g_gpu_sources /\ \A d \in Devices : Same(d)
    BY <1>3 DEF vars, codeVars, Same
  <2>2. ASSUME NEW d \in Devices, calm'[d]
        PROVE  CalmDevice(d)'
    <3>1. stage[d] \in {"probed", "up", "reading"} => Full(g_gpu_sources)'
      BY <2>1, <2>2 DEF Calm, CalmDevice, Full, Accurate, SourceOf, Lists
    <3> QED
      BY <2>1, <2>2, <3>1, SameIsCalm DEF Calm
  <2> QED
    BY <2>1, <2>2 DEF Calm, CalmScans, Scanning
<1> QED
  BY <1>1, <1>2, <1>3, Steps DEF Plug, Unplug

\* Scans of other devices, whether they succeed, fail or overlap, take nothing
\* off what a device shows and describes, for any number of devices and GPUs.
THEOREM RescanSafe == Spec => []RescanIsSafe
<1>1. Spec => []Calm
  BY TypedInvariant, InitCalm, StepCalm, PTL DEF Spec
<1> QED
  BY <1>1, CalmIsSafe, PTL
=============================================================================
