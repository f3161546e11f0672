---------------------------- MODULE Tree_proofs -----------------------------
(***************************************************************************)
(* Proofs about Tree, for any number of components of each kind.           *)
(***************************************************************************)
EXTENDS Tree, TLAPS

USE TreeAssumption

-----------------------------------------------------------------------------
(***************************************************************************)
(* What is written by what                                                 *)
(***************************************************************************)
Rate == Of("/", {"rate"})
Time == Of("time", TimeLeaves)

\* What is written when the device connects.
Described == push_static \cup Rate

\* Known of a core only.
OfCore(a) == a[1] = "cpu" /\ a[2] # Whole /\ ~hasCores

\* A reading has an entry for every component, whatever could not be read.
LEMMA EveryEntry ==
  \A lost : push_dynamic(lost) = push_dynamic(0) /\ \A k : Paired(k, lost) = hw[k]
  BY DEF push_dynamic, LiveGpu, LiveBattery, LiveNetwork, Paired, snapshotSize

\* No live value goes where the description is.
LEMMA DescriptionIsApart ==
  Described \cap (Time \cup push_dynamic(0)) = {}
<1>1. push_static \cap push_dynamic(0) = {}
  BY DEF push_static, StaticSystem, SystemNodes, StaticCpu, StaticGpu, StaticMemory,
         StaticDisk, StaticBattery, StaticNetwork, StaticDisplay, DisplayLeaves,
         push_dynamic, LiveMachine, LiveGpu, LiveDisk, LiveBattery, LiveNetwork, Of, Each
<1>2. Rate \cap push_dynamic(0) = {}
  BY DEF Rate, push_dynamic, LiveMachine, LiveGpu, LiveDisk, LiveBattery, LiveNetwork,
         Of, Each
<1>3. Described \cap Time = {}
  BY DEF Described, Rate, Time, push_static, StaticSystem, SystemNodes, StaticCpu,
         StaticGpu, StaticMemory, StaticDisk, StaticBattery, StaticNetwork,
         StaticDisplay, Of, Each
<1> QED
  BY <1>1, <1>2, <1>3 DEF Described

\* Every address is in one of the pushes.
LEMMA SetupIsCovered ==
  ASSUME NEW a \in setup, ~OfCore(a)
  PROVE  a \in Described \cup Time \cup push_dynamic(0)
<1> USE EveryEntry
<1>1. CASE a \in MachineNodes
  BY <1>1 DEF MachineNodes, Described, Rate, Time, push_static, StaticSystem,
              push_dynamic, LiveMachine, Of
<1>2. CASE a \in SystemNodes
  BY <1>2 DEF Described, push_static, StaticSystem
<1>3. CASE a \in CpuNodes
  BY <1>3 DEF CpuNodes, OfCore, Described, push_static, StaticCpu,
              push_dynamic, LiveMachine, Of, Each
<1>4. CASE a \in GpuNodes
  BY <1>4 DEF GpuNodes, Described, push_static, StaticGpu, push_dynamic, LiveGpu, Of, Each
<1>5. CASE a \in MemoryNodes
  BY <1>5 DEF MemoryNodes, Described, push_static, StaticMemory,
              push_dynamic, LiveMachine, Of, Each
<1>6. CASE a \in DiskNodes
  BY <1>6 DEF DiskNodes, Described, push_static, StaticDisk, push_dynamic, LiveDisk, Of, Each
<1>7. CASE a \in BatteryNodes
  BY <1>7 DEF BatteryNodes, Described, push_static, StaticBattery,
              push_dynamic, LiveBattery, Of, Each
<1>8. CASE a \in NetworkNodes
  BY <1>8 DEF NetworkNodes, Described, push_static, StaticNetwork,
              push_dynamic, LiveNetwork, Of, Each
<1>9. CASE a \in DisplayNodes
  BY <1>9 DEF DisplayNodes, Described, push_static, StaticDisplay
<1> QED
  BY <1>1, <1>2, <1>3, <1>4, <1>5, <1>6, <1>7, <1>8, <1>9 DEF setup

-----------------------------------------------------------------------------
(***************************************************************************)
(* What the addresses show                                                 *)
(***************************************************************************)

\* Every address shows what the last push that writes it brought.
Attributed ==
  \A a \in nodes :
    /\ value[a].from = "reading" => a \in push_dynamic(0) /\ value[a] = Reading(readings)
    /\ value[a] = Scan => a \in Described
    /\ a \in Described \/ (a \in Time /\ ticks > 0) \/ (a \in push_dynamic(0) /\ readings > 0) =>
         value[a] # Unset

\* No push before the connection.
NothingBefore == nodes = {} => ticks = 0

TreeInv == TypeOK /\ Attributed /\ NothingBefore

\* Readings, clock, scan and nothing at all are told apart.
LEMMA ValuesDiffer ==
  ASSUME NEW m \in 1 .. MaxTicks, NEW n
  PROVE  /\ Reading(m) # Scan /\ Reading(m) # Unset /\ Reading(m) # Clock(n)
         /\ Clock(m) # Scan /\ Clock(m) # Unset /\ Scan # Unset
         /\ Reading(m).from = "reading" /\ Clock(m).from # "reading"
         /\ Scan.from # "reading" /\ Unset.from # "reading"
         /\ Reading(m) \in Values /\ Clock(m) \in Values
  BY DEF Reading, Clock, Scan, Unset, Values

\* Before the connection there is no address.
LEMMA InitTree == Init => TreeInv
  BY DEF Init, TreeInv, TypeOK, Attributed, NothingBefore

\* The machine and the settings stay what they are, and with them the sets of
\* addresses.
LEMMA SetsAreFixed ==
  ASSUME hw' = hw, hasCores' = hasCores, perThreadCpu' = perThreadCpu
  PROVE  setup' = setup /\ push_dynamic(0)' = push_dynamic(0) /\ Described' = Described
<1>1. setup' = setup
  BY DEF setup, MachineNodes, SystemNodes, CpuNodes, GpuNodes, MemoryNodes, DiskNodes,
         BatteryNodes, NetworkNodes, DisplayNodes
<1>2. push_dynamic(0)' = push_dynamic(0)
  BY DEF push_dynamic, LiveMachine, LiveGpu, LiveDisk, LiveBattery, LiveNetwork, Paired,
         snapshotSize
<1>3. Described' = Described
  BY DEF Described, Rate, push_static, StaticSystem, StaticCpu, StaticGpu, StaticMemory,
         StaticDisk, StaticBattery, StaticNetwork, StaticDisplay
<1> QED
  BY <1>1, <1>2, <1>3

\* Every step keeps it, and the description.
LEMMA StepTree ==
  ASSUME TreeInv, [Next]_vars
  PROVE  /\ TreeInv'
         /\ \A a \in DOMAIN value : value[a] = Scan => value'[a] = Scan
<1>0. /\ hw' = hw /\ hasCores' = hasCores /\ perThreadCpu' = perThreadCpu
      /\ setup' = setup /\ push_dynamic(0)' = push_dynamic(0) /\ Described' = Described
  BY SetsAreFixed DEF Next, Connect, PushTime, PushDynamic, vars
<1>1. /\ hw \in [Kinds -> Counts] /\ hasCores \in BOOLEAN /\ perThreadCpu \in BOOLEAN
      /\ nodes \subseteq setup /\ value \in [nodes -> Values]
      /\ readings \in 0 .. MaxTicks /\ ticks \in 0 .. MaxTicks /\ readings <= ticks
  BY DEF TreeInv, TypeOK
<1>2. CASE Connect
  <2>1. /\ nodes = {} /\ nodes' = setup /\ readings' = readings /\ ticks' = ticks
        /\ value' = [a \in setup |-> IF a \in Described THEN Scan ELSE Unset]
    BY <1>2 DEF Connect, Described, Rate
  <2>2. TypeOK'
    BY <1>0, <1>1, <2>1 DEF TypeOK, Values
  <2>3. Attributed'
    BY <1>0, <1>1, <2>1 DEF TreeInv, NothingBefore, Attributed, Scan, Unset
  <2> QED
    BY <1>1, <2>1, <2>2, <2>3 DEF TreeInv, NothingBefore
<1>3. CASE PushTime
  <2>1. /\ nodes # {} /\ nodes' = nodes /\ readings' = readings /\ ticks < MaxTicks /\ ticks' = ticks + 1
        /\ value' = [a \in nodes |-> IF a \in Time THEN Clock(ticks + 1) ELSE value[a]]
    BY <1>3 DEF PushTime, Push, Time
  <2>2. ticks + 1 \in 1 .. MaxTicks
    BY <1>1, <2>1
  <2>3. TypeOK'
    BY <1>0, <1>1, <2>1, <2>2, ValuesDiffer DEF TypeOK
  <2>4. Attributed'
    BY <1>0, <1>1, <2>1, <2>2, ValuesDiffer DEF TreeInv, Attributed
  <2> QED
    BY <1>1, <2>1, <2>3, <2>4, DescriptionIsApart DEF TreeInv, Attributed, NothingBefore
<1>4. CASE PushDynamic
  <2>1. /\ nodes' = nodes /\ readings < ticks /\ readings' = ticks /\ ticks' = ticks
        /\ value' = [a \in nodes |->
                       IF a \in push_dynamic(0) THEN Reading(ticks) ELSE value[a]]
    BY <1>4, EveryEntry DEF PushDynamic, Push
  <2>2. ticks \in 1 .. MaxTicks
    BY <1>1, <2>1
  <2>3. TypeOK'
    BY <1>0, <1>1, <2>1, <2>2, ValuesDiffer DEF TypeOK
  <2>4. Attributed'
    BY <1>0, <1>1, <2>1, <2>2, ValuesDiffer, DescriptionIsApart DEF TreeInv, Attributed
  <2> QED
    BY <1>1, <2>1, <2>3, <2>4, DescriptionIsApart DEF TreeInv, Attributed, NothingBefore
<1>5. CASE UNCHANGED vars
  BY <1>0, <1>5 DEF vars, TreeInv, TypeOK, Attributed, NothingBefore
<1> QED
  BY <1>2, <1>3, <1>4, <1>5 DEF Next

\* The invariant, in every behavior.
LEMMA TreeInvariant == Spec => []TreeInv
  BY InitTree, StepTree, PTL DEF Spec

-----------------------------------------------------------------------------
\* Values are only ever written to parameters that exist.
THEOREM TreeTypeCorrect == Spec => []TypeOK
  BY TreeInvariant, PTL DEF TreeInv

\* A push leaves nothing of an earlier reading, on any machine.
THEOREM OneReading == Spec => []OneReadingAtATime
<1>1. TreeInv => OneReadingAtATime
  BY DEF TreeInv, TypeOK, Attributed, OneReadingAtATime
<1> QED
  BY <1>1, TreeInvariant, PTL

\* After the first reading every address was written, on any machine.
THEOREM Published == Spec => []EverythingIsPublished
<1>1. TreeInv => EverythingIsPublished
  <2> SUFFICES ASSUME TreeInv, readings > 0, NEW a \in nodes, value[a] = Unset
               PROVE  OfCore(a)
    BY DEF EverythingIsPublished, OfCore
  <2>1. a \in setup /\ ticks > 0
    BY DEF TreeInv, TypeOK
  <2> QED
    BY <2>1, SetupIsCovered DEF TreeInv, Attributed
<1> QED
  BY <1>1, TreeInvariant, PTL

\* No live value overwrites the description, on any machine.
THEOREM DescribedOnce == Spec => DescriptionStays
<1>1. TreeInv /\ [Next]_vars =>
        [\A a \in DOMAIN value : value[a] = Scan => value'[a] = Scan]_vars
  BY StepTree
<1> QED
  BY <1>1, TreeInvariant, PTL DEF Spec, DescriptionStays
=============================================================================
