--------------------------- MODULE Device_proofs ----------------------------
(***************************************************************************)
(* Proofs about Conversions and Device, for integers of any width, any     *)
(* range of rates, any document and paths of any length.                   *)
(***************************************************************************)
EXTENDS Device, MountPath_proofs

USE WidthAssumption, ClockAssumption, RatesAssumption

-----------------------------------------------------------------------------
(***************************************************************************)
(* The conversions                                                         *)
(***************************************************************************)

\* A value in range is its own remainder.
LEMMA SmallRemainder ==
  ASSUME NEW x \in Nat, NEW n \in Nat, x < n
  PROVE  x % n = x
  OBVIOUS

\* An unsigned difference is the difference if it is not negative.
LEMMA MinusIsExact ==
  ASSUME NEW a \in Uint64, NEW b \in Uint64, b <= a
  PROVE  Minus(a, b) = a - b /\ a - b \in Uint64
<1>1. a - b \in Nat /\ a - b < Word
  BY DEF Uint64
<1> QED
  BY <1>1, SmallRemainder DEF Minus, Uint64

\* The smaller of two numbers.
LEMMA LeastIsLeast ==
  ASSUME NEW a \in Nat, NEW b \in Nat
  PROVE  /\ Least(a, b) \in {a, b}
         /\ Least(a, b) <= a /\ Least(a, b) <= b
  BY DEF Least

\* Counts saturate.
LEMMA CountSaturates ==
  ASSUME NEW v \in Uint64
  PROVE  count(v) = Least(v, IntMax)
<1> DEFINE w == Least(v, IntMax)
<1>1. w \in 0 .. IntMax
  BY DEF Least, Uint64
<1>2. (w + IntMax + 1) % (2 * (IntMax + 1)) = w + IntMax + 1
  <2> HIDE DEF w
  <2>1. /\ w + IntMax + 1 \in Nat
        /\ 2 * (IntMax + 1) \in Nat
        /\ w + IntMax + 1 < 2 * (IntMax + 1)
    BY <1>1
  <2> QED
    BY <2>1, SmallRemainder
<1> HIDE DEF w
<1>3. Narrow(w) = w
  BY <1>1, <1>2 DEF Narrow
<1> QED
  BY <1>3 DEF count, w

\* What is taken off is clamped to what there is: the difference is what is
\* left of it, or nothing.
LEMMA Remainder ==
  ASSUME NEW total \in Uint64, NEW taken \in Uint64
  PROVE  /\ Minus(total, Least(total, taken)) = total - Least(total, taken)
         /\ total - Least(total, taken) \in 0 .. total
<1>1. Least(total, taken) \in Uint64 /\ Least(total, taken) <= total
  BY DEF Least, Uint64
<1> QED
  BY <1>1, MinusIsExact DEF Uint64

\* The ratio of usage_of is the share of what is not free.
LEMMA UsageIsShare ==
  ASSUME NEW total \in Uint64, NEW free \in Uint64
  PROVE  /\ usage_of(total, free).part \in Nat
         /\ total # 0 => /\ usage_of(total, free).part = total - Least(total, free)
                         /\ usage_of(total, free).whole = total
         /\ total = 0 => usage_of(total, free).part = 0
  BY Remainder DEF usage_of, Uint64

\* The ratio of open files is capped by their maximum.
LEMMA ProcessUsageIsShare ==
  ASSUME NEW max \in Uint64, NEW open \in Uint64
  PROVE  IsShare(process_files_usage(max, open), open, max)
<1> DEFINE free == Minus(max, Least(max, open))
<1>1. free = max - Least(max, open) /\ free \in Uint64 /\ free <= max
  BY Remainder DEF Uint64
<1>2. Least(max, free) = free /\ Least(open, max) = Least(max, open)
  BY <1>1 DEF Least, Uint64
<1>3. max - free = Least(open, max)
  <2>1. Least(max, open) \in Nat
    BY DEF Least, Uint64
  <2> QED
    BY <1>1, <1>2, <2>1 DEF Uint64
<1> HIDE DEF free
<1>4. /\ max # 0 => /\ usage_of(max, free).part = Least(open, max)
                    /\ usage_of(max, free).whole = max
      /\ max = 0 => usage_of(max, free).part = 0
  BY <1>1, <1>2, <1>3, UsageIsShare
<1> QED
  BY <1>4 DEF process_files_usage, IsShare, free

\* The ratio of memory is that of the memory shown as used.
LEMMA MemoryAddsUp ==
  ASSUME NEW total \in Uint64, NEW available \in Uint64
  PROVE  /\ memory_used(total, available) + Least(available, total) = total
         /\ IsShare(usage_of(total, available), memory_used(total, available), total)
<1> DEFINE used == memory_used(total, available)
<1>1. used = total - Least(total, available) /\ used \in 0 .. total
  BY Remainder DEF memory_used
<1>2. Least(available, total) = Least(total, available) /\ Least(total, available) \in Nat
  BY DEF Least, Uint64
<1>3. used + Least(available, total) = total
  BY <1>1, <1>2 DEF Uint64
<1>4. Least(used, total) = used
  BY <1>1 DEF Least, Uint64
<1> HIDE DEF used
<1>5. /\ total # 0 => /\ usage_of(total, available).part = used
                      /\ usage_of(total, available).whole = total
      /\ total = 0 => usage_of(total, available).part = 0
  BY <1>1, UsageIsShare
<1>6. IsShare(usage_of(total, available), used, total)
  BY <1>4, <1>5 DEF IsShare
<1> QED
  BY <1>3, <1>6 DEF used

\* A clock in Hz is left alone, one in kHz is multiplied.
LEMMA ClockInHz ==
  ASSUME NEW clock \in MinClock .. MinClock * Kilo - 1, NEW unit \in {1, Kilo}
  PROVE  frequency(clock \div unit) \in {clock, Kilo * (clock \div Kilo)}
<1>1. clock \in Nat /\ clock >= MinClock /\ clock < MinClock * Kilo
  OBVIOUS
<1>2. CASE unit = 1
  <2>1. clock \div 1 = clock
    BY <1>1
  <2> QED
    BY <1>1, <1>2, <2>1 DEF frequency
<1>3. CASE unit = Kilo
  <2> DEFINE khz == clock \div Kilo
  <2>1. khz \in Nat /\ Kilo * khz <= clock
    BY <1>1
  <2>2. khz < MinClock
    <3>1. SUFFICES ASSUME khz >= MinClock PROVE FALSE
      BY <2>1
    <3>2. Kilo * khz >= Kilo * MinClock
      BY <2>1, <3>1
    <3> QED
      BY <1>1, <2>1, <3>2
  <2>3. khz = 0 => frequency(khz) = Kilo * khz
    BY DEF frequency
  <2>4. khz > 0 => frequency(khz) = Kilo * khz
    BY <2>1, <2>2 DEF frequency
  <2> QED
    BY <1>3, <2>1, <2>3, <2>4
<1> QED
  BY <1>2, <1>3

-----------------------------------------------------------------------------
(***************************************************************************)
(* The device                                                              *)
(***************************************************************************)

\* The file is what the settings saved were written as.
FileIsSaved == \E format \in {"stream", "json"} : file = Written(saved, format)

\* Everything shown is what it should be.
ShownIsTrue ==
  CountsDoNotWrap /\ RatiosAreShares /\ CoreClocksAreInHz /\ PathsSurviveEscaping

DeviceInv == TypeOK /\ FileIsSaved /\ ShownIsTrue

\* A rate is clamped to its range.
LEMMA ClampInRange == \A rate \in Int : Clamp(rate) \in 0 .. MaxRate
  BY DEF Clamp, Least

\* A path is a sequence of numbers, so it survives.
LEMMA PathSurvives ==
  ASSUME NEW path \in Paths
  PROVE  unescape_mount_path(escape(path)) = path
<1>1. PICK n \in 1 .. MaxLength : path \in [1 .. n -> Characters]
  BY DEF Paths
<1>2. n \in Nat
  BY CharactersAssumption
<1>3. \A i \in 1 .. n : path[i] \in Nat
  <2>1. \A i \in 1 .. n : path[i] \in Characters
    BY <1>1
  <2> QED
    BY <2>1, CharactersAssumption
<1>4. path \in [1 .. n -> Nat]
  BY <1>1, <1>3
<1>5. path \in Seq(Nat)
  BY <1>2, <1>4, SeqDef
<1> QED
  BY <1>5, UnescapeIsInverse

\* What is read back is what was written.
LEMMA ReadIsSaved == TypeOK /\ FileIsSaved => Read = saved
<1> SUFFICES ASSUME TypeOK, FileIsSaved PROVE Read = saved
  OBVIOUS
<1>1. saved = [rate |-> saved.rate, perThreadCpu |-> saved.perThreadCpu]
  BY DEF TypeOK, Settings
<1>2. CASE file = Written(saved, "stream")
  BY <1>1, <1>2 DEF Written, Read, DataStreamReader, DataStreamWriter
<1>3. CASE file = Written(saved, "json")
  BY <1>1, <1>3 DEF Written, Read, JSONReader, JSONWriter
<1> QED
  BY <1>2, <1>3 DEF FileIsSaved

\* Nothing is pushed before the first connection.
LEMMA InitInv == Init => DeviceInv
<1> SUFFICES ASSUME Init PROVE DeviceInv
  OBVIOUS
<1>1. settings \in Settings /\ saved \in Settings
  <2>1. Rates \cup {DefaultRate} \subseteq Int
    OBVIOUS
  <2>2. settings \in [rate : Rates \cup {DefaultRate}, perThreadCpu : Flags]
    BY DEF Init
  <2>3. settings \in Settings
    BY <2>1, <2>2 DEF Settings
  <2> QED
    BY <2>3 DEF Init
<1>2. FileIsSaved
  BY DEF Init, FileIsSaved
<1>3. file.format \in {"stream", "json"}
  BY <1>2 DEF FileIsSaved, Written
<1>4. pushed.to = "nothing" /\ pushed = Nothing
  BY DEF Init, Nothing
<1>5. TypeOK
  <2>1. connected \in BOOLEAN
    BY DEF Init
  <2>2. m_requested_rate \in 0 .. MaxRate
    BY DEF Init
  <2> QED
    BY <2>1, <2>2, <1>1, <1>3, <1>4 DEF TypeOK
<1>6. ShownIsTrue
  BY <1>4 DEF ShownIsTrue, CountsDoNotWrap, RatiosAreShares, CoreClocksAreInHz,
         PathsSurviveEscaping
<1> QED
  BY <1>2, <1>5, <1>6 DEF DeviceInv

\* The settings and the file, whichever of them a step changes.
LEMMA SettingsInv ==
  ASSUME DeviceInv, UNCHANGED <<connected, m_requested_rate, pushed>>,
         settings' \in Settings,
         \/ UNCHANGED <<file, saved>>
         \/ /\ \E format \in {"stream", "json"} : file' = Written(settings, format)
            /\ saved' = settings
  PROVE  DeviceInv'
<1>1. FileIsSaved' /\ saved' \in Settings
  <2>1. CASE UNCHANGED <<file, saved>>
    BY <2>1 DEF DeviceInv, TypeOK, FileIsSaved, Written, DataStreamReader, JSONReader
  <2>2. CASE /\ \E format \in {"stream", "json"} : file' = Written(settings, format)
             /\ saved' = settings
    BY <2>2 DEF DeviceInv, TypeOK, FileIsSaved, Written, DataStreamReader, JSONReader
  <2> QED
    BY <2>1, <2>2
<1>2. file'.format \in {"stream", "json"}
  BY <1>1 DEF FileIsSaved, Written
<1>3. TypeOK'
  BY <1>1, <1>2 DEF DeviceInv, TypeOK
<1>4. ShownIsTrue'
  BY DEF DeviceInv, ShownIsTrue, CountsDoNotWrap, RatiosAreShares, CoreClocksAreInHz,
         PathsSurviveEscaping
<1> QED
  BY <1>1, <1>3, <1>4 DEF DeviceInv

\* The connection and what is pushed, as long as it is true.
LEMMA PushInv ==
  ASSUME DeviceInv, UNCHANGED <<settings, file, saved>>,
         connected' \in BOOLEAN, m_requested_rate' \in 0 .. MaxRate,
         pushed'.to \in {"nothing", "mountpoints", "files", "process", "memory", "clock"},
         pushed' # Nothing => connected',
         ShownIsTrue'
  PROVE  DeviceInv'
<1>1. FileIsSaved'
  BY DEF DeviceInv, FileIsSaved, Written, DataStreamReader, JSONReader
<1>2. TypeOK'
  BY DEF DeviceInv, TypeOK, Nothing
<1> QED
  BY <1>1, <1>2 DEF DeviceInv

\* Every step preserves the invariant.
LEMMA NextInv == DeviceInv /\ [Next]_vars => DeviceInv'
<1> SUFFICES ASSUME DeviceInv, [Next]_vars PROVE DeviceInv'
  OBVIOUS
<1> USE DEF ShownIsTrue, CountsDoNotWrap, RatiosAreShares, CoreClocksAreInHz,
         PathsSurviveEscaping
<1>a. settings \in Settings /\ saved \in Settings /\ settings.rate \in Int
  BY DEF DeviceInv, TypeOK, Settings
<1>b. connected \in BOOLEAN /\ m_requested_rate \in 0 .. MaxRate
  BY DEF DeviceInv, TypeOK
<1>1. CASE Confirm
  <2>1. SpinBox(settings.rate) \in Int
    BY <1>a DEF SpinBox, SpinMin, Least
  <2>2. settings' \in Settings
    BY <1>1, <1>a, <2>1 DEF Confirm, Settings
  <2> QED
    BY <1>1, <2>2, SettingsInv DEF Confirm
<1>2. CASE Edit
  <2>1. settings' \in Settings
    BY <1>2 DEF Edit, Settings, SpinMin
  <2> QED
    BY <1>2, <2>1, SettingsInv DEF Edit
<1>3. CASE Save
  BY <1>3, <1>a, SettingsInv DEF Save
<1>4. CASE Load
  <2>1. settings' = saved
    BY <1>4, ReadIsSaved DEF Load, DeviceInv
  <2> QED
    BY <1>4, <1>a, <2>1, SettingsInv DEF Load
<1>5. CASE Reconnect
  <2>1. m_requested_rate' \in 0 .. MaxRate
    BY <1>5, <1>a, ClampInRange DEF Reconnect
  <2>2. PICK p \in Described : pushed' = p
    BY <1>5 DEF Reconnect
  <2>3. CASE \E path \in Paths :
               p = [to |-> "mountpoints", raw |-> path,
                    shown |-> unescape_mount_path(escape(path))]
    <3>1. pushed'.to = "mountpoints" /\ pushed'.shown = pushed'.raw
      BY <2>2, <2>3, PathSurvives
    <3> QED
      BY <1>5, <2>1, <3>1, PushInv DEF Reconnect
  <2>4. CASE \E clock \in Clocks, unit \in {1, Kilo} :
               p = [to |-> "clock", raw |-> <<clock, unit>>,
                    shown |-> frequency(clock \div unit)]
    <3>1. PICK clock \in Clocks, unit \in {1, Kilo} :
            p = [to |-> "clock", raw |-> <<clock, unit>>,
                 shown |-> frequency(clock \div unit)]
      BY <2>4
    <3>2. /\ pushed'.to = "clock" /\ pushed'.raw[1] = clock
          /\ pushed'.shown = frequency(clock \div unit)
      BY <2>2, <3>1
    <3>3. frequency(clock \div unit) \in {clock, Kilo * (clock \div Kilo)}
      BY ClockInHz
    <3>4. ShownIsTrue'
      BY <3>2, <3>3
    <3> QED
      BY <1>5, <2>1, <3>2, <3>4, PushInv DEF Reconnect
  <2> QED
    BY <2>3, <2>4 DEF Described
<1>6. CASE Disconnect
  <2>1. ShownIsTrue'
    BY <1>6 DEF Disconnect, DeviceInv
  <2> QED
    BY <1>6, <1>b, <2>1, PushInv DEF Disconnect, DeviceInv, TypeOK, Nothing
<1>7. CASE WriteRate
  <2>1. m_requested_rate' \in 0 .. MaxRate
    BY <1>7, ClampInRange DEF WriteRate
  <2>2. ShownIsTrue'
    BY <1>7 DEF WriteRate, DeviceInv
  <2> QED
    BY <1>7, <1>b, <2>1, <2>2, PushInv DEF WriteRate, DeviceInv, TypeOK
<1>8. CASE PushFiles
  <2>1. PICK allocated, unused, max \in Uint64 :
          Push([to |-> "files", raw |-> <<allocated, unused, max>>,
                shown |-> <<count(system_open(allocated, unused)), count(max)>>])
    BY <1>8 DEF PushFiles
  <2>2. /\ pushed'.to = "files" /\ pushed'.raw = <<allocated, unused, max>>
        /\ pushed'.shown = <<count(system_open(allocated, unused)), count(max)>>
    BY <2>1 DEF Push
  <2> DEFINE used == allocated - Least(allocated, unused)
  <2>3. system_open(allocated, unused) = used /\ used \in 0 .. allocated
    BY Remainder DEF system_open
  <2>4. used \in Uint64
    BY <2>3 DEF Uint64
  <2>5. /\ count(system_open(allocated, unused)) = Least(used, IntMax)
        /\ count(max) = Least(max, IntMax)
    BY <2>3, <2>4, CountSaturates
  <2>6. ShownIsTrue'
    BY <2>2, <2>5
  <2> QED
    BY <1>b, <2>1, <2>2, <2>6, PushInv DEF Push
<1>9. CASE PushProcess
  <2>1. PICK held \in Uint64 \ {Word - 1}, max \in Uint64, listed \in BOOLEAN :
          LET open == process_open(IF listed THEN held + 1 ELSE 0)
          IN  Push([to |-> "process", raw |-> <<IF listed THEN held ELSE 0, max>>,
                    shown |-> <<count(open), count(max), process_files_usage(max, open)>>])
    BY <1>9 DEF PushProcess
  <2> DEFINE open == process_open(IF listed THEN held + 1 ELSE 0)
  <2>2. open = (IF listed THEN held ELSE 0) /\ open \in Uint64
    BY DEF process_open, Uint64
  <2> HIDE DEF open
  <2>3. /\ pushed'.to = "process" /\ pushed'.raw = <<open, max>>
        /\ pushed'.shown = <<count(open), count(max), process_files_usage(max, open)>>
    BY <2>1, <2>2 DEF Push, open
  <2>4. count(open) = Least(open, IntMax) /\ count(max) = Least(max, IntMax)
    BY <2>2, CountSaturates
  <2>5. IsShare(process_files_usage(max, open), open, max)
    BY <2>2, ProcessUsageIsShare
  <2>6. ShownIsTrue'
    BY <2>3, <2>4, <2>5
  <2> QED
    BY <1>b, <2>1, <2>3, <2>6, PushInv DEF Push
<1>10. CASE PushMemory
  <2>1. PICK total, available \in Uint64 :
          Push([to |-> "memory", raw |-> <<total, available>>,
                shown |-> <<memory_used(total, available), usage_of(total, available)>>])
    BY <1>10 DEF PushMemory
  <2>2. /\ pushed'.to = "memory" /\ pushed'.raw = <<total, available>>
        /\ pushed'.shown = <<memory_used(total, available), usage_of(total, available)>>
    BY <2>1 DEF Push
  <2>3. ShownIsTrue'
    BY <2>2, MemoryAddsUp
  <2> QED
    BY <1>b, <2>1, <2>2, <2>3, PushInv DEF Push
<1>11. CASE EndPush
  <2>1. pushed'.to = "nothing" /\ pushed' = Nothing
    BY <1>11 DEF EndPush, Nothing
  <2> QED
    BY <1>11, <1>b, <2>1, PushInv DEF EndPush
<1>12. CASE UNCHANGED vars
  BY <1>12, <1>a, SettingsInv DEF vars
<1> QED
  BY <1>1, <1>2, <1>3, <1>4, <1>5, <1>6, <1>7, <1>8, <1>9, <1>10, <1>11, <1>12
     DEF Next

-----------------------------------------------------------------------------
\* The invariant: types, the file and the settings saved agree, and everything
\* shown is true.
THEOREM DeviceInvariant == Spec => []DeviceInv
  BY InitInv, NextInv, PTL DEF Spec

\* Every variable of the device keeps its type: the rate that is requested is
\* in its range whatever document was loaded.
THEOREM DeviceTypeCorrect == Spec => []TypeOK
<1>1. DeviceInv => TypeOK
  BY DEF DeviceInv
<1> QED
  BY <1>1, DeviceInvariant, PTL

\* No count wraps around, for any width of the integers (Tree.cpp:166-171).
THEOREM CountsSaturate == Spec => []CountsDoNotWrap
<1>1. DeviceInv => CountsDoNotWrap
  BY DEF DeviceInv, ShownIsTrue
<1> QED
  BY <1>1, DeviceInvariant, PTL

\* Ratios tell the share in use, and memory adds up (Tree.cpp:173-179).
THEOREM RatiosTellShares == Spec => []RatiosAreShares
<1>1. DeviceInv => RatiosAreShares
  BY DEF DeviceInv, ShownIsTrue
<1> QED
  BY <1>1, DeviceInvariant, PTL

\* The base and the maximum clock of a core are in Hz, in whichever of the two
\* units they were reported (Tree.cpp:134-141, 803-804).
THEOREM CoreClocksShowHz == Spec => []CoreClocksAreInHz
<1>1. DeviceInv => CoreClocksAreInHz
  BY DEF DeviceInv, ShownIsTrue
<1> QED
  BY <1>1, DeviceInvariant, PTL

\* The paths of directories show as they are, whatever characters they consist
\* of (Platform.cpp:104-124).
THEOREM PathsShowAsTheyAre == Spec => []PathsSurviveEscaping
<1>1. DeviceInv => PathsSurviveEscaping
  BY DEF DeviceInv, ShownIsTrue
<1> QED
  BY <1>1, DeviceInvariant, PTL

\* What is loaded is what was saved (SpecificSettingsSerialization.cpp).
THEOREM SavedIsLoaded == Spec => LoadReturnsTheSaved
<1>1. DeviceInv /\ [Next]_vars => [Load => settings' = saved]_vars
  BY ReadIsSaved DEF DeviceInv, Load
<1> QED
  BY <1>1, DeviceInvariant, PTL DEF Spec, LoadReturnsTheSaved

\* Confirming the editor has no effect on the next connection: the spin box
\* and the clamp agree on any rate (ProtocolSettingsWidget.cpp:28).
THEOREM EditorIsNeutral == Spec => ConfirmChangesNothing
<1>1. ASSUME DeviceInv, Confirm PROVE Effect(settings') = Effect(settings)
  <2>1. settings.rate \in Int /\ settings \in Settings
    BY <1>1 DEF DeviceInv, TypeOK, Settings
  <2>2. /\ settings'.rate = SpinBox(settings.rate)
        /\ settings'.perThreadCpu = settings.perThreadCpu
    BY <1>1, <2>1 DEF Confirm, Settings
  <2>3. Clamp(SpinBox(settings.rate)) = Clamp(settings.rate)
    BY <2>1 DEF Clamp, SpinBox, SpinMin, Least
  <2> QED
    BY <2>2, <2>3 DEF Effect
<1>2. DeviceInv /\ [Next]_vars => [Confirm => Effect(settings') = Effect(settings)]_vars
  BY <1>1
<1> QED
  BY <1>2, DeviceInvariant, PTL DEF Spec, ConfirmChangesNothing
=============================================================================
