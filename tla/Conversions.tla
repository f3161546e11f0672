---------------------------- MODULE Conversions -----------------------------
(***************************************************************************)
(* The arithmetic between what the system reports, in unsigned 64-bit      *)
(* integers, and what the addresses show (SysInfo/Tree.cpp, the open files *)
(* of SysInfo/Platform.cpp), for any width of the integers.  A ratio is a  *)
(* fraction; the rounding of floats is left out.                           *)
(***************************************************************************)
EXTENDS Integers

CONSTANTS
  IntMax,     \* std::numeric_limits<int>::max()
  Word,       \* std::uint64_t is 0 .. Word - 1
  MinClock,   \* 10 MHz: no clock is slower
  Kilo        \* 1000

ASSUME WidthAssumption ==
  /\ IntMax \in Nat \ {0}
  /\ Word \in Nat
  /\ Word > IntMax

ASSUME ClockAssumption ==
  /\ Kilo \in Nat \ {0}
  /\ MinClock \in Nat \ {0}

Uint64 == 0 .. Word - 1

Ratios == [part : Nat, whole : Nat \ {0}]

\* a - b in std::uint64_t
Minus(a, b) == (a - b) % Word

Least(a, b) == IF a <= b THEN a ELSE b

\* int(v)
Narrow(v) == ((v + IntMax + 1) % (2 * (IntMax + 1))) - (IntMax + 1)

\* Mutation of count: the cast alone.
count_narrowed(v) == Narrow(v)

\* ossia integers have 32 bits.
count(v) == Narrow(Least(v, IntMax))

\* Mutation of usage_of: more may be free than there is.
usage_of_unclamped(total, free) ==
  IF total = 0 THEN [part |-> 0, whole |-> 1]
               ELSE [part |-> Minus(total, free), whole |-> total]

\* The ratio of what is not free.
usage_of(total, free) ==
  IF total = 0 THEN [part |-> 0, whole |-> 1]
               ELSE [part |-> Minus(total, Least(total, free)), whole |-> total]

\* /process/files/usage
process_files_usage(max, open) == usage_of(max, Minus(max, Least(max, open)))

\* /memory/used
memory_used(total, available) == Minus(total, Least(total, available))

\* Mutation of frequency: a clock of exactly 10 MHz is taken for kHz too.
frequency_to(hz) == IF hz > 0 /\ hz <= MinClock THEN hz * Kilo ELSE hz

\* "Linux exposes the cpufreq sysfs values in kHz, which hwinfo forwards as if
\* they were Hz."
frequency(hz) == IF hz > 0 /\ hz < MinClock THEN hz * Kilo ELSE hz

\* open_files(), of the n entries of /proc/self/fd: "The iterator holds one of
\* the descriptors it is listing".
process_open(n) == IF n > 0 THEN n - 1 ELSE 0

\* open_files(), of /proc/sys/fs/file-nr.
system_open(allocated, unused) == Minus(allocated, Least(allocated, unused))
=============================================================================
