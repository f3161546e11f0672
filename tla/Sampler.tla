------------------------------ MODULE Sampler ------------------------------
(***************************************************************************)
(* How sampler::fetch (SysInfo/Tree.cpp) turns the byte counters of the    *)
(* network interfaces, read by platform::network_traffic, into the         *)
(* throughput published under /network/N/rx.  The two directions are       *)
(* treated alike; rx stands for both.                                      *)
(*                                                                         *)
(* A throughput is kept as the bytes it accounts for: the code divides     *)
(* them by dt, the time since the previous fetch.                          *)
(***************************************************************************)
EXTENDS Integers

CONSTANTS
  Interfaces,  \* hw.networks, found when the device connected
  Wrap,        \* a counter of the system goes from Wrap - 1 to 0
  MaxBytes,    \* bound on the bytes received between two fetches
  MaxTime      \* bound on the clock

ASSUME SamplerAssumption ==
  /\ Wrap \in Nat \ {0}
  /\ MaxBytes \in Nat
  /\ MaxTime \in Nat \ {0}

VARIABLES
  up,           \* the interfaces the system has at present
  counter,      \* bytes received since the interface came up, modulo Wrap
  now,          \* steady_clock
  m_prev_rx,
  m_prev_time,  \* 0 before the first fetch
  rx_total,     \* n.rx_total of the last snapshot
  rx,           \* n.rx of the last snapshot, times its dt
  since,        \* bytes received since the last fetch
  moved,        \* bytes received between the last two fetches
  wasRead,      \* the interfaces whose counter the last fetch could read
  steady,       \* ... and which were not reset and did not wrap since
  paired,       \* wasRead at the fetch before the last one
  exact         \* steady at the last fetch, and read by it

systemVars  == <<up, counter, now>>
samplerVars == <<m_prev_rx, m_prev_time, rx_total, rx>>
historyVars == <<since, moved, wasRead, steady, paired, exact>>
vars == <<systemVars, samplerVars, historyVars>>

Counters == 0 .. Wrap - 1

TypeOK ==
  /\ up \subseteq Interfaces
  /\ counter \in [Interfaces -> Counters]
  /\ now \in 1 .. MaxTime
  /\ m_prev_rx \in [Interfaces -> Counters]
  /\ m_prev_time \in 0 .. now
  /\ rx_total \in [Interfaces -> Counters]
  /\ rx \in [Interfaces -> Counters]
  /\ since \in [Interfaces -> 0 .. MaxBytes]
  /\ moved \in [Interfaces -> 0 .. MaxBytes]
  /\ wasRead \subseteq Interfaces
  /\ steady \subseteq wasRead
  /\ paired \subseteq Interfaces
  /\ exact \subseteq paired

Init ==
  /\ up = Interfaces
  /\ counter \in [Interfaces -> Counters]
  /\ now = 1
  /\ m_prev_rx = [i \in Interfaces |-> 0]
  /\ m_prev_time = 0
  /\ rx_total = [i \in Interfaces |-> 0]
  /\ rx = [i \in Interfaces |-> 0]
  /\ since = [i \in Interfaces |-> 0]
  /\ moved = [i \in Interfaces |-> 0]
  /\ wasRead = {}
  /\ steady = {}
  /\ paired = {}
  /\ exact = {}

-----------------------------------------------------------------------------
(***************************************************************************)
(* The system                                                              *)
(***************************************************************************)

Receive(i) ==
  /\ i \in up
  /\ since[i] < MaxBytes
  /\ counter' = [counter EXCEPT ![i] = (@ + 1) % Wrap]
  /\ since' = [since EXCEPT ![i] = @ + 1]
  /\ steady' = IF counter'[i] = 0 THEN steady \ {i} ELSE steady
  /\ UNCHANGED <<up, now, samplerVars, moved, wasRead, paired, exact>>

GoDown(i) ==
  /\ i \in up
  /\ up' = up \ {i}
  /\ UNCHANGED <<counter, now, samplerVars, historyVars>>

\* An interface that comes up counts from 0.
ComeUp(i) ==
  /\ i \in Interfaces \ up
  /\ up' = up \cup {i}
  /\ counter' = [counter EXCEPT ![i] = 0]
  /\ steady' = steady \ {i}
  /\ UNCHANGED <<now, samplerVars, since, moved, wasRead, paired, exact>>

Elapse ==
  /\ now < MaxTime
  /\ now' = now + 1
  /\ UNCHANGED <<up, counter, samplerVars, historyVars>>

-----------------------------------------------------------------------------
(***************************************************************************)
(* sampler::fetch.  listed are the interfaces network_traffic lists: those *)
(* that are up, or none if it fails.  unread are those among them whose    *)
(* counter read_uint cannot read, which it reports as 0.                   *)
(***************************************************************************)

network_traffic(listed, unread) ==
  [i \in listed |-> IF i \in unread THEN 0 ELSE counter[i]]

\* dt > 0.: there is a previous fetch, at an earlier instant.
HasInterval == m_prev_time # 0 /\ now > m_prev_time

\* Mutation of Delta: no test.
DeltaUntested(total, prev) == total - prev

\* Mutation of Delta: the counter is taken for one that only grows, and the
\* difference wraps around.
DeltaModulo(total, prev) == (total + Wrap - prev) % Wrap

\* "Counters wrap around, and an interface going down resets them"
Delta(total, prev) == IF total >= prev THEN total - prev ELSE 0

\* Mutation of Remember: the counters of the first fetch are kept.
RememberFirst(counters) ==
  m_prev_rx' = [i \in Interfaces |->
                  IF i \in DOMAIN counters /\ m_prev_time = 0
                    THEN counters[i] ELSE m_prev_rx[i]]

\* An interface that is not listed keeps its previous counter.
Remember(counters) ==
  m_prev_rx' = [i \in Interfaces |->
                  IF i \in DOMAIN counters THEN counters[i] ELSE m_prev_rx[i]]

Fetch(listed, unread) ==
  LET counters == network_traffic(listed, unread)
      readable == listed \ unread
  IN  /\ rx_total' = [i \in Interfaces |->
                        IF i \in listed THEN counters[i] ELSE 0]
      /\ rx' = [i \in Interfaces |->
                  IF i \in listed /\ HasInterval
                    THEN Delta(counters[i], m_prev_rx[i]) ELSE 0]
      /\ Remember(counters)
      /\ m_prev_time' = now
      /\ since' = [i \in Interfaces |-> 0]
      /\ moved' = since
      /\ wasRead' = readable
      /\ steady' = readable
      /\ paired' = IF HasInterval THEN wasRead ELSE {}
      /\ exact' = IF HasInterval THEN steady \cap readable ELSE {}
      /\ UNCHANGED systemVars

FetchNetworks ==
  \E listed \in {up, {}} : \E unread \in SUBSET listed : Fetch(listed, unread)

Next ==
  \/ \E i \in Interfaces : Receive(i) \/ GoDown(i) \/ ComeUp(i)
  \/ Elapse
  \/ FetchNetworks

Spec == Init /\ [][Next]_vars

-----------------------------------------------------------------------------
\* The throughput of an interface whose counter was read by two fetches in a
\* row, and did not start over in between, accounts for every byte received
\* between them and for no other.
ThroughputIsExact == \A i \in exact : rx[i] = moved[i]

\* If the counter started over in between, the throughput misses bytes but
\* never shows more than were received (Tree.cpp:334-338).
ThroughputNotInflated == \A i \in paired : rx[i] <= moved[i]

\* /network/N/rx is the "incoming throughput, in bytes per second"
\* (Tree.cpp:683-685): whatever the previous fetch could read, it accounts
\* for no byte that was received before that fetch.
ThroughputOfInterval == \A i \in Interfaces : rx[i] <= moved[i]
=============================================================================
