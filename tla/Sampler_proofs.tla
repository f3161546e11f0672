--------------------------- MODULE Sampler_proofs ---------------------------
(***************************************************************************)
(* Proofs about Sampler, for any set of interfaces, any width of the       *)
(* counters and any bounds: the throughput after two good readings never   *)
(* accounts for bytes that were not received between them, and accounts    *)
(* for all of them if the counter did not start over.                      *)
(***************************************************************************)
EXTENDS Sampler, TLAPS

\* Since a fetch that read it, a counter grew by the bytes received, unless it
\* started over, and by no more in any case.
Growth ==
  /\ \A i \in wasRead : counter[i] <= m_prev_rx[i] + since[i]
  /\ \A i \in steady : counter[i] = m_prev_rx[i] + since[i]

\* The inductive invariant of the theorems below.
SamplerInv == TypeOK /\ Growth /\ ThroughputNotInflated /\ ThroughputIsExact

-----------------------------------------------------------------------------
\* A counter of the system after one more byte.
LEMMA OneMore ==
  ASSUME NEW c \in Counters
  PROVE  /\ (c + 1) % Wrap \in Counters
         /\ (c + 1) % Wrap <= c + 1
         /\ (c + 1) % Wrap # 0 => (c + 1) % Wrap = c + 1
<1>1. CASE c + 1 < Wrap
  <2>1. (c + 1) % Wrap = c + 1
    BY <1>1, SamplerAssumption DEF Counters
  <2> QED
    BY <2>1, <1>1, SamplerAssumption DEF Counters
<1>2. CASE c + 1 = Wrap
  <2>1. (c + 1) % Wrap = 0
    BY <1>2, SamplerAssumption DEF Counters
  <2> QED
    BY <2>1, <1>2, SamplerAssumption DEF Counters
<1> QED
  BY <1>1, <1>2, SamplerAssumption DEF Counters

\* A difference of two counters is a counter, at most what one grew by.
LEMMA DeltaIsCounter ==
  ASSUME NEW total \in Counters, NEW prev \in Counters
  PROVE  Delta(total, prev) \in Counters
  BY SamplerAssumption DEF Counters, Delta

-----------------------------------------------------------------------------
\* Before the first fetch.
LEMMA InitInv == Init => SamplerInv
  BY SamplerAssumption
     DEF Init, SamplerInv, TypeOK, Growth, ThroughputNotInflated,
         ThroughputIsExact, Counters

\* One more byte is one more in both, or the counter starts over.
LEMMA ReceiveInv ==
  ASSUME SamplerInv, NEW i \in Interfaces, Receive(i)
  PROVE  SamplerInv'
<1> USE DEF SamplerInv, Receive, samplerVars
<1>1. /\ counter'[i] \in Counters
      /\ counter'[i] <= counter[i] + 1
      /\ counter'[i] # 0 => counter'[i] = counter[i] + 1
  BY OneMore DEF TypeOK
<1>2. /\ counter' \in [Interfaces -> Counters]
      /\ \A j \in Interfaces \ {i} : counter'[j] = counter[j] /\ since'[j] = since[j]
  BY <1>1 DEF TypeOK
<1>3. /\ since' \in [Interfaces -> 0 .. MaxBytes]
      /\ since'[i] = since[i] + 1
  BY SamplerAssumption DEF TypeOK
<1>4. steady' \subseteq steady /\ (i \in steady' => counter'[i] = counter[i] + 1)
  BY <1>1
<1>5. TypeOK'
  BY <1>2, <1>3, <1>4 DEF TypeOK
<1>6. Growth'
  BY <1>1, <1>2, <1>3, <1>4, SamplerAssumption DEF TypeOK, Growth, Counters
<1>7. ThroughputNotInflated' /\ ThroughputIsExact'
  BY DEF ThroughputNotInflated, ThroughputIsExact
<1> QED
  BY <1>5, <1>6, <1>7

\* An interface that comes up counts from 0.
LEMMA ComeUpInv ==
  ASSUME SamplerInv, NEW i \in Interfaces, ComeUp(i)
  PROVE  SamplerInv'
<1> USE DEF SamplerInv, ComeUp, samplerVars
<1>1. /\ counter' \in [Interfaces -> Counters]
      /\ counter'[i] = 0
      /\ \A j \in Interfaces \ {i} : counter'[j] = counter[j]
  BY SamplerAssumption DEF TypeOK, Counters
<1>2. TypeOK'
  BY <1>1 DEF TypeOK
<1>3. Growth'
  BY <1>1, SamplerAssumption DEF TypeOK, Growth, Counters
<1>4. ThroughputNotInflated' /\ ThroughputIsExact'
  BY DEF ThroughputNotInflated, ThroughputIsExact
<1> QED
  BY <1>2, <1>3, <1>4

\* A fetch remembers what it reads, and turns what was remembered into the
\* throughput.
LEMMA FetchInv ==
  ASSUME SamplerInv, NEW listed \in {up, {}}, NEW unread \in SUBSET listed,
         Fetch(listed, unread)
  PROVE  SamplerInv'
<1> DEFINE counters == network_traffic(listed, unread)
           readable == listed \ unread
<1> USE DEF SamplerInv
<1>1. /\ listed \subseteq Interfaces
      /\ DOMAIN counters = listed
      /\ \A i \in listed : counters[i] \in Counters
      /\ \A i \in readable : counters[i] = counter[i]
  BY SamplerAssumption DEF TypeOK, network_traffic, Counters
<1>2. /\ m_prev_rx' \in [Interfaces -> Counters]
      /\ \A i \in readable : m_prev_rx'[i] = counter[i]
  BY <1>1 DEF TypeOK, Fetch, Remember
<1>3. /\ rx' \in [Interfaces -> Counters]
      /\ rx_total' \in [Interfaces -> Counters]
  <2>1. \A i \in listed : Delta(counters[i], m_prev_rx[i]) \in Counters
    BY <1>1, DeltaIsCounter DEF TypeOK
  <2>2. 0 \in Counters
    BY SamplerAssumption DEF Counters
  <2> HIDE DEF counters
  <2> QED
    BY <1>1, <2>1, <2>2 DEF Fetch, counters
<1>4. \A i \in Interfaces :
        \/ rx'[i] = 0
        \/ i \in readable /\ rx'[i] = Delta(counter[i], m_prev_rx[i])
  <2>1. \A i \in unread : Delta(counters[i], m_prev_rx[i]) = 0
    BY <1>1 DEF network_traffic, Delta, TypeOK, Counters
  <2> QED
    BY <1>1, <2>1 DEF Fetch
<1>5a. \A i \in readable : HasInterval => rx'[i] = Delta(counter[i], m_prev_rx[i])
  BY <1>1 DEF Fetch
<1>5. /\ since' = [i \in Interfaces |-> 0] /\ moved' = since
      /\ wasRead' = readable /\ steady' = readable
      /\ paired' = IF HasInterval THEN wasRead ELSE {}
      /\ exact' = IF HasInterval THEN steady \cap readable ELSE {}
      /\ m_prev_time' = now /\ UNCHANGED <<up, counter, now>>
  BY DEF Fetch, systemVars
<1>6. TypeOK'
  BY <1>1, <1>2, <1>3, <1>5, SamplerAssumption DEF TypeOK
<1>7. Growth'
  BY <1>1, <1>2, <1>5 DEF TypeOK, Growth, Counters
<1>8. ThroughputNotInflated'
  BY <1>1, <1>3, <1>4, <1>5, SamplerAssumption
     DEF TypeOK, Growth, ThroughputNotInflated, Delta, Counters
<1>9. ThroughputIsExact'
  BY <1>1, <1>5a, <1>5, SamplerAssumption
     DEF TypeOK, Growth, ThroughputIsExact, Delta, Counters
<1> QED
  BY <1>6, <1>7, <1>8, <1>9

\* Every step preserves the invariant.
LEMMA NextInv == SamplerInv /\ [Next]_vars => SamplerInv'
<1> SUFFICES ASSUME SamplerInv, [Next]_vars PROVE SamplerInv'
  OBVIOUS
<1>1. ASSUME NEW i \in Interfaces, Receive(i) PROVE SamplerInv'
  BY <1>1, ReceiveInv
<1>2. ASSUME NEW i \in Interfaces, GoDown(i) PROVE SamplerInv'
  BY <1>2 DEF GoDown, samplerVars, historyVars, SamplerInv, TypeOK, Growth,
              ThroughputNotInflated, ThroughputIsExact, Counters
<1>3. ASSUME NEW i \in Interfaces, ComeUp(i) PROVE SamplerInv'
  BY <1>3, ComeUpInv
<1>4. CASE Elapse
  BY <1>4, SamplerAssumption
     DEF Elapse, samplerVars, historyVars, SamplerInv, TypeOK, Growth,
         ThroughputNotInflated, ThroughputIsExact, Counters
<1>5. CASE FetchNetworks
  BY <1>5, FetchInv DEF FetchNetworks
<1>6. CASE UNCHANGED vars
  BY <1>6 DEF vars, systemVars, samplerVars, historyVars, SamplerInv, TypeOK,
              Growth, ThroughputNotInflated, ThroughputIsExact, Counters
<1> QED
  BY <1>1, <1>2, <1>3, <1>4, <1>5, <1>6 DEF Next

-----------------------------------------------------------------------------
\* The invariant of the sampler: with types and throughputs, how the counters
\* of sampler::fetch relate to those of the system.
THEOREM SamplerInvariant == Spec => []SamplerInv
  BY InitInv, NextInv, PTL DEF Spec

\* Every variable of the sampler keeps its type: a throughput is never
\* negative, for any counter width.
THEOREM SamplerTypeCorrect == Spec => []TypeOK
<1>1. SamplerInv => TypeOK
  BY DEF SamplerInv
<1> QED
  BY <1>1, SamplerInvariant, PTL

\* The throughput of an interface read by two fetches in a row never exceeds
\* what it received between them, however often its counter wrapped, was reset
\* or was replaced (Tree.cpp:334-338).
THEOREM NeverInflated == Spec => []ThroughputNotInflated
<1>1. SamplerInv => ThroughputNotInflated
  BY DEF SamplerInv
<1> QED
  BY <1>1, SamplerInvariant, PTL

\* It is exact if the counter did not start over.
THEOREM ExactWhenSteady == Spec => []ThroughputIsExact
<1>1. SamplerInv => ThroughputIsExact
  BY DEF SamplerInv
<1> QED
  BY <1>1, SamplerInvariant, PTL
=============================================================================
