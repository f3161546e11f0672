--------------------------- MODULE Mounts_proofs ----------------------------
(***************************************************************************)
(* Proofs about Mounts, for any directories, disks and mount points and    *)
(* any bound on the mount table.                                           *)
(***************************************************************************)
EXTENDS Mounts, MountPath_proofs

-----------------------------------------------------------------------------
(***************************************************************************)
(* Least and greatest elements                                             *)
(***************************************************************************)

\* The line that mount_table takes for a device is the first one.
LEMMA MinIsLeast ==
  ASSUME NEW S, S \subseteq Nat, S # {}
  PROVE  Min(S) \in S /\ \A y \in S : Min(S) <= y
  BY LeastExists DEF Min

\* The greatest element of a set is the least of its bounds.
LEMMA MaxIsElement ==
  ASSUME NEW n \in Nat, NEW S, S \subseteq 1 .. n, S # {}
  PROVE  Max(S) \in S
<1> DEFINE Bounds == {b \in Nat : \A y \in S : y <= b}
<1>1. n \in Bounds
  OBVIOUS
<1>2. PICK b \in Bounds : \A c \in Bounds : b <= c
  <2>1. Bounds \subseteq Nat /\ Bounds # {}
    BY <1>1
  <2> HIDE DEF Bounds
  <2> QED
    BY <2>1, LeastExists
<1>3. b \in S
  <2> SUFFICES ASSUME b \notin S PROVE FALSE
    OBVIOUS
  <2>1. \A y \in S : y \in Nat /\ y < b
    BY <1>2
  <2>2. b \in Nat /\ b > 0
    <3>1. b \in Nat
      BY <1>2
    <3>2. PICK y : y \in S
      OBVIOUS
    <3>3. y \in 1 .. n
      BY <3>2
    <3> QED
      BY <3>1, <3>2, <3>3, <2>1
  <2>3. b - 1 \in Bounds
    BY <2>1, <2>2
  <2>4. ~(b <= b - 1)
    BY <2>2
  <2> QED
    BY <2>3, <2>4, <1>2
<1>4. \A y \in S : b >= y
  BY <1>2
<1> QED
  BY <1>3, <1>4 DEF Max

\* A single line is the last one.
LEMMA MaxOfOne == \A k \in Nat : Max({k}) = k
  BY DEF Max

-----------------------------------------------------------------------------
(***************************************************************************)
(* The invariant                                                           *)
(***************************************************************************)

\* What can be mounted, and where.
Mountable == Devices \cup {Overlay}
Mountpoints == Paths \cup {Root}

Typed ==
  /\ TypeOK
  /\ Len(proc_mounts) >= 1
  /\ ~connected => DOMAIN hw_mounts = {}
  /\ pending => connected
  /\ accurate => connected

\* As long as no mount changed, the paths kept are, for the first report of each
\* partition that was mounted at the scan, one path that it is mounted on.
Chosen ==
  steady /\ scanned # {} =>
    /\ Plain
    /\ \A k \in DOMAIN hw_mounts :
         /\ hw_mounts[k].disk = Partitions[k][1]
         /\ Partitions[k][2] \in scanned
         /\ \E i \in DOMAIN proc_mounts :
              /\ proc_mounts[i][1] = Partitions[k][2]
              /\ proc_mounts[i][2] = hw_mounts[k].path
    /\ \A j \in DOMAIN Partitions : Partitions[j][2] \in scanned =>
         \E k \in DOMAIN hw_mounts : Partitions[k][2] = Partitions[j][2]
    /\ \A k \in DOMAIN hw_mounts : FirstReport(k)

\* A fetch that is not pushed yet found these filesystems.
Measured ==
  pending /\ steady /\ scanned # {} =>
    /\ DOMAIN snap_mounts = DOMAIN hw_mounts
    /\ \A k \in DOMAIN snap_mounts : snap_mounts[k] = Partitions[k][2]

MountsInv == Typed /\ Chosen /\ Measured /\ CapacityIsOwn

-----------------------------------------------------------------------------
(***************************************************************************)
(* What the operators return                                               *)
(***************************************************************************)

\* The elements of a sequence of pairs, one by one.
LEMMA PairsOfSequence ==
  ASSUME NEW A, NEW B, NEW s \in Seq(A \X B)
  PROVE  /\ DOMAIN s = 1 .. Len(s) /\ Len(s) \in Nat
         /\ \A k \in DOMAIN s : s[k] = <<s[k][1], s[k][2]>>
                              /\ s[k][1] \in A /\ s[k][2] \in B
<1>1. DOMAIN s = 1 .. Len(s) /\ Len(s) \in Nat
  BY LenProperties
<1>2. \A k \in DOMAIN s : s[k] \in A \X B
  BY <1>1, ElementOfSeq
<1> QED
  BY <1>1, <1>2

\* What hwinfo reports: disks and devices.
LEMMA PartitionsTyped ==
  /\ DOMAIN Partitions = 1 .. Len(Partitions) /\ Len(Partitions) \in Nat
  /\ \A k \in DOMAIN Partitions :
       /\ Partitions[k] = <<Partitions[k][1], Partitions[k][2]>>
       /\ Partitions[k][1] \in Disks /\ Partitions[k][2] \in Devices
  BY MountsAssumption, PairsOfSequence

\* The lines of the mount table: what is mounted, and where.
LEMMA MountsTyped ==
  ASSUME proc_mounts \in MountTables
  PROVE  /\ DOMAIN proc_mounts = 1 .. Len(proc_mounts) /\ Len(proc_mounts) \in Nat
         /\ \A k \in DOMAIN proc_mounts :
              proc_mounts[k][1] \in Mountable /\ proc_mounts[k][2] \in Mountpoints
  BY PairsOfSequence DEF MountTables, Mountable, Mountpoints

\* Something is behind every location.
LEMMA BehindTyped ==
  ASSUME Typed, NEW location
  PROVE  Behind(location) \in FileSystems
<1> DEFINE on == {k \in DOMAIN proc_mounts : proc_mounts[k][2] = location}
<1>1. /\ DOMAIN proc_mounts = 1 .. Len(proc_mounts) /\ Len(proc_mounts) \in Nat
      /\ \A k \in DOMAIN proc_mounts : proc_mounts[k][1] \in FileSystems
      /\ 1 \in DOMAIN proc_mounts
  BY MountsTyped DEF Typed, TypeOK, Mountable, FileSystems
<1>2. on # {} => Max(on) \in DOMAIN proc_mounts
  BY <1>1, MaxIsElement
<1> HIDE DEF on
<1>3. DevFs \in FileSystems /\ NoFs \in FileSystems
  BY DEF FileSystems
<1>4. Behind(location) =
        IF location \in Devices THEN DevFs
        ELSE IF location \notin Paths \cup {Root} THEN NoFs
        ELSE IF on = {} THEN proc_mounts[1][1]
        ELSE proc_mounts[Max(on)][1]
  BY DEF Behind, on
<1> QED
  BY <1>1, <1>2, <1>3, <1>4

\* The paths of the mount table are read as they are.
LEMMA PathsRoundTrip ==
  \A path \in Mountpoints : unescape_mount_path(escape(path)) = path
  BY UnescapeIsInverse, MountsAssumption DEF Mountpoints

\* The mount table has the first mount of every device that is mounted.
LEMMA TableOfFirst ==
  ASSUME Typed, NEW device \in DOMAIN mount_table
  PROVE  /\ device \in Devices
         /\ mount_table[device] \in Mountpoints
         /\ \E i \in DOMAIN proc_mounts :
              /\ proc_mounts[i][1] = device
              /\ proc_mounts[i][2] = mount_table[device]
<1> DEFINE Lines == {k \in DOMAIN proc_mounts : proc_mounts[k][1] = device}
<1>1. /\ device \in Devices /\ Lines # {}
      /\ mount_table[device] = unescape_mount_path(escape(proc_mounts[Min(Lines)][2]))
  BY DEF mount_table
<1>2. Lines \subseteq Nat
  BY MountsTyped DEF Typed, TypeOK
<1>3. Min(Lines) \in Lines
  <2> HIDE DEF Lines
  <2> QED
    BY <1>1, <1>2, MinIsLeast
<1>4. proc_mounts[Min(Lines)][2] \in Mountpoints
  BY <1>3, MountsTyped DEF Typed, TypeOK
<1>5. mount_table[device] = proc_mounts[Min(Lines)][2]
  BY <1>1, <1>4, PathsRoundTrip
<1> QED
  BY <1>1, <1>3, <1>4, <1>5

\* If no path has two filesystems on it, one is behind the path it is on.
LEMMA BehindPlain ==
  ASSUME Typed, Plain, NEW i \in DOMAIN proc_mounts
  PROVE  Behind(proc_mounts[i][2]) = proc_mounts[i][1]
<1> DEFINE path == proc_mounts[i][2]
           on == {k \in DOMAIN proc_mounts : proc_mounts[k][2] = path}
<1>1. path \in Mountpoints /\ i \in Nat
  BY MountsTyped DEF Typed, TypeOK
<1>2. on = {i}
  BY DEF Plain
<1>3. Max(on) = i
  BY <1>1, <1>2, MaxOfOne
<1>4. path \notin Devices
  BY <1>1, MountsAssumption DEF Mountpoints
<1>5. Behind(path) = proc_mounts[Max(on)][1]
  <2> HIDE DEF path
  <2> QED
    BY <1>1, <1>2, <1>4 DEF Behind, Mountpoints
<1> QED
  BY <1>3, <1>5

-----------------------------------------------------------------------------
(***************************************************************************)
(* The steps                                                               *)
(***************************************************************************)

\* What is shown stays true unless the sums are pushed or the device scans.
LEMMA SumsStay ==
  ASSUME CapacityIsOwn, UNCHANGED <<per_disk, overall, scanned, accurate>>
  PROVE  CapacityIsOwn'
<1>1. \A f : CountedOnce(f)' <=> CountedOnce(f)
  BY DEF CountedOnce, Number, FirstReport
<1> QED
  BY <1>1 DEF CapacityIsOwn

\* Nothing counted yet is a count.
LEMMA NoCountTyped == NoCount \in Counts
  BY PartitionsTyped DEF NoCount, Counts

\* Before the connection nothing is chosen, measured or counted.
LEMMA InitInv == Init => MountsInv
<1> SUFFICES ASSUME Init PROVE MountsInv
  OBVIOUS
<1>1. proc_mounts \in MountTables /\ Len(proc_mounts) = 1
  BY DEF Init, MountTables
<1>2. /\ DOMAIN hw_mounts = {} /\ DOMAIN snap_mounts = {}
      /\ per_disk \in [Disks -> Counts] /\ overall \in Counts
  BY NoCountTyped DEF Init
<1>3. Typed
  <2>1. /\ connected = FALSE /\ pending = FALSE /\ accurate = FALSE
        /\ steady = FALSE /\ scanned = {}
    BY DEF Init
  <2>2. TypeOK
    BY <1>1, <1>2, <2>1 DEF TypeOK
  <2> QED
    BY <1>1, <1>2, <2>1, <2>2 DEF Typed
<1> QED
  BY <1>3 DEF Init, MountsInv, Chosen, Measured, CapacityIsOwn

\* Whoever mounts or unmounts leaves the code alone and is noted.
LEMMA MountInv ==
  ASSUME MountsInv, NEW device \in Devices, NEW path \in Paths, Mount(device, path)
  PROVE  MountsInv'
<1>1. /\ UNCHANGED codeVars /\ UNCHANGED <<scanned, accurate>>
      /\ steady' = FALSE
      /\ proc_mounts' = Append(proc_mounts, <<device, path>>)
  BY DEF Mount
<1>2. proc_mounts' \in MountTables /\ Len(proc_mounts') >= 1
  <2> DEFINE P == Mountable \X Mountpoints
  <2>1. proc_mounts \in Seq(P) /\ <<device, path>> \in P
    BY DEF MountsInv, Typed, TypeOK, MountTables, Mountable, Mountpoints
  <2> HIDE DEF P
  <2>2. proc_mounts' \in Seq(P) /\ Len(proc_mounts') >= 1
    BY <1>1, <2>1
  <2> QED
    BY <2>2 DEF P, MountTables, Mountable, Mountpoints
<1>3. Typed'
  BY <1>1, <1>2 DEF MountsInv, Typed, TypeOK, codeVars
<1>4. CapacityIsOwn'
  BY <1>1, SumsStay DEF MountsInv, codeVars
<1> QED
  BY <1>1, <1>3, <1>4 DEF MountsInv, Chosen, Measured

\* After an unmount nothing has to be accurate.
LEMMA UnmountInv ==
  ASSUME MountsInv, NEW k \in 2 .. MaxMounts, Unmount(k)
  PROVE  MountsInv'
<1>1. /\ UNCHANGED codeVars /\ UNCHANGED <<scanned, accurate>>
      /\ steady' = FALSE
      /\ k \in DOMAIN proc_mounts
      /\ proc_mounts' = RemoveAt(proc_mounts, k)
  BY DEF Unmount
<1>2. proc_mounts' \in MountTables /\ Len(proc_mounts') >= 1
  <2> DEFINE P == Mountable \X Mountpoints
             n == Len(proc_mounts)
             front == SubSeq(proc_mounts, 1, k - 1)
             back == SubSeq(proc_mounts, k + 1, n)
  <2>1. proc_mounts \in Seq(P)
    BY DEF MountsInv, Typed, TypeOK, MountTables, Mountable, Mountpoints
  <2> HIDE DEF P
  <2>2. /\ n \in Nat /\ k \in 2 .. n
        /\ \A i \in 1 .. n : proc_mounts[i] \in P
    BY <1>1, <2>1, LenProperties, MountsAssumption
  <2>3. /\ 1 \in Int /\ k - 1 \in Int /\ k + 1 \in Int /\ n \in Int
        /\ \A i \in 1 .. k - 1 : proc_mounts[i] \in P
        /\ \A i \in k + 1 .. n : proc_mounts[i] \in P
    BY <2>2
  <2>4. front \in Seq(P) /\ Len(front) = k - 1
    <3> HIDE DEF n
    <3> QED
      BY <2>2, <2>3, SubSeqProperties
  <2>5. back \in Seq(P)
    <3> HIDE DEF n
    <3> QED
      BY <2>2, <2>3, SubSeqProperties
  <2> HIDE DEF front, back
  <2>6. front \o back \in Seq(P) /\ Len(front \o back) = Len(front) + Len(back)
        /\ Len(back) \in Nat
    BY <2>4, <2>5, ConcatProperties, LenProperties
  <2>7. proc_mounts' = front \o back
    BY <1>1 DEF RemoveAt, front, back
  <2>8. proc_mounts' \in Seq(P) /\ Len(proc_mounts') >= 1
    BY <2>2, <2>4, <2>6, <2>7
  <2> QED
    BY <2>8 DEF P, MountTables, Mountable, Mountpoints
<1>3. Typed'
  BY <1>1, <1>2 DEF MountsInv, Typed, TypeOK, codeVars
<1>4. CapacityIsOwn'
  BY <1>1, SumsStay DEF MountsInv, codeVars
<1> QED
  BY <1>1, <1>3, <1>4 DEF MountsInv, Chosen, Measured

\* What a scan keeps.
LEMMA PathOfTyped ==
  ASSUME Typed, NEW k \in DOMAIN Partitions, Found(k)
  PROVE  PathOf(k) \in Locations
<1>1. CASE mount_table = <<>>
  BY <1>1, PartitionsTyped DEF PathOf, Locations
<1>2. CASE mount_table # <<>>
  BY <1>2, TableOfFirst DEF Found, PathOf, Locations, Mountpoints
<1> QED
  BY <1>1, <1>2

\* The scan keeps the paths of some of the mount points that were reported.
LEMMA ScanTyped ==
  ASSUME Typed, Scan
  PROVE  Typed'
<1> DEFINE kept == {i \in DOMAIN Partitions : Found(i) /\ ~Seen(i)}
<1>1. /\ hw_mounts' = [k \in kept |-> [disk |-> Partitions[k][1], path |-> PathOf(k)]]
      /\ connected' = TRUE /\ steady' = Plain /\ scanned' = DOMAIN mount_table
      /\ UNCHANGED <<proc_mounts, snap_mounts, per_disk, overall, pending, accurate>>
      /\ ~connected
  BY DEF Scan
<1>2. \A k \in kept : /\ Partitions[k][1] \in Disks
                      /\ PathOf(k) \in Locations
  BY PartitionsTyped, PathOfTyped
<1>3. kept \subseteq DOMAIN Partitions
  OBVIOUS
<1> HIDE DEF kept
<1>4. /\ DOMAIN hw_mounts' = kept
      /\ \A k \in kept : hw_mounts'[k] \in [disk : Disks, path : Locations]
  BY <1>1, <1>2
<1>5. scanned' \subseteq Devices
  BY <1>1 DEF mount_table
<1>6. steady' \in BOOLEAN
  BY <1>1 DEF Plain
<1> QED
  BY <1>1, <1>3, <1>4, <1>5, <1>6 DEF Typed, TypeOK

\* The scan chooses one path per partition that is reported and mounted.
LEMMA ScanChosen ==
  ASSUME Typed, Scan
  PROVE  Chosen'
<1> DEFINE kept == {i \in DOMAIN Partitions : Found(i) /\ ~Seen(i)}
<1> SUFFICES ASSUME steady', scanned' # {} PROVE Chosen'
  BY DEF Chosen
<1>1. /\ hw_mounts' = [k \in kept |-> [disk |-> Partitions[k][1], path |-> PathOf(k)]]
      /\ scanned' = DOMAIN mount_table
      /\ Plain
      /\ UNCHANGED proc_mounts
  BY DEF Scan
<1>2. mount_table # <<>>
  BY <1>1
<1>3. \A k \in DOMAIN Partitions :
        /\ Found(k) <=> Partitions[k][2] \in DOMAIN mount_table
        /\ PathOf(k) = mount_table[Partitions[k][2]]
  BY <1>2 DEF Found, PathOf
<1>4. DOMAIN Partitions = 1 .. Len(Partitions) /\ Len(Partitions) \in Nat
  BY PartitionsTyped
<1>5. /\ DOMAIN hw_mounts' = kept
      /\ \A k \in kept : /\ hw_mounts'[k].disk = Partitions[k][1]
                          /\ hw_mounts'[k].path = mount_table[Partitions[k][2]]
                          /\ Partitions[k][2] \in DOMAIN mount_table
  BY <1>1, <1>3
<1>6. Plain'
  BY <1>1 DEF Plain
<1>7. \A device \in DOMAIN mount_table : \E i \in DOMAIN proc_mounts :
        /\ proc_mounts[i][1] = device
        /\ proc_mounts[i][2] = mount_table[device]
  BY TableOfFirst
\* Every partition that is found has its path kept.
<1>8. ASSUME NEW j \in DOMAIN Partitions, Partitions[j][2] \in DOMAIN mount_table
      PROVE  \E k \in kept : Partitions[k][2] = Partitions[j][2]
  <2> DEFINE same == {i \in DOMAIN Partitions : Found(i) /\ PathOf(i) = PathOf(j)}
  <2>1. j \in same /\ same \subseteq Nat
    BY <1>3, <1>4, <1>8
  <2>2. PICK k \in same : \A i \in same : k <= i
    <3> HIDE DEF same
    <3> QED
      BY <2>1, LeastExists
  <2>3. k \in DOMAIN Partitions /\ Found(k) /\ PathOf(k) = PathOf(j)
    BY <2>2
  <2>4. ~Seen(k)
    <3> SUFFICES ASSUME NEW i \in 1 .. k - 1, Found(i), PathOf(i) = PathOf(k)
                 PROVE  FALSE
      BY DEF Seen
    <3>1. i \in same /\ i < k
      BY <1>4, <2>3
    <3> QED
      BY <1>4, <2>2, <2>3, <3>1
  <2>5. /\ Partitions[k][2] \in DOMAIN mount_table
        /\ mount_table[Partitions[k][2]] = mount_table[Partitions[j][2]]
    BY <1>3, <2>3
  <2>6. Partitions[k][2] = Partitions[j][2]
    BY <1>1, <1>7, <1>8, <2>5 DEF Plain
  <2> QED
    BY <2>3, <2>4, <2>6
\* Only its first report, if it is reported again.
<1>9. ASSUME NEW k \in kept, NEW j \in 1 .. k - 1, Partitions[j][2] = Partitions[k][2]
      PROVE  FALSE
  <2>1. j \in DOMAIN Partitions /\ k \in DOMAIN Partitions
    BY <1>4
  <2>2. Found(j) /\ PathOf(j) = PathOf(k)
    BY <1>3, <1>9, <2>1
  <2> QED
    BY <2>2 DEF Seen
<1>10. \A k \in kept : FirstReport(k)
  BY <1>9 DEF FirstReport
<1>11. \A k \in kept : k \in DOMAIN Partitions
  OBVIOUS
<1> HIDE DEF kept
<1>12. \A k \in DOMAIN hw_mounts' :
         /\ hw_mounts'[k].disk = Partitions[k][1]
         /\ Partitions[k][2] \in scanned'
         /\ \E i \in DOMAIN proc_mounts' :
              /\ proc_mounts'[i][1] = Partitions[k][2]
              /\ proc_mounts'[i][2] = hw_mounts'[k].path
  BY <1>1, <1>5, <1>7
<1>13. \A j \in DOMAIN Partitions : Partitions[j][2] \in scanned' =>
         \E k \in DOMAIN hw_mounts' : Partitions[k][2] = Partitions[j][2]
  BY <1>1, <1>5, <1>8
<1> QED
  BY <1>5, <1>6, <1>10, <1>12, <1>13 DEF Chosen

\* The scan preserves the invariant: nothing is measured yet.
LEMMA ScanInv ==
  ASSUME MountsInv, Scan
  PROVE  MountsInv'
<1>1. Typed' /\ Chosen'
  BY ScanTyped, ScanChosen DEF MountsInv
<1>2. ~pending' /\ ~accurate'
  BY DEF Scan, MountsInv, Typed
<1> QED
  BY <1>1, <1>2 DEF MountsInv, Measured, CapacityIsOwn

\* While nothing changes a fetch finds each filesystem where it was.
LEMMA FetchInv ==
  ASSUME MountsInv, Fetch
  PROVE  MountsInv'
<1>1. PICK gone \in SUBSET (Paths \ {proc_mounts[j][2] : j \in DOMAIN proc_mounts}) :
        snap_mounts' = [k \in DOMAIN hw_mounts |->
                          IF hw_mounts[k].path \in gone
                            THEN NoFs ELSE Behind(hw_mounts[k].path)]
  BY DEF Fetch
<1>2. /\ connected /\ pending' = TRUE /\ accurate' = FALSE
      /\ UNCHANGED <<proc_mounts, connected, hw_mounts, per_disk, overall, scanned, steady>>
  BY DEF Fetch
<1>3. /\ DOMAIN snap_mounts' = DOMAIN hw_mounts
      /\ \A k \in DOMAIN hw_mounts : snap_mounts'[k] \in FileSystems
  <2>1. NoFs \in FileSystems
    BY DEF FileSystems
  <2> QED
    BY <1>1, <2>1, BehindTyped DEF MountsInv
<1>4. Typed'
  BY <1>2, <1>3 DEF MountsInv, Typed, TypeOK
<1>5. Chosen'
  BY <1>2 DEF MountsInv, Chosen, Plain
<1>6. ASSUME steady, scanned # {}, NEW k \in DOMAIN hw_mounts
      PROVE  snap_mounts'[k] = Partitions[k][2]
  <2>1. Plain
    BY <1>6 DEF MountsInv, Chosen
  <2>2. PICK i \in DOMAIN proc_mounts : /\ proc_mounts[i][1] = Partitions[k][2]
                                       /\ proc_mounts[i][2] = hw_mounts[k].path
    BY <1>6 DEF MountsInv, Chosen
  <2>3. hw_mounts[k].path \notin gone
    BY <2>2
  <2>4. Behind(proc_mounts[i][2]) = proc_mounts[i][1]
    BY <2>1, BehindPlain DEF MountsInv
  <2>5. Behind(hw_mounts[k].path) = Partitions[k][2]
    BY <2>2, <2>4
  <2> QED
    BY <1>1, <2>3, <2>5
<1>7. Measured'
  BY <1>2, <1>3, <1>6 DEF Measured
<1> QED
  BY <1>2, <1>4, <1>5, <1>7 DEF MountsInv, CapacityIsOwn

\* A count is that of a set of mount points.
LEMMA CountTyped ==
  ASSUME NEW points, points \subseteq DOMAIN Partitions, NEW f
  PROVE  Count(points, f) \in 0 .. Len(Partitions)
<1>1. IsFiniteSet(DOMAIN Partitions) /\ Cardinality(DOMAIN Partitions) = Len(Partitions)
  <2>1. DOMAIN Partitions = 1 .. Len(Partitions) /\ Len(Partitions) \in Nat
    BY PartitionsTyped
  <2>2. \A n \in Nat : IsFiniteSet(1 .. n) /\ Cardinality(1 .. n) = n
    BY FS_Interval
  <2> QED
    BY <2>1, <2>2
<1> DEFINE found == {k \in points : snap_mounts[k] = f}
<1>2. found \in SUBSET DOMAIN Partitions
  OBVIOUS
<1> HIDE DEF found
<1>3. /\ Cardinality(found) \in Nat
      /\ Cardinality(found) <= Len(Partitions)
  BY <1>1, <1>2, FS_Subset, FS_CardinalityType
<1>4. Len(Partitions) \in Nat
  BY PartitionsTyped
<1> QED
  BY <1>3, <1>4 DEF Count, found

\* The sums of a push are counts.
LEMMA PushTyped ==
  ASSUME MountsInv, PushDisks
  PROVE  Typed'
<1>1. /\ per_disk' = [d \in Disks |-> PerDisk(d)]
      /\ overall' = [f \in FileSystems |-> Count(DOMAIN snap_mounts, f)]
      /\ pending' = FALSE /\ accurate' = steady
      /\ pending
      /\ UNCHANGED <<proc_mounts, connected, hw_mounts, snap_mounts, scanned, steady>>
  BY DEF PushDisks
<1>2. DOMAIN snap_mounts \subseteq DOMAIN Partitions
  BY DEF MountsInv, Typed, TypeOK
<1>3. overall' \in Counts
  BY <1>1, <1>2, CountTyped DEF Counts
<1>4. \A d \in Disks : PerDisk(d) \in Counts
  <2>1. \A d : PointsOf(d) \subseteq DOMAIN Partitions
    BY <1>2 DEF PointsOf
  <2>2. \A d : \A f : Count(PointsOf(d), f) \in 0 .. Len(Partitions)
    BY <2>1, CountTyped
  <2> QED
    BY <2>2 DEF PerDisk, Counts
<1>5. per_disk' \in [Disks -> Counts]
  BY <1>1, <1>4
<1>6. connected' = TRUE /\ accurate' \in BOOLEAN
  BY <1>1 DEF MountsInv, Typed, TypeOK
<1> QED
  BY <1>1, <1>3, <1>5, <1>6 DEF MountsInv, Typed, TypeOK

\* The paths kept are those of the first reports: the measures of a filesystem
\* are one, of its disk, or none.
LEMMA PushIsOwn ==
  ASSUME MountsInv, PushDisks
  PROVE  CapacityIsOwn'
<1>1. /\ per_disk' = [e \in Disks |-> PerDisk(e)]
      /\ overall' = [g \in FileSystems |-> Count(DOMAIN snap_mounts, g)]
      /\ accurate' = steady /\ scanned' = scanned /\ pending
  BY DEF PushDisks
<1> SUFFICES ASSUME steady, scanned # {}, NEW f \in FileSystems
             PROVE  CountedOnce(f)'
  BY <1>1 DEF CapacityIsOwn
<1> DEFINE reports == {k \in DOMAIN Partitions : f \in scanned /\ Partitions[k][2] = f}
           found == {k \in DOMAIN snap_mounts : snap_mounts[k] = f}
           of(d) == {k \in PointsOf(d) : snap_mounts[k] = f}
<1>2. /\ DOMAIN snap_mounts = DOMAIN hw_mounts
      /\ \A k \in DOMAIN hw_mounts :
           /\ snap_mounts[k] = Partitions[k][2] /\ Partitions[k][2] \in scanned
           /\ hw_mounts[k].disk = Partitions[k][1]
           /\ k \in DOMAIN Partitions
           /\ FirstReport(k)
      /\ \A j \in DOMAIN Partitions : Partitions[j][2] \in scanned =>
           \E k \in DOMAIN hw_mounts : Partitions[k][2] = Partitions[j][2]
  BY <1>1 DEF MountsInv, Measured, Chosen, Typed, TypeOK
<1>3. found \subseteq reports /\ \A k \in found : FirstReport(k)
  BY <1>2
<1>4. reports # {} => found # {}
  BY <1>2
<1>5. ASSUME NEW j \in reports, NEW k \in reports, FirstReport(j), FirstReport(k)
      PROVE  j = k
  <2>1. j \in Nat /\ k \in Nat /\ j >= 1 /\ k >= 1 /\ Partitions[j][2] = Partitions[k][2]
    BY PartitionsTyped
  <2> QED
    BY <1>5, <2>1 DEF FirstReport
<1>6. \A d : of(d) = {k \in found : Partitions[k][1] = d}
  BY <1>2 DEF PointsOf
<1>7. /\ overall'[f] = Cardinality(found)
      /\ \A d \in Disks : per_disk'[d][f] = Cardinality(of(d))
  BY <1>1 DEF PerDisk, Count
<1> HIDE DEF reports, found, of
<1>8. CASE reports = {}
  <2>1. found = {} /\ \A d : of(d) = {}
    BY <1>3, <1>6, <1>8
  <2>2. Cardinality(found) = 0 /\ \A d : Cardinality(of(d)) = 0
    BY <2>1, FS_EmptySet
  <2> QED
    BY <1>1, <1>7, <1>8, <2>2 DEF CountedOnce, Number, reports
<1>9. CASE reports # {}
  <2>1. PICK k : k \in found
    BY <1>4, <1>9
  <2>2. k \in reports /\ FirstReport(k)
    BY <1>3, <2>1
  <2>3. found = {k}
    BY <1>3, <1>5, <2>1
  <2>4. \A d : of(d) = IF Partitions[k][1] = d THEN {k} ELSE {}
    BY <1>6, <2>3
  <2>5. \A j \in reports : FirstReport(j) => j = k
    BY <1>5, <2>2
  <2>6. Cardinality({k}) = 1 /\ Cardinality({}) = 0
    BY FS_Singleton, FS_EmptySet
  <2>7. overall'[f] = Number(reports # {})
    BY <1>7, <1>9, <2>3, <2>6 DEF Number
  <2>8. ASSUME NEW d \in Disks
        PROVE  per_disk'[d][f] =
                 Number(\E j \in reports : FirstReport(j) /\ Partitions[j][1] = d)
    <3>1. (\E j \in reports : FirstReport(j) /\ Partitions[j][1] = d)
            <=> Partitions[k][1] = d
      BY <2>2, <2>5
    <3>2. per_disk'[d][f] = IF Partitions[k][1] = d THEN 1 ELSE 0
      BY <1>7, <2>4, <2>6
    <3> QED
      BY <3>1, <3>2 DEF Number
  <2> QED
    BY <1>1, <2>7, <2>8 DEF CountedOnce, reports
<1> QED
  BY <1>8, <1>9

\* A push preserves the invariant: what it counts was chosen and measured.
LEMMA PushInv ==
  ASSUME MountsInv, PushDisks
  PROVE  MountsInv'
<1>1. Chosen'
  BY DEF PushDisks, MountsInv, Chosen, Plain
<1>2. Measured'
  BY DEF PushDisks, Measured
<1> QED
  BY <1>1, <1>2, PushTyped, PushIsOwn DEF MountsInv

\* A step of something else preserves the invariant.
LEMMA StutterInv == MountsInv /\ UNCHANGED vars => MountsInv'
<1> SUFFICES ASSUME MountsInv, UNCHANGED vars PROVE MountsInv'
  OBVIOUS
<1>1. Typed'
  BY DEF vars, codeVars, historyVars, MountsInv, Typed, TypeOK
<1>2. Chosen' /\ Measured'
  BY DEF vars, codeVars, historyVars, MountsInv, Chosen, Measured, Plain
<1>3. CapacityIsOwn'
  BY SumsStay DEF vars, codeVars, historyVars, MountsInv
<1> QED
  BY <1>1, <1>2, <1>3 DEF MountsInv

\* Every step preserves the invariant.
LEMMA NextInv == MountsInv /\ [Next]_vars => MountsInv'
<1> SUFFICES ASSUME MountsInv, [Next]_vars PROVE MountsInv'
  OBVIOUS
<1>1. ASSUME NEW device \in Devices, NEW path \in Paths, Mount(device, path)
      PROVE  MountsInv'
  BY <1>1, MountInv
<1>2. ASSUME NEW k \in 2 .. MaxMounts, Unmount(k) PROVE MountsInv'
  BY <1>2, UnmountInv
<1>3. CASE Scan
  BY <1>3, ScanInv
<1>4. CASE Fetch
  BY <1>4, FetchInv
<1>5. CASE PushDisks
  BY <1>5, PushInv
<1>6. CASE UNCHANGED vars
  BY <1>6, StutterInv
<1> QED
  BY <1>1, <1>2, <1>3, <1>4, <1>5, <1>6 DEF Next

-----------------------------------------------------------------------------
(***************************************************************************)
(* The theorems                                                            *)
(***************************************************************************)

\* The invariant, in every behavior.
LEMMA MountsInvariant == Spec => []MountsInv
  BY InitInv, NextInv, PTL DEF Spec

\* What is mounted, chosen, measured and counted keeps its type, and no
\* filesystem is counted more often than there are mount points.
THEOREM MountsTypeCorrect == Spec => []TypeOK
<1>1. MountsInv => TypeOK
  BY DEF MountsInv, Typed
<1> QED
  BY <1>1, MountsInvariant, PTL

\* While no mount changes, every filesystem that is reported and mounted is
\* counted once, for the first disk it is reported of and overall, and nothing
\* else is (hardware::scan, sampler::fetch and tree::push_dynamic), for any
\* directories, disks and mount points.
THEOREM CapacityIsTheirs == Spec => []CapacityIsOwn
<1>1. MountsInv => CapacityIsOwn
  BY DEF MountsInv
<1> QED
  BY <1>1, MountsInvariant, PTL
=============================================================================
