------------------------------- MODULE Mounts -------------------------------
(***************************************************************************)
(* Which filesystems the capacities under /disk account for, on Linux:     *)
(* platform::mount_table and hardware::scan choose the paths to look at    *)
(* when the device connects, sampler::fetch measures the filesystem behind *)
(* each path, and tree::push_dynamic adds the measures up, per disk and    *)
(* overall (SysInfo/Platform.cpp, SysInfo/Tree.cpp).  Paths are sequences  *)
(* of characters, because the table holds them escaped (MountPath).        *)
(*                                                                         *)
(* Meanwhile filesystems are mounted and unmounted.  Sizes are abstracted  *)
(* to the filesystems they are the sizes of: a sum is how many times each  *)
(* filesystem was counted.                                                 *)
(***************************************************************************)
EXTENDS MountPath, FiniteSets

CONSTANTS
  Devices,     \* device nodes of the partitions, and their filesystems
  Overlay,     \* a root filesystem that is on no device, as in a container
  DevFs,       \* the filesystem that holds the device nodes
  NoFs,        \* what statvfs measures when the path is gone: zeros
  Root,        \* the path /
  Paths,       \* the directories that something may be mounted on
  Disks,       \* indices of hw.disks
  Partitions,  \* the mount_points() of all the disks, one after the other, as
               \* hwinfo reports them: <<disk, device node>>
  MaxMounts    \* bound on the length of the mount table

ASSUME MountsAssumption ==
  /\ Partitions \in Seq(Disks \X Devices)
  /\ Overlay \notin Devices
  /\ DevFs \notin Devices \cup {Overlay}
  /\ NoFs \notin Devices \cup {Overlay, DevFs}
  /\ Paths \cup {Root} \subseteq Seq(Nat)
  /\ Devices \cap (Paths \cup {Root}) = {}
  /\ Root \notin Paths
  /\ MaxMounts \in Nat \ {0}

VARIABLES
  connected,    \* was the machine scanned?
  proc_mounts,  \* what is mounted: <<filesystem, path>>, oldest first
  hw_mounts,    \* hw.mounts: the disk and path kept of some partitions
  snap_mounts,  \* what the last fetch found behind each of these paths
  per_disk,     \* how many times each disk counts each filesystem
  overall,      \* how many times the sum over all the disks does
  pending,      \* was there a fetch that is not pushed yet?
  scanned,      \* the devices mounted at the scan
  steady,       \* no mount changed since the scan, or hid another at the scan
  accurate      \* steady when the last fetch was pushed

codeVars    == <<connected, hw_mounts, snap_mounts, per_disk, overall, pending>>
historyVars == <<scanned, steady, accurate>>
vars == <<proc_mounts, codeVars, historyVars>>

FileSystems == Devices \cup {Overlay, DevFs, NoFs}
MountTables == Seq((Devices \cup {Overlay}) \X (Paths \cup {Root}))
Locations   == Paths \cup {Root} \cup Devices
Counts      == [FileSystems -> 0 .. Len(Partitions)]

TypeOK ==
  /\ connected \in BOOLEAN
  /\ proc_mounts \in MountTables
  /\ DOMAIN hw_mounts \subseteq DOMAIN Partitions
  /\ \A k \in DOMAIN hw_mounts :
       hw_mounts[k] \in [disk : Disks, path : Locations]
  /\ DOMAIN snap_mounts \subseteq DOMAIN hw_mounts
  /\ \A k \in DOMAIN snap_mounts : snap_mounts[k] \in FileSystems
  /\ per_disk \in [Disks -> Counts]
  /\ overall \in Counts
  /\ pending \in BOOLEAN
  /\ scanned \subseteq Devices
  /\ steady \in BOOLEAN
  /\ accurate \in BOOLEAN

NoCount == [f \in FileSystems |-> 0]

Init ==
  /\ connected = FALSE
  /\ \E f \in Devices \cup {Overlay} : proc_mounts = << <<f, Root>> >>
  /\ hw_mounts = <<>>
  /\ snap_mounts = <<>>
  /\ per_disk = [d \in Disks |-> NoCount]
  /\ overall = NoCount
  /\ pending = FALSE
  /\ scanned = {}
  /\ steady = FALSE
  /\ accurate = FALSE

-----------------------------------------------------------------------------
(***************************************************************************)
(* The system                                                              *)
(***************************************************************************)

\* A device may be mounted again elsewhere, or over another filesystem.
Mount(device, path) ==
  /\ Len(proc_mounts) < MaxMounts
  /\ proc_mounts' = Append(proc_mounts, <<device, path>>)
  /\ steady' = FALSE
  /\ UNCHANGED <<codeVars, scanned, accurate>>

\* Only the last filesystem mounted on a path can be unmounted.
Unmount(k) ==
  /\ k \in DOMAIN proc_mounts \ {1}
  /\ \A j \in DOMAIN proc_mounts :
       j > k => proc_mounts[j][2] # proc_mounts[k][2]
  /\ proc_mounts' = RemoveAt(proc_mounts, k)
  /\ steady' = FALSE
  /\ UNCHANGED <<codeVars, scanned, accurate>>

\* The filesystem behind a location: the last one mounted on the path, the
\* root filesystem if there is none, and that of /dev for a device node.
\* There are no other paths.
Behind(location) ==
  LET on == {k \in DOMAIN proc_mounts : proc_mounts[k][2] = location}
  IN  IF location \in Devices THEN DevFs
      ELSE IF location \notin Paths \cup {Root} THEN NoFs
      ELSE IF on = {} THEN proc_mounts[1][1]
      ELSE proc_mounts[Max(on)][1]

-----------------------------------------------------------------------------
(***************************************************************************)
(* The device                                                              *)
(***************************************************************************)

\* platform::mount_table(): the path of the first mount of each device, read
\* from /proc/self/mounts.
mount_table ==
  LET Lines(device) ==
        {k \in DOMAIN proc_mounts : proc_mounts[k][1] = device}
  IN  [device \in {d \in Devices : Lines(d) # {}} |->
         unescape_mount_path(escape(proc_mounts[Min(Lines(device))][2]))]

\* Does scan() find the k-th mount point, and where?
Found(k) == mount_table = <<>> \/ Partitions[k][2] \in DOMAIN mount_table

PathOf(k) ==
  IF mount_table = <<>> THEN Partitions[k][2] ELSE mount_table[Partitions[k][2]]

\* Mutation of Seen: paths are not deduplicated.
SeenNever(k) == FALSE

\* Was its path kept before?
Seen(k) == \E j \in 1 .. k - 1 : Found(j) /\ PathOf(j) = PathOf(k)

\* No path with two filesystems on it.
Plain == \A j, k \in DOMAIN proc_mounts :
           proc_mounts[j][2] = proc_mounts[k][2] => j = k

\* hardware::scan(), once, when the device connects.
Scan ==
  /\ ~connected
  /\ connected' = TRUE
  /\ hw_mounts' = [k \in {i \in DOMAIN Partitions : Found(i) /\ ~Seen(i)} |->
                     [disk |-> Partitions[k][1], path |-> PathOf(k)]]
  /\ scanned' = DOMAIN mount_table
  /\ steady' = Plain
  /\ UNCHANGED <<proc_mounts, snap_mounts, per_disk, overall, pending, accurate>>

\* sampler::fetch() measures the paths.  Those where nothing is mounted any
\* more may be gone.
Fetch ==
  /\ connected
  /\ \E gone \in SUBSET (Paths \ {proc_mounts[j][2] : j \in DOMAIN proc_mounts}) :
       snap_mounts' = [k \in DOMAIN hw_mounts |->
                         IF hw_mounts[k].path \in gone
                           THEN NoFs ELSE Behind(hw_mounts[k].path)]
  /\ pending' = TRUE
  /\ accurate' = FALSE
  /\ UNCHANGED <<proc_mounts, connected, hw_mounts, per_disk, overall, scanned, steady>>

\* How many of the measures of these mount points are of filesystem f.
Count(points, f) == Cardinality({k \in points : snap_mounts[k] = f})

PointsOf(d) == {k \in DOMAIN snap_mounts : hw_mounts[k].disk = d}

\* Mutation of PerDisk: the sums of the previous push are added to.
PerDiskRunning(d) == [f \in FileSystems |-> per_disk[d][f] + Count(PointsOf(d), f)]

\* The sums of one disk.
PerDisk(d) == [f \in FileSystems |-> Count(PointsOf(d), f)]

\* tree::push_dynamic()
PushDisks ==
  /\ pending
  /\ pending' = FALSE
  /\ per_disk' = [d \in Disks |-> PerDisk(d)]
  /\ overall' = [f \in FileSystems |-> Count(DOMAIN snap_mounts, f)]
  /\ accurate' = steady
  /\ UNCHANGED <<proc_mounts, connected, hw_mounts, snap_mounts, scanned, steady>>

Next ==
  \/ \E device \in Devices, path \in Paths : Mount(device, path)
  \/ \E k \in 2 .. MaxMounts : Unmount(k)
  \/ Scan
  \/ Fetch
  \/ PushDisks

Spec == Init /\ [][Next]_vars

-----------------------------------------------------------------------------
\* Is this the first report of its device?
FirstReport(k) == \A j \in 1 .. k - 1 : Partitions[j][2] # Partitions[k][2]

Number(condition) == IF condition THEN 1 ELSE 0

\* Is a filesystem that is reported and was mounted counted once, for the first
\* disk that it is reported of and overall, and any other one not at all?
CountedOnce(f) ==
  LET reports == {k \in DOMAIN Partitions : f \in scanned /\ Partitions[k][2] = f}
  IN  /\ overall[f] = Number(reports # {})
      /\ \A d \in Disks :
           per_disk[d][f] =
             Number(\E k \in reports : FirstReport(k) /\ Partitions[k][1] = d)

\* As long as no mount changes after the device connected, none hid another
\* then and one of them was of a device, what is pushed counts each filesystem
\* of a disk that is mounted once, however often it is mounted or reported, and
\* nothing else (Tree.hpp:97-99).
CapacityIsOwn ==
  accurate /\ scanned # {} => \A f \in FileSystems : CountedOnce(f)

\* Tree.hpp:98-99: "deduplicated so that a bind mount is not counted twice".
\* Two paths can come to be on the same filesystem after the scan, and two
\* first mounts of different devices can be hidden by a bind mount.
NothingCountedTwice == \A device \in Devices : overall[device] <= 1
=============================================================================
