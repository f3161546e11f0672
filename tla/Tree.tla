-------------------------------- MODULE Tree --------------------------------
(***************************************************************************)
(* The address tree of the device (SysInfo/Tree.cpp): the parameters that  *)
(* tree::setup creates for the hardware found, and which of them           *)
(* push_static, push_time and push_dynamic write.                          *)
(*                                                                         *)
(* An address is <<group, index, leaf>>: /gpu/0/usage is                   *)
(* <<"gpu", 0, "usage">>, /gpu/count is <<"gpu", Whole, "count">>, and     *)
(* /rate is <<"/", Whole, "rate">>.  What an address shows is abstracted   *)
(* to what it comes from: the scan, or the reading or the clock that the   *)
(* tick with some number pushed.                                           *)
(***************************************************************************)
EXTENDS Naturals

CONSTANTS
  Whole,       \* the index of the addresses that have none
  Counts,      \* how many components of a kind there may be
  MaxTicks     \* bound on the ticks

ASSUME TreeAssumption ==
  /\ Whole \notin Nat
  /\ Counts \subseteq Nat
  /\ MaxTicks \in Nat

Kinds == {"cpu", "gpu", "memory/module", "disk", "battery", "network", "display"}

VARIABLES
  hw,            \* how many components of each kind the scan finds
  hasCores,      \* does hwinfo know the cores of the CPUs?
  perThreadCpu,  \* set.perThreadCpu
  nodes,         \* the parameters created, {} while not connected
  value,         \* value[a]: what the parameter a shows
  ticks,         \* number of pushes of the clock
  readings       \* the tick that pushed the last reading, 0 if none did

vars == <<hw, hasCores, perThreadCpu, nodes, value, readings, ticks>>

Unset == [from |-> "none", n |-> 0]
Scan == [from |-> "scan", n |-> 0]
Reading(n) == [from |-> "reading", n |-> n]
Clock(n) == [from |-> "clock", n |-> n]

Of(group, leaves) == {<<group, Whole, leaf>> : leaf \in leaves}
Each(kind, count, leaves) == {<<kind, i, leaf>> : i \in 0 .. count - 1, leaf \in leaves}

-----------------------------------------------------------------------------
(***************************************************************************)
(* tree::setup                                                             *)
(***************************************************************************)
TimeLeaves ==
  {"iso", "date", "clock", "year", "month", "day", "weekday", "hour", "minute",
   "second", "day_seconds", "unix", "timezone", "utc_offset"}

MachineNodes ==
  Of("/", {"rate", "hostname", "uptime"})
    \cup Of("time", TimeLeaves)
    \cup Of("load", {"1m", "5m", "15m"})
    \cup Of("files", {"open", "max"})
    \cup Of("process/files", {"open", "max", "usage"})

SystemNodes ==
  Of("os", {"name", "product", "version", "kernel", "architecture", "bits",
            "endianness"})
    \cup Of("qt", {"version", "platform", "style", "abi"})
    \cup Of("mainboard", {"vendor", "name", "version", "serial"})

CpuNodes ==
  Of("cpu", {"count", "threads", "usage"})
    \cup (IF perThreadCpu THEN Of("cpu", {"thread/usage", "thread/frequency"})
                          ELSE {})
    \cup Each("cpu", hw["cpu"],
              {"vendor", "model", "cores/physical", "cores/logical",
               "frequency/base", "frequency/max", "cache/l1d", "cache/l1i",
               "cache/l2", "cache/l3", "flags"})

GpuNodes ==
  Of("gpu", {"count"})
    \cup Each("gpu", hw["gpu"],
              {"vendor", "name", "driver", "memory/total", "memory/used",
               "memory/shared", "memory/usage", "frequency", "usage",
               "temperature", "cores", "vendor_id", "device_id"})

MemoryNodes ==
  Of("memory", {"total", "free", "available", "used", "usage", "module/count"})
    \cup Each("memory/module", hw["memory/module"],
              {"vendor", "name", "model", "serial", "size", "frequency"})

DiskNodes ==
  Of("disk", {"count", "total", "free", "usage"})
    \cup Each("disk", hw["disk"],
              {"vendor", "model", "serial", "size", "interface", "mountpoints",
               "total", "free", "usage"})

BatteryNodes ==
  Of("battery", {"count", "level", "charging"})
    \cup Each("battery", hw["battery"],
              {"vendor", "model", "serial", "technology", "level", "energy/now",
               "energy/full", "charging", "state"})

NetworkNodes ==
  Of("network", {"count", "rx", "tx"})
    \cup Each("network", hw["network"],
              {"index", "description", "mac", "ipv4", "ipv6", "rx", "tx",
               "rx_total", "tx_total"})

DisplayLeaves ==
  {"name", "manufacturer", "model", "serial", "width", "height", "x", "y",
   "available/width", "available/height", "refresh_rate", "dpi/logical",
   "dpi/physical", "scale", "depth", "physical/width", "physical/height",
   "orientation", "primary"}

DisplayNodes ==
  Of("display", {"count"}) \cup Each("display", hw["display"], DisplayLeaves)

setup ==
  MachineNodes \cup SystemNodes \cup CpuNodes \cup GpuNodes \cup MemoryNodes
    \cup DiskNodes \cup BatteryNodes \cup NetworkNodes \cup DisplayNodes

-----------------------------------------------------------------------------
(***************************************************************************)
(* tree::push_static.  Every value is pushed to its parameter if there is  *)
(* one: push() ignores a null parameter.                                   *)
(***************************************************************************)
StaticSystem == Of("/", {"hostname"}) \cup SystemNodes

StaticCpu ==
  Of("cpu", {"count", "threads"})
    \cup Each("cpu", hw["cpu"],
              {"vendor", "model", "cores/physical", "cores/logical", "flags"})
    \cup (IF hasCores
            THEN Each("cpu", hw["cpu"],
                      {"frequency/base", "frequency/max", "cache/l1d",
                       "cache/l1i", "cache/l2", "cache/l3"})
            ELSE {})

\* Mutation of StaticGpu: the PCI identifiers are forgotten.
StaticGpuNoIds ==
  Of("gpu", {"count"})
    \cup Each("gpu", hw["gpu"],
              {"vendor", "name", "driver", "memory/shared", "cores"})

StaticGpu ==
  Of("gpu", {"count"})
    \cup Each("gpu", hw["gpu"],
              {"vendor", "name", "driver", "memory/shared", "cores",
               "vendor_id", "device_id"})

StaticMemory ==
  Of("memory", {"total", "module/count"})
    \cup Each("memory/module", hw["memory/module"],
              {"vendor", "name", "model", "serial", "size", "frequency"})

StaticDisk ==
  Of("disk", {"count"})
    \cup Each("disk", hw["disk"],
              {"vendor", "model", "serial", "size", "interface", "mountpoints"})

StaticBattery ==
  Of("battery", {"count"})
    \cup Each("battery", hw["battery"],
              {"vendor", "model", "serial", "technology", "energy/full"})

StaticNetwork ==
  Of("network", {"count"})
    \cup Each("network", hw["network"],
              {"index", "description", "mac", "ipv4", "ipv6"})

StaticDisplay ==
  Of("display", {"count"}) \cup Each("display", hw["display"], DisplayLeaves)

push_static ==
  StaticSystem \cup StaticCpu \cup StaticGpu \cup StaticMemory \cup StaticDisk
    \cup StaticBattery \cup StaticNetwork \cup StaticDisplay

-----------------------------------------------------------------------------
(***************************************************************************)
(* tree::push_dynamic, for a snapshot that sampler::fetch made when it     *)
(* could not read that many of the components of each kind (a battery      *)
(* taken out, an interface gone, a GPU that no source describes).          *)
(***************************************************************************)

\* Mutation of snapshotSize: an entry only for what could be read.
SnapshotSizeOfRead(k, lost) == IF lost < hw[k] THEN hw[k] - lost ELSE 0

\* The entries of kind k in the snapshot: one per component of the hardware.
snapshotSize(k, lost) == hw[k]

\* The components the loop over both goes through.
Paired(k, lost) ==
  IF hw[k] < snapshotSize(k, lost) THEN hw[k] ELSE snapshotSize(k, lost)

LiveMachine ==
  Of("/", {"uptime"}) \cup Of("load", {"1m", "5m", "15m"})
    \cup Of("files", {"open", "max"})
    \cup Of("process/files", {"open", "max", "usage"})
    \cup Of("cpu", {"usage", "thread/usage", "thread/frequency"})
    \cup Of("memory", {"free", "available", "used", "usage"})

LiveGpu(lost) ==
  Each("gpu", Paired("gpu", lost),
       {"memory/total", "memory/used", "memory/usage", "frequency", "usage",
        "temperature"})

\* The sums over the mounted filesystems, whether there are any or not.
LiveDisk ==
  Of("disk", {"total", "free", "usage"})
    \cup Each("disk", hw["disk"], {"total", "free", "usage"})

\* The first battery is pushed even if there is none.
LiveBattery(lost) ==
  Of("battery", {"level", "charging"})
    \cup Each("battery", Paired("battery", lost),
              {"level", "energy/now", "charging", "state"})

LiveNetwork(lost) ==
  Of("network", {"rx", "tx"})
    \cup Each("network", Paired("network", lost), {"rx", "tx", "rx_total", "tx_total"})

\* Mutation of push_dynamic: the capacities of the memory modules are, too.
PushDynamicModules(lost) ==
  LiveMachine \cup LiveGpu(lost) \cup LiveDisk \cup LiveBattery(lost)
    \cup LiveNetwork(lost)
    \cup Each("memory/module", hw["memory/module"], {"size"})

push_dynamic(lost) ==
  LiveMachine \cup LiveGpu(lost) \cup LiveDisk \cup LiveBattery(lost)
    \cup LiveNetwork(lost)

-----------------------------------------------------------------------------
Values ==
  {Unset, Scan} \cup {Reading(n) : n \in 1 .. MaxTicks}
    \cup {Clock(n) : n \in 1 .. MaxTicks}

TypeOK ==
  /\ hw \in [Kinds -> Counts]
  /\ hasCores \in BOOLEAN
  /\ perThreadCpu \in BOOLEAN
  /\ nodes \subseteq setup
  /\ value \in [nodes -> Values]
  /\ readings \in 0 .. MaxTicks
  /\ ticks \in 0 .. MaxTicks
  /\ readings <= ticks

Init ==
  /\ hw \in [Kinds -> Counts]
  /\ hasCores \in BOOLEAN
  /\ perThreadCpu \in BOOLEAN
  /\ nodes = {}
  /\ value = <<>>
  /\ readings = 0
  /\ ticks = 0

\* Mutation of Push: pushed to parameters that do not exist.
PushAnyway(pushed, v) ==
  value' = [a \in nodes \cup pushed |-> IF a \in pushed THEN v ELSE value[a]]

\* Every parameter pushed shows v.
Push(pushed, v) ==
  value' = [a \in nodes |-> IF a \in pushed THEN v ELSE value[a]]

\* set_device: the tree is laid out, /rate shows the rate of the settings, and
\* what does not change is pushed.
Connect ==
  /\ nodes = {}
  /\ nodes' = setup
  /\ value' = [a \in setup |->
                 IF a \in push_static \cup Of("/", {"rate"}) THEN Scan ELSE Unset]
  /\ UNCHANGED <<hw, hasCores, perThreadCpu, readings, ticks>>

\* A tick pushes the clock ...
PushTime ==
  /\ nodes # {}
  /\ ticks < MaxTicks
  /\ ticks' = ticks + 1
  /\ Push(Of("time", TimeLeaves), Clock(ticks + 1))
  /\ UNCHANGED <<hw, hasCores, perThreadCpu, nodes, readings>>

\* ... and, if there is one, a reading.
PushDynamic ==
  /\ readings < ticks
  /\ readings' = ticks
  /\ \E lost \in 0 .. 1 : Push(push_dynamic(lost), Reading(ticks))
  /\ UNCHANGED <<hw, hasCores, perThreadCpu, nodes, ticks>>

Next == Connect \/ PushTime \/ PushDynamic

Spec == Init /\ [][Next]_vars

-----------------------------------------------------------------------------
\* What the tree shows of the machine at an instant is one reading: no value
\* of an earlier one is left when a reading is pushed, whatever is plugged in.
OneReadingAtATime ==
  \A a \in DOMAIN value :
    value[a].from = "reading" => value[a] = Reading(readings)

\* "What a given platform cannot report is published as an empty string or a
\* zero rather than being omitted" (README.md:7-9): after the first reading
\* every address of the tree was written, except what is only known of a core.
EverythingIsPublished ==
  readings > 0 =>
    \A a \in nodes :
      value[a] = Unset => a[1] = "cpu" /\ a[2] # Whole /\ ~hasCores

\* "The hardware description is read once" (README.md:43): what the scan found
\* is never overwritten, nor is it mixed with live values.
DescriptionStays ==
  [][\A a \in DOMAIN value : value[a] = Scan => value'[a] = Scan]_vars

\* "no GPU is enumerated on macOS.  Those addresses exist regardless and read
\* as "" or 0" (README.md:189-191), so that a score authored on one machine
\* keeps resolving on another.  They exist for the components found.
AddressesExistRegardless ==
  nodes # {} =>
    \A k \in {"memory/module", "battery", "gpu"} : <<k, 0, "vendor">> \in nodes
=============================================================================
