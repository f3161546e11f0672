---------------------------- MODULE GpuSources ------------------------------
(***************************************************************************)
(* g_gpu_sources (SysInfo/Platform.cpp), the one list of GPUs to read that *)
(* all the devices share under g_gpu_mutex: hardware::scan replaces it     *)
(* whenever a device connects, while the workers of the devices that are   *)
(* up read through it, each for the GPUs that its own scan found.          *)
(*                                                                         *)
(* Meanwhile GPUs are plugged and unplugged, and a card number that is     *)
(* free again may go to another GPU.  A value is abstracted to where it    *)
(* comes from: a GPU, and who reported it.                                 *)
(***************************************************************************)
EXTENDS Naturals, FiniteSets, SequencesExt

CONSTANTS
  Devices,   \* the sysinfo devices
  Ids,       \* DRM card numbers, the ids hwinfo gives to GPUs
  Amd,       \* GPUs whose driver reports memory, load and clock in sysfs
  Intel,     \* GPUs whose driver reports only their clock there
  Nvidia,    \* GPUs that only NVML can read
  NoGpu,     \* no GPU: a number that is free, a null nvmlDevice_t
  MaxPlugs   \* bound on how often GPUs are plugged and unplugged

Gpus == Amd \cup Intel \cup Nvidia

ASSUME GpuAssumption ==
  /\ Ids \subseteq Nat
  /\ IsFiniteSet(Ids)
  /\ NoGpu \notin Gpus
  /\ Amd \cap Intel = {} /\ Amd \cap Nvidia = {} /\ Intel \cap Nvidia = {}
  /\ MaxPlugs \in Nat

VARIABLES
  drm,            \* the GPU behind /sys/class/drm/card<id>
  nvml,           \* nvml_api::instance(): the calls that work, {} if it is null
  g_gpu_sources,
  stage,          \* stage[d]: where the connection, or the worker, of d is
  hw_gpus,        \* hw.gpus of d: the ids and what hwinfo says of the GPUs
  done,           \* done[d]: iterations of the loop d is in
  sources,        \* the local of d in init_gpu_readings and gpu_readings
  readings,       \* the local res of gpu_readings
  gpu_info,       \* hw.gpu_info of d: the GPU described, per id
  shown,          \* the rows /gpu/N of d, empty before the first push
  plugs,          \* GPUs plugged and unplugged so far
  held,           \* held[id]: the GPUs that ever had that number
  calm            \* calm[d]: no GPU was plugged or unplugged since the scan
                  \* of d, or since a scan it overlapped with, looked for them

codeVars == <<g_gpu_sources, stage, hw_gpus, done, sources, readings, gpu_info, shown>>
vars == <<drm, nvml, codeVars, plugs, held, calm>>

\* What hwinfo lists: a card number, and a description of the GPU.
Listings == [id : Ids, gpu : Gpus]

Stages == {"down", "probing", "probed", "up", "reading"}

Sources == [id : Ids, hwmon : BOOLEAN, nvml : Nvidia \cup {NoGpu}]

Unread == [gpu |-> NoGpu, by |-> "none"]

Values == [gpu : Gpus, by : {"sysfs", "nvml", "hwinfo"}] \cup {Unread}

\* Load and temperature go like the clock.
Metrics == [memory_total : Values, memory_used : Values, clock : Values]

\* Without handle_by_pci and memory_info there is no nvml_api, without the
\* others there is.  A call that fails now and then is not told from these.
Libraries == {{}, {"memory_info"}, {"memory_info", "clock_info"}}

TypeOK ==
  /\ drm \in [Ids -> Gpus \cup {NoGpu}]
  /\ nvml \in Libraries
  /\ g_gpu_sources \in Seq(Sources)
  /\ stage \in [Devices -> Stages]
  /\ hw_gpus \in [Devices -> Seq(Listings)]
  /\ done \in [Devices -> Nat]
  /\ sources \in [Devices -> Seq(Sources)]
  /\ \A d \in Devices :
       /\ done[d] <= Cardinality(Ids)
       /\ DOMAIN readings[d] \subseteq Ids
       /\ \A id \in DOMAIN readings[d] : readings[d][id] \in Metrics
       /\ DOMAIN gpu_info[d] \subseteq Ids
       /\ \A id \in DOMAIN gpu_info[d] : gpu_info[d][id] \in Nvidia
       /\ shown[d] \in Seq(Metrics)
       /\ Len(shown[d]) \in {0, Len(hw_gpus[d])}
  /\ plugs \in 0 .. MaxPlugs
  /\ held \in [Ids -> SUBSET Gpus]
  /\ calm \in [Devices -> BOOLEAN]

\* Each GPU has one number.
Numbered(cards) ==
  \A i, j \in Ids : cards[i] = cards[j] /\ cards[i] # NoGpu => i = j

Init ==
  /\ drm \in {cards \in [Ids -> Gpus \cup {NoGpu}] : Numbered(cards)}
  /\ nvml \in Libraries
  /\ g_gpu_sources = <<>>
  /\ stage = [d \in Devices |-> "down"]
  /\ hw_gpus = [d \in Devices |-> <<>>]
  /\ done = [d \in Devices |-> 0]
  /\ sources = [d \in Devices |-> <<>>]
  /\ readings = [d \in Devices |-> <<>>]
  /\ gpu_info = [d \in Devices |-> <<>>]
  /\ shown = [d \in Devices |-> <<>>]
  /\ plugs = 0
  /\ held = [id \in Ids |-> {drm[id]} \ {NoGpu}]
  /\ calm = [d \in Devices |-> FALSE]

-----------------------------------------------------------------------------
(***************************************************************************)
(* The system                                                              *)
(***************************************************************************)

Change(cards) ==
  /\ plugs < MaxPlugs
  /\ plugs' = plugs + 1
  /\ drm' = cards
  /\ held' = [id \in Ids |-> held[id] \cup ({cards[id]} \ {NoGpu})]
  /\ calm' = [d \in Devices |-> FALSE]
  /\ UNCHANGED <<nvml, codeVars>>

Plug(gpu, id) ==
  /\ drm[id] = NoGpu
  /\ \A i \in Ids : drm[i] # gpu
  /\ Change([drm EXCEPT ![id] = gpu])

Unplug(id) ==
  /\ drm[id] # NoGpu
  /\ Change([drm EXCEPT ![id] = NoGpu])

Present(gpu) == \E id \in Ids : drm[id] = gpu

-----------------------------------------------------------------------------
(***************************************************************************)
(* Connecting: DeviceImplementation::reconnect, which disconnects first,   *)
(* and the part of hardware::scan about GPUs.                              *)
(***************************************************************************)

Scanning(d) == stage[d] \in {"probing", "probed"}

\* hwinfo::getAllGPUs(), in whatever order hwinfo lists them.
getAllGPUs ==
  {[k \in DOMAIN ids |-> [id |-> ids[k], gpu |-> drm[ids[k]]]] :
     ids \in SetToSeqs({id \in Ids : drm[id] # NoGpu})}

\* Mutation of WhileProbing: the shared list is emptied and built in place.
WhileProbingEmpty == <<>>

\* The shared list stays as it is while a new one is built.
WhileProbing == g_gpu_sources

\* Mutation of Forget: the rows stay.
ForgetButRows(d) ==
  /\ done' = [done EXCEPT ![d] = 0]
  /\ sources' = [sources EXCEPT ![d] = <<>>]
  /\ readings' = [readings EXCEPT ![d] = <<>>]
  /\ gpu_info' = [gpu_info EXCEPT ![d] = <<>>]
  /\ UNCHANGED shown

\* What the device gives up when it is disconnected.
Forget(d) ==
  /\ done' = [done EXCEPT ![d] = 0]
  /\ sources' = [sources EXCEPT ![d] = <<>>]
  /\ readings' = [readings EXCEPT ![d] = <<>>]
  /\ gpu_info' = [gpu_info EXCEPT ![d] = <<>>]
  /\ shown' = [shown EXCEPT ![d] = <<>>]

\* disconnect(), up to the enumeration of the GPUs by the new scan.  Its
\* stop() waits for a reading that is under way.
Reconnect(d) ==
  /\ stage[d] \in {"down", "up"}
  /\ stage' = [stage EXCEPT ![d] = "probing"]
  /\ \E found \in getAllGPUs : hw_gpus' = [hw_gpus EXCEPT ![d] = found]
  /\ Forget(d)
  /\ g_gpu_sources' = WhileProbing
  /\ calm' = [calm EXCEPT ![d] = \A e \in Devices \ {d} : Scanning(e) => calm[e]]
  /\ UNCHANGED <<drm, nvml, plugs, held>>

\* What init_gpu_readings finds out about a card.
SourceOf(id) ==
  [id    |-> id,
   hwmon |-> drm[id] \in Amd,
   nvml  |-> IF nvml # {} /\ drm[id] \in Nvidia THEN drm[id] ELSE NoGpu]

\* One iteration of it, for the next id.
Probe(d) ==
  LET id == hw_gpus[d][done[d] + 1].id
  IN  /\ stage[d] = "probing"
      /\ done[d] < Len(hw_gpus[d])
      /\ done' = [done EXCEPT ![d] = @ + 1]
      /\ sources' = [sources EXCEPT ![d] =
                       IF drm[id] = NoGpu THEN @ ELSE Append(@, SourceOf(id))]
      /\ UNCHANGED <<drm, nvml, g_gpu_sources, stage, hw_gpus, readings,
                     gpu_info, shown, plugs, held, calm>>

\* Its end: the new list replaces the shared one.
PublishSources(d) ==
  /\ stage[d] = "probing"
  /\ done[d] = Len(hw_gpus[d])
  /\ g_gpu_sources' = sources[d]
  /\ stage' = [stage EXCEPT ![d] = "probed"]
  /\ done' = [done EXCEPT ![d] = 0]
  /\ sources' = [sources EXCEPT ![d] = <<>>]
  /\ UNCHANGED <<drm, nvml, hw_gpus, readings, gpu_info, shown, plugs, held, calm>>

\* gpu_descriptions()
gpu_descriptions ==
  LET known == {src \in Range(g_gpu_sources) : src.nvml # NoGpu}
  IN  [id \in {src.id : src \in known} |->
         (CHOOSE src \in known : src.id = id).nvml]

\* It ends the scan.  The rest of set_device involves no other device.
Describe(d) ==
  /\ stage[d] = "probed"
  /\ gpu_info' = [gpu_info EXCEPT ![d] = gpu_descriptions]
  /\ stage' = [stage EXCEPT ![d] = "up"]
  /\ UNCHANGED <<drm, nvml, g_gpu_sources, hw_gpus, done, sources, readings,
                 shown, plugs, held, calm>>

\* An exception in the middle of the scan, which reconnect() swallows, or a
\* disconnection.
Down(d) ==
  /\ Scanning(d) \/ stage[d] = "up"
  /\ stage' = [stage EXCEPT ![d] = "down"]
  /\ hw_gpus' = [hw_gpus EXCEPT ![d] = <<>>]
  /\ Forget(d)
  /\ calm' = [calm EXCEPT ![d] = FALSE]
  /\ UNCHANGED <<drm, nvml, g_gpu_sources, plugs, held>>

-----------------------------------------------------------------------------
(***************************************************************************)
(* The worker: gpu_readings, called by sampler::fetch, and push_dynamic.   *)
(***************************************************************************)

CopySources(d) ==
  /\ stage[d] = "up"
  /\ stage' = [stage EXCEPT ![d] = "reading"]
  /\ sources' = [sources EXCEPT ![d] = g_gpu_sources]
  /\ done' = [done EXCEPT ![d] = 0]
  /\ readings' = [readings EXCEPT ![d] = <<>>]
  /\ UNCHANGED <<drm, nvml, g_gpu_sources, hw_gpus, gpu_info, shown, plugs, held, calm>>

\* What a driver reports for the GPU that has the number now.
Sysfs(kinds, id) ==
  IF drm[id] \in kinds THEN [gpu |-> drm[id], by |-> "sysfs"] ELSE Unread

\* What NVML answers overrides what the sysfs nodes say.
Measure(src) ==
  LET ByNvml == [gpu |-> src.nvml, by |-> "nvml"]
      Ok(call) == src.nvml # NoGpu /\ Present(src.nvml) /\ call \in nvml
      memory == IF Ok("memory_info") THEN ByNvml ELSE Sysfs(Amd, src.id)
      clock  == IF Ok("clock_info") THEN ByNvml
                ELSE Sysfs(Intel \cup (IF src.hwmon THEN Amd ELSE {}), src.id)
  IN  [memory_total |-> memory, memory_used |-> memory, clock |-> clock]

\* One iteration of gpu_readings, for the next source.
ReadSource(d) ==
  LET src == sources[d][done[d] + 1]
  IN  /\ stage[d] = "reading"
      /\ done[d] < Len(sources[d])
      /\ done' = [done EXCEPT ![d] = @ + 1]
      /\ readings' = [readings EXCEPT ![d] =
                        [id \in DOMAIN @ \cup {src.id} |->
                           IF id = src.id THEN Measure(src) ELSE @[id]]]
      /\ UNCHANGED <<drm, nvml, g_gpu_sources, stage, hw_gpus, sources,
                     gpu_info, shown, plugs, held, calm>>

\* A gpu_metrics that nothing was found for.
Silent == [memory_total |-> Unread, memory_used |-> Unread, clock |-> Unread]

\* Mutation of Match: by position.
MatchByPosition(d, k) ==
  IF k <= Len(sources[d]) THEN readings[d][sources[d][k].id] ELSE Silent

\* The reading for the k-th GPU of d: sampler::fetch looks it up by id.
Match(d, k) ==
  IF hw_gpus[d][k].id \in DOMAIN readings[d] THEN readings[d][hw_gpus[d][k].id]
                                             ELSE Silent

\* push_dynamic falls back to what hwinfo found, but for the memory in use.
Row(gpu, m) ==
  LET ByHwinfo == [gpu |-> gpu, by |-> "hwinfo"]
  IN  [memory_total |-> IF m.memory_total = Unread THEN ByHwinfo ELSE m.memory_total,
       memory_used  |-> m.memory_used,
       clock        |-> IF m.clock = Unread THEN ByHwinfo ELSE m.clock]

\* The end of the fetch, and the push of what it found.
PushGpus(d) ==
  /\ stage[d] = "reading"
  /\ done[d] = Len(sources[d])
  /\ shown' = [shown EXCEPT ![d] = [k \in DOMAIN hw_gpus[d] |->
                                      Row(hw_gpus[d][k].gpu, Match(d, k))]]
  /\ stage' = [stage EXCEPT ![d] = "up"]
  /\ done' = [done EXCEPT ![d] = 0]
  /\ sources' = [sources EXCEPT ![d] = <<>>]
  /\ readings' = [readings EXCEPT ![d] = <<>>]
  /\ UNCHANGED <<drm, nvml, g_gpu_sources, hw_gpus, gpu_info, plugs, held, calm>>

Next ==
  \/ \E gpu \in Gpus, id \in Ids : Plug(gpu, id)
  \/ \E id \in Ids : Unplug(id)
  \/ \E d \in Devices :
       \/ Reconnect(d) \/ Probe(d) \/ PublishSources(d) \/ Describe(d)
       \/ Down(d)
       \/ CopySources(d) \/ ReadSource(d) \/ PushGpus(d)

Spec == Init /\ [][Next]_vars

-----------------------------------------------------------------------------
\* As long as a card number only ever belonged to one GPU, what a device
\* shows and describes under it is of that GPU, whichever of the GPUs come
\* and go and whichever device scanned last (Platform.hpp:81-83: readings are
\* "keyed by the id hwinfo assigns to a GPU").
RowsAreOfTheirGpu ==
  \A d \in Devices : \A k \in DOMAIN hw_gpus[d] :
    LET id == hw_gpus[d][k].id
        gpu == hw_gpus[d][k].gpu
    IN  held[id] = {gpu} =>
          /\ id \in DOMAIN gpu_info[d] => gpu_info[d][id] = gpu
          /\ shown[d] # <<>> =>
               \A field \in {"memory_total", "memory_used", "clock"} :
                 shown[d][k][field].gpu \in {gpu, NoGpu}

\* Does a row show all that there is to read of a GPU?
Complete(row, gpu) ==
  LET Nvml(call) == gpu \in Nvidia /\ call \in nvml
  IN  /\ row.memory_total.by = (IF gpu \in Amd THEN "sysfs"
                               ELSE IF Nvml("memory_info") THEN "nvml" ELSE "hwinfo")
      /\ row.memory_used = (IF row.memory_total.by = "hwinfo"
                               THEN Unread ELSE row.memory_total)
      /\ row.clock.by = (IF gpu \in Amd \cup Intel THEN "sysfs"
                        ELSE IF Nvml("clock_info") THEN "nvml" ELSE "hwinfo")

\* init_gpu_readings is "safe to call again" (Platform.hpp:97): as long as no
\* GPU is plugged or unplugged, every push shows of every GPU all that there
\* is to read, and NVML describes every NVIDIA GPU, while other devices
\* connect, fail to, and disconnect.
RescanIsSafe ==
  \A d \in Devices :
    calm[d] =>
      /\ \A k \in DOMAIN shown[d] : Complete(shown[d][k], hw_gpus[d][k].gpu)
      /\ stage[d] \in {"up", "reading"} /\ nvml # {} =>
           DOMAIN gpu_info[d] =
             {g.id : g \in {h \in Range(hw_gpus[d]) : h.gpu \in Nvidia}}
=============================================================================
