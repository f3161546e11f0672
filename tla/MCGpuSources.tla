--------------------------- MODULE MCGpuSources -----------------------------
(***************************************************************************)
(* Values for model-checking GpuSources.  The two devices are alike.       *)
(***************************************************************************)
EXTENDS GpuSources

CONSTANTS d1, d2

DeviceSymmetry == Permutations(Devices)
=============================================================================
