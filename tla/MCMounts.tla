------------------------------ MODULE MCMounts ------------------------------
(***************************************************************************)
(* Values for model-checking Mounts: a disk with two partitions, one of    *)
(* which hwinfo reports again of another disk, that has a partition of its *)
(* own, and reports that one twice; two directories, whose names are a     *)
(* space and the four characters \040 that stand for a space in            *)
(* /proc/self/mounts.                                                      *)
(***************************************************************************)
EXTENDS Mounts

CONSTANTS sda1, sda2, sdb1

MCPartitions == << <<0, sda1>>, <<0, sda2>>, <<1, sda1>>, <<1, sdb1>>, <<1, sdb1>> >>

MCRoot  == <<47>>
MCPaths == { <<47, 32>>, <<47, Backslash, 48, 52, 48>> }
=============================================================================
