\* A filesystem behind two of the paths.
SPECIFICATION Spec
CONSTANTS
  sda1 = sda1
  sda2 = sda2
  sdb1 = sdb1
  Devices = {sda1, sda2, sdb1}
  Overlay = Overlay
  DevFs = DevFs
  NoFs = NoFs
  Root <- MCRoot
  Paths <- MCPaths
  Disks = {0, 1}
  Partitions <- MCPartitions
  MaxMounts = 3
INVARIANT NothingCountedTwice
