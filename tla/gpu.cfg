\* Two devices, each of which may scan while the other reads or scans.
SPECIFICATION Spec
CONSTANTS
  d1 = d1
  d2 = d2
  Devices = {d1, d2}
  Ids = {0, 1}
  Amd = {radeon}
  Intel = {}
  Nvidia = {geforce}
  NoGpu = NoGpu
  MaxPlugs = 2
SYMMETRY DeviceSymmetry
INVARIANTS
  TypeOK
  RowsAreOfTheirGpu
  RescanIsSafe
