\* Two interfaces whose counters wrap, reset, vanish and cannot be read.
SPECIFICATION Spec
CONSTANTS
  Interfaces = {i1, i2}
  Wrap = 3
  MaxBytes = 2
  MaxTime = 3
INVARIANTS
  TypeOK
  ThroughputIsExact
  ThroughputNotInflated
