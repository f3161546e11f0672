\* A reading that fails or misses an interface, and the one after it.
SPECIFICATION Spec
CONSTANTS
  Interfaces = {i1, i2}
  Wrap = 3
  MaxBytes = 2
  MaxTime = 3
INVARIANT ThroughputOfInterval
