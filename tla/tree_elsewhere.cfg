\* A machine that has no component of some kind.
SPECIFICATION Spec
CONSTANTS
  Whole = Whole
  Counts = {0, 1}
  MaxTicks = 1
INVARIANT AddressesExistRegardless
CHECK_DEADLOCK FALSE
