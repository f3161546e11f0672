\* Machines with none or two components of each kind.
SPECIFICATION Spec
CONSTANTS
  Whole = Whole
  Counts = {0, 2}
  MaxTicks = 2
INVARIANTS
  TypeOK
  OneReadingAtATime
  EverythingIsPublished
PROPERTY DescriptionStays
CHECK_DEADLOCK FALSE
