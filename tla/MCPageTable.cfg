\* The kernel's table and a user's.
SPECIFICATION Spec
CONSTANTS
  PTRS = 4
  PTRS_PGD = 2
  Tables = {1, 2, 3, 4, 5}
  Spaces <- MCSpaces
  Attrs = {"rox", "ro", "rw", "dev"}
  Unmapped = Unmapped
INVARIANT TablesIntact
PROPERTY
  MapsAsAsked
CHECK_DEADLOCK FALSE
