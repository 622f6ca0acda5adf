SPECIFICATION Spec
CONSTANTS
  Files <- MCFiles
  PAGE_SIZE = 2
  MAX_BLOCK = 8
  Addresses = {0, 1, 2, 3, 4, 5, 6, 7, 8, 9, 10, 11, 12, 13}
  Unmapped = Unmapped
INVARIANTS
  ImageInPlace
  DescriptorsFreed
CHECK_DEADLOCK FALSE
