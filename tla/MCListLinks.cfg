\* Two heads, three entries: lists of length 0 to 3 that exchange entries.
SPECIFICATION Spec
CONSTANTS
  h1 = h1
  h2 = h2
  e1 = e1
  e2 = e2
  e3 = e3
  Heads <- MCHeads
  Entries <- MCEntries
  Poison = Poison
INVARIANT RingsClosed
PROPERTY ListsAreSequences
