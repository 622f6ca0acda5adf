SPECIFICATION Spec
CONSTANTS
  Threads = {t1, t2}
  Classes = {"small", "large"}
  Homes <- MCHomes
  Metas = {m1, m2, m3}
  Bounds <- MCBounds
  Mapped = Mapped
  Huge = "huge"
  NoMeta = NoMeta
  NoThread = NoThread
INVARIANTS
  SlotsAccounted
  NoCrash
  FreeSlotsReachable
SYMMETRY MCSymmetry
