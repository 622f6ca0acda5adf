---------------------------- MODULE MCPageTable ----------------------------
(* Tables of four entries, two PGD entries: 32 pages.                      *)
EXTENDS PageTable

Area(v, p, n, attr) == [v |-> v, p |-> p, n |-> n, attr |-> attr]

\* as_initialize: code, rodata, data, bss, the user ELF, the heap, a device.
\* They do not overlap; the heap and the device contain whole sections.  They
\* need five tables.
MCKernelAreas ==
  {Area(1, 33, 2, "rox"), Area(3, 35, 1, "ro"), Area(4, 36, 1, "rw"),
   Area(5, 37, 2, "rw"), Area(7, 39, 4, "rw"), Area(11, 43, 9, "rw"),
   Area(28, 12, 4, "dev")}

\* as_map: blocks shorter than a section, since gran_alloc gives at most 32
\* granules, that may be mapped over earlier ones and across table boundaries.
\* Together they need one table more than there are.
MCUserAreas ==
  {Area(14, 40, n, "rw") : n \in {1, 3}} \cup {Area(15, 44, n, "rw") : n \in {1, 3}}
  \cup {Area(16, 48, 3, "ro"), Area(4, 52, 2, "ro"), Area(8, 56, 1, "rw")}

MCSpaces == {MCKernelAreas, MCUserAreas}
============================================================================
