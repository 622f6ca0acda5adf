----------------------------- MODULE MCGranAlloc -----------------------------
(* Small heaps: 4-bit and 8-bit table entries.                             *)
EXTENDS GranAlloc

MCAllFree == [i \in Entries |-> {}]

\* Memory that was clear, and memory that was not.
MCTables == {MCAllFree, [MCAllFree EXCEPT ![0] = {1}, ![NENTRIES - 1] = {0, W - 1}]}
MCJunk == {{}, {0}, Bits}
=============================================================================
