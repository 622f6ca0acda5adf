------------------------------ MODULE PageMap ------------------------------
(***************************************************************************)
(* What pt_map promises: an address space is a function from virtual pages *)
(* to a frame and its attributes.  A call maps its area in order, possibly *)
(* several pages at a time, and touches no page outside it; it runs to its *)
(* end unless the memory for tables runs out, which stops the kernel.      *)
(***************************************************************************)
EXTENDS Integers

CONSTANTS
  Pages,      \* virtual page numbers
  Requests,   \* the calls: [v, p, n, attr], page numbers and a page count
  Unmapped

VARIABLES
  map,      \* Pages -> [p, attr] or Unmapped
  issued,   \* calls made so far
  area,     \* what is left of the call in progress, a set with at most one member
  halted

vars == <<map, issued, area, halted>>

Init ==
  /\ map = [v \in Pages |-> Unmapped]
  /\ issued = {}
  /\ area = {}
  /\ halted = FALSE

Call(r) ==
  /\ ~halted
  /\ area = {}
  /\ r \notin issued
  /\ issued' = issued \cup {r}
  /\ area' = {r}
  /\ UNCHANGED <<map, halted>>

MapSome(a, k) ==
  /\ ~halted
  /\ map' = [v \in Pages |-> IF v \in a.v .. a.v + k - 1
                             THEN [p |-> a.p + (v - a.v), attr |-> a.attr]
                             ELSE map[v]]
  /\ area' = IF k = a.n THEN {}
             ELSE {[a EXCEPT !.v = @ + k, !.p = @ + k, !.n = @ - k]}
  /\ UNCHANGED <<issued, halted>>

OutOfTables ==
  /\ ~halted
  /\ area # {}
  /\ halted' = TRUE
  /\ UNCHANGED <<map, issued, area>>

Next ==
  \/ \E r \in Requests : Call(r)
  \/ \E a \in area : \E k \in 1 .. a.n : MapSome(a, k)
  \/ OutOfTables

Spec == Init /\ [][Next]_vars

\* A call in progress ends, or the kernel stops.
FairSpec == Spec /\ WF_vars(\/ \E a \in area : \E k \in 1 .. a.n : MapSome(a, k)
                            \/ OutOfTables)
============================================================================
