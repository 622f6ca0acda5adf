----------------------------- MODULE ListLinks -----------------------------
(***************************************************************************)
(* uapi/list.h: the assignments to next and prev.                          *)
(*                                                                         *)
(* L is the state of all links, [next, prev].  An EXCEPT with several      *)
(* parts makes the code's assignments in the code's order, which matters   *)
(* when the nodes involved are the same.  Guards are the conditions the    *)
(* comments of list.h put on the caller.                                   *)
(***************************************************************************)
EXTENDS Integers, Sequences, FiniteSets

CONSTANTS
  Heads,     \* list heads
  Entries,   \* nodes embedded in structures
  Poison     \* LIST_POISON1, LIST_POISON2

ASSUME ListAssumption == Heads \cap Entries = {} /\ Poison \notin Heads \cup Entries

Nodes == Heads \cup Entries

VARIABLES
  links,   \* [next, prev]
  stale    \* nodes whose links may not be used before INIT_LIST_HEAD: heads
           \* that were spliced away, nodes that were replaced

vars == <<links, stale>>

Init ==
  /\ links = [next |-> [n \in Nodes |-> n], prev |-> [n \in Nodes |-> n]]
  /\ stale = {}

-----------------------------------------------------------------------------
INIT_LIST_HEAD(L, n) ==
  [next |-> [L.next EXCEPT ![n] = n], prev |-> [L.prev EXCEPT ![n] = n]]

\* Mutant: a prev link is left out.
add_between_one_way(L, new, p, n) ==
  [next |-> [L.next EXCEPT ![new] = n, ![p] = new],
   prev |-> [L.prev EXCEPT ![new] = p]]

add_between(L, new, p, n) ==
  [next |-> [L.next EXCEPT ![new] = n, ![p] = new],
   prev |-> [L.prev EXCEPT ![n] = new, ![new] = p]]

del_between(L, p, n) ==
  [next |-> [L.next EXCEPT ![p] = n], prev |-> [L.prev EXCEPT ![n] = p]]

del_entry(L, e) == del_between(L, L.prev[e], L.next[e])

poison(L, e) ==
  [next |-> [L.next EXCEPT ![e] = Poison], prev |-> [L.prev EXCEPT ![e] = Poison]]

add_head(L, e, h) == add_between(L, e, h, L.next[h])

add_tail(L, e, h) == add_between(L, e, L.prev[h], h)

\* The second pair of lines reads old->prev after the first has written it.
replace(L, old, new) ==
  LET n == L.next[old]
      M == [next |-> [L.next EXCEPT ![new] = n], prev |-> [L.prev EXCEPT ![n] = new]]
      p == M.prev[old]
  IN  [next |-> [M.next EXCEPT ![p] = new], prev |-> [M.prev EXCEPT ![new] = p]]

cut_position(L, list, head, entry) ==
  [next |-> [L.next EXCEPT ![list] = L.next[head], ![entry] = list,
                           ![head] = L.next[entry]],
   prev |-> [L.prev EXCEPT ![L.next[head]] = list, ![list] = entry,
                           ![L.next[entry]] = head]]

\* Mutant: the list goes behind n instead of between p and n.
splice_after_next(L, list, p, n) ==
  [next |-> [L.next EXCEPT ![n] = L.next[list], ![L.prev[list]] = L.next[n]],
   prev |-> [L.prev EXCEPT ![L.next[list]] = n, ![L.next[n]] = L.prev[list]]]

splice(L, list, p, n) ==
  [next |-> [L.next EXCEPT ![p] = L.next[list], ![L.prev[list]] = n],
   prev |-> [L.prev EXCEPT ![L.next[list]] = p, ![n] = L.prev[list]]]

list_empty(h) == links.next[h] = h

\* A node that is on no list and was not left dangling.
alone(n) == n \notin stale /\ links.next[n] \in {n, Poison}
on_list(n) == n \notin stale /\ ~alone(n)

\* The entries of h from its next on; <<Poison>> if the way does not lead back.
walk(h) ==
  LET N == Cardinality(Nodes)
      at[i \in 0 .. N] ==
        IF i = 0 THEN h
        ELSE IF at[i - 1] \in Nodes THEN links.next[at[i - 1]] ELSE Poison
      back == {i \in 1 .. N : at[i] = h}
  IN  IF back = {} THEN <<Poison>>
      ELSE [i \in 1 .. (CHOOSE b \in back : \A c \in back : b <= c) - 1 |-> at[i]]

-----------------------------------------------------------------------------
init_list_head(n) ==
  /\ n \in stale
  /\ links' = INIT_LIST_HEAD(links, n)
  /\ stale' = stale \ {n}

list_add(e, h) ==
  /\ alone(e) /\ h \notin stale
  /\ links' = add_head(links, e, h)
  /\ UNCHANGED stale

list_add_tail(e, h) ==
  /\ alone(e) /\ h \notin stale
  /\ links' = add_tail(links, e, h)
  /\ UNCHANGED stale

list_del(e) ==
  /\ on_list(e)
  /\ links' = poison(del_entry(links, e), e)
  /\ UNCHANGED stale

\* Also called on an entry that was initialised and is on no list.
list_del_init(e) ==
  /\ e \notin stale /\ links.next[e] # Poison
  /\ links' = INIT_LIST_HEAD(del_entry(links, e), e)
  /\ UNCHANGED stale

list_move(e, h) ==
  /\ on_list(e) /\ h \notin stale
  /\ links' = add_head(del_entry(links, e), e, h)
  /\ UNCHANGED stale

list_move_tail(e, h) ==
  /\ on_list(e) /\ h \notin stale
  /\ links' = add_tail(del_entry(links, e), e, h)
  /\ UNCHANGED stale

list_rotate_left(h) ==
  /\ h \notin stale /\ ~list_empty(h)
  /\ LET first == links.next[h]
     IN  links' = add_tail(del_entry(links, first), first, h)
  /\ UNCHANGED stale

\* An entry by an entry or a head by a head.
list_replace(old, new) ==
  /\ old \notin stale /\ links.next[old] # Poison
  /\ alone(new) /\ old # new
  /\ old \in Heads <=> new \in Heads
  /\ links' = replace(links, old, new)
  /\ stale' = stale \cup {old}

list_replace_init(old, new) ==
  /\ old \notin stale /\ links.next[old] # Poison
  /\ alone(new) /\ old # new
  /\ old \in Heads <=> new \in Heads
  /\ links' = INIT_LIST_HEAD(replace(links, old, new), old)
  /\ UNCHANGED stale

list_cut_position(list, head, entry) ==
  /\ list # head /\ {list, head, entry} \cap stale = {}
  /\ list_empty(list)
  /\ ~list_empty(head)
  /\ \/ entry = head
     \/ on_list(entry) /\ \E i \in DOMAIN walk(head) : walk(head)[i] = entry
  /\ links' = IF entry = head THEN INIT_LIST_HEAD(links, list)
              ELSE cut_position(links, list, head, entry)
  /\ UNCHANGED stale

\* The caller joins two lists: the heads are not on one ring.
apart(list, head) == links.next[head] # list /\ links.prev[head] # list

\* list_splice and list_splice_tail leave list dangling, the _init forms not.
list_splice(list, head, tail, init) ==
  /\ list # head /\ {list, head} \cap stale = {}
  /\ apart(list, head)
  /\ ~list_empty(list)
  /\ LET L == IF tail THEN splice(links, list, links.prev[head], head)
              ELSE splice(links, list, head, links.next[head])
     IN  links' = IF init THEN INIT_LIST_HEAD(L, list) ELSE L
  /\ stale' = IF init THEN stale ELSE stale \cup {list}

Next ==
  \/ \E n \in Nodes : init_list_head(n)
  \/ \E e \in Entries : list_del(e) \/ list_del_init(e)
  \/ \E e \in Entries, h \in Heads :
       list_add(e, h) \/ list_add_tail(e, h) \/ list_move(e, h) \/ list_move_tail(e, h)
  \/ \E h \in Heads : list_rotate_left(h)
  \/ \E old, new \in Nodes : list_replace(old, new) \/ list_replace_init(old, new)
  \/ \E list, head \in Heads, entry \in Nodes : list_cut_position(list, head, entry)
  \/ \E list, head \in Heads, tail, init \in BOOLEAN : list_splice(list, head, tail, init)

Spec == Init /\ [][Next]_vars

-----------------------------------------------------------------------------
\* The links of the nodes outside S are inverse to each other and do not lead
\* into S; both links of a node are poisoned or neither is.
WellLinked(L, S) ==
  \A n \in Nodes \ S :
    \/ n \in Entries /\ L.next[n] = Poison /\ L.prev[n] = Poison
    \/ /\ L.next[n] \in Nodes \ S /\ L.prev[L.next[n]] = n
       /\ L.prev[n] \in Nodes \ S /\ L.next[L.prev[n]] = n

\* After any sequence of calls list.h allows, every chain of next pointers is
\* a ring that the prev pointers follow backwards, no list runs into a node
\* that was removed, replaced or spliced away, and a poisoned node is on no list.
RingsClosed == WellLinked(links, stale)

LS == INSTANCE ListSpec WITH
        lists <- [h \in Heads |-> IF h \in stale THEN << >> ELSE walk(h)]

\* Read from its head on, every list is the sequence that the operators of
\* Lists compute: the scheduler's and the loader's queues may be modelled so.
\* In particular list_add_tail and list_move_tail queue behind all others, which
\* round robin in schedule() rests on.
ListsAreSequences == LS!Spec
============================================================================
