-------------------------- MODULE ListLinksProofs --------------------------
(***************************************************************************)
(* The links of list.h stay well formed, for any number of lists and       *)
(* entries.  Every operation takes a node out of the well-linked part, or  *)
(* uses one that is out of it, and puts a node in: each half is a lemma.   *)
(***************************************************************************)
EXTENDS ListLinks, TLAPS

Links == [next : [Nodes -> Nodes \cup {Poison}], prev : [Nodes -> Nodes \cup {Poison}]]

\* INIT_LIST_HEAD puts a node that no other refers to on a ring of its own.
LEMMA InitKeeps ==
  ASSUME NEW L \in Links, NEW S \in SUBSET Nodes, NEW e \in Nodes,
         WellLinked(L, S \cup {e})
  PROVE  /\ INIT_LIST_HEAD(L, e) \in Links
         /\ WellLinked(INIT_LIST_HEAD(L, e), S \ {e})
BY DEF Links, WellLinked, INIT_LIST_HEAD

\* A poisoned entry is on no list.
LEMMA PoisonKeeps ==
  ASSUME NEW L \in Links, NEW S \in SUBSET Nodes, NEW e \in Entries,
         WellLinked(L, S \cup {e})
  PROVE  /\ poison(L, e) \in Links
         /\ WellLinked(poison(L, e), S \ {e})
BY DEF Links, WellLinked, poison, Nodes

\* Nothing refers to a node that is poisoned or alone on its ring.
LEMMA AloneIsOut ==
  ASSUME NEW L \in Links, NEW S \in SUBSET Nodes, NEW e \in Nodes \ S,
         WellLinked(L, S), L.next[e] \in {e, Poison}
  PROVE  WellLinked(L, S \cup {e})
BY ListAssumption DEF Links, WellLinked, Nodes

\* __list_add between two neighbours.
LEMMA AddKeeps ==
  ASSUME NEW L \in Links, NEW S \in SUBSET Nodes, NEW e \in Nodes,
         WellLinked(L, S \cup {e}),
         NEW p \in Nodes \ (S \cup {e}), NEW n \in Nodes \ (S \cup {e}),
         L.next[p] = n, L.prev[n] = p
  PROVE  /\ add_between(L, e, p, n) \in Links
         /\ WellLinked(add_between(L, e, p, n), S \ {e})
BY ListAssumption DEF Links, WellLinked, add_between, Nodes

\* __list_del_entry leaves the neighbours linked to each other.
LEMMA DelTakesOut ==
  ASSUME NEW L \in Links, NEW S \in SUBSET Nodes, NEW e \in Nodes \ S,
         WellLinked(L, S), L.next[e] # Poison
  PROVE  /\ del_entry(L, e) \in Links
         /\ WellLinked(del_entry(L, e), S \cup {e})
BY ListAssumption DEF Links, WellLinked, del_entry, del_between, Nodes

\* list_replace puts new in the place of old, also when old is alone.
LEMMA ReplaceSwaps ==
  ASSUME NEW L \in Links, NEW S \in SUBSET Nodes, NEW new \in Nodes,
         WellLinked(L, S \cup {new}),
         NEW old \in Nodes \ (S \cup {new}), L.next[old] # Poison
  PROVE  /\ replace(L, old, new) \in Links
         /\ WellLinked(replace(L, old, new), (S \ {new}) \cup {old})
<1> DEFINE n == L.next[old]
           p == L.prev[old]
<1>1. n \in Nodes \ (S \cup {new}) /\ L.prev[n] = old
  BY DEF WellLinked
<1>2. p \in Nodes \ (S \cup {new}) /\ L.next[p] = old
  BY DEF WellLinked
<1>3. CASE n = old
  <2>1. p = old
    BY <1>1, <1>3
  <2>2. replace(L, old, new) =
          [next |-> [[L.next EXCEPT ![new] = old] EXCEPT ![new] = new],
           prev |-> [[L.prev EXCEPT ![old] = new] EXCEPT ![new] = new]]
    BY <1>1, <1>3, <2>1 DEF replace, Links
  <2> QED
    BY <1>1, <1>3, <2>1, <2>2 DEF Links, WellLinked
<1>4. CASE n # old
  <2>1. replace(L, old, new) =
          [next |-> [[L.next EXCEPT ![new] = n] EXCEPT ![p] = new],
           prev |-> [[L.prev EXCEPT ![n] = new] EXCEPT ![new] = p]]
    BY <1>1, <1>2, <1>4 DEF replace, Links
  <2>2. p # old
    BY <1>2, <1>4
  <2> HIDE DEF n, p
  <2> DEFINE R == replace(L, old, new)
  <2>3. R \in Links
    BY <1>1, <1>2, <2>1 DEF Links
  <2>4. ASSUME NEW m \in Nodes \ ((S \ {new}) \cup {old})
        PROVE  \/ m \in Entries /\ R.next[m] = Poison /\ R.prev[m] = Poison
               \/ /\ R.next[m] \in Nodes \ ((S \ {new}) \cup {old})
                  /\ R.prev[R.next[m]] = m
                  /\ R.prev[m] \in Nodes \ ((S \ {new}) \cup {old})
                  /\ R.next[R.prev[m]] = m
    <3>1. CASE m = new
      BY <1>1, <1>2, <1>4, <2>1, <2>2, <3>1 DEF Links
    <3>2. CASE m # new
      BY <1>1, <1>2, <1>4, <2>1, <2>2, <3>2, ListAssumption DEF Links, WellLinked, Nodes
    <3> QED
      BY <3>1, <3>2
  <2> QED
    BY <2>3, <2>4 DEF WellLinked
<1> QED
  BY <1>3, <1>4

\* __list_cut_position makes two rings of one.
LEMMA CutKeeps ==
  ASSUME NEW L \in Links, NEW S \in SUBSET Nodes, NEW list \in Nodes \ S,
         WellLinked(L, S), L.next[list] = list,
         NEW head \in Nodes \ (S \cup {list}), NEW entry \in Nodes \ (S \cup {list}),
         head # entry, L.next[head] # Poison, L.next[entry] # Poison
  PROVE  /\ cut_position(L, list, head, entry) \in Links
         /\ WellLinked(cut_position(L, list, head, entry), S)
BY ListAssumption DEF Links, WellLinked, cut_position, Nodes

\* __list_splice of a list that is not empty between two other nodes.
LEMMA SpliceTakesOut ==
  ASSUME NEW L \in Links, NEW S \in SUBSET Nodes, NEW list \in Nodes \ S,
         WellLinked(L, S), L.next[list] \notin {list, Poison},
         NEW p \in Nodes \ (S \cup {list}), NEW n \in Nodes \ (S \cup {list}),
         L.next[p] = n, L.prev[n] = p
  PROVE  /\ splice(L, list, p, n) \in Links
         /\ WellLinked(splice(L, list, p, n), S \cup {list})
BY ListAssumption DEF Links, WellLinked, splice, Nodes

-----------------------------------------------------------------------------
LinkInv == links \in Links /\ stale \in SUBSET Nodes /\ RingsClosed

\* The neighbours of a head, in any state of the links it is not stale in.
LEMMA HeadNeighbours ==
  ASSUME NEW L \in Links, NEW S \in SUBSET Nodes, NEW h \in Heads \ S, WellLinked(L, S)
  PROVE  /\ L.next[h] \in Nodes \ S /\ L.prev[L.next[h]] = h
         /\ L.prev[h] \in Nodes \ S /\ L.next[L.prev[h]] = h
BY ListAssumption DEF WellLinked, Nodes

\* list_add and list_add_tail of a node that no other refers to.
LEMMA AddAtHead ==
  ASSUME NEW L \in Links, NEW S \in SUBSET Nodes, NEW e \in Entries, NEW h \in Heads \ S,
         WellLinked(L, S \cup {e})
  PROVE  /\ add_head(L, e, h) \in Links /\ WellLinked(add_head(L, e, h), S \ {e})
         /\ add_tail(L, e, h) \in Links /\ WellLinked(add_tail(L, e, h), S \ {e})
<1>1. h \in Heads \ (S \cup {e}) /\ e \in Nodes
  BY ListAssumption DEF Nodes
<1>2. /\ L.next[h] \in Nodes \ (S \cup {e}) /\ L.prev[L.next[h]] = h
      /\ L.prev[h] \in Nodes \ (S \cup {e}) /\ L.next[L.prev[h]] = h
  BY <1>1, HeadNeighbours DEF Nodes
<1> QED
  BY <1>1, <1>2, AddKeeps DEF add_head, add_tail, Nodes

\* __list_del_entry followed by list_add or list_add_tail.
LEMMA MoveKeeps ==
  ASSUME LinkInv, NEW e \in Entries \ stale, NEW h \in Heads \ stale,
         links.next[e] # Poison
  PROVE  LET L == del_entry(links, e)
         IN  /\ add_head(L, e, h) \in Links /\ WellLinked(add_head(L, e, h), stale)
             /\ add_tail(L, e, h) \in Links /\ WellLinked(add_tail(L, e, h), stale)
<1>1. /\ del_entry(links, e) \in Links
      /\ WellLinked(del_entry(links, e), stale \cup {e})
  BY DelTakesOut DEF LinkInv, RingsClosed, Nodes
<1>2. stale \ {e} = stale
  OBVIOUS
<1> QED
  BY <1>1, <1>2, AddAtHead DEF LinkInv

-----------------------------------------------------------------------------
\* Every node starts on a ring of its own.
LEMMA InitLinkInv == Init => LinkInv
BY DEF Init, LinkInv, Links, RingsClosed, WellLinked

\* INIT_LIST_HEAD of a dangling node.
LEMMA InitListHead ==
  ASSUME LinkInv, NEW n \in Nodes, init_list_head(n)
  PROVE  LinkInv'
<1>1. stale \cup {n} = stale
  BY DEF init_list_head
<1> QED
  BY <1>1, InitKeeps DEF LinkInv, RingsClosed, init_list_head

\* list_add and list_add_tail.
LEMMA Add ==
  ASSUME LinkInv, NEW e \in Entries, NEW h \in Heads,
         list_add(e, h) \/ list_add_tail(e, h)
  PROVE  LinkInv'
<1>1. e \in Nodes \ stale /\ links.next[e] \in {e, Poison} /\ h \in Heads \ stale
  BY DEF list_add, list_add_tail, alone, Nodes
<1>2. WellLinked(links, stale \cup {e})
  BY <1>1, AloneIsOut DEF LinkInv, RingsClosed
<1>3. stale \ {e} = stale
  BY <1>1
<1>4. /\ add_head(links, e, h) \in Links /\ WellLinked(add_head(links, e, h), stale)
      /\ add_tail(links, e, h) \in Links /\ WellLinked(add_tail(links, e, h), stale)
  BY <1>1, <1>2, <1>3, AddAtHead DEF LinkInv
<1> QED
  BY <1>4 DEF LinkInv, RingsClosed, list_add, list_add_tail

\* list_del and list_del_init.
LEMMA Del ==
  ASSUME LinkInv, NEW e \in Entries, list_del(e) \/ list_del_init(e)
  PROVE  LinkInv'
<1>1. e \in Nodes \ stale /\ links.next[e] # Poison
  BY DEF list_del, list_del_init, on_list, alone, Nodes
<1>2. /\ del_entry(links, e) \in Links
      /\ WellLinked(del_entry(links, e), stale \cup {e})
  BY <1>1, DelTakesOut DEF LinkInv, RingsClosed
<1>3. stale \ {e} = stale
  BY <1>1
<1>4. CASE list_del(e)
  BY <1>1, <1>2, <1>3, <1>4, PoisonKeeps DEF LinkInv, RingsClosed, list_del
<1>5. CASE list_del_init(e)
  BY <1>1, <1>2, <1>3, <1>5, InitKeeps DEF LinkInv, RingsClosed, list_del_init
<1> QED
  BY <1>4, <1>5

\* list_move and list_move_tail.
LEMMA Move ==
  ASSUME LinkInv, NEW e \in Entries, NEW h \in Heads,
         list_move(e, h) \/ list_move_tail(e, h)
  PROVE  LinkInv'
<1>1. e \in Entries \ stale /\ h \in Heads \ stale /\ links.next[e] # Poison
  BY DEF list_move, list_move_tail, on_list, alone
<1> QED
  BY <1>1, MoveKeeps DEF LinkInv, RingsClosed, list_move, list_move_tail

\* list_rotate_left: the first entry goes to the tail.
LEMMA Rotate ==
  ASSUME LinkInv, NEW h \in Heads, list_rotate_left(h)
  PROVE  LinkInv'
<1> DEFINE first == links.next[h]
<1>1. /\ first \in Nodes \ stale /\ links.prev[first] = h /\ first # h
      /\ h \in Nodes \ stale
  BY HeadNeighbours DEF LinkInv, RingsClosed, list_rotate_left, list_empty, Nodes
<1>2. links.next[first] # Poison
  BY <1>1, ListAssumption DEF LinkInv, RingsClosed, WellLinked, Nodes
<1> HIDE DEF first
<1> DEFINE L == del_entry(links, first)
<1>3. L \in Links /\ WellLinked(L, stale \cup {first})
  BY <1>1, <1>2, DelTakesOut DEF LinkInv, RingsClosed
<1> HIDE DEF L
<1>4. h \in Heads \ (stale \cup {first})
  BY <1>1
<1>5. L.prev[h] \in Nodes \ (stale \cup {first}) /\ L.next[L.prev[h]] = h
  BY <1>1, <1>3, <1>4, HeadNeighbours DEF LinkInv
<1>6. stale \ {first} = stale
  BY <1>1
<1>7. /\ add_between(L, first, L.prev[h], h) \in Links
      /\ WellLinked(add_between(L, first, L.prev[h], h), stale \ {first})
  <2>1. h \in Nodes \ (stale \cup {first}) /\ stale \in SUBSET Nodes
    BY <1>1 DEF LinkInv
  <2> QED
    BY <1>1, <1>3, <1>5, <2>1, AddKeeps
<1> QED
  BY <1>6, <1>7 DEF LinkInv, RingsClosed, list_rotate_left, add_tail, L, first

\* list_replace and list_replace_init.
LEMMA Replace ==
  ASSUME LinkInv, NEW old \in Nodes, NEW new \in Nodes,
         list_replace(old, new) \/ list_replace_init(old, new)
  PROVE  LinkInv'
<1>1. /\ old \in Nodes \ (stale \cup {new}) /\ links.next[old] # Poison
      /\ new \in Nodes \ stale /\ links.next[new] \in {new, Poison}
  BY DEF list_replace, list_replace_init, alone
<1>2. WellLinked(links, stale \cup {new})
  BY <1>1, AloneIsOut DEF LinkInv, RingsClosed
<1> DEFINE L == replace(links, old, new)
<1>3. stale \ {new} = stale /\ stale \ {old} = stale
  BY <1>1
<1>4. L \in Links /\ WellLinked(L, stale \cup {old})
  BY <1>1, <1>2, <1>3, ReplaceSwaps DEF LinkInv
<1>5. CASE list_replace(old, new)
  BY <1>4, <1>5 DEF LinkInv, RingsClosed, list_replace
<1>6. CASE list_replace_init(old, new)
  <2> HIDE DEF L
  <2>1. INIT_LIST_HEAD(L, old) \in Links /\ WellLinked(INIT_LIST_HEAD(L, old), stale)
    BY <1>1, <1>3, <1>4, InitKeeps DEF LinkInv
  <2>2. links' = INIT_LIST_HEAD(L, old) /\ stale' = stale
    BY <1>6 DEF list_replace_init, L
  <2> QED
    BY <2>1, <2>2 DEF LinkInv, RingsClosed
<1> QED
  BY <1>5, <1>6

\* list_cut_position, of no entry and of some.
LEMMA Cut ==
  ASSUME LinkInv, NEW list \in Heads, NEW head \in Heads, NEW entry \in Nodes,
         list_cut_position(list, head, entry)
  PROVE  LinkInv'
<1>1. /\ list \in Nodes \ stale /\ links.next[list] = list
      /\ head \in Heads \ stale /\ head # list
      /\ entry \in Nodes \ stale
      /\ entry # head => links.next[entry] \notin {entry, Poison}
      /\ UNCHANGED stale
  BY DEF list_cut_position, list_empty, on_list, alone, Nodes
<1>2. CASE entry = head
  <2>1. WellLinked(links, stale \cup {list})
    BY <1>1, AloneIsOut DEF LinkInv, RingsClosed
  <2>2. stale \ {list} = stale
    BY <1>1
  <2> QED
    BY <1>1, <1>2, <2>1, <2>2, InitKeeps DEF LinkInv, RingsClosed, list_cut_position
<1>3. CASE entry # head
  <2>1. entry # list
    BY <1>1, <1>3
  <2>2. links.next[head] # Poison
    BY <1>1, HeadNeighbours, ListAssumption DEF LinkInv, RingsClosed, Nodes
  <2>3. /\ cut_position(links, list, head, entry) \in Links
        /\ WellLinked(cut_position(links, list, head, entry), stale)
    BY <1>1, <1>3, <2>1, <2>2, CutKeeps DEF LinkInv, RingsClosed, Nodes
  <2> QED
    BY <1>1, <1>3, <2>3 DEF LinkInv, RingsClosed, list_cut_position
<1> QED
  BY <1>2, <1>3

\* The four forms of list_splice.
LEMMA Splice ==
  ASSUME LinkInv, NEW list \in Heads, NEW head \in Heads,
         NEW tail \in BOOLEAN, NEW init \in BOOLEAN,
         list_splice(list, head, tail, init)
  PROVE  LinkInv'
<1> DEFINE L == IF tail THEN splice(links, list, links.prev[head], head)
                ELSE splice(links, list, head, links.next[head])
<1>1. /\ list \in Nodes \ stale /\ head \in Nodes \ (stale \cup {list})
      /\ links.next[list] # list
      /\ links.next[head] # list /\ links.prev[head] # list
  BY DEF list_splice, list_empty, apart, Nodes
<1>2. /\ links.next[head] \in Nodes \ stale /\ links.prev[links.next[head]] = head
      /\ links.prev[head] \in Nodes \ stale /\ links.next[links.prev[head]] = head
      /\ links.next[list] \in Nodes \ stale
  BY <1>1, HeadNeighbours DEF LinkInv, RingsClosed
<1>3. links.next[list] \notin {list, Poison}
  BY <1>1, <1>2, ListAssumption DEF Nodes
<1>4. L \in Links /\ WellLinked(L, stale \cup {list})
  BY <1>1, <1>2, <1>3, SpliceTakesOut DEF LinkInv, RingsClosed
<1>5. /\ links' = IF init THEN INIT_LIST_HEAD(L, list) ELSE L
      /\ stale' = IF init THEN stale ELSE stale \cup {list}
  BY DEF list_splice
<1> HIDE DEF L
<1>6. CASE init
  <2>1. stale \ {list} = stale
    BY <1>1
  <2> QED
    BY <1>1, <1>4, <1>5, <1>6, <2>1, InitKeeps DEF LinkInv, RingsClosed
<1>7. CASE ~init
  BY <1>1, <1>4, <1>5, <1>7 DEF LinkInv, RingsClosed
<1> QED
  BY <1>6, <1>7

\* No call of list.h breaks the invariant.
LEMMA LinkInvStep == LinkInv /\ [Next]_vars => LinkInv'
<1> SUFFICES ASSUME LinkInv, [Next]_vars PROVE LinkInv'
  OBVIOUS
<1>1. CASE UNCHANGED vars
  BY <1>1 DEF LinkInv, RingsClosed, WellLinked, vars
<1>2. CASE Next
  BY <1>2, InitListHead, Add, Del, Move, Rotate, Replace, Cut, Splice DEF Next
<1> QED
  BY <1>1, <1>2

\* For any heads and entries and any sequence of the calls list.h allows, the
\* next and prev pointers of the nodes in use are inverse to each other, and no
\* list leads to a node that was deleted, replaced or spliced away.
THEOREM RingsStayClosed == Spec => []RingsClosed
<1>1. LinkInv => RingsClosed
  BY DEF LinkInv
<1> QED
  BY InitLinkInv, LinkInvStep, <1>1, PTL DEF Spec
============================================================================
