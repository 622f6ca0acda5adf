------------------------------ MODULE ListSpec ------------------------------
(***************************************************************************)
(* What uapi/list.h promises: every list is a sequence of entries, and an  *)
(* operation changes the lists it names and no other.  The operators of    *)
(* Lists, which the models of the kernel use, are its steps.               *)
(***************************************************************************)
EXTENDS Lists

CONSTANTS Heads, Entries

VARIABLE lists   \* Heads -> sequences of entries

Init == lists = [h \in Heads |-> << >>]

linked == UNION {Range(lists[h]) : h \in Heads}
without(e) == [h \in Heads |-> list_del(lists[h], e)]

Insert(e, h) ==
  /\ e \notin linked
  /\ \/ lists' = [lists EXCEPT ![h] = list_add(@, e)]
     \/ lists' = [lists EXCEPT ![h] = list_add_tail(@, e)]

Delete(e) == lists' = without(e)

Move(e, h) ==
  /\ e \in linked
  /\ \/ lists' = [without(e) EXCEPT ![h] = list_add(@, e)]
     \/ lists' = [without(e) EXCEPT ![h] = list_add_tail(@, e)]

Replace(old, new) ==
  /\ new \notin linked
  /\ lists' = [h \in Heads |-> [i \in DOMAIN lists[h] |->
                 IF lists[h][i] = old THEN new ELSE lists[h][i]]]

HandOver(g, h) ==
  /\ lists[h] = << >>
  /\ lists' = [lists EXCEPT ![g] = << >>, ![h] = lists[g]]

\* The first k entries of h go to the empty list l.
Cut(l, h, k) ==
  /\ lists[l] = << >>
  /\ lists' = [lists EXCEPT ![l] = SubSeq(lists[h], 1, k),
                            ![h] = SubSeq(lists[h], k + 1, Len(lists[h]))]

Splice(l, h) ==
  \/ lists' = [lists EXCEPT ![l] = << >>, ![h] = lists[l] \o lists[h]]
  \/ lists' = [lists EXCEPT ![l] = << >>, ![h] = lists[h] \o lists[l]]

Next ==
  \/ \E e \in Entries : Delete(e) \/ \E h \in Heads : Insert(e, h) \/ Move(e, h)
  \/ \E old, new \in Entries : Replace(old, new)
  \/ \E g, h \in Heads : g # h /\ (HandOver(g, h) \/ Splice(g, h))
  \/ \E l, h \in Heads : l # h /\ \E k \in 0 .. Len(lists[h]) : Cut(l, h, k)

Spec == Init /\ [][Next]_lists
=============================================================================
