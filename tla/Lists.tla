-------------------------------- MODULE Lists --------------------------------
(***************************************************************************)
(* The circular doubly linked lists of uapi/list.h, seen as the sequence   *)
(* of their entries from head.next on.  An entry has one link_head, so it  *)
(* is on at most one list, once; users of these operators keep that.       *)
(***************************************************************************)
EXTENDS Integers, Sequences, Functions

list_add(q, entry) == <<entry>> \o q

list_add_tail(q, entry) == Append(q, entry)

\* Position k taken out.
remove_at(q, k) == SubSeq(q, 1, k - 1) \o SubSeq(q, k + 1, Len(q))

\* list_del and list_del_init, as seen by a list that may hold the entry.
list_del(q, entry) ==
  IF entry \in Range(q)
  THEN remove_at(q, CHOOSE i \in DOMAIN q : q[i] = entry)
  ELSE q
=============================================================================
