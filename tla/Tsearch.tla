------------------------------ MODULE Tsearch ------------------------------
(***************************************************************************)
(* tsearch and tdelete of musl (tsearch.c, tdelete.c): AVL trees that keep *)
(* the height in each node.  A tree is Nil or [key, a, h], where a[1] and  *)
(* a[2] are a[0] and a[1] of the code.  An operation on a subtree returns  *)
(* the new subtree and whether its ancestors are still to be balanced.     *)
(***************************************************************************)
EXTENDS Integers, FiniteSets

CONSTANT Nil

height(n) == IF n = Nil THEN 0 ELSE n.h

\* Mutant: a double rotation leaves the height of its new top as it was.
top_height_kept(z) == z.h
top_height(z) == z.h + 1

rot(x, dir) ==
  LET other == 3 - dir
      y == x.a[dir]
      z == y.a[other]
      hz == height(z)
      x2 == [x EXCEPT !.a[dir] = z.a[other], !.h = hz]
      y2 == [y EXCEPT !.a[other] = z.a[dir], !.h = hz]
      x1 == [x EXCEPT !.a[dir] = z, !.h = hz + 1]
  IN  IF hz > height(y.a[dir])
      THEN [z EXCEPT !.a[other] = x2, !.a[dir] = y2, !.h = top_height(z)]
      ELSE [y EXCEPT !.a[other] = x1, !.h = hz + 2]

balance(n) ==
  LET h0 == height(n.a[1])
      h1 == height(n.a[2])
      t == IF h0 - h1 \in -1 .. 1
           THEN [n EXCEPT !.h = IF h0 < h1 THEN h1 + 1 ELSE h0 + 1]
           ELSE rot(n, IF h0 < h1 THEN 2 ELSE 1)
  IN  [t |-> t, up |-> t.h # n.h]

\* n with the subtree on side i replaced by what r holds, balanced if r says so.
above(n, i, r) ==
  LET m == [n EXCEPT !.a[i] = r.t]
  IN  IF r.up THEN balance(m) ELSE [t |-> m, up |-> FALSE]

side(key, n) == IF key > n.key THEN 2 ELSE 1

\* The new node, or the tree as it was if the key is there.
RECURSIVE insert(_, _)
insert(n, key) ==
  IF n = Nil THEN [t |-> [key |-> key, a |-> <<Nil, Nil>>, h |-> 1], up |-> TRUE]
  ELSE IF n.key = key THEN [t |-> n, up |-> FALSE]
  ELSE above(n, side(key, n), insert(n.a[side(key, n)], key))

tsearch(n, key) == insert(n, key).t

RECURSIVE last(_)
last(n) == IF n.a[2] = Nil THEN n ELSE last(n.a[2])

\* Takes out the last node of n: its left subtree moves up.
RECURSIVE unlink_last(_)
unlink_last(n) ==
  IF n.a[2] = Nil THEN [t |-> n.a[1], up |-> TRUE]
  ELSE above(n, 2, unlink_last(n.a[2]))

RECURSIVE remove(_, _)
remove(n, key) ==
  IF n = Nil THEN [t |-> Nil, up |-> FALSE]
  ELSE IF n.key # key THEN above(n, side(key, n), remove(n.a[side(key, n)], key))
  ELSE IF n.a[1] = Nil THEN [t |-> n.a[2], up |-> TRUE]
  ELSE above([n EXCEPT !.key = last(n.a[1]).key], 1, unlink_last(n.a[1]))

tdelete(n, key) == remove(n, key).t
-----------------------------------------------------------------------------
RECURSIVE keys(_)
keys(n) == IF n = Nil THEN {} ELSE {n.key} \union keys(n.a[1]) \union keys(n.a[2])

\* Ordered, balanced, and each node has its height.
RECURSIVE is_avl(_)
is_avl(n) ==
  n # Nil =>
    /\ \A k \in keys(n.a[1]) : k < n.key
    /\ \A k \in keys(n.a[2]) : k > n.key
    /\ height(n.a[1]) - height(n.a[2]) \in -1 .. 1
    /\ n.h = 1 + (IF height(n.a[1]) > height(n.a[2]) THEN height(n.a[1]) ELSE height(n.a[2]))
    /\ is_avl(n.a[1]) /\ is_avl(n.a[2])
=============================================================================
