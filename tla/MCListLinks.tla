---------------------------- MODULE MCListLinks ----------------------------
(* Two lists and three entries.                                            *)
EXTENDS ListLinks

CONSTANTS h1, h2, e1, e2, e3

MCHeads == {h1, h2}
MCEntries == {e1, e2, e3}
============================================================================
