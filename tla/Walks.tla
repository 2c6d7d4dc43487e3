------------------------------- MODULE Walks -------------------------------
(***************************************************************************)
(* The loops that follow a link from cell to cell, as every list of this   *)
(* program is read: the queues of ikcp.h and the children of an XMLNode.   *)
(***************************************************************************)
EXTENDS Naturals, FiniteSets

\* for (cell = from; cell != end; cell = cell->link), at most so many times.
Walk(from, link, end, most) ==
  LET at[i \in 1 .. most] ==
        IF i = 1 THEN from
        ELSE LET before == at[i - 1] IN IF before = end THEN end ELSE link[before]
  IN  [i \in 1 .. Cardinality({i \in 1 .. most : at[i] # end}) |-> at[i]]
============================================================================
