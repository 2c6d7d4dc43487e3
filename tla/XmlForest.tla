----------------------------- MODULE XmlForest -----------------------------
(***************************************************************************)
(* What an XMLDocument promises to its user: an ordered tree under the     *)
(* document, and nodes that were created but are in no place yet.  There   *)
(* are no pointers and no list of unlinked nodes here.                     *)
(***************************************************************************)
EXTENDS Naturals, SequencesExt

CONSTANTS Nodes, Doc

VARIABLES kids,  \* the children of every node and of the document, in order
          loose  \* the nodes that have no parent

vars == <<kids, loose>>

Places == Nodes \cup {Doc}

Live == loose \cup UNION {ToSet(kids[p]) : p \in Places}

\* What is at or below the nodes of roots: in every set that holds them and, with
\* a node, its children.
Below(roots) ==
  {m \in Nodes : \A S \in SUBSET Nodes :
     roots \subseteq S /\ (\A k \in S : ToSet(kids[k]) \subseteq S) => m \in S}

Init ==
  /\ kids = [p \in Places |-> <<>>]
  /\ loose = {}

Create ==
  /\ UNCHANGED kids
  /\ \E n \in Nodes \ Live : loose' = loose \cup {n}

\* A new node at the end of the children of a container.
Grow ==
  /\ UNCHANGED loose
  /\ \E n \in Nodes \ Live, p \in Live \cup {Doc} :
       kids' = [kids EXCEPT ![p] = Append(@, n)]

\* A node, with all that is below it, leaves its place and becomes child i of p.
Move ==
  \E n \in Live :
    LET others == [q \in Places |-> RemoveFirst(kids[q], n)]
    IN  /\ loose' = loose \ {n}
        /\ \E p \in (Live \cup {Doc}) \ Below({n}) : \E i \in 1 .. Len(others[p]) + 1 :
             kids' = [others EXCEPT ![p] = InsertAt(@, i, n)]

\* A node is deleted with all that is below it.
Delete ==
  \E n \in Live :
    /\ loose' = loose \ {n}
    /\ kids' = [p \in Places |->
                  IF p \in Below({n}) THEN <<>> ELSE RemoveFirst(kids[p], n)]

DeleteChildren ==
  \E p \in Live \cup {Doc} :
    /\ UNCHANGED loose
    /\ kids' = [q \in Places |->
                  IF q = p \/ q \in Below(ToSet(kids[p])) THEN <<>> ELSE kids[q]]

Clear == kids' = [p \in Places |-> <<>>] /\ loose' = {}

Next == Create \/ Grow \/ Move \/ Delete \/ DeleteChildren \/ Clear

Spec == Init /\ [][Next]_vars
============================================================================
