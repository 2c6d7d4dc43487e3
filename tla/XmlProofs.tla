------------------------------ MODULE XmlProofs ------------------------------
(***************************************************************************)
(* Theorems about the document of tinyxml2 and its parser, for any number  *)
(* of nodes, names, depth and length of a file.                            *)
(*                                                                         *)
(* An operator of XmlTree stores through several pointers.  For each one a *)
(* lemma says what it stores, pointer by pointer, another that the tree is *)
(* in order after it (LinkInv), and a third that _unlinked and the counts  *)
(* of the pools are exact again (Held, Counted).  The two loops of Clear   *)
(* end because each round deletes a live node.  XmlInv adds what a parse   *)
(* knows: the elements it has open are the nodes without a place.          *)
(*                                                                         *)
(* The lists of children are sequences, and an operator inserts a node     *)
(* into one, removes it from one, or empties some.  From this the document *)
(* implements the forest of XmlForest, step by step.                       *)
(***************************************************************************)
EXTENDS XmlParser, WalkProofs, SequenceTheorems, FiniteSetTheorems, TLAPS

\* The values of a pointer to a sibling or to a child.
Links == Nodes \cup {Null}

\* The nodes whose _parent is p, whatever the lists say.
Kids(d, p) == {m \in Nodes : d.parent[m] = p}

\* The live nodes without a place in the tree.
Orphans(d) == {m \in Live(d) : d.parent[m] = Null}

\* The record of a document and the types of its fields.
IsDom(d) ==
  /\ d = [kind |-> d.kind, name |-> d.name, attrs |-> d.attrs, parent |-> d.parent,
          prev |-> d.prev, next |-> d.next, first |-> d.first, last |-> d.last,
          unlinked |-> d.unlinked, untracked |-> d.untracked]
  /\ d.kind \in [Nodes -> NodeKinds \cup {"free"}]
  /\ d.parent \in [Nodes -> Places \cup {Null}]
  /\ d.prev \in [Nodes -> Links] /\ d.next \in [Nodes -> Links]
  /\ d.first \in [Places -> Links] /\ d.last \in [Places -> Links]
  /\ d.unlinked \in Seq(Nodes)
  /\ d.untracked \in [Pools -> Int]

\* Only live nodes have a parent, and the parent is live or the document.
Placed(d) == \A m \in Nodes : d.parent[m] # Null =>
  /\ d.kind[m] # "free"
  /\ d.parent[m] \in Nodes => d.kind[d.parent[m]] # "free"

\* The first child of p is its child without a previous sibling.
Firsts(d) == \A p \in Places, m \in Nodes :
  d.first[p] = m <=> d.parent[m] = p /\ d.prev[m] = Null

\* The last child of p is its child without a next sibling.
Lasts(d) == \A p \in Places, m \in Nodes :
  d.last[p] = m <=> d.parent[m] = p /\ d.next[m] = Null

\* _next and _prev are inverse to each other, and neighbours have one parent.
Sides(d) == \A a, b \in Nodes :
  /\ d.next[a] = b <=> d.prev[b] = a
  /\ d.next[a] = b => d.parent[a] = d.parent[b] /\ d.parent[a] # Null

\* A node has a first child when it has a last one.
Ends(d) == \A p \in Places : d.first[p] = Null <=> d.last[p] = Null

\* S holds the first child of p, and with a child of p the next one.
Chained(d, p, S) ==
  /\ d.first[p] \in S \cup {Null}
  /\ \A m \in S : d.parent[m] = p => d.next[m] \in S \cup {Null}

\* Every child of p is reached from its first child along _next.
Reach(d) == \A p \in Places, S \in SUBSET Nodes : Chained(d, p, S) => Kids(d, p) \subseteq S

\* S holds the roots, and with a node or the document its children.
Hanging(d, S) ==
  /\ Doc \in S /\ Orphans(d) \subseteq S
  /\ \A m \in Nodes : d.parent[m] \in S => m \in S

\* Every live node hangs from a root: there is no cycle of parents.
Hang(d) == \A S \in SUBSET Places : Hanging(d, S) => Live(d) \subseteq S

\* The pointers of a document form lists of children and a forest.
LinkInv(d) ==
  IsDom(d) /\ Placed(d) /\ Firsts(d) /\ Lasts(d) /\ Sides(d) /\ Ends(d) /\ Reach(d) /\ Hang(d)

\* Null, the document and the nodes are apart.
LEMMA Distinct ==
  Null \notin Places /\ Null \notin Nodes /\ Doc \notin Nodes /\ Null # Doc /\ Nodes \subseteq Places
BY TreeAssumption DEF Null, Doc, Nodes, Places

\* What Unlink does, pointer by pointer.
Unlinks(d, e, n) ==
  LET p0 == d.parent[n]
  IN  /\ IsDom(e)
      /\ e.kind = d.kind /\ e.unlinked = d.unlinked /\ e.untracked = d.untracked
      /\ d.first[p0] = n => e.first[p0] = d.next[n]
      /\ d.last[p0] = n => e.last[p0] = d.prev[n]
      /\ \A p \in Places : p # p0 \/ d.first[p] # n => e.first[p] = d.first[p]
      /\ \A p \in Places : p # p0 \/ d.last[p] # n => e.last[p] = d.last[p]
      /\ e.next[n] = Null /\ e.prev[n] = Null /\ e.parent[n] = Null
      /\ d.prev[n] \in Nodes \ {n} => e.next[d.prev[n]] = d.next[n]
      /\ d.next[n] \in Nodes \ {n} => e.prev[d.next[n]] = d.prev[n]
      /\ \A m \in Nodes \ {n} : /\ m # d.prev[n] => e.next[m] = d.next[m]
                                /\ m # d.next[n] => e.prev[m] = d.prev[m]
                                /\ e.parent[m] = d.parent[m]

\* Unlink writes the pointers that Unlinks lists, and no others.
LEMMA UnlinkEffect ==
  ASSUME NEW d, IsDom(d), NEW n \in Nodes, d.parent[n] \in Places
  PROVE  Unlinks(d, Unlink(d, n), n)
<1> DEFINE e == Unlink(d, n)
           p0 == d.parent[n]
           first == [d.first EXCEPT ![p0] = IF @ = n THEN d.next[n] ELSE @]
           last == [d.last EXCEPT ![p0] = IF @ = n THEN d.prev[n] ELSE @]
           next == Store(Store(d.next, d.prev[n], d.next[n]), n, Null)
           prev == Store(Store(d.prev, d.next[n], d.prev[n]), n, Null)
           parent == [d.parent EXCEPT ![n] = Null]
<1>1. e = [d EXCEPT !.first = first, !.last = last, !.next = next, !.prev = prev, !.parent = parent]
  BY DEF Unlink
<1>2. n \in Links /\ Null \in Links /\ d.prev[n] \in Links /\ d.next[n] \in Links
      /\ d.next \in [Nodes -> Links] /\ d.prev \in [Nodes -> Links]
      /\ Null \notin Nodes
  BY Distinct DEF IsDom, Links
<1>3. /\ next \in [Nodes -> Links] /\ next[n] = Null
      /\ d.prev[n] \in Nodes \ {n} => next[d.prev[n]] = d.next[n]
      /\ \A m \in Nodes \ {n} : m # d.prev[n] => next[m] = d.next[m]
  BY <1>2 DEF Store, Links
<1>4. /\ prev \in [Nodes -> Links] /\ prev[n] = Null
      /\ d.next[n] \in Nodes \ {n} => prev[d.next[n]] = d.prev[n]
      /\ \A m \in Nodes \ {n} : m # d.next[n] => prev[m] = d.prev[m]
  BY <1>2 DEF Store, Links
<1>5. /\ first \in [Places -> Links] /\ last \in [Places -> Links]
      /\ d.first[p0] = n => first[p0] = d.next[n]
      /\ d.last[p0] = n => last[p0] = d.prev[n]
      /\ \A p \in Places : p # p0 \/ d.first[p] # n => first[p] = d.first[p]
      /\ \A p \in Places : p # p0 \/ d.last[p] # n => last[p] = d.last[p]
  BY <1>2 DEF IsDom
<1>6. /\ parent \in [Nodes -> Places \cup {Null}] /\ parent[n] = Null
      /\ \A m \in Nodes \ {n} : parent[m] = d.parent[m]
  BY DEF IsDom
<1> HIDE DEF first, last, next, prev, parent
<1>7. e = [kind |-> d.kind, name |-> d.name, attrs |-> d.attrs, parent |-> parent,
           prev |-> prev, next |-> next, first |-> first, last |-> last,
           unlinked |-> d.unlinked, untracked |-> d.untracked]
  BY <1>1 DEF IsDom
<1> HIDE DEF e
<1>8. IsDom(e)
  BY <1>3, <1>4, <1>5, <1>6, <1>7 DEF IsDom
<1>9. /\ e.kind = d.kind /\ e.unlinked = d.unlinked /\ e.untracked = d.untracked
      /\ e.first = first /\ e.last = last /\ e.next = next /\ e.prev = prev /\ e.parent = parent
  BY <1>7
<1>10. e = Unlink(d, n)
  BY DEF e
<1> QED BY <1>3, <1>4, <1>5, <1>6, <1>8, <1>9, <1>10 DEF Unlinks

\* The kinds of the pointers.
LEMMA Kinds ==
  ASSUME NEW d, IsDom(d)
  PROVE  /\ \A m \in Nodes : /\ d.prev[m] \in Nodes \cup {Null} /\ d.next[m] \in Nodes \cup {Null}
                             /\ d.parent[m] \in Places \cup {Null}
         /\ \A p \in Places : d.first[p] \in Nodes \cup {Null} /\ d.last[p] \in Nodes \cup {Null}
BY DEF IsDom, Links

\* No node is its own neighbour.
LEMMA NotOwnSibling ==
  ASSUME NEW d, LinkInv(d), NEW n \in Nodes
  PROVE  d.next[n] # n /\ d.prev[n] # n
<1> SUFFICES ASSUME d.next[n] = n \/ d.prev[n] = n PROVE FALSE
  OBVIOUS
<1>1. d.next[n] = n /\ d.prev[n] = n /\ d.parent[n] # Null
  BY DEF LinkInv, Sides
<1>2. PICK p \in Places : p = d.parent[n]
  BY <1>1, Kinds DEF LinkInv
<1> DEFINE S == Kids(d, p) \ {n}
<1>3. d.first[p] \in S \cup {Null}
  BY <1>1, <1>2, Kinds, Distinct DEF LinkInv, Firsts, Kids
<1>4. \A m \in S : d.next[m] \in S \cup {Null}
  BY <1>1, <1>2, Kinds, Distinct DEF LinkInv, Sides, Kids
<1>5. Kids(d, p) \subseteq S
  BY <1>3, <1>4 DEF LinkInv, Reach, Chained, Kids
<1> QED BY <1>2, <1>5 DEF Kids

\* Unlink closes the gap that n leaves in its parent's list.
LEMMA UnlinkLists ==
  ASSUME NEW d, NEW e, LinkInv(d), NEW n \in Nodes, d.parent[n] \in Places, Unlinks(d, e, n)
  PROVE  Placed(e) /\ Firsts(e) /\ Lasts(e) /\ Sides(e) /\ Ends(e)
<1> DEFINE p0 == d.parent[n]
<1>1. d.next[n] # n /\ d.prev[n] # n
  BY NotOwnSibling
<1>2. IsDom(d) /\ IsDom(e)
  BY DEF LinkInv, Unlinks
<1>3. Placed(e)
  BY Distinct DEF LinkInv, Placed, Unlinks
<1>4. Firsts(e)
  <2> SUFFICES ASSUME NEW p \in Places, NEW m \in Nodes
               PROVE  e.first[p] = m <=> e.parent[m] = p /\ e.prev[m] = Null
    BY DEF Firsts
  <2>1. CASE m = n
    BY <1>1, <1>2, <2>1, Distinct DEF LinkInv, Firsts, Unlinks
  <2>2. CASE m # n /\ m # d.next[n]
    BY <1>1, <1>2, <2>2, Kinds, Distinct DEF LinkInv, Firsts, Sides, Unlinks
  <2>3. CASE m # n /\ m = d.next[n]
    BY <1>1, <1>2, <2>3, Kinds, Distinct DEF LinkInv, Firsts, Sides, Unlinks
  <2> QED BY <2>1, <2>2, <2>3
<1>5. Lasts(e)
  <2> SUFFICES ASSUME NEW p \in Places, NEW m \in Nodes
               PROVE  e.last[p] = m <=> e.parent[m] = p /\ e.next[m] = Null
    BY DEF Lasts
  <2>1. CASE m = n
    BY <1>1, <1>2, <2>1, Distinct DEF LinkInv, Lasts, Unlinks
  <2>2. CASE m # n /\ m # d.prev[n]
    BY <1>1, <1>2, <2>2, Kinds, Distinct DEF LinkInv, Lasts, Sides, Unlinks
  <2>3. CASE m # n /\ m = d.prev[n]
    BY <1>1, <1>2, <2>3, Kinds, Distinct DEF LinkInv, Lasts, Sides, Unlinks
  <2> QED BY <2>1, <2>2, <2>3
<1>6. Sides(e)
  <2> SUFFICES ASSUME NEW a \in Nodes, NEW b \in Nodes
               PROVE  /\ e.next[a] = b <=> e.prev[b] = a
                      /\ e.next[a] = b => e.parent[a] = e.parent[b] /\ e.parent[a] # Null
    BY DEF Sides
  <2>1. CASE a = n \/ b = n
    BY <1>1, <1>2, <2>1, Kinds, Distinct DEF LinkInv, Sides, Unlinks
  <2>2. CASE a # n /\ b # n /\ a = d.prev[n]
    BY <1>1, <1>2, <2>2, Kinds, Distinct DEF LinkInv, Sides, Unlinks
  <2>3. CASE a # n /\ b # n /\ a # d.prev[n]
    BY <1>1, <1>2, <2>3, Kinds, Distinct DEF LinkInv, Sides, Unlinks
  <2> QED BY <2>1, <2>2, <2>3
<1>7. Ends(e)
  <2> SUFFICES ASSUME NEW p \in Places
               PROVE  e.first[p] = Null <=> e.last[p] = Null
    BY DEF Ends
  <2>1. CASE p # p0
    BY <1>1, <1>2, <2>1, Kinds, Distinct DEF LinkInv, Ends, Unlinks
  <2>2. CASE p = p0
    BY <1>1, <1>2, <2>2, Kinds, Distinct DEF LinkInv, Ends, Firsts, Lasts, Sides, Unlinks
  <2> QED BY <2>1, <2>2
<1> QED BY <1>3, <1>4, <1>5, <1>6, <1>7

\* After Unlink each list still leads to all of its nodes.
LEMMA UnlinkReach ==
  ASSUME NEW d, NEW e, LinkInv(d), NEW n \in Nodes, d.parent[n] \in Places, Unlinks(d, e, n)
  PROVE  Reach(e)
<1> DEFINE p0 == d.parent[n]
<1>1. d.next[n] # n /\ d.prev[n] # n
  BY NotOwnSibling
<1>2. IsDom(d) /\ IsDom(e)
  BY DEF LinkInv, Unlinks
<1> SUFFICES ASSUME NEW p \in Places, NEW S \in SUBSET Nodes, Chained(e, p, S)
             PROVE  Kids(e, p) \subseteq S
  BY DEF Reach
<1>3. Kids(e, p) = Kids(d, p) \ {n}
  BY Distinct DEF Kids, Unlinks
<1>4. CASE p # p0
  <2>1. Chained(d, p, S)
    BY <1>2, <1>4, Kinds, Distinct DEF LinkInv, Sides, Chained, Unlinks
  <2> QED BY <1>3, <2>1 DEF LinkInv, Reach
<1>5. CASE p = p0 /\ d.prev[n] \in S \cup {Null}
  <2> DEFINE T == S \cup {n}
  <2>1. d.first[p] \in T \cup {Null}
    BY <1>2, <1>5, Kinds, Distinct DEF Chained, Unlinks
  <2>2. d.next[n] \in T \cup {Null}
    <3>1. CASE d.prev[n] = Null
      BY <1>2, <1>5, <3>1 DEF LinkInv, Firsts, Chained, Unlinks
    <3>2. CASE d.prev[n] \in S
      BY <1>1, <1>2, <1>5, <3>2 DEF LinkInv, Sides, Chained, Unlinks
    <3> QED BY <1>5, <3>1, <3>2
  <2>3. ASSUME NEW m \in T, d.parent[m] = p PROVE d.next[m] \in T \cup {Null}
    <3>1. CASE m = n
      BY <2>2, <3>1
    <3>2. CASE m # n /\ m = d.prev[n]
      BY <3>2 DEF LinkInv, Sides
    <3>3. CASE m # n /\ m # d.prev[n]
      BY <2>3, <3>3 DEF Chained, Unlinks
    <3> QED BY <3>1, <3>2, <3>3
  <2>4. T \in SUBSET Nodes
    OBVIOUS
  <2> HIDE DEF T
  <2>5. Chained(d, p, T)
    BY <2>1, <2>3 DEF Chained
  <2>6. Kids(d, p) \subseteq T
    BY <2>4, <2>5 DEF LinkInv, Reach
  <2> QED BY <1>3, <2>6 DEF T
<1>6. CASE p = p0 /\ d.prev[n] \notin S \cup {Null}
  <2> DEFINE T == S \ {n}
  <2>1. d.prev[n] \in Nodes /\ d.parent[d.prev[n]] = p
    BY <1>2, <1>6, Kinds DEF LinkInv, Sides
  <2>2. d.first[p] \in T \cup {Null}
    BY <1>2, <1>6, <2>1, Kinds, Distinct DEF LinkInv, Firsts, Chained, Unlinks
  <2>3. ASSUME NEW m \in T, d.parent[m] = p PROVE d.next[m] \in T \cup {Null}
    <3>1. d.next[m] = e.next[m] /\ e.parent[m] = p
      BY <1>6, <2>3 DEF Unlinks
    <3>2. d.next[m] # n
      BY <1>6, <2>3 DEF LinkInv, Sides
    <3> QED BY <2>3, <3>1, <3>2 DEF Chained
  <2>4. Kids(d, p) \subseteq T
    BY <2>2, <2>3 DEF LinkInv, Reach, Chained
  <2> QED BY <1>6, <2>1, <2>4 DEF Kids
<1> QED BY <1>4, <1>5, <1>6

\* Unlink makes an orphan of n, and of no other node.
LEMMA UnlinkOrphans ==
  ASSUME NEW d, NEW e, LinkInv(d), NEW n \in Nodes, d.parent[n] \in Places, Unlinks(d, e, n)
  PROVE  Live(e) = Live(d) /\ Orphans(e) = Orphans(d) \cup {n} /\ n \notin Orphans(d)
<1>1. d.kind[n] # "free" /\ d.parent[n] # Null
  BY Distinct DEF LinkInv, Placed
<1> QED BY <1>1 DEF Live, Orphans, Unlinks

\* After Unlink every live node still hangs from a root: what was below n
\* hangs from n.
LEMMA UnlinkHang ==
  ASSUME NEW d, NEW e, LinkInv(d), NEW n \in Nodes, d.parent[n] \in Places, Unlinks(d, e, n)
  PROVE  Hang(e)
<1> SUFFICES ASSUME NEW S \in SUBSET Places, Hanging(e, S)
             PROVE  Live(e) \subseteq S
  BY DEF Hang
<1>1. n \in S /\ Orphans(d) \subseteq S
  <2>1. Orphans(e) = Orphans(d) \cup {n}
    BY UnlinkOrphans
  <2> QED BY <2>1 DEF Hanging
<1>2. \A m \in Nodes : d.parent[m] \in S => m \in S
  BY <1>1 DEF Hanging, Unlinks
<1>3. Live(d) \subseteq S
  BY <1>1, <1>2 DEF LinkInv, Hang, Hanging
<1> QED BY <1>3, UnlinkOrphans

\* Unlink keeps the tree in order.
LEMMA UnlinkKeeps ==
  ASSUME NEW d, LinkInv(d), NEW n \in Nodes, d.parent[n] \in Places
  PROVE  LinkInv(Unlink(d, n)) /\ Unlinks(d, Unlink(d, n), n)
<1> DEFINE e == Unlink(d, n)
<1>1. Unlinks(d, e, n)
  BY UnlinkEffect DEF LinkInv
<1> HIDE DEF e
<1>2. LinkInv(e)
  BY <1>1, UnlinkLists, UnlinkReach, UnlinkHang DEF LinkInv, Unlinks
<1> QED BY <1>1, <1>2 DEF e

\* A set that what is below p is in.
Under0(d, p, S) ==
  /\ d.first[p] \in S \cup {Null}
  /\ \A k \in S : {d.first[k], d.next[k]} \subseteq S \cup {Null}

\* What is below p is in every set that links from p do not leave.
LEMMA BelowLeast ==
  ASSUME NEW d, NEW p, NEW S \in SUBSET Nodes, Under0(d, p, S)
  PROVE  Below(d, p) \subseteq S
BY DEF Below, Under0

\* What is below p is itself such a set.
LEMMA BelowClosed ==
  ASSUME NEW d, IsDom(d), NEW p \in Places
  PROVE  Below(d, p) \in SUBSET Nodes /\ Under0(d, p, Below(d, p))
<1>1. d.first[p] \in Below(d, p) \cup {Null}
  BY Kinds DEF Below
<1>2. ASSUME NEW k \in Below(d, p) PROVE {d.first[k], d.next[k]} \subseteq Below(d, p) \cup {Null}
  <2>1. k \in Nodes /\ k \in Places
    BY Distinct DEF Below
  <2>2. d.first[k] \in Below(d, p) \cup {Null}
    BY <2>1, Kinds DEF Below
  <2>3. d.next[k] \in Below(d, p) \cup {Null}
    BY <2>1, Kinds DEF Below
  <2> QED BY <2>2, <2>3
<1> QED BY <1>1, <1>2 DEF Below, Under0

\* Unlink puts nothing new below n.
LEMMA UnlinkBelow ==
  ASSUME NEW d, NEW e, LinkInv(d), NEW n \in Nodes, d.parent[n] \in Places, Unlinks(d, e, n)
  PROVE  Below(e, n) \subseteq Below(d, n)
<1>1. Below(d, n) \in SUBSET Nodes /\ Under0(d, n, Below(d, n))
  BY BelowClosed, Distinct DEF LinkInv
<1>2. e.first[n] \in Below(d, n) \cup {Null}
  BY <1>1, Distinct DEF Under0, Unlinks
<1>3. ASSUME NEW k \in Below(d, n) PROVE e.first[k] \in Below(d, n) \cup {Null}
  BY <1>1, <1>3, Distinct DEF Under0, Unlinks
<1>4. ASSUME NEW k \in Below(d, n) PROVE e.next[k] \in Below(d, n) \cup {Null}
  <2>1. CASE k = n
    BY <2>1 DEF Unlinks
  <2>2. CASE k # n /\ k = d.prev[n]
    <3>1. d.next[k] = n
      BY <1>1, <2>2 DEF LinkInv, Sides
    <3>2. n \in Below(d, n)
      BY <1>1, <1>4, <3>1, Distinct DEF Under0
    <3> QED BY <1>1, <2>2, <3>2 DEF Under0, Unlinks
  <2>3. CASE k # n /\ k # d.prev[n]
    BY <1>1, <1>4, <2>3 DEF Under0, Unlinks
  <2> QED BY <2>1, <2>2, <2>3
<1>5. Under0(e, n, Below(d, n))
  BY <1>2, <1>3, <1>4 DEF Under0
<1> QED BY <1>1, <1>5, BelowLeast

\* A child of p, or of a node below p, is below p.
LEMMA KidsBelow ==
  ASSUME NEW d, LinkInv(d), NEW p \in Places, NEW q \in {p} \cup Below(d, p)
  PROVE  q \in Places /\ Kids(d, q) \subseteq Below(d, p)
<1> DEFINE S == Below(d, p)
<1>1. S \in SUBSET Nodes /\ Under0(d, p, S)
  BY BelowClosed DEF LinkInv
<1>2. q \in Places
  BY <1>1, Distinct
<1> HIDE DEF S
<1>3. Chained(d, q, S)
  BY <1>1 DEF Chained, Under0, S
<1>4. Kids(d, q) \subseteq S
  BY <1>1, <1>2, <1>3 DEF LinkInv, Reach
<1> QED BY <1>2, <1>4 DEF S

\* A node below p has p, or a node below p, for parent: it is no orphan.
LEMMA BelowParents ==
  ASSUME NEW d, LinkInv(d), NEW p \in Places, NEW m \in Below(d, p)
  PROVE  m \in Nodes /\ d.parent[m] \in {p} \cup Below(d, p) /\ d.parent[m] # Null
<1> DEFINE B == Below(d, p)
           S == {k \in B : d.parent[k] \in {p} \cup B}
<1>1. B \in SUBSET Nodes /\ Under0(d, p, B)
  BY BelowClosed DEF LinkInv
<1>2. S \in SUBSET Nodes
  BY <1>1
<1>3. d.first[p] \in S \cup {Null}
  BY <1>1, <1>2 DEF Under0, LinkInv, Firsts
<1>4. ASSUME NEW k \in S PROVE d.first[k] \in S \cup {Null}
  <2>1. d.first[k] \in B \cup {Null} /\ k \in Places
    BY <1>1, <1>4, Distinct DEF Under0
  <2> QED BY <1>1, <1>4, <2>1 DEF LinkInv, Firsts
<1>5. ASSUME NEW k \in S PROVE d.next[k] \in S \cup {Null}
  <2>1. d.next[k] \in B \cup {Null} /\ k \in Nodes
    BY <1>1, <1>5 DEF Under0
  <2> QED BY <1>1, <1>5, <2>1 DEF LinkInv, Sides
<1> HIDE DEF S
<1>6. Under0(d, p, S)
  BY <1>3, <1>4, <1>5 DEF Under0
<1>7. B \subseteq S
  BY <1>2, <1>6, BelowLeast
<1> QED BY <1>1, <1>2, <1>7, Distinct DEF S

\* An orphan has no neighbours and is in no list of children.
LEMMA OrphanAlone ==
  ASSUME NEW d, LinkInv(d), NEW n \in Orphans(d)
  PROVE  /\ n \in Nodes /\ d.kind[n] # "free" /\ d.parent[n] = Null
         /\ d.next[n] = Null /\ d.prev[n] = Null
         /\ \A m \in Nodes : d.next[m] # n /\ d.prev[m] # n
         /\ \A p \in Places : d.first[p] # n /\ d.last[p] # n
         /\ n \notin Below(d, n)
<1>1. n \in Nodes /\ d.kind[n] # "free" /\ d.parent[n] = Null
  BY DEF Orphans, Live
<1>2. \A m \in Nodes : d.next[m] # n /\ d.prev[m] # n
  BY <1>1 DEF LinkInv, Sides
<1>3. d.next[n] = Null /\ d.prev[n] = Null
  BY <1>1, <1>2, Kinds DEF LinkInv, Sides
<1>4. \A p \in Places : d.first[p] # n /\ d.last[p] # n
  BY <1>1, Distinct DEF LinkInv, Firsts, Lasts
<1>5. n \notin Below(d, n)
  BY <1>1, BelowParents, Distinct
<1> QED BY <1>1, <1>2, <1>3, <1>4, <1>5

\* l and r stand next to each other under p; Null stands for no node, before
\* the first child and after the last one.
Gap(d, p, l, r) ==
  /\ l \in Links /\ r \in Links
  /\ IF l = Null THEN d.first[p] = r ELSE d.parent[l] = p /\ d.next[l] = r
  /\ IF r = Null THEN d.last[p] = l ELSE d.parent[r] = p /\ d.prev[r] = l

\* What placing n under p between l and r does, pointer by pointer.
PlacedBetween(d, e, p, l, n, r) ==
  /\ IsDom(e)
  /\ e.kind = d.kind /\ e.unlinked = d.unlinked /\ e.untracked = d.untracked
  /\ l = Null => e.first[p] = n
  /\ r = Null => e.last[p] = n
  /\ \A q \in Places : q # p \/ l # Null => e.first[q] = d.first[q]
  /\ \A q \in Places : q # p \/ r # Null => e.last[q] = d.last[q]
  /\ e.next[n] = r /\ e.prev[n] = l /\ e.parent[n] = p
  /\ l # Null => e.next[l] = n
  /\ r # Null => e.prev[r] = n
  /\ \A m \in Nodes \ {n} : /\ m # l => e.next[m] = d.next[m]
                            /\ m # r => e.prev[m] = d.prev[m]
                            /\ e.parent[m] = d.parent[m]

\* A node without a first child has no child.
LEMMA NoFirst ==
  ASSUME NEW d, LinkInv(d), NEW p \in Places, d.first[p] = Null \/ d.last[p] = Null
  PROVE  Kids(d, p) = {}
<1>1. d.first[p] = Null
  BY DEF LinkInv, Ends
<1>2. Chained(d, p, {})
  BY <1>1 DEF Chained
<1>3. {} \in SUBSET Nodes
  OBVIOUS
<1>4. Kids(d, p) \subseteq {}
  BY <1>2, <1>3 DEF LinkInv, Reach
<1> QED BY <1>4

\* A node placed in a gap of a list is in that list, and no list is broken.
LEMMA PlaceLists ==
  ASSUME NEW d, NEW e, LinkInv(d), NEW n \in Orphans(d), NEW p \in Places, NEW l, NEW r,
         p # Doc => d.kind[p] # "free", Gap(d, p, l, r), PlacedBetween(d, e, p, l, n, r)
  PROVE  Placed(e) /\ Firsts(e) /\ Lasts(e) /\ Sides(e) /\ Ends(e)
<1>1. /\ n \in Nodes /\ d.kind[n] # "free" /\ d.parent[n] = Null
      /\ d.next[n] = Null /\ d.prev[n] = Null
      /\ \A m \in Nodes : d.next[m] # n /\ d.prev[m] # n
      /\ \A q \in Places : d.first[q] # n /\ d.last[q] # n
  BY OrphanAlone
<1>2. IsDom(d) /\ IsDom(e) /\ l \in Nodes \cup {Null} /\ r \in Nodes \cup {Null}
  BY DEF LinkInv, PlacedBetween, Gap, Links
<1>3. l # n /\ r # n
  BY <1>1, <1>2, Distinct DEF Gap
<1>4. Placed(e)
  BY <1>1, Distinct DEF LinkInv, Placed, PlacedBetween, Places
<1>5. Firsts(e)
  <2> SUFFICES ASSUME NEW q \in Places, NEW m \in Nodes
               PROVE  e.first[q] = m <=> e.parent[m] = q /\ e.prev[m] = Null
    BY DEF Firsts
  <2>1. CASE m = n
    BY <1>1, <1>2, <2>1, Distinct DEF LinkInv, Firsts, PlacedBetween
  <2>2. CASE m # n /\ m # r
    BY <1>1, <1>2, <2>2, Distinct DEF LinkInv, Firsts, Gap, PlacedBetween
  <2>3. CASE m # n /\ m = r
    BY <1>1, <1>2, <2>3, Distinct DEF LinkInv, Firsts, Gap, PlacedBetween
  <2> QED BY <2>1, <2>2, <2>3
<1>6. Lasts(e)
  <2> SUFFICES ASSUME NEW q \in Places, NEW m \in Nodes
               PROVE  e.last[q] = m <=> e.parent[m] = q /\ e.next[m] = Null
    BY DEF Lasts
  <2>1. CASE m = n
    BY <1>1, <1>2, <2>1, Distinct DEF LinkInv, Lasts, PlacedBetween
  <2>2. CASE m # n /\ m # l
    BY <1>1, <1>2, <2>2, Distinct DEF LinkInv, Lasts, Gap, PlacedBetween
  <2>3. CASE m # n /\ m = l
    BY <1>1, <1>2, <2>3, Distinct DEF LinkInv, Lasts, Gap, PlacedBetween
  <2> QED BY <2>1, <2>2, <2>3
<1>7. Sides(e)
  <2> SUFFICES ASSUME NEW a \in Nodes, NEW b \in Nodes
               PROVE  /\ e.next[a] = b <=> e.prev[b] = a
                      /\ e.next[a] = b => e.parent[a] = e.parent[b] /\ e.parent[a] # Null
    BY DEF Sides
  <2>1. CASE a = n
    BY <1>1, <1>2, <1>3, <2>1, Distinct DEF LinkInv, Sides, Gap, PlacedBetween
  <2>2. CASE b = n
    BY <1>1, <1>2, <1>3, <2>2, Distinct DEF LinkInv, Sides, Gap, PlacedBetween
  <2>3. CASE a # n /\ b # n /\ a = l
    BY <1>1, <1>2, <1>3, <2>3, Distinct DEF LinkInv, Sides, Gap, PlacedBetween
  <2>4. CASE a # n /\ b # n /\ a # l
    BY <1>1, <1>2, <1>3, <2>4, Distinct DEF LinkInv, Sides, Gap, PlacedBetween
  <2> QED BY <2>1, <2>2, <2>3, <2>4
<1>8. Ends(e)
  <2> SUFFICES ASSUME NEW q \in Places
               PROVE  e.first[q] = Null <=> e.last[q] = Null
    BY DEF Ends
  <2>1. CASE q # p
    BY <2>1 DEF LinkInv, Ends, PlacedBetween
  <2>2. CASE q = p
    <3>1. e.first[p] # Null
      <4>1. CASE l = Null
        BY <1>1, <4>1, Distinct DEF PlacedBetween
      <4>2. CASE l # Null
        <5>1. l \in Kids(d, p)
          BY <1>2, <4>2 DEF Gap, Kids
        <5> QED BY <4>2, <5>1, NoFirst DEF PlacedBetween
      <4> QED BY <4>1, <4>2
    <3>2. e.last[p] # Null
      <4>1. CASE r = Null
        BY <1>1, <4>1, Distinct DEF PlacedBetween
      <4>2. CASE r # Null
        <5>1. r \in Kids(d, p)
          BY <1>2, <4>2 DEF Gap, Kids
        <5> QED BY <4>2, <5>1, NoFirst DEF PlacedBetween
      <4> QED BY <4>1, <4>2
    <3> QED BY <2>2, <3>1, <3>2
  <2> QED BY <2>1, <2>2
<1> QED BY <1>4, <1>5, <1>6, <1>7, <1>8

\* After a placement each list still leads to all of its nodes.
LEMMA PlaceReach ==
  ASSUME NEW d, NEW e, LinkInv(d), NEW n \in Orphans(d), NEW p \in Places, NEW l, NEW r,
         Gap(d, p, l, r), PlacedBetween(d, e, p, l, n, r)
  PROVE  Reach(e)
<1>1. /\ n \in Nodes /\ d.parent[n] = Null
      /\ \A m \in Nodes : d.next[m] # n /\ d.prev[m] # n
      /\ \A q \in Places : d.first[q] # n /\ d.last[q] # n
  BY OrphanAlone
<1>2. IsDom(d) /\ IsDom(e) /\ l \in Nodes \cup {Null} /\ r \in Nodes \cup {Null}
  BY DEF LinkInv, PlacedBetween, Gap, Links
<1> SUFFICES ASSUME NEW q \in Places, NEW S \in SUBSET Nodes, Chained(e, q, S)
             PROVE  Kids(e, q) \subseteq S
  BY DEF Reach
<1> DEFINE T == S \ {n}
<1>3. T \in SUBSET Nodes
  OBVIOUS
<1>4. CASE q # p
  <2>1. d.first[q] \in T \cup {Null}
    BY <1>1, <1>4 DEF Chained, PlacedBetween
  <2>2. ASSUME NEW m \in T, d.parent[m] = q PROVE d.next[m] \in T \cup {Null}
    <3>1. m # l
      BY <1>1, <1>2, <1>4, <2>2, Distinct DEF Gap
    <3>2. e.next[m] = d.next[m] /\ e.parent[m] = q
      BY <2>2, <3>1 DEF PlacedBetween
    <3> QED BY <1>1, <2>2, <3>2 DEF Chained
  <2> HIDE DEF T
  <2>3. Kids(d, q) \subseteq T
    BY <1>3, <2>1, <2>2 DEF LinkInv, Reach, Chained
  <2>4. Kids(e, q) \subseteq Kids(d, q)
    BY <1>4 DEF Kids, PlacedBetween
  <2> QED BY <2>3, <2>4 DEF T
<1>5. CASE q = p
  <2>1. d.first[p] \in T \cup {Null}
    <3>1. CASE l = Null
      BY <1>1, <1>2, <1>5, <3>1, Distinct DEF Chained, Gap, PlacedBetween
    <3>2. CASE l # Null
      BY <1>1, <1>5, <3>2 DEF Chained, PlacedBetween
    <3> QED BY <3>1, <3>2
  <2>2. ASSUME NEW m \in T, d.parent[m] = p PROVE d.next[m] \in T \cup {Null}
    <3>1. e.parent[m] = p
      BY <2>2 DEF PlacedBetween
    <3>2. CASE m # l
      BY <1>1, <1>5, <2>2, <3>1, <3>2 DEF Chained, PlacedBetween
    <3>3. CASE m = l
      <4>1. e.next[m] = n /\ m # Null
        BY <2>2, <3>3, Distinct DEF PlacedBetween
      <4>2. n \in S
        BY <1>1, <1>5, <2>2, <3>1, <4>1, Distinct DEF Chained
      <4>3. r \in S \cup {Null}
        BY <1>5, <4>2 DEF Chained, PlacedBetween
      <4>4. d.next[m] = r
        BY <3>3, <4>1 DEF Gap
      <4> QED BY <1>1, <2>2, <4>3, <4>4
    <3> QED BY <3>2, <3>3
  <2> HIDE DEF T
  <2>3. Kids(d, p) \subseteq T
    BY <1>3, <2>1, <2>2 DEF LinkInv, Reach, Chained
  <2>4. n \in S
    <3>1. CASE l = Null
      BY <1>1, <1>5, <3>1, Distinct DEF Chained, PlacedBetween
    <3>2. CASE l # Null
      <4>1. l \in Kids(d, p)
        BY <1>2, <3>2 DEF Gap, Kids
      <4>2. l \in S /\ e.parent[l] = p /\ e.next[l] = n
        BY <2>3, <3>2, <4>1 DEF T, Kids, PlacedBetween
      <4> QED BY <1>1, <1>5, <4>2, Distinct DEF Chained
    <3> QED BY <3>1, <3>2
  <2>5. Kids(e, p) \subseteq Kids(d, p) \cup {n}
    BY DEF Kids, PlacedBetween
  <2> QED BY <1>5, <2>3, <2>4, <2>5 DEF T
<1> QED BY <1>4, <1>5

\* Only a node that is live and not below n may be given n for child; then
\* what hangs from the roots still does.
LEMMA PlaceHang ==
  ASSUME NEW d, NEW e, LinkInv(d), NEW n \in Orphans(d), NEW p \in Places, NEW l, NEW r,
         p # Doc => d.kind[p] # "free", p # n, p \notin Below(d, n),
         PlacedBetween(d, e, p, l, n, r)
  PROVE  /\ Hang(e)
         /\ Live(e) = Live(d) /\ Orphans(e) = Orphans(d) \ {n}
<1>1. n \in Nodes /\ d.kind[n] # "free" /\ d.parent[n] = Null
  BY OrphanAlone
<1>2. Live(e) = Live(d) /\ Orphans(e) = Orphans(d) \ {n}
  BY <1>1, Distinct DEF Live, Orphans, PlacedBetween
<1>3. ASSUME NEW S \in SUBSET Places, Hanging(e, S) PROVE Live(e) \subseteq S
  <2> DEFINE T == S \cup {n} \cup Below(d, n)
  <2>1. T \in SUBSET Places
    BY <1>1, Distinct DEF Below
  <2>2. Doc \in T /\ Orphans(d) \subseteq T
    BY <1>2, <1>3 DEF Hanging
  <2>3. ASSUME NEW m \in Nodes, d.parent[m] \in T PROVE m \in T
    <3>1. CASE d.parent[m] \in {n} \cup Below(d, n)
      <4>1. Kids(d, d.parent[m]) \subseteq Below(d, n)
        BY <1>1, <3>1, KidsBelow, Distinct
      <4> QED BY <4>1 DEF Kids
    <3>2. CASE d.parent[m] \in S
      <4>1. m # n
        BY <1>1, <2>1, <3>2, Distinct
      <4>2. e.parent[m] \in S
        BY <3>2, <4>1 DEF PlacedBetween
      <4> QED BY <1>3, <4>2 DEF Hanging
    <3> QED BY <2>3, <3>1, <3>2
  <2> HIDE DEF T
  <2>4. Live(d) \subseteq T
    BY <2>1, <2>2, <2>3 DEF LinkInv, Hang, Hanging
  <2>5. p \in T
    BY <2>2, <2>4 DEF Live, Places
  <2>6. p \in S
    BY <2>5 DEF T
  <2>7. n \in S
    BY <1>1, <1>3, <2>6 DEF Hanging, PlacedBetween
  <2>8. Orphans(d) \subseteq S
    BY <1>2, <1>3, <2>7 DEF Hanging
  <2>9. ASSUME NEW m \in Nodes, d.parent[m] \in S PROVE m \in S
    BY <1>3, <2>7, <2>9 DEF Hanging, PlacedBetween
  <2>10. Doc \in S
    BY <1>3 DEF Hanging
  <2>11. Live(d) \subseteq S
    BY <2>8, <2>9, <2>10 DEF LinkInv, Hang, Hanging
  <2> QED BY <1>2, <2>11
<1> QED BY <1>2, <1>3 DEF Hang

\* Placing an orphan in a gap keeps the tree in order, and it is no orphan then.
LEMMA PlaceKeeps ==
  ASSUME NEW d, NEW e, LinkInv(d), NEW n \in Orphans(d), NEW p \in Places, NEW l, NEW r,
         p # Doc => d.kind[p] # "free", p # n, p \notin Below(d, n),
         Gap(d, p, l, r), PlacedBetween(d, e, p, l, n, r)
  PROVE  /\ LinkInv(e)
         /\ Live(e) = Live(d) /\ Orphans(e) = Orphans(d) \ {n}
         /\ e.kind = d.kind /\ e.unlinked = d.unlinked /\ e.untracked = d.untracked
<1>1. Placed(e) /\ Firsts(e) /\ Lasts(e) /\ Sides(e) /\ Ends(e)
  BY PlaceLists
<1>2. Reach(e)
  BY PlaceReach
<1>3. Hang(e) /\ Live(e) = Live(d) /\ Orphans(e) = Orphans(d) \ {n}
  BY PlaceHang
<1> QED BY <1>1, <1>2, <1>3 DEF LinkInv, PlacedBetween

\* The three insertions, once the node has no place.
AtEnd(d, p, n) ==
  [d EXCEPT !.first[p] = IF d.last[p] = Null THEN n ELSE @,
            !.last[p] = n,
            !.next = Store(Store(@, d.last[p], n), n, Null),
            !.prev[n] = d.last[p],
            !.parent[n] = p]

AtFront(d, p, n) ==
  [d EXCEPT !.last[p] = IF d.first[p] = Null THEN n ELSE @,
            !.first[p] = n,
            !.prev = Store(Store(@, d.first[p], n), n, Null),
            !.next[n] = d.first[p],
            !.parent[n] = p]

Behind(d, p, after, n) ==
  [d EXCEPT !.prev = Store(Store(@, n, after), d.next[after], n),
            !.next = Store(Store(@, n, d.next[after]), after, n),
            !.parent[n] = p]

\* InsertEndChild places n after the last child of p.
LEMMA AtEndEffect ==
  ASSUME NEW d, LinkInv(d), NEW n \in Orphans(d), NEW p \in Places
  PROVE  /\ Gap(d, p, d.last[p], Null)
         /\ PlacedBetween(d, AtEnd(d, p, n), p, d.last[p], n, Null)
<1> DEFINE e == AtEnd(d, p, n)
           first == [d.first EXCEPT ![p] = IF d.last[p] = Null THEN n ELSE @]
           last == [d.last EXCEPT ![p] = n]
           next == Store(Store(d.next, d.last[p], n), n, Null)
           prev == [d.prev EXCEPT ![n] = d.last[p]]
           parent == [d.parent EXCEPT ![n] = p]
<1>1. /\ n \in Nodes /\ d.parent[n] = Null
      /\ \A m \in Nodes : d.next[m] # n /\ d.prev[m] # n
      /\ \A q \in Places : d.first[q] # n /\ d.last[q] # n
  BY OrphanAlone
<1>2. e = [d EXCEPT !.first = first, !.last = last, !.next = next, !.prev = prev, !.parent = parent]
  BY DEF AtEnd, IsDom, LinkInv
<1>3. /\ d.prev \in [Nodes -> Links] /\ d.next \in [Nodes -> Links]
      /\ d.first \in [Places -> Links] /\ d.last \in [Places -> Links]
      /\ n \in Links /\ Null \in Links /\ Null \notin Nodes /\ Nodes \subseteq Links
  BY <1>1, Distinct DEF LinkInv, IsDom, Links
<1>4. Gap(d, p, d.last[p], Null)
  BY <1>1, <1>3, Kinds, Distinct DEF LinkInv, Ends, Firsts, Lasts, Sides, Gap, Links
<1>5. /\ next \in [Nodes -> Links] /\ next[n] = Null
      /\ d.last[p] # Null => next[d.last[p]] = n
      /\ \A m \in Nodes \ {n} : m # d.last[p] => next[m] = d.next[m]
  BY <1>1, <1>3 DEF Store, Links
<1>6. /\ prev \in [Nodes -> Links] /\ prev[n] = d.last[p]
      /\ Null # Null => prev[Null] = n
      /\ \A m \in Nodes \ {n} : m # Null => prev[m] = d.prev[m]
  BY <1>1, <1>3 DEF Store, Links
<1>7. /\ first \in [Places -> Links] /\ last \in [Places -> Links]
      /\ d.last[p] = Null => first[p] = n
      /\ Null = Null => last[p] = n
      /\ \A q \in Places : q # p \/ d.last[p] # Null => first[q] = d.first[q]
      /\ \A q \in Places : q # p \/ Null # Null => last[q] = d.last[q]
  BY <1>1, <1>3
<1>8. /\ parent \in [Nodes -> Places \cup {Null}] /\ parent[n] = p
      /\ \A m \in Nodes \ {n} : parent[m] = d.parent[m]
  BY <1>1 DEF LinkInv, IsDom
<1> HIDE DEF first, last, next, prev, parent
<1>9. e = [kind |-> d.kind, name |-> d.name, attrs |-> d.attrs, parent |-> parent,
           prev |-> prev, next |-> next, first |-> first, last |-> last,
           unlinked |-> d.unlinked, untracked |-> d.untracked]
  BY <1>2 DEF LinkInv, IsDom
<1> HIDE DEF e
<1>10. IsDom(e)
  BY <1>5, <1>6, <1>7, <1>8, <1>9 DEF LinkInv, IsDom
<1>11. /\ e.kind = d.kind /\ e.unlinked = d.unlinked /\ e.untracked = d.untracked
       /\ e.first = first /\ e.last = last /\ e.next = next /\ e.prev = prev
       /\ e.parent = parent
  BY <1>9
<1>12. PlacedBetween(d, e, p, d.last[p], n, Null)
  BY <1>5, <1>6, <1>7, <1>8, <1>10, <1>11 DEF PlacedBetween
<1> QED BY <1>4, <1>12 DEF e

\* InsertFirstChild places n before the first child of p.
LEMMA AtFrontEffect ==
  ASSUME NEW d, LinkInv(d), NEW n \in Orphans(d), NEW p \in Places
  PROVE  /\ Gap(d, p, Null, d.first[p])
         /\ PlacedBetween(d, AtFront(d, p, n), p, Null, n, d.first[p])
<1> DEFINE e == AtFront(d, p, n)
           first == [d.first EXCEPT ![p] = n]
           last == [d.last EXCEPT ![p] = IF d.first[p] = Null THEN n ELSE @]
           next == [d.next EXCEPT ![n] = d.first[p]]
           prev == Store(Store(d.prev, d.first[p], n), n, Null)
           parent == [d.parent EXCEPT ![n] = p]
<1>1. /\ n \in Nodes /\ d.parent[n] = Null
      /\ \A m \in Nodes : d.next[m] # n /\ d.prev[m] # n
      /\ \A q \in Places : d.first[q] # n /\ d.last[q] # n
  BY OrphanAlone
<1>2. e = [d EXCEPT !.first = first, !.last = last, !.next = next, !.prev = prev, !.parent = parent]
  BY DEF AtFront, IsDom, LinkInv
<1>3. /\ d.prev \in [Nodes -> Links] /\ d.next \in [Nodes -> Links]
      /\ d.first \in [Places -> Links] /\ d.last \in [Places -> Links]
      /\ n \in Links /\ Null \in Links /\ Null \notin Nodes /\ Nodes \subseteq Links
  BY <1>1, Distinct DEF LinkInv, IsDom, Links
<1>4. Gap(d, p, Null, d.first[p])
  BY <1>1, <1>3, Kinds, Distinct DEF LinkInv, Ends, Firsts, Lasts, Sides, Gap, Links
<1>5. /\ next \in [Nodes -> Links] /\ next[n] = d.first[p]
      /\ Null # Null => next[Null] = n
      /\ \A m \in Nodes \ {n} : m # Null => next[m] = d.next[m]
  BY <1>1, <1>3 DEF Store, Links
<1>6. /\ prev \in [Nodes -> Links] /\ prev[n] = Null
      /\ d.first[p] # Null => prev[d.first[p]] = n
      /\ \A m \in Nodes \ {n} : m # d.first[p] => prev[m] = d.prev[m]
  BY <1>1, <1>3 DEF Store, Links
<1>7. /\ first \in [Places -> Links] /\ last \in [Places -> Links]
      /\ Null = Null => first[p] = n
      /\ d.first[p] = Null => last[p] = n
      /\ \A q \in Places : q # p \/ Null # Null => first[q] = d.first[q]
      /\ \A q \in Places : q # p \/ d.first[p] # Null => last[q] = d.last[q]
  BY <1>1, <1>3
<1>8. /\ parent \in [Nodes -> Places \cup {Null}] /\ parent[n] = p
      /\ \A m \in Nodes \ {n} : parent[m] = d.parent[m]
  BY <1>1 DEF LinkInv, IsDom
<1> HIDE DEF first, last, next, prev, parent
<1>9. e = [kind |-> d.kind, name |-> d.name, attrs |-> d.attrs, parent |-> parent,
           prev |-> prev, next |-> next, first |-> first, last |-> last,
           unlinked |-> d.unlinked, untracked |-> d.untracked]
  BY <1>2 DEF LinkInv, IsDom
<1> HIDE DEF e
<1>10. IsDom(e)
  BY <1>5, <1>6, <1>7, <1>8, <1>9 DEF LinkInv, IsDom
<1>11. /\ e.kind = d.kind /\ e.unlinked = d.unlinked /\ e.untracked = d.untracked
       /\ e.first = first /\ e.last = last /\ e.next = next /\ e.prev = prev
       /\ e.parent = parent
  BY <1>9
<1>12. PlacedBetween(d, e, p, Null, n, d.first[p])
  BY <1>5, <1>6, <1>7, <1>8, <1>10, <1>11 DEF PlacedBetween
<1> QED BY <1>4, <1>12 DEF e

\* InsertAfterChild places n between after and its next sibling.
LEMMA BehindEffect ==
  ASSUME NEW d, LinkInv(d), NEW n \in Orphans(d), NEW p \in Places,
         NEW after \in Nodes, d.parent[after] = p, d.next[after] # Null
  PROVE  /\ Gap(d, p, after, d.next[after])
         /\ PlacedBetween(d, Behind(d, p, after, n), p, after, n, d.next[after])
<1> DEFINE e == Behind(d, p, after, n)
           first == d.first
           last == d.last
           next == Store(Store(d.next, n, d.next[after]), after, n)
           prev == Store(Store(d.prev, n, after), d.next[after], n)
           parent == [d.parent EXCEPT ![n] = p]
<1>1. /\ n \in Nodes /\ d.parent[n] = Null
      /\ \A m \in Nodes : d.next[m] # n /\ d.prev[m] # n
      /\ \A q \in Places : d.first[q] # n /\ d.last[q] # n
  BY OrphanAlone
<1>2. e = [d EXCEPT !.first = first, !.last = last, !.next = next, !.prev = prev, !.parent = parent]
  BY DEF Behind, IsDom, LinkInv
<1>3. /\ d.prev \in [Nodes -> Links] /\ d.next \in [Nodes -> Links]
      /\ d.first \in [Places -> Links] /\ d.last \in [Places -> Links]
      /\ n \in Links /\ Null \in Links /\ Null \notin Nodes /\ Nodes \subseteq Links
  BY <1>1, Distinct DEF LinkInv, IsDom, Links
<1>4. Gap(d, p, after, d.next[after])
  BY <1>1, <1>3, Kinds, Distinct DEF LinkInv, Ends, Firsts, Lasts, Sides, Gap, Links
<1>5. after # n /\ after \in Links /\ d.next[after] \in Links
  BY <1>1, <1>3, Distinct
<1>6. /\ next \in [Nodes -> Links] /\ next[n] = d.next[after]
      /\ after # Null => next[after] = n
      /\ \A m \in Nodes \ {n} : m # after => next[m] = d.next[m]
  BY <1>1, <1>3, <1>5 DEF Store, Links
<1>7. /\ prev \in [Nodes -> Links] /\ prev[n] = after
      /\ d.next[after] # Null => prev[d.next[after]] = n
      /\ \A m \in Nodes \ {n} : m # d.next[after] => prev[m] = d.prev[m]
  BY <1>1, <1>3, <1>5 DEF Store, Links
<1>8. /\ first \in [Places -> Links] /\ last \in [Places -> Links]
      /\ after = Null => first[p] = n
      /\ d.next[after] = Null => last[p] = n
      /\ \A q \in Places : q # p \/ after # Null => first[q] = d.first[q]
      /\ \A q \in Places : q # p \/ d.next[after] # Null => last[q] = d.last[q]
  BY <1>1, <1>3
<1>9. /\ parent \in [Nodes -> Places \cup {Null}] /\ parent[n] = p
      /\ \A m \in Nodes \ {n} : parent[m] = d.parent[m]
  BY <1>1 DEF LinkInv, IsDom
<1> HIDE DEF first, last, next, prev, parent
<1>10. e = [kind |-> d.kind, name |-> d.name, attrs |-> d.attrs, parent |-> parent,
           prev |-> prev, next |-> next, first |-> first, last |-> last,
           unlinked |-> d.unlinked, untracked |-> d.untracked]
  BY <1>2 DEF LinkInv, IsDom
<1> HIDE DEF e
<1>11. IsDom(e)
  BY <1>6, <1>7, <1>8, <1>9, <1>10 DEF LinkInv, IsDom
<1>12. /\ e.kind = d.kind /\ e.unlinked = d.unlinked /\ e.untracked = d.untracked
       /\ e.first = first /\ e.last = last /\ e.next = next /\ e.prev = prev
       /\ e.parent = parent
  BY <1>10
<1>13. PlacedBetween(d, e, p, after, n, d.next[after])
  BY <1>6, <1>7, <1>8, <1>9, <1>11, <1>12 DEF PlacedBetween
<1> QED BY <1>4, <1>13 DEF e

\* d and e have the same nodes in the same places.
SameTree(d, e) ==
  /\ IsDom(e)
  /\ e.kind = d.kind /\ e.parent = d.parent /\ e.prev = d.prev /\ e.next = d.next
  /\ e.first = d.first /\ e.last = d.last

\* What names, attributes and counts hold does not matter to the tree.
LEMMA SameTreeKeeps ==
  ASSUME NEW d, NEW e, LinkInv(d), SameTree(d, e)
  PROVE  /\ LinkInv(e) /\ Live(e) = Live(d) /\ Orphans(e) = Orphans(d)
         /\ \A n \in Places : Below(e, n) = Below(d, n)
<1>1. Live(e) = Live(d) /\ Orphans(e) = Orphans(d)
  BY DEF SameTree, Live, Orphans
<1>2. Placed(e) /\ Firsts(e) /\ Lasts(e) /\ Sides(e) /\ Ends(e)
  BY DEF SameTree, LinkInv, Placed, Firsts, Lasts, Sides, Ends
<1>3. Reach(e)
  BY DEF SameTree, LinkInv, Reach, Chained, Kids
<1>4. Hang(e)
  BY <1>1 DEF SameTree, LinkInv, Hang, Hanging
<1>5. \A n \in Places : Below(e, n) = Below(d, n)
  BY DEF SameTree, Below
<1> QED BY <1>1, <1>2, <1>3, <1>4, <1>5 DEF LinkInv, SameTree

\* s holds the nodes of O, each once.
Enumerates(s, O) ==
  /\ s \in Seq(Nodes)
  /\ \A n \in Nodes : n \in O <=> \E i \in 1 .. Len(s) : s[i] = n
  /\ \A i, j \in 1 .. Len(s) : s[i] = s[j] => i = j

\* The entries of a sequence after SwapRemove.
LEMMA SwapRemoveElements ==
  ASSUME NEW s \in Seq(Nodes), NEW i \in 1 .. Len(s)
  PROVE  /\ SwapRemove(s, i) \in Seq(Nodes) /\ Len(SwapRemove(s, i)) = Len(s) - 1
         /\ i < Len(s) => SwapRemove(s, i)[i] = s[Len(s)]
         /\ \A j \in 1 .. Len(s) - 1 : j # i => SwapRemove(s, i)[j] = s[j]
<1> DEFINE t == [s EXCEPT ![i] = Last(s)]
<1>1. Len(s) \in Nat /\ Last(s) \in Nodes
  BY DEF Last
<1>2. t \in Seq(Nodes) /\ Len(t) = Len(s) /\ t[i] = Last(s)
      /\ \A j \in 1 .. Len(s) : j # i => t[j] = s[j]
  BY <1>1
<1> HIDE DEF t
<1>3. SwapRemove(s, i) = SubSeq(t, 1, Len(t) - 1)
  BY DEF SwapRemove, Front, t
<1>4. /\ SwapRemove(s, i) \in Seq(Nodes) /\ Len(SwapRemove(s, i)) = Len(s) - 1
      /\ \A j \in 1 .. Len(s) - 1 : SwapRemove(s, i)[j] = t[j]
  BY <1>1, <1>2, <1>3
<1> QED BY <1>1, <1>2, <1>4 DEF Last

\* SwapRemove takes one node out of an enumeration.
LEMMA SwapRemoveEnumerates ==
  ASSUME NEW s, NEW O, Enumerates(s, O), NEW i \in 1 .. Len(s)
  PROVE  Enumerates(SwapRemove(s, i), O \ {s[i]})
<1> DEFINE t == SwapRemove(s, i)
<1>1. s \in Seq(Nodes) /\ Len(s) \in Nat
  BY DEF Enumerates
<1>2. /\ t \in Seq(Nodes) /\ Len(t) = Len(s) - 1
      /\ i < Len(s) => t[i] = s[Len(s)]
      /\ \A j \in 1 .. Len(s) - 1 : j # i => t[j] = s[j]
  BY <1>1, SwapRemoveElements
<1> HIDE DEF t
<1>3. \A j, k \in 1 .. Len(t) : t[j] = t[k] => j = k
  <2> SUFFICES ASSUME NEW j \in 1 .. Len(t), NEW k \in 1 .. Len(t), t[j] = t[k], j # k
               PROVE  FALSE
    OBVIOUS
  <2>1. j \in 1 .. Len(s) /\ k \in 1 .. Len(s) /\ Len(s) \in 1 .. Len(s) /\ j # Len(s) /\ k # Len(s)
    BY <1>1, <1>2
  <2>2. CASE j = i
    BY <1>2, <2>1, <2>2 DEF Enumerates
  <2>3. CASE k = i
    BY <1>2, <2>1, <2>3 DEF Enumerates
  <2>4. CASE j # i /\ k # i
    BY <1>2, <2>1, <2>4 DEF Enumerates
  <2> QED BY <2>2, <2>3, <2>4
<1>4. ASSUME NEW n \in Nodes, n \in O \ {s[i]} PROVE \E j \in 1 .. Len(t) : t[j] = n
  <2>1. PICK j \in 1 .. Len(s) : s[j] = n
    BY <1>4 DEF Enumerates
  <2>2. j # i
    BY <1>4, <2>1
  <2>3. CASE j = Len(s)
    <3>1. i \in 1 .. Len(t) /\ t[i] = n
      BY <1>1, <1>2, <2>1, <2>2, <2>3
    <3> QED BY <3>1
  <2>4. CASE j # Len(s)
    <3>1. j \in 1 .. Len(t) /\ t[j] = n
      BY <1>1, <1>2, <2>1, <2>2, <2>4
    <3> QED BY <3>1
  <2> QED BY <2>3, <2>4
<1>5. ASSUME NEW j \in 1 .. Len(t) PROVE t[j] \in O \ {s[i]}
  <2>1. j \in 1 .. Len(s) /\ Len(s) \in 1 .. Len(s) /\ j # Len(s)
    BY <1>1, <1>2
  <2>2. \A k \in 1 .. Len(s) : s[k] \in O
    BY <1>1 DEF Enumerates
  <2>3. CASE j = i
    BY <1>2, <2>1, <2>2, <2>3 DEF Enumerates
  <2>4. CASE j # i
    BY <1>2, <2>1, <2>2, <2>4 DEF Enumerates
  <2> QED BY <2>3, <2>4
<1>6. \A n \in Nodes : n \in O \ {s[i]} <=> \E j \in 1 .. Len(t) : t[j] = n
  BY <1>4, <1>5
<1> QED BY <1>2, <1>3, <1>6 DEF Enumerates, t

\* Append adds one node to an enumeration.
LEMMA AppendEnumerates ==
  ASSUME NEW s, NEW O, Enumerates(s, O), NEW n \in Nodes, n \notin O
  PROVE  Enumerates(Append(s, n), O \cup {n})
<1> DEFINE t == Append(s, n)
<1>1. s \in Seq(Nodes) /\ Len(s) \in Nat
  BY DEF Enumerates
<1>2. /\ t \in Seq(Nodes) /\ Len(t) = Len(s) + 1 /\ t[Len(t)] = n
      /\ \A j \in 1 .. Len(s) : t[j] = s[j]
  BY <1>1
<1> HIDE DEF t
<1>3. \A k \in 1 .. Len(s) : s[k] \in O
  BY <1>1 DEF Enumerates
<1>4. \A j, k \in 1 .. Len(t) : t[j] = t[k] => j = k
  <2> SUFFICES ASSUME NEW j \in 1 .. Len(t), NEW k \in 1 .. Len(t), t[j] = t[k]
               PROVE  j = k
    OBVIOUS
  <2>1. CASE j \in 1 .. Len(s) /\ k \in 1 .. Len(s)
    BY <1>2, <2>1 DEF Enumerates
  <2>2. CASE j \notin 1 .. Len(s) /\ k \in 1 .. Len(s)
    BY <1>1, <1>2, <1>3, <2>2
  <2>3. CASE j \in 1 .. Len(s) /\ k \notin 1 .. Len(s)
    BY <1>1, <1>2, <1>3, <2>3
  <2>4. CASE j \notin 1 .. Len(s) /\ k \notin 1 .. Len(s)
    BY <1>1, <1>2, <2>4
  <2> QED BY <2>1, <2>2, <2>3, <2>4
<1>5. ASSUME NEW m \in Nodes PROVE m \in O \cup {n} <=> \E j \in 1 .. Len(t) : t[j] = m
  <2>1. ASSUME m \in O PROVE \E j \in 1 .. Len(t) : t[j] = m
    <3>1. PICK j \in 1 .. Len(s) : s[j] = m
      BY <2>1 DEF Enumerates
    <3>2. j \in 1 .. Len(t) /\ t[j] = m
      BY <1>1, <1>2, <3>1
    <3> QED BY <3>2
  <2>2. Len(t) \in 1 .. Len(t) /\ t[Len(t)] = n
    BY <1>1, <1>2
  <2>3. ASSUME NEW j \in 1 .. Len(t), t[j] = m PROVE m \in O \cup {n}
    <3>1. j \in 1 .. Len(s) \/ j = Len(t)
      BY <1>1, <1>2
    <3> QED BY <1>2, <1>3, <2>3, <3>1
  <2> QED BY <2>1, <2>2, <2>3
<1> QED BY <1>2, <1>4, <1>5 DEF Enumerates, t

\* The pools count the nodes of O as untracked, and no others.
OfPool(kind, O, pool) == {n \in O : PoolOf(kind[n]) = pool}

\* Each pool counts as untracked its nodes in O, and no others.
Counted(d, O) == \A pool \in Pools :
  d.untracked[pool] = Cardinality(OfPool(d.kind, O, pool))

\* There are finitely many nodes.
LEMMA NodesFinite == IsFiniteSet(Nodes) /\ \A S \in SUBSET Nodes : IsFiniteSet(S)
<1>1. IsFiniteSet(Nodes)
  BY FS_Interval, TreeAssumption DEF Nodes
<1> QED BY <1>1, FS_Subset

\* Every kind of node has a pool.
LEMMA PoolOfKind == \A kind \in NodeKinds : PoolOf(kind) \in Pools
BY DEF PoolOf, NodeKinds, Pools

\* One node of a pool more, or less, is one untracked allocation more or less.
LEMMA CountOne ==
  ASSUME NEW kind, NEW O \in SUBSET Nodes, NEW n \in Nodes, n \notin O, NEW pool
  PROVE  LET S == OfPool(kind, O, pool)
             T == OfPool(kind, O \cup {n}, pool)
         IN  /\ Cardinality(S) \in Nat
             /\ PoolOf(kind[n]) = pool => Cardinality(T) = Cardinality(S) + 1
             /\ PoolOf(kind[n]) # pool => Cardinality(T) = Cardinality(S)
<1> DEFINE S == OfPool(kind, O, pool)
           T == OfPool(kind, O \cup {n}, pool)
<1>1. IsFiniteSet(S) /\ n \notin S
  BY NodesFinite DEF OfPool
<1>2. PoolOf(kind[n]) = pool => T = S \cup {n}
  BY DEF OfPool
<1>3. PoolOf(kind[n]) # pool => T = S
  BY DEF OfPool
<1> HIDE DEF S, T
<1>4. Cardinality(S) \in Nat /\ Cardinality(S \cup {n}) = Cardinality(S) + 1
  BY <1>1, FS_AddElement, FS_CardinalityType
<1>5. /\ Cardinality(S) \in Nat
      /\ PoolOf(kind[n]) = pool => Cardinality(T) = Cardinality(S) + 1
      /\ PoolOf(kind[n]) # pool => Cardinality(T) = Cardinality(S)
  BY <1>2, <1>3, <1>4
<1> QED BY <1>5 DEF S, T

\* MarkInUse takes n from _unlinked if it is there, and does no more.
LEMMA MarkInUseKeeps ==
  ASSUME NEW d, LinkInv(d), NEW O \in SUBSET Nodes, Enumerates(d.unlinked, O), NEW n \in Nodes
  PROVE  LET e == MarkInUse(d, n)
         IN  /\ SameTree(d, e) /\ e.untracked = d.untracked
             /\ Enumerates(e.unlinked, O \ {n})
             /\ n \notin O => e = d
<1>1. IsDom(d)
  BY DEF LinkInv
<1>2. CASE n \notin O
  <2>1. ~Contains(d.unlinked, n)
    BY <1>2 DEF Contains, Enumerates
  <2>2. MarkInUse(d, n) = d /\ O \ {n} = O
    BY <1>2, <2>1 DEF MarkInUse
  <2> QED BY <1>1, <2>2 DEF SameTree
<1>3. CASE n \in O
  <2> DEFINE i == CHOOSE i \in DOMAIN d.unlinked : d.unlinked[i] = n
             t == SwapRemove(d.unlinked, i)
             e == MarkInUse(d, n)
  <2>1. Contains(d.unlinked, n) /\ \E j \in 1 .. Len(d.unlinked) : d.unlinked[j] = n
    BY <1>3 DEF Contains, Enumerates
  <2>2. DOMAIN d.unlinked = 1 .. Len(d.unlinked)
    BY DEF Enumerates
  <2>3. i \in 1 .. Len(d.unlinked) /\ d.unlinked[i] = n
    BY <2>1, <2>2
  <2>4. e = [d EXCEPT !.unlinked = t]
    BY <2>1 DEF MarkInUse
  <2> HIDE DEF i
  <2>5. Enumerates(t, O \ {n})
    BY <2>3, SwapRemoveEnumerates
  <2> HIDE DEF t
  <2>6. e = [kind |-> d.kind, name |-> d.name, attrs |-> d.attrs, parent |-> d.parent,
             prev |-> d.prev, next |-> d.next, first |-> d.first, last |-> d.last,
             unlinked |-> t, untracked |-> d.untracked]
    BY <1>1, <2>4 DEF IsDom
  <2> HIDE DEF e
  <2>7. IsDom(e)
    BY <1>1, <2>5, <2>6 DEF IsDom, Enumerates
  <2>8. SameTree(d, e) /\ e.untracked = d.untracked /\ e.unlinked = t
    BY <2>6, <2>7 DEF SameTree
  <2> QED BY <1>3, <2>5, <2>8 DEF e
<1> QED BY <1>2, <1>3

\* SetTracked keeps the tree, and counts one node of the pool less.
LEMMA SetTrackedKeeps ==
  ASSUME NEW d, LinkInv(d), NEW n \in Live(d)
  PROVE  LET e == SetTracked(d, n)
         IN  /\ SameTree(d, e) /\ e.unlinked = d.unlinked
             /\ \A O \in SUBSET Nodes : n \in O /\ Counted(d, O) => Counted(e, O \ {n})
<1> DEFINE e == SetTracked(d, n)
           pool0 == PoolOf(d.kind[n])
           u == [d.untracked EXCEPT ![pool0] = @ - 1]
<1>1. IsDom(d) /\ n \in Nodes /\ d.kind[n] \in NodeKinds /\ pool0 \in Pools
  BY PoolOfKind DEF LinkInv, IsDom, Live
<1>2. e = [d EXCEPT !.untracked = u]
  BY DEF SetTracked
<1>3. u \in [Pools -> Int] /\ u[pool0] = d.untracked[pool0] - 1
      /\ \A pool \in Pools : pool # pool0 => u[pool] = d.untracked[pool]
  BY <1>1 DEF IsDom
<1> HIDE DEF u
<1>4. e = [kind |-> d.kind, name |-> d.name, attrs |-> d.attrs, parent |-> d.parent,
           prev |-> d.prev, next |-> d.next, first |-> d.first, last |-> d.last,
           unlinked |-> d.unlinked, untracked |-> u]
  BY <1>1, <1>2 DEF IsDom
<1> HIDE DEF e
<1>5. IsDom(e)
  BY <1>1, <1>3, <1>4 DEF IsDom
<1>6. SameTree(d, e) /\ e.unlinked = d.unlinked /\ e.untracked = u /\ e.kind = d.kind
  BY <1>4, <1>5 DEF SameTree
<1>7. ASSUME NEW O \in SUBSET Nodes, n \in O, Counted(d, O) PROVE Counted(e, O \ {n})
  <2> SUFFICES ASSUME NEW pool \in Pools
               PROVE  e.untracked[pool] = Cardinality(OfPool(e.kind, O \ {n}, pool))
    BY DEF Counted
  <2> DEFINE P == O \ {n}
             S == OfPool(d.kind, P, pool)
             T == OfPool(d.kind, P \cup {n}, pool)
  <2>1. P \cup {n} = O /\ n \notin P /\ P \in SUBSET Nodes
    BY <1>7
  <2> HIDE DEF P
  <2>2. /\ Cardinality(S) \in Nat
        /\ pool0 = pool => Cardinality(T) = Cardinality(S) + 1
        /\ pool0 # pool => Cardinality(T) = Cardinality(S)
    BY <1>1, <2>1, CountOne
  <2>3. d.untracked[pool] = Cardinality(T)
    BY <1>7, <2>1 DEF Counted
  <2> HIDE DEF S, T
  <2>4. u[pool] = Cardinality(S)
    BY <1>3, <2>2, <2>3
  <2> QED BY <1>6, <2>4 DEF S, P
<1> QED BY <1>6, <1>7 DEF e

\* The tree is in order, and _unlinked holds exactly the nodes without a place.
Held(d) == LinkInv(d) /\ Enumerates(d.unlinked, Orphans(d))

\* n is an orphan that _unlinked does not hold: it is being placed or deleted.
HeldBut(d, n) ==
  /\ LinkInv(d) /\ n \in Orphans(d)
  /\ Enumerates(d.unlinked, Orphans(d) \ {n})

\* The counts depend on the kinds of the nodes only.
LEMMA CountedSame ==
  ASSUME NEW d, NEW e, e.kind = d.kind, e.untracked = d.untracked, NEW O, Counted(d, O)
  PROVE  Counted(e, O)
BY DEF Counted

\* InsertChildPreamble leaves n without a place, out of _unlinked and tracked,
\* wherever n was before.
LEMMA Preamble ==
  ASSUME NEW b, Held(b), NEW n \in Live(b)
  PROVE  LET d == InsertChildPreamble(b, n)
         IN  /\ HeldBut(d, n)
             /\ Live(d) = Live(b) /\ Orphans(d) = Orphans(b) \cup {n} /\ d.kind = b.kind
             /\ Below(d, n) \subseteq Below(b, n)
             /\ Counted(b, Orphans(b)) => Counted(d, Orphans(d) \ {n})
             /\ \A a \in Nodes \ {n} : d.parent[a] = b.parent[a]
<1>1. LinkInv(b) /\ IsDom(b) /\ n \in Nodes /\ n \in Places /\ b.parent[n] \in Places \cup {Null}
      /\ Orphans(b) \in SUBSET Nodes /\ Enumerates(b.unlinked, Orphans(b))
  BY Kinds, Distinct DEF Held, LinkInv, Live, Orphans
<1>2. CASE b.parent[n] # Null
  <2> DEFINE d == Unlink(b, n)
  <2>1. InsertChildPreamble(b, n) = d
    BY <1>2 DEF InsertChildPreamble
  <2>2. b.parent[n] \in Places
    BY <1>1, <1>2
  <2>3. LinkInv(d) /\ Unlinks(b, d, n)
    BY <1>1, <2>2, UnlinkKeeps
  <2> HIDE DEF d
  <2>4. Live(d) = Live(b) /\ Orphans(d) = Orphans(b) \cup {n} /\ n \notin Orphans(b)
    BY <1>1, <2>2, <2>3, UnlinkOrphans
  <2>5. Below(d, n) \subseteq Below(b, n)
    BY <1>1, <2>2, <2>3, UnlinkBelow
  <2>6. Orphans(d) \ {n} = Orphans(b)
    BY <2>4
  <2>7. /\ d.kind = b.kind /\ d.untracked = b.untracked /\ d.unlinked = b.unlinked
        /\ \A a \in Nodes \ {n} : d.parent[a] = b.parent[a]
    BY <2>3 DEF Unlinks
  <2>8. Counted(b, Orphans(b)) => Counted(d, Orphans(d) \ {n})
    BY <2>6, <2>7, CountedSame
  <2> QED BY <1>1, <2>1, <2>3, <2>4, <2>5, <2>6, <2>7, <2>8 DEF HeldBut
<1>3. CASE b.parent[n] = Null
  <2> DEFINE c == MarkInUse(b, n)
             d == SetTracked(c, n)
  <2>1. InsertChildPreamble(b, n) = d /\ n \in Orphans(b)
    BY <1>3 DEF InsertChildPreamble, Orphans
  <2>2. SameTree(b, c) /\ c.untracked = b.untracked /\ Enumerates(c.unlinked, Orphans(b) \ {n})
    BY <1>1, MarkInUseKeeps
  <2> HIDE DEF c
  <2>3. LinkInv(c) /\ Live(c) = Live(b) /\ Orphans(c) = Orphans(b) /\ Below(c, n) = Below(b, n)
    BY <1>1, <2>2, SameTreeKeeps
  <2>4. SameTree(c, d) /\ d.unlinked = c.unlinked
        /\ (Counted(c, Orphans(b)) => Counted(d, Orphans(b) \ {n}))
    BY <1>1, <2>1, <2>3, SetTrackedKeeps
  <2> HIDE DEF d
  <2>5. LinkInv(d) /\ Live(d) = Live(b) /\ Orphans(d) = Orphans(b) /\ Below(d, n) = Below(b, n)
    BY <1>1, <2>3, <2>4, SameTreeKeeps
  <2>6. d.kind = b.kind /\ d.parent = b.parent /\ c.kind = b.kind
    BY <2>2, <2>4 DEF SameTree
  <2>7. Counted(b, Orphans(b)) => Counted(d, Orphans(d) \ {n})
    BY <2>2, <2>4, <2>5, <2>6, CountedSame
  <2>8. Orphans(d) = Orphans(b) \cup {n}
    BY <2>1, <2>5
  <2> QED BY <2>1, <2>2, <2>4, <2>5, <2>6, <2>7, <2>8 DEF HeldBut
<1> QED BY <1>2, <1>3

\* A node that has been placed: it is no orphan any more, and all else that
\* _unlinked and the pools say stands.
Inserted(b, e, n) ==
  /\ Held(e)
  /\ Live(e) = Live(b) /\ Orphans(e) = Orphans(b) \ {n} /\ e.kind = b.kind
  /\ Counted(b, Orphans(b)) => Counted(e, Orphans(e))

\* p is a place for n: live, and neither n nor below it.
PlaceFor(b, p, n) ==
  p \in Places /\ (p # Doc => b.kind[p] # "free") /\ p # n /\ p \notin Below(b, n)

\* After the preamble, placing n in a gap completes the insertion.
LEMMA PlacedHeld ==
  ASSUME NEW b, NEW d, NEW e, NEW n, NEW p, NEW l, NEW r,
         HeldBut(d, n), Live(d) = Live(b), Orphans(d) = Orphans(b) \cup {n}, d.kind = b.kind,
         Below(d, n) \subseteq Below(b, n),
         Counted(b, Orphans(b)) => Counted(d, Orphans(d) \ {n}),
         PlaceFor(b, p, n), Gap(d, p, l, r), PlacedBetween(d, e, p, l, n, r)
  PROVE  Inserted(b, e, n)
<1>1. p \in Places /\ (p # Doc => d.kind[p] # "free") /\ p # n /\ p \notin Below(d, n)
  BY DEF PlaceFor
<1>2. LinkInv(d) /\ n \in Orphans(d)
  BY DEF HeldBut
<1>3. /\ LinkInv(e)
      /\ Live(e) = Live(d) /\ Orphans(e) = Orphans(d) \ {n}
      /\ e.kind = d.kind /\ e.unlinked = d.unlinked /\ e.untracked = d.untracked
  BY <1>1, <1>2, PlaceKeeps
<1>4. Held(e)
  BY <1>3 DEF Held, HeldBut
<1>5. Counted(b, Orphans(b)) => Counted(e, Orphans(e))
  BY <1>3, CountedSame
<1> QED BY <1>3, <1>4, <1>5 DEF Inserted

\* InsertEndChild places n: _unlinked and the pools stay exact.
LEMMA EndInserted ==
  ASSUME NEW b, Held(b), NEW n \in Live(b), NEW p, PlaceFor(b, p, n)
  PROVE  Inserted(b, InsertEndChild(b, p, n), n)
<1> DEFINE d == InsertChildPreamble(b, n)
           e == InsertEndChild(b, p, n)
<1>1. e = AtEnd(d, p, n)
  BY DEF InsertEndChild, AtEnd
<1>2. /\ HeldBut(d, n)
      /\ Live(d) = Live(b) /\ Orphans(d) = Orphans(b) \cup {n} /\ d.kind = b.kind
      /\ Below(d, n) \subseteq Below(b, n)
      /\ Counted(b, Orphans(b)) => Counted(d, Orphans(d) \ {n})
  BY Preamble
<1> HIDE DEF d, e
<1>3. Gap(d, p, d.last[p], Null) /\ PlacedBetween(d, e, p, d.last[p], n, Null)
  BY <1>1, <1>2, AtEndEffect DEF HeldBut, PlaceFor
<1>4. Inserted(b, e, n)
  BY <1>2, <1>3, PlacedHeld
<1> QED BY <1>4 DEF e

\* InsertFirstChild places n: _unlinked and the pools stay exact.
LEMMA FirstInserted ==
  ASSUME NEW b, Held(b), NEW n \in Live(b), NEW p, PlaceFor(b, p, n)
  PROVE  Inserted(b, InsertFirstChild(b, p, n), n)
<1> DEFINE d == InsertChildPreamble(b, n)
           e == InsertFirstChild(b, p, n)
<1>1. e = AtFront(d, p, n)
  BY DEF InsertFirstChild, AtFront
<1>2. /\ HeldBut(d, n)
      /\ Live(d) = Live(b) /\ Orphans(d) = Orphans(b) \cup {n} /\ d.kind = b.kind
      /\ Below(d, n) \subseteq Below(b, n)
      /\ Counted(b, Orphans(b)) => Counted(d, Orphans(d) \ {n})
  BY Preamble
<1> HIDE DEF d, e
<1>3. Gap(d, p, Null, d.first[p]) /\ PlacedBetween(d, e, p, Null, n, d.first[p])
  BY <1>1, <1>2, AtFrontEffect DEF HeldBut, PlaceFor
<1>4. Inserted(b, e, n)
  BY <1>2, <1>3, PlacedHeld
<1> QED BY <1>4 DEF e

\* InsertAfterChild places n or, asked to place n after itself, does nothing.
LEMMA AfterInserted ==
  ASSUME NEW b, Held(b), NEW n \in Live(b), NEW after \in Nodes,
         PlaceFor(b, b.parent[after], n), ~InsertsThroughNull(b, after, n)
  PROVE  LET e == InsertAfterChild(b, b.parent[after], after, n)
         IN  e = b \/ Inserted(b, e, n)
<1> DEFINE p == b.parent[after]
           d == InsertChildPreamble(b, n)
           e == InsertAfterChild(b, p, after, n)
<1>1. CASE after = n
  BY <1>1 DEF InsertAfterChild
<1>2. CASE after # n /\ b.next[after] = Null
  <2>1. e = InsertEndChild(b, p, n)
    BY <1>2 DEF InsertAfterChild
  <2> HIDE DEF p
  <2>2. Inserted(b, e, n)
    BY <2>1, EndInserted DEF p
  <2> QED BY <2>2 DEF p
<1>3. CASE after # n /\ b.next[after] # Null
  <2>1. e = Behind(d, p, after, n)
    BY <1>3 DEF InsertAfterChild, Behind
  <2>2. d.next[after] # Null
    BY <1>3 DEF InsertsThroughNull
  <2>3. /\ HeldBut(d, n)
        /\ Live(d) = Live(b) /\ Orphans(d) = Orphans(b) \cup {n} /\ d.kind = b.kind
        /\ Below(d, n) \subseteq Below(b, n)
        /\ Counted(b, Orphans(b)) => Counted(d, Orphans(d) \ {n})
        /\ \A a \in Nodes \ {n} : d.parent[a] = b.parent[a]
    BY Preamble
  <2>4. d.parent[after] = p
    BY <1>3, <2>3
  <2> HIDE DEF d, e, p
  <2>5. p \in Places /\ PlaceFor(b, p, n)
    BY DEF PlaceFor, p
  <2>6. Gap(d, p, after, d.next[after]) /\ PlacedBetween(d, e, p, after, n, d.next[after])
    BY <2>1, <2>2, <2>3, <2>4, <2>5, BehindEffect DEF HeldBut
  <2>7. Inserted(b, e, n)
    BY <2>3, <2>5, <2>6, PlacedHeld
  <2> QED BY <2>7 DEF e, p
<1> QED BY <1>1, <1>2, <1>3

-----------------------------------------------------------------------------
(* Creating and deleting. *)

\* A node that is created was free.
LEMMA FreshIsFree ==
  ASSUME NEW d, HasRoom(d, 1)
  PROVE  Fresh(d) \in Nodes \ Live(d)
<1> DEFINE F == Nodes \ Live(d)
<1>1. F \subseteq Nat
  BY DEF Nodes
<1>2. F # {}
  <2>1. Cardinality(F) >= 1
    BY DEF HasRoom
  <2>2. Cardinality({}) = 0
    BY FS_EmptySet
  <2> HIDE DEF F
  <2> QED BY <2>1, <2>2
<1> HIDE DEF F
<1>3. \E n \in F : \A m \in F : n <= m
  BY <1>1, <1>2, Least
<1> QED BY <1>3 DEF Fresh, F

\* What CreateUnlinkedNode leaves, and what it leaves with the attributes that
\* an element is created with.
Created(d, e, n, kind) ==
  /\ n \notin Live(d) /\ n \in Orphans(e)
  /\ Held(e)
  /\ Live(e) = Live(d) \cup {n} /\ Orphans(e) = Orphans(d) \cup {n}
  /\ \A p \in Places : p # Doc /\ d.kind[p] # "free" => e.kind[p] # "free" /\ p # n
  /\ e.first = d.first /\ e.next = d.next
  /\ Counted(d, Orphans(d)) => Counted(e, Orphans(e))

\* A node that is created is an orphan, in _unlinked, and counted untracked.
LEMMA CreateHeld ==
  ASSUME NEW d, Held(d), HasRoom(d, 1), NEW kind \in NodeKinds, NEW name
  PROVE  Created(d, CreateUnlinkedNode(d, kind, name), Fresh(d), kind)
<1> DEFINE n == Fresh(d)
           e == CreateUnlinkedNode(d, kind, name)
           pool0 == PoolOf(kind)
           kinds == [d.kind EXCEPT ![n] = kind]
           u == [d.untracked EXCEPT ![pool0] = @ + 1]
           q == Append(d.unlinked, n)
           names == [d.name EXCEPT ![n] = name]
<1>1. n \in Nodes /\ n \notin Live(d)
  BY FreshIsFree
<1> HIDE DEF n
<1>2. LinkInv(d) /\ IsDom(d) /\ Enumerates(d.unlinked, Orphans(d)) /\ n \notin Orphans(d)
      /\ Orphans(d) \in SUBSET Nodes
  BY <1>1 DEF Held, LinkInv, Orphans, Live
<1>3. e = [d EXCEPT !.kind = kinds, !.name = names, !.unlinked = q, !.untracked = u]
  BY DEF CreateUnlinkedNode, n
<1>4. /\ kinds \in [Nodes -> NodeKinds \cup {"free"}] /\ kinds[n] = kind /\ kind # "free"
      /\ \A m \in Nodes : m # n => kinds[m] = d.kind[m]
  BY <1>1, <1>2 DEF IsDom, NodeKinds
<1>5. /\ pool0 \in Pools /\ u \in [Pools -> Int] /\ u[pool0] = d.untracked[pool0] + 1
      /\ \A pool \in Pools : pool # pool0 => u[pool] = d.untracked[pool]
  BY <1>2, PoolOfKind DEF IsDom
<1>6. Enumerates(q, Orphans(d) \cup {n})
  BY <1>1, <1>2, AppendEnumerates
<1> HIDE DEF kinds, u, q, names
<1>7. e = [kind |-> kinds, name |-> names, attrs |-> d.attrs, parent |-> d.parent,
           prev |-> d.prev, next |-> d.next, first |-> d.first, last |-> d.last,
           unlinked |-> q, untracked |-> u]
  BY <1>2, <1>3 DEF IsDom
<1> HIDE DEF e
<1>8. IsDom(e)
  BY <1>2, <1>4, <1>5, <1>6, <1>7 DEF IsDom, Enumerates
<1>9. /\ e.kind = kinds /\ e.parent = d.parent /\ e.prev = d.prev /\ e.next = d.next
      /\ e.first = d.first /\ e.last = d.last /\ e.unlinked = q /\ e.untracked = u
  BY <1>7
<1>10. d.parent[n] = Null
  BY <1>1, <1>2 DEF LinkInv, Placed, Live
<1>11. Live(e) = Live(d) \cup {n}
  BY <1>1, <1>4, <1>9 DEF Live
<1>12. Orphans(e) = Orphans(d) \cup {n}
  BY <1>9, <1>10, <1>11 DEF Orphans
<1>13. Placed(e)
  BY <1>2, <1>4, <1>9 DEF LinkInv, Placed
<1>14. Firsts(e) /\ Lasts(e) /\ Sides(e) /\ Ends(e)
  BY <1>2, <1>9 DEF LinkInv, Firsts, Lasts, Sides, Ends
<1>15. Reach(e)
  BY <1>2, <1>9 DEF LinkInv, Reach, Chained, Kids
<1>16. Hang(e)
  <2> SUFFICES ASSUME NEW S \in SUBSET Places, Hanging(e, S) PROVE Live(e) \subseteq S
    BY DEF Hang
  <2>1. Hanging(d, S) /\ n \in S
    BY <1>9, <1>12 DEF Hanging
  <2>2. Live(d) \subseteq S
    BY <1>2, <2>1 DEF LinkInv, Hang
  <2> QED BY <1>11, <2>1, <2>2
<1>17. Held(e)
  BY <1>6, <1>8, <1>9, <1>12, <1>13, <1>14, <1>15, <1>16 DEF Held, LinkInv
<1>18. ASSUME Counted(d, Orphans(d)) PROVE Counted(e, Orphans(e))
  <2> SUFFICES ASSUME NEW pool \in Pools
               PROVE  u[pool] = Cardinality(OfPool(kinds, Orphans(d) \cup {n}, pool))
    BY <1>9, <1>12 DEF Counted
  <2>1. OfPool(kinds, Orphans(d), pool) = OfPool(d.kind, Orphans(d), pool)
    BY <1>2, <1>4 DEF OfPool
  <2>2. d.untracked[pool] = Cardinality(OfPool(kinds, Orphans(d), pool))
    BY <1>18, <2>1 DEF Counted
  <2> DEFINE s == Cardinality(OfPool(kinds, Orphans(d), pool))
             t == Cardinality(OfPool(kinds, Orphans(d) \cup {n}, pool))
  <2>3. /\ s \in Nat
        /\ PoolOf(kinds[n]) = pool => t = s + 1
        /\ PoolOf(kinds[n]) # pool => t = s
    BY <1>1, <1>2, CountOne
  <2> HIDE DEF s, t
  <2>4. u[pool] = t
    BY <1>4, <1>5, <2>2, <2>3 DEF s
  <2> QED BY <2>4 DEF t
<1>19. \A p \in Places : p # Doc /\ d.kind[p] # "free" => e.kind[p] # "free" /\ p # n
  BY <1>1, <1>4, <1>9 DEF Places, Live
<1>20. e.first = d.first /\ e.next = d.next
  BY <1>9
<1>21. Created(d, e, n, kind)
  BY <1>1, <1>11, <1>12, <1>17, <1>18, <1>19, <1>20 DEF Created
<1> QED BY <1>21 DEF e, n

\* field, with value at the nodes of gone.
Wiped(field, gone, value) == [m \in DOMAIN field |-> IF m \in gone THEN value ELSE field[m]]

\* What is left when n and all below it are gone from d.
Gone(d, e, n) ==
  LET gone == {n} \cup Below(d, n)
  IN  /\ IsDom(e)
      /\ e.unlinked = d.unlinked /\ e.untracked = d.untracked
      /\ \A m \in Nodes : m \in gone => /\ e.kind[m] = "free" /\ e.parent[m] = Null
                                        /\ e.prev[m] = Null /\ e.next[m] = Null
      /\ \A m \in Nodes : m \notin gone =>
           /\ e.kind[m] = d.kind[m] /\ e.parent[m] = d.parent[m]
           /\ e.prev[m] = d.prev[m] /\ e.next[m] = d.next[m]
      /\ \A p \in Places : p \in gone => e.first[p] = Null /\ e.last[p] = Null
      /\ \A p \in Places : p \notin gone => e.first[p] = d.first[p] /\ e.last[p] = d.last[p]

\* DestroyNode frees n and what is below it.
LEMMA DestroyEffect ==
  ASSUME NEW b, NEW n, IsDom(MarkInUse(b, n))
  PROVE  Gone(MarkInUse(b, n), DestroyNode(b, n), n)
<1> DEFINE d == MarkInUse(b, n)
           gone == {n} \cup Below(d, n)
           kinds == Wiped(d.kind, gone, "free")
           names == Wiped(d.name, gone, Null)
           attrs == Wiped(d.attrs, gone, <<>>)
           parent == Wiped(d.parent, gone, Null)
           prev == Wiped(d.prev, gone, Null)
           next == Wiped(d.next, gone, Null)
           first == Wiped(d.first, gone, Null)
           last == Wiped(d.last, gone, Null)
           e == DestroyNode(b, n)
<1>1. e = [d EXCEPT !.kind = kinds, !.name = names, !.attrs = attrs,
                    !.parent = parent, !.prev = prev, !.next = next,
                    !.first = first, !.last = last]
  BY DEF DestroyNode, Wiped
<1> HIDE DEF d, e
<1>2. IsDom(d)
  BY DEF d
<1> HIDE DEF gone
<1>3. /\ kinds \in [Nodes -> NodeKinds \cup {"free"}]
      /\ \A m \in Nodes : m \in gone => kinds[m] = "free"
      /\ \A m \in Nodes : m \notin gone => kinds[m] = d.kind[m]
  BY <1>2 DEF IsDom, Wiped
<1>4. /\ parent \in [Nodes -> Places \cup {Null}]
      /\ \A m \in Nodes : m \in gone => parent[m] = Null
      /\ \A m \in Nodes : m \notin gone => parent[m] = d.parent[m]
  BY <1>2 DEF IsDom, Wiped
<1>5. /\ prev \in [Nodes -> Links] /\ next \in [Nodes -> Links]
      /\ \A m \in Nodes : m \in gone => prev[m] = Null /\ next[m] = Null
      /\ \A m \in Nodes : m \notin gone => prev[m] = d.prev[m] /\ next[m] = d.next[m]
  BY <1>2 DEF IsDom, Wiped, Links
<1>6. /\ first \in [Places -> Links] /\ last \in [Places -> Links]
      /\ \A p \in Places : p \in gone => first[p] = Null /\ last[p] = Null
      /\ \A p \in Places : p \notin gone => first[p] = d.first[p] /\ last[p] = d.last[p]
  BY <1>2 DEF IsDom, Wiped, Links
<1> HIDE DEF kinds, names, attrs, parent, prev, next, first, last
<1>7. e = [kind |-> kinds, name |-> names, attrs |-> attrs, parent |-> parent,
           prev |-> prev, next |-> next, first |-> first, last |-> last,
           unlinked |-> d.unlinked, untracked |-> d.untracked]
  BY <1>1, <1>2 DEF IsDom
<1>8. IsDom(e)
  BY <1>2, <1>3, <1>4, <1>5, <1>6, <1>7 DEF IsDom
<1>9. /\ e.kind = kinds /\ e.parent = parent /\ e.prev = prev /\ e.next = next
      /\ e.first = first /\ e.last = last /\ e.unlinked = d.unlinked /\ e.untracked = d.untracked
  BY <1>7
<1>10. Gone(d, e, n)
  BY <1>3, <1>4, <1>5, <1>6, <1>8, <1>9 DEF Gone, gone
<1> QED BY <1>10 DEF d, e

\* Nothing outside what goes points into it.
LEMMA GoneApart ==
  ASSUME NEW d, LinkInv(d), NEW n \in Orphans(d)
  PROVE  LET gone == {n} \cup Below(d, n)
         IN  /\ gone \subseteq Nodes
             /\ \A m \in Nodes : d.parent[m] \in gone <=> m \in gone /\ m # n
             /\ \A m \in Nodes : m \notin gone => d.next[m] \notin gone /\ d.prev[m] \notin gone
             /\ \A p \in Places : p \notin gone => d.first[p] \notin gone /\ d.last[p] \notin gone
<1> DEFINE gone == {n} \cup Below(d, n)
<1>1. IsDom(d) /\ n \in Nodes /\ d.parent[n] = Null /\ d.next[n] = Null /\ d.prev[n] = Null
      /\ n \notin Below(d, n)
  BY OrphanAlone DEF LinkInv
<1>2. gone \subseteq Nodes
  BY <1>1 DEF Below
<1>3. \A m \in Below(d, n) : d.parent[m] \in gone
  BY <1>1, BelowParents, Distinct
<1>4. ASSUME NEW m \in Nodes, d.parent[m] \in gone PROVE m \in Below(d, n)
  <2>1. Kids(d, d.parent[m]) \subseteq Below(d, n)
    BY <1>1, <1>4, KidsBelow, Distinct
  <2> QED BY <2>1 DEF Kids
<1> HIDE DEF gone
<1>5. \A m \in Nodes : d.parent[m] \in gone <=> m \in gone /\ m # n
  <2>1. \A m : m \in gone /\ m # n <=> m \in Below(d, n)
    BY <1>1 DEF gone
  <2> QED BY <1>3, <1>4, <2>1
<1>6. ASSUME NEW m \in Nodes, m \notin gone, d.next[m] \in gone \/ d.prev[m] \in gone PROVE FALSE
  <2>1. PICK k \in gone : d.next[m] = k \/ d.prev[m] = k
    BY <1>6
  <2>2. k \in Nodes /\ d.parent[k] = d.parent[m]
    BY <1>2, <2>1 DEF LinkInv, Sides
  <2>3. k # n
    BY <1>1, <1>6, <2>1 DEF LinkInv, Sides, Orphans
  <2> QED BY <1>5, <1>6, <2>2, <2>3
<1>7. ASSUME NEW p \in Places, p \notin gone, d.first[p] \in gone \/ d.last[p] \in gone PROVE FALSE
  <2>1. PICK k \in gone : d.first[p] = k \/ d.last[p] = k
    BY <1>7
  <2>2. k \in Nodes /\ d.parent[k] = p
    BY <1>2, <2>1 DEF LinkInv, Firsts, Lasts
  <2>3. k # n
    BY <1>1, <2>2, Distinct
  <2> QED BY <1>5, <1>7, <2>2, <2>3
<1> QED BY <1>2, <1>5, <1>6, <1>7 DEF gone

\* The tree without an orphan and all that is below it is still in order.
LEMMA GoneKeeps ==
  ASSUME NEW d, NEW e, LinkInv(d), NEW n \in Orphans(d), Gone(d, e, n)
  PROVE  /\ LinkInv(e)
         /\ Live(e) = Live(d) \ ({n} \cup Below(d, n)) /\ Orphans(e) = Orphans(d) \ {n}
         /\ \A m \in Orphans(e) : e.kind[m] = d.kind[m]
         /\ e.first[Doc] = d.first[Doc]
<1> DEFINE gone == {n} \cup Below(d, n)
<1>1. /\ gone \subseteq Nodes /\ n \in gone
      /\ \A m \in Nodes : d.parent[m] \in gone <=> m \in gone /\ m # n
      /\ \A m \in Nodes : m \notin gone => d.next[m] \notin gone /\ d.prev[m] \notin gone
      /\ \A p \in Places : p \notin gone => d.first[p] \notin gone /\ d.last[p] \notin gone
  BY GoneApart
<1>2. /\ IsDom(e)
      /\ \A m \in Nodes : m \in gone => /\ e.kind[m] = "free" /\ e.parent[m] = Null
                                        /\ e.prev[m] = Null /\ e.next[m] = Null
      /\ \A m \in Nodes : m \notin gone =>
           /\ e.kind[m] = d.kind[m] /\ e.parent[m] = d.parent[m]
           /\ e.prev[m] = d.prev[m] /\ e.next[m] = d.next[m]
      /\ \A p \in Places : p \in gone => e.first[p] = Null /\ e.last[p] = Null
      /\ \A p \in Places : p \notin gone => e.first[p] = d.first[p] /\ e.last[p] = d.last[p]
  BY DEF Gone
<1>3. d.parent[n] = Null
  BY OrphanAlone
<1> HIDE DEF gone
<1>4. Live(e) = Live(d) \ gone
  BY <1>1, <1>2 DEF Live
<1>5. Orphans(e) = Orphans(d) \ {n}
  <2>1. \A m \in Orphans(d) : m \in gone => m = n
    BY <1>1, Distinct DEF Orphans, Live
  <2>2. ASSUME NEW m \in Nodes PROVE m \in Orphans(e) <=> m \in Orphans(d) \ {n}
    <3>1. CASE m \in gone
      BY <1>2, <2>1, <3>1 DEF Orphans, Live
    <3>2. CASE m \notin gone
      BY <1>1, <1>2, <3>2 DEF Orphans, Live
    <3> QED BY <3>1, <3>2
  <2> QED BY <2>2 DEF Orphans, Live
<1>6. Placed(e)
  <2> SUFFICES ASSUME NEW m \in Nodes, e.parent[m] # Null
               PROVE  /\ e.kind[m] # "free"
                      /\ e.parent[m] \in Nodes => e.kind[e.parent[m]] # "free"
    BY DEF Placed
  <2>1. m \notin gone /\ e.parent[m] = d.parent[m] /\ d.parent[m] \notin gone
    BY <1>1, <1>2
  <2> QED BY <1>2, <2>1 DEF LinkInv, Placed
<1>7. Firsts(e)
  <2> SUFFICES ASSUME NEW p \in Places, NEW m \in Nodes
               PROVE  e.first[p] = m <=> e.parent[m] = p /\ e.prev[m] = Null
    BY DEF Firsts
  <2>1. CASE p \in gone
    BY <1>1, <1>2, <2>1, Distinct
  <2>2. CASE p \notin gone /\ m \in gone
    BY <1>1, <1>2, <2>2, Distinct
  <2>3. CASE p \notin gone /\ m \notin gone
    BY <1>2, <2>3 DEF LinkInv, Firsts
  <2> QED BY <2>1, <2>2, <2>3
<1>8. Lasts(e)
  <2> SUFFICES ASSUME NEW p \in Places, NEW m \in Nodes
               PROVE  e.last[p] = m <=> e.parent[m] = p /\ e.next[m] = Null
    BY DEF Lasts
  <2>1. CASE p \in gone
    BY <1>1, <1>2, <2>1, Distinct
  <2>2. CASE p \notin gone /\ m \in gone
    BY <1>1, <1>2, <2>2, Distinct
  <2>3. CASE p \notin gone /\ m \notin gone
    BY <1>2, <2>3 DEF LinkInv, Lasts
  <2> QED BY <2>1, <2>2, <2>3
<1>9. Sides(e)
  <2> SUFFICES ASSUME NEW a \in Nodes, NEW b \in Nodes
               PROVE  /\ e.next[a] = b <=> e.prev[b] = a
                      /\ e.next[a] = b => e.parent[a] = e.parent[b] /\ e.parent[a] # Null
    BY DEF Sides
  <2>1. CASE a \in gone \/ b \in gone
    BY <1>1, <1>2, <2>1, Distinct
  <2>2. CASE a \notin gone /\ b \notin gone
    BY <1>2, <2>2 DEF LinkInv, Sides
  <2> QED BY <2>1, <2>2
<1>10. Ends(e)
  BY <1>2 DEF LinkInv, Ends
<1>11. Reach(e)
  <2> SUFFICES ASSUME NEW p \in Places, NEW S \in SUBSET Nodes, Chained(e, p, S)
               PROVE  Kids(e, p) \subseteq S
    BY DEF Reach
  <2>1. CASE p \in gone
    BY <1>1, <1>2, <2>1, Distinct DEF Kids
  <2>2. CASE p \notin gone
    <3> DEFINE T == S \ gone
    <3>1. d.first[p] \in T \cup {Null}
      BY <1>1, <1>2, <2>2 DEF Chained
    <3>2. ASSUME NEW m \in T, d.parent[m] = p PROVE d.next[m] \in T \cup {Null}
      <4>1. e.parent[m] = p /\ e.next[m] = d.next[m] /\ d.next[m] \notin gone
        BY <1>1, <1>2, <3>2
      <4> QED BY <3>2, <4>1 DEF Chained
    <3>3. T \in SUBSET Nodes
      OBVIOUS
    <3> HIDE DEF T
    <3>4. Kids(d, p) \subseteq T
      BY <3>1, <3>2, <3>3 DEF LinkInv, Reach, Chained
    <3>5. Kids(e, p) \subseteq Kids(d, p)
      BY <1>2, Distinct DEF Kids
    <3> QED BY <3>4, <3>5 DEF T
  <2> QED BY <2>1, <2>2
<1>12. Hang(e)
  <2> SUFFICES ASSUME NEW S \in SUBSET Places, Hanging(e, S) PROVE Live(e) \subseteq S
    BY DEF Hang
  <2> DEFINE T == S \cup gone
  <2>1. T \in SUBSET Places /\ Doc \in T
    BY <1>1, Distinct DEF Hanging
  <2>2. Orphans(d) \subseteq T
    BY <1>1, <1>5 DEF Hanging
  <2>3. ASSUME NEW m \in Nodes, d.parent[m] \in T PROVE m \in T
    BY <1>1, <1>2, <2>3 DEF Hanging
  <2> HIDE DEF T
  <2>4. Live(d) \subseteq T
    BY <2>1, <2>2, <2>3 DEF LinkInv, Hang, Hanging
  <2> QED BY <1>4, <2>4 DEF T
<1>13. \A m \in Orphans(e) : e.kind[m] = d.kind[m]
  BY <1>2 DEF Orphans, Live
<1>14. e.first[Doc] = d.first[Doc]
  BY <1>1, <1>2, Distinct DEF Places
<1> QED BY <1>2, <1>4, <1>5, <1>6, <1>7, <1>8, <1>9, <1>10, <1>11, <1>12, <1>13, <1>14
        DEF LinkInv, gone

\* n and what is below it are gone, and with n one orphan.
Deleted(b, e, n) ==
  /\ Held(e)
  /\ Live(e) \subseteq Live(b) \ {n} /\ Orphans(e) = Orphans(b) \ {n}
  /\ Counted(b, Orphans(b) \ {n}) => Counted(e, Orphans(e))
  /\ e.first[Doc] = b.first[Doc]

\* U is what _unlinked holds: it may hold n still, or no longer.
LEMMA DestroyHeld ==
  ASSUME NEW b, LinkInv(b), NEW n \in Orphans(b), NEW U \in SUBSET Nodes,
         Enumerates(b.unlinked, U), U \ {n} = Orphans(b) \ {n}
  PROVE  Deleted(b, DestroyNode(b, n), n)
<1> DEFINE d == MarkInUse(b, n)
           e == DestroyNode(b, n)
<1>1. n \in Nodes
  BY OrphanAlone
<1>2. SameTree(b, d) /\ d.untracked = b.untracked /\ Enumerates(d.unlinked, U \ {n})
  BY <1>1, MarkInUseKeeps
<1>3. Gone(d, e, n)
  BY <1>2, DestroyEffect DEF SameTree
<1> HIDE DEF d, e
<1>4. LinkInv(d) /\ Live(d) = Live(b) /\ Orphans(d) = Orphans(b)
  BY <1>2, SameTreeKeeps
<1>5. /\ LinkInv(e)
      /\ Live(e) = Live(d) \ ({n} \cup Below(d, n)) /\ Orphans(e) = Orphans(d) \ {n}
      /\ \A m \in Orphans(e) : e.kind[m] = d.kind[m]
      /\ e.first[Doc] = d.first[Doc]
  BY <1>3, <1>4, GoneKeeps
<1>6. e.unlinked = d.unlinked /\ e.untracked = d.untracked
  BY <1>3 DEF Gone
<1>7. Held(e)
  BY <1>2, <1>4, <1>5, <1>6 DEF Held
<1>8. ASSUME Counted(b, Orphans(b) \ {n}) PROVE Counted(e, Orphans(e))
  <2> SUFFICES ASSUME NEW pool \in Pools
               PROVE  e.untracked[pool] = Cardinality(OfPool(e.kind, Orphans(e), pool))
    BY DEF Counted
  <2>1. OfPool(e.kind, Orphans(e), pool) = OfPool(b.kind, Orphans(b) \ {n}, pool)
    BY <1>2, <1>4, <1>5 DEF OfPool, SameTree
  <2> QED BY <1>2, <1>6, <1>8, <2>1 DEF Counted
<1>9. e.first[Doc] = b.first[Doc]
  BY <1>2, <1>5 DEF SameTree
<1> QED BY <1>4, <1>5, <1>7, <1>8, <1>9 DEF Deleted, e

\* One node of b, n, is gone, with what was below it.
Without(b, e, n) ==
  /\ Held(e)
  /\ Live(e) \subseteq Live(b) \ {n} /\ Orphans(e) = Orphans(b) \ {n}
  /\ Counted(b, Orphans(b)) => Counted(e, Orphans(e))

\* XMLNode::DeleteChild: a placed node is unlinked and deleted, with all below.
LEMMA DeleteChildHeld ==
  ASSUME NEW b, Held(b), NEW n \in Nodes, b.parent[n] # Null
  PROVE  Without(b, DeleteChild(b, n), n) /\ n \in Live(b) /\ n \notin Orphans(b)
<1> DEFINE d == Unlink(b, n)
           e == DeleteChild(b, n)
<1>1. LinkInv(b) /\ IsDom(b) /\ b.parent[n] \in Places /\ Enumerates(b.unlinked, Orphans(b))
  BY Kinds DEF Held, LinkInv
<1>2. LinkInv(d) /\ Unlinks(b, d, n)
  BY <1>1, UnlinkKeeps
<1>3. e = DestroyNode(d, n)
  BY DEF DeleteChild
<1> HIDE DEF d, e
<1>4. Live(d) = Live(b) /\ Orphans(d) = Orphans(b) \cup {n} /\ n \notin Orphans(b)
  BY <1>1, <1>2, UnlinkOrphans
<1>5. /\ Orphans(b) \in SUBSET Nodes /\ n \in Orphans(d) /\ Orphans(b) \ {n} = Orphans(d) \ {n}
      /\ Orphans(d) \ {n} = Orphans(b) /\ Orphans(b) \ {n} = Orphans(b)
  BY <1>4 DEF Orphans, Live
<1>6. d.unlinked = b.unlinked /\ d.kind = b.kind /\ d.untracked = b.untracked
  BY <1>2 DEF Unlinks
<1>7. Deleted(d, e, n)
  BY <1>1, <1>2, <1>3, <1>5, <1>6, DestroyHeld
<1>8. Counted(b, Orphans(b)) => Counted(e, Orphans(e))
  BY <1>5, <1>6, <1>7, CountedSame DEF Deleted
<1>9. Without(b, e, n)
  BY <1>4, <1>5, <1>7, <1>8 DEF Deleted, Without
<1>10. n \in Live(b)
  BY <1>4, <1>5 DEF Orphans
<1> QED BY <1>4, <1>9, <1>10 DEF e

\* XMLDocument::DeleteNode deletes a node whether it was ever placed or not;
\* an orphan that is deleted leaves the list of the document alone.
LEMMA DeleteNodeHeld ==
  ASSUME NEW b, Held(b), NEW n \in Live(b)
  PROVE  /\ Without(b, DeleteNode(b, n), n)
         /\ b.parent[n] = Null => DeleteNode(b, n).first[Doc] = b.first[Doc]
<1>1. LinkInv(b) /\ n \in Nodes /\ Orphans(b) \in SUBSET Nodes /\ Enumerates(b.unlinked, Orphans(b))
  BY DEF Held, Live, Orphans
<1>2. CASE b.parent[n] # Null
  <2>1. DeleteNode(b, n) = DeleteChild(b, n)
    BY <1>2 DEF DeleteNode
  <2> QED BY <1>1, <1>2, <2>1, DeleteChildHeld
<1>3. CASE b.parent[n] = Null
  <2> DEFINE d == SetTracked(b, n)
             e == DestroyNode(d, n)
  <2>1. DeleteNode(b, n) = e /\ n \in Orphans(b)
    BY <1>3 DEF DeleteNode, Orphans
  <2>2. /\ SameTree(b, d) /\ d.unlinked = b.unlinked
        /\ Counted(b, Orphans(b)) => Counted(d, Orphans(b) \ {n})
    BY <1>1, <2>1, SetTrackedKeeps
  <2> HIDE DEF d
  <2>3. LinkInv(d) /\ Live(d) = Live(b) /\ Orphans(d) = Orphans(b)
    BY <1>1, <2>2, SameTreeKeeps
  <2>4. Deleted(d, e, n)
    BY <1>1, <2>1, <2>2, <2>3, DestroyHeld
  <2> HIDE DEF e
  <2>5. Without(b, e, n)
    BY <2>2, <2>3, <2>4 DEF Deleted, Without
  <2>6. e.first[Doc] = b.first[Doc]
    BY <2>2, <2>4 DEF SameTree, Deleted
  <2> QED BY <2>1, <2>5, <2>6
<1> QED BY <1>2, <1>3

-----------------------------------------------------------------------------
(* The lists of children as sequences, and what every operator does to them. *)

\* s holds the children of p in the order of the list.
ListOf(d, p, s) ==
  s \in Seq(Nodes) /\ Enumerates(s, Kids(d, p)) /\ IsWalk(s, d.first[p], d.next, Null)

\* The sequence of a walk along the list of p is its children.
LEMMA WalkIsChildren ==
  ASSUME NEW d, NEW p, NEW s \in Seq(Nodes), Once(s), IsWalk(s, d.first[p], d.next, Null)
  PROVE  Children(d, p) = s
<1>1. IsFiniteSet(Nodes) /\ Cardinality(Nodes) = MaxNodes /\ MaxNodes \in Nat
  BY FS_Interval, NodesFinite, TreeAssumption DEF Nodes
<1>2. Len(s) <= MaxNodes
  BY <1>1, OnceShort
<1> QED BY <1>1, <1>2, WalkFound DEF Children

\* FirstChild() and NextSibling() find every child of p, once.
LEMMA ChildrenList ==
  ASSUME NEW d, LinkInv(d), NEW p \in Places
  PROVE  ListOf(d, p, Children(d, p))
<1> DEFINE S == Kids(d, p)
<1>0. p # Null /\ S \in SUBSET Nodes
  BY Distinct DEF Kids
<1>1. IsFiniteSet(S) /\ Null \notin S
  BY <1>0, NodesFinite, Distinct
<1>2. d.first[p] \in S \cup {Null}
  BY Kinds DEF LinkInv, Firsts, Kids
<1>3. \A c \in S : d.next[c] \in S \cup {Null} /\ (d.first[p] # Null => d.next[c] # d.first[p])
  <2> SUFFICES ASSUME NEW c \in S
               PROVE  d.next[c] \in S \cup {Null} /\ (d.first[p] # Null => d.next[c] # d.first[p])
    OBVIOUS
  <2>1. c \in Nodes /\ d.parent[c] = p
    BY DEF Kids
  <2>2. d.next[c] \in S \cup {Null}
    BY <2>1, Kinds DEF LinkInv, Sides, Kids
  <2>3. ASSUME d.first[p] # Null, d.next[c] = d.first[p] PROVE FALSE
    <3>1. PICK m \in Nodes : d.first[p] = m
      BY <1>2, <2>3 DEF Kids
    <3>2. d.prev[m] = Null /\ d.prev[m] = c
      BY <2>1, <2>3, <3>1 DEF LinkInv, Firsts, Sides
    <3> QED BY <2>1, <3>2, Distinct
  <2> QED BY <2>2, <2>3
<1>4. \A a, b \in S : d.next[a] = d.next[b] /\ d.next[a] # Null => a = b
  <2> SUFFICES ASSUME NEW a \in S, NEW b \in S, d.next[a] = d.next[b], d.next[a] # Null
               PROVE  a = b
    OBVIOUS
  <2>1. a \in Nodes /\ b \in Nodes
    BY DEF Kids
  <2>2. d.next[a] \in S /\ d.next[a] \in Nodes
    BY <1>3 DEF Kids
  <2>3. PICK m \in Nodes : d.next[a] = m
    BY <2>2
  <2>4. d.prev[m] = a /\ d.prev[m] = b
    BY <2>1, <2>3 DEF LinkInv, Sides
  <2> QED BY <2>4
<1>5. PICK s \in Seq(S) : IsWalk(s, d.first[p], d.next, Null) /\ Once(s)
  <2> HIDE DEF S
  <2> QED BY <1>1, <1>2, <1>3, <1>4, WalkEnds
<1>6. s \in Seq(Nodes)
  BY <1>0, SeqMonotonic
<1>7. PICK k \in Nat : Len(s) = k
  BY LenProperties
<1> DEFINE met == {s[i] : i \in 1 .. k}
<1>8. \A i \in 1 .. k : s[i] \in S
  BY <1>7, ElementOfSeq
<1>9. met \in SUBSET Nodes
  BY <1>8 DEF Kids
<1>10. Chained(d, p, met)
  <2>1. d.first[p] \in met \cup {Null}
    BY <1>5, <1>7 DEF IsWalk, At
  <2>2. ASSUME NEW m \in met PROVE d.next[m] \in met \cup {Null}
    <3>1. PICK i \in 1 .. k : m = s[i]
      OBVIOUS
    <3>2. d.next[m] = At(s, i + 1, Null)
      BY <1>5, <1>7, <3>1 DEF IsWalk
    <3> QED BY <1>7, <3>2 DEF At
  <2> HIDE DEF met
  <2> QED BY <2>1, <2>2 DEF Chained
<1>11. S \subseteq met
  <2> HIDE DEF met
  <2> QED BY <1>9, <1>10 DEF LinkInv, Reach
<1>12. Enumerates(s, S)
  BY <1>5, <1>6, <1>7, <1>8, <1>11 DEF Enumerates, Once
<1>13. ListOf(d, p, s)
  BY <1>5, <1>6, <1>12 DEF ListOf
<1> QED BY <1>5, <1>6, <1>13, WalkIsChildren

\* The list read from its end.
LEMMA ListLinks ==
  ASSUME NEW d, LinkInv(d), NEW p \in Places, NEW s, ListOf(d, p, s)
  PROVE  /\ d.last[p] = At(s, Len(s), Null)
         /\ \A i \in 1 .. Len(s) : d.prev[s[i]] = At(s, i - 1, Null)
<1>1. PICK k \in Nat : Len(s) = k
  BY LenProperties DEF ListOf
<1>2. \A i \in 1 .. k : s[i] \in Nodes /\ d.parent[s[i]] = p
  BY <1>1, ElementOfSeq DEF ListOf, Enumerates, Kids
<1>3. d.first[p] = At(s, 1, Null) /\ \A i \in 1 .. k : d.next[s[i]] = At(s, i + 1, Null)
  BY <1>1 DEF ListOf, IsWalk
<1>4. d.last[p] = At(s, k, Null)
  <2>1. CASE k = 0
    <3>1. d.first[p] = Null
      BY <1>1, <1>3, <2>1 DEF At
    <3> QED BY <1>1, <2>1, <3>1 DEF At, LinkInv, Ends
  <2>2. CASE k # 0
    <3>1. k \in 1 .. k /\ k + 1 \notin 1 .. k
      BY <2>2
    <3>2. d.next[s[k]] = Null
      BY <1>1, <1>3, <3>1 DEF At
    <3>3. d.last[p] = s[k]
      BY <1>2, <3>1, <3>2 DEF LinkInv, Lasts
    <3> QED BY <1>1, <3>1, <3>3 DEF At
  <2> QED BY <2>1, <2>2
<1>5. ASSUME NEW i \in 1 .. k PROVE d.prev[s[i]] = At(s, i - 1, Null)
  <2>1. CASE i = 1
    <3>1. d.first[p] = s[1]
      BY <1>1, <1>3, <2>1 DEF At
    <3>2. d.prev[s[1]] = Null
      BY <1>2, <2>1, <3>1 DEF LinkInv, Firsts
    <3> QED BY <1>1, <2>1, <3>2 DEF At
  <2>2. CASE i # 1
    <3>1. i - 1 \in 1 .. k /\ (i - 1) + 1 = i
      BY <2>2
    <3>2. d.next[s[i - 1]] = s[i]
      BY <1>1, <1>3, <3>1 DEF At
    <3>3. d.prev[s[i]] = s[i - 1]
      BY <1>2, <3>1, <3>2 DEF LinkInv, Sides
    <3> QED BY <1>1, <3>1, <3>3 DEF At
  <2> QED BY <2>1, <2>2
<1> QED BY <1>1, <1>4, <1>5

\* s is the list of p, and has k places.
Spells(d, p, s, k) ==
  /\ s \in Seq(Nodes) /\ k \in Nat /\ Len(s) = k
  /\ Once(s) /\ IsWalk(s, d.first[p], d.next, Null)
  /\ \A m \in Nodes : d.parent[m] = p <=> \E i \in 1 .. k : s[i] = m
  /\ \A i \in 1 .. k : s[i] \in Nodes /\ d.parent[s[i]] = p

\* The list of any place.
LEMMA ListSpelt ==
  ASSUME NEW d, LinkInv(d), NEW p \in Places
  PROVE  \E k \in Nat : Spells(d, p, Children(d, p), k)
<1>1. PICK s : s = Children(d, p) /\ ListOf(d, p, s)
  BY ChildrenList
<1>2. PICK k \in Nat : Len(s) = k
  BY <1>1, LenProperties DEF ListOf
<1>3. \A i \in 1 .. k : s[i] \in Nodes
  BY <1>1, <1>2, ElementOfSeq DEF ListOf
<1>4. \A m \in Nodes : d.parent[m] = p <=> \E i \in 1 .. k : s[i] = m
  BY <1>1, <1>2 DEF ListOf, Enumerates, Kids
<1>5. \A i \in 1 .. k : d.parent[s[i]] = p
  BY <1>3, <1>4
<1>6. Once(s)
  BY <1>1 DEF ListOf, Enumerates, Once
<1>7. Spells(d, p, s, k)
  BY <1>1, <1>2, <1>3, <1>4, <1>5, <1>6 DEF Spells, ListOf
<1> QED BY <1>1, <1>7

\* RemoveFirst takes out the one place that holds the node.
LEMMA RemoveFirstAt ==
  ASSUME NEW s, Once(s), NEW i \in 1 .. Len(s), Len(s) \in Nat
  PROVE  RemoveFirst(s, s[i]) = RemoveAt(s, i)
<1> DEFINE I == {j \in 1 .. Len(s) : s[j] = s[i]}
<1>1. I = {i}
  BY DEF Once
<1>2. (CHOOSE x \in I : \A y \in I : x <= y) = i
  BY <1>1
<1>3. SelectInSeq(s, LAMBDA v : v = s[i]) = i
  BY <1>1, <1>2 DEF SelectInSeq, Min
<1> QED BY <1>3 DEF RemoveFirst

\* RemoveFirst leaves a sequence alone that does not hold the node.
LEMMA RemoveFirstNone ==
  ASSUME NEW s, NEW n, \A i \in 1 .. Len(s) : s[i] # n
  PROVE  RemoveFirst(s, n) = s
BY DEF RemoveFirst

\* A list whose links are not touched.
LEMMA SameList ==
  ASSUME NEW d, NEW e, NEW p, NEW s, NEW k, Spells(d, p, s, k),
         e.first[p] = d.first[p], \A i \in 1 .. k : e.next[s[i]] = d.next[s[i]]
  PROVE  Children(e, p) = s
<1>1. IsWalk(s, e.first[p], e.next, Null)
  BY DEF Spells, IsWalk
<1> QED BY <1>1, WalkIsChildren DEF Spells

\* A walk to null without its cell i.
LEMMA WalkWithout ==
  ASSUME NEW s \in Seq(Nodes), Once(s), NEW from, NEW link, IsWalk(s, from, link, Null),
         NEW i \in 1 .. Len(s),
         NEW onFrom, onFrom = IF i = 1 THEN At(s, 2, Null) ELSE from,
         NEW onLink, i > 1 => onLink[s[i - 1]] = At(s, i + 1, Null),
         \A j \in 1 .. Len(s) : j \notin {i - 1, i} => onLink[s[j]] = link[s[j]]
  PROVE  /\ RemoveAt(s, i) \in Seq(Nodes) /\ Once(RemoveAt(s, i))
         /\ IsWalk(RemoveAt(s, i), onFrom, onLink, Null)
<1>1. Null \notin Nodes
  BY Distinct
<1> QED BY <1>1, WalkRemove

\* Unlink takes n from the list of its parent.
LEMMA UnlinkedLists ==
  ASSUME NEW d, NEW e, LinkInv(d), NEW n \in Nodes, d.parent[n] \in Places, Unlinks(d, e, n),
         NEW q \in Places
  PROVE  Children(e, q) = RemoveFirst(Children(d, q), n)
<1>1. PICK s : s = Children(d, q)
  OBVIOUS
<1>2. PICK k \in Nat : Spells(d, q, s, k)
  BY <1>1, ListSpelt
<1>3. CASE q # d.parent[n]
  <2>1. \A i \in 1 .. k : s[i] # n /\ s[i] # d.prev[n]
    <3>1. d.prev[n] \in Nodes => d.parent[d.prev[n]] = d.parent[n]
      BY DEF LinkInv, Sides
    <3> QED BY <1>2, <1>3, <3>1 DEF Spells
  <2>2. \A i \in 1 .. k : s[i] \in Nodes \ {n}
    BY <1>2, <2>1 DEF Spells
  <2>3. \A i \in 1 .. k : e.next[s[i]] = d.next[s[i]]
    BY <2>1, <2>2 DEF Unlinks
  <2>4. e.first[q] = d.first[q]
    BY <1>3 DEF Unlinks
  <2>5. Children(e, q) = s
    BY <1>2, <2>3, <2>4, SameList
  <2>6. RemoveFirst(s, n) = s
    BY <1>2, <2>1, RemoveFirstNone DEF Spells
  <2> QED BY <1>1, <2>5, <2>6
<1>4. CASE q = d.parent[n]
  <2>1. PICK i \in 1 .. k : s[i] = n
    BY <1>2, <1>4 DEF Spells
  <2>2. RemoveFirst(s, n) = RemoveAt(s, i)
    <3>1. Once(s) /\ Len(s) = k
      BY <1>2 DEF Spells
    <3> QED BY <2>1, <3>1, RemoveFirstAt
  <2>3. d.next[n] = At(s, i + 1, Null) /\ d.first[q] = At(s, 1, Null)
    BY <1>2, <2>1 DEF Spells, IsWalk
  <2>4. \A j \in 1 .. k : j # i => s[j] # n
    BY <1>2, <2>1 DEF Spells, Once
  <2>5. e.first[q] = IF i = 1 THEN At(s, 2, Null) ELSE d.first[q]
    <3>1. CASE i = 1
      <4>1. d.first[q] = n
        BY <1>2, <2>1, <2>3, <3>1 DEF At, Spells
      <4> QED BY <1>4, <2>3, <3>1, <4>1 DEF Unlinks
    <3>2. CASE i # 1
      <4>1. 1 \in 1 .. k /\ d.first[q] = s[1]
        BY <1>2, <2>1, <2>3, <3>2 DEF At, Spells
      <4>2. d.first[q] # n
        BY <2>4, <3>2, <4>1
      <4> QED BY <3>2, <4>2 DEF Unlinks
    <3> QED BY <3>1, <3>2
  <2>6. i > 1 => e.next[s[i - 1]] = At(s, i + 1, Null)
    <3> SUFFICES ASSUME i > 1 PROVE e.next[s[i - 1]] = At(s, i + 1, Null)
      OBVIOUS
    <3>1. i - 1 \in 1 .. k /\ (i - 1) + 1 = i /\ i - 1 # i
      BY <1>2
    <3>2. d.next[s[i - 1]] = n /\ s[i - 1] \in Nodes \ {n}
      <4>1. d.next[s[i - 1]] = At(s, (i - 1) + 1, Null)
        BY <1>2, <3>1 DEF Spells, IsWalk
      <4>2. At(s, i, Null) = n
        BY <1>2, <2>1 DEF At, Spells
      <4>3. s[i - 1] # n /\ s[i - 1] \in Nodes
        BY <1>2, <2>4, <3>1 DEF Spells
      <4> QED BY <3>1, <4>1, <4>2, <4>3
    <3>3. d.prev[n] = s[i - 1]
      BY <3>2 DEF LinkInv, Sides
    <3>4. e.next[s[i - 1]] = d.next[n]
      BY <3>2, <3>3 DEF Unlinks
    <3> QED BY <2>3, <3>4
  <2>7. \A j \in 1 .. k : j \notin {i - 1, i} => e.next[s[j]] = d.next[s[j]]
    <3> SUFFICES ASSUME NEW j \in 1 .. k, j # i - 1, j # i PROVE e.next[s[j]] = d.next[s[j]]
      OBVIOUS
    <3>1. s[j] \in Nodes \ {n}
      BY <1>2, <2>4 DEF Spells
    <3>2. s[j] # d.prev[n]
      <4> SUFFICES ASSUME s[j] = d.prev[n] PROVE FALSE
        OBVIOUS
      <4>1. d.next[s[j]] = n
        BY <3>1 DEF LinkInv, Sides
      <4>2. d.next[s[j]] = At(s, j + 1, Null)
        BY <1>2 DEF Spells, IsWalk
      <4>3. j + 1 \in 1 .. k /\ s[j + 1] = n
        BY <1>2, <4>1, <4>2, Distinct DEF At, Spells
      <4>4. j + 1 # i
        OBVIOUS
      <4> QED BY <2>4, <4>3, <4>4
    <3> QED BY <3>1, <3>2 DEF Unlinks
  <2>8. RemoveAt(s, i) \in Seq(Nodes) /\ Once(RemoveAt(s, i))
        /\ IsWalk(RemoveAt(s, i), e.first[q], e.next, Null)
    <3>1. /\ s \in Seq(Nodes) /\ Once(s) /\ Null \notin Nodes /\ IsWalk(s, d.first[q], d.next, Null)
          /\ i \in 1 .. Len(s)
          /\ \A j \in 1 .. Len(s) : j \notin {i - 1, i} => e.next[s[j]] = d.next[s[j]]
      BY <1>2, <2>7, Distinct DEF Spells
    <3>2. PICK from, link : from = d.first[q] /\ link = d.next
      OBVIOUS
    <3>3. PICK onFrom, onLink : onFrom = e.first[q] /\ onLink = e.next
      OBVIOUS
    <3>4. IsWalk(s, from, link, Null)
      BY <3>1, <3>2
    <3>5. onFrom = IF i = 1 THEN At(s, 2, Null) ELSE from
      BY <2>5, <3>2, <3>3
    <3>6. i > 1 => onLink[s[i - 1]] = At(s, i + 1, Null)
      BY <2>6, <3>3
    <3>7. \A j \in 1 .. Len(s) : j \notin {i - 1, i} => onLink[s[j]] = link[s[j]]
      BY <3>1, <3>2, <3>3
    <3>8. s \in Seq(Nodes) /\ Once(s) /\ Null \notin Nodes /\ i \in 1 .. Len(s)
      BY <3>1
    <3>9. RemoveAt(s, i) \in Seq(Nodes) /\ Once(RemoveAt(s, i))
          /\ IsWalk(RemoveAt(s, i), onFrom, onLink, Null)
      BY <3>4, <3>5, <3>6, <3>7, <3>8, WalkWithout
    <3> QED BY <3>3, <3>9
  <2>9. Children(e, q) = RemoveAt(s, i)
    BY <2>8, WalkIsChildren
  <2> QED BY <1>1, <2>2, <2>9
<1> QED BY <1>3, <1>4

\* n has become child i of p, and all other lists are as they were.
PutAt(d, e, p, i, n) ==
  /\ i \in 1 .. Len(Children(d, p)) + 1
  /\ Children(e, p) = InsertAt(Children(d, p), i, n)
  /\ \A q \in Places : q # p => Children(e, q) = Children(d, q)

\* Placing an orphan in a gap inserts it there.
LEMMA PlacedLists ==
  ASSUME NEW d, NEW e, LinkInv(d), NEW n \in Orphans(d), NEW p \in Places, NEW l, NEW r,
         Gap(d, p, l, r), PlacedBetween(d, e, p, l, n, r)
  PROVE  \E i : PutAt(d, e, p, i, n) /\ (r = Null => i = Len(Children(d, p)) + 1)
<1>1. n \in Nodes /\ d.parent[n] = Null /\ p # Null
  BY Distinct DEF Orphans, Live
<1>2. ASSUME NEW q \in Places, q # p PROVE Children(e, q) = Children(d, q)
  <2>1. PICK s : s = Children(d, q)
    OBVIOUS
  <2>2. PICK k \in Nat : Spells(d, q, s, k)
    BY <2>1, ListSpelt
  <2>3. \A i \in 1 .. k : s[i] \in Nodes \ {n} /\ s[i] # l
    <3>1. l # Null => d.parent[l] = p
      BY DEF Gap
    <3>2. q # Null
      BY Distinct
    <3> QED BY <1>1, <1>2, <2>2, <3>1, <3>2, Distinct DEF Spells
  <2>4. e.first[q] = d.first[q] /\ \A i \in 1 .. k : e.next[s[i]] = d.next[s[i]]
    BY <1>2, <2>3 DEF PlacedBetween
  <2> QED BY <2>1, <2>2, <2>4, SameList
<1>3. PICK s : s = Children(d, p)
  OBVIOUS
<1>4. PICK k \in Nat : Spells(d, p, s, k)
  BY <1>3, ListSpelt
<1>5. \A j \in 1 .. k : s[j] \in Nodes \ {n}
  BY <1>1, <1>4 DEF Spells
<1>6. \E i \in 1 .. k + 1 : /\ At(s, i, Null) = r /\ (r = Null => i = k + 1)
                            /\ IF i = 1 THEN l = Null ELSE l # Null /\ l = s[i - 1]
  <2>1. CASE l = Null
    <3>1. At(s, 1, Null) = r /\ 1 \in 1 .. k + 1
      BY <1>4, <2>1 DEF Gap, Spells, IsWalk
    <3>2. r = Null => 1 = k + 1
      BY <1>4, <1>5, <3>1, Distinct DEF At, Spells
    <3> QED BY <2>1, <3>1, <3>2
  <2>2. CASE l # Null
    <3>1. l \in Nodes /\ d.parent[l] = p /\ d.next[l] = r
      BY <2>2 DEF Gap, Links
    <3>2. PICK j \in 1 .. k : s[j] = l
      BY <1>4, <3>1 DEF Spells
    <3>3. j + 1 \in 1 .. k + 1 /\ (j + 1) - 1 = j /\ j + 1 # 1
      OBVIOUS
    <3>4. At(s, j + 1, Null) = r
      BY <1>4, <3>1, <3>2 DEF Spells, IsWalk
    <3>5. r = Null => j + 1 = k + 1
      BY <1>4, <1>5, <3>4, Distinct DEF At, Spells
    <3> QED BY <2>2, <3>2, <3>3, <3>4, <3>5
  <2> QED BY <2>1, <2>2
<1>7. PICK i \in 1 .. k + 1 : /\ At(s, i, Null) = r /\ (r = Null => i = k + 1)
                              /\ IF i = 1 THEN l = Null ELSE l # Null /\ l = s[i - 1]
  BY <1>6
<1>8. PICK from, link : from = d.first[p] /\ link = d.next
  OBVIOUS
<1>9. PICK onFrom, onLink : onFrom = e.first[p] /\ onLink = e.next
  OBVIOUS
<1>10. onFrom = IF i = 1 THEN n ELSE from
  BY <1>7, <1>8, <1>9 DEF PlacedBetween
<1>11. onLink[n] = At(s, i, Null)
  BY <1>7, <1>9 DEF PlacedBetween
<1>12. i > 1 => onLink[s[i - 1]] = n
  BY <1>7, <1>9 DEF PlacedBetween
<1>13. \A j \in 1 .. k : j # i - 1 => onLink[s[j]] = link[s[j]]
  <2> SUFFICES ASSUME NEW j \in 1 .. k, j # i - 1 PROVE onLink[s[j]] = link[s[j]]
    OBVIOUS
  <2>1. s[j] # l
    <3>1. CASE i = 1
      BY <1>5, <1>7, <3>1, Distinct
    <3>2. CASE i # 1
      <4>1. i - 1 \in 1 .. k
        BY <3>2
      <4> QED BY <1>4, <1>7, <3>2, <4>1 DEF Spells, Once
    <3> QED BY <3>1, <3>2
  <2> QED BY <1>5, <1>8, <1>9, <2>1 DEF PlacedBetween
<1>14. /\ InsertAt(s, i, n) \in Seq(Nodes) /\ Once(InsertAt(s, i, n))
       /\ IsWalk(InsertAt(s, i, n), onFrom, onLink, Null)
  <2>1. /\ s \in Seq(Nodes) /\ Once(s) /\ Null \notin Nodes /\ IsWalk(s, from, link, Null)
        /\ \A j \in 1 .. Len(s) : s[j] # n
        /\ i \in 1 .. Len(s) + 1
        /\ \A j \in 1 .. Len(s) : j # i - 1 => onLink[s[j]] = link[s[j]]
    BY <1>4, <1>5, <1>8, <1>13, Distinct DEF Spells
  <2> QED BY <1>1, <1>10, <1>11, <1>12, <2>1, WalkInsert
<1>15. Children(e, p) = InsertAt(s, i, n)
  BY <1>9, <1>14, WalkIsChildren
<1>16. Len(s) = k
  BY <1>4 DEF Spells
<1>17. PutAt(d, e, p, i, n)
  BY <1>2, <1>3, <1>15, <1>16 DEF PutAt
<1> QED BY <1>3, <1>7, <1>16, <1>17

\* The lists depend on the first children and the next siblings only.
LEMMA SameTreeLists ==
  ASSUME NEW d, NEW e, e.first = d.first, e.next = d.next
  PROVE  \A p \in Places : Children(e, p) = Children(d, p)
BY DEF Children

\* A node without a first child has an empty list.
LEMMA NoChildren ==
  ASSUME NEW d, NEW p, d.first[p] = Null
  PROVE  Children(d, p) = <<>>
<1>1. <<>> \in Seq(Nodes) /\ Len(<<>>) = 0
  BY EmptySeq
<1>2. Once(<<>>) /\ IsWalk(<<>>, d.first[p], d.next, Null)
  BY <1>1 DEF Once, IsWalk, At
<1> QED BY <1>1, <1>2, WalkIsChildren

\* What is left of the lists when n and all below it are gone.
LEMMA GoneLists ==
  ASSUME NEW d, NEW e, LinkInv(d), NEW n \in Orphans(d), Gone(d, e, n), NEW q \in Places
  PROVE  Children(e, q) = IF q \in {n} \cup Below(d, n) THEN <<>> ELSE Children(d, q)
<1>1. CASE q \in {n} \cup Below(d, n)
  <2>1. e.first[q] = Null
    BY <1>1 DEF Gone
  <2> QED BY <1>1, <2>1, NoChildren
<1>2. CASE q \notin {n} \cup Below(d, n)
  <2>1. PICK s : s = Children(d, q)
    OBVIOUS
  <2>2. PICK k \in Nat : Spells(d, q, s, k)
    BY <2>1, ListSpelt
  <2>3. \A i \in 1 .. k : s[i] \in Nodes /\ s[i] \notin {n} \cup Below(d, n)
    <3> SUFFICES ASSUME NEW i \in 1 .. k
                 PROVE  s[i] \in Nodes /\ s[i] \notin {n} \cup Below(d, n)
      OBVIOUS
    <3>1. s[i] \in Nodes /\ d.parent[s[i]] = q
      BY <2>2 DEF Spells
    <3>2. s[i] # n
      BY <3>1, Distinct DEF Orphans
    <3> QED BY <1>2, <3>1, <3>2, GoneApart
  <2>4. e.first[q] = d.first[q] /\ \A i \in 1 .. k : e.next[s[i]] = d.next[s[i]]
    BY <1>2, <2>3 DEF Gone
  <2>5. Children(e, q) = s
    BY <2>2, <2>4, SameList
  <2> QED BY <1>2, <2>1, <2>5
<1> QED BY <1>1, <1>2

\* No node is below itself.
LEMMA NotBelowSelf ==
  ASSUME NEW d, LinkInv(d), NEW n \in Live(d)
  PROVE  n \notin Below(d, n)
<1> SUFFICES ASSUME n \in Below(d, n) PROVE FALSE
  OBVIOUS
<1> DEFINE S == Places \ Below(d, n)
<1>1. n \in Places /\ n \in Nodes
  BY Distinct DEF Live
<1>2. \A m \in Below(d, n) : m \in Nodes /\ d.parent[m] \in Below(d, n) /\ d.parent[m] # Null
  BY <1>1, BelowParents
<1>3. Doc \in S
  BY <1>2, Distinct DEF Places
<1>4. Orphans(d) \subseteq S
  BY <1>2, Distinct DEF Orphans, Live
<1>5. \A m \in Nodes : d.parent[m] \in S => m \in S
  BY <1>2, Distinct
<1>6. Hanging(d, S) /\ S \in SUBSET Places
  BY <1>3, <1>4, <1>5 DEF Hanging
<1> HIDE DEF S
<1>7. n \in S
  BY <1>6 DEF LinkInv, Hang
<1> QED BY <1>7 DEF S

\* Unlink takes nothing from below n.
LEMMA UnlinkedBelow ==
  ASSUME NEW d, NEW e, LinkInv(d), LinkInv(e), NEW n \in Live(d), d.parent[n] \in Places,
         Unlinks(d, e, n)
  PROVE  Below(e, n) = Below(d, n)
<1> DEFINE B == Below(d, n)
           C == Below(e, n)
           p0 == d.parent[n]
<1>1. n \in Nodes /\ n \in Places
  BY Distinct DEF Live
<1>2. C \subseteq B
  BY <1>1, UnlinkBelow
<1>3. n \notin B
  BY NotBelowSelf
<1>4. p0 \notin {n} \cup B
  <2> SUFFICES ASSUME p0 \in {n} \cup B PROVE FALSE
    OBVIOUS
  <2>1. Kids(d, p0) \subseteq B
    BY <1>1, KidsBelow
  <2> QED BY <1>1, <1>3, <2>1 DEF Kids
<1>5. C \in SUBSET Nodes /\ Under0(e, n, C)
  BY <1>1, BelowClosed DEF LinkInv
<1>6. \A k \in B : k \in Nodes /\ d.parent[k] \in {n} \cup B
  BY <1>1, BelowParents
<1>7. d.first[n] \in C \cup {Null}
  <2>1. e.first[n] = d.first[n]
    BY <1>1, <1>4 DEF Unlinks
  <2> QED BY <1>5, <2>1 DEF Under0
<1>8. ASSUME NEW k \in C PROVE {d.first[k], d.next[k]} \subseteq C \cup {Null}
  <2>1. k \in B /\ k \in Nodes /\ k \in Places /\ k # p0 /\ k # n
    BY <1>2, <1>3, <1>4, <1>5, <1>8, Distinct
  <2>2. e.first[k] = d.first[k]
    BY <2>1 DEF Unlinks
  <2>3. k # d.prev[n]
    <3> SUFFICES ASSUME k = d.prev[n] PROVE FALSE
      OBVIOUS
    <3>1. d.next[k] = n
      BY <1>1, <2>1 DEF LinkInv, Sides
    <3>2. d.parent[k] = p0
      BY <1>1, <2>1, <3>1 DEF LinkInv, Sides
    <3> QED BY <1>4, <1>6, <2>1, <3>2
  <2>4. e.next[k] = d.next[k]
    BY <2>1, <2>3 DEF Unlinks
  <2> QED BY <1>5, <1>8, <2>2, <2>4 DEF Under0
<1>9. Under0(d, n, C)
  BY <1>7, <1>8 DEF Under0
<1>10. B \subseteq C
  BY <1>5, <1>9, BelowLeast
<1> QED BY <1>2, <1>10

\* An orphan is in no list.
LEMMA OrphanInNone ==
  ASSUME NEW d, LinkInv(d), NEW n \in Orphans(d), NEW q \in Places
  PROVE  RemoveFirst(Children(d, q), n) = Children(d, q)
<1>1. PICK s : s = Children(d, q)
  OBVIOUS
<1>2. PICK k \in Nat : Spells(d, q, s, k)
  BY <1>1, ListSpelt
<1>3. \A i \in 1 .. Len(s) : s[i] # n
  BY <1>2, Distinct DEF Spells, Orphans
<1> QED BY <1>1, <1>3, RemoveFirstNone

\* n and what is below it have lost their lists, and n has left that of its parent.
Dropped(b, e, n) == \A q \in Places :
  Children(e, q) = IF q \in {n} \cup Below(b, n) THEN <<>> ELSE RemoveFirst(Children(b, q), n)

\* What the death of an orphan means for the lists.
LEMMA DestroyedLists ==
  ASSUME NEW b, LinkInv(b), NEW n \in Orphans(b), NEW U \in SUBSET Nodes,
         Enumerates(b.unlinked, U)
  PROVE  Dropped(b, DestroyNode(b, n), n)
<1> DEFINE d == MarkInUse(b, n)
           e == DestroyNode(b, n)
<1>1. n \in Nodes
  BY OrphanAlone
<1>2. SameTree(b, d)
  BY <1>1, MarkInUseKeeps
<1>3. Gone(d, e, n)
  BY <1>2, DestroyEffect DEF SameTree
<1> HIDE DEF d, e
<1>4. LinkInv(d) /\ Orphans(d) = Orphans(b) /\ Below(d, n) = Below(b, n)
  BY <1>1, <1>2, SameTreeKeeps, Distinct
<1>5. \A q \in Places : Children(d, q) = Children(b, q)
  BY <1>2, SameTreeLists DEF SameTree
<1>6. \A q \in Places : RemoveFirst(Children(b, q), n) = Children(b, q)
  BY OrphanInNone
<1>7. \A q \in Places :
        Children(e, q) = IF q \in {n} \cup Below(d, n) THEN <<>> ELSE Children(d, q)
  BY <1>3, <1>4, GoneLists
<1>8. Dropped(b, e, n)
  BY <1>4, <1>5, <1>6, <1>7 DEF Dropped
<1> QED BY <1>8 DEF e

\* A placed node that is deleted.
LEMMA DeletedChildLists ==
  ASSUME NEW b, Held(b), NEW n \in Nodes, b.parent[n] # Null
  PROVE  Dropped(b, DeleteChild(b, n), n)
<1> DEFINE d == Unlink(b, n)
           e == DeleteChild(b, n)
<1>1. LinkInv(b) /\ IsDom(b) /\ b.parent[n] \in Places /\ Enumerates(b.unlinked, Orphans(b))
  BY Kinds DEF Held, LinkInv
<1>2. LinkInv(d) /\ Unlinks(b, d, n)
  BY <1>1, UnlinkKeeps
<1>3. e = DestroyNode(d, n)
  BY DEF DeleteChild
<1> HIDE DEF d, e
<1>4. Live(d) = Live(b) /\ Orphans(d) = Orphans(b) \cup {n}
  BY <1>1, <1>2, UnlinkOrphans
<1>5. Orphans(b) \in SUBSET Nodes /\ n \in Orphans(d) /\ n \in Live(b)
  BY <1>4 DEF Orphans, Live
<1>6. Dropped(d, e, n)
  BY <1>1, <1>2, <1>3, <1>5, DestroyedLists DEF Unlinks
<1>7. Below(d, n) = Below(b, n)
  BY <1>1, <1>2, <1>5, UnlinkedBelow
<1>8. \A q \in Places : Children(d, q) = RemoveFirst(Children(b, q), n)
  BY <1>1, <1>2, UnlinkedLists
<1>9. \A q \in Places : RemoveFirst(Children(d, q), n) = Children(d, q)
  BY <1>2, <1>5, OrphanInNone
<1>10. Dropped(b, e, n)
  BY <1>6, <1>7, <1>8, <1>9 DEF Dropped
<1> QED BY <1>10 DEF e

\* A node that is deleted, wherever it was.
LEMMA DeletedLists ==
  ASSUME NEW b, Held(b), NEW n \in Live(b)
  PROVE  Dropped(b, DeleteNode(b, n), n)
<1>1. LinkInv(b) /\ n \in Nodes /\ n \in Places /\ Orphans(b) \in SUBSET Nodes
      /\ Enumerates(b.unlinked, Orphans(b))
  BY Distinct DEF Held, Live, Orphans
<1>2. CASE b.parent[n] # Null
  <2>1. DeleteNode(b, n) = DeleteChild(b, n)
    BY <1>2 DEF DeleteNode
  <2> QED BY <1>1, <1>2, <2>1, DeletedChildLists
<1>3. CASE b.parent[n] = Null
  <2> DEFINE d == SetTracked(b, n)
             e == DestroyNode(d, n)
  <2>1. DeleteNode(b, n) = e /\ n \in Orphans(b)
    BY <1>3 DEF DeleteNode, Orphans
  <2>2. SameTree(b, d) /\ d.unlinked = b.unlinked
    BY <1>1, <2>1, SetTrackedKeeps
  <2> HIDE DEF d
  <2>3. LinkInv(d) /\ Orphans(d) = Orphans(b) /\ Below(d, n) = Below(b, n)
    BY <1>1, <2>2, SameTreeKeeps
  <2>4. Dropped(d, e, n)
    BY <1>1, <2>1, <2>2, <2>3, DestroyedLists
  <2> HIDE DEF e
  <2>5. \A q \in Places : Children(d, q) = Children(b, q)
    BY <2>2, SameTreeLists DEF SameTree
  <2>6. Dropped(b, e, n)
    BY <2>3, <2>4, <2>5 DEF Dropped
  <2> QED BY <2>1, <2>6
<1> QED BY <1>2, <1>3

\* InsertChildPreamble takes n out of its list.
LEMMA PreambleLists ==
  ASSUME NEW b, Held(b), NEW n \in Live(b), NEW q \in Places
  PROVE  Children(InsertChildPreamble(b, n), q) = RemoveFirst(Children(b, q), n)
<1>1. LinkInv(b) /\ n \in Nodes /\ b.parent[n] \in Places \cup {Null}
      /\ Orphans(b) \in SUBSET Nodes /\ Enumerates(b.unlinked, Orphans(b))
  BY Kinds DEF Held, LinkInv, Live, Orphans
<1>2. CASE b.parent[n] # Null
  <2>1. InsertChildPreamble(b, n) = Unlink(b, n)
    BY <1>2 DEF InsertChildPreamble
  <2>2. Unlinks(b, Unlink(b, n), n)
    BY <1>1, <1>2, UnlinkKeeps
  <2> QED BY <1>1, <1>2, <2>1, <2>2, UnlinkedLists
<1>3. CASE b.parent[n] = Null
  <2> DEFINE c == MarkInUse(b, n)
             d == SetTracked(c, n)
  <2>1. InsertChildPreamble(b, n) = d /\ n \in Orphans(b)
    BY <1>3 DEF InsertChildPreamble, Orphans
  <2>2. SameTree(b, c)
    BY <1>1, MarkInUseKeeps
  <2> HIDE DEF c
  <2>3. LinkInv(c) /\ Live(c) = Live(b)
    BY <1>1, <2>2, SameTreeKeeps
  <2>4. SameTree(c, d)
    BY <2>3, SetTrackedKeeps
  <2> HIDE DEF d
  <2>5. d.first = b.first /\ d.next = b.next
    BY <2>2, <2>4 DEF SameTree
  <2>6. Children(d, q) = Children(b, q)
    BY <2>5, SameTreeLists
  <2> QED BY <1>1, <2>1, <2>6, OrphanInNone
<1> QED BY <1>2, <1>3

\* n has left its place, if it had one, and become child i of p.
MovedTo(b, e, n, p, i) ==
  /\ i \in 1 .. Len(RemoveFirst(Children(b, p), n)) + 1
  /\ Children(e, p) = InsertAt(RemoveFirst(Children(b, p), n), i, n)
  /\ \A q \in Places : q # p => Children(e, q) = RemoveFirst(Children(b, q), n)

\* After the preamble, placing n in a gap makes it a child of p.
LEMMA PlacedMoved ==
  ASSUME NEW b, Held(b), NEW n \in Live(b), NEW d, d = InsertChildPreamble(b, n),
         NEW e, NEW p \in Places, NEW l, NEW r, HeldBut(d, n),
         Gap(d, p, l, r), PlacedBetween(d, e, p, l, n, r)
  PROVE  \E i : /\ MovedTo(b, e, n, p, i)
                /\ r = Null => i = Len(RemoveFirst(Children(b, p), n)) + 1
<1>1. LinkInv(d) /\ n \in Orphans(d)
  BY DEF HeldBut
<1>2. \A q \in Places : Children(d, q) = RemoveFirst(Children(b, q), n)
  BY PreambleLists
<1>3. PICK i : PutAt(d, e, p, i, n) /\ (r = Null => i = Len(Children(d, p)) + 1)
  BY <1>1, PlacedLists
<1>4. MovedTo(b, e, n, p, i)
  BY <1>2, <1>3 DEF PutAt, MovedTo
<1> QED BY <1>2, <1>3, <1>4

\* InsertEndChild makes n the last child of p.
LEMMA EndMoved ==
  ASSUME NEW b, Held(b), NEW n \in Live(b), NEW p, PlaceFor(b, p, n)
  PROVE  MovedTo(b, InsertEndChild(b, p, n), n, p, Len(RemoveFirst(Children(b, p), n)) + 1)
<1> DEFINE d == InsertChildPreamble(b, n)
           e == InsertEndChild(b, p, n)
<1>1. e = AtEnd(d, p, n)
  BY DEF InsertEndChild, AtEnd
<1>2. HeldBut(d, n) /\ p \in Places
  BY Preamble DEF PlaceFor
<1> HIDE DEF e
<1>3. Gap(d, p, d.last[p], Null) /\ PlacedBetween(d, e, p, d.last[p], n, Null)
  <2> HIDE DEF d
  <2> QED BY <1>1, <1>2, AtEndEffect DEF HeldBut
<1>4. \E i : /\ MovedTo(b, e, n, p, i)
             /\ Null = Null => i = Len(RemoveFirst(Children(b, p), n)) + 1
  <2>1. PICK l : l = d.last[p]
    OBVIOUS
  <2> QED BY <1>2, <1>3, <2>1, PlacedMoved
<1> QED BY <1>4 DEF e

\* InsertFirstChild makes n some child of p.
LEMMA FirstMoved ==
  ASSUME NEW b, Held(b), NEW n \in Live(b), NEW p, PlaceFor(b, p, n)
  PROVE  \E i : MovedTo(b, InsertFirstChild(b, p, n), n, p, i)
<1> DEFINE d == InsertChildPreamble(b, n)
           e == InsertFirstChild(b, p, n)
<1>1. e = AtFront(d, p, n)
  BY DEF InsertFirstChild, AtFront
<1>2. HeldBut(d, n) /\ p \in Places
  BY Preamble DEF PlaceFor
<1> HIDE DEF e
<1>3. Gap(d, p, Null, d.first[p]) /\ PlacedBetween(d, e, p, Null, n, d.first[p])
  <2> HIDE DEF d
  <2> QED BY <1>1, <1>2, AtFrontEffect DEF HeldBut
<1>4. \E i : MovedTo(b, e, n, p, i)
  <2>1. PICK r : r = d.first[p]
    OBVIOUS
  <2> QED BY <1>2, <1>3, <2>1, PlacedMoved
<1> QED BY <1>4 DEF e

\* InsertAfterChild makes n some child of p, or does nothing.
LEMMA AfterMoved ==
  ASSUME NEW b, Held(b), NEW n \in Live(b), NEW after \in Nodes,
         PlaceFor(b, b.parent[after], n), ~InsertsThroughNull(b, after, n)
  PROVE  LET e == InsertAfterChild(b, b.parent[after], after, n)
         IN  e = b \/ \E i : MovedTo(b, e, n, b.parent[after], i)
<1> DEFINE p == b.parent[after]
           d == InsertChildPreamble(b, n)
           e == InsertAfterChild(b, p, after, n)
<1>1. CASE after = n
  BY <1>1 DEF InsertAfterChild
<1>2. CASE after # n /\ b.next[after] = Null
  <2>1. e = InsertEndChild(b, p, n)
    BY <1>2 DEF InsertAfterChild
  <2> HIDE DEF p
  <2>2. \E i : MovedTo(b, e, n, p, i)
    BY <2>1, EndMoved DEF p
  <2> QED BY <2>2 DEF p
<1>3. CASE after # n /\ b.next[after] # Null
  <2>1. e = Behind(d, p, after, n)
    BY <1>3 DEF InsertAfterChild, Behind
  <2>2. d.next[after] # Null
    BY <1>3 DEF InsertsThroughNull
  <2>3. HeldBut(d, n) /\ \A a \in Nodes \ {n} : d.parent[a] = b.parent[a]
    BY Preamble
  <2>4. d.parent[after] = p
    BY <1>3, <2>3
  <2> HIDE DEF e, p
  <2>5. p \in Places
    BY DEF PlaceFor, p
  <2>6. Gap(d, p, after, d.next[after]) /\ PlacedBetween(d, e, p, after, n, d.next[after])
    <3> HIDE DEF d
    <3> QED BY <2>1, <2>2, <2>3, <2>4, <2>5, BehindEffect DEF HeldBut
  <2>7. \E i : MovedTo(b, e, n, p, i)
    <3>1. PICK r : r = d.next[after]
      OBVIOUS
    <3> QED BY <2>3, <2>5, <2>6, <3>1, PlacedMoved
  <2> QED BY <2>7 DEF e, p
<1> QED BY <1>1, <1>2, <1>3

\* RemoveFirst adds nothing.
LEMMA RemoveFirstFrom ==
  ASSUME NEW s \in Seq(Nodes), Once(s), NEW n, NEW i \in 1 .. Len(RemoveFirst(s, n))
  PROVE  \E j \in 1 .. Len(s) : RemoveFirst(s, n)[i] = s[j]
<1>1. PICK k \in Nat : Len(s) = k
  BY LenProperties
<1>2. CASE \A j \in 1 .. Len(s) : s[j] # n
  BY <1>2, RemoveFirstNone
<1>3. CASE \E j \in 1 .. Len(s) : s[j] = n
  <2>1. PICK j \in 1 .. Len(s) : s[j] = n
    BY <1>3
  <2>2. RemoveFirst(s, n) = RemoveAt(s, j)
    BY <1>1, <2>1, RemoveFirstAt
  <2>3. /\ Len(RemoveAt(s, j)) = Len(s) - 1
        /\ \A h \in 1 .. Len(s) - 1 : RemoveAt(s, j)[h] = IF h < j THEN s[h] ELSE s[h + 1]
    BY RemovedAt
  <2>4. i \in 1 .. k - 1 /\ i \in 1 .. k /\ i + 1 \in 1 .. k
    BY <1>1, <2>2, <2>3
  <2> QED BY <1>1, <2>2, <2>3, <2>4
<1> QED BY <1>2, <1>3

\* A free node has no children, and nothing is below it.
LEMMA FreeIsEmpty ==
  ASSUME NEW d, LinkInv(d), NEW n \in Nodes \ Live(d)
  PROVE  d.first[n] = Null /\ Children(d, n) = <<>>
<1>1. n \in Places /\ d.kind[n] = "free"
  BY Distinct DEF Live
<1>2. d.first[n] \in Nodes \cup {Null}
  BY <1>1, Kinds DEF LinkInv
<1>3. \A m \in Nodes : d.first[n] # m
  <2> SUFFICES ASSUME NEW m \in Nodes, d.first[n] = m PROVE FALSE
    OBVIOUS
  <2>1. d.parent[m] = n
    BY <1>1 DEF LinkInv, Firsts
  <2> QED BY <1>1, <2>1, Distinct DEF LinkInv, Placed
<1>4. d.first[n] = Null
  BY <1>2, <1>3
<1> QED BY <1>4, NoChildren

\* d is b without some children of p and what was below these.
Outside(b, d, p) ==
  /\ \A q \in Places : q \notin {p} \cup Below(b, p) => Children(d, q) = Children(b, q)
  /\ \A m \in Nodes : d.parent[m] # Null => d.parent[m] = b.parent[m]

\* A node that is deleted takes no other from its parent.
LEMMA DroppedParents ==
  ASSUME NEW d, NEW e, LinkInv(d), LinkInv(e), NEW n, Dropped(d, e, n),
         NEW m \in Nodes, e.parent[m] # Null
  PROVE  e.parent[m] = d.parent[m]
<1>1. PICK q \in Places : e.parent[m] = q
  BY Kinds DEF LinkInv
<1>2. PICK s, t : s = Children(d, q) /\ t = Children(e, q)
  OBVIOUS
<1>3. PICK k \in Nat : Spells(d, q, s, k)
  BY <1>2, ListSpelt
<1>4. PICK l \in Nat : Spells(e, q, t, l)
  BY <1>2, ListSpelt
<1>5. PICK i \in 1 .. l : t[i] = m
  BY <1>1, <1>4 DEF Spells
<1>6. t = RemoveFirst(s, n)
  <2>1. t = <<>> \/ t = RemoveFirst(s, n)
    BY <1>2 DEF Dropped
  <2>2. t # <<>>
    <3>1. Len(<<>>) = 0
      BY EmptySeq
    <3> QED BY <1>4, <1>5, <3>1 DEF Spells
  <2> QED BY <2>1, <2>2
<1>7. PICK j \in 1 .. k : t[i] = s[j]
  <2>1. s \in Seq(Nodes) /\ Once(s) /\ Len(s) = k
    BY <1>3 DEF Spells
  <2>2. i \in 1 .. Len(RemoveFirst(s, n))
    BY <1>4, <1>5, <1>6 DEF Spells
  <2> QED BY <1>6, <2>1, <2>2, RemoveFirstFrom
<1> QED BY <1>1, <1>3, <1>5, <1>7 DEF Spells

-----------------------------------------------------------------------------
(* The loops of DeleteChildren and Clear.                                   *)

\* The rounds of the two loops: a child of p is deleted, and a node without a place.
ChildRound(d, p) == IF d.first[p] = Null THEN d ELSE DeleteChild(d, d.first[p])
OrphanRound(d) == IF d.unlinked = <<>> THEN d ELSE DeleteNode(d, Head(d.unlinked))

\* A round of either loop.
Round(loop, d, p) == IF loop = "children" THEN ChildRound(d, p) ELSE OrphanRound(d)

\* f is what the loop leaves after each of k rounds.
Rounds(f, k, loop, start, p) ==
  f = [round \in 0 .. k |-> IF round = 0 THEN start ELSE Round(loop, f[round - 1], p)]

\* A loop may be run for any number of rounds.
LEMMA RoundsExist ==
  ASSUME NEW loop, NEW start, NEW p
  PROVE  \A k \in Nat : \E f : Rounds(f, k, loop, start, p)
<1> DEFINE T == {k \in Nat : \E f : Rounds(f, k, loop, start, p)}
<1>1. 0 \in T
  <2> DEFINE f == [round \in 0 .. 0 |-> start]
  <2>1. Rounds(f, 0, loop, start, p)
    BY DEF Rounds
  <2> QED BY <2>1
<1>2. ASSUME NEW k \in Nat, k \in T PROVE k + 1 \in T
  <2>1. PICK f : Rounds(f, k, loop, start, p)
    BY <1>2
  <2> DEFINE g == [round \in 0 .. k + 1 |->
                     IF round = k + 1 THEN Round(loop, f[k], p) ELSE f[round]]
  <2>2. \A round \in 0 .. k :
          f[round] = IF round = 0 THEN start ELSE Round(loop, f[round - 1], p)
    BY <2>1 DEF Rounds
  <2>3. \A round \in 0 .. k : g[round] = f[round]
    OBVIOUS
  <2>4. g[k + 1] = Round(loop, g[k], p) /\ k + 1 # 0 /\ (k + 1) - 1 = k
    BY <2>3
  <2>5. ASSUME NEW round \in 0 .. k + 1
        PROVE  g[round] = IF round = 0 THEN start ELSE Round(loop, g[round - 1], p)
    <3>1. CASE round = k + 1
      BY <2>4, <3>1
    <3>2. CASE round = 0
      BY <2>2, <2>3, <3>2
    <3>3. CASE round # k + 1 /\ round # 0
      <4>1. round \in 0 .. k /\ round - 1 \in 0 .. k
        BY <3>3
      <4> HIDE DEF g
      <4> QED BY <2>2, <2>3, <3>3, <4>1
    <3> QED BY <3>1, <3>2, <3>3
  <2>6. DOMAIN g = 0 .. k + 1 /\ g = [round \in 0 .. k + 1 |-> g[round]]
    OBVIOUS
  <2> HIDE DEF g
  <2>7. Rounds(g, k + 1, loop, start, p)
    BY <2>5, <2>6 DEF Rounds
  <2> QED BY <2>7
<1> HIDE DEF T
<1>3. Nat \subseteq T
  BY <1>1, <1>2, InductionSet
<1> QED BY <1>3 DEF T

\* What is left when some live nodes are deleted and those without a place stay.
Fewer(b, e) ==
  /\ Held(e) /\ Live(e) \subseteq Live(b)
  /\ Counted(b, Orphans(b)) => Counted(e, Orphans(e))

\* A document has at most MaxNodes live nodes, and fewer when one is deleted.
LEMMA LiveCount ==
  ASSUME NEW d
  PROVE  /\ IsFiniteSet(Live(d)) /\ Cardinality(Live(d)) \in Nat
         /\ Cardinality(Live(d)) <= MaxNodes
         /\ \A e, n : n \in Live(d) /\ Live(e) \subseteq Live(d) \ {n} =>
              Cardinality(Live(e)) < Cardinality(Live(d))
<1>1. Cardinality(Nodes) = MaxNodes /\ IsFiniteSet(Nodes) /\ Live(d) \in SUBSET Nodes
  <2>1. Cardinality(1 .. MaxNodes) = IF 1 > MaxNodes THEN 0 ELSE MaxNodes - 1 + 1
    BY FS_Interval, TreeAssumption
  <2> QED BY <2>1, NodesFinite, TreeAssumption DEF Nodes, Live
<1>2. IsFiniteSet(Live(d)) /\ Cardinality(Live(d)) \in Nat /\ Cardinality(Live(d)) <= MaxNodes
  BY <1>1, FS_Subset, FS_CardinalityType
<1>3. ASSUME NEW e, NEW n, n \in Live(d), Live(e) \subseteq Live(d) \ {n}
      PROVE  Cardinality(Live(e)) < Cardinality(Live(d))
  <2>1. Live(e) \in SUBSET Live(d) /\ Live(e) # Live(d) /\ IsFiniteSet(Live(e))
    BY <1>1, <1>3, NodesFinite
  <2>2. Cardinality(Live(e)) <= Cardinality(Live(d)) /\ Cardinality(Live(e)) # Cardinality(Live(d))
    BY <1>2, <2>1, FS_Subset
  <2> QED BY <1>2, <2>1, <2>2, FS_CardinalityType
<1> QED BY <1>2, <1>3

\* A round that finds a child deletes a live node; one that finds none, nothing.
LEMMA ChildRoundHeld ==
  ASSUME NEW b, Held(b), NEW p \in Places
  PROVE  LET e == ChildRound(b, p)
         IN  /\ Fewer(b, e) /\ Orphans(e) = Orphans(b)
             /\ b.first[p] = Null => e = b
             /\ b.first[p] # Null => Cardinality(Live(e)) < Cardinality(Live(b))
<1>1. CASE b.first[p] = Null
  BY <1>1 DEF ChildRound, Fewer
<1>2. CASE b.first[p] # Null
  <2> DEFINE n == b.first[p]
             e == DeleteChild(b, n)
  <2>1. n \in Nodes /\ b.parent[n] # Null
    BY <1>2, Kinds, Distinct DEF Held, LinkInv, Firsts
  <2> HIDE DEF n
  <2>2. Without(b, e, n) /\ n \in Live(b) /\ n \notin Orphans(b)
    BY <2>1, DeleteChildHeld
  <2>3. ChildRound(b, p) = e
    BY <1>2 DEF ChildRound, n
  <2> HIDE DEF e
  <2>4. Fewer(b, e) /\ Orphans(e) = Orphans(b)
    BY <2>2 DEF Without, Fewer
  <2>5. Cardinality(Live(e)) < Cardinality(Live(b))
    BY <2>2, LiveCount DEF Without
  <2> QED BY <1>2, <2>3, <2>4, <2>5
<1> QED BY <1>1, <1>2

\* A round that finds an orphan deletes it; one that finds none, nothing.
LEMMA OrphanRoundHeld ==
  ASSUME NEW b, Held(b), b.first[Doc] = Null
  PROVE  LET e == OrphanRound(b)
         IN  /\ Fewer(b, e) /\ e.first[Doc] = Null
             /\ b.unlinked = <<>> => e = b
             /\ b.unlinked # <<>> => Cardinality(Live(e)) < Cardinality(Live(b))
<1>1. CASE b.unlinked = <<>>
  BY <1>1 DEF OrphanRound, Fewer
<1>2. CASE b.unlinked # <<>>
  <2> DEFINE n == Head(b.unlinked)
             e == DeleteNode(b, n)
  <2>1. b.unlinked \in Seq(Nodes) /\ 1 \in 1 .. Len(b.unlinked) /\ n = b.unlinked[1]
    BY <1>2 DEF Held, Enumerates
  <2>2. n \in Nodes /\ n \in Orphans(b)
    BY <2>1 DEF Held, Enumerates
  <2> HIDE DEF n
  <2>3. n \in Live(b) /\ b.parent[n] = Null
    BY <2>2 DEF Orphans
  <2>4. Without(b, e, n) /\ e.first[Doc] = b.first[Doc]
    BY <2>3, DeleteNodeHeld
  <2>5. OrphanRound(b) = e
    BY <1>2 DEF OrphanRound, n
  <2> HIDE DEF e
  <2>6. Fewer(b, e)
    BY <2>4 DEF Without, Fewer
  <2>7. Cardinality(Live(e)) < Cardinality(Live(b))
    BY <2>3, <2>4, LiveCount DEF Without
  <2> QED BY <1>2, <2>4, <2>5, <2>6, <2>7
<1> QED BY <1>1, <1>2

\* A round of the loop of DeleteChildren stays inside.
LEMMA ChildRoundOutside ==
  ASSUME NEW b, LinkInv(b), NEW d, Held(d), NEW p \in Places, Outside(b, d, p)
  PROVE  Outside(b, ChildRound(d, p), p)
<1>1. CASE d.first[p] = Null
  BY <1>1 DEF ChildRound
<1>2. CASE d.first[p] # Null
  <2> DEFINE n == d.first[p]
             e == ChildRound(d, p)
             B == Below(b, p)
  <2>1. LinkInv(d) /\ n \in Nodes /\ n \in Places /\ d.parent[n] = p /\ d.parent[n] # Null
    BY <1>2, Kinds, Distinct DEF Held, LinkInv, Firsts
  <2>2. e = DeleteChild(d, n)
    BY <1>2 DEF ChildRound
  <2>3. LinkInv(e)
    BY ChildRoundHeld DEF Fewer, Held
  <2> HIDE DEF n, e
  <2>4. Dropped(d, e, n)
    BY <2>1, <2>2, DeletedChildLists
  <2>5. \A m \in Nodes : e.parent[m] # Null => e.parent[m] = b.parent[m]
    <3>1. \A m \in Nodes : e.parent[m] # Null => e.parent[m] = d.parent[m]
      BY <2>1, <2>3, <2>4, DroppedParents
    <3> QED BY <3>1 DEF Outside
  <2>6. \A q \in {p} \cup B : q \in Places /\ Kids(b, q) \subseteq B
    BY KidsBelow
  <2>7. \A q \in {p} \cup B : \A m \in Nodes : d.parent[m] = q => m \in B
    <3>1. \A q \in {p} \cup B : \A m \in Nodes : d.parent[m] = q => b.parent[m] = q
      BY <2>6, Distinct DEF Outside
    <3> QED BY <2>6, <3>1 DEF Kids
  <2>8. n \in B
    BY <2>1, <2>7
  <2>9. Below(d, n) \subseteq B
    <3>1. B \in SUBSET Nodes
      BY BelowClosed DEF LinkInv
    <3>2. \A k \in Places : d.first[k] \in Nodes => d.parent[d.first[k]] = k
      BY <2>1 DEF LinkInv, Firsts
    <3>3. \A k \in Nodes : d.next[k] \in Nodes => d.parent[d.next[k]] = d.parent[k]
                                                  /\ d.parent[k] # Null
      BY <2>1 DEF LinkInv, Sides
    <3>4. \A k \in B : d.first[k] \in B \cup {Null}
      <4> SUFFICES ASSUME NEW k \in B PROVE d.first[k] \in B \cup {Null}
        OBVIOUS
      <4>1. k \in Places /\ d.first[k] \in Nodes \cup {Null}
        BY <2>1, <3>1, Kinds, Distinct DEF LinkInv
      <4> QED BY <2>7, <3>2, <4>1
    <3>5. \A k \in B : d.next[k] \in B \cup {Null}
      <4> SUFFICES ASSUME NEW k \in B PROVE d.next[k] \in B \cup {Null}
        OBVIOUS
      <4>1. k \in Nodes /\ d.next[k] \in Nodes \cup {Null}
        BY <2>1, <3>1, Kinds DEF LinkInv
      <4>2. CASE d.next[k] \in Nodes
        <5>1. d.parent[d.next[k]] = d.parent[k] /\ d.parent[k] # Null
          BY <3>3, <4>1, <4>2
        <5>2. d.parent[k] = b.parent[k]
          BY <4>1, <5>1 DEF Outside
        <5>3. b.parent[k] \in {p} \cup B
          BY BelowParents
        <5> QED BY <2>7, <4>2, <5>1, <5>2, <5>3
      <4> QED BY <4>1, <4>2
    <3>6. d.first[n] \in B \cup {Null}
      BY <2>8, <3>4
    <3>7. Under0(d, n, B)
      BY <3>4, <3>5, <3>6 DEF Under0
    <3> QED BY <3>1, <3>7, BelowLeast
  <2>10. ASSUME NEW q \in Places, q \notin {p} \cup B PROVE Children(e, q) = Children(b, q)
    <3>1. Children(e, q) = RemoveFirst(Children(d, q), n)
      BY <2>4, <2>8, <2>9, <2>10 DEF Dropped
    <3>2. PICK s : s = Children(d, q)
      OBVIOUS
    <3>3. PICK k \in Nat : Spells(d, q, s, k)
      BY <2>1, <3>2, ListSpelt
    <3>4. \A i \in 1 .. Len(s) : s[i] # n
      BY <2>1, <2>10, <3>3 DEF Spells
    <3>5. RemoveFirst(s, n) = s
      BY <3>4, RemoveFirstNone
    <3> QED BY <2>10, <3>1, <3>2, <3>5 DEF Outside
  <2> QED BY <2>5, <2>10 DEF Outside, e
<1> QED BY <1>1, <1>2

\* DeleteChildren ends: MaxNodes rounds leave p without a child, and
\* take nothing from elsewhere.
LEMMA DeleteChildrenHeld ==
  ASSUME NEW b, Held(b), NEW p \in Places
  PROVE  LET e == DeleteChildren(b, p)
         IN  Fewer(b, e) /\ Orphans(e) = Orphans(b) /\ e.first[p] = Null /\ Outside(b, e, p)
<1> DEFINE left[round \in 0 .. MaxNodes] ==
             IF round = 0 THEN b
             ELSE LET before == left[round - 1]
                  IN  IF before.first[p] = Null THEN before ELSE DeleteChild(before, before.first[p])
<1>1. DeleteChildren(b, p) = [left[MaxNodes] EXCEPT !.first[p] = Null, !.last[p] = Null]
  BY DEF DeleteChildren
<1>2. left = [round \in 0 .. MaxNodes |-> IF round = 0 THEN b ELSE ChildRound(left[round - 1], p)]
  <2>1. \E f : Rounds(f, MaxNodes, "children", b, p)
    BY RoundsExist, TreeAssumption
  <2>2. \E f : f = [round \in 0 .. MaxNodes |->
                      IF round = 0 THEN b
                      ELSE LET before == f[round - 1]
                           IN  IF before.first[p] = Null THEN before
                               ELSE DeleteChild(before, before.first[p])]
    BY <2>1 DEF Rounds, Round, ChildRound
  <2> QED BY <2>2 DEF ChildRound
<1> HIDE DEF left
<1>3. left[0] = b /\ \A round \in 1 .. MaxNodes : left[round] = ChildRound(left[round - 1], p)
  BY <1>2, TreeAssumption
<1> DEFINE P(r) == /\ Fewer(b, left[r]) /\ Orphans(left[r]) = Orphans(b) /\ Outside(b, left[r], p)
                   /\ left[r].first[p] # Null => Cardinality(Live(left[r])) + r <= MaxNodes
           T == {r \in Nat : r <= MaxNodes => P(r)}
<1>4. P(0)
  BY <1>3, LiveCount DEF Fewer, Outside
<1>5. ASSUME NEW r \in Nat, r \in T PROVE r + 1 \in T
  <2> SUFFICES ASSUME r + 1 <= MaxNodes PROVE P(r + 1)
    BY <1>5
  <2> DEFINE d == left[r]
             e == left[r + 1]
  <2>1. P(r) /\ e = ChildRound(d, p)
    <3>1. r <= MaxNodes /\ r + 1 \in 1 .. MaxNodes /\ (r + 1) - 1 = r
      BY TreeAssumption
    <3>2. e = ChildRound(d, p)
      BY <1>3, <3>1
    <3> QED BY <1>5, <3>1, <3>2
  <2>2. Held(d) /\ Live(d) \subseteq Live(b) /\ Orphans(d) = Orphans(b) /\ Outside(b, d, p)
        /\ (Counted(b, Orphans(b)) => Counted(d, Orphans(d)))
        /\ (d.first[p] # Null => Cardinality(Live(d)) + r <= MaxNodes)
    BY <2>1 DEF Fewer
  <2> HIDE DEF d, e
  <2>3. /\ Fewer(d, e) /\ Orphans(e) = Orphans(d)
        /\ d.first[p] = Null => e = d
        /\ d.first[p] # Null => Cardinality(Live(e)) < Cardinality(Live(d))
    BY <2>1, <2>2, ChildRoundHeld
  <2>4. Fewer(b, e) /\ Orphans(e) = Orphans(b) /\ Outside(b, e, p)
    <3>1. Outside(b, e, p)
      BY <2>1, <2>2, ChildRoundOutside DEF Held
    <3> QED BY <2>2, <2>3, <3>1 DEF Fewer
  <2>5. Cardinality(Live(d)) \in Nat /\ Cardinality(Live(e)) \in Nat
    BY LiveCount
  <2>6. e.first[p] # Null => Cardinality(Live(e)) + (r + 1) <= MaxNodes
    BY <2>2, <2>3, <2>5, TreeAssumption
  <2> QED BY <2>4, <2>6 DEF e
<1>6. P(MaxNodes)
  <2>1. 0 \in T
    BY <1>4
  <2> HIDE DEF P
  <2>2. Nat \subseteq T
    <3> HIDE DEF T
    <3> QED BY <1>5, <2>1, InductionSet
  <2> QED BY <2>2, TreeAssumption
<1> DEFINE e == left[MaxNodes]
<1>7. Fewer(b, e) /\ Orphans(e) = Orphans(b) /\ Outside(b, e, p)
      /\ (e.first[p] # Null => Cardinality(Live(e)) + MaxNodes <= MaxNodes)
  BY <1>6
<1> HIDE DEF e, P, T
<1>8. LinkInv(e) /\ IsDom(e)
  BY <1>7 DEF Fewer, Held, LinkInv
<1>9. e.first[p] = Null
  <2> SUFFICES ASSUME e.first[p] # Null PROVE FALSE
    OBVIOUS
  <2>1. Cardinality(Live(e)) = 0 /\ IsFiniteSet(Live(e))
    BY <1>7, LiveCount, TreeAssumption
  <2>2. Live(e) = {}
    BY <2>1, FS_EmptySet
  <2>3. PICK n \in Nodes : e.first[p] = n
    BY <1>8, Kinds
  <2>4. e.parent[n] = p /\ p # Null
    BY <1>8, <2>3, Distinct DEF LinkInv, Firsts
  <2>5. n \in Live(e)
    BY <1>8, <2>4 DEF LinkInv, Placed, Live
  <2> QED BY <2>2, <2>5
<1>10. e.last[p] = Null
  BY <1>8, <1>9 DEF LinkInv, Ends
<1>11. [e EXCEPT !.first[p] = Null, !.last[p] = Null] = e
  <2>1. [e.first EXCEPT ![p] = Null] = e.first /\ [e.last EXCEPT ![p] = Null] = e.last
    BY <1>8, <1>9, <1>10 DEF IsDom
  <2>2. [e EXCEPT !.first[p] = Null, !.last[p] = Null] =
          [e EXCEPT !.first = [e.first EXCEPT ![p] = Null], !.last = [e.last EXCEPT ![p] = Null]]
    BY <1>8 DEF IsDom
  <2>3. [e EXCEPT !.first = e.first, !.last = e.last] = e
    BY <1>8 DEF IsDom
  <2> QED BY <2>1, <2>2, <2>3
<1>12. DeleteChildren(b, p) = e
  BY <1>1, <1>11 DEF e
<1> QED BY <1>7, <1>9, <1>12

\* DeleteChildren empties the lists of p and of all that was below it, and no others.
LEMMA ChildrenDeletedLists ==
  ASSUME NEW b, Held(b), NEW p \in Places, NEW q \in Places
  PROVE  Children(DeleteChildren(b, p), q) =
           IF q = p \/ q \in Below(b, p) THEN <<>> ELSE Children(b, q)
<1> DEFINE e == DeleteChildren(b, p)
           B == Below(b, p)
           S == Places \ B
<1>1. /\ LinkInv(b) /\ LinkInv(e) /\ Orphans(e) = Orphans(b) /\ e.first[p] = Null
      /\ Outside(b, e, p)
  BY DeleteChildrenHeld DEF Fewer, Held
<1> HIDE DEF e
<1>2. \A m \in B : m \in Nodes /\ b.parent[m] \in {p} \cup B /\ b.parent[m] # Null
  BY <1>1, BelowParents
<1>3. Kids(e, p) = {}
  BY <1>1, NoFirst
<1>4. Doc \in S /\ S \in SUBSET Places
  BY <1>2, Distinct DEF Places
<1>5. Orphans(e) \subseteq S
  BY <1>1, <1>2, Distinct DEF Orphans, Live
<1>6. ASSUME NEW m \in Nodes, e.parent[m] \in S, m \in B PROVE FALSE
  <2>1. e.parent[m] # Null
    BY <1>6, Distinct
  <2>2. e.parent[m] = b.parent[m]
    BY <1>1, <2>1 DEF Outside
  <2>3. e.parent[m] = p
    BY <1>2, <1>6, <2>2
  <2> QED BY <1>3, <2>3 DEF Kids
<1>7. Hanging(e, S)
  BY <1>4, <1>5, <1>6, Distinct DEF Hanging
<1> HIDE DEF S
<1>8. Live(e) \subseteq S
  BY <1>1, <1>4, <1>7 DEF LinkInv, Hang
<1>9. CASE q = p
  BY <1>1, <1>9, NoChildren DEF e
<1>10. CASE q \in B
  <2>1. q \in Nodes \ Live(e)
    BY <1>2, <1>8, <1>10 DEF S
  <2> QED BY <1>1, <1>10, <2>1, FreeIsEmpty DEF e
<1>11. CASE q \notin {p} \cup B
  BY <1>1, <1>11 DEF Outside, e
<1> QED BY <1>9, <1>10, <1>11

\* A document without first child and without orphans has no node.
LEMMA NothingHangs ==
  ASSUME NEW d, LinkInv(d), Orphans(d) = {}, d.first[Doc] = Null
  PROVE  Live(d) = {}
<1>1. Kids(d, Doc) = {}
  BY NoFirst DEF Places
<1>2. Hanging(d, {Doc}) /\ {Doc} \in SUBSET Places
  BY <1>1 DEF Hanging, Kids, Places
<1>3. Live(d) \subseteq {Doc}
  BY <1>2 DEF LinkInv, Hang
<1> QED BY <1>3, Distinct DEF Live

\* Clear deletes every node, each by one call, and leaves the pools' counts at
\* what they say of an empty document.
LEMMA ClearDocumentHeld ==
  ASSUME NEW b, Held(b)
  PROVE  LET e == ClearDocument(b)
         IN  Fewer(b, e) /\ Live(e) = {} /\ Orphans(e) = {}
<1> DEFINE start == DeleteChildren(b, Doc)
<1> DEFINE left[round \in 0 .. MaxNodes] ==
             IF round = 0 THEN DeleteChildren(b, Doc)
             ELSE LET before == left[round - 1]
                  IN  IF before.unlinked = <<>> THEN before
                      ELSE DeleteNode(before, Head(before.unlinked))
<1>1. ClearDocument(b) = left[MaxNodes]
  BY DEF ClearDocument
<1>2. left = [round \in 0 .. MaxNodes |->
                IF round = 0 THEN DeleteChildren(b, Doc) ELSE OrphanRound(left[round - 1])]
  <2>1. \E f : Rounds(f, MaxNodes, "orphans", DeleteChildren(b, Doc), Doc)
    BY RoundsExist, TreeAssumption
  <2>2. \E f : f = [round \in 0 .. MaxNodes |->
                      IF round = 0 THEN DeleteChildren(b, Doc)
                      ELSE LET before == f[round - 1]
                           IN  IF before.unlinked = <<>> THEN before
                               ELSE DeleteNode(before, Head(before.unlinked))]
    BY <2>1 DEF Rounds, Round, OrphanRound
  <2> QED BY <2>2 DEF OrphanRound
<1> HIDE DEF left
<1>3. /\ left[0] = start
      /\ \A round \in 1 .. MaxNodes : left[round] = OrphanRound(left[round - 1])
  BY <1>2, TreeAssumption
<1>4. Fewer(b, start) /\ start.first[Doc] = Null
  BY DeleteChildrenHeld DEF Places
<1> HIDE DEF start
<1> DEFINE P(r) == /\ Fewer(b, left[r]) /\ left[r].first[Doc] = Null
                   /\ left[r].unlinked # <<>> => Cardinality(Live(left[r])) + r <= MaxNodes
           T == {r \in Nat : r <= MaxNodes => P(r)}
<1>5. P(0)
  BY <1>3, <1>4, LiveCount
<1>6. ASSUME NEW r \in Nat, r \in T PROVE r + 1 \in T
  <2> SUFFICES ASSUME r + 1 <= MaxNodes PROVE P(r + 1)
    BY <1>6
  <2> DEFINE d == left[r]
             e == left[r + 1]
  <2>1. P(r) /\ e = OrphanRound(d)
    <3>1. r <= MaxNodes /\ r + 1 \in 1 .. MaxNodes /\ (r + 1) - 1 = r
      BY TreeAssumption
    <3>2. e = OrphanRound(d)
      BY <1>3, <3>1
    <3> QED BY <1>6, <3>1, <3>2
  <2>2. Held(d) /\ Live(d) \subseteq Live(b) /\ d.first[Doc] = Null
        /\ (Counted(b, Orphans(b)) => Counted(d, Orphans(d)))
        /\ (d.unlinked # <<>> => Cardinality(Live(d)) + r <= MaxNodes)
    BY <2>1 DEF Fewer
  <2> HIDE DEF d, e
  <2>3. /\ Fewer(d, e) /\ e.first[Doc] = Null
        /\ d.unlinked = <<>> => e = d
        /\ d.unlinked # <<>> => Cardinality(Live(e)) < Cardinality(Live(d))
    BY <2>1, <2>2, OrphanRoundHeld
  <2>4. Fewer(b, e)
    BY <2>2, <2>3 DEF Fewer
  <2>5. Cardinality(Live(d)) \in Nat /\ Cardinality(Live(e)) \in Nat
    BY LiveCount
  <2>6. e.unlinked # <<>> => Cardinality(Live(e)) + (r + 1) <= MaxNodes
    BY <2>2, <2>3, <2>5, TreeAssumption
  <2> QED BY <2>3, <2>4, <2>6 DEF e
<1>7. P(MaxNodes)
  <2>1. 0 \in T
    BY <1>5
  <2> HIDE DEF P
  <2>2. Nat \subseteq T
    <3> HIDE DEF T
    <3> QED BY <1>6, <2>1, InductionSet
  <2> QED BY <2>2, TreeAssumption
<1> DEFINE e == left[MaxNodes]
<1>8. Fewer(b, e) /\ e.first[Doc] = Null
      /\ (e.unlinked # <<>> => Cardinality(Live(e)) + MaxNodes <= MaxNodes)
  BY <1>7
<1> HIDE DEF e, P, T
<1>9. LinkInv(e) /\ Enumerates(e.unlinked, Orphans(e))
  BY <1>8 DEF Fewer, Held
<1>10. Orphans(e) = {}
  <2>1. CASE e.unlinked = <<>>
    BY <1>9, <2>1 DEF Enumerates, Orphans, Live
  <2>2. CASE e.unlinked # <<>>
    <3>1. Cardinality(Live(e)) = 0 /\ IsFiniteSet(Live(e))
      BY <1>8, <2>2, LiveCount, TreeAssumption
    <3>2. Live(e) = {}
      BY <3>1, FS_EmptySet
    <3> QED BY <3>2 DEF Orphans
  <2> QED BY <2>1, <2>2
<1>11. Live(e) = {}
  BY <1>8, <1>9, <1>10, NothingHangs
<1> QED BY <1>1, <1>8, <1>10, <1>11 DEF e

\* Clear leaves nothing.
LEMMA ClearedLists ==
  ASSUME NEW b, Held(b), NEW q \in Places
  PROVE  Children(ClearDocument(b), q) = <<>>
<1> DEFINE e == ClearDocument(b)
<1>1. LinkInv(e) /\ Live(e) = {}
  BY ClearDocumentHeld DEF Fewer, Held
<1> HIDE DEF e
<1>2. e.first[q] \in Nodes \cup {Null}
  BY <1>1, Kinds DEF LinkInv
<1>3. e.first[q] \notin Nodes
  <2> SUFFICES ASSUME NEW m \in Nodes, e.first[q] = m PROVE FALSE
    OBVIOUS
  <2>1. e.parent[m] = q
    BY <1>1 DEF LinkInv, Firsts
  <2>2. m \in Live(e)
    BY <1>1, <2>1, Distinct DEF LinkInv, Placed, Live
  <2> QED BY <1>1, <2>2
<1> QED BY <1>2, <1>3, NoChildren DEF e

-----------------------------------------------------------------------------
(* The invariant of the parser and of the calls of its user. *)

\* open is the document and then the nodes of O, the elements that are open:
\* each once.
Nested(open, O) ==
  /\ open \in Seq(Places) /\ open # <<>> /\ open[1] = Doc
  /\ \A i \in 2 .. Len(open) : open[i] \in O
  /\ \A n \in O : \E i \in 2 .. Len(open) : open[i] = n
  /\ \A i, j \in 2 .. Len(open) : open[i] = open[j] => i = j

\* The record of a parse and the types of the fields that the steps test.
IsParse(p) ==
  /\ p = [stage |-> p.stage, source |-> p.source, open |-> p.open, error |-> p.error,
          read |-> p.read, lost |-> p.lost]
  /\ p.stage \in {"idle", "reading", "unwinding", "ended"}
  /\ p.lost \in BOOLEAN

\* While a parse runs, the nodes without a place are the open elements.
Running(d, p) ==
  p.stage \in {"reading", "unwinding"} =>
    /\ Nested(p.open, Orphans(d))
    /\ p.source \in {"file", "memory"}
    /\ p.stage = "reading" => p.error = "none"
    /\ p.stage = "unwinding" /\ p.error = "none" => Len(p.open) > 1

\* When a parse has ended no node is without a place; a failed
\* Parse(const char* ) leaves no node at all.
Ended(d, p) ==
  p.stage = "ended" =>
    /\ Orphans(d) = {}
    /\ p.source = "memory" /\ p.error # "none" => Live(d) = {}

\* The pools are right until a parse meets an error, and again once it has ended,
\* unless it was of a file.
InCount(d, p) ==
  ~p.lost /\ (p.error = "none" \/ p.stage \in {"idle", "ended"}) => Counted(d, Orphans(d))

\* What holds of a document d and a parse p in every state.
Sound(d, p) == Held(d) /\ IsParse(p) /\ Running(d, p) /\ Ended(d, p) /\ InCount(d, p)

\* The inductive invariant.
XmlInv == Sound(dom, parse)

\* Orphans are live nodes.
LEMMA OrphansOf == \A d : Orphans(d) \in SUBSET Nodes /\ Orphans(d) \subseteq Live(d)
BY DEF Orphans, Live

\* The innermost open element, and the one around it.
LEMMA NestedTop ==
  ASSUME NEW open, NEW O \in SUBSET Nodes, Nested(open, O)
  PROVE  /\ Len(open) \in Nat \ {0} /\ (Len(open) = 1 \/ Len(open) > 1)
         /\ Last(open) = Doc <=> Len(open) = 1
         /\ Len(open) = 1 => O = {}
         /\ Len(open) > 1 => Last(open) \in O
         /\ Len(open) > 1 => open[Len(open) - 1] \in (O \ {Last(open)}) \cup {Doc}
<1>1. Len(open) \in Nat \ {0} /\ Last(open) = open[Len(open)]
      /\ (Len(open) = 1 \/ Len(open) > 1)
  <2>1. PICK k \in Nat : k = Len(open) /\ k # 0
    BY DEF Nested
  <2> QED BY <2>1 DEF Last
<1>2. Len(open) > 1 => Len(open) \in 2 .. Len(open)
  BY <1>1
<1>3. Len(open) > 1 => Last(open) \in O
  BY <1>1, <1>2 DEF Nested
<1>4. Last(open) = Doc <=> Len(open) = 1
  <2>1. Len(open) = 1 => Last(open) = Doc
    BY <1>1 DEF Nested
  <2>2. Len(open) > 1 => Last(open) # Doc
    BY <1>3, Distinct
  <2> QED BY <1>1, <2>1, <2>2
<1>5. Len(open) = 1 => O = {}
  BY <1>1 DEF Nested
<1>6. ASSUME Len(open) > 1
      PROVE  open[Len(open) - 1] \in (O \ {Last(open)}) \cup {Doc}
  <2>1. CASE Len(open) = 2
    BY <2>1 DEF Nested
  <2>2. CASE Len(open) # 2
    <3>1. PICK k \in Nat : k = Len(open)
      BY <1>1
    <3>2. k - 1 \in 2 .. k /\ k - 1 # k
      BY <1>6, <2>2, <3>1
    <3> QED BY <1>1, <1>2, <1>6, <3>1, <3>2 DEF Nested
  <2> QED BY <2>1, <2>2
<1> QED BY <1>1, <1>3, <1>4, <1>5, <1>6

\* An element that is opened goes on top.
LEMMA NestedPush ==
  ASSUME NEW open, NEW O \in SUBSET Nodes, Nested(open, O), NEW n \in Nodes, n \notin O
  PROVE  Nested(Append(open, n), O \cup {n})
<1> DEFINE t == Append(open, n)
<1>1. open \in Seq(Places) /\ Len(open) \in Nat \ {0} /\ n \in Places
  BY NestedTop, Distinct DEF Nested
<1>2. /\ t \in Seq(Places) /\ t # <<>> /\ Len(t) = Len(open) + 1 /\ t[Len(t)] = n
      /\ \A i \in 1 .. Len(open) : t[i] = open[i]
  BY <1>1
<1> HIDE DEF t
<1>3. t[1] = Doc
  BY <1>1, <1>2 DEF Nested
<1>4. \A i \in 2 .. Len(t) : i = Len(t) \/ i \in 2 .. Len(open)
  BY <1>1, <1>2
<1>5. \A i \in 2 .. Len(open) : t[i] = open[i] /\ open[i] \in O /\ i \in 2 .. Len(t)
  BY <1>1, <1>2 DEF Nested
<1>6. \A i \in 2 .. Len(t) : t[i] \in O \cup {n}
  BY <1>2, <1>4, <1>5
<1>7. \A m \in O \cup {n} : \E i \in 2 .. Len(t) : t[i] = m
  <2>1. Len(t) \in 2 .. Len(t)
    BY <1>1, <1>2
  <2> QED BY <1>2, <1>5, <2>1 DEF Nested
<1>8. \A i, j \in 2 .. Len(t) : t[i] = t[j] => i = j
  BY <1>2, <1>4, <1>5 DEF Nested
<1> QED BY <1>2, <1>3, <1>6, <1>7, <1>8 DEF Nested, t

\* An element that is closed or deleted comes off.
LEMMA NestedPop ==
  ASSUME NEW open, NEW O \in SUBSET Nodes, Nested(open, O), Len(open) > 1
  PROVE  Nested(Front(open), O \ {Last(open)})
<1> DEFINE t == Front(open)
<1>1. open \in Seq(Places) /\ Len(open) \in Nat /\ Last(open) = open[Len(open)]
  BY DEF Nested, Last
<1>2. /\ t \in Seq(Places) /\ t # <<>> /\ Len(t) = Len(open) - 1
      /\ \A i \in 1 .. Len(open) - 1 : t[i] = open[i]
  <2>1. t = SubSeq(open, 1, Len(open) - 1)
    BY DEF Front
  <2>2. /\ t \in Seq(Places) /\ Len(t) = Len(open) - 1
        /\ \A i \in 1 .. Len(open) - 1 : t[i] = open[i]
    BY <1>1, <2>1
  <2>3. Len(t) # 0
    BY <1>1, <2>2
  <2> QED BY <2>2, <2>3
<1> HIDE DEF t
<1>3. t[1] = Doc
  BY <1>1, <1>2 DEF Nested
<1>4. \A i \in 2 .. Len(t) : t[i] = open[i] /\ i \in 2 .. Len(open) /\ i # Len(open)
  BY <1>1, <1>2
<1>5. Len(open) \in 2 .. Len(open)
  BY <1>1
<1>6. \A i \in 2 .. Len(t) : t[i] \in O \ {Last(open)}
  BY <1>1, <1>4, <1>5 DEF Nested
<1>7. ASSUME NEW m \in O \ {Last(open)} PROVE \E i \in 2 .. Len(t) : t[i] = m
  <2>1. PICK i \in 2 .. Len(open) : open[i] = m
    BY DEF Nested
  <2>2. i # Len(open)
    BY <1>1, <2>1
  <2>3. i \in 2 .. Len(t) /\ i \in 1 .. Len(open) - 1
    BY <1>1, <1>2, <2>1, <2>2
  <2> QED BY <1>2, <2>1, <2>3
<1>8. \A i, j \in 2 .. Len(t) : t[i] = t[j] => i = j
  BY <1>4 DEF Nested
<1> QED BY <1>2, <1>3, <1>6, <1>7, <1>8 DEF Nested, t

\* Attributes are in no list of nodes.
LEMMA SameHeld ==
  ASSUME NEW d, NEW e, Held(d), SameTree(d, e), e.unlinked = d.unlinked
  PROVE  /\ Held(e) /\ Live(e) = Live(d) /\ Orphans(e) = Orphans(d)
         /\ e.untracked = d.untracked /\ Counted(d, Orphans(d)) => Counted(e, Orphans(e))
<1>1. LinkInv(e) /\ Live(e) = Live(d) /\ Orphans(e) = Orphans(d)
  BY SameTreeKeeps DEF Held
<1> QED BY <1>1, CountedSame DEF Held, SameTree

\* A change of attributes is no change of the tree.
LEMMA AttributesOnly ==
  ASSUME NEW d, Held(d), NEW n, NEW list
  PROVE  LET e == [d EXCEPT !.attrs[n] = list]
         IN  SameTree(d, e) /\ e.unlinked = d.unlinked /\ e.untracked = d.untracked
<1> DEFINE e == [d EXCEPT !.attrs[n] = list]
           a == [d.attrs EXCEPT ![n] = list]
<1>1. IsDom(d)
  BY DEF Held, LinkInv
<1>2. e = [d EXCEPT !.attrs = a]
  OBVIOUS
<1> HIDE DEF a, e
<1>3. e = [kind |-> d.kind, name |-> d.name, attrs |-> a, parent |-> d.parent,
           prev |-> d.prev, next |-> d.next, first |-> d.first, last |-> d.last,
           unlinked |-> d.unlinked, untracked |-> d.untracked]
  BY <1>1, <1>2 DEF IsDom
<1>4. IsDom(e)
  BY <1>1, <1>3 DEF IsDom
<1>5. SameTree(d, e) /\ e.unlinked = d.unlinked /\ e.untracked = d.untracked
  BY <1>3, <1>4 DEF SameTree
<1> QED BY <1>5 DEF e

-----------------------------------------------------------------------------
(* Every step keeps the invariant. *)

\* A token is read, and the elements that are open stay open.
LEMMA GoesOn ==
  ASSUME NEW d, NEW p, Sound(d, p), p.stage = "reading", NEW e, NEW q, IsParse(q),
         q.stage = "reading", q.source = p.source, q.open = p.open, q.error = p.error,
         q.lost = p.lost,
         Held(e), Orphans(e) = Orphans(d), Counted(d, Orphans(d)) => Counted(e, Orphans(e))
  PROVE  Sound(e, q)
BY DEF Sound, Running, Ended, InCount

\* A token does not read well: what was made of it is gone again.
LEMMA GoesWrong ==
  ASSUME NEW d, NEW p, Sound(d, p), p.stage = "reading", NEW e, NEW q, IsParse(q),
         q.stage = "unwinding", q.source = p.source, q.open = p.open, q.error # "none",
         Held(e), Orphans(e) = Orphans(d)
  PROVE  Sound(e, q)
BY DEF Sound, Running, Ended, InCount

\* The innermost open element n is placed, and with that closed.
LEMMA GoesOut ==
  ASSUME NEW d, NEW p, Sound(d, p), p.stage = "reading", Len(p.open) > 1,
         NEW e, NEW q, IsParse(q),
         q.stage = "reading", q.source = p.source, q.open = Front(p.open), q.error = p.error,
         q.lost = p.lost, Inserted(d, e, Last(p.open))
  PROVE  Sound(e, q)
<1>1. Nested(p.open, Orphans(d))
  BY DEF Sound, Running
<1>2. Nested(q.open, Orphans(d) \ {Last(p.open)})
  BY <1>1, NestedPop, OrphansOf
<1> QED BY <1>2 DEF Sound, Running, Ended, InCount, Inserted

\* The innermost open element n is deleted by the activation around it.
LEMMA GoesBack ==
  ASSUME NEW d, NEW p, Sound(d, p), p.stage \in {"reading", "unwinding"}, Len(p.open) > 1,
         NEW e, NEW q, IsParse(q),
         q.stage = "unwinding", q.source = p.source, q.open = Front(p.open), q.error # "none",
         e = Discard(d, Last(p.open))
  PROVE  Sound(e, q)
<1> DEFINE n == Last(p.open)
<1>1. Held(d) /\ Nested(p.open, Orphans(d)) /\ p.source \in {"file", "memory"}
  BY DEF Sound, Running
<1>2. Nested(q.open, Orphans(d) \ {n}) /\ n \in Orphans(d) /\ Orphans(d) \in SUBSET Nodes
  BY <1>1, NestedPop, NestedTop, OrphansOf
<1> HIDE DEF n
<1>3. Deleted(d, DestroyNode(d, n), n)
  BY <1>1, <1>2, DestroyHeld DEF Held
<1>4. Held(e) /\ Orphans(e) = Orphans(d) \ {n}
  BY <1>3 DEF Deleted, Discard, n
<1> QED BY <1>1, <1>2, <1>4 DEF Sound, Running, Ended, InCount

\* A node is created, and the open element is a place for it.
LEMMA OpenIsPlace ==
  ASSUME NEW d, NEW p, Sound(d, p), p.stage = "reading", NEW e, NEW n, NEW kind,
         Created(d, e, n, kind)
  PROVE  PlaceFor(e, Last(p.open), n)
<1> DEFINE o == Last(p.open)
<1>1. o = Doc \/ o \in Orphans(d)
  <2>1. Nested(p.open, Orphans(d)) /\ Orphans(d) \in SUBSET Nodes
    BY OrphansOf DEF Sound, Running
  <2>2. Len(p.open) = 1 \/ Len(p.open) > 1
    BY <2>1, NestedTop
  <2> QED BY <2>1, <2>2, NestedTop
<1> HIDE DEF o
<1>2. n \in Orphans(e) /\ n \notin Live(d) /\ LinkInv(e) /\ Orphans(e) = Orphans(d) \cup {n}
  BY DEF Created, Held
<1>3. n \in Nodes /\ n \in Places
  BY <1>2, OrphanAlone, Distinct
<1>4. o \in Places /\ (o # Doc => e.kind[o] # "free") /\ o # n
  <2>1. CASE o = Doc
    BY <1>3, <2>1, Distinct DEF Places
  <2>2. CASE o # Doc
    BY <1>1, <1>2, <2>2, Distinct DEF Orphans, Live, Created
  <2> QED BY <2>1, <2>2
<1>5. o \notin Below(e, n)
  <2>1. \A m \in Below(e, n) : m \in Nodes /\ e.parent[m] # Null
    BY <1>2, <1>3, BelowParents
  <2>2. o # Doc => e.parent[o] = Null
    BY <1>1, <1>2 DEF Orphans
  <2> QED BY <2>1, <2>2, Distinct
<1> QED BY <1>4, <1>5 DEF PlaceFor, o

\* A node that is created and deleted at once leaves the document as it was.
LEMMA CreatedDiscarded ==
  ASSUME NEW d, NEW e, NEW n, NEW kind, Created(d, e, n, kind)
  PROVE  Held(Discard(e, n)) /\ Orphans(Discard(e, n)) = Orphans(d)
<1>1. Held(e) /\ n \in Orphans(e) /\ Orphans(e) \in SUBSET Nodes /\ n \notin Orphans(d)
      /\ Orphans(e) = Orphans(d) \cup {n}
  BY OrphansOf DEF Created
<1>2. Deleted(e, DestroyNode(e, n), n)
  BY <1>1, DestroyHeld DEF Held
<1> QED BY <1>1, <1>2 DEF Deleted, Discard

\* A node that is created and placed is no orphan.
LEMMA CreatedPlaced ==
  ASSUME NEW d, NEW p, Sound(d, p), p.stage = "reading", NEW e, NEW n, NEW kind,
         Created(d, e, n, kind)
  PROVE  LET f == InsertEndChild(e, Last(p.open), n)
         IN  /\ Held(f) /\ Orphans(f) = Orphans(d)
             /\ Counted(d, Orphans(d)) => Counted(f, Orphans(f))
<1> DEFINE o == Last(p.open)
           f == InsertEndChild(e, o, n)
<1>1. Held(e) /\ n \in Live(e) /\ n \notin Orphans(d) /\ Orphans(e) = Orphans(d) \cup {n}
  BY OrphansOf DEF Created
<1>2. PlaceFor(e, o, n)
  BY OpenIsPlace
<1> HIDE DEF o
<1>3. Inserted(e, f, n)
  BY <1>1, <1>2, EndInserted
<1> HIDE DEF f
<1>4. Orphans(f) = Orphans(d)
  BY <1>1, <1>3 DEF Inserted
<1>5. Held(f) /\ (Counted(d, Orphans(d)) => Counted(f, Orphans(f)))
  BY <1>3 DEF Inserted, Created
<1> QED BY <1>4, <1>5 DEF f, o

\* A parse with another sequence of open elements.
WithOpen(p, open) == [p EXCEPT !.open = open]

\* The record of a parse after a step.
LEMMA ParseRecord ==
  ASSUME NEW p, IsParse(p)
  PROVE  /\ \A token : LET q == [p EXCEPT !.read = Append(@, token)]
                       IN  /\ IsParse(q)
                           /\ q.stage = p.stage /\ q.source = p.source /\ q.open = p.open
                           /\ q.error = p.error /\ q.lost = p.lost
         /\ \A error : LET q == Fails(p, error)
                       IN  /\ IsParse(q)
                           /\ q.stage = "unwinding" /\ q.source = p.source /\ q.open = p.open
                           /\ q.error = error /\ q.lost = p.lost
<1>1. ASSUME NEW token
      PROVE  LET q == [p EXCEPT !.read = Append(@, token)]
             IN  /\ IsParse(q)
                 /\ q.stage = p.stage /\ q.source = p.source /\ q.open = p.open
                 /\ q.error = p.error /\ q.lost = p.lost
  <2> DEFINE q == [p EXCEPT !.read = Append(@, token)]
             r == Append(p.read, token)
  <2>1. q = [p EXCEPT !.read = r]
    OBVIOUS
  <2> HIDE DEF q, r
  <2>2. q = [stage |-> p.stage, source |-> p.source, open |-> p.open, error |-> p.error,
             read |-> r, lost |-> p.lost]
    BY <2>1 DEF IsParse
  <2> QED BY <2>2 DEF IsParse, q
<1>2. ASSUME NEW error
      PROVE  LET q == Fails(p, error)
             IN  /\ IsParse(q)
                 /\ q.stage = "unwinding" /\ q.source = p.source /\ q.open = p.open
                 /\ q.error = error /\ q.lost = p.lost
  <2> DEFINE q == Fails(p, error)
  <2>1. q = [p EXCEPT !.stage = "unwinding", !.error = error, !.read = <<>>]
    BY DEF Fails
  <2> HIDE DEF q
  <2>2. q = [stage |-> "unwinding", source |-> p.source, open |-> p.open, error |-> error,
             read |-> <<>>, lost |-> p.lost]
    BY <2>1 DEF IsParse
  <2> QED BY <2>2 DEF IsParse, q
<1> QED BY <1>1, <1>2

\* ... only that differs.
LEMMA OpenRecord ==
  ASSUME NEW p, IsParse(p), NEW open, NEW q, q = WithOpen(p, open)
  PROVE  /\ IsParse(q)
         /\ q.stage = p.stage /\ q.source = p.source /\ q.open = open
         /\ q.error = p.error /\ q.lost = p.lost
<1>1. q = [p EXCEPT !.open = open]
  BY DEF WithOpen
<1>2. q = [stage |-> p.stage, source |-> p.source, open |-> open, error |-> p.error,
           read |-> p.read, lost |-> p.lost]
  BY <1>1 DEF IsParse
<1> QED BY <1>2 DEF IsParse

\* A token without a name keeps the invariant.
LEMMA ReadLeafStep ==
  ASSUME XmlInv, NEW kind \in Leaves, ReadLeaf(kind)
  PROVE  XmlInv'
<1> DEFINE token == Token(kind, Null, <<>>)
           e == CreateUnlinkedNode(dom, kind, Null)
           n == Fresh(dom)
<1>1. Sound(dom, parse) /\ Held(dom) /\ IsParse(parse) /\ parse.stage = "reading" /\ HasRoom(dom, 1)
  BY DEF XmlInv, Sound, ReadLeaf, Reading
<1>2. kind \in NodeKinds
  BY LeavesAssumption
<1>3. Created(dom, e, n, kind)
  BY <1>1, <1>2, CreateHeld
<1>4. \/ parse' = Fails(Took(token), "declaration") /\ dom' = Discard(e, n)
      \/ parse' = Took(token) /\ dom' = InsertEndChild(e, Last(parse.open), n)
  BY DEF ReadLeaf, Open
<1>5. /\ IsParse(Took(token))
      /\ Took(token).stage = parse.stage /\ Took(token).source = parse.source
      /\ Took(token).open = parse.open /\ Took(token).error = parse.error
      /\ Took(token).lost = parse.lost
  BY <1>1, ParseRecord DEF Took
<1> HIDE DEF token, e, n
<1>6. CASE parse' = Fails(Took(token), "declaration") /\ dom' = Discard(e, n)
  <2>1. /\ IsParse(parse') /\ parse'.stage = "unwinding" /\ parse'.source = parse.source
        /\ parse'.open = parse.open /\ parse'.error # "none"
    BY <1>5, <1>6, ParseRecord
  <2>2. Held(dom') /\ Orphans(dom') = Orphans(dom)
    BY <1>3, <1>6, CreatedDiscarded
  <2>3. Sound(dom', parse')
    BY <1>1, <2>1, <2>2, GoesWrong
  <2> QED BY <2>3 DEF XmlInv
<1>7. CASE parse' = Took(token) /\ dom' = InsertEndChild(e, Last(parse.open), n)
  <2>1. /\ Held(dom') /\ Orphans(dom') = Orphans(dom)
        /\ Counted(dom, Orphans(dom)) => Counted(dom', Orphans(dom'))
    BY <1>1, <1>3, <1>7, CreatedPlaced
  <2>2. Sound(dom', parse')
    BY <1>1, <1>5, <1>7, <2>1, GoesOn
  <2> QED BY <2>2 DEF XmlInv
<1> QED BY <1>4, <1>6, <1>7

\* An element with its attributes is created like any other node.
LEMMA CreateElementHeld ==
  ASSUME Held(dom), HasRoom(dom, 1), NEW name, NEW attrs
  PROVE  Created(dom, CreateElement(name, attrs), Fresh(dom), "element")
<1> DEFINE n == Fresh(dom)
           d == CreateUnlinkedNode(dom, "element", name)
           e == CreateElement(name, attrs)
<1>1. Created(dom, d, n, "element")
  BY CreateHeld DEF NodeKinds
<1>2. e = [d EXCEPT !.attrs[n] = attrs]
  BY DEF CreateElement
<1> HIDE DEF d, e, n
<1>3. Held(d)
  BY <1>1 DEF Created
<1>4. SameTree(d, e) /\ e.unlinked = d.unlinked /\ e.untracked = d.untracked
  BY <1>2, <1>3, AttributesOnly
<1>5. Held(e) /\ Live(e) = Live(d) /\ Orphans(e) = Orphans(d)
      /\ (Counted(d, Orphans(d)) => Counted(e, Orphans(e)))
  BY <1>3, <1>4, SameHeld
<1>6. Created(dom, e, n, "element")
  BY <1>1, <1>4, <1>5 DEF Created, SameTree
<1> QED BY <1>6 DEF e, n

\* An element is opened: it is one more node without a place.
LEMMA GoesIn ==
  ASSUME NEW d, NEW p, Sound(d, p), p.stage = "reading", NEW e, NEW n, NEW kind,
         Created(d, e, n, kind), NEW q, IsParse(q),
         q.stage = "reading", q.source = p.source, q.open = Append(p.open, n),
         q.error = p.error, q.lost = p.lost
  PROVE  Sound(e, q)
<1>1. Nested(p.open, Orphans(d)) /\ n \in Nodes /\ n \notin Orphans(d)
      /\ Orphans(d) \in SUBSET Nodes
  BY OrphansOf DEF Sound, Running, Created
<1>2. Nested(q.open, Orphans(d) \cup {n})
  BY <1>1, NestedPush
<1> QED BY <1>2 DEF Sound, Running, Ended, InCount, Created

\* A start tag keeps the invariant.
LEMMA ReadOpenStep ==
  ASSUME XmlInv, NEW name, NEW attrs, ReadOpen(name, attrs)
  PROVE  XmlInv'
<1> DEFINE token == Token("open", name, attrs)
           n == Fresh(dom)
           e == CreateElement(name, attrs)
           q == Took(token)
<1>1. Sound(dom, parse) /\ Held(dom) /\ IsParse(parse) /\ parse.stage = "reading" /\ HasRoom(dom, 1)
  BY DEF XmlInv, Sound, ReadOpen, Reading
<1>2. Created(dom, e, n, "element")
  BY <1>1, CreateElementHeld
<1>3. \/ \E error \in {"attribute", "depth"} : parse' = Fails(q, error) /\ dom' = Discard(e, n)
      \/ parse' = [q EXCEPT !.open = Append(q.open, n)] /\ dom' = e
  BY DEF ReadOpen
<1>4. /\ IsParse(q)
      /\ q.stage = parse.stage /\ q.source = parse.source
      /\ q.open = parse.open /\ q.error = parse.error /\ q.lost = parse.lost
  BY <1>1, ParseRecord DEF Took
<1> HIDE DEF token, e, n, q
<1>5. CASE \E error \in {"attribute", "depth"} : parse' = Fails(q, error) /\ dom' = Discard(e, n)
  <2>1. /\ IsParse(parse') /\ parse'.stage = "unwinding" /\ parse'.source = parse.source
        /\ parse'.open = parse.open /\ parse'.error # "none"
    BY <1>4, <1>5, ParseRecord
  <2>2. Held(dom') /\ Orphans(dom') = Orphans(dom)
    BY <1>2, <1>5, CreatedDiscarded
  <2>3. Sound(dom', parse')
    BY <1>1, <2>1, <2>2, GoesWrong
  <2> QED BY <2>3 DEF XmlInv
<1>6. CASE parse' = [q EXCEPT !.open = Append(q.open, n)] /\ dom' = e
  <2>1. /\ IsParse(parse') /\ parse'.stage = q.stage /\ parse'.source = q.source
        /\ parse'.open = Append(q.open, n) /\ parse'.error = q.error /\ parse'.lost = q.lost
    <3>1. PICK open : open = Append(q.open, n)
      OBVIOUS
    <3>2. parse' = WithOpen(q, open)
      BY <1>6, <3>1 DEF WithOpen
    <3>3. /\ IsParse(parse') /\ parse'.stage = q.stage /\ parse'.source = q.source
          /\ parse'.open = open /\ parse'.error = q.error /\ parse'.lost = q.lost
      BY <1>4, <3>2, OpenRecord
    <3> QED BY <3>1, <3>3
  <2>2. Sound(dom', parse')
    BY <1>1, <1>2, <1>4, <1>6, <2>1, GoesIn
  <2> QED BY <2>2 DEF XmlInv
<1> QED BY <1>3, <1>5, <1>6

\* An element without content keeps the invariant.
LEMMA ReadEmptyStep ==
  ASSUME XmlInv, NEW name, NEW attrs, ReadEmpty(name, attrs)
  PROVE  XmlInv'
<1> DEFINE token == Token("empty", name, attrs)
           n == Fresh(dom)
           e == CreateElement(name, attrs)
           q == Took(token)
<1>1. Sound(dom, parse) /\ Held(dom) /\ IsParse(parse) /\ parse.stage = "reading" /\ HasRoom(dom, 1)
  BY DEF XmlInv, Sound, ReadEmpty, Reading
<1>2. Created(dom, e, n, "element")
  BY <1>1, CreateElementHeld
<1>3. \/ parse' = Fails(q, "attribute") /\ dom' = Discard(e, n)
      \/ parse' = q /\ dom' = InsertEndChild(e, Last(parse.open), n)
  BY DEF ReadEmpty, Open
<1>4. /\ IsParse(q)
      /\ q.stage = parse.stage /\ q.source = parse.source
      /\ q.open = parse.open /\ q.error = parse.error /\ q.lost = parse.lost
  BY <1>1, ParseRecord DEF Took
<1> HIDE DEF token, e, n, q
<1>5. CASE parse' = Fails(q, "attribute") /\ dom' = Discard(e, n)
  <2>1. /\ IsParse(parse') /\ parse'.stage = "unwinding" /\ parse'.source = parse.source
        /\ parse'.open = parse.open /\ parse'.error # "none"
    BY <1>4, <1>5, ParseRecord
  <2>2. Held(dom') /\ Orphans(dom') = Orphans(dom)
    BY <1>2, <1>5, CreatedDiscarded
  <2>3. Sound(dom', parse')
    BY <1>1, <2>1, <2>2, GoesWrong
  <2> QED BY <2>3 DEF XmlInv
<1>6. CASE parse' = q /\ dom' = InsertEndChild(e, Last(parse.open), n)
  <2>1. /\ Held(dom') /\ Orphans(dom') = Orphans(dom)
        /\ Counted(dom, Orphans(dom)) => Counted(dom', Orphans(dom'))
    BY <1>1, <1>2, <1>6, CreatedPlaced
  <2>2. Sound(dom', parse')
    BY <1>1, <1>4, <1>6, <2>1, GoesOn
  <2> QED BY <2>2 DEF XmlInv
<1> QED BY <1>3, <1>5, <1>6

\* A token that does not read well keeps the invariant.
LEMMA BrokenStep ==
  ASSUME XmlInv, NEW kind \in {"element", "text"}, Broken(kind)
  PROVE  XmlInv'
<1> DEFINE token == Token("broken", Null, <<>>)
           n == Fresh(dom)
           e == CreateUnlinkedNode(dom, kind, Null)
           q == Took(token)
<1>1. Sound(dom, parse) /\ Held(dom) /\ IsParse(parse) /\ parse.stage = "reading" /\ HasRoom(dom, 1)
  BY DEF XmlInv, Sound, Broken, Reading
<1>2. Created(dom, e, n, kind)
  BY <1>1, CreateHeld DEF NodeKinds
<1>3. parse' = Fails(q, "parsing") /\ dom' = Discard(e, n)
  BY DEF Broken
<1> HIDE DEF token
<1>4. /\ IsParse(q)
      /\ q.stage = parse.stage /\ q.source = parse.source
      /\ q.open = parse.open /\ q.error = parse.error /\ q.lost = parse.lost
  BY <1>1, ParseRecord DEF Took
<1> HIDE DEF e, n, q
<1>5. /\ IsParse(parse') /\ parse'.stage = "unwinding" /\ parse'.source = parse.source
      /\ parse'.open = parse.open /\ parse'.error # "none"
  BY <1>3, <1>4, ParseRecord
<1>6. Held(dom') /\ Orphans(dom') = Orphans(dom)
  BY <1>2, <1>3, CreatedDiscarded
<1>7. Sound(dom', parse')
  BY <1>1, <1>5, <1>6, GoesWrong
<1> QED BY <1>7 DEF XmlInv

\* The document after the pools are told that nothing is untracked.
Cleared(d, p) == [DeleteChildren(d, p) EXCEPT !.untracked = [pool \in Pools |-> 0]]

\* What Parse(const char* ) does after an error leaves an empty document whose
\* pools count nothing.
LEMMA ClearedHeld ==
  ASSUME NEW d, Held(d), Orphans(d) = {}
  PROVE  LET e == Cleared(d, Doc)
         IN  Held(e) /\ Live(e) = {} /\ Orphans(e) = {} /\ Counted(e, {})
<1> DEFINE c == DeleteChildren(d, Doc)
           u == [pool \in Pools |-> 0]
           e == Cleared(d, Doc)
<1>1. Held(c) /\ Orphans(c) = {} /\ c.first[Doc] = Null
  BY DeleteChildrenHeld DEF Places, Fewer
<1>2. e = [c EXCEPT !.untracked = u]
  BY DEF Cleared
<1> HIDE DEF c, e
<1>3. LinkInv(c) /\ IsDom(c) /\ Enumerates(c.unlinked, Orphans(c))
  BY <1>1 DEF Held, LinkInv
<1>4. u \in [Pools -> Int] /\ \A pool \in Pools : u[pool] = 0
  OBVIOUS
<1> HIDE DEF u
<1>5. e = [kind |-> c.kind, name |-> c.name, attrs |-> c.attrs, parent |-> c.parent,
           prev |-> c.prev, next |-> c.next, first |-> c.first, last |-> c.last,
           unlinked |-> c.unlinked, untracked |-> u]
  BY <1>2, <1>3 DEF IsDom
<1>6. IsDom(e)
  BY <1>3, <1>4, <1>5 DEF IsDom
<1>7. SameTree(c, e) /\ e.unlinked = c.unlinked /\ e.untracked = u
  BY <1>5, <1>6 DEF SameTree
<1>8. Held(e) /\ Live(e) = Live(c) /\ Orphans(e) = Orphans(c)
  BY <1>1, <1>7, SameHeld
<1>9. Live(c) = {}
  BY <1>1, <1>3, NothingHangs
<1>10. Counted(e, {})
  <2>1. \A pool : OfPool(e.kind, {}, pool) = {}
    BY DEF OfPool
  <2> QED BY <1>4, <1>7, <2>1, FS_EmptySet DEF Counted
<1> QED BY <1>1, <1>8, <1>9, <1>10 DEF e

\* A parse ends in its outermost activation.
LEMMA EndStep ==
  ASSUME Sound(dom, parse), parse.stage \in {"reading", "unwinding"}, Open = Doc,
         NEW p, IsParse(p), p.source = parse.source, p.error = parse.error, p.lost = parse.lost,
         End(p, dom)
  PROVE  XmlInv'
<1> DEFINE failed == p.error # "none"
<1>1. /\ Held(dom) /\ Nested(parse.open, Orphans(dom)) /\ p.source \in {"file", "memory"}
      /\ p.lost \in BOOLEAN
  BY DEF Sound, Running, IsParse
<1>2. Orphans(dom) = {}
  BY <1>1, NestedTop, OrphansOf DEF Open
<1>3. ~p.lost /\ ~failed => Counted(dom, {})
  BY <1>2 DEF Sound, InCount
<1>4. /\ failed /\ p.source = "memory" => dom' = Cleared(dom, Doc)
      /\ ~(failed /\ p.source = "memory") => dom' = dom
  BY DEF End, Cleared
<1>5. Held(Cleared(dom, Doc)) /\ Live(Cleared(dom, Doc)) = {} /\ Orphans(Cleared(dom, Doc)) = {}
      /\ Counted(Cleared(dom, Doc), {})
  BY <1>1, <1>2, ClearedHeld
<1>6. Held(dom') /\ Orphans(dom') = {}
  BY <1>1, <1>2, <1>4, <1>5
<1>7. failed /\ p.source = "memory" => Live(dom') = {} /\ Counted(dom', {})
  BY <1>4, <1>5
<1>8. PICK lost \in BOOLEAN : /\ failed => lost = (p.source = "file")
                              /\ ~failed => lost = p.lost
                              /\ parse' = [p EXCEPT !.stage = "ended", !.open = <<>>, !.lost = lost]
  <2>1. CASE failed
    BY <1>1, <2>1 DEF End
  <2>2. CASE ~failed
    BY <1>1, <2>2 DEF End
  <2> QED BY <2>1, <2>2
<1>9. parse' = [stage |-> "ended", source |-> p.source, open |-> <<>>, error |-> p.error,
                read |-> p.read, lost |-> lost]
  BY <1>8 DEF IsParse
<1>10. /\ IsParse(parse') /\ parse'.stage = "ended" /\ parse'.source = p.source
       /\ parse'.error = p.error /\ parse'.lost = lost
  BY <1>9 DEF IsParse
<1>11. ~lost => Counted(dom', {})
  <2>1. CASE failed
    BY <1>1, <1>7, <1>8, <2>1
  <2>2. CASE ~failed
    BY <1>3, <1>4, <1>8, <2>2
  <2> QED BY <2>1, <2>2
<1>12. Sound(dom', parse')
  BY <1>6, <1>7, <1>10, <1>11 DEF Sound, Running, Ended, InCount
<1> QED BY <1>12 DEF XmlInv

\* An end tag keeps the invariant, whether it matches, does not, or is a stray
\* one.
LEMMA ReadCloseStep ==
  ASSUME XmlInv, NEW name, ReadClose(name)
  PROVE  XmlInv'
<1> DEFINE q == Took(Token("close", name, <<>>))
           popped == [q EXCEPT !.open = Front(@)]
           n == Last(parse.open)
           parent == parse.open[Len(parse.open) - 1]
<1>1. Sound(dom, parse) /\ Held(dom) /\ IsParse(parse) /\ parse.stage = "reading"
      /\ Nested(parse.open, Orphans(dom)) /\ Orphans(dom) \in SUBSET Nodes
  BY OrphansOf DEF XmlInv, Sound, Running, ReadClose, Reading
<1>2. \/ Open = Doc /\ End(q, dom)
      \/ Open # Doc /\ parse' = popped /\ dom' = InsertEndChild(dom, parent, n)
      \/ Open # Doc /\ parse' = Fails(popped, "mismatched") /\ dom' = Discard(dom, n)
  BY DEF ReadClose, Open, Depth
<1>3. /\ IsParse(q)
      /\ q.stage = parse.stage /\ q.source = parse.source
      /\ q.open = parse.open /\ q.error = parse.error /\ q.lost = parse.lost
  BY <1>1, ParseRecord DEF Took
<1> HIDE DEF q
<1>4. /\ IsParse(popped)
      /\ popped.stage = parse.stage /\ popped.source = parse.source
      /\ popped.open = Front(parse.open) /\ popped.error = parse.error
      /\ popped.lost = parse.lost
  <2>1. PICK open : open = Front(q.open)
    OBVIOUS
  <2>2. popped = WithOpen(q, open)
    BY <2>1 DEF WithOpen
  <2> HIDE DEF popped
  <2> QED BY <1>3, <2>1, <2>2, OpenRecord
<1> HIDE DEF popped, n, parent
<1>5. CASE Open = Doc /\ End(q, dom)
  BY <1>1, <1>3, <1>5, EndStep
<1>6. Open # Doc => Len(parse.open) > 1 /\ n \in Orphans(dom)
                    /\ parent \in (Orphans(dom) \ {n}) \cup {Doc}
  <2>1. Open # Doc => Len(parse.open) > 1
    BY <1>1, NestedTop DEF Open
  <2> QED BY <1>1, <2>1, NestedTop DEF n, parent
<1>7. CASE Open # Doc /\ parse' = popped /\ dom' = InsertEndChild(dom, parent, n)
  <2>1. n \in Nodes /\ n \in Live(dom) /\ LinkInv(dom)
    BY <1>1, <1>6, <1>7, OrphansOf DEF Held
  <2>2. parent \in Places /\ (parent # Doc => dom.kind[parent] # "free") /\ parent # n
    BY <1>1, <1>6, <1>7, <2>1, Distinct DEF Orphans, Live, Places
  <2>3. parent \notin Below(dom, n)
    <3>1. \A m \in Below(dom, n) : m \in Nodes /\ dom.parent[m] # Null
      BY <2>1, BelowParents, Distinct
    <3> QED BY <1>6, <1>7, <3>1, Distinct DEF Orphans
  <2>4. Inserted(dom, dom', n)
    BY <1>1, <1>7, <2>1, <2>2, <2>3, EndInserted DEF PlaceFor
  <2>5. Sound(dom', parse')
    BY <1>1, <1>4, <1>6, <1>7, <2>4, GoesOut DEF n
  <2> QED BY <2>5 DEF XmlInv
<1>8. CASE Open # Doc /\ parse' = Fails(popped, "mismatched") /\ dom' = Discard(dom, n)
  <2>1. /\ IsParse(parse') /\ parse'.stage = "unwinding" /\ parse'.source = parse.source
        /\ parse'.open = Front(parse.open) /\ parse'.error # "none"
    BY <1>4, <1>8, ParseRecord
  <2>2. Sound(dom', parse')
    BY <1>1, <1>6, <1>8, <2>1, GoesBack DEF n
  <2> QED BY <2>2 DEF XmlInv
<1> QED BY <1>2, <1>5, <1>7, <1>8

\* The end of the file keeps the invariant.
LEMMA EndOfFileStep ==
  ASSUME XmlInv, EndOfFile
  PROVE  XmlInv'
<1>1. Sound(dom, parse) /\ Held(dom) /\ IsParse(parse) /\ parse.stage = "reading"
      /\ Nested(parse.open, Orphans(dom)) /\ Orphans(dom) \in SUBSET Nodes
  BY OrphansOf DEF XmlInv, Sound, Running, EndOfFile
<1>2. CASE Open = Doc
  <2>1. End(parse, dom)
    BY <1>2 DEF EndOfFile
  <2> QED BY <1>1, <1>2, <2>1, EndStep
<1>3. CASE Open # Doc
  <2>1. Len(parse.open) > 1
    BY <1>1, <1>3, NestedTop DEF Open
  <2>2. dom' = dom /\ \/ parse' = [parse EXCEPT !.stage = "unwinding"]
                      \/ parse' = Fails(parse, "mismatched")
    BY <1>3 DEF EndOfFile
  <2>3. CASE parse' = [parse EXCEPT !.stage = "unwinding"]
    <3>1. parse' = [stage |-> "unwinding", source |-> parse.source, open |-> parse.open,
                    error |-> parse.error, read |-> parse.read, lost |-> parse.lost]
      BY <1>1, <2>3 DEF IsParse
    <3>2. /\ IsParse(parse') /\ parse'.stage = "unwinding" /\ parse'.source = parse.source
          /\ parse'.open = parse.open /\ parse'.error = parse.error /\ parse'.lost = parse.lost
      BY <1>1, <3>1 DEF IsParse
    <3>3. Sound(dom', parse')
      BY <1>1, <2>1, <2>2, <3>2 DEF Sound, Running, Ended, InCount
    <3> QED BY <3>3 DEF XmlInv
  <2>4. CASE parse' = Fails(parse, "mismatched")
    <3>1. /\ IsParse(parse') /\ parse'.stage = "unwinding" /\ parse'.source = parse.source
          /\ parse'.open = parse.open /\ parse'.error # "none"
      BY <1>1, <2>4, ParseRecord
    <3>2. Sound(dom', parse')
      BY <1>1, <2>2, <3>1, GoesWrong
    <3> QED BY <3>2 DEF XmlInv
  <2> QED BY <2>2, <2>3, <2>4
<1> QED BY <1>2, <1>3

\* An activation of ParseDeep that returns null keeps the invariant.
LEMMA UnwindStep ==
  ASSUME XmlInv, Unwind
  PROVE  XmlInv'
<1>1. Sound(dom, parse) /\ Held(dom) /\ IsParse(parse) /\ parse.stage = "unwinding"
      /\ Nested(parse.open, Orphans(dom)) /\ Orphans(dom) \in SUBSET Nodes
  BY OrphansOf DEF XmlInv, Sound, Running, Unwind
<1>2. CASE Open = Doc
  <2>1. End(parse, dom)
    BY <1>2 DEF Unwind
  <2> QED BY <1>1, <1>2, <2>1, EndStep
<1>3. CASE Open # Doc
  <2>1. Len(parse.open) > 1
    BY <1>1, <1>3, NestedTop DEF Open
  <2> DEFINE open == Front(parse.open)
             error == IF parse.error = "none" THEN "parsing" ELSE parse.error
  <2>2. dom' = Discard(dom, Last(parse.open))
        /\ parse' = [parse EXCEPT !.open = open, !.error = error, !.read = <<>>]
    BY <1>3 DEF Unwind, Open
  <2>3. error # "none"
    OBVIOUS
  <2> HIDE DEF open, error
  <2>4. parse' = [stage |-> parse.stage, source |-> parse.source, open |-> open,
                  error |-> error, read |-> <<>>, lost |-> parse.lost]
    BY <1>1, <2>2 DEF IsParse
  <2>5. /\ IsParse(parse') /\ parse'.stage = "unwinding" /\ parse'.source = parse.source
        /\ parse'.open = open /\ parse'.error # "none"
    BY <1>1, <2>3, <2>4 DEF IsParse
  <2>6. Sound(dom', parse')
    BY <1>1, <2>1, <2>2, <2>5, GoesBack DEF open
  <2> QED BY <2>6 DEF XmlInv
<1> QED BY <1>2, <1>3

\* LoadFile and Parse clear the document and begin with one that is empty.
LEMMA StartStep ==
  ASSUME XmlInv, NEW source \in {"file", "memory"}, Start(source)
  PROVE  XmlInv'
<1>1. Held(dom) /\ IsParse(parse) /\ parse.stage \in {"idle", "ended"} /\ InCount(dom, parse)
  BY DEF XmlInv, Sound, Start
<1>2. dom' = ClearDocument(dom)
  BY DEF Start
<1>3. Fewer(dom, dom') /\ Live(dom') = {} /\ Orphans(dom') = {}
  BY <1>1, <1>2, ClearDocumentHeld
<1>4. Held(dom') /\ (~parse.lost => Counted(dom', Orphans(dom')))
  BY <1>1, <1>3 DEF Fewer, InCount
<1>5. \/ parse' = [stage |-> "reading", source |-> source, open |-> <<Doc>>,
                   error |-> "none", read |-> <<>>, lost |-> parse.lost]
      \/ parse' = [stage |-> "ended", source |-> source, open |-> <<>>,
                   error |-> "empty", read |-> <<>>, lost |-> parse.lost]
  BY DEF Start, Idle
<1>6. parse.lost \in BOOLEAN
  BY <1>1 DEF IsParse
<1>7. CASE parse' = [stage |-> "reading", source |-> source, open |-> <<Doc>>,
                     error |-> "none", read |-> <<>>, lost |-> parse.lost]
  <2>1. /\ IsParse(parse') /\ parse'.stage = "reading" /\ parse'.source = source
        /\ parse'.open = <<Doc>> /\ parse'.error = "none" /\ parse'.lost = parse.lost
    BY <1>6, <1>7 DEF IsParse
  <2>2. Nested(<<Doc>>, {})
    BY DEF Nested, Places
  <2>3. Sound(dom', parse')
    BY <1>3, <1>4, <2>1, <2>2 DEF Sound, Running, Ended, InCount
  <2> QED BY <2>3 DEF XmlInv
<1>8. CASE parse' = [stage |-> "ended", source |-> source, open |-> <<>>,
                     error |-> "empty", read |-> <<>>, lost |-> parse.lost]
  <2>1. /\ IsParse(parse') /\ parse'.stage = "ended" /\ parse'.lost = parse.lost
    BY <1>6, <1>8 DEF IsParse
  <2>2. Sound(dom', parse')
    BY <1>3, <1>4, <2>1 DEF Sound, Running, Ended, InCount
  <2> QED BY <2>2 DEF XmlInv
<1> QED BY <1>5, <1>7, <1>8

\* What a call of the user of the library keeps.
LEMMA EditStep ==
  ASSUME Held(dom), Counted(dom, Orphans(dom)), Edit
  PROVE  Held(dom') /\ Counted(dom', Orphans(dom'))
<1>1. ASSUME NEW p, NEW n, MayPlace(p, n) PROVE PlaceFor(dom, p, n) /\ n \in Live(dom)
  BY <1>1, Distinct DEF MayPlace, PlaceFor, Live, Places
<1>2. CASE New
  <2> PICK kind \in NewKinds :
        \E name : HasRoom(dom, 1) /\ dom' = CreateUnlinkedNode(dom, kind, name)
    BY <1>2 DEF New
  <2>1. PICK name : HasRoom(dom, 1) /\ dom' = CreateUnlinkedNode(dom, kind, name)
    OBVIOUS
  <2>2. kind \in NodeKinds
    BY TreeAssumption
  <2>3. Created(dom, dom', Fresh(dom), kind)
    BY <2>1, <2>2, CreateHeld
  <2> QED BY <2>3 DEF Created
<1>3. CASE InsertEnd
  <2>1. PICK p \in Places, n \in Nodes : MayPlace(p, n) /\ dom' = InsertEndChild(dom, p, n)
    BY <1>3 DEF InsertEnd
  <2> QED BY <1>1, <2>1, EndInserted DEF Inserted
<1>4. CASE InsertFirst
  <2>1. PICK p \in Places, n \in Nodes : MayPlace(p, n) /\ dom' = InsertFirstChild(dom, p, n)
    BY <1>4 DEF InsertFirst
  <2> QED BY <1>1, <2>1, FirstInserted DEF Inserted
<1>5. CASE InsertAfter
  <2>1. PICK after \in Nodes, n \in Nodes :
          /\ MayPlace(dom.parent[after], n)
          /\ ~InsertsThroughNull(dom, after, n)
          /\ dom' = InsertAfterChild(dom, dom.parent[after], after, n)
    BY <1>5 DEF InsertAfter
  <2>2. dom' = dom \/ Inserted(dom, dom', n)
    BY <1>1, <2>1, AfterInserted
  <2> QED BY <2>2 DEF Inserted
<1>6. CASE DeleteOne
  <2>1. PICK n \in Live(dom) : dom' = DeleteNode(dom, n)
    BY <1>6 DEF DeleteOne
  <2>2. Without(dom, dom', n)
    BY <2>1, DeleteNodeHeld
  <2> QED BY <2>2 DEF Without
<1>7. CASE DeleteAll
  <2>1. PICK p \in Live(dom) \cup {Doc} : dom' = DeleteChildren(dom, p)
    BY <1>7 DEF DeleteAll
  <2>2. p \in Places
    BY DEF Live, Places
  <2>3. Fewer(dom, dom')
    BY <2>1, <2>2, DeleteChildrenHeld
  <2> QED BY <2>3 DEF Fewer
<1>8. CASE EditAttributes
  <2>1. PICK n, list : dom' = [dom EXCEPT !.attrs[n] = list]
    BY <1>8 DEF EditAttributes, SetAttribute, DeleteAttribute
  <2>2. SameTree(dom, dom') /\ dom'.unlinked = dom.unlinked /\ dom'.untracked = dom.untracked
    BY <2>1, AttributesOnly
  <2> QED BY <2>2, SameHeld
<1> QED BY <1>2, <1>3, <1>4, <1>5, <1>6, <1>7, <1>8 DEF Edit

\* A call of the user of the library keeps the invariant.
LEMMA EditsStep ==
  ASSUME XmlInv, UserEdits
  PROVE  XmlInv'
<1>1. Held(dom) /\ Counted(dom, Orphans(dom)) /\ Edit
  BY DEF XmlInv, Sound, InCount, UserEdits
<1>2. Held(dom') /\ Counted(dom', Orphans(dom'))
  BY <1>1, EditStep
<1>3. parse' = [stage |-> "idle", source |-> "none", open |-> <<>>, error |-> "none",
                read |-> <<>>, lost |-> FALSE]
  BY DEF UserEdits, Idle
<1>4. IsParse(parse') /\ parse'.stage = "idle"
  BY <1>3 DEF IsParse
<1>5. Sound(dom', parse')
  BY <1>2, <1>4 DEF Sound, Running, Ended, InCount
<1> QED BY <1>5 DEF XmlInv

\* The invariant holds of an empty document before the first parse.
LEMMA XmlInit ==
  ASSUME Init
  PROVE  XmlInv
<1>1. dom = EmptyDom
  BY DEF Init
<1>2. /\ dom.kind = [n \in Nodes |-> "free"] /\ dom.parent = [n \in Nodes |-> Null]
      /\ dom.prev = [n \in Nodes |-> Null] /\ dom.next = [n \in Nodes |-> Null]
      /\ dom.first = [p \in Places |-> Null] /\ dom.last = [p \in Places |-> Null]
      /\ dom.unlinked = <<>> /\ dom.untracked = [pool \in Pools |-> 0]
  BY <1>1 DEF EmptyDom
<1>3. IsDom(dom)
  <2>1. dom = [kind |-> dom.kind, name |-> dom.name, attrs |-> dom.attrs, parent |-> dom.parent,
               prev |-> dom.prev, next |-> dom.next, first |-> dom.first, last |-> dom.last,
               unlinked |-> dom.unlinked, untracked |-> dom.untracked]
    BY <1>1 DEF EmptyDom
  <2> QED BY <1>2, <2>1 DEF IsDom, Links
<1>4. Live(dom) = {} /\ Orphans(dom) = {}
  BY <1>2 DEF Live, Orphans
<1>5. Placed(dom) /\ Ends(dom)
  BY <1>2, Distinct DEF Placed, Ends
<1>6. Firsts(dom) /\ Lasts(dom) /\ Sides(dom)
  BY <1>2, Distinct DEF Firsts, Lasts, Sides
<1>7. Reach(dom)
  BY <1>2, Distinct DEF Reach, Kids
<1>8. Hang(dom)
  BY <1>4 DEF Hang
<1>9. Enumerates(dom.unlinked, Orphans(dom))
  BY <1>2, <1>4 DEF Enumerates
<1>10. Held(dom)
  BY <1>3, <1>5, <1>6, <1>7, <1>8, <1>9 DEF Held, LinkInv
<1>11. IsParse(parse) /\ parse.stage = "idle"
  BY DEF Init, Idle, IsParse
<1>12. Counted(dom, Orphans(dom))
  <2>1. \A pool : OfPool(dom.kind, {}, pool) = {}
    BY DEF OfPool
  <2> QED BY <1>2, <1>4, <2>1, FS_EmptySet DEF Counted
<1> QED BY <1>10, <1>11, <1>12 DEF XmlInv, Sound, Running, Ended, InCount

\* In every state the pointers form lists and a forest, _unlinked holds the
\* orphans, the open elements are the orphans of a parse, and the pools are right
\* except after errors: for any number of nodes, names, depth and file length.
THEOREM XmlInvariant == Spec => []XmlInv
<1>1. Init => XmlInv
  BY XmlInit
<1>2. XmlInv /\ [Next]_vars => XmlInv'
  <2> SUFFICES ASSUME XmlInv, [Next]_vars PROVE XmlInv'
    OBVIOUS
  <2>1. CASE UserEdits
    BY <2>1, EditsStep
  <2>2. CASE \E source \in {"file", "memory"} : Start(source)
    BY <2>2, StartStep
  <2>3. CASE Parse
    <3>1. CASE \E kind \in Leaves : ReadLeaf(kind)
      BY <3>1, ReadLeafStep
    <3>2. CASE \E name \in Names, attrs \in AttrLists : ReadOpen(name, attrs) \/ ReadEmpty(name, attrs)
      BY <3>2, ReadOpenStep, ReadEmptyStep
    <3>3. CASE \E name \in Names : ReadClose(name)
      BY <3>3, ReadCloseStep
    <3>4. CASE \E kind \in {"element", "text"} : Broken(kind)
      BY <3>4, BrokenStep
    <3>5. CASE EndOfFile
      BY <3>5, EndOfFileStep
    <3>6. CASE Unwind
      BY <3>6, UnwindStep
    <3> QED BY <2>3, <3>1, <3>2, <3>3, <3>4, <3>5, <3>6 DEF Parse
  <2>4. CASE UNCHANGED vars
    BY <2>4 DEF vars, XmlInv
  <2> QED BY <2>1, <2>2, <2>3, <2>4 DEF Next
<1> QED BY <1>1, <1>2, PTL DEF Spec

\* A sequence that holds the nodes of O, each once, is as long as O is large.
LEMMA EnumeratesLength ==
  ASSUME NEW s, NEW O \in SUBSET Nodes, Enumerates(s, O)
  PROVE  ToSet(s) = O /\ Len(s) = Cardinality(O)
<1>1. s \in Seq(Nodes) /\ Len(s) \in Nat /\ DOMAIN s = 1 .. Len(s)
  BY DEF Enumerates
<1>2. \A i \in 1 .. Len(s) : s[i] \in O
  BY <1>1 DEF Enumerates
<1>3. ToSet(s) = O
  BY <1>1, <1>2 DEF ToSet, Enumerates
<1>4. s \in Bijection(1 .. Len(s), O)
  <2>1. s \in [1 .. Len(s) -> O]
    BY <1>1, <1>2
  <2>2. \A n \in O : \E i \in 1 .. Len(s) : s[i] = n
    BY DEF Enumerates
  <2>3. \A i, j \in 1 .. Len(s) : s[i] = s[j] => i = j
    BY DEF Enumerates
  <2> QED BY <2>1, <2>2, <2>3 DEF Bijection, Injection, Surjection, IsInjective
<1>5. ExistsBijection(1 .. Len(s), O)
  BY <1>4 DEF ExistsBijection
<1>6. Cardinality(O) = Len(s)
  BY <1>1, <1>5, NodesFinite, FS_CountingElements
<1> QED BY <1>3, <1>6

\* _unlinked holds each live node without a parent, once, and nothing else:
\* XMLDocument::Clear and the destructor delete every node exactly once.
THEOREM XmlUnlinkedExact == Spec => []UnlinkedExact
<1>1. XmlInv => UnlinkedExact
  <2> SUFFICES ASSUME XmlInv PROVE UnlinkedExact
    OBVIOUS
  <2>1. Enumerates(dom.unlinked, Orphans(dom)) /\ Orphans(dom) \in SUBSET Nodes
    BY OrphansOf DEF XmlInv, Sound, Held
  <2>2. ToSet(dom.unlinked) = Orphans(dom) /\ Len(dom.unlinked) = Cardinality(Orphans(dom))
    BY <2>1, EnumeratesLength
  <2> QED BY <2>2 DEF UnlinkedExact, Orphans
<1> QED BY <1>1, XmlInvariant, PTL

\* The pools count as untracked exactly the nodes never placed, as long as no
\* parse has failed: what the assertions of XMLDocument::Clear rest on.
THEOREM XmlPoolsTracked == Spec => []PoolsTracked
<1>1. XmlInv => PoolsTracked
  <2> SUFFICES ASSUME XmlInv, parse.error = "none", ~parse.lost, NEW pool \in Pools
               PROVE  dom.untracked[pool] =
                        Cardinality({n \in ToSet(dom.unlinked) : PoolOf(dom.kind[n]) = pool})
    BY DEF PoolsTracked
  <2>1. Enumerates(dom.unlinked, Orphans(dom)) /\ Orphans(dom) \in SUBSET Nodes
    BY OrphansOf DEF XmlInv, Sound, Held
  <2>2. ToSet(dom.unlinked) = Orphans(dom)
    BY <2>1, EnumeratesLength
  <2>3. dom.untracked[pool] = Cardinality(OfPool(dom.kind, Orphans(dom), pool))
    BY DEF XmlInv, Sound, InCount, Counted
  <2> QED BY <2>2, <2>3 DEF OfPool
<1> QED BY <1>1, XmlInvariant, PTL

\* When a parse ends every live node is below the document, and after a failed
\* Parse(const char* ) no node is left.
THEOREM XmlNothingLeft == Spec => []NothingLeft
<1>1. XmlInv => NothingLeft
  <2> SUFFICES ASSUME XmlInv, parse.stage = "ended"
               PROVE  /\ Live(dom) \subseteq Below(dom, Doc)
                      /\ parse.source = "memory" /\ parse.error # "none" => Live(dom) = {}
    BY DEF NothingLeft
  <2>1. LinkInv(dom) /\ Orphans(dom) = {}
        /\ (parse.source = "memory" /\ parse.error # "none" => Live(dom) = {})
    BY DEF XmlInv, Sound, Held, Ended
  <2> DEFINE B == Below(dom, Doc)
             S == B \cup {Doc}
  <2>2. B \in SUBSET Nodes /\ Under0(dom, Doc, B)
    BY <2>1, BelowClosed DEF LinkInv, Places
  <2>3. ASSUME NEW q \in S PROVE Kids(dom, q) \subseteq B
    <3>1. q \in Places /\ dom.first[q] \in B \cup {Null}
      BY <2>2, <2>3, Distinct DEF Under0, Places
    <3>2. Chained(dom, q, B)
      BY <2>2, <3>1 DEF Chained, Under0
    <3> HIDE DEF B
    <3> QED BY <2>1, <2>2, <3>1, <3>2 DEF LinkInv, Reach
  <2>4. S \in SUBSET Places
    BY <2>2, Distinct DEF Places
  <2>5. Hanging(dom, S)
    BY <2>1, <2>3 DEF Hanging, Kids
  <2> HIDE DEF S
  <2>6. Live(dom) \subseteq S
    BY <2>1, <2>4, <2>5 DEF LinkInv, Hang
  <2> QED BY <2>1, <2>6, Distinct DEF S, Live
<1> QED BY <1>1, XmlInvariant, PTL

\* The four pointers of every node agree in every state: no insertion, move or
\* deletion leaves a half-changed list, and no node is below itself.
THEOREM XmlListsSound == Spec => []LinkInv(dom)
<1>1. XmlInv => LinkInv(dom)
  BY DEF XmlInv, Sound, Held
<1> QED BY <1>1, XmlInvariant, PTL

-----------------------------------------------------------------------------
(* The elements of a list, forwards and backwards.                         *)

\* The first cell of t that is an element of the name, or none.
FirstHit(d, t, name, m) ==
  \/ m = Null /\ \A i \in 1 .. Len(t) : ~ToElementWithName(d, t[i], name)
  \/ \E i \in 1 .. Len(t) :
       /\ m = t[i] /\ ToElementWithName(d, t[i], name)
       /\ \A j \in 1 .. Len(t) : j < i => ~ToElementWithName(d, t[j], name)

\* Search stops at the first element of the name.
LEMMA SearchHits ==
  ASSUME NEW d, NEW t \in Seq(Nodes), NEW from, NEW link, NEW name,
         Once(t), IsWalk(t, from, link, Null)
  PROVE  FirstHit(d, t, name, Search(d, from, link, name))
<1>1. IsFiniteSet(Nodes) /\ Cardinality(Nodes) = MaxNodes /\ MaxNodes \in Nat
  BY FS_Interval, NodesFinite, TreeAssumption DEF Nodes
<1>2. PICK k \in Nat : Len(t) = k /\ k <= MaxNodes
  BY <1>1, OnceShort
<1>3. Walk(from, link, Null, MaxNodes) = t
  BY <1>1, <1>2, WalkFound
<1> DEFINE I == {i \in 1 .. k : ToElementWithName(d, t[i], name)}
           i == IF I = {} THEN 0 ELSE CHOOSE x \in I : \A y \in I : x <= y
<1>4. Search(d, from, link, name) = IF i = 0 THEN Null ELSE t[i]
  BY <1>2, <1>3 DEF Search, SelectInSeq, Min
<1>5. CASE I = {}
  BY <1>2, <1>4, <1>5 DEF FirstHit
<1>6. CASE I # {}
  <2>1. I \subseteq Nat
    OBVIOUS
  <2>2. \E x \in I : \A y \in I : x <= y
    <3> HIDE DEF I
    <3> QED BY <1>6, <2>1, Least
  <2>3. i \in I /\ \A y \in I : i <= y
    BY <1>6, <2>2
  <2> HIDE DEF i
  <2>4. \A j \in 1 .. k : j < i => j \notin I
    BY <2>1, <2>3
  <2>5. i # 0 /\ i \in 1 .. k
    BY <2>3
  <2> QED BY <1>2, <1>4, <2>3, <2>4, <2>5 DEF FirstHit
<1> QED BY <1>5, <1>6

\* m is the next element of s behind place i, or none.
HitBehind(d, s, i, m) ==
  \/ m = Null /\ \A j \in 1 .. Len(s) : j > i => d.kind[s[j]] # "element"
  \/ \E j \in 1 .. Len(s) :
       /\ j > i /\ m = s[j] /\ d.kind[s[j]] = "element"
       /\ \A h \in 1 .. Len(s) : i < h /\ h < j => d.kind[s[h]] # "element"

\* m is the nearest element of s before place i, or none.
HitBefore(d, s, i, m) ==
  \/ m = Null /\ \A j \in 1 .. Len(s) : j < i => d.kind[s[j]] # "element"
  \/ \E j \in 1 .. Len(s) :
       /\ j < i /\ m = s[j] /\ d.kind[s[j]] = "element"
       /\ \A h \in 1 .. Len(s) : j < h /\ h < i => d.kind[s[h]] # "element"

\* A search along _next, from any place of the list.
LEMMA SearchForth ==
  ASSUME NEW d, LinkInv(d), NEW p \in Places, NEW s, ListOf(d, p, s), NEW i \in 0 .. Len(s)
  PROVE  HitBehind(d, s, i, Search(d, At(s, i + 1, Null), d.next, AnyName))
<1>1. PICK k \in Nat : Len(s) = k
  BY LenProperties DEF ListOf
<1>2. s \in Seq(Nodes) /\ \A j \in 1 .. k : s[j] \in Nodes /\ s[j] # Null
  BY <1>1, ElementOfSeq, Distinct DEF ListOf
<1>3. \A j \in 1 .. k : d.next[s[j]] = At(s, j + 1, Null)
  BY <1>1 DEF ListOf, IsWalk
<1>4. PICK l \in Nat : l = k - i /\ i \in Nat
  BY <1>1
<1> DEFINE t == [j \in 1 .. l |-> s[i + j]]
<1>5. \A j \in 1 .. l : i + j \in 1 .. k /\ t[j] = s[i + j]
  BY <1>4
<1>6. t \in [1 .. l -> Nodes]
  BY <1>2, <1>5
<1>7. t \in Seq(Nodes) /\ Len(t) = l
  <2> HIDE DEF t
  <2> QED BY <1>6, SeqDef
<1> HIDE DEF t
<1>8. Once(t)
  <2> SUFFICES ASSUME NEW a \in 1 .. l, NEW b \in 1 .. l, t[a] = t[b] PROVE a = b
    BY <1>7 DEF Once
  <2>1. i + a \in 1 .. k /\ i + b \in 1 .. k /\ s[i + a] = s[i + b]
    BY <1>5
  <2>2. i + a = i + b
    BY <1>1, <2>1 DEF ListOf, Enumerates
  <2> QED BY <1>4, <2>2
<1>9. \A j \in 0 .. l : At(s, i + j + 1, Null) = At(t, j + 1, Null)
  <2> SUFFICES ASSUME NEW j \in 0 .. l PROVE At(s, i + j + 1, Null) = At(t, j + 1, Null)
    OBVIOUS
  <2>1. CASE j = l
    BY <1>1, <1>4, <1>7, <2>1 DEF At
  <2>2. CASE j # l
    <3>1. j + 1 \in 1 .. l /\ i + (j + 1) = i + j + 1
      BY <1>4, <2>2
    <3> QED BY <1>1, <1>5, <1>7, <3>1 DEF At
  <2> QED BY <2>1, <2>2
<1>10. IsWalk(t, At(s, i + 1, Null), d.next, Null)
  <2>1. At(s, i + 1, Null) = At(t, 1, Null)
    <3>1. 0 \in 0 .. l /\ i + 0 + 1 = i + 1 /\ 0 + 1 = 1
      BY <1>4
    <3> QED BY <1>9, <3>1
  <2>2. ASSUME NEW j \in 1 .. l PROVE t[j] # Null /\ d.next[t[j]] = At(t, j + 1, Null)
    <3>1. i + j \in 1 .. k /\ t[j] = s[i + j] /\ j \in 0 .. l
      BY <1>5
    <3> QED BY <1>2, <1>3, <1>9, <3>1
  <2> QED BY <1>7, <2>1, <2>2 DEF IsWalk
<1> DEFINE m == Search(d, At(s, i + 1, Null), d.next, AnyName)
<1>11. FirstHit(d, t, AnyName, m)
  BY <1>7, <1>8, <1>10, SearchHits
<1> HIDE DEF m
<1>12. \A j \in 1 .. k : j > i => j - i \in 1 .. l /\ t[j - i] = s[j] /\ i + (j - i) = j
  <2> SUFFICES ASSUME NEW j \in 1 .. k, j > i
               PROVE  j - i \in 1 .. l /\ t[j - i] = s[j] /\ i + (j - i) = j
    OBVIOUS
  <2>1. j - i \in 1 .. l /\ i + (j - i) = j
    BY <1>4
  <2> QED BY <1>5, <2>1
<1>13. \A n : ToElementWithName(d, n, AnyName) <=> d.kind[n] = "element"
  BY DEF ToElementWithName
<1>14. CASE m = Null /\ \A j \in 1 .. l : ~ToElementWithName(d, t[j], AnyName)
  <2>1. \A j \in 1 .. k : j > i => d.kind[s[j]] # "element"
    BY <1>12, <1>13, <1>14
  <2> QED BY <1>1, <1>14, <2>1 DEF HitBehind, m
<1>15. ASSUME NEW j \in 1 .. l, m = t[j], ToElementWithName(d, t[j], AnyName),
              \A h \in 1 .. l : h < j => ~ToElementWithName(d, t[h], AnyName)
       PROVE  HitBehind(d, s, i, m)
  <2>1. i + j \in 1 .. k /\ i + j > i /\ t[j] = s[i + j]
    BY <1>4, <1>5
  <2>2. ASSUME NEW h \in 1 .. k, i < h, h < i + j PROVE d.kind[s[h]] # "element"
    <3>1. h - i \in 1 .. l /\ t[h - i] = s[h] /\ h - i < j
      BY <1>4, <1>12, <2>2
    <3> QED BY <1>13, <1>15, <3>1
  <2> QED BY <1>1, <1>13, <1>15, <2>1, <2>2 DEF HitBehind
<1> QED BY <1>7, <1>11, <1>14, <1>15 DEF FirstHit, m

\* A search along _prev.
LEMMA SearchBack ==
  ASSUME NEW d, LinkInv(d), NEW p \in Places, NEW s, ListOf(d, p, s), NEW i \in 1 .. Len(s) + 1
  PROVE  HitBefore(d, s, i, Search(d, At(s, i - 1, Null), d.prev, AnyName))
<1>1. PICK k \in Nat : Len(s) = k
  BY LenProperties DEF ListOf
<1>2. s \in Seq(Nodes) /\ \A j \in 1 .. k : s[j] \in Nodes /\ s[j] # Null
  BY <1>1, ElementOfSeq, Distinct DEF ListOf
<1>3. \A j \in 1 .. k : d.prev[s[j]] = At(s, j - 1, Null)
  BY <1>1, ListLinks
<1>4. PICK l \in Nat : l = i - 1 /\ i \in Nat /\ l <= k
  BY <1>1
<1> DEFINE t == [j \in 1 .. l |-> s[i - j]]
<1>5. \A j \in 1 .. l : i - j \in 1 .. k /\ t[j] = s[i - j]
  BY <1>4
<1>6. t \in [1 .. l -> Nodes]
  BY <1>2, <1>5
<1>7. t \in Seq(Nodes) /\ Len(t) = l
  <2> HIDE DEF t
  <2> QED BY <1>6, SeqDef
<1> HIDE DEF t
<1>8. Once(t)
  <2> SUFFICES ASSUME NEW a \in 1 .. l, NEW b \in 1 .. l, t[a] = t[b] PROVE a = b
    BY <1>7 DEF Once
  <2>1. i - a \in 1 .. k /\ i - b \in 1 .. k /\ s[i - a] = s[i - b]
    BY <1>5
  <2>2. i - a = i - b
    BY <1>1, <2>1 DEF ListOf, Enumerates
  <2> QED BY <1>4, <2>2
<1>9. \A j \in 0 .. l : At(s, i - j - 1, Null) = At(t, j + 1, Null)
  <2> SUFFICES ASSUME NEW j \in 0 .. l PROVE At(s, i - j - 1, Null) = At(t, j + 1, Null)
    OBVIOUS
  <2>1. CASE j = l
    BY <1>1, <1>4, <1>7, <2>1 DEF At
  <2>2. CASE j # l
    <3>1. j + 1 \in 1 .. l /\ i - (j + 1) = i - j - 1
      BY <1>4, <2>2
    <3> QED BY <1>1, <1>5, <1>7, <3>1 DEF At
  <2> QED BY <2>1, <2>2
<1>10. IsWalk(t, At(s, i - 1, Null), d.prev, Null)
  <2>1. At(s, i - 1, Null) = At(t, 1, Null)
    <3>1. 0 \in 0 .. l /\ i - 0 - 1 = i - 1 /\ 0 + 1 = 1
      BY <1>4
    <3> QED BY <1>9, <3>1
  <2>2. ASSUME NEW j \in 1 .. l PROVE t[j] # Null /\ d.prev[t[j]] = At(t, j + 1, Null)
    <3>1. i - j \in 1 .. k /\ t[j] = s[i - j] /\ j \in 0 .. l
      BY <1>5
    <3> QED BY <1>2, <1>3, <1>9, <3>1
  <2> QED BY <1>7, <2>1, <2>2 DEF IsWalk
<1> DEFINE m == Search(d, At(s, i - 1, Null), d.prev, AnyName)
<1>11. FirstHit(d, t, AnyName, m)
  BY <1>7, <1>8, <1>10, SearchHits
<1> HIDE DEF m
<1>12. \A j \in 1 .. k : j < i => i - j \in 1 .. l /\ t[i - j] = s[j] /\ i - (i - j) = j
  <2> SUFFICES ASSUME NEW j \in 1 .. k, j < i
               PROVE  i - j \in 1 .. l /\ t[i - j] = s[j] /\ i - (i - j) = j
    OBVIOUS
  <2>1. i - j \in 1 .. l /\ i - (i - j) = j
    BY <1>4
  <2> QED BY <1>5, <2>1
<1>13. \A n : ToElementWithName(d, n, AnyName) <=> d.kind[n] = "element"
  BY DEF ToElementWithName
<1>14. CASE m = Null /\ \A j \in 1 .. l : ~ToElementWithName(d, t[j], AnyName)
  <2>1. \A j \in 1 .. k : j < i => d.kind[s[j]] # "element"
    BY <1>12, <1>13, <1>14
  <2> QED BY <1>1, <1>14, <2>1 DEF HitBefore, m
<1>15. ASSUME NEW j \in 1 .. l, m = t[j], ToElementWithName(d, t[j], AnyName),
              \A h \in 1 .. l : h < j => ~ToElementWithName(d, t[h], AnyName)
       PROVE  HitBefore(d, s, i, m)
  <2>1. i - j \in 1 .. k /\ i - j < i /\ t[j] = s[i - j]
    BY <1>4, <1>5
  <2>2. ASSUME NEW h \in 1 .. k, i - j < h, h < i PROVE d.kind[s[h]] # "element"
    <3>1. i - h \in 1 .. l /\ t[i - h] = s[h] /\ i - h < j
      BY <1>4, <1>12, <2>2
    <3> QED BY <1>13, <1>15, <3>1
  <2> QED BY <1>1, <1>13, <1>15, <2>1, <2>2 DEF HitBefore
<1> QED BY <1>7, <1>11, <1>14, <1>15 DEF FirstHit, m
\* The elements below p, from the first on and from the last back.
LEMMA ElementsBothWays ==
  ASSUME NEW d, LinkInv(d), NEW p \in Places
  PROVE  Walk(FirstChildElement(d, p, AnyName),
              [n \in Nodes |-> NextSiblingElement(d, n, AnyName)], Null, MaxNodes) =
         Reverse(Walk(LastChildElement(d, p, AnyName),
                      [n \in Nodes |-> PreviousSiblingElement(d, n, AnyName)], Null, MaxNodes))
<1> DEFINE E == {m \in Kids(d, p) : d.kind[m] = "element"}
           from == FirstChildElement(d, p, AnyName)
           to == LastChildElement(d, p, AnyName)
           forth == [n \in Nodes |-> NextSiblingElement(d, n, AnyName)]
           back == [n \in Nodes |-> PreviousSiblingElement(d, n, AnyName)]
<1>1. PICK s : ListOf(d, p, s)
  BY ChildrenList
<1>2. PICK k \in Nat : Len(s) = k
  BY <1>1, LenProperties DEF ListOf
<1>3. d.first[p] = At(s, 1, Null) /\ d.last[p] = At(s, k, Null)
  BY <1>1, <1>2, ListLinks DEF ListOf, IsWalk
<1>4. \A i \in 1 .. k : /\ s[i] \in Nodes /\ s[i] # Null /\ s[i] \in Kids(d, p)
                        /\ d.next[s[i]] = At(s, i + 1, Null) /\ d.prev[s[i]] = At(s, i - 1, Null)
  <2>1. s \in Seq(Nodes) /\ \A i \in 1 .. k : s[i] \in Nodes
    BY <1>1, <1>2, ElementOfSeq DEF ListOf
  <2>2. \A i \in 1 .. k : s[i] # Null /\ s[i] \in Kids(d, p)
    BY <1>1, <1>2, <2>1, Distinct DEF ListOf, Enumerates
  <2>3. \A i \in 1 .. k : d.next[s[i]] = At(s, i + 1, Null)
    BY <1>1, <1>2 DEF ListOf, IsWalk
  <2>4. \A i \in 1 .. k : d.prev[s[i]] = At(s, i - 1, Null)
    BY <1>1, <1>2, ListLinks
  <2> QED BY <2>1, <2>2, <2>3, <2>4
<1>5. \A m : m \in E <=> \E i \in 1 .. k : m = s[i] /\ d.kind[s[i]] = "element"
  BY <1>1, <1>2, <1>4 DEF ListOf, Enumerates, Kids
<1>6. \A i, j \in 1 .. k : s[i] = s[j] => i = j
  BY <1>1, <1>2 DEF ListOf, Enumerates
<1>7. HitBehind(d, s, 0, from) /\ HitBefore(d, s, k + 1, to)
  <2>1. 0 \in 0 .. k /\ 0 + 1 = 1 /\ k + 1 \in 1 .. k + 1 /\ (k + 1) - 1 = k
    BY <1>2
  <2>2. from = Search(d, At(s, 1, Null), d.next, AnyName)
        /\ to = Search(d, At(s, k, Null), d.prev, AnyName)
    BY <1>3 DEF FirstChildElement, LastChildElement
  <2> HIDE DEF from, to
  <2>3. HitBehind(d, s, 0, from)
    BY <1>1, <1>2, <2>1, <2>2, SearchForth
  <2>4. HitBefore(d, s, k + 1, to)
    BY <1>1, <1>2, <2>1, <2>2, SearchBack
  <2> QED BY <2>3, <2>4
<1>8. ASSUME NEW i \in 1 .. k
      PROVE  HitBehind(d, s, i, forth[s[i]]) /\ HitBefore(d, s, i, back[s[i]])
  <2>1. i \in 0 .. k /\ i \in 1 .. k + 1
    BY <1>2
  <2>2. forth[s[i]] = Search(d, At(s, i + 1, Null), d.next, AnyName)
        /\ back[s[i]] = Search(d, At(s, i - 1, Null), d.prev, AnyName)
    BY <1>4 DEF NextSiblingElement, PreviousSiblingElement
  <2> HIDE DEF forth, back
  <2>3. HitBehind(d, s, i, forth[s[i]])
    BY <1>1, <1>2, <2>1, <2>2, SearchForth
  <2>4. HitBefore(d, s, i, back[s[i]])
    BY <1>1, <1>2, <2>1, <2>2, SearchBack
  <2> QED BY <2>3, <2>4
<1> HIDE DEF from, to, forth, back
<1>9. E \in SUBSET Nodes /\ IsFiniteSet(E) /\ Null \notin E
  <2>1. E \in SUBSET Nodes
    BY DEF Kids
  <2> HIDE DEF E
  <2> QED BY <2>1, NodesFinite, Distinct
<1> HIDE DEF E
<1>10. from \in E \cup {Null} /\ to \in E \cup {Null}
  BY <1>2, <1>5, <1>7 DEF HitBehind, HitBefore
<1>11. \A c \in E : forth[c] \in E \cup {Null} /\ back[c] \in E \cup {Null}
  BY <1>2, <1>5, <1>8 DEF HitBehind, HitBefore
<1>12. \A c \in E : from = c <=> back[c] = Null
  <2> SUFFICES ASSUME NEW c \in E PROVE from = c <=> back[c] = Null
    OBVIOUS
  <2>1. PICK i \in 1 .. k : c = s[i] /\ d.kind[s[i]] = "element"
    BY <1>5
  <2>2. ASSUME from = c PROVE back[c] = Null
    <3>1. \A h \in 1 .. k : 0 < h /\ h < i => d.kind[s[h]] # "element"
      BY <1>2, <1>4, <1>6, <1>7, <2>1, <2>2 DEF HitBehind
    <3>2. \A h \in 1 .. k : h < i => d.kind[s[h]] # "element"
      BY <1>2, <3>1
    <3> QED BY <1>2, <1>8, <2>1, <3>2 DEF HitBefore
  <2>3. ASSUME back[c] = Null PROVE from = c
    <3>1. \A h \in 1 .. k : h < i => d.kind[s[h]] # "element"
      BY <1>2, <1>4, <1>8, <2>1, <2>3 DEF HitBefore
    <3>2. i > 0
      BY <1>2
    <3>3. PICK j \in 1 .. k : /\ from = s[j] /\ d.kind[s[j]] = "element"
                              /\ \A h \in 1 .. k : 0 < h /\ h < j => d.kind[s[h]] # "element"
      BY <1>2, <1>7, <2>1, <3>2 DEF HitBehind
    <3>4. j = i
      BY <1>2, <2>1, <3>1, <3>2, <3>3
    <3> QED BY <2>1, <3>3, <3>4
  <2> QED BY <2>2, <2>3
<1>13. \A c \in E : to = c <=> forth[c] = Null
  <2> SUFFICES ASSUME NEW c \in E PROVE to = c <=> forth[c] = Null
    OBVIOUS
  <2>1. PICK i \in 1 .. k : c = s[i] /\ d.kind[s[i]] = "element"
    BY <1>5
  <2>2. ASSUME to = c PROVE forth[c] = Null
    <3>1. \A h \in 1 .. k : i < h /\ h < k + 1 => d.kind[s[h]] # "element"
      BY <1>2, <1>4, <1>6, <1>7, <2>1, <2>2 DEF HitBefore
    <3>2. \A h \in 1 .. k : h > i => d.kind[s[h]] # "element"
      BY <1>2, <3>1
    <3> QED BY <1>2, <1>8, <2>1, <3>2 DEF HitBehind
  <2>3. ASSUME forth[c] = Null PROVE to = c
    <3>1. \A h \in 1 .. k : h > i => d.kind[s[h]] # "element"
      BY <1>2, <1>4, <1>8, <2>1, <2>3 DEF HitBehind
    <3>2. i < k + 1
      BY <1>2
    <3>3. PICK j \in 1 .. k : /\ to = s[j] /\ d.kind[s[j]] = "element"
                              /\ \A h \in 1 .. k : j < h /\ h < k + 1 => d.kind[s[h]] # "element"
      BY <1>2, <1>7, <2>1, <3>2 DEF HitBefore
    <3>4. j = i
      BY <1>2, <2>1, <3>1, <3>2, <3>3
    <3> QED BY <2>1, <3>3, <3>4
  <2> QED BY <2>2, <2>3
<1>14. \A a, b \in E : forth[a] = b <=> back[b] = a
  <2> SUFFICES ASSUME NEW a \in E, NEW b \in E PROVE forth[a] = b <=> back[b] = a
    OBVIOUS
  <2>1. PICK i \in 1 .. k : a = s[i] /\ d.kind[s[i]] = "element"
    BY <1>5
  <2>2. PICK j \in 1 .. k : b = s[j] /\ d.kind[s[j]] = "element"
    BY <1>5
  <2> DEFINE Follows == i < j /\ \A h \in 1 .. k : i < h /\ h < j => d.kind[s[h]] # "element"
  <2>3. ASSUME forth[a] = b PROVE Follows
    <3>1. HitBehind(d, s, i, s[j]) /\ s[j] # Null
      BY <1>4, <1>8, <2>1, <2>2, <2>3
    <3>2. PICK l \in 1 .. k : /\ l > i /\ s[j] = s[l]
                              /\ \A h \in 1 .. k : i < h /\ h < l => d.kind[s[h]] # "element"
      BY <1>2, <3>1 DEF HitBehind
    <3>3. l = j
      BY <1>6, <3>2
    <3> QED BY <3>2, <3>3
  <2>4. ASSUME back[b] = a PROVE Follows
    <3>1. HitBefore(d, s, j, s[i]) /\ s[i] # Null
      BY <1>4, <1>8, <2>1, <2>2, <2>4
    <3>2. PICK l \in 1 .. k : /\ l < j /\ s[i] = s[l]
                              /\ \A h \in 1 .. k : l < h /\ h < j => d.kind[s[h]] # "element"
      BY <1>2, <3>1 DEF HitBefore
    <3>3. l = i
      BY <1>6, <3>2
    <3> QED BY <3>2, <3>3
  <2>5. ASSUME Follows PROVE forth[a] = b
    <3>1. PICK l \in 1 .. k : /\ l > i /\ forth[a] = s[l] /\ d.kind[s[l]] = "element"
                              /\ \A h \in 1 .. k : i < h /\ h < l => d.kind[s[h]] # "element"
      BY <1>2, <1>8, <2>1, <2>2, <2>5 DEF HitBehind
    <3>2. l = j
      BY <1>2, <2>2, <2>5, <3>1
    <3> QED BY <2>2, <3>1, <3>2
  <2>6. ASSUME Follows PROVE back[b] = a
    <3>1. PICK l \in 1 .. k : /\ l < j /\ back[b] = s[l] /\ d.kind[s[l]] = "element"
                              /\ \A h \in 1 .. k : l < h /\ h < j => d.kind[s[h]] # "element"
      BY <1>2, <1>8, <2>1, <2>2, <2>6 DEF HitBefore
    <3>2. l = i
      BY <1>2, <2>1, <2>6, <3>1
    <3> QED BY <2>1, <3>1, <3>2
  <2> QED BY <2>3, <2>4, <2>5, <2>6
<1>15. from = Null => E = {}
  <2> SUFFICES ASSUME from = Null, NEW c \in E PROVE FALSE
    OBVIOUS
  <2>1. PICK i \in 1 .. k : c = s[i] /\ d.kind[s[i]] = "element"
    BY <1>5
  <2>2. i > 0
    BY <1>2
  <2> QED BY <1>2, <1>4, <1>7, <2>1, <2>2 DEF HitBehind
<1>16. MaxNodes \in Nat /\ Cardinality(E) <= MaxNodes
  <2>1. IsFiniteSet(Nodes) /\ Cardinality(Nodes) = MaxNodes /\ MaxNodes \in Nat
    BY FS_Interval, NodesFinite, TreeAssumption DEF Nodes
  <2> QED BY <1>9, <2>1, FS_Subset
<1> DEFINE w == Walk(to, back, Null, MaxNodes)
<1>17. Walk(from, forth, Null, MaxNodes) = [i \in 1 .. Len(w) |-> w[Len(w) - i + 1]]
  BY <1>9, <1>10, <1>11, <1>12, <1>13, <1>14, <1>15, <1>16, WalkBack
<1> HIDE DEF w
<1>18. Reverse(w) = [i \in 1 .. Len(w) |-> w[Len(w) - i + 1]]
  BY DEF Reverse
<1> QED BY <1>17, <1>18 DEF w, from, to, forth, back

\* The elements are found in one order from the front and in the opposite one from
\* the back, and every node in the list of its parent: FirstChildElement and
\* NextSiblingElement, by which LoadServerXML reads, miss nothing after any calls.
THEOREM XmlListsBothWays == Spec => []ListsBothWays
<1>1. XmlInv => ListsBothWays
  <2> SUFFICES ASSUME XmlInv, NEW p \in Live(dom) \cup {Doc}
               PROVE  /\ Walk(FirstChildElement(dom, p, AnyName),
                              [n \in Nodes |-> NextSiblingElement(dom, n, AnyName)], Null, MaxNodes) =
                         Reverse(Walk(LastChildElement(dom, p, AnyName),
                              [n \in Nodes |-> PreviousSiblingElement(dom, n, AnyName)], Null, MaxNodes))
                      /\ \A n \in Nodes : Contains(Children(dom, p), n) <=> dom.parent[n] = p
    BY DEF ListsBothWays
  <2>1. LinkInv(dom) /\ p \in Places
    BY DEF XmlInv, Sound, Held, Live, Places
  <2>2. PICK s : s = Children(dom, p) /\ ListOf(dom, p, s)
    BY <2>1, ChildrenList
  <2>3. \A n \in Nodes : Contains(s, n) <=> dom.parent[n] = p
    BY <2>2 DEF ListOf, Enumerates, Kids, Contains
  <2> QED BY <2>1, <2>2, <2>3, ElementsBothWays
<1> QED BY <1>1, XmlInvariant, PTL

-----------------------------------------------------------------------------
(* The document implements the forest of XmlForest.                         *)

\* The lists and the roots are those of b.
SameForest(b, e) ==
  (\A q \in Places : Children(e, q) = Children(b, q)) /\ Orphans(e) = Orphans(b)

\* A node that is created and deleted at once leaves no trace.
LEMMA CreatedDropped ==
  ASSUME NEW d, LinkInv(d), NEW e, NEW n, NEW kind, Created(d, e, n, kind)
  PROVE  SameForest(d, Discard(e, n))
<1>1. /\ Held(e) /\ LinkInv(e) /\ n \in Orphans(e) /\ Orphans(e) \in SUBSET Nodes
      /\ Enumerates(e.unlinked, Orphans(e)) /\ n \in Nodes \ Live(d)
  BY OrphansOf DEF Created, Held
<1>2. Dropped(e, Discard(e, n), n)
  BY <1>1, DestroyedLists DEF Discard
<1>3. \A q \in Places : Children(e, q) = Children(d, q)
  BY SameTreeLists DEF Created
<1>4. Children(d, n) = <<>> /\ e.first[n] = Null
  BY <1>1, FreeIsEmpty DEF Created
<1>5. Below(e, n) = {}
  <2>1. Under0(e, n, {})
    BY <1>4 DEF Under0
  <2> QED BY <2>1, BelowLeast
<1>6. \A q \in Places : RemoveFirst(Children(e, q), n) = Children(e, q)
  BY <1>1, OrphanInNone
<1>7. \A q \in Places : Children(Discard(e, n), q) = Children(d, q)
  BY <1>2, <1>3, <1>4, <1>5, <1>6 DEF Dropped
<1> QED BY <1>7, CreatedDiscarded DEF SameForest

\* What is inserted behind the last place is appended.
LEMMA InsertLast ==
  ASSUME NEW S, NEW s \in Seq(S), NEW n \in S
  PROVE  InsertAt(s, Len(s) + 1, n) = Append(s, n)
<1>1. PICK k \in Nat : Len(s) = k
  BY LenProperties
<1>2. PICK t : t = InsertAt(s, k + 1, n)
  OBVIOUS
<1>3. /\ t \in Seq(S) /\ Len(t) = k + 1
      /\ \A j \in 1 .. k + 1 : t[j] = IF j < k + 1 THEN s[j] ELSE IF j = k + 1 THEN n ELSE s[j - 1]
  <2>1. PICK i : i = k + 1 /\ i \in 1 .. Len(s) + 1
    BY <1>1
  <2>2. /\ InsertAt(s, i, n) \in Seq(S)
        /\ Len(InsertAt(s, i, n)) = Len(s) + 1
        /\ \A j \in 1 .. Len(s) + 1 :
             InsertAt(s, i, n)[j] = IF j < i THEN s[j] ELSE IF j = i THEN n ELSE s[j - 1]
    BY <2>1, InsertedAt
  <2> QED BY <1>1, <1>2, <2>1, <2>2
<1>4. Append(s, n) \in Seq(S) /\ Len(Append(s, n)) = k + 1
      /\ Append(s, n)[k + 1] = n /\ \A j \in 1 .. k : Append(s, n)[j] = s[j]
  BY <1>1, AppendProperties
<1>5. t = Append(s, n)
  <2>1. \A j \in 1 .. k + 1 : t[j] = Append(s, n)[j]
    BY <1>3, <1>4
  <2> QED BY <1>3, <1>4, <2>1, SeqEqual
<1> QED BY <1>1, <1>2, <1>5

\* n was free and is now the last child of p.
Grown(d, e, n, p) ==
  /\ n \in Nodes \ Live(d)
  /\ Children(e, p) = Append(Children(d, p), n)
  /\ \A q \in Places : q # p => Children(e, q) = Children(d, q)

\* A node that is created and placed at the end.
LEMMA CreatedGrown ==
  ASSUME NEW d, NEW e, NEW n, NEW kind, Created(d, e, n, kind), NEW p, PlaceFor(e, p, n)
  PROVE  Grown(d, InsertEndChild(e, p, n), n, p)
<1> DEFINE f == InsertEndChild(e, p, n)
<1>1. /\ Held(e) /\ LinkInv(e) /\ n \in Orphans(e) /\ n \in Live(e) /\ n \in Nodes \ Live(d)
      /\ p \in Places
  BY OrphansOf DEF Created, Held, PlaceFor
<1>2. MovedTo(e, f, n, p, Len(RemoveFirst(Children(e, p), n)) + 1)
  BY <1>1, EndMoved
<1> HIDE DEF f
<1>3. \A q \in Places : Children(e, q) = Children(d, q)
  BY SameTreeLists DEF Created
<1>4. \A q \in Places : RemoveFirst(Children(e, q), n) = Children(e, q)
  BY <1>1, OrphanInNone
<1>5. Children(f, p) = InsertAt(Children(d, p), Len(Children(d, p)) + 1, n)
      /\ \A q \in Places : q # p => Children(f, q) = Children(d, q)
  BY <1>1, <1>2, <1>3, <1>4 DEF MovedTo
<1>6. Children(d, p) \in Seq(Nodes)
  BY <1>1, <1>3, ListSpelt DEF Spells
<1>7. Grown(d, f, n, p)
  BY <1>1, <1>5, <1>6, InsertLast DEF Grown
<1> QED BY <1>7 DEF f

\* What XmlForest sees of a document.
Lists == [p \in Places |-> Children(dom, p)]

\* The children of a place, as a set.
LEMMA ListsAsSets ==
  ASSUME LinkInv(dom), NEW p \in Places
  PROVE  Forest!ToSet(Lists[p]) = Kids(dom, p)
<1>1. PICK s : s = Children(dom, p) /\ Lists[p] = s
  BY DEF Lists
<1>2. PICK k \in Nat : Spells(dom, p, s, k)
  BY <1>1, ListSpelt
<1>3. DOMAIN s = 1 .. k
  BY <1>2, LenProperties DEF Spells
<1>4. Forest!ToSet(s) = {s[i] : i \in 1 .. k}
  BY <1>3 DEF Forest!ToSet
<1>5. {s[i] : i \in 1 .. k} = Kids(dom, p)
  BY <1>2 DEF Spells, Kids
<1> QED BY <1>1, <1>4, <1>5

\* The live nodes are those in a list and those without a place.
LEMMA ForestLive ==
  ASSUME LinkInv(dom)
  PROVE  Forest!Live = Live(dom)
<1>1. Forest!Live = Orphans(dom) \cup UNION {Forest!ToSet(Lists[p]) : p \in Places}
  BY DEF Forest!Live, Forest!Places, Places, Lists, Orphans
<1>2. Forest!Live = Orphans(dom) \cup UNION {Kids(dom, p) : p \in Places}
  BY <1>1, ListsAsSets
<1>3. \A m \in Nodes : m \in Live(dom) <=> m \in Orphans(dom) \/ \E p \in Places : m \in Kids(dom, p)
  <2> SUFFICES ASSUME NEW m \in Nodes
               PROVE  m \in Live(dom) <=> m \in Orphans(dom) \/ \E p \in Places : m \in Kids(dom, p)
    OBVIOUS
  <2>1. dom.parent[m] \in Places \cup {Null}
    BY Kinds DEF LinkInv
  <2>2. dom.parent[m] # Null => m \in Live(dom)
    BY DEF LinkInv, Placed, Live
  <2> QED BY <2>1, <2>2, Distinct DEF Orphans, Kids
<1> QED BY <1>2, <1>3 DEF Orphans, Live, Kids

\* S holds R and, with a node, its children.
ClosedOver(R, S) == R \subseteq S /\ \A k \in S : Kids(dom, k) \subseteq S

\* What is below R in the forest.
LEMMA ForestBelow ==
  ASSUME LinkInv(dom), NEW R, NEW m \in Nodes
  PROVE  m \in Forest!Below(R) <=> \A S \in SUBSET Nodes : ClosedOver(R, S) => m \in S
<1>1. Forest!Below(R) =
        {x \in Nodes : \A S \in SUBSET Nodes :
           R \subseteq S /\ (\A k \in S : Forest!ToSet(Lists[k]) \subseteq S) => x \in S}
  BY DEF Forest!Below, Lists
<1>2. \A S \in SUBSET Nodes :
        (\A k \in S : Forest!ToSet(Lists[k]) \subseteq S) <=> \A k \in S : Kids(dom, k) \subseteq S
  <2> SUFFICES ASSUME NEW S \in SUBSET Nodes
               PROVE  \A k \in S : Forest!ToSet(Lists[k]) = Kids(dom, k)
    OBVIOUS
  <2> QED BY ListsAsSets, Distinct
<1> QED BY <1>1, <1>2 DEF ClosedOver

\* What is below a place is the same along the pointers and along the lists.
LEMMA ForestBelowKids ==
  ASSUME LinkInv(dom), NEW p \in Places
  PROVE  Forest!Below(Forest!ToSet(Lists[p])) = Below(dom, p)
<1> DEFINE B == Below(dom, p)
           F == Forest!Below(Kids(dom, p))
<1>1. \A m \in Nodes : m \in F <=> \A S \in SUBSET Nodes : ClosedOver(Kids(dom, p), S) => m \in S
  BY ForestBelow
<1>2. F \subseteq Nodes
  BY DEF Forest!Below
<1> HIDE DEF F
<1>3. F \subseteq B
  <2>1. B \in SUBSET Nodes
    BY BelowClosed DEF LinkInv
  <2>2. Kids(dom, p) \subseteq B /\ \A k \in B : Kids(dom, k) \subseteq B
    BY KidsBelow
  <2> QED BY <1>1, <1>2, <2>1, <2>2 DEF ClosedOver
<1>4. Kids(dom, p) \subseteq F /\ \A k \in F : Kids(dom, k) \subseteq F
  <2>1. \A q : Kids(dom, q) \subseteq Nodes
    BY DEF Kids
  <2> QED BY <1>1, <1>2, <2>1 DEF ClosedOver
<1> DEFINE S == {m \in F : dom.parent[m] \in {p} \cup F}
<1>5. dom.first[p] \in S \cup {Null}
  <2>1. dom.first[p] \in Nodes => dom.parent[dom.first[p]] = p
    BY DEF LinkInv, Firsts
  <2>2. dom.first[p] \in Nodes \cup {Null}
    BY Kinds DEF LinkInv
  <2> QED BY <1>4, <2>1, <2>2 DEF Kids
<1>6. \A k \in S : dom.first[k] \in S \cup {Null}
  <2> SUFFICES ASSUME NEW k \in S PROVE dom.first[k] \in S \cup {Null}
    OBVIOUS
  <2>1. k \in Nodes /\ k \in Places
    BY <1>2, Distinct
  <2>2. dom.first[k] \in Nodes => dom.parent[dom.first[k]] = k
    BY <2>1 DEF LinkInv, Firsts
  <2>3. dom.first[k] \in Nodes \cup {Null}
    BY <2>1, Kinds DEF LinkInv
  <2> QED BY <1>4, <2>2, <2>3 DEF Kids
<1>7. \A k \in S : dom.next[k] \in S \cup {Null}
  <2> SUFFICES ASSUME NEW k \in S PROVE dom.next[k] \in S \cup {Null}
    OBVIOUS
  <2>1. k \in Nodes
    BY <1>2
  <2>2. dom.next[k] \in Nodes => dom.parent[dom.next[k]] = dom.parent[k]
    BY <2>1 DEF LinkInv, Sides
  <2>3. dom.next[k] \in Nodes \cup {Null}
    BY <2>1, Kinds DEF LinkInv
  <2> QED BY <1>4, <2>2, <2>3 DEF Kids
<1>8. Under0(dom, p, S) /\ S \in SUBSET Nodes
  <2> HIDE DEF S
  <2>1. Under0(dom, p, S)
    BY <1>5, <1>6, <1>7 DEF Under0
  <2> QED BY <1>2, <2>1 DEF S
<1>9. B \subseteq F
  <2>1. B \subseteq S
    <3> HIDE DEF S, B
    <3> QED BY <1>8, BelowLeast DEF B
  <2> QED BY <2>1
<1>10. F = B
  BY <1>3, <1>9
<1> QED BY <1>10, ListsAsSets DEF F

\* A node and what is below it.
LEMMA ForestBelowNode ==
  ASSUME LinkInv(dom), NEW n \in Nodes
  PROVE  Forest!Below({n}) = {n} \cup Below(dom, n)
<1> DEFINE F == Forest!Below({n})
           G == Forest!Below(Kids(dom, n))
<1>1. \A m \in Nodes : m \in F <=> \A S \in SUBSET Nodes : ClosedOver({n}, S) => m \in S
  BY ForestBelow
<1>2. \A m \in Nodes : m \in G <=> \A S \in SUBSET Nodes : ClosedOver(Kids(dom, n), S) => m \in S
  BY ForestBelow
<1>3. F \subseteq Nodes /\ G \subseteq Nodes
  BY DEF Forest!Below
<1> HIDE DEF F, G
<1>4. n \in Places /\ \A q : Kids(dom, q) \subseteq Nodes
  BY Distinct DEF Kids
<1>5. {n} \cup G \subseteq F
  <2>1. n \in F /\ \A k \in F : Kids(dom, k) \subseteq F
    BY <1>1, <1>3, <1>4 DEF ClosedOver
  <2>2. ClosedOver(Kids(dom, n), F)
    BY <2>1 DEF ClosedOver
  <2> QED BY <1>2, <1>3, <2>1, <2>2
<1>6. F \subseteq {n} \cup G
  <2>1. ClosedOver(Kids(dom, n), G)
    BY <1>2, <1>3, <1>4 DEF ClosedOver
  <2>2. ClosedOver({n}, {n} \cup G) /\ {n} \cup G \in SUBSET Nodes
    BY <1>3, <2>1 DEF ClosedOver
  <2> QED BY <1>1, <1>3, <2>2
<1>7. G = Below(dom, n)
  BY <1>4, ListsAsSets, ForestBelowKids DEF G
<1> QED BY <1>5, <1>6, <1>7 DEF F

\* The operators on sequences that XmlForest uses.
LEMMA ForestSequences ==
  \A s, n, i : /\ Forest!RemoveFirst(s, n) = RemoveFirst(s, n)
               /\ Forest!InsertAt(s, i, n) = InsertAt(s, i, n)
<1> SUFFICES ASSUME NEW s, NEW n, NEW i
             PROVE  /\ Forest!RemoveFirst(s, n) = RemoveFirst(s, n)
                    /\ Forest!InsertAt(s, i, n) = InsertAt(s, i, n)
  OBVIOUS
<1>1. Forest!InsertAt(s, i, n) = InsertAt(s, i, n)
  BY DEF Forest!InsertAt, InsertAt
<1>2. Forest!SelectInSeq(s, LAMBDA v : v = n) = SelectInSeq(s, LAMBDA v : v = n)
  BY DEF Forest!SelectInSeq, SelectInSeq, Forest!Min, Min
<1>3. \A j : Forest!RemoveAt(s, j) = RemoveAt(s, j)
  BY DEF Forest!RemoveAt, RemoveAt
<1>4. Forest!RemoveFirst(s, n) = RemoveFirst(s, n)
  BY <1>2, <1>3 DEF Forest!RemoveFirst, RemoveFirst
<1> QED BY <1>1, <1>4

\* What a step of the document is to the forest: a step of it, or none.
ForestStep == Forest!Next \/ (Lists' = Lists /\ Orphans(dom)' = Orphans(dom))

\* The same lists and the same roots are the same forest.
LEMMA StepStutters ==
  ASSUME SameForest(dom, dom')
  PROVE  ForestStep
<1>1. Lists' = Lists
  BY DEF SameForest, Lists
<1> QED BY <1>1 DEF SameForest, ForestStep

\* A node that is created is one more root.
LEMMA StepCreates ==
  ASSUME LinkInv(dom), NEW n, NEW kind, Created(dom, dom', n, kind)
  PROVE  ForestStep
<1>1. Lists' = Lists
  BY SameTreeLists DEF Created, Lists
<1>2. n \in Nodes \ Live(dom) /\ Orphans(dom)' = Orphans(dom) \cup {n}
  BY DEF Created, Orphans, Live
<1>3. Forest!Create
  BY <1>1, <1>2, ForestLive DEF Forest!Create, Lists, Orphans
<1> QED BY <1>3 DEF ForestStep, Forest!Next

\* A node that is created and placed is one more child.
LEMMA StepGrows ==
  ASSUME LinkInv(dom), NEW n, NEW p \in Live(dom) \cup {Doc}, Grown(dom, dom', n, p),
         Orphans(dom') = Orphans(dom)
  PROVE  ForestStep
<1>1. p \in Places
  BY DEF Live, Places
<1>2. Lists' = [Lists EXCEPT ![p] = Append(Lists[p], n)]
  BY <1>1 DEF Grown, Lists
<1>3. n \in Nodes \ Live(dom)
  BY DEF Grown
<1>4. Forest!Grow
  BY <1>2, <1>3, ForestLive DEF Forest!Grow, Lists, Orphans
<1> QED BY <1>4 DEF ForestStep, Forest!Next

\* A node that is placed moves.
LEMMA StepMoves ==
  ASSUME LinkInv(dom), NEW n \in Live(dom), NEW p, PlaceFor(dom, p, n),
         NEW i, MovedTo(dom, dom', n, p, i), Orphans(dom') = Orphans(dom) \ {n}
  PROVE  ForestStep
<1>1. p \in (Live(dom) \cup {Doc}) \ ({n} \cup Below(dom, n)) /\ p \in Places /\ n \in Nodes
  BY DEF PlaceFor, Live, Places
<1> DEFINE others == [q \in Places |-> Forest!RemoveFirst(Lists[q], n)]
<1>2. \A q \in Places : others[q] = RemoveFirst(Children(dom, q), n)
  BY ForestSequences DEF Lists
<1>3. Lists' = [others EXCEPT ![p] = Forest!InsertAt(others[p], i, n)]
  <2>1. \A q \in Places : Lists'[q] = [others EXCEPT ![p] = Forest!InsertAt(others[p], i, n)][q]
    <3> HIDE DEF others
    <3>1. DOMAIN others = Places
      BY DEF others
    <3> QED BY <1>1, <1>2, <3>1, ForestSequences DEF MovedTo, Lists
  <2> QED BY <2>1 DEF Lists
<1>4. i \in 1 .. Len(others[p]) + 1
  BY <1>1, <1>2 DEF MovedTo
<1>5. p \in (Forest!Live \cup {Doc}) \ Forest!Below({n}) /\ n \in Forest!Live
  BY <1>1, ForestLive, ForestBelowNode
<1>6. Forest!Move
  BY <1>3, <1>4, <1>5 DEF Forest!Move, Forest!Places, Places, Lists, Orphans
<1> QED BY <1>6 DEF ForestStep, Forest!Next

\* A node that is deleted goes with all below it.
LEMMA StepDeletes ==
  ASSUME LinkInv(dom), NEW n \in Live(dom), Dropped(dom, dom', n),
         Orphans(dom') = Orphans(dom) \ {n}
  PROVE  ForestStep
<1>1. n \in Nodes /\ n \in Forest!Live /\ Forest!Below({n}) = {n} \cup Below(dom, n)
  BY ForestLive, ForestBelowNode DEF Live
<1>2. Lists' = [q \in Places |-> IF q \in Forest!Below({n}) THEN <<>>
                                 ELSE Forest!RemoveFirst(Lists[q], n)]
  BY <1>1, ForestSequences DEF Dropped, Lists
<1>3. Forest!Delete
  BY <1>1, <1>2 DEF Forest!Delete, Forest!Places, Places, Lists, Orphans
<1> QED BY <1>3 DEF ForestStep, Forest!Next

\* The children of a place go with all below them.
LEMMA StepDeletesChildren ==
  ASSUME LinkInv(dom), NEW p \in Live(dom) \cup {Doc}, Orphans(dom') = Orphans(dom),
         \A q \in Places : Children(dom', q) =
           IF q = p \/ q \in Below(dom, p) THEN <<>> ELSE Children(dom, q)
  PROVE  ForestStep
<1>1. p \in Places /\ p \in Forest!Live \cup {Doc}
  BY ForestLive DEF Live, Places
<1>2. Forest!Below(Forest!ToSet(Lists[p])) = Below(dom, p)
  BY <1>1, ForestBelowKids
<1>3. Lists' = [q \in Places |-> IF q = p \/ q \in Forest!Below(Forest!ToSet(Lists[p]))
                                 THEN <<>> ELSE Lists[q]]
  BY <1>2 DEF Lists
<1>4. Forest!DeleteChildren
  BY <1>1, <1>3 DEF Forest!DeleteChildren, Forest!Places, Places, Lists, Orphans
<1> QED BY <1>4 DEF ForestStep, Forest!Next

\* Clear leaves the empty forest.
LEMMA StepClears ==
  ASSUME Held(dom), dom' = ClearDocument(dom)
  PROVE  ForestStep
<1>1. Lists' = [p \in Places |-> <<>>]
  BY ClearedLists DEF Lists
<1>2. Orphans(dom') = {}
  BY ClearDocumentHeld
<1>3. Forest!Clear
  BY <1>1, <1>2 DEF Forest!Clear, Forest!Places, Places, Lists, Orphans
<1> QED BY <1>3 DEF ForestStep, Forest!Next

\* The node that is discarded again was never in the forest.
LEMMA DiscardedStutters ==
  ASSUME NEW e, NEW n, NEW kind, Created(dom, e, n, kind), LinkInv(dom), dom' = Discard(e, n)
  PROVE  ForestStep
<1>1. SameForest(dom, dom')
  BY CreatedDropped
<1> QED BY <1>1, StepStutters

\* The node that is created and placed under the open element.
LEMMA PlacedGrows ==
  ASSUME XmlInv, parse.stage = "reading", NEW e, NEW n, NEW kind, Created(dom, e, n, kind),
         dom' = InsertEndChild(e, Last(parse.open), n)
  PROVE  ForestStep
<1> DEFINE o == Last(parse.open)
<1>1. Sound(dom, parse) /\ LinkInv(dom) /\ Nested(parse.open, Orphans(dom))
      /\ Orphans(dom) \in SUBSET Nodes /\ Orphans(dom) \subseteq Live(dom)
  BY OrphansOf DEF XmlInv, Sound, Running, Held
<1>2. o \in Live(dom) \cup {Doc}
  BY <1>1, NestedTop
<1>3. PlaceFor(e, o, n)
  BY <1>1, OpenIsPlace
<1>4. Orphans(dom') = Orphans(dom)
  BY <1>1, CreatedPlaced
<1> HIDE DEF o
<1>5. dom' = InsertEndChild(e, o, n)
  BY DEF o
<1>6. Grown(dom, dom', n, o)
  BY <1>3, <1>5, CreatedGrown
<1> QED BY <1>1, <1>2, <1>4, <1>6, StepGrows

\* A token without a name grows the forest, or fails and leaves it.
LEMMA ReadLeafForest ==
  ASSUME XmlInv, NEW kind \in Leaves, ReadLeaf(kind)
  PROVE  ForestStep
<1> DEFINE e == CreateUnlinkedNode(dom, kind, Null)
           n == Fresh(dom)
<1>1. Held(dom) /\ LinkInv(dom) /\ parse.stage = "reading" /\ HasRoom(dom, 1) /\ kind \in NodeKinds
  BY LeavesAssumption DEF XmlInv, Sound, Held, ReadLeaf, Reading
<1>2. Created(dom, e, n, kind)
  BY <1>1, CreateHeld
<1>3. dom' = Discard(e, n) \/ dom' = InsertEndChild(e, Last(parse.open), n)
  BY DEF ReadLeaf, Open
<1> HIDE DEF e, n
<1> QED BY <1>1, <1>2, <1>3, DiscardedStutters, PlacedGrows

\* A start tag makes a root, or fails and leaves the forest.
LEMMA ReadOpenForest ==
  ASSUME XmlInv, NEW name, NEW attrs, ReadOpen(name, attrs)
  PROVE  ForestStep
<1> DEFINE e == CreateElement(name, attrs)
           n == Fresh(dom)
<1>1. Held(dom) /\ LinkInv(dom) /\ HasRoom(dom, 1)
  BY DEF XmlInv, Sound, Held, ReadOpen
<1>2. Created(dom, e, n, "element")
  BY <1>1, CreateElementHeld
<1>3. dom' = Discard(e, n) \/ dom' = e
  BY DEF ReadOpen
<1> HIDE DEF e, n
<1> QED BY <1>1, <1>2, <1>3, DiscardedStutters, StepCreates

\* An element without content grows the forest, or fails and leaves it.
LEMMA ReadEmptyForest ==
  ASSUME XmlInv, NEW name, NEW attrs, ReadEmpty(name, attrs)
  PROVE  ForestStep
<1> DEFINE e == CreateElement(name, attrs)
           n == Fresh(dom)
<1>1. Held(dom) /\ LinkInv(dom) /\ parse.stage = "reading" /\ HasRoom(dom, 1)
  BY DEF XmlInv, Sound, Held, ReadEmpty, Reading
<1>2. Created(dom, e, n, "element")
  BY <1>1, CreateElementHeld
<1>3. dom' = Discard(e, n) \/ dom' = InsertEndChild(e, Last(parse.open), n)
  BY DEF ReadEmpty, Open
<1> HIDE DEF e, n
<1> QED BY <1>1, <1>2, <1>3, DiscardedStutters, PlacedGrows

\* A token that does not read well leaves the forest.
LEMMA BrokenForest ==
  ASSUME XmlInv, NEW kind \in {"element", "text"}, Broken(kind)
  PROVE  ForestStep
<1> DEFINE e == CreateUnlinkedNode(dom, kind, Null)
           n == Fresh(dom)
<1>1. Held(dom) /\ LinkInv(dom) /\ HasRoom(dom, 1)
  BY DEF XmlInv, Sound, Held, Broken
<1>2. Created(dom, e, n, kind)
  BY <1>1, CreateHeld DEF NodeKinds
<1>3. dom' = Discard(e, n)
  BY DEF Broken
<1> HIDE DEF e, n
<1> QED BY <1>1, <1>2, <1>3, DiscardedStutters

\* The end of a parse leaves the forest, or deletes it when Parse(const char* )
\* has failed.
LEMMA EndForest ==
  ASSUME XmlInv, NEW p, End(p, dom)
  PROVE  ForestStep
<1>1. Held(dom) /\ LinkInv(dom) /\ Doc \in Places /\ Doc \in Live(dom) \cup {Doc}
  BY DEF XmlInv, Sound, Held, Places
<1> DEFINE c == DeleteChildren(dom, Doc)
<1>2. dom' = dom \/ dom' = [c EXCEPT !.untracked = [pool \in Pools |-> 0]]
  BY DEF End
<1>3. CASE dom' = dom
  BY <1>3, StepStutters DEF SameForest
<1>4. CASE dom' = [c EXCEPT !.untracked = [pool \in Pools |-> 0]]
  <2>1. /\ Held(c) /\ Orphans(c) = Orphans(dom)
        /\ \A q \in Places : Children(c, q) =
             IF q = Doc \/ q \in Below(dom, Doc) THEN <<>> ELSE Children(dom, q)
    BY <1>1, DeleteChildrenHeld, ChildrenDeletedLists DEF Fewer
  <2> HIDE DEF c
  <2> DEFINE u == [pool \in Pools |-> 0]
  <2>2. dom' = [c EXCEPT !.untracked = u]
    BY <1>4
  <2> HIDE DEF u
  <2>3. dom' = [kind |-> c.kind, name |-> c.name, attrs |-> c.attrs, parent |-> c.parent,
               prev |-> c.prev, next |-> c.next, first |-> c.first, last |-> c.last,
               unlinked |-> c.unlinked, untracked |-> u]
    BY <2>1, <2>2 DEF Held, LinkInv, IsDom
  <2>4. dom'.kind = c.kind /\ dom'.parent = c.parent /\ dom'.first = c.first /\ dom'.next = c.next
    BY <2>3
  <2>5. Orphans(dom') = Orphans(c)
    BY <2>4 DEF Orphans, Live
  <2>6. \A q \in Places : Children(dom', q) = Children(c, q)
    BY <2>4, SameTreeLists
  <2>7. /\ Orphans(dom') = Orphans(dom)
        /\ \A q \in Places : Children(dom', q) =
             IF q = Doc \/ q \in Below(dom, Doc) THEN <<>> ELSE Children(dom, q)
    BY <2>1, <2>5, <2>6
  <2> QED BY <1>1, <2>7, StepDeletesChildren
<1> QED BY <1>2, <1>3, <1>4

\* The open element that is discarded.
LEMMA DiscardForest ==
  ASSUME XmlInv, NEW n \in Orphans(dom), dom' = Discard(dom, n)
  PROVE  ForestStep
<1>1. LinkInv(dom) /\ Enumerates(dom.unlinked, Orphans(dom)) /\ Orphans(dom) \in SUBSET Nodes
      /\ n \in Live(dom)
  BY OrphansOf DEF XmlInv, Sound, Held
<1>2. Deleted(dom, dom', n)
  BY <1>1, DestroyHeld DEF Discard
<1>3. Dropped(dom, dom', n)
  BY <1>1, DestroyedLists DEF Discard
<1>4. Orphans(dom') = Orphans(dom) \ {n}
  BY <1>2 DEF Deleted
<1> QED BY <1>1, <1>3, <1>4, StepDeletes

\* An end tag gives the element its place, or deletes it.
LEMMA ReadCloseForest ==
  ASSUME XmlInv, NEW name, ReadClose(name)
  PROVE  ForestStep
<1> DEFINE n == Last(parse.open)
           parent == parse.open[Len(parse.open) - 1]
<1>1. Held(dom) /\ LinkInv(dom) /\ parse.stage = "reading"
      /\ Nested(parse.open, Orphans(dom)) /\ Orphans(dom) \in SUBSET Nodes
  BY OrphansOf DEF XmlInv, Sound, Held, Running, ReadClose, Reading
<1>2. \/ Open = Doc /\ End(Took(Token("close", name, <<>>)), dom)
      \/ Open # Doc /\ dom' = InsertEndChild(dom, parent, n)
      \/ Open # Doc /\ dom' = Discard(dom, n)
  BY DEF ReadClose, Open, Depth
<1>3. Open # Doc => n \in Orphans(dom) /\ parent \in (Orphans(dom) \ {n}) \cup {Doc}
  <2>1. Open # Doc => Len(parse.open) > 1
    BY <1>1, NestedTop DEF Open
  <2> QED BY <1>1, <2>1, NestedTop
<1> HIDE DEF n, parent
<1>4. CASE Open = Doc /\ End(Took(Token("close", name, <<>>)), dom)
  BY <1>4, EndForest
<1>5. CASE Open # Doc /\ dom' = InsertEndChild(dom, parent, n)
  <2>1. n \in Nodes /\ n \in Live(dom)
    BY <1>1, <1>3, <1>5, OrphansOf
  <2>2. parent \in Places /\ (parent # Doc => dom.kind[parent] # "free") /\ parent # n
    BY <1>1, <1>3, <1>5, <2>1, Distinct DEF Orphans, Live, Places
  <2>3. parent \notin Below(dom, n)
    <3>1. \A m \in Below(dom, n) : m \in Nodes /\ dom.parent[m] # Null
      BY <1>1, <2>1, BelowParents, Distinct
    <3> QED BY <1>3, <1>5, <3>1, Distinct DEF Orphans
  <2>4. PlaceFor(dom, parent, n)
    BY <2>2, <2>3 DEF PlaceFor
  <2>5. Inserted(dom, dom', n)
    BY <1>1, <1>5, <2>1, <2>4, EndInserted
  <2>6. Orphans(dom') = Orphans(dom) \ {n}
    BY <2>5 DEF Inserted
  <2>7. PICK i : MovedTo(dom, dom', n, parent, i)
    BY <1>1, <1>5, <2>1, <2>4, EndMoved
  <2> QED BY <1>1, <2>1, <2>4, <2>6, <2>7, StepMoves
<1>6. CASE Open # Doc /\ dom' = Discard(dom, n)
  BY <1>3, <1>6, DiscardForest
<1> QED BY <1>2, <1>4, <1>5, <1>6

\* The end of the file, and the return of an activation that failed.
LEMMA ReturnForest ==
  ASSUME XmlInv, EndOfFile \/ Unwind
  PROVE  ForestStep
<1>1. CASE EndOfFile
  <2>1. End(parse, dom) \/ dom' = dom
    BY <1>1 DEF EndOfFile
  <2>2. CASE End(parse, dom)
    BY <2>2, EndForest
  <2>3. CASE dom' = dom
    BY <2>3, StepStutters DEF SameForest
  <2> QED BY <2>1, <2>2, <2>3
<1>2. CASE Unwind
  <2>1. Nested(parse.open, Orphans(dom)) /\ Orphans(dom) \in SUBSET Nodes
    BY <1>2, OrphansOf DEF XmlInv, Sound, Running, Unwind
  <2>2. CASE Open = Doc
    <3>1. End(parse, dom)
      BY <1>2, <2>2 DEF Unwind
    <3> QED BY <3>1, EndForest
  <2>3. CASE Open # Doc
    <3>1. dom' = Discard(dom, Last(parse.open))
      BY <1>2, <2>3 DEF Unwind, Open
    <3>2. Len(parse.open) > 1
      BY <2>1, <2>3, NestedTop DEF Open
    <3>3. Last(parse.open) \in Orphans(dom)
      BY <2>1, <3>2, NestedTop
    <3> QED BY <3>1, <3>3, DiscardForest
  <2> QED BY <2>2, <2>3
<1> QED BY <1>1, <1>2

\* A call of the user of the library does to the forest what its name says.
LEMMA EditForest ==
  ASSUME XmlInv, Edit
  PROVE  ForestStep
<1>1. Held(dom) /\ LinkInv(dom)
  BY DEF XmlInv, Sound, Held
<1>2. ASSUME NEW p, NEW n, MayPlace(p, n) PROVE PlaceFor(dom, p, n) /\ n \in Live(dom)
  BY <1>2, Distinct DEF MayPlace, PlaceFor, Live, Places
<1>3. CASE New
  <2> PICK kind \in NewKinds :
        \E name : HasRoom(dom, 1) /\ dom' = CreateUnlinkedNode(dom, kind, name)
    BY <1>3 DEF New
  <2>1. PICK name : HasRoom(dom, 1) /\ dom' = CreateUnlinkedNode(dom, kind, name)
    OBVIOUS
  <2>2. kind \in NodeKinds
    BY TreeAssumption
  <2>3. Created(dom, dom', Fresh(dom), kind)
    BY <1>1, <2>1, <2>2, CreateHeld
  <2> QED BY <1>1, <2>3, StepCreates
<1>4. CASE InsertEnd
  <2>1. PICK p \in Places, n \in Nodes : MayPlace(p, n) /\ dom' = InsertEndChild(dom, p, n)
    BY <1>4 DEF InsertEnd
  <2>2. PlaceFor(dom, p, n) /\ n \in Live(dom)
    BY <1>2, <2>1
  <2>3. Inserted(dom, dom', n) /\ \E i : MovedTo(dom, dom', n, p, i)
    BY <1>1, <2>1, <2>2, EndInserted, EndMoved
  <2>4. PICK i : MovedTo(dom, dom', n, p, i)
    BY <2>3
  <2>5. Orphans(dom') = Orphans(dom) \ {n}
    BY <2>3 DEF Inserted
  <2> QED BY <1>1, <2>2, <2>4, <2>5, StepMoves
<1>5. CASE InsertFirst
  <2>1. PICK p \in Places, n \in Nodes : MayPlace(p, n) /\ dom' = InsertFirstChild(dom, p, n)
    BY <1>5 DEF InsertFirst
  <2>2. PlaceFor(dom, p, n) /\ n \in Live(dom)
    BY <1>2, <2>1
  <2>3. Inserted(dom, dom', n) /\ \E i : MovedTo(dom, dom', n, p, i)
    BY <1>1, <2>1, <2>2, FirstInserted, FirstMoved
  <2>4. PICK i : MovedTo(dom, dom', n, p, i)
    BY <2>3
  <2>5. Orphans(dom') = Orphans(dom) \ {n}
    BY <2>3 DEF Inserted
  <2> QED BY <1>1, <2>2, <2>4, <2>5, StepMoves
<1>6. CASE InsertAfter
  <2>1. PICK after \in Nodes, n \in Nodes :
          /\ MayPlace(dom.parent[after], n)
          /\ ~InsertsThroughNull(dom, after, n)
          /\ dom' = InsertAfterChild(dom, dom.parent[after], after, n)
    BY <1>6 DEF InsertAfter
  <2> DEFINE p == dom.parent[after]
  <2>2. PlaceFor(dom, p, n) /\ n \in Live(dom)
    BY <1>2, <2>1
  <2>3. dom' = dom \/ (Inserted(dom, dom', n) /\ dom' # dom)
    BY <1>1, <2>1, <2>2, AfterInserted
  <2>4. dom' = dom \/ \E i : MovedTo(dom, dom', n, p, i)
    BY <1>1, <2>1, <2>2, AfterMoved
  <2> HIDE DEF p
  <2>5. CASE dom' = dom
    BY <2>5, StepStutters DEF SameForest
  <2>6. CASE dom' # dom
    <3>1. PICK i : MovedTo(dom, dom', n, p, i)
      BY <2>4, <2>6
    <3>2. Orphans(dom') = Orphans(dom) \ {n}
      BY <2>3, <2>6 DEF Inserted
    <3> QED BY <1>1, <2>2, <3>1, <3>2, StepMoves
  <2> QED BY <2>5, <2>6
<1>7. CASE DeleteOne
  <2>1. PICK n \in Live(dom) : dom' = DeleteNode(dom, n)
    BY <1>7 DEF DeleteOne
  <2>2. Without(dom, dom', n) /\ Dropped(dom, dom', n)
    BY <1>1, <2>1, DeleteNodeHeld, DeletedLists
  <2>3. Orphans(dom') = Orphans(dom) \ {n}
    BY <2>2 DEF Without
  <2> QED BY <1>1, <2>2, <2>3, StepDeletes
<1>8. CASE DeleteAll
  <2>1. PICK p \in Live(dom) \cup {Doc} : dom' = DeleteChildren(dom, p)
    BY <1>8 DEF DeleteAll
  <2>2. p \in Places
    BY DEF Live, Places
  <2>3. /\ Orphans(dom') = Orphans(dom)
        /\ \A q \in Places : Children(dom', q) =
             IF q = p \/ q \in Below(dom, p) THEN <<>> ELSE Children(dom, q)
    BY <1>1, <2>1, <2>2, DeleteChildrenHeld, ChildrenDeletedLists
  <2> QED BY <1>1, <2>3, StepDeletesChildren
<1>9. CASE EditAttributes
  <2>1. PICK n, list : dom' = [dom EXCEPT !.attrs[n] = list]
    BY <1>9 DEF EditAttributes, SetAttribute, DeleteAttribute
  <2>2. SameTree(dom, dom')
    BY <1>1, <2>1, AttributesOnly
  <2>3. Orphans(dom') = Orphans(dom)
    BY <1>1, <2>2, SameTreeKeeps
  <2>4. \A q \in Places : Children(dom', q) = Children(dom, q)
    BY <2>2, SameTreeLists DEF SameTree
  <2> QED BY <2>3, <2>4, StepStutters DEF SameForest
<1> QED BY <1>3, <1>4, <1>5, <1>6, <1>7, <1>8, <1>9 DEF Edit

\* The object graph implements the ordered tree: at every step of the parser and
\* every call of the user of the library, nodes are created, placed, moved and
\* deleted as XmlForest says, for any number of nodes and any depth.
THEOREM XmlForestImplemented == Spec => IsForest
<1>1. Init => Forest!Init
  <2> SUFFICES ASSUME Init PROVE Forest!Init
    OBVIOUS
  <2>1. XmlInv /\ dom = EmptyDom
    BY XmlInit DEF Init
  <2>2. \A n \in Nodes : dom.kind[n] = "free"
    BY <2>1 DEF EmptyDom
  <2>3. \A p \in Places : dom.first[p] = Null
    BY <2>1 DEF EmptyDom
  <2>4. \A p \in Places : Children(dom, p) = <<>>
    BY <2>3, NoChildren
  <2>5. Live(dom) = {}
    BY <2>2 DEF Live
  <2> QED BY <2>4, <2>5 DEF Forest!Init, Forest!Places, Places
<1>2. XmlInv /\ [Next]_vars => [Forest!Next]_(Forest!vars)
  <2> SUFFICES ASSUME XmlInv, [Next]_vars PROVE ForestStep
    BY DEF ForestStep, Lists, Orphans, Forest!vars
  <2>1. CASE UserEdits
    BY <2>1, EditForest DEF UserEdits
  <2>2. CASE \E source \in {"file", "memory"} : Start(source)
    <3>1. dom' = ClearDocument(dom) /\ Held(dom)
      BY <2>2 DEF Start, XmlInv, Sound
    <3> QED BY <3>1, StepClears
  <2>3. CASE Parse
    <3>1. CASE \E kind \in Leaves : ReadLeaf(kind)
      BY <3>1, ReadLeafForest
    <3>2. CASE \E name \in Names, attrs \in AttrLists : ReadOpen(name, attrs) \/ ReadEmpty(name, attrs)
      BY <3>2, ReadOpenForest, ReadEmptyForest
    <3>3. CASE \E name \in Names : ReadClose(name)
      BY <3>3, ReadCloseForest
    <3>4. CASE \E kind \in {"element", "text"} : Broken(kind)
      BY <3>4, BrokenForest
    <3>5. CASE EndOfFile \/ Unwind
      BY <3>5, ReturnForest
    <3> QED BY <2>3, <3>1, <3>2, <3>3, <3>4, <3>5 DEF Parse
  <2>4. CASE UNCHANGED vars
    BY <2>4, StepStutters DEF vars, SameForest
  <2> QED BY <2>1, <2>2, <2>3, <2>4 DEF Next
<1> QED BY <1>1, <1>2, XmlInvariant, PTL DEF Spec, IsForest, Forest!Spec
=============================================================================
