------------------------------ MODULE XmlTree ------------------------------
(***************************************************************************)
(* The document object model of tinyxml2: nodes in doubly linked lists of  *)
(* children, the list of nodes that were created and never placed, and the *)
(* pools' counts of untracked allocations.  dom is the whole object graph  *)
(* of one XMLDocument; every function of the library that changes it is an *)
(* operator from a dom to the next one.                                    *)
(*                                                                         *)
(* An attribute is its name: no property is about its value.  The pool of  *)
(* attributes is left out, CreateAttribute tracks what it allocates.       *)
(***************************************************************************)
EXTENDS Integers, FiniteSets, SequencesExt, Walks

CONSTANTS
  MaxNodes, \* bound: nodes that live at a time
  Names,    \* names of elements
  AttrNames,\* names of attributes
  NewKinds  \* the kinds of node that the user of the library creates

Nodes == 1 .. MaxNodes
Doc == 0      \* the XMLDocument is an XMLNode too
Null == -1
Places == Nodes \cup {Doc}

NodeKinds == {"element", "text", "comment", "declaration", "unknown"}

ASSUME TreeAssumption == MaxNodes \in Nat /\ NewKinds \subseteq NodeKinds

Pools == {"element", "text", "comment"}

\* Comments, declarations and unknowns have the same size and share a pool.
PoolOf(kind) == IF kind \in {"declaration", "unknown"} THEN "comment" ELSE kind

VARIABLE dom

EmptyDom ==
  [kind |-> [n \in Nodes |-> "free"],
   name |-> [n \in Nodes |-> Null],
   attrs |-> [n \in Nodes |-> <<>>],
   parent |-> [n \in Nodes |-> Null],
   prev |-> [n \in Nodes |-> Null],
   next |-> [n \in Nodes |-> Null],
   first |-> [p \in Places |-> Null],
   last |-> [p \in Places |-> Null],
   unlinked |-> <<>>,
   untracked |-> [pool \in Pools |-> 0]]

Live(d) == {n \in Nodes : d.kind[n] # "free"}

HasRoom(d, count) == Cardinality(Nodes \ Live(d)) >= count

\* A store through a pointer that may be null.
Store(field, n, value) == IF n = Null THEN field ELSE [field EXCEPT ![n] = value]

-----------------------------------------------------------------------------
(* Walking the tree. *)

\* FirstChild() and then NextSibling() until null.
Children(d, p) == Walk(d.first[p], d.next, Null, MaxNodes)

\* n and all that is below it, parents first.
Under(d, n) ==
  LET walk[m \in Nodes, depth \in 0 .. MaxNodes] ==
        IF depth = 0 THEN <<>>
        ELSE <<m>> \o FlattenSeq([i \in DOMAIN Children(d, m) |->
                                    walk[Children(d, m)[i], depth - 1]])
  IN  walk[n, MaxNodes]

\* What is below p: the nodes that links from its first child lead to, down to
\* a first child or on to a next sibling.
Below(d, p) ==
  {m \in Nodes : \A S \in SUBSET Nodes :
     (/\ d.first[p] \in S \cup {Null}
      /\ \A k \in S : {d.first[k], d.next[k]} \subseteq S \cup {Null}) => m \in S}

\* The first node that is an element of this name, along the chain from n.
\* AnyName stands for a null name.
AnyName == "any"

ToElementWithName(d, n, name) ==
  d.kind[n] = "element" /\ name \in {AnyName, d.name[n]}

Search(d, n, link, name) ==
  LET chain == Walk(n, link, Null, MaxNodes)
      i == SelectInSeq(chain, LAMBDA m : ToElementWithName(d, m, name))
  IN  IF i = 0 THEN Null ELSE chain[i]

FirstChildElement(d, p, name) == Search(d, d.first[p], d.next, name)
LastChildElement(d, p, name) == Search(d, d.last[p], d.prev, name)
NextSiblingElement(d, n, name) == Search(d, d.next[n], d.next, name)
PreviousSiblingElement(d, n, name) == Search(d, d.prev[n], d.prev, name)

-----------------------------------------------------------------------------
(* Creating and placing nodes. *)

\* new (pool.Alloc()) NodeType(this); _unlinked.Push(returnNode)
Fresh(d) == CHOOSE n \in Nodes \ Live(d) : \A m \in Nodes \ Live(d) : n <= m

CreateUnlinkedNode(d, kind, name) ==
  LET n == Fresh(d)
  IN  [d EXCEPT !.kind[n] = kind, !.name[n] = name,
                !.unlinked = Append(@, n), !.untracked[PoolOf(kind)] = @ + 1]

SetTracked(d, n) == [d EXCEPT !.untracked[PoolOf(d.kind[n])] = @ - 1]

\* Mutant: the entries from i on are dropped.
TruncateAt(s, i) == SubSeq(s, 1, i - 1)

\* The last entry takes the place of entry i.
SwapRemove(s, i) == Front([s EXCEPT ![i] = Last(s)])

MarkInUse(d, n) ==
  IF Contains(d.unlinked, n)
  THEN [d EXCEPT !.unlinked = SwapRemove(@, CHOOSE i \in DOMAIN @ : @[i] = n)]
  ELSE d

\* Mutant: _lastChild is not moved back.
UnlinkKeepsLast(d, n) ==
  LET p == d.parent[n]
  IN  [d EXCEPT !.first[p] = IF @ = n THEN d.next[n] ELSE @,
                !.next = Store(Store(@, d.prev[n], d.next[n]), n, Null),
                !.prev = Store(Store(@, d.next[n], d.prev[n]), n, Null),
                !.parent[n] = Null]

Unlink(d, n) ==
  LET p == d.parent[n]
  IN  [d EXCEPT !.first[p] = IF @ = n THEN d.next[n] ELSE @,
                !.last[p] = IF @ = n THEN d.prev[n] ELSE @,
                !.next = Store(Store(@, d.prev[n], d.next[n]), n, Null),
                !.prev = Store(Store(@, d.next[n], d.prev[n]), n, Null),
                !.parent[n] = Null]

\* Mutant: a node that has a place keeps it.
PreambleKeepsPlace(d, n) ==
  IF d.parent[n] # Null THEN d ELSE SetTracked(MarkInUse(d, n), n)

InsertChildPreamble(d, n) ==
  IF d.parent[n] # Null THEN Unlink(d, n) ELSE SetTracked(MarkInUse(d, n), n)

InsertEndChild(before, p, n) ==
  LET d == InsertChildPreamble(before, n)
  IN  [d EXCEPT !.first[p] = IF d.last[p] = Null THEN n ELSE @,
                !.last[p] = n,
                !.next = Store(Store(@, d.last[p], n), n, Null),
                !.prev[n] = d.last[p],
                !.parent[n] = p]

InsertFirstChild(before, p, n) ==
  LET d == InsertChildPreamble(before, n)
  IN  [d EXCEPT !.last[p] = IF d.first[p] = Null THEN n ELSE @,
                !.first[p] = n,
                !.prev = Store(Store(@, d.first[p], n), n, Null),
                !.next[n] = d.first[p],
                !.parent[n] = p]

\* InsertChildPreamble may unlink the only sibling after "after", and then the
\* library writes through the null pointer after->_next.
InsertsThroughNull(d, after, n) ==
  /\ after # n
  /\ d.next[after] # Null
  /\ InsertChildPreamble(d, n).next[after] = Null

InsertAfterChild(before, p, after, n) ==
  IF after = n THEN before
  ELSE IF before.next[after] = Null THEN InsertEndChild(before, p, n)
  ELSE LET d == InsertChildPreamble(before, n)
       IN  [d EXCEPT !.prev = Store(Store(@, n, after), d.next[after], n),
                     !.next = Store(Store(@, n, d.next[after]), after, n),
                     !.parent[n] = p]

-----------------------------------------------------------------------------
(* Deleting. *)

\* XMLNode::DeleteNode: the destructor deletes the children, each of which is
\* in no list of unlinked nodes, and the pool takes the memory back.
DestroyNode(before, n) ==
  LET d == MarkInUse(before, n)
      gone == {n} \cup Below(d, n)
      Wipe(field, value) == [m \in DOMAIN field |-> IF m \in gone THEN value ELSE field[m]]
  IN  [d EXCEPT !.kind = Wipe(@, "free"), !.name = Wipe(@, Null), !.attrs = Wipe(@, <<>>),
                !.parent = Wipe(@, Null), !.prev = Wipe(@, Null), !.next = Wipe(@, Null),
                !.first = Wipe(@, Null), !.last = Wipe(@, Null)]

DeleteChild(d, n) == DestroyNode(Unlink(d, n), n)

\* while (_firstChild) DeleteChild(_firstChild): no more rounds than there are nodes.
DeleteChildren(d, p) ==
  LET left[round \in 0 .. MaxNodes] ==
        IF round = 0 THEN d
        ELSE LET before == left[round - 1]
             IN  IF before.first[p] = Null THEN before ELSE DeleteChild(before, before.first[p])
  IN  [left[MaxNodes] EXCEPT !.first[p] = Null, !.last[p] = Null]

\* Mutant: the pool is not told of a node that was never placed.
DeleteNodeUntold(d, n) ==
  IF d.parent[n] # Null THEN DeleteChild(d, n) ELSE DestroyNode(d, n)

\* XMLDocument::DeleteNode
DeleteNode(d, n) ==
  IF d.parent[n] # Null THEN DeleteChild(d, n) ELSE DestroyNode(SetTracked(d, n), n)

\* while (_unlinked.Size()) DeleteNode(_unlinked[0])
ClearDocument(d) ==
  LET left[round \in 0 .. MaxNodes] ==
        IF round = 0 THEN DeleteChildren(d, Doc)
        ELSE LET before == left[round - 1]
             IN  IF before.unlinked = <<>> THEN before
                 ELSE DeleteNode(before, Head(before.unlinked))
  IN  left[MaxNodes]

-----------------------------------------------------------------------------
(* Attributes and copies. *)

HasAttribute(attrs, x) == Contains(attrs, x)

\* FindOrCreateAttribute, as SetAttribute calls it.
WithAttribute(attrs, x) == IF HasAttribute(attrs, x) THEN attrs ELSE Append(attrs, x)

SetAttribute(d, n, x) == [d EXCEPT !.attrs[n] = WithAttribute(@, x)]

DeleteAttribute(d, n, x) == [d EXCEPT !.attrs[n] = RemoveFirst(@, x)]

\* A copy in the document t of a node of the document d.
ShallowClone(d, n, t) ==
  [CreateUnlinkedNode(t, d.kind[n], d.name[n]) EXCEPT
     !.attrs[Fresh(t)] = FoldLeft(WithAttribute, <<>>, d.attrs[n])]

\* Mutant: the copy of a node goes under the copy of the root.
DeepCloneFlat(d, n, t) ==
  LET CopyNode(acc, m) ==
        IF m = n THEN ShallowClone(d, m, acc)
        ELSE InsertEndChild(ShallowClone(d, m, acc), Fresh(t), Fresh(acc))
  IN  FoldLeft(CopyNode, t, Under(d, n))

\* DeepClone calls itself for every child; here a node is copied before what is
\* below it, and copy says which node is whose copy.
DeepClone(d, n, t) ==
  LET CopyNode(acc, m) ==
        LET one == ShallowClone(d, m, acc.dom)
            c == Fresh(acc.dom)
        IN  [dom |-> IF m = n THEN one ELSE InsertEndChild(one, acc.copy[d.parent[m]], c),
             copy |-> [acc.copy EXCEPT ![m] = c]]
      start == [dom |-> t, copy |-> [m \in Nodes |-> Null]]
  IN  FoldLeft(CopyNode, start, Under(d, n)).dom

\* DeepCopy into a document that has been cleared.
DeepCopy(d) ==
  LET CopyChild(t, n) == InsertEndChild(DeepClone(d, n, t), Doc, Fresh(t))
  IN  FoldLeft(CopyChild, EmptyDom, Children(d, Doc))

-----------------------------------------------------------------------------
(* Writing: Accept visits the tree, XMLPrinter answers with tokens.        *)

Token(tag, name, attrs) == [tag |-> tag, name |-> name, attrs |-> attrs]

SealElementIfJustOpened(pr) ==
  IF pr.justOpened
  THEN [pr EXCEPT !.justOpened = FALSE, !.out[Len(pr.out)].tag = "open"]
  ELSE pr

\* PushText, PushComment, PushDeclaration, PushUnknown
PushLeaf(pr, kind) ==
  [SealElementIfJustOpened(pr) EXCEPT !.out = Append(@, Token(kind, Null, <<>>))]

OpenElement(pr, name, attrs) ==
  [SealElementIfJustOpened(pr) EXCEPT !.out = Append(@, Token("unsealed", name, attrs)),
                                      !.stack = Append(@, name),
                                      !.justOpened = TRUE]

CloseElement(pr) ==
  LET name == Last(pr.stack)
      closed == IF pr.justOpened
                THEN [pr.out EXCEPT ![Len(pr.out)].tag = "empty"]
                ELSE Append(pr.out, Token("close", name, <<>>))
  IN  [out |-> closed, stack |-> Front(pr.stack), justOpened |-> FALSE]

\* The calls that Accept makes on the visitor, for p and what is below it.
Visits(d, p) ==
  LET visit[m \in Nodes, depth \in 0 .. MaxNodes] ==
        IF depth = 0 THEN <<>>
        ELSE IF d.kind[m] # "element" THEN <<[call |-> "visit", node |-> m]>>
        ELSE <<[call |-> "enter", node |-> m]>>
             \o FlattenSeq([i \in DOMAIN Children(d, m) |->
                              visit[Children(d, m)[i], depth - 1]])
             \o <<[call |-> "exit", node |-> m]>>
  IN  FlattenSeq([i \in DOMAIN Children(d, p) |-> visit[Children(d, p)[i], MaxNodes]])

Accept(d) ==
  LET Respond(pr, v) ==
        CASE v.call = "enter" -> OpenElement(pr, d.name[v.node], d.attrs[v.node])
          [] v.call = "exit" -> CloseElement(pr)
          [] v.call = "visit" -> PushLeaf(pr, d.kind[v.node])
  IN  FoldLeft(Respond, [out |-> <<>>, stack |-> <<>>, justOpened |-> FALSE], Visits(d, Doc)).out

-----------------------------------------------------------------------------
(* The calls of the user of the library.  Each leaves another dom.         *)

\* Only the document and elements are given children.
IsContainer(d, p) == p # Doc => d.kind[p] = "element"

\* Nothing in the library keeps a node from being placed below itself; its
\* user must not.
MayPlace(p, n) ==
  /\ n \in Live(dom)
  /\ p \in Live(dom) \cup {Doc}
  /\ p # n /\ p \notin Below(dom, n)
  /\ IsContainer(dom, p)

New ==
  /\ HasRoom(dom, 1)
  /\ \E kind \in NewKinds :
       \E name \in IF kind = "element" THEN Names ELSE {Null} :
         dom' = CreateUnlinkedNode(dom, kind, name)

InsertEnd == \E p \in Places, n \in Nodes :
  /\ MayPlace(p, n)
  /\ dom' = InsertEndChild(dom, p, n)

InsertFirst == \E p \in Places, n \in Nodes :
  /\ MayPlace(p, n)
  /\ dom' = InsertFirstChild(dom, p, n)

InsertAfter == \E after, n \in Nodes :
  /\ after \in Live(dom)
  /\ dom.parent[after] # Null
  /\ MayPlace(dom.parent[after], n)
  /\ ~InsertsThroughNull(dom, after, n)
  /\ dom' = InsertAfterChild(dom, dom.parent[after], after, n)

DeleteOne == \E n \in Live(dom) : dom' = DeleteNode(dom, n)

DeleteAll == \E p \in Live(dom) \cup {Doc} :
  /\ IsContainer(dom, p)
  /\ dom' = DeleteChildren(dom, p)

EditAttributes == \E n \in Live(dom), x \in AttrNames :
  /\ dom.kind[n] = "element"
  /\ dom' \in {SetAttribute(dom, n, x), DeleteAttribute(dom, n, x)}

Edit == New \/ InsertEnd \/ InsertFirst \/ InsertAfter \/ DeleteOne \/ DeleteAll
        \/ EditAttributes
=============================================================================
