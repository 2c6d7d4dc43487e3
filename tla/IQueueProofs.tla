---------------------------- MODULE IQueueProofs ----------------------------
(***************************************************************************)
(* For any segments and any heads: whatever macros of ikcp.h are used, in  *)
(* whatever order, the links of the queues go both ways, and the queues    *)
(* are the sequences of SegQueues.                                         *)
(***************************************************************************)
EXTENDS IQueue, WalkProofs

QueueTypeOK ==
  /\ next \in [Cells -> Cells \cup {Null}]
  /\ prev \in [Cells -> Cells \cup {Null}]

\* A walk from a head meets no other head: all that it meets has the same owner.
Owned(owner) ==
  /\ \A head \in Heads : owner[head] = head
  /\ \A cell \in Cells : next[cell] # Null => owner[next[cell]] = owner[cell]

\* The links alone do not say that two heads are in different rings, and splicing a
\* ring with itself breaks it.
Inv ==
  /\ QueueTypeOK
  /\ \A head \in Heads : next[head] # Null
  /\ BothWays
  /\ \E owner \in [Cells -> Cells] : Owned(owner)

\* QueueInit establishes the invariant.
LEMMA InitInv == QueueInit => Inv
<1> SUFFICES ASSUME QueueInit PROVE Inv
  OBVIOUS
<1> USE CellsAssumption DEF QueueInit, Cells
<1>1. QueueTypeOK /\ BothWays /\ \A head \in Heads : next[head] # Null
  BY DEF QueueTypeOK, BothWays
<1>2. [cell \in Cells |-> cell] \in [Cells -> Cells] /\ Owned([cell \in Cells |-> cell])
  BY DEF Owned
<1> QED BY <1>1, <1>2 DEF Inv

\* The walk from a head is the sequence that its links spell.
LEMMA RingWalk ==
  ASSUME NEW h, NEW link, Cells \subseteq DOMAIN link,
         NEW s \in Seq(Nodes), Once(s), IsWalk(s, link[h], link, h)
  PROVE  Walk(link[h], link, h, Cardinality(Nodes)) = s
<1>1. IsFiniteSet(Nodes) /\ Cardinality(Nodes) \in Nat
  BY CellsAssumption, FS_CardinalityType
<1>2. Len(s) <= Cardinality(Nodes)
  BY <1>1, OnceShort
<1> QED BY <1>1, <1>2, WalkFound

\* A queue spells its links, and what is in it is linked and owned by its head.
LEMMA QueueRing ==
  ASSUME Inv, NEW owner \in [Cells -> Cells], Owned(owner), NEW h \in Heads
  PROVE  /\ Queue(h) \in Seq(Nodes) /\ Once(Queue(h)) /\ IsWalk(Queue(h), next[h], next, h)
         /\ \A i \in 1 .. Len(Queue(h)) :
              /\ Queue(h)[i] \in Nodes /\ owner[Queue(h)[i]] = h
              /\ next[Queue(h)[i]] # Null
<1> DEFINE S == {n \in Nodes : next[n] # Null /\ owner[n] = h}
<1>1. IsFiniteSet(S) /\ h \notin S /\ h \in Cells
  BY CellsAssumption, FS_Subset DEF Cells
<1>2. ASSUME NEW c \in Cells, next[c] # Null, owner[c] = h PROVE next[c] \in S \cup {h}
  <2>1. next[c] \in Cells /\ owner[next[c]] = h /\ prev[next[c]] = c
    BY <1>2 DEF Inv, BothWays, Owned
  <2>2. next[next[c]] # Null
    BY <1>2, <2>1, CellsAssumption DEF Inv, BothWays
  <2>3. CASE next[c] \in Heads
    BY <2>1, <2>3 DEF Owned
  <2>4. CASE next[c] \in Nodes
    BY <2>1, <2>2, <2>4
  <2> QED BY <2>1, <2>3, <2>4 DEF Cells
<1>3. next[h] \in S \cup {h}
  BY <1>1, <1>2 DEF Inv, Owned
<1>4. \A a, b \in S \cup {h} : next[a] = next[b] => a = b
  <2> SUFFICES ASSUME NEW a \in S \cup {h}, NEW b \in S \cup {h}, next[a] = next[b] PROVE a = b
    OBVIOUS
  <2>1. a \in Cells /\ b \in Cells /\ next[a] # Null /\ next[b] # Null
    BY <1>1 DEF Cells, Inv
  <2> QED BY <2>1 DEF Inv, BothWays
<1>5. \A c \in S : next[c] \in S \cup {h} /\ (next[h] # h => next[c] # next[h])
  BY <1>1, <1>2, <1>4 DEF Cells
<1>6. PICK s \in Seq(S) : IsWalk(s, next[h], next, h) /\ Once(s)
  <2> HIDE DEF S
  <2> QED BY <1>1, <1>3, <1>4, <1>5, WalkEnds
<1>7. s \in Seq(Nodes)
  BY SeqMonotonic
<1>8. Queue(h) = s
  BY <1>6, <1>7, RingWalk DEF Queue, Inv, QueueTypeOK
<1>9. \A i \in 1 .. Len(s) : s[i] \in S
  BY ElementOfSeq
<1> QED BY <1>6, <1>7, <1>8, <1>9

\* A segment that points nowhere or to itself is in no queue.
LEMMA AloneOut ==
  ASSUME Inv, NEW owner \in [Cells -> Cells], Owned(owner), NEW h \in Heads,
         NEW node \in Nodes, Alone(node)
  PROVE  \A i \in 1 .. Len(Queue(h)) : Queue(h)[i] # node
<1>1. PICK s : s = Queue(h)
  OBVIOUS
<1> SUFFICES ASSUME NEW i \in 1 .. Len(s), s[i] = node PROVE FALSE
  BY <1>1
<1>2. s \in Seq(Nodes) /\ Once(s) /\ IsWalk(s, next[h], next, h) /\ next[node] # Null
  BY <1>1, QueueRing
<1>3. PICK k \in Nat : k = Len(s)
  BY <1>2, LenProperties
<1>4. next[node] = node /\ next[node] = At(s, i + 1, h)
  BY <1>2 DEF Alone, IsWalk
<1>5. CASE i + 1 \in 1 .. k
  <2>1. s[i + 1] = s[i] /\ i # i + 1
    BY <1>3, <1>4, <1>5 DEF At
  <2> QED BY <1>2, <1>3, <1>5, <2>1 DEF Once
<1>6. CASE i + 1 \notin 1 .. k
  BY <1>3, <1>4, <1>6, CellsAssumption DEF At
<1> QED BY <1>5, <1>6

\* The cell behind which a segment is added is linked, and is another one.
LEMMA InQueueLinked ==
  ASSUME Inv, NEW node \in Nodes, Alone(node), NEW at \in Cells, InQueue(at)
  PROVE  next[at] # Null /\ at # node
<1>1. PICK owner \in [Cells -> Cells] : Owned(owner)
  BY DEF Inv
<1>2. CASE at \in Heads
  BY <1>2, CellsAssumption DEF Inv
<1>3. CASE at \notin Heads
  <2>1. PICK head \in Heads : \E i \in DOMAIN Queue(head) : Queue(head)[i] = at
    BY <1>3 DEF InQueue
  <2>2. Queue(head) \in Seq(Nodes)
    BY <1>1, QueueRing
  <2>3. PICK i \in 1 .. Len(Queue(head)) : Queue(head)[i] = at
    BY <2>1, <2>2, LenProperties
  <2>4. next[Queue(head)[i]] # Null
    BY <1>1, QueueRing
  <2>5. Queue(head)[i] # node
    BY <1>1, AloneOut
  <2> QED BY <2>3, <2>4, <2>5
<1> QED BY <1>2, <1>3

\* A cell that is added lies between the two cells that were neighbours.
LEMMA AddInv ==
  ASSUME Inv, NEW node \in Nodes, NEW at \in Cells, Add(node, at)
  PROVE  Inv'
<1>0. next[at] # Null /\ at # node
  BY InQueueLinked DEF Add
<1> USE <1>0, CellsAssumption DEF Inv, QueueTypeOK, BothWays, Cells, Add, Alone
<1>1. QueueTypeOK' /\ \A head \in Heads : next'[head] # Null
  OBVIOUS
<1>2. next[at] \in Cells /\ next[at] # node
  OBVIOUS
<1>3. BothWays'
  BY <1>1, <1>2
<1>4. \E owner \in [Cells -> Cells] : Owned(owner)'
  <2>1. PICK owner \in [Cells -> Cells] : Owned(owner)
    OBVIOUS
  <2>2. Owned([owner EXCEPT ![node] = owner[at]])'
    BY <2>1, <1>2 DEF Owned
  <2> QED BY <2>1, <2>2
<1> QED BY <1>1, <1>3, <1>4

\* So does one that is added at the end, which is the place before the head.
LEMMA AddTailInv ==
  ASSUME Inv, NEW node \in Nodes, NEW head \in Heads, AddTail(node, head)
  PROVE  Inv'
<1> USE CellsAssumption DEF Inv, QueueTypeOK, BothWays, Cells, AddTail, Alone
<1>1. QueueTypeOK' /\ \A other \in Heads : next'[other] # Null
  OBVIOUS
<1>2. prev[head] \in Cells /\ prev[head] # node
  OBVIOUS
<1>3. BothWays'
  BY <1>1, <1>2
<1>4. \E owner \in [Cells -> Cells] : Owned(owner)'
  <2>1. PICK owner \in [Cells -> Cells] : Owned(owner)
    OBVIOUS
  <2>2. Owned([owner EXCEPT ![node] = head])'
    BY <2>1, <1>2 DEF Owned
  <2> QED BY <2>1, <2>2
<1> QED BY <1>1, <1>3, <1>4

\* The neighbours of a segment that is taken out are neighbours then.
LEMMA UnlinkedInv ==
  ASSUME Inv, NEW entry \in Nodes, NEW target \in {Null, entry}, Unlinked(entry, target)
  PROVE  Inv'
<1> USE CellsAssumption DEF Inv, QueueTypeOK, BothWays, Cells, Unlinked
<1>1. next[entry] \in Cells /\ prev[entry] \in Cells
  OBVIOUS
<1>2. QueueTypeOK' /\ \A head \in Heads : next'[head] # Null
  BY <1>1
<1>3. BothWays'
  BY <1>1, <1>2
<1>4. \E owner \in [Cells -> Cells] : Owned(owner)'
  <2>1. PICK owner \in [Cells -> Cells] : Owned(owner)
    OBVIOUS
  <2>2. Owned(owner)'
    BY <2>1, <1>1, <1>2 DEF Owned
  <2> QED BY <2>1, <2>2
<1> QED BY <1>2, <1>3, <1>4

\* A whole queue that is moved keeps its links, and both ends get new ones.
LEMMA SpliceInitInv ==
  ASSUME Inv, NEW list \in Heads, NEW head \in Heads, SpliceInit(list, head)
  PROVE  Inv'
<1> USE CellsAssumption DEF Inv, QueueTypeOK, BothWays, Cells, SpliceInit, IsEmpty
<1>1. CASE IsEmpty(list)
  BY <1>1 DEF queueVars, Owned
<1>2. CASE ~IsEmpty(list)
  <2> DEFINE first == next[list]
             last == prev[list]
             at == next[head]
  <2>1. /\ next' = [next EXCEPT ![head] = first, ![last] = at, ![list] = list]
        /\ prev' = [prev EXCEPT ![first] = head, ![at] = last, ![list] = list]
        /\ list # head
    BY <1>2
  <2>2. first \in Cells /\ last \in Cells /\ at \in Cells
    OBVIOUS
  <2>0. PICK owner \in [Cells -> Cells] : Owned(owner)
    OBVIOUS
  <2>3. first # list /\ last # list /\ first # at /\ last # head /\ at # list /\ first # head
    <3>1. owner[first] = list /\ owner[last] = list /\ owner[at] = head /\ owner[list] = list /\ owner[head] = head
      BY <2>0, <2>1, <2>2 DEF Owned
    <3> QED BY <3>1, <1>2, <2>1, <2>2
  <2>4. QueueTypeOK' /\ \A other \in Heads : next'[other] # Null
    BY <2>1, <2>2
  <2>5. BothWays'
    BY <2>1, <2>2, <2>3, <2>4
  <2>6. \E other \in [Cells -> Cells] : Owned(other)'
    <3> DEFINE moved == [cell \in Cells |-> IF cell \in Nodes /\ owner[cell] = list
                                           THEN head ELSE owner[cell]]
    <3>1. moved \in [Cells -> Cells]
      OBVIOUS
    <3>2. Owned(moved)'
      BY <2>0, <2>1, <2>2, <2>3 DEF Owned
    <3> QED BY <3>1, <3>2
  <2> QED BY <2>4, <2>5, <2>6
<1> QED BY <1>1, <1>2

\* Every step keeps the invariant.
LEMMA NextInv == Inv /\ [QueueNext]_queueVars => Inv'
<1> SUFFICES ASSUME Inv, [QueueNext]_queueVars PROVE Inv'
  OBVIOUS
<1>1. CASE UNCHANGED queueVars
  BY <1>1 DEF queueVars, Inv, QueueTypeOK, BothWays, Owned
<1> QED BY <1>1, AddInv, AddTailInv, UnlinkedInv, SpliceInitInv DEF QueueNext, Del, DelInit

\* Every link of a queue goes both ways, for any number of segments and queues and
\* any sequence of the macros, the cases with aliases (an empty queue, the only
\* segment, the neighbours of a queue that is moved) included.
THEOREM LinksGoBothWays == QueueSpec => []BothWays
<1>1. Inv => BothWays
  BY DEF Inv
<1> QED BY <1>1, InitInv, NextInv, PTL DEF QueueSpec

-----------------------------------------------------------------------------
(* The queues as sequences: what each macro makes of the walks.            *)

\* A queue whose links are not touched stays as it is.
LEMMA Untouched ==
  ASSUME Inv, NEW owner \in [Cells -> Cells], Owned(owner), NEW h \in Heads,
         Cells \subseteq DOMAIN next', next'[h] = next[h],
         \A i \in 1 .. Len(Queue(h)) : next'[Queue(h)[i]] = next[Queue(h)[i]]
  PROVE  Queue(h)' = Queue(h)
<1>1. PICK s : /\ s = Queue(h) /\ s \in Seq(Nodes) /\ Once(s) /\ IsWalk(s, next[h], next, h)
               /\ \A i \in 1 .. Len(s) : next'[s[i]] = next[s[i]]
  BY QueueRing
<1>2. IsWalk(s, next'[h], next', h)
  BY <1>1 DEF IsWalk
<1>3. Walk(next'[h], next', h, Cardinality(Nodes)) = s
  BY <1>1, <1>2, RingWalk
<1> QED BY <1>1, <1>3 DEF Queue

\* The queues, as SegQueues sees them.
Queues == [head \in Heads |-> Queue(head)]

\* One queue changes, and the others do not.
LEMMA OneQueue ==
  ASSUME NEW h \in Heads, NEW s, Queue(h)' = s,
         \A g \in Heads : g # h => Queue(g)' = Queue(g)
  PROVE  Queues' = [Queues EXCEPT ![h] = s]
BY DEF Queues

\* A segment that is in no queue is held by none, as SegQueues says it.
LEMMA NotHeld ==
  ASSUME NEW node, \A g \in Heads : Queue(g) \in Seq(Nodes),
         \A g \in Heads : \A j \in 1 .. Len(Queue(g)) : Queue(g)[j] # node
  PROVE  node \notin Sequences!Held
<1>1. ASSUME NEW g \in Heads PROVE node \notin Sequences!Range(Queue(g))
  <2>1. DOMAIN Queue(g) = 1 .. Len(Queue(g))
    BY LenProperties
  <2> QED BY <2>1 DEF Sequences!Range
<1>2. \A g \in Heads : [head \in Heads |-> Queue(head)][g] = Queue(g)
  OBVIOUS
<1> QED BY <1>1, <1>2 DEF Sequences!Held

\* One queue has the segment at the place then, and the others are as they were.
LEMMA Inserted ==
  ASSUME NEW h \in Heads, NEW node \in Nodes, NEW i \in 0 .. Len(Queue(h)),
         Queue(h)' = InsertAt(Queue(h), i + 1, node),
         \A g \in Heads : g # h => Queue(g)' = Queue(g)
  PROVE  Sequences!Insert(node, h, i)
<1>1. Queues' = [Queues EXCEPT ![h] = InsertAt(Queue(h), i + 1, node)]
  BY OneQueue
<1>2. Queues' = [Queues EXCEPT ![h] = InsertAt(Queues[h], i + 1, node)]
  BY <1>1 DEF Queues
<1>3. Sequences!InsertAt(Queues[h], i + 1, node) = InsertAt(Queues[h], i + 1, node)
  BY DEF Sequences!InsertAt, InsertAt
<1> QED BY <1>2, <1>3 DEF Sequences!Insert, Queues

\* A segment that is taken out leaves its queue without it, and the others as they were.
LEMMA Removed ==
  ASSUME NEW h \in Heads, NEW i \in 1 .. Len(Queue(h)), NEW node, Queue(h)[i] = node,
         Queue(h)' = RemoveAt(Queue(h), i),
         \A g \in Heads : g # h => Queue(g)' = Queue(g)
  PROVE  Sequences!Del(node)
<1>1. Queues' = [Queues EXCEPT ![h] = RemoveAt(Queues[h], i)]
  <2>1. Queues' = [Queues EXCEPT ![h] = RemoveAt(Queue(h), i)]
    BY OneQueue
  <2> QED BY <2>1 DEF Queues
<1>2. Sequences!RemoveAt(Queues[h], i) = RemoveAt(Queues[h], i)
  BY DEF Sequences!RemoveAt, RemoveAt
<1>3. i \in 1 .. Len(Queues[h]) /\ Queues[h][i] = node
  BY DEF Queues
<1>4. Queues' = [Queues EXCEPT ![h] = Sequences!RemoveAt(Queues[h], i)]
  BY <1>1, <1>2
<1>5. \E g \in Heads : \E j \in 1 .. Len(Queues[g]) :
        Queues[g][j] = node /\ Queues' = [Queues EXCEPT ![g] = Sequences!RemoveAt(Queues[g], j)]
  BY <1>3, <1>4
<1> QED BY <1>5 DEF Sequences!Del, Queues

\* iqueue_add puts the segment behind the cell that is named: a head, or a segment of a
\* queue.
LEMMA AddStep ==
  ASSUME Inv, Inv', NEW node \in Nodes, NEW at \in Cells, Add(node, at)
  PROVE  Sequences!Add(node, at)
<1>1. PICK owner \in [Cells -> Cells] : Owned(owner)
  BY DEF Inv
<1>2. /\ Cells \subseteq DOMAIN next' /\ Alone(node) /\ at # node /\ node \in Cells
      /\ next' = [next EXCEPT ![node] = next[at], ![at] = node]
      /\ next \in [Cells -> Cells \cup {Null}]
  <2>1. at # node
    BY InQueueLinked DEF Add
  <2> QED BY <2>1 DEF Inv, QueueTypeOK, Add, Cells
<1>3. next'[node] = next[at] /\ next'[at] = node
      /\ \A c \in Cells : c # node /\ c # at => next'[c] = next[c]
  BY <1>2
<1>4. \A g \in Heads : \A j \in 1 .. Len(Queue(g)) : Queue(g)[j] # node
  BY <1>1, <1>2, AloneOut
<1>5. \A g \in Heads : Queue(g) \in Seq(Nodes)
  BY <1>1, QueueRing
<1>6. ASSUME NEW g \in Heads, at # g, \A j \in 1 .. Len(Queue(g)) : Queue(g)[j] # at
      PROVE  Queue(g)' = Queue(g)
  <2>1. g # node /\ g \in Cells
    BY CellsAssumption DEF Cells
  <2>2. \A j \in 1 .. Len(Queue(g)) : Queue(g)[j] \in Cells
    BY <1>5, ElementOfSeq DEF Cells
  <2> QED BY <1>1, <1>2, <1>3, <1>4, <1>6, <2>1, <2>2, Untouched
<1>10. node \notin Sequences!Held
  BY <1>4, <1>5, NotHeld
<1>7. CASE at \in Heads
  <2>1. PICK s : /\ s = Queue(at) /\ s \in Seq(Nodes) /\ Once(s) /\ IsWalk(s, next[at], next, at)
                 /\ \A j \in 1 .. Len(s) : s[j] # node
    BY <1>1, <1>4, <1>7, QueueRing
  <2>2. at \notin Nodes
    BY <1>7, CellsAssumption
  <2>3. \A j \in 1 .. Len(s) : s[j] # at /\ s[j] \in Cells
    BY <2>1, <2>2, ElementOfSeq DEF Cells
  <2>4. 1 \in 1 .. Len(s) + 1
    BY <2>1, LenProperties
  <2>5. next'[node] = At(s, 1, at)
    BY <1>3, <2>1 DEF IsWalk
  <2>6. PICK t : /\ t = InsertAt(s, 1, node) /\ t \in Seq(Nodes) /\ Once(t)
                 /\ IsWalk(t, next'[at], next', at)
    BY <1>3, <2>1, <2>2, <2>3, <2>4, <2>5, WalkInsert
  <2>7. Queue(at)' = t
    BY <1>2, <2>6, RingWalk DEF Queue
  <2>8. \A g \in Heads : g # at => Queue(g)' = Queue(g)
    <3>1. \A g \in Heads : \A j \in 1 .. Len(Queue(g)) : Queue(g)[j] # at
      BY <1>5, <2>2, ElementOfSeq
    <3> QED BY <1>6, <3>1
  <2>9. 0 \in 0 .. Len(Queue(at)) /\ 0 + 1 = 1
    BY <2>1, LenProperties
  <2>10. Sequences!Insert(node, at, 0)
    BY <1>7, <2>1, <2>6, <2>7, <2>8, <2>9, Inserted
  <2> QED BY <1>7, <1>10, <2>10 DEF Sequences!Add
<1>8. CASE \E h \in Heads : \E i \in 1 .. Len(Queue(h)) : Queue(h)[i] = at
  <2>0. PICK h \in Heads : \E j \in 1 .. Len(Queue(h)) : Queue(h)[j] = at
    BY <1>8
  <2>1. PICK i \in 1 .. Len(Queue(h)) : Queue(h)[i] = at
    BY <2>0
  <2>2. PICK s : /\ s = Queue(h) /\ s \in Seq(Nodes) /\ Once(s) /\ IsWalk(s, next[h], next, h)
                 /\ \A j \in 1 .. Len(s) : s[j] # node /\ s[j] \in Cells /\ owner[s[j]] = h
    BY <1>1, <1>4, QueueRing DEF Cells
  <2>3. PICK k \in Nat : Len(s) = k
    BY <2>2, LenProperties
  <2>4. /\ i \in 1 .. k /\ i + 1 \in 1 .. k + 1 /\ (i + 1) - 1 = i /\ s[i] = at
        /\ i + 1 # 1 /\ h \notin Nodes /\ h # at /\ h # node /\ h \in Cells
    BY <1>1, <2>1, <2>2, <2>3, ElementOfSeq, CellsAssumption DEF Cells
  <2>5. next'[node] = At(s, i + 1, h) /\ next'[h] = next[h]
    BY <1>3, <2>2, <2>3, <2>4 DEF IsWalk
  <2>6. \A j \in 1 .. k : j # i => next'[s[j]] = next[s[j]]
    BY <1>3, <2>2, <2>3, <2>4 DEF Once
  <2>7. PICK t : /\ t = InsertAt(s, i + 1, node) /\ t \in Seq(Nodes) /\ Once(t)
                 /\ IsWalk(t, next'[h], next', h)
    <3>1. i + 1 > 1 => next'[s[(i + 1) - 1]] = node
      BY <1>3, <2>4
    <3>2. \A j \in 1 .. Len(s) : j # (i + 1) - 1 => next'[s[j]] = next[s[j]]
      BY <2>3, <2>4, <2>6
    <3>3. i + 1 \in 1 .. Len(s) + 1
      BY <2>3, <2>4
    <3>4. next'[h] = IF i + 1 = 1 THEN node ELSE next[h]
      BY <2>4, <2>5
    <3> QED BY <2>2, <2>4, <2>5, <3>1, <3>2, <3>3, <3>4, WalkInsert
  <2>8. Queue(h)' = t
    BY <1>2, <2>7, RingWalk DEF Queue
  <2>9. \A g \in Heads : g # h => Queue(g)' = Queue(g)
    <3> SUFFICES ASSUME NEW g \in Heads, g # h PROVE Queue(g)' = Queue(g)
      OBVIOUS
    <3>1. \A j \in 1 .. Len(Queue(g)) : owner[Queue(g)[j]] = g
      BY <1>1, QueueRing
    <3>2. owner[at] = h /\ at \in Nodes /\ at # g
      BY <2>2, <2>3, <2>4, ElementOfSeq, CellsAssumption
    <3> QED BY <1>6, <3>1, <3>2
  <2>10. i \in 0 .. Len(Queue(h))
    BY <2>2, <2>3, <2>4
  <2>11. Sequences!Insert(node, h, i)
    BY <2>2, <2>7, <2>8, <2>9, <2>10, Inserted
  <2>12. i \in 1 .. Len(Queues[h]) /\ Queues[h][i] = at
    BY <2>1 DEF Queues
  <2> QED BY <1>10, <2>11, <2>12 DEF Sequences!Add, Queues
<1>9. at \in Heads \/ \E h \in Heads : \E i \in 1 .. Len(Queue(h)) : Queue(h)[i] = at
  <2>1. \A h \in Heads : DOMAIN Queue(h) = 1 .. Len(Queue(h))
    BY <1>5, LenProperties
  <2> QED BY <2>1 DEF Add, InQueue
<1> QED BY <1>7, <1>8, <1>9

\* iqueue_add_tail puts it behind the last segment.
LEMMA AddTailStep ==
  ASSUME Inv, Inv', NEW node \in Nodes, NEW head \in Heads, AddTail(node, head)
  PROVE  Sequences!AddTail(node, head)
<1>1. PICK owner \in [Cells -> Cells] : Owned(owner)
  BY DEF Inv
<1>2. /\ Cells \subseteq DOMAIN next' /\ Alone(node) /\ node \in Cells /\ head \in Cells
      /\ next' = [next EXCEPT ![node] = head, ![prev[head]] = node]
      /\ next \in [Cells -> Cells \cup {Null}]
      /\ head \notin Nodes /\ head # node /\ next[head] # Null
  BY CellsAssumption DEF Inv, QueueTypeOK, AddTail, Cells
<1>3. \A g \in Heads : \A j \in 1 .. Len(Queue(g)) : Queue(g)[j] # node
  BY <1>1, <1>2, AloneOut
<1>4. \A g \in Heads : Queue(g) \in Seq(Nodes)
  BY <1>1, QueueRing
<1>5. PICK s : /\ s = Queue(head) /\ s \in Seq(Nodes) /\ Once(s) /\ IsWalk(s, next[head], next, head)
               /\ \A j \in 1 .. Len(s) : s[j] # node /\ s[j] \in Cells /\ owner[s[j]] = head
  BY <1>1, <1>3, QueueRing DEF Cells
<1>6. PICK k \in Nat : Len(s) = k
  BY <1>5, LenProperties
<1>7. /\ prev[head] \in Cells /\ next[prev[head]] = head /\ prev[head] # node
      /\ owner[prev[head]] = head
  <2>1. prev[head] \in Cells /\ next[prev[head]] = head
    BY <1>2 DEF Inv, BothWays
  <2>2. prev[head] # node
    BY <1>2, <2>1, CellsAssumption DEF Alone
  <2>3. head # Null
    BY <1>2, CellsAssumption
  <2> QED BY <1>1, <1>2, <2>1, <2>2, <2>3 DEF Owned
<1>8. next'[node] = head /\ next'[prev[head]] = node
      /\ \A c \in Cells : c # node /\ c # prev[head] => next'[c] = next[c]
  BY <1>2, <1>7
<1>9. prev[head] = IF k = 0 THEN head ELSE s[k]
  <2>1. \A c \in Cells : next[c] = head => c = prev[head]
    BY <1>2 DEF Inv, BothWays
  <2>2. CASE k = 0
    BY <1>2, <1>5, <1>6, <2>1, <2>2 DEF IsWalk, At
  <2>3. CASE k # 0
    <3>1. k \in 1 .. k /\ k + 1 \notin 1 .. k
      BY <2>3
    <3>2. next[s[k]] = head
      BY <1>5, <1>6, <3>1 DEF IsWalk, At
    <3> QED BY <1>5, <1>6, <2>1, <2>3, <3>1, <3>2
  <2> QED BY <2>2, <2>3
<1>10. k + 1 \in 1 .. k + 1 /\ (k + 1) - 1 = k /\ At(s, k + 1, head) = head
       /\ (k + 1 > 1 <=> k # 0) /\ (k + 1 = 1 <=> k = 0)
  BY <1>6 DEF At
<1>11. next'[head] = IF k + 1 = 1 THEN node ELSE next[head]
  <2>1. CASE k = 0
    BY <1>8, <1>9, <1>10, <2>1
  <2>2. CASE k # 0
    <3>1. k \in 1 .. k
      BY <2>2
    <3>2. s[k] # head
      BY <1>5, <1>6, <3>1 DEF IsWalk
    <3> QED BY <1>2, <1>8, <1>9, <1>10, <2>2, <3>2
  <2> QED BY <2>1, <2>2
<1>12. k + 1 > 1 => next'[s[(k + 1) - 1]] = node
  BY <1>8, <1>9, <1>10
<1>13. \A j \in 1 .. Len(s) : j # (k + 1) - 1 => next'[s[j]] = next[s[j]]
  <2> SUFFICES ASSUME NEW j \in 1 .. k, j # k PROVE next'[s[j]] = next[s[j]]
    BY <1>6, <1>10
  <2>1. k # 0 /\ k \in 1 .. k
    OBVIOUS
  <2>2. s[j] # s[k]
    BY <1>5, <1>6, <2>1 DEF Once
  <2> QED BY <1>5, <1>6, <1>8, <1>9, <2>1, <2>2
<1>14. PICK t : /\ t = InsertAt(s, k + 1, node) /\ t \in Seq(Nodes) /\ Once(t)
                /\ IsWalk(t, next'[head], next', head)
  <2>1. PICK i \in 1 .. Len(s) + 1 : i = k + 1
    BY <1>6, <1>10
  <2>2. next'[node] = At(s, i, head) /\ next'[head] = IF i = 1 THEN node ELSE next[head]
    BY <1>8, <1>10, <1>11, <2>1
  <2>3. i > 1 => next'[s[i - 1]] = node
    BY <1>12, <2>1
  <2>4. \A j \in 1 .. Len(s) : j # i - 1 => next'[s[j]] = next[s[j]]
    BY <1>13, <2>1
  <2>5. \A j \in 1 .. Len(s) : s[j] # node
    BY <1>5
  <2>6. head \notin Nodes
    BY <1>2
  <2>7. /\ InsertAt(s, i, node) \in Seq(Nodes) /\ Once(InsertAt(s, i, node))
        /\ IsWalk(InsertAt(s, i, node), next'[head], next', head)
    BY SMTT(30), <1>5, <2>2, <2>3, <2>4, <2>5, <2>6, WalkInsert
  <2> QED BY <2>1, <2>7
<1>15. Queue(head)' = t
  BY <1>2, <1>14, RingWalk DEF Queue
<1>16. ASSUME NEW g \in Heads, g # head PROVE Queue(g)' = Queue(g)
  <2>1. \A j \in 1 .. Len(Queue(g)) : owner[Queue(g)[j]] = g /\ Queue(g)[j] \in Cells
    BY <1>1, QueueRing DEF Cells
  <2>2. owner[g] = g /\ g \in Cells /\ g # node
    BY <1>1, CellsAssumption DEF Owned, Cells
  <2>3. next'[g] = next[g]
    BY <1>7, <1>8, <1>16, <2>2
  <2>4. \A j \in 1 .. Len(Queue(g)) : next'[Queue(g)[j]] = next[Queue(g)[j]]
    BY <1>3, <1>7, <1>8, <1>16, <2>1
  <2> QED BY <1>1, <1>2, <2>3, <2>4, Untouched
<1>17. k \in 0 .. Len(Queue(head))
  BY <1>5, <1>6
<1>18. Sequences!Insert(node, head, k)
  BY <1>5, <1>14, <1>15, <1>16, <1>17, Inserted
<1>19. node \notin Sequences!Held
  BY <1>3, <1>4, NotHeld
<1>20. Len(Queues[head]) = k
  BY <1>5, <1>6 DEF Queues
<1> QED BY <1>18, <1>19, <1>20 DEF Sequences!AddTail, Queues

\* iqueue_del and iqueue_del_init take the segment out of the queue that it is in.
LEMMA UnlinkedStep ==
  ASSUME Inv, Inv', NEW entry \in Nodes, NEW target \in {Null, entry}, Unlinked(entry, target)
  PROVE  Sequences!Del(entry)
<1>1. PICK owner \in [Cells -> Cells] : Owned(owner)
  BY DEF Inv
<1>2. /\ Cells \subseteq DOMAIN next' /\ entry \in Cells /\ next[entry] # Null
      /\ next' = [next EXCEPT ![prev[entry]] = next[entry], ![entry] = target]
      /\ next \in [Cells -> Cells \cup {Null}]
  BY DEF Inv, QueueTypeOK, Unlinked, Cells
<1>3. prev[entry] \in Cells /\ next[prev[entry]] = entry /\ owner[prev[entry]] = owner[entry]
  <2>1. prev[entry] \in Cells /\ next[prev[entry]] = entry
    BY <1>2 DEF Inv, BothWays
  <2>2. next[prev[entry]] # Null
    BY <1>2, <2>1, CellsAssumption
  <2>3. owner[next[prev[entry]]] = owner[prev[entry]]
    BY <1>1, <2>1, <2>2 DEF Owned
  <2> QED BY <2>1, <2>3
<1>4. /\ prev[entry] # entry => next'[prev[entry]] = next[entry]
      /\ \A c \in Cells : c # entry /\ c # prev[entry] => next'[c] = next[c]
  BY <1>2, <1>3
<1>5. \A c \in Cells : next[c] = entry => c = prev[entry]
  <2>1. entry # Null
    BY <1>2, CellsAssumption
  <2> QED BY <1>2, <2>1 DEF Inv, BothWays
<1>6. \A g \in Heads : g \in Cells /\ g \notin Nodes /\ g # entry /\ owner[g] = g
  BY <1>1, CellsAssumption DEF Cells, Owned
<1>7. CASE \E h \in Heads : \E i \in 1 .. Len(Queue(h)) : Queue(h)[i] = entry
  <2>0. PICK h \in Heads : \E j \in 1 .. Len(Queue(h)) : Queue(h)[j] = entry
    BY <1>7
  <2>1. PICK i \in 1 .. Len(Queue(h)) : Queue(h)[i] = entry
    BY <2>0
  <2>2. PICK s : /\ s = Queue(h) /\ s \in Seq(Nodes) /\ Once(s) /\ IsWalk(s, next[h], next, h)
                 /\ \A j \in 1 .. Len(s) : s[j] \in Cells /\ s[j] \in Nodes /\ owner[s[j]] = h
    BY <1>1, QueueRing DEF Cells
  <2>3. PICK k \in Nat : Len(s) = k
    BY <2>2, LenProperties
  <2>4. i \in 1 .. k /\ s[i] = entry /\ owner[entry] = h /\ next[entry] = At(s, i + 1, h)
    BY <2>1, <2>2, <2>3 DEF IsWalk
  <2>5. prev[entry] = IF i = 1 THEN h ELSE s[i - 1]
    <3>1. CASE i = 1
      <4>1. next[h] = entry
        BY <2>2, <2>3, <2>4, <3>1 DEF IsWalk, At
      <4> QED BY <1>5, <1>6, <3>1, <4>1
    <3>2. CASE i # 1
      <4>1. i - 1 \in 1 .. k /\ (i - 1) + 1 = i
        BY <2>4, <3>2
      <4>2. next[s[i - 1]] = s[i]
        BY <2>2, <2>3, <2>4, <4>1 DEF IsWalk, At
      <4> QED BY <1>5, <2>2, <2>3, <2>4, <3>2, <4>1, <4>2
    <3> QED BY <3>1, <3>2
  <2>6. next'[h] = IF i = 1 THEN At(s, 2, h) ELSE next[h]
    <3>1. CASE i = 1
      BY <1>4, <1>6, <2>4, <2>5, <3>1
    <3>2. CASE i # 1
      <4>1. i - 1 \in 1 .. k
        BY <2>4, <3>2
      <4>2. s[i - 1] # h
        BY <1>6, <2>2, <2>3, <4>1
      <4> QED BY <1>4, <1>6, <2>5, <3>2, <4>2
    <3> QED BY <3>1, <3>2
  <2>7. i > 1 => next'[s[i - 1]] = At(s, i + 1, h)
    <3> SUFFICES ASSUME i > 1 PROVE next'[s[i - 1]] = next[entry]
      BY <2>4
    <3>1. i - 1 \in 1 .. k /\ i # 1 /\ i # i - 1
      BY <2>4
    <3>2. s[i - 1] # s[i]
      BY <2>2, <2>3, <2>4, <3>1 DEF Once
    <3> QED BY <1>4, <2>4, <2>5, <3>1, <3>2
  <2>8. \A j \in 1 .. Len(s) : j \notin {i - 1, i} => next'[s[j]] = next[s[j]]
    <3> SUFFICES ASSUME NEW j \in 1 .. k, j # i - 1, j # i PROVE next'[s[j]] = next[s[j]]
      BY <2>3
    <3>1. s[j] # entry
      BY <2>2, <2>3, <2>4 DEF Once
    <3>2. s[j] # prev[entry]
      <4>1. CASE i = 1
        BY <1>6, <2>2, <2>3, <2>5, <4>1
      <4>2. CASE i # 1
        <5>1. i - 1 \in 1 .. k
          BY <2>4, <4>2
        <5> QED BY <2>2, <2>3, <2>5, <4>2, <5>1 DEF Once
      <4> QED BY <4>1, <4>2
    <3> QED BY <1>4, <2>2, <2>3, <3>1, <3>2
  <2>9. PICK t : /\ t = RemoveAt(s, i) /\ t \in Seq(Nodes) /\ Once(t)
                 /\ IsWalk(t, next'[h], next', h)
    <3>1. i \in 1 .. Len(s) /\ h \notin Nodes
      BY <1>6, <2>3, <2>4
    <3> QED BY <2>2, <2>6, <2>7, <2>8, <3>1, WalkRemove
  <2>10. Queue(h)' = t
    BY <1>2, <2>9, RingWalk DEF Queue
  <2>11. ASSUME NEW g \in Heads, g # h PROVE Queue(g)' = Queue(g)
    <3>1. \A j \in 1 .. Len(Queue(g)) : owner[Queue(g)[j]] = g /\ Queue(g)[j] \in Cells
      BY <1>1, QueueRing DEF Cells
    <3>2. owner[prev[entry]] # g /\ owner[entry] # g
      BY <1>3, <2>4, <2>11
    <3>3. next'[g] = next[g]
      BY <1>4, <1>6, <3>2
    <3>4. \A j \in 1 .. Len(Queue(g)) : next'[Queue(g)[j]] = next[Queue(g)[j]]
      BY <1>4, <3>1, <3>2
    <3> QED BY <1>1, <1>2, <3>3, <3>4, Untouched
  <2> QED BY <2>1, <2>2, <2>9, <2>10, <2>11, Removed
<1>8. CASE ~ \E h \in Heads : \E i \in 1 .. Len(Queue(h)) : Queue(h)[i] = entry
  <2>1. ASSUME NEW g \in Heads PROVE Queue(g)' = Queue(g)
    <3>1. PICK s : /\ s = Queue(g) /\ s \in Seq(Nodes) /\ IsWalk(s, next[g], next, g)
                   /\ \A j \in 1 .. Len(s) : s[j] \in Cells /\ s[j] # entry
      <4>1. \A j \in 1 .. Len(Queue(g)) : Queue(g)[j] # entry
        BY <1>8
      <4>2. \A j \in 1 .. Len(Queue(g)) : Queue(g)[j] \in Cells
        BY <1>1, QueueRing DEF Cells
      <4>3. Queue(g) \in Seq(Nodes) /\ IsWalk(Queue(g), next[g], next, g)
        BY <1>1, QueueRing
      <4> QED BY <4>1, <4>2, <4>3
    <3>2. PICK k \in Nat : Len(s) = k
      BY <3>1, LenProperties
    <3>3. \A j \in 1 .. k + 1 : At(s, j, g) # entry
      BY <1>6, <3>1, <3>2 DEF At
    <3>4. g # prev[entry]
      BY <1>3, <3>1, <3>2, <3>3 DEF IsWalk
    <3>5. \A j \in 1 .. k : s[j] # prev[entry]
      <4> SUFFICES ASSUME NEW j \in 1 .. k, s[j] = prev[entry] PROVE FALSE
        OBVIOUS
      <4>1. j + 1 \in 1 .. k + 1
        BY <3>2
      <4> QED BY <1>3, <3>1, <3>2, <3>3, <4>1 DEF IsWalk
    <3>6. next'[g] = next[g] /\ \A j \in 1 .. Len(s) : next'[s[j]] = next[s[j]]
      BY <1>4, <1>6, <3>1, <3>2, <3>4, <3>5
    <3> QED BY <1>1, <1>2, <3>1, <3>6, Untouched
  <2>2. entry \notin Sequences!Held
    <3>1. \A g \in Heads : Queue(g) \in Seq(Nodes)
      BY <1>1, QueueRing
    <3> QED BY <1>8, <3>1, NotHeld
  <2> QED BY <2>1, <2>2 DEF Sequences!Del
<1> QED BY <1>7, <1>8

\* iqueue_splice_init puts a whole queue before another one and leaves it empty.
LEMMA SpliceInitStep ==
  ASSUME Inv, Inv', NEW list \in Heads, NEW head \in Heads, SpliceInit(list, head)
  PROVE  Sequences!SpliceInit(list, head)
<1>1. PICK owner \in [Cells -> Cells] : Owned(owner)
  BY DEF Inv
<1>2. CASE IsEmpty(list)
  <2>1. UNCHANGED queueVars
    BY <1>2 DEF SpliceInit
  <2>2. Queues' = Queues /\ list # head
    BY <2>1 DEF queueVars, Queues, Queue, SpliceInit
  <2>3. Queue(list) = <<>>
    <3>1. <<>> \in Seq(Nodes) /\ Len(<<>>) = 0
      BY EmptySeq
    <3>2. Once(<<>>) /\ IsWalk(<<>>, next[list], next, list)
      BY <1>2, <3>1 DEF Once, IsWalk, At, IsEmpty
    <3>3. Cells \subseteq DOMAIN next
      BY DEF Inv, QueueTypeOK
    <3> QED BY <3>1, <3>2, <3>3, RingWalk DEF Queue
  <2>4. Queue(head) \in Seq(Nodes)
    BY <1>1, QueueRing
  <2>5. <<>> \o Queue(head) = Queue(head)
    BY <2>4
  <2>6. Queues = [Queues EXCEPT ![head] = Queues[list] \o Queues[head], ![list] = <<>>]
    BY <2>2, <2>3, <2>5 DEF Queues
  <2> QED BY <2>2, <2>6 DEF Sequences!SpliceInit, Queues
<1>3. CASE ~IsEmpty(list)
  <2>1. PICK s : /\ s = Queue(list) /\ s \in Seq(Nodes) /\ Once(s) /\ IsWalk(s, next[list], next, list)
                 /\ \A j \in 1 .. Len(s) : s[j] \in Nodes /\ s[j] \in Cells /\ owner[s[j]] = list
    BY <1>1, QueueRing DEF Cells
  <2>2. PICK t : /\ t = Queue(head) /\ t \in Seq(Nodes) /\ Once(t) /\ IsWalk(t, next[head], next, head)
                 /\ \A j \in 1 .. Len(t) : t[j] \in Nodes /\ t[j] \in Cells /\ owner[t[j]] = head
    BY <1>1, QueueRing DEF Cells
  <2>3. PICK k \in Nat : Len(s) = k
    BY <2>1, LenProperties
  <2>4. /\ \A g \in Heads : g \in Cells /\ g \notin Nodes /\ owner[g] = g
        /\ list # head /\ Cells \subseteq DOMAIN next'
    BY <1>1, CellsAssumption DEF Cells, Owned, SpliceInit, Inv, QueueTypeOK
  <2>5. k # 0 /\ k \in 1 .. k /\ s # <<>> /\ next[list] = s[1] /\ next[s[k]] = list
    <3>1. k # 0
      BY <1>3, <2>1, <2>3 DEF IsWalk, At, IsEmpty
    <3>2. 1 \in 1 .. k /\ k \in 1 .. k /\ k + 1 \notin 1 .. k
      BY <3>1
    <3>3. s # <<>>
      BY <2>1, <2>3, <3>1, EmptySeq
    <3> QED BY <2>1, <2>3, <3>1, <3>2, <3>3 DEF IsWalk, At
  <2>6. prev[list] = s[k]
    BY <2>1, <2>3, <2>4, <2>5, CellsAssumption DEF Inv, BothWays
  <2>7. /\ next' = [next EXCEPT ![head] = s[1], ![s[k]] = next[head], ![list] = list]
        /\ next \in [Cells -> Cells \cup {Null}]
    BY <1>3, <2>5, <2>6 DEF SpliceInit, Inv, QueueTypeOK
  <2>8. /\ next'[head] = s[1] /\ next'[s[k]] = next[head] /\ next'[list] = list
        /\ \A c \in Cells : c # head /\ c # s[k] /\ c # list => next'[c] = next[c]
    BY <2>1, <2>3, <2>4, <2>5, <2>7
  <2>9. PICK u : u = s \o t /\ u \in Seq(Nodes) /\ Once(u) /\ IsWalk(u, next'[head], next', head)
    <3>1. \A i \in 1 .. Len(s) : \A j \in 1 .. Len(t) : s[i] # t[j]
      BY <2>1, <2>2, <2>4
    <3>2. \A i \in 1 .. Len(s) : i # Len(s) => next'[s[i]] = s[i + 1]
      <4> SUFFICES ASSUME NEW i \in 1 .. k, i # k PROVE next'[s[i]] = s[i + 1]
        BY <2>3
      <4>1. s[i] # s[k]
        BY <2>1, <2>3, <2>5 DEF Once
      <4>2. next'[s[i]] = next[s[i]]
        BY <2>1, <2>3, <2>4, <2>8, <4>1
      <4>3. i + 1 \in 1 .. k
        OBVIOUS
      <4> QED BY <2>1, <2>3, <4>2, <4>3 DEF IsWalk, At
    <3>3. \A j \in 1 .. Len(t) : next'[t[j]] = next[t[j]]
      BY <2>1, <2>2, <2>3, <2>4, <2>5, <2>8
    <3>4. IsWalk(t, next'[s[Len(s)]], next', head)
      BY <2>2, <2>3, <2>8, <3>3 DEF IsWalk
    <3>5. next'[head] = s[1] /\ head \notin Nodes
      BY <2>4, <2>8
    <3> QED BY <2>1, <2>2, <2>5, <3>1, <3>2, <3>4, <3>5, WalkJoin
  <2>10. Queue(head)' = u
    BY <2>4, <2>9, RingWalk DEF Queue
  <2>11. Queue(list)' = <<>>
    <3>1. <<>> \in Seq(Nodes) /\ Len(<<>>) = 0
      BY EmptySeq
    <3>2. Once(<<>>) /\ IsWalk(<<>>, next'[list], next', list)
      BY <2>8, <3>1 DEF Once, IsWalk, At
    <3> QED BY <2>4, <3>1, <3>2, RingWalk DEF Queue
  <2>12. ASSUME NEW g \in Heads, g # head, g # list PROVE Queue(g)' = Queue(g)
    <3>1. \A j \in 1 .. Len(Queue(g)) :
            owner[Queue(g)[j]] = g /\ Queue(g)[j] \in Cells /\ Queue(g)[j] \in Nodes
      BY <1>1, QueueRing DEF Cells
    <3>2. g # s[k] /\ owner[s[k]] # g
      BY <2>1, <2>3, <2>4, <2>5, <2>12
    <3>3. next'[g] = next[g]
      BY <2>4, <2>8, <2>12, <3>2
    <3>4. \A j \in 1 .. Len(Queue(g)) : next'[Queue(g)[j]] = next[Queue(g)[j]]
      BY <2>4, <2>8, <3>1, <3>2
    <3> QED BY <1>1, <2>4, <3>3, <3>4, Untouched
  <2>13. Queues' = [Queues EXCEPT ![head] = Queues[list] \o Queues[head], ![list] = <<>>]
    <3> SUFFICES ASSUME NEW g \in Heads
                 PROVE  Queue(g)' = IF g = list THEN <<>>
                                    ELSE IF g = head THEN Queue(list) \o Queue(head) ELSE Queue(g)
      BY <2>4 DEF Queues
    <3> QED BY <2>1, <2>2, <2>4, <2>9, <2>10, <2>11, <2>12
  <2> QED BY <2>4, <2>13 DEF Sequences!SpliceInit, Queues
<1> QED BY <1>2, <1>3

\* Every macro of ikcp.h does to the queues, read as sequences, what SegQueues says of it,
\* for any number of segments and queues and after any other macros: the place where
\* iqueue_add and iqueue_add_tail put a segment, which one is taken out, and the order of
\* a queue that is moved.  Kcp and KcpTimer, which work on sequences, rest on this.
THEOREM QueuesAreSequences == QueueSpec => IsSequence /\ Sequences!QueuesSpec
<1> DEFINE Step == /\ \A node \in Nodes :
                        /\ \A at \in Cells : Add(node, at) => Sequences!Add(node, at)
                        /\ \A head \in Heads : AddTail(node, head) => Sequences!AddTail(node, head)
                        /\ Del(node) \/ DelInit(node) => Sequences!Del(node)
                   /\ \A list, head \in Heads :
                        SpliceInit(list, head) => Sequences!SpliceInit(list, head)
<1>1. QueueInit => Sequences!QueuesInit
  <2> SUFFICES ASSUME QueueInit PROVE \A h \in Heads : Queue(h) = <<>>
    BY DEF Sequences!QueuesInit
  <2> SUFFICES ASSUME NEW h \in Heads PROVE Queue(h) = <<>>
    OBVIOUS
  <2>1. <<>> \in Seq(Nodes) /\ Len(<<>>) = 0
    BY EmptySeq
  <2>2. next[h] = h /\ Cells \subseteq DOMAIN next
    BY DEF QueueInit, Cells
  <2>3. Once(<<>>) /\ IsWalk(<<>>, next[h], next, h)
    BY <2>1, <2>2 DEF Once, IsWalk, At
  <2> QED BY <2>1, <2>2, <2>3, RingWalk DEF Queue
<1>2. Inv /\ Inv' => Step
  <2> SUFFICES ASSUME Inv, Inv' PROVE Step
    OBVIOUS
  <2> QED BY AddStep, AddTailStep, UnlinkedStep, SpliceInitStep DEF Del, DelInit
<1>3. Inv /\ Inv' /\ [QueueNext]_queueVars => [queueVars' # queueVars => Step]_queueVars
  BY <1>2
<1>4. Inv /\ Inv' /\ [QueueNext]_queueVars
        => [Sequences!QueuesNext]_[head \in Heads |-> Queue(head)]
  <2> SUFFICES ASSUME Inv, Inv', [QueueNext]_queueVars
               PROVE  Sequences!QueuesNext \/ Queues' = Queues
    BY DEF Queues
  <2>1. CASE UNCHANGED queueVars
    BY <2>1 DEF queueVars, Queues, Queue
  <2>2. CASE QueueNext
    BY <1>2, <2>2 DEF QueueNext, Sequences!QueuesNext, Cells
  <2> QED BY <2>1, <2>2
<1> QED BY <1>1, <1>3, <1>4, InitInv, NextInv, PTL
        DEF QueueSpec, IsSequence, Sequences!QueuesSpec
=============================================================================
