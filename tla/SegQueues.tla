----------------------------- MODULE SegQueues -----------------------------
(***************************************************************************)
(* What the queues of a KCP session are for everything that is said of     *)
(* them elsewhere, in Kcp too: sequences of segments, with a segment in at *)
(* most one of them.  There is one operation for each macro of ikcp.h, and *)
(* it says which segment comes to which place.                             *)
(***************************************************************************)
EXTENDS Sequences, SequencesExt, Functions, Naturals

CONSTANTS Heads, Nodes

VARIABLE queue

Held == UNION {Range(queue[h]) : h \in Heads}

QueuesInit == queue = [h \in Heads |-> <<>>]

\* node goes into h behind the first i segments.
Insert(node, h, i) == queue' = [queue EXCEPT ![h] = InsertAt(@, i + 1, node)]

\* node, which is in no queue, goes right behind at: first in the queue of which at is
\* the head, or after the segment at.
Add(node, at) ==
  /\ node \notin Held
  /\ \/ at \in Heads /\ Insert(node, at, 0)
     \/ \E h \in Heads : \E i \in 1 .. Len(queue[h]) : queue[h][i] = at /\ Insert(node, h, i)

\* node, which is in no queue, becomes the last of h.
AddTail(node, h) ==
  /\ node \notin Held
  /\ Insert(node, h, Len(queue[h]))

\* node leaves the queue that it is in, if it is in one.
Del(node) ==
  \/ \E h \in Heads : \E i \in 1 .. Len(queue[h]) :
       queue[h][i] = node /\ queue' = [queue EXCEPT ![h] = RemoveAt(@, i)]
  \/ node \notin Held /\ UNCHANGED queue

\* The segments of list go before those of h, in their order, and list is empty then.
SpliceInit(list, h) ==
  /\ list # h
  /\ queue' = [queue EXCEPT ![h] = queue[list] \o @, ![list] = <<>>]

QueuesNext ==
  \/ \E node \in Nodes :
       \/ \E at \in Heads \cup Nodes : Add(node, at)
       \/ \E h \in Heads : AddTail(node, h)
       \/ Del(node)
  \/ \E list, h \in Heads : SpliceInit(list, h)

QueuesSpec == QueuesInit /\ [][QueuesNext]_queue
============================================================================
