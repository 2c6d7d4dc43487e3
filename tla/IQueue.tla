------------------------------- MODULE IQueue -------------------------------
(***************************************************************************)
(* The intrusive queues of ikcp.h, as they lie in memory: circular lists   *)
(* in which the head is a cell like the nodes, changed by macros that are  *)
(* chains of assignments.  The order of the assignments matters, because   *)
(* two of the cells that a macro names are the same one when the queue is  *)
(* empty or the node is alone.                                             *)
(***************************************************************************)
EXTENDS Walks

CONSTANTS
  Heads, \* the queues of a session: snd_queue, snd_buf, rcv_queue, rcv_buf
  Nodes, \* the segments
  Null

Cells == Heads \cup Nodes

ASSUME CellsAssumption == Null \notin Cells /\ Heads \cap Nodes = {} /\ IsFiniteSet(Nodes)

VARIABLES next, prev

queueVars == <<next, prev>>

-----------------------------------------------------------------------------
(* The macros. *)

\* iqueue_init of every head; no segment is in a queue.
QueueInit ==
  /\ next = [cell \in Cells |-> IF cell \in Heads THEN cell ELSE Null]
  /\ prev = next

\* What iqueue_foreach comes to, cell by cell.
Queue(head) == Walk(next[head], next, head, Cardinality(Nodes))

\* A head, or a segment that a walk from one comes to.
InQueue(cell) ==
  cell \in Heads \/ \E head \in Heads : \E i \in DOMAIN Queue(head) : Queue(head)[i] = cell

\* Where a segment that may be added points to: nowhere, or to itself.
Alone(node) == next[node] \in {node, Null}

\* Mutant: the cell after the new one still points back over it.
AddHalf(node, at) ==
  /\ Alone(node) /\ InQueue(at)
  /\ next' = [next EXCEPT ![node] = next[at], ![at] = node]
  /\ prev' = [prev EXCEPT ![node] = at]

\* iqueue_add: behind a head or, in ikcp_parse_data, behind a segment that the walk
\* through rcv_buf came to.
Add(node, at) ==
  /\ Alone(node) /\ InQueue(at)
  /\ next' = [next EXCEPT ![node] = next[at], ![at] = node]
  /\ prev' = [prev EXCEPT ![node] = at, ![next[at]] = node]

\* Mutant: iqueue_add in the place of iqueue_add_tail.
AddTailFront(node, head) == Add(node, head)

\* iqueue_add_tail
AddTail(node, head) ==
  /\ Alone(node)
  /\ next' = [next EXCEPT ![node] = head, ![prev[head]] = node]
  /\ prev' = [prev EXCEPT ![node] = prev[head], ![head] = node]

\* iqueue_del, with what the entry points to afterwards.
Unlinked(entry, target) ==
  /\ next[entry] # Null
  /\ next' = [next EXCEPT ![prev[entry]] = next[entry], ![entry] = target]
  /\ prev' = [prev EXCEPT ![next[entry]] = prev[entry], ![entry] = target]

Del(entry) == Unlinked(entry, Null)

DelInit(entry) == Unlinked(entry, entry)

IsEmpty(head) == head = next[head]

\* iqueue_splice_init: the queue list goes before what is in head.
SpliceInit(list, head) ==
  /\ list # head
  /\ IF IsEmpty(list) THEN UNCHANGED queueVars
     ELSE LET first == next[list] last == prev[list] at == next[head]
          IN  /\ next' = [next EXCEPT ![head] = first, ![last] = at, ![list] = list]
              /\ prev' = [prev EXCEPT ![first] = head, ![at] = last, ![list] = list]

QueueNext ==
  \/ \E node \in Nodes :
       \/ \E at \in Cells : Add(node, at)
       \/ \E head \in Heads : AddTail(node, head)
       \/ Del(node)
       \/ DelInit(node)
  \/ \E list, head \in Heads : SpliceInit(list, head)

QueueSpec == QueueInit /\ [][QueueNext]_queueVars

-----------------------------------------------------------------------------
(* Properties. *)

Sequences == INSTANCE SegQueues WITH queue <- [head \in Heads |-> Queue(head)]

\* The queues are sequences of segments, and every macro does to them what its name
\* says, whatever macros came before: iqueue_add puts the segment right behind the cell
\* that is named, iqueue_add_tail at the end, iqueue_del and iqueue_del_init take out
\* that segment and no other, iqueue_splice_init moves the whole queue in its order.
\* Kcp and KcpTimer build on this.  (That something changed is tried first.)
IsSequence ==
  /\ Sequences!QueuesInit
  /\ [][queueVars' # queueVars =>
          /\ \A node \in Nodes :
               /\ \A at \in Cells : Add(node, at) => Sequences!Add(node, at)
               /\ \A head \in Heads : AddTail(node, head) => Sequences!AddTail(node, head)
               /\ Del(node) \/ DelInit(node) => Sequences!Del(node)
          /\ \A list, head \in Heads : SpliceInit(list, head) => Sequences!SpliceInit(list, head)
       ]_queueVars

\* Every link goes both ways, and a segment that is taken out has none.
BothWays ==
  \A cell \in Cells :
    IF next[cell] = Null THEN prev[cell] = Null
    ELSE /\ next[cell] \in Cells /\ prev[cell] \in Cells
         /\ prev[next[cell]] = cell
         /\ next[prev[cell]] = cell
=============================================================================
