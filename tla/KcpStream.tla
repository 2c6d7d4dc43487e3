----------------------------- MODULE KcpStream -----------------------------
(***************************************************************************)
(* What a session promises to the programs at its two ends: ikcp_send      *)
(* accepts messages, ikcp_recv returns those of the other end, whole, once *)
(* and in order.  There is no network and no segment here.                 *)
(***************************************************************************)
EXTENDS Sequences, Naturals

CONSTANT Endpoints

VARIABLES sent,      \* the messages accepted at each end
          delivered  \* the messages returned at each end

vars == <<sent, delivered>>

Other(e) == CHOOSE p \in Endpoints : p # e

Init ==
  /\ sent = [e \in Endpoints |-> <<>>]
  /\ delivered = [e \in Endpoints |-> <<>>]

\* A message of any content joins the stream of e.
Accept(e) ==
  /\ Len(sent'[e]) > Len(sent[e])
  /\ \E message \in {sent'[e][Len(sent[e]) + 1]} :
       sent' = [sent EXCEPT ![e] = Append(@, message)]
  /\ UNCHANGED delivered

\* The next message of the other end.
Deliver(e) ==
  /\ Len(delivered[e]) < Len(sent[Other(e)])
  /\ delivered' = [delivered EXCEPT ![e] =
       Append(@, sent[Other(e)][Len(delivered[e]) + 1])]
  /\ UNCHANGED sent

Next == \E e \in Endpoints : Accept(e) \/ Deliver(e)

Spec == Init /\ [][Next]_vars
============================================================================
