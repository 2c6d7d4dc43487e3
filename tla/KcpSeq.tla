------------------------------ MODULE KcpSeq ------------------------------
(***************************************************************************)
(* The sequence-number arithmetic of ikcp.c.  A sequence number is an      *)
(* IUINT32; it is compared with another one only through _itimediff, the   *)
(* difference of the two read as a signed integer.  SeqMod is the number   *)
(* of sequence numbers: 2^32 in the code, a small power of two in the runs *)
(* that make the numbers wrap around.                                      *)
(***************************************************************************)
EXTENDS Integers

CONSTANT SeqMod

ASSUME SeqModAssumption ==
  /\ SeqMod \in Nat \ {0}
  /\ SeqMod % 2 = 0

Sn == 0 .. SeqMod - 1

\* Unsigned addition, as in kcp->snd_nxt++ and kcp->rcv_nxt + kcp->rcv_wnd.
SeqAdd(sn, n) == (sn + n) % SeqMod

\* Mutant: the numbers are compared as plain integers.
PlainDiff(later, earlier) == later - earlier

\* (IINT32)(later - earlier)
Diff(later, earlier) ==
  LET d == (later - earlier) % SeqMod
  IN  IF 2 * d < SeqMod THEN d ELSE d - SeqMod
===========================================================================
