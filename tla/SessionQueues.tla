--------------------------- MODULE SessionQueues ---------------------------
(***************************************************************************)
(* The session queue of a region as a sequence, in the order of `next'     *)
(* from first_session to last_session, and what the operations of          *)
(* ge_scoop.c do to it.  That the doubly linked list of the code behaves   *)
(* like this is shown in SessionList.                                      *)
(***************************************************************************)
EXTENDS Naturals, Sequences

\* Mutant of AddLast: the session is linked behind the first one.
AddSecond(q, s) == IF q = << >> THEN <<s>> ELSE <<Head(q), s>> \o Tail(q)

\* GE_unprotected_add_scoop_session
AddLast(q, s) == Append(q, s)

Position(q, s) == CHOOSE i \in 1..Len(q) : q[i] = s

\* Mutant of MoveToFirst: off by one, the session is not unlinked.
MoveToFirstLinkedTwice(q, s) ==
  LET p == Position(q, s)
  IN  [i \in 1..Len(q) |->
         IF i = 1 THEN s ELSE IF i < p THEN q[i-1] ELSE q[i]]

\* GE_unprotected_move_scoop_session_to_first
MoveToFirst(q, s) ==
  LET p == Position(q, s)
  IN  [i \in 1..Len(q) |->
         IF i = 1 THEN s ELSE IF i <= p THEN q[i-1] ELSE q[i]]

\* The unlinking done by GE_remove_scoop_session, and of a precondition by
\* GE_scoop_region_remove_precondition.
Without(q, s) ==
  LET p == Position(q, s)
  IN  [i \in 1..(Len(q) - 1) |-> IF i < p THEN q[i] ELSE q[i+1]]
=============================================================================
