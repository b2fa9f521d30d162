------------------------------ MODULE FifoOps ------------------------------
(***************************************************************************)
(* What one call of the driver's queue functions does to the contents of   *)
(* a queue, the contents being the sequence of queued strings, oldest      *)
(* first.  UserQueue shows that the linked list of random/user_queue.c     *)
(* implements these operators; ZigbeeDriver uses them.                     *)
(***************************************************************************)
EXTENDS Naturals, Sequences

(* A defective enQueue that refuses the new string of a full queue.        *)
EnqueueDropNewest(q, m, cap) == IF Len(q) = cap THEN q ELSE Append(q, m)

(* enQueue: a queue that already holds cap strings first loses its oldest. *)
Enqueue(q, m, cap) == Append(IF Len(q) = cap THEN Tail(q) ELSE q, m)

=============================================================================
