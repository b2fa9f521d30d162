---------------------------- MODULE BoundedFifo ----------------------------
(***************************************************************************)
(* The promise of a driver queue: an atomic first-in first-out buffer of   *)
(* at most Cap strings.  Putting into a full buffer discards the oldest    *)
(* string; a string that is taken is handed to exactly one caller and      *)
(* leaves the buffer in the same step.                                     *)
(***************************************************************************)
EXTENDS FifoOps

CONSTANTS Thread,   \* the threads that call the queue functions
          Msg,      \* the strings that may be queued
          Cap,      \* capacity given to createQueue
          NULL      \* the null pointer

VARIABLES contents, \* queued strings, oldest first
          out       \* out[t]: what the last call of t returned

vars == <<contents, out>>

Init == /\ contents = <<>>
        /\ out = [t \in Thread |-> NULL]

Put(m) == /\ contents' = Enqueue(contents, m, Cap)
          /\ UNCHANGED out

Take(t) == /\ contents # <<>>
           /\ contents' = Tail(contents)
           /\ out' = [out EXCEPT ![t] = Head(contents)]

TakeNothing(t) == /\ contents = <<>>
                  /\ out' = [out EXCEPT ![t] = NULL]
                  /\ UNCHANGED contents

Next == \/ \E m \in Msg : Put(m)
        \/ \E t \in Thread : Take(t) \/ TakeNothing(t)

Spec == Init /\ [][Next]_vars
=============================================================================
