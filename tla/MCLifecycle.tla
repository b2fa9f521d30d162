---------------------------- MODULE MCLifecycle ----------------------------
(***************************************************************************)
(* Two machines of which one runs in each behaviour:                       *)
(* - Lifecycle, with two profiles, so that a start may be cut off between  *)
(*   them, and three starts, so that one may follow two that were cut off; *)
(* - Results, with commands of two values: of two types that a driver and  *)
(*   a transformation treat differently, with one in a block that no       *)
(*   transformation touches, and of one that may only be written.          *)
(***************************************************************************)
EXTENDS Lifecycle, Results, TLC

VARIABLE active

Item(type, r, w, a) == [type |-> type, readable |-> r, writable |-> w, asserted |-> a]
MCCommandInfo ==
  {<<Item("string", TRUE, TRUE, TRUE), Item("number", TRUE, TRUE, TRUE)>>,
   <<Item("binary", TRUE, TRUE, FALSE), Item("string", TRUE, TRUE, FALSE)>>,
   <<Item("number", TRUE, FALSE, FALSE), Item("string", FALSE, TRUE, FALSE)>>}

Asleep == registry = FALSE

MCInit ==
  /\ active \in {"lifecycle", "results"}
  /\ Init /\ ResultsInit
  /\ active # "lifecycle" => Asleep

MCNext ==
  \/ active = "lifecycle" /\ Next /\ UNCHANGED <<active, resultVars>>
  \/ active = "results" /\ ResultsNext /\ UNCHANGED <<active, vars>>

MCSpec == MCInit /\ [][MCNext]_<<active, vars, resultVars>> /\ Fairness
=============================================================================
