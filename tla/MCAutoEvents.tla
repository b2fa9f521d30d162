---------------------------- MODULE MCAutoEvents ----------------------------
(* AutoEvents for TLC.  Device structs, pool threads and results are       *)
(* interchangeable.                                                        *)
EXTENDS AutoEvents, TLC

FrequencyDef == {[number |-> 10, unit |-> "ms"], [number |-> 0, unit |-> "s"], [number |-> 3, unit |-> "days"]}

Symmetry == Permutations(Dev) \cup Permutations(Worker) \cup Permutations(Value)
=============================================================================
