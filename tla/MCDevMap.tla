------------------------------ MODULE MCDevMap ------------------------------
(* DevMap for TLC.  Ids, names, profiles, structs and threads of one kind  *)
(* are interchangeable.                                                    *)
EXTENDS DevMap, TLC

Symmetry == Permutations(Id) \cup Permutations(Name) \cup Permutations(Profile)
              \cup Permutations(Obj) \cup Permutations(Callback)
=============================================================================
