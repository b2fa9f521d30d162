------------------------------- MODULE Null ---------------------------------
(* The absence of a value: a null pointer, or a field that is not there.   *)
CONSTANT NULL
=============================================================================
