------------------------------ MODULE MCDriver ------------------------------
(* ZigbeeDriver for TLC.  The configurations choose who is there: handler  *)
(* threads for GETs and PUTs, pool workers and requesters for discovery.   *)
EXTENDS ZigbeeDriver, TLC

CONSTANTS d1, d2, h1, h2, w1, w2, r1, r2, main, one, two, switch

MCName == {"d1", "d2", "newdevice", "4689"}

(* Both devices were added before, or neither was.                         *)
Named == [d \in Device |-> IF d = d1 THEN "d1" ELSE "d2"]
Unnamed == [d \in Device |-> "newdevice"]

MCMAC == [d \in Device |-> IF d = d1 THEN "m1" ELSE "m2"]
MCResType == one :> "Uint64" @@ two :> "Uint64" @@ switch :> "Bool"

SwapHandlers == Permutations(Handler)
=============================================================================
