----------------------------- MODULE Transform -----------------------------
(* transform.c: mask, shift, base, scale and offset of an integer value on *)
(* its way from the driver (outgoing) and to it (incoming), and the        *)
(* mappings of strings.  Float32 and Float64 are not modelled.             *)
EXTENDS Null, Integers, Sequences

CONSTANTS
  W,      \* bits of a long long int: 64 in the program
  Overflow    \* the reading "overflow"

ASSUME WidthAssumption == W \in Nat /\ W >= 4

LLONG_MIN == -(2 ^ (W - 1))
LLONG_MAX == 2 ^ (W - 1) - 1

(* long long int: arithmetic that does not fit wraps round, as the build   *)
(* does it.                                                                *)
Wrap(x) == ((x - LLONG_MIN) % 2^W) + LLONG_MIN

(* An integer type: its bits and whether it has a sign; what it can hold.  *)
Least(type) == IF type.signed THEN -(2 ^ (type.bits - 1)) ELSE 0
Greatest(type) == 2 ^ (type.bits - (IF type.signed THEN 1 ELSE 0)) - 1

transformsOn(pv) ==
  \E arg \in {"offset", "scale", "base", "shift", "mask"} : pv[arg] # NULL

getLLInt(value, type) == IF type.signed THEN value ELSE Wrap(value)

(* Defective variant: a value one past the end passes. *)
setLLIntPast(llival, type) ==
  Least(type) <= llival /\ llival <= Greatest(type) + 1

(* A long long is never above the greatest Uint64; only its sign counts.   *)
setLLInt(llival, type) == Least(type) <= llival /\ llival <= Greatest(type)

(* The bits of a and b in two's complement. *)
And(a, b) ==
  LET bit(x, i) == ((x % 2^W) \div 2^i) % 2
      sum[i \in 0..W] == IF i = W THEN 0
                         ELSE bit(a, i) * bit(b, i) * 2^i + sum[i + 1]
  IN  Wrap(sum[0])

(* The processor uses the count of a shift modulo the width. *)
ShiftLeft(x, n) == Wrap(x * 2 ^ (n % W))
ShiftRight(x, n) == x \div 2 ^ (n % W)

(* Division of integers truncates towards zero. *)
Quotient(a, b) ==
  LET abs(x) == IF x < 0 THEN -x ELSE x
      q == abs(a) \div abs(b)
  IN  IF (a < 0) = (b < 0) THEN q ELSE -q

(* powl converted to long long: a fraction is cut off, what does not fit   *)
(* becomes the smallest number.  The bases used are 2 and above.           *)
Power(b, x) ==
  IF x < 0 THEN 0
  ELSE IF x >= W \/ b ^ x > LLONG_MAX THEN LLONG_MIN ELSE b ^ x

(* llroundl of a quotient of logarithms: the nearest integer, or the       *)
(* smallest number when there is no logarithm.                             *)
Logarithm(b, x) ==
  IF x <= 0 THEN LLONG_MIN
  ELSE CHOOSE k \in 0..W : b ^ (2 * k) <= x * x * b /\ x * x < b ^ (2 * k + 1)

ApplyShift(x, s, Forth(_, _), Back(_, _)) ==
  IF s = NULL THEN x ELSE IF s < 0 THEN Back(x, -s) ELSE Forth(x, s)

(* The value a reading shows for the value v of the driver, or "overflow". *)
edgex_transform_outgoing(v, pv) ==
  LET masked == IF pv.mask = NULL THEN getLLInt(v, pv.type)
                ELSE And(getLLInt(v, pv.type), pv.mask)
      shifted == ApplyShift(masked, pv.shift, ShiftRight, ShiftLeft)
      raised == IF pv.base = NULL THEN shifted ELSE Power(pv.base, shifted)
      scaled == IF pv.scale = NULL THEN raised ELSE Wrap(raised * pv.scale)
      result == IF pv.offset = NULL THEN scaled ELSE Wrap(scaled + pv.offset)
  IN  IF ~transformsOn(pv) THEN v
      ELSE IF setLLInt(result, pv.type) THEN result ELSE Overflow

(* Dividing by zero, or the smallest number by -1, is a trap. *)
Traps(x, scale) ==
  scale # NULL /\ (scale = 0 \/ (scale = -1 /\ x = LLONG_MIN))

(* Defective variant: the scale is undone before the offset. *)
incomingSwapped(v, pv) ==
  LET x == getLLInt(v, pv.type)
      unscaled == IF pv.scale \in {NULL, 0} THEN x ELSE Quotient(x, pv.scale)
      moved == IF pv.offset = NULL THEN unscaled ELSE Wrap(unscaled - pv.offset)
      lowered == IF pv.base = NULL THEN moved ELSE Logarithm(pv.base, moved)
      result == ApplyShift(lowered, pv.shift, ShiftLeft, ShiftRight)
  IN  CASE ~transformsOn(pv) -> [status |-> "ok", value |-> v]
        [] setLLInt(result, pv.type) -> [status |-> "ok", value |-> result]
        [] OTHER -> [status |-> "overflow", value |-> NULL]

(* The value that the driver is given for the written value v, with        *)
(* whether it is accepted.  The mask is not undone.                        *)
edgex_transform_incoming(v, pv) ==
  LET moved == IF pv.offset = NULL THEN getLLInt(v, pv.type)
               ELSE Wrap(getLLInt(v, pv.type) - pv.offset)
      trap == transformsOn(pv) /\ Traps(moved, pv.scale)
      unscaled == IF pv.scale = NULL THEN moved ELSE Quotient(moved, pv.scale)
      lowered == IF pv.base = NULL THEN unscaled ELSE Logarithm(pv.base, unscaled)
      result == ApplyShift(lowered, pv.shift, ShiftLeft, ShiftRight)
  IN  CASE trap -> [status |-> "trap", value |-> NULL]
        [] ~transformsOn(pv) -> [status |-> "ok", value |-> v]
        [] setLLInt(result, pv.type) -> [status |-> "ok", value |-> result]
        [] OTHER -> [status |-> "overflow", value |-> NULL]

(* The value of the first mapping of the string in, both ways; strings     *)
(* without one pass unchanged.                                             *)
checkMapping(map, in) ==
  LET found == {i \in DOMAIN map : map[i].name = in}
  IN  IF found = {} THEN NULL
      ELSE map[CHOOSE i \in found : \A j \in found : i <= j].value

Remap(map, in) == IF checkMapping(map, in) = NULL THEN in ELSE checkMapping(map, in)
=============================================================================
