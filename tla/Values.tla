------------------------------- MODULE Values -------------------------------
(***************************************************************************)
(* One resource of one device as a client of the REST API sees it: a PUT   *)
(* parses a text (populateValue), undoes the transformation and hands the  *)
(* value to the driver; a GET transforms the driver's value, checks the    *)
(* assertion and makes a reading of it (edgex_value_tostring).             *)
(***************************************************************************)
EXTENDS Transform, Base64

CONSTANTS
  Resource,   \* property values: [type, mask, shift, base, scale, offset,
              \* setMap, getMap, assertion, transform]
  Number,     \* the numbers that a client may write; NULL is no number
  String,     \* the strings that it may write and that a device may have
  Bytes,      \* the byte sequences that a device may have
  Text        \* the base64 texts, right or wrong, that a client may write

(* A type is [kind, bits, signed]; bits is meaningful for "int" and, as    *)
(* the bytes of the representation, for "float".                           *)

VARIABLES
  res,        \* the resource
  raw,        \* the value that the driver keeps
  put,        \* the last PUT so far, [text, accepted], or NULL
  answer      \* what the last request returned: [code, reading]; the code is
              \* -1 when the request ended the program with a trap

valueVars == <<res, raw, put, answer>>

----------------------------------------------------------------------------
(* Texts and values                                                        *)

(* sscanf with SCNu8 ... SCNd64: the number saturates at 64 bits, a minus  *)
(* sign is taken modulo 2^64, and what the type cannot hold is cut off.    *)
ScanNumber(n, type) ==
  LET wide == IF type.signed
              THEN IF n > LLONG_MAX THEN LLONG_MAX ELSE IF n < LLONG_MIN THEN LLONG_MIN ELSE n
              ELSE IF n >= 2^W \/ n <= -(2^W) THEN 2^W - 1 ELSE n % 2^W
  IN  ((wide - Least(type)) % 2 ^ type.bits) + Least(type)

(* A float text in base64 is recognised by its length and padding; the     *)
(* bytes that it does not bring stay zero.  Others are left to sscanf.     *)
LooksBinary(text, size) ==
  IF size = 4 THEN Len(text) = 8 /\ text[7] = EQUALS /\ text[8] = EQUALS
              ELSE Len(text) = 12 /\ text[12] = EQUALS

ParseBytes(text, type) ==
  IF type.kind = "binary" THEN edgex_b64_decode(text, edgex_b64_maxdecodesize(text))
  ELSE IF ~LooksBinary(text, type.bits) THEN Failed
  ELSE LET d == edgex_b64_decode(text, type.bits)
       IN  [d EXCEPT !.bytes = [i \in 1..type.bits |-> IF i <= Len(@) THEN @[i] ELSE 0]]

Parsed(v) == [ok |-> TRUE, value |-> v]

NotParsed == [ok |-> FALSE, value |-> NULL]

populateValue(text, type) ==
  CASE type.kind = "int" -> IF text # NULL THEN Parsed(ScanNumber(text, type)) ELSE NotParsed
    [] type.kind = "string" -> Parsed(text)
    [] OTHER -> LET d == ParseBytes(text, type) IN [ok |-> d.ok, value |-> d.bytes]

edgex_value_tostring(v, type) ==
  IF type.kind \in {"binary", "float"} THEN edgex_b64_encode(v) ELSE v

----------------------------------------------------------------------------
(* The transformation of a value of any type                               *)

Incoming(v) ==
  CASE ~res.transform -> [status |-> "ok", value |-> v]
    [] res.type.kind = "int" -> edgex_transform_incoming(v, res)
    [] res.type.kind = "string" -> [status |-> "ok", value |-> Remap(res.setMap, v)]
    [] OTHER -> [status |-> "ok", value |-> v]

Outgoing(v) ==
  CASE ~res.transform -> v
    [] res.type.kind = "int" -> edgex_transform_outgoing(v, res)
    [] res.type.kind = "string" -> Remap(res.getMap, v)
    [] OTHER -> v

Reading == edgex_value_tostring(Outgoing(raw), res.type)

----------------------------------------------------------------------------
Holds(type) ==
  CASE type.kind = "int" -> Least(type)..Greatest(type)
    [] type.kind = "string" -> String
    [] type.kind = "binary" -> Bytes
    [] type.kind = "float" -> {b \in Bytes : Len(b) = type.bits}

Writes(type) ==
  CASE type.kind = "int" -> Number \cup {NULL}
    [] type.kind = "string" -> String
    [] OTHER -> Text

Status(code) == [code |-> code, reading |-> NULL]

ValuesInit ==
  /\ res \in Resource
  /\ raw \in Holds(res.type)
  /\ put = NULL /\ answer = Status(0)

Running == answer.code # -1

(* edgex_device_runput: only a value that parses and does not overflow     *)
(* reaches the driver.                                                     *)
Put(text) ==
  LET parsed == populateValue(text, res.type)
      in == Incoming(parsed.value)
  IN
  /\ Running
  /\ IF parsed.ok /\ in.status = "ok"
     THEN raw' = in.value /\ answer' = Status(200)
     ELSE UNCHANGED raw
          /\ answer' = Status(IF parsed.ok /\ in.status = "trap" THEN -1 ELSE 400)
  /\ put' = [text |-> text, accepted |-> answer'.code = 200]
  /\ UNCHANGED res

(* edgex_device_runget with edgex_data_process_event: a reading that is    *)
(* not what the assertion says makes the request fail.                     *)
Get ==
  /\ Running
  /\ answer' = IF res.assertion \in {NULL, Reading}
               THEN [code |-> 200, reading |-> Reading] ELSE Status(500)
  /\ UNCHANGED <<res, raw, put>>

(* A device that takes another value of its own accord begins anew: every  *)
(* value is an initial one.                                                *)
ValuesNext == (\E text \in Writes(res.type) : Put(text)) \/ Get

----------------------------------------------------------------------------
(* Properties                                                              *)

(* The steps of a transformation in exact arithmetic.  A power above W is  *)
(* too large, however much.                                                *)
ExactSteps(v) ==
  LET a == IF res.mask = NULL THEN v ELSE And(v, res.mask)
      b == IF res.shift = NULL THEN a
           ELSE IF res.shift < 0 THEN a * 2 ^ (-res.shift) ELSE a \div 2 ^ res.shift
      c == IF res.base = NULL THEN b
           ELSE IF b < 0 THEN 0 ELSE res.base ^ (IF b > W THEN W ELSE b)
      d == IF res.scale = NULL THEN c ELSE c * res.scale
      e == IF res.offset = NULL THEN d ELSE d + res.offset
  IN  <<v, a, b, c, d, e>>

(* The steps fit into the program's long long int.                         *)
StepsFit(v) ==
  \A i \in 1..6 : LLONG_MIN <= ExactSteps(v)[i] /\ ExactSteps(v)[i] <= LLONG_MAX

Exact(v) == ExactSteps(v)[6]

(* A number that the device can be made to show.  A negative power is a    *)
(* fraction, which is cut off.                                             *)
Showable(n) == n # NULL /\ \E v \in Holds(res.type) :
  Exact(v) = n /\ StepsFit(v) /\ (res.base = NULL \/ ExactSteps(v)[3] >= 0)

(* A text that a reading of the resource could be, and that says all of    *)
(* the value: a mask or a scale of zero hides it.                          *)
Proper(text) ==
  CASE res.type.kind = "int" ->
         IF res.transform THEN Showable(text) /\ res.mask = NULL /\ res.scale # 0
                               /\ Least(res.type) <= text /\ text <= Greatest(res.type)
                          ELSE text # NULL /\ text \in Holds(res.type)
    [] res.type.kind = "string" ->
         \/ ~res.transform
         \/ Remap(res.getMap, Remap(res.setMap, text)) = text
    [] OTHER -> \E b \in Holds(res.type) : text = edgex_b64_encode(b)

Exactly(b, text) == \A i \in 1 .. 4 * ((Len(b) + 2) \div 3) :
  text[i] = IF 6 * (i - 1) >= 8 * Len(b) THEN EQUALS
            ELSE LET bit(j) == IF j >= 8 * Len(b) THEN 0
                               ELSE (b[j \div 8 + 1] \div 2 ^ (7 - (j % 8))) % 2
                     j0 == 6 * (i - 1)
                 IN  enc(32 * bit(j0) + 16 * bit(j0 + 1) + 8 * bit(j0 + 2)
                           + 4 * bit(j0 + 3) + 2 * bit(j0 + 4) + bit(j0 + 5))

(* What a client writes it reads back: a text that a reading could be is   *)
(* accepted, and as long as the device keeps it every reading is that      *)
(* text.  It relates populateValue, both transformations, both directions  *)
(* of base64 and edgex_value_tostring.                                     *)
WrittenReadsBack ==
  put # NULL /\ Proper(put.text) => put.accepted /\ Reading = put.text

(* A reading is what the profile's arithmetic gives for the device's value *)
(* or "overflow" when the type cannot hold that, whenever the steps fit in *)
(* 64 bits; the text of bytes is their base64, six bits to a character.    *)
ReadingExact ==
  answer.reading # NULL =>
    CASE res.type.kind = "int" /\ res.transform /\ transformsOn(res) ->
           StepsFit(raw) => answer.reading = IF Exact(raw) \in Holds(res.type)
                                              THEN Exact(raw) ELSE Overflow
      [] res.type.kind \in {"binary", "float"} -> Exactly(raw, answer.reading)
      [] OTHER -> TRUE
=============================================================================
