------------------------------- MODULE Base64 -------------------------------
(* base64.c: the encoding of binary values and floats in readings and of   *)
(* configuration values in the registry.  Bytes and characters are numbers *)
(* 0..255, texts and buffers are sequences of them.                        *)
EXTENDS Integers, Sequences, SequencesExt

EQUALS == 61
WHITESPACE == 64
INVALID == 66
Newline == 10

(* The tables enc and dec: A-Z, a-z, 0-9, + and /.  A newline is the only  *)
(* character that dec calls white space.                                   *)
enc(n) == CASE n < 26 -> 65 + n
            [] n \in 26..51 -> 97 + n - 26
            [] n \in 52..61 -> 48 + n - 52
            [] n = 62 -> 43
            [] n = 63 -> 47

dec(c) == CASE c \in 65..90 -> c - 65
            [] c \in 97..122 -> c - 97 + 26
            [] c \in 48..57 -> c - 48 + 52
            [] c = 43 -> 62
            [] c = 47 -> 63
            [] c = EQUALS -> 65
            [] c = Newline -> WHITESPACE
            [] OTHER -> INVALID

edgex_b64_encodesize(binsize) ==
  (binsize \div 3) * 4 + (IF binsize % 3 # 0 THEN 4 ELSE 0) + 1

edgex_b64_maxdecodesize(in) ==
  (Len(in) \div 4) * 3 + (IF Len(in) % 4 # 0 THEN 2 ELSE 0)

(* The 24 bits of the group of three bytes that starts at x, missing bytes *)
(* being zero, and one of its four digits.                                 *)
Group(data, x) ==
  LET byte(i) == IF i <= Len(data) THEN data[i] ELSE 0
  IN  byte(x) * 65536 + byte(x + 1) * 256 + byte(x + 2)

Digit(n, k) == (n \div 64 ^ (3 - k)) % 64

(* The text of data: two characters for the first byte of a group and one  *)
(* for each further byte that exists, filled up with '='.  The terminating *)
(* NUL is not part of it; the caller's buffer must have room for it.       *)
edgex_b64_encode(data) ==
  [i \in 1 .. edgex_b64_encodesize(Len(data)) - 1 |->
     LET x == 3 * ((i - 1) \div 4) + 1
         k == (i - 1) % 4
     IN  IF k < 2 \/ x + k - 1 <= Len(data)
         THEN enc(Digit(Group(data, x), k))
         ELSE EQUALS]

Failed == [ok |-> FALSE, bytes |-> <<>>]

(* One character of the loop: white space is passed over, '=' ends the     *)
(* data, four digits (24 of 32 bits) make three bytes, if there is room.     *)
DecodeChar(st, char, outLen) ==
  LET c == dec(char)
      buf == st.buf * 64 + c
  IN  CASE st.end \/ c = WHITESPACE -> st
        [] c = INVALID -> [st EXCEPT !.end = TRUE, !.ok = FALSE]
        [] c = 65 -> [st EXCEPT !.end = TRUE]
        [] st.iter < 3 -> [st EXCEPT !.buf = buf, !.iter = @ + 1]
        [] Len(st.out) + 3 > outLen -> [st EXCEPT !.end = TRUE, !.ok = FALSE]
        [] OTHER -> [st EXCEPT !.buf = 0, !.iter = 0,
                       !.out = @ \o <<(buf \div 65536) % 256,
                                      (buf \div 256) % 256, buf % 256>>]

(* What is left over when the text ends: two or three digits are one or    *)
(* two bytes, a single digit is dropped.                                   *)
DecodeRest(st) ==
  CASE st.iter = 3 -> <<(st.buf \div 1024) % 256, (st.buf \div 4) % 256>>
    [] st.iter = 2 -> <<(st.buf \div 16) % 256>>
    [] OTHER -> <<>>

edgex_b64_decode(in, outLen) ==
  LET st == FoldLeft(LAMBDA s, c : DecodeChar(s, c, outLen),
                     [buf |-> 0, iter |-> 0, out |-> <<>>, end |-> FALSE,
                      ok |-> TRUE], in)
      out == st.out \o DecodeRest(st)
  IN  IF ~st.ok \/ Len(out) > outLen THEN Failed
                                     ELSE [ok |-> TRUE, bytes |-> out]
=============================================================================
