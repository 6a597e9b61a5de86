-------------------------------- MODULE Wire --------------------------------
(***************************************************************************)
(* The wire format of nanopb (pb_decode.c, pb_encode.c), with which the    *)
(* hardware modem exchanges its radio transactions with the host.          *)
(*                                                                         *)
(* An unsigned integer of w bits is the set of the positions of its one    *)
(* bits, a subset of 0..w-1: casts, shifts and masks are set operations    *)
(* and 64-bit values keep their width.  A signed integer is its two's      *)
(* complement, a bool {} or {0}.  A byte is a subset of 0..7 and a stream  *)
(* the sequence of the bytes left to read: bytes_left is its length.       *)
(*                                                                         *)
(* A reader returns [ok, val, rest]; when ok is FALSE the other two are    *)
(* not used, as in the callers of the code.                                *)
(***************************************************************************)
EXTENDS Integers, SequencesExt

Byte == SUBSET (0..7)
Cast(v, w) == v \cap (0..(w - 1))
Shl(v, k, w) == Cast({b + k : b \in v}, w)
Shr(v, k) == {b - k : b \in {x \in v : x >= k}}
Minus(v, w) == IF v = {} THEN {} ELSE {Min(v)} \cup {b \in (Min(v) + 1)..(w - 1) : b \notin v}

\* Numbers are compared with lengths of streams, all below Huge
Huge == 2^28
Number(v) ==
  LET low[k \in 0..28] ==      \* of the k lowest bits
        IF k = 0 THEN 0 ELSE low[k - 1] + IF k - 1 \in v THEN 2^(k - 1) ELSE 0
  IN  IF v \subseteq 0..27 THEN low[28] ELSE Huge
BitsOf(n) == {b \in 0..27 : (n \div 2^b) % 2 = 1}

Failed(s) == [ok |-> FALSE, val |-> {}, rest |-> s]
Got(v, s) == [ok |-> TRUE, val |-> v, rest |-> s]
Drop(s, n) == SubSeq(s, n + 1, Len(s))

(***************************************************************************)
(* Readers                                                                 *)
(***************************************************************************)
pb_read(s, n) ==
  IF Len(s) < n THEN Failed(s) ELSE Got(SubSeq(s, 1, n), Drop(s, n))

\* Length of the varint at the head of s: 0 when s ends inside it
VarintLen(s) ==
  LET last == {i \in DOMAIN s : 7 \notin s[i]}
  IN  IF last = {} THEN 0 ELSE CHOOSE i \in last : \A j \in last : i <= j

Groups(s, n, w) == UNION {Shl(s[i] \ {7}, 7 * (i - 1), w) : i \in 1..n}

\* Bytes past the 32nd bit must be zeros or extend the sign, and a last byte
\* at the 28th bit may only hold four bits
ValidExtension(s, i, result) ==
  LET bitpos == 7 * (i - 1)
      sign_extension == IF bitpos < 63 THEN 0..7 ELSE {0}
  IN  /\ bitpos < 64
      /\ s[i] \ {7} = {} \/ (31 \in result /\ s[i] = sign_extension)

pb_decode_varint32(s) ==
  LET n == VarintLen(s)
      result == Groups(s, IF n < 5 THEN n ELSE 5, 32)
  IN  IF /\ n > 0
         /\ \A i \in 6..n : ValidExtension(s, i, result)
         /\ ~(n = 5 /\ s[5] \cap {4, 5, 6} # {})
      THEN Got(result, Drop(s, n))
      ELSE Failed(s)

pb_decode_varint(s) ==
  LET n == VarintLen(s)
  IN  IF n \in 1..10 THEN Got(Groups(s, n, 64), Drop(s, n)) ELSE Failed(s)

pb_skip_varint(s) ==
  LET n == VarintLen(s) IN IF n > 0 THEN Got({}, Drop(s, n)) ELSE Failed(s)

\* A length, then that many bytes
pb_string(s) ==
  LET size == pb_decode_varint32(s)
  IN  IF size.ok THEN pb_read(size.rest, Number(size.val)) ELSE Failed(s)

pb_skip_string(s) ==
  LET bytes == pb_string(s) IN IF bytes.ok THEN Got({}, bytes.rest) ELSE Failed(s)

WT_VARINT == 0
WT_64BIT == 1
WT_STRING == 2
WT_32BIT == 5

\* val is the tag, wire the wire type
pb_decode_tag(s) ==
  LET temp == pb_decode_varint32(s)
  IN  [ok |-> temp.ok, val |-> Number(Shr(temp.val, 3)),
       wire |-> Number(Cast(temp.val, 3)), rest |-> temp.rest]

pb_skip_field(s, wire_type) ==
  CASE wire_type = WT_VARINT -> pb_skip_varint(s)
    [] wire_type = WT_64BIT -> pb_read(s, 8)
    [] wire_type = WT_STRING -> pb_skip_string(s)
    [] wire_type = WT_32BIT -> pb_read(s, 4)
    [] OTHER -> Failed(s)

\* Mutant: a length beyond the end of the parent is cut to what is left
pb_make_string_substreamCut(s) ==
  LET size == pb_decode_varint32(s)
      n == Number(size.val)
  IN  IF size.ok
      THEN pb_read(size.rest, IF n < Len(size.rest) THEN n ELSE Len(size.rest))
      ELSE Failed(s)

\* val is the substream, rest what the parent keeps once it is closed
pb_make_string_substream(s) == pb_string(s)

pb_decode_bool(s) ==
  LET value == pb_decode_varint32(s)
  IN  IF value.ok THEN Got(IF value.val = {} THEN {} ELSE {0}, value.rest) ELSE Failed(s)

pb_decode_fixed32(s) ==
  LET raw == pb_read(s, 4)
  IN  IF raw.ok
      THEN Got(UNION {Shl(raw.val[i], 8 * (i - 1), 32) : i \in 1..4}, raw.rest)
      ELSE Failed(s)

\* Mutant: a value is stored whole, whatever the width of the field
pb_dec_uvarintWide(s, w) == pb_decode_varint(s)

\* UVARINT: the value must fit in the field, of w bits
pb_dec_uvarint(s, w) ==
  LET value == pb_decode_varint(s)
  IN  IF value.ok /\ Cast(value.val, w) = value.val THEN value ELSE Failed(s)

\* VARINT: the fields of these messages are int32_t, which the value is cast
\* to before it is checked
pb_dec_varint(s) ==
  LET value == pb_decode_varint(s)
  IN  IF value.ok THEN Got(Cast(value.val, 32), value.rest) ELSE Failed(s)

\* BYTES: size and bytes must fit in a field of data_size bytes, two of them
\* for the size
pb_dec_bytes(s, data_size) ==
  LET size == pb_decode_varint32(s)
  IN  IF size.ok /\ Number(size.val) + 2 <= data_size
      THEN pb_read(size.rest, Number(size.val))
      ELSE Failed(s)

(***************************************************************************)
(* Writers: the bytes they append to the stream                            *)
(***************************************************************************)
\* Four groups of seven bits from the low word, one that straddles the two
\* words, then the high word
VarintGroups(v) == IF v = {} THEN 1 ELSE (Max(v) \div 7) + 1

pb_encode_varint(v) ==
  LET n == VarintGroups(v)
  IN  [i \in 1..n |-> Cast(Shr(v, 7 * (i - 1)), 7) \cup IF i < n THEN {7} ELSE {}]

pb_encode_fixed32(v) == [i \in 1..4 |-> Cast(Shr(v, 8 * (i - 1)), 8)]

pb_encode_tag(wiretype, tag) == pb_encode_varint(BitsOf(8 * tag + wiretype))

pb_encode_string(bytes) == pb_encode_varint(BitsOf(Len(bytes))) \o bytes

\* A 32-bit signed value is extended to 64 bits first
pb_enc_varint(v) == pb_encode_varint(IF 31 \in v THEN v \cup (32..63) ELSE v)
=============================================================================
