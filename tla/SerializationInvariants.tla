---------------------- MODULE SerializationInvariants ----------------------
(***************************************************************************)
(* The three inductive invariants of a message between the hardware modem  *)
(* and its host, with the predicates they are made of: what a stream       *)
(* holds, how far a decoder has come, what a conversion has left.          *)
(* SerializationProofs proves them.                                        *)
(***************************************************************************)
EXTENDS Serialization

(***************************************************************************)
(* Numbers and varints                                                     *)
(***************************************************************************)
\* The number of the k lowest bits, from that of one bit less
NextLow(v, low, k) == IF k = 0 THEN 0 ELSE low[k - 1] + IF k - 1 \in v THEN 2^(k - 1) ELSE 0

\* The functions from k to the number of the k lowest bits, up to n
Lows(v, n) == {low \in [0..n -> Nat] : \A k \in 0..n : low[k] = NextLow(v, low, k)}

\* A varint: the last byte, and only the last, has its top bit clear
IsVarint(e, n) ==
  /\ e \in Seq(Byte) /\ Len(e) = n /\ n \in Nat /\ n >= 1 /\ 7 \notin e[n]
  /\ \A i \in 1..(n - 1) : 7 \in e[i]

(***************************************************************************)
(* The fields of the messages, their paths and their nesting               *)
(***************************************************************************)
\* The types of fields that are no messages
Basic == {"BOOL", "UINT32", "UENUM", "INT32", "FLOAT", "BYTES"}

\* How deep a message is nested
Depth(type) ==
  CASE type \in {"smtc_rac_lora_request_pb_t"} -> 4
    [] type \in {"smtc_rac_context_pb_t", "rac_results_pb_t"} -> 3
    [] type \in {"rac_radio_lora_params_pb_t", "smtc_rac_data_result_pb_t"} -> 2
    [] type \in {"rttof_params_pb_t", "ranging_result_pb_t", "smtc_rac_data_buffer_setup_pb_t",
                 "rac_scheduler_config_pb_t", "smtc_rac_lbt_context_pb_t",
                 "smtc_rac_cw_context_pb_t", "smtc_rac_cad_context_pb_t",
                 "rac_get_results_request_pb_t"} -> 1
    [] OTHER -> 0

\* A list of fields with distinct names, of values and of messages less deep
IsFieldList(fields, depth) ==
  /\ Len(fields) \in Nat /\ Len(fields) <= 17 /\ DOMAIN fields = 1..Len(fields)
  /\ \A k \in 1..Len(fields) :
       /\ fields[k] = <<fields[k][1], fields[k][2]>>
       /\ fields[k][2] \in Basic \cup DOMAIN Message /\ Depth(fields[k][2]) < depth
  /\ \A j, k \in 1..Len(fields) : fields[j][1] = fields[k][1] => j = k

\* The types of fields
Types == Basic \cup DOMAIN Message
\* their names
Names == UNION {{Message[t][k][1] : k \in 1..Len(Message[t])} : t \in DOMAIN Message}
\* and their paths
Paths == Seq(Names)

\* The field k of the message at a place f
FieldTo(f, k) == <<Append(f[1], Message[f[2]][k][1]), Message[f[2]][k][2]>>

\* The fields d levels down
IsLevel(fs, d) ==
  /\ \A f \in fs : /\ f = <<f[1], f[2]>> /\ f[1] \in Paths /\ Len(f[1]) = d
                   /\ f[2] \in Types /\ Depth(f[2]) <= 4 - d
  /\ \A f, g \in fs : f[1] = g[1] => f = g

\* The fields of a message at each depth
LevelOne(type) == FieldsIn({<<<<>>, type>>})
LevelTwo(type) == FieldsIn(LevelOne(type))
LevelThree(type) == FieldsIn(LevelTwo(type))
LevelFour(type) == FieldsIn(LevelThree(type))
Level(type, d) ==
  CASE d = 0 -> {<<<<>>, type>>} [] d = 1 -> LevelOne(type) [] d = 2 -> LevelTwo(type)
    [] d = 3 -> LevelThree(type) [] OTHER -> LevelFour(type)

\* Below a message inside, a path goes through one of its fields
PathBelowAt(T, d) ==
  \A f \in Level(T, d) : \A s \in Nested(T) :
    IsPrefix(s[1], f[1]) /\ f[1] # s[1] =>
      \E k \in 1..Len(Message[s[2]]) : IsPrefix(FieldTo(s, k)[1], f[1])

(***************************************************************************)
(* What is read of a stream that may be cut                                *)
(***************************************************************************)
\* What is left of a stream, and what of it is lost, are e and then t
Splits(l, lost, e, t) == l \o lost = e \o t

\* the stream holds e and all that is missing is after it
ReadsOn(l, lost, e, t) == \E r \in Seq(Byte) : l = e \o r /\ r \o lost = t
\* or the stream ends inside e
CutIn(l, lost, e) == lost # <<>> /\ \A i \in 1..Len(l) : l[i] = e[i]

\* A reading of a stream that may be cut: it fails, or gives v and leaves t
Reads(x, lost, v, t) ==
  \/ ~x.ok /\ lost # <<>>
  \/ \E r \in Seq(Byte) : x = Got(v, r) /\ r \o lost = t

\* A reader of a length and as many bytes
ReadsSized(x, l, b) ==
  /\ ~pb_decode_varint32(l).ok => ~x.ok
  /\ \A r : pb_decode_varint32(l) = Got(BitsOf(Len(b)), r) => x = pb_read(r, Len(b))

\* What a field holds between its tag and the next one, and how it is read
EncodedValue(type, v, inside) ==
  CASE type \in {"BOOL", "UINT32", "UENUM"} -> pb_encode_varint(v)
    [] type = "INT32" -> pb_enc_varint(v)
    [] type = "FLOAT" -> pb_encode_fixed32(v)
    [] type = "BYTES" -> pb_encode_string(v)
    [] OTHER -> pb_encode_string(inside)

\* The reader of each type
ValueRead(type, s) ==
  CASE type = "BOOL" -> pb_decode_bool(s)
    [] type \in {"UINT32", "UENUM"} -> pb_dec_uvarint(s, Width(type))
    [] type = "INT32" -> pb_dec_varint(s)
    [] type = "FLOAT" -> pb_decode_fixed32(s)
    [] type = "BYTES" -> pb_dec_bytes(s, data_size)
    [] OTHER -> pb_make_string_substream(s)

\* What a field carries: a value, or the bytes of a submessage
Carried(type, v, inside) == IF IsMessage(type) THEN inside ELSE v

\* A field that may be cut is read whole, or something is missing
ReadsField(l, lost, type, tag, v, t) ==
  LET x == pb_decode_tag(l)
  IN  \/ ~x.ok /\ lost # <<>>
      \/ /\ x.ok /\ x.val = tag /\ x.wire = wire_type_of(type) /\ x.rest \in Seq(Byte)
         /\ Reads(ValueRead(type, x.rest), lost, v, t)

(***************************************************************************)
(* The encoder, place by place                                             *)
(***************************************************************************)
\* What the encoder does at a place, of the bytes at the places after it
EncodeAt(m, g, s, k) ==
  IF k > Len(Message[s[2]]) THEN <<>>
  ELSE encode_field(Message[s[2]][k][2], k, m[FieldTo(s, k)[1]], g[<<FieldTo(s, k), 1>>])
       \o g[<<s, k + 1>>]

\* The places in a message: a message inside, and the tag of one of its fields
Places(T) == Nested(T) \X (1..18)

\* The places that come after one have a smaller measure
Measure(s, k) == 20 * Depth(s[2]) + 18 - k

\* More than the bytes of a message so deep
RoomTwo == 20 + 17 * 310
RoomThree == 20 + 17 * RoomTwo
RoomFour == 20 + 17 * RoomThree
Room(d) == CASE d = 1 -> 310 [] d = 2 -> RoomTwo [] d = 3 -> RoomThree [] OTHER -> RoomFour

\* What is known of the bytes at the places after one
Sized(T, g, n) ==
  \A s \in Nested(T) : \A k \in 1..18 : Measure(s, k) < n =>
    g[<<s, k>>] \in Seq(Byte) /\ Len(g[<<s, k>>]) <= (18 - k) * Room(Depth(s[2]))

\* Two functions with the same bytes at the places of measure less than n
SameBefore(T, g, h, n) ==
  \A s \in Nested(T) : \A k \in 1..18 : Measure(s, k) < n => g[<<s, k>>] = h[<<s, k>>]

\* The bytes at the places of measure less than n
Solved(T, m, g, n) ==
  /\ g \in [Places(T) -> Seq(Byte)] /\ Sized(T, g, n)
  /\ \A s \in Nested(T) : \A k \in 1..18 : Measure(s, k) < n =>
       g[<<s, k>>] = EncodeAt(m, g, s, k)

\* A reader of any bytes leaves bytes, and gives a value of its type
Gives(x, V) == x.ok => x.rest \in Seq(Byte) /\ x.val \in V

(***************************************************************************)
(* Types: the invariant Transfer                                           *)
(***************************************************************************)
\* The open calls of the decoder
Frame == [type : DOMAIN Message, prefix : Paths, left : Seq(Byte)]

\* The message inside that an open call reads
PlaceIn(frame) == <<frame.prefix, frame.type>>
\* The place p is a field of the message at s
IsFieldOf(p, s) == \E k \in 1..Len(Message[s[2]]) : p = FieldTo(s, k)

\* The open calls: one for the message, each other one for a field of the
\* message that the call before it reads
FramesOf(frs, T) ==
  /\ frs \in Seq(Frame) /\ Len(frs) >= 1
  /\ frs[1].type = T /\ frs[1].prefix = <<>>
  /\ \A i \in 1..Len(frs) : PlaceIn(frs[i]) \in Nested(T)
  /\ \A i \in 2..Len(frs) : IsFieldOf(PlaceIn(frs[i]), PlaceIn(frs[i - 1]))

\* The calls once the innermost has r left
ContinuesTo(g, frs, r) == g = [frs EXCEPT ![Len(frs)].left = r]

\* The calls with one more, x
Enters(g, frs, x) == g = Append(frs, x)

\* The paths of a message
PathsOf(T) == {f[1] : f \in Fields[T]}

\* A message whose fields have values of their types
DestOf(d, T) ==
  /\ d = [p \in PathsOf(T) |-> d[p]]
  /\ \A f \in Fields[T] : d[f[1]] \in FieldValues(f[2])

\* The bytes of message m of type T from a place in it on
Bytes(T, m, s, k) == pb_encode(T, m)[<<s, k>>]
\* The outermost place
Top(T) == <<<<>>, T>>

\* The bytes b with bit i of the nth flipped
Flipped(c, b, n, i) == c = [b EXCEPT ![n] = SymDiff(@, {i})]

\* What the decoder has found
Verdicts == {"decoding", "accepted", "rejected"}

\* The state of a decoder of a message of type T
DecoderOf(T) == FramesOf(frames, T) /\ DestOf(dest, T) /\ verdict \in Verdicts

\* The message d with v at p
SetTo(e, d, p, v) == e = [d EXCEPT ![p] = v]

\* The frame that a call for the current field has
SubFrame(bytes) == [type |-> FieldType, prefix |-> FieldPath, left |-> bytes]

\* The calls after the one for the current field, of the bytes inside, which
\* leaves r to the call it is made from
EntersWith(g, frs, inside, r) ==
  g = Append([frs EXCEPT ![Len(frs)].left = r], SubFrame(inside))

\* What holds in every state of the transfer
Transfer ==
  /\ message \in Messages /\ fault \in FaultsOf(message)
  /\ DecoderOf(message.type)
  /\ outcome \in {"none", "converted", "refused"}

(***************************************************************************)
(* A decoder that reads what the encoder has written (Follows), whatever   *)
(* has happened to the bytes: the invariant Received                       *)
(***************************************************************************)
\* The type of the field k of s
TypeAt(s, k) == Message[s[2]][k][2]
\* and its path
PathAt(s, k) == FieldTo(s, k)[1]

\* The field k of s has the value that is left off the wire
DefaultAt(m, s, k) == pb_check_proto3_default_value(TypeAt(s, k), m[PathAt(s, k)])

\* The bytes of the field k of s, and what is inside
Inside(T, m, s, k) == Bytes(T, m, FieldTo(s, k), 1)
\* with the tag before them
FieldBytes(T, m, s, k) ==
  encode_basic_field(TypeAt(s, k), k, m[PathAt(s, k)], Inside(T, m, s, k))

\* The fields of the message of an open call
Count(frs, i) == Len(Message[frs[i].type])

\* ks tells of each open call the field that comes next.  The calls inside a
\* call are for the field before it.
Reached(frs, ks) ==
  /\ ks \in Seq(1..18) /\ Len(ks) = Len(frs)
  /\ \A i \in 1..Len(frs) : ks[i] <= Count(frs, i) + 1
  /\ \A j \in 1..Len(frs) : \A i \in 1..(j - 1) :
       ks[i] >= 2 /\ IsPrefix(PathAt(PlaceIn(frs[i]), ks[i] - 1), frs[j].prefix)

\* The path p is in a field that is still to come
PendingAt(frs, ks, i, p) ==
  \E j \in ks[i]..Count(frs, i) : IsPrefix(PathAt(PlaceIn(frs[i]), j), p)
\* in one of the open calls
Pending(frs, ks, p) == \E i \in 1..Len(frs) : PendingAt(frs, ks, i, p)

\* The places reached, with one field more in the nth call
Advances(js, ks, n) == js = [ks EXCEPT ![n] = ks[n] + 1]

\* The same calls, whatever is left in their streams
SameCalls(g, frs) ==
  /\ Len(g) = Len(frs)
  /\ \A i \in 1..Len(frs) : g[i].type = frs[i].type /\ g[i].prefix = frs[i].prefix

\* What belongs to the outermost call only
OfFirst(i, x) == IF i = 1 THEN x ELSE <<>>

\* The streams hold the bytes of the message from the next fields on; those
\* of the outermost call are followed by tail and may miss the last ones, lost
Streams(T, m, lost, tail, frs, ks) ==
  \A i \in 1..Len(frs) :
    Splits(frs[i].left, OfFirst(i, lost), Bytes(T, m, PlaceIn(frs[i]), ks[i]), OfFirst(i, tail))

\* Fields that are still to come, or that are left off the wire, are as in base
Filled(T, m, base, frs, ks, d) ==
  \A f \in Fields[T] :
    d[f[1]] = IF Pending(frs, ks, f[1]) \/ pb_check_proto3_default_value(f[2], m[f[1]])
              THEN base[f[1]] ELSE m[f[1]]

\* The calls frs and the message d being filled in are those of a decoder that
\* has read message m, whose fields are as in base at first, up to ks
Follows(T, m, base, lost, tail, frs, ks, d) ==
  /\ FramesOf(frs, T) /\ Reached(frs, ks)
  /\ Streams(T, m, lost, tail, frs, ks)
  /\ Filled(T, m, base, frs, ks, d)

\* The innermost call, and the field it comes to
Inmost(frs) == PlaceIn(frs[Len(frs)])

\* The innermost call is after its last field, or at one that is on the wire
Stopped(m, frs, ks) ==
  \/ ks[Len(frs)] = Count(frs, Len(frs)) + 1
  \/ ks[Len(frs)] <= Count(frs, Len(frs)) /\ ~DefaultAt(m, Inmost(frs), ks[Len(frs)])

\* It has read the message up to some places
CanFollow(T, m, base, lost, tail, frs, d) ==
  \E ks : Follows(T, m, base, lost, tail, frs, ks, d)

\* Message m has been read, over base
Taken(T, m, base, d) ==
  \A f \in Fields[T] :
    d[f[1]] = IF pb_check_proto3_default_value(f[2], m[f[1]]) THEN base[f[1]] ELSE m[f[1]]

\* How a step of the decoder may go while it reads message m
Goes(T, m, base, lost, tail) ==
  verdict' = "decoding" /\ CanFollow(T, m, base, lost, tail, frames', dest')
\* It fails, when bytes are missing,
Fails(lost) == lost # <<>> /\ verdict' = "rejected"
\* it ends between two outermost fields, when bytes are missing,
EndsEarly(lost) == Len(frames) = 1 /\ Inner.left = <<>> /\ lost # <<>> /\ Accept
\* or it is through with the message
Done(T, m, base, lost, tail) ==
  Len(frames) = 1 /\ Taken(T, m, base, dest) /\ Splits(Inner.left, lost, <<>>, tail)

\* The bytes s and then b
Joined(c, s, b) == c = s \o b

\* A reader of a stream with more bytes behind does the same
ReadsAlike(y, x, b) == y.ok /\ y.val = x.val /\ Joined(y.rest, x.rest, b)

\* The outermost fields up to some are as in m, the others have their defaults
Clean(T, m, d) ==
  \E n \in 0..Len(Message[T]) :
    \A p \in DOMAIN d :
      d[p] = IF \E i \in 1..n : Message[T][i][1] = p[1] THEN m[p] ELSE Defaults[T][p]

\* What the decoder is at, by what has happened to the bytes of message m
Unread(T, m) ==
  \E u : /\ IsUnknownField(u) /\ Len(frames) = 1 /\ dest = Defaults[T]
         /\ Joined(Inner.left, u, Bytes(T, m, Top(T), 1))
\* The decoder reads a message of which nothing is missing, and then tail,
Whole(T, m, base, tail) == CanFollow(T, m, base, <<>>, tail, frames, dest)
\* or one that misses bytes,
Cut(T, m) ==
  \E lost \in Seq(Byte) : lost # <<>> /\ CanFollow(T, m, Defaults[T], lost, <<>>, frames, dest)
\* or one with an unknown field behind
BeforeUnknown(T, m) == \E u : IsUnknownField(u) /\ Whole(T, m, Defaults[T], u)

\* One of them, by the fault
Underway(T, m, f) ==
  /\ f.kind = "none" => Whole(T, m, Defaults[T], <<>>)
  /\ f.kind = "truncated" => Cut(T, m)
  /\ f.kind = "unknown" =>
       Unread(T, m) \/ Whole(T, m, Defaults[T], <<>>) \/ BeforeUnknown(T, m)
  /\ f.kind = "followed" =>
       \/ Whole(T, m, Defaults[T], Bytes(T, f.by.sent, Top(T), 1))
       \/ Whole(T, f.by.sent, m, <<>>)

\* What it has got
ArrivedAs(T, m, f) ==
  /\ f.kind \in {"none", "unknown"} => dest = m
  /\ f.kind = "followed" => dest = Merged(m, f.by.sent, T)
  /\ f.kind = "truncated" => Clean(T, m, dest)

\* The decoder of message m, whose bytes have met with fault f
Arrival(T, m, f) ==
  /\ verdict = "decoding" => Underway(T, m, f)
  /\ verdict = "accepted" => ArrivedAs(T, m, f)
  /\ verdict = "rejected" => f.kind \in {"truncated", "flipped"}

\* What holds of every message that arrives
Received == Transfer /\ Arrival(message.type, message.sent, fault)

(***************************************************************************)
(* What is converted into the transaction: the invariant Converted         *)
(***************************************************************************)
\* The parts of a transaction
NativeNames ==
  {"modulation_type", "radio_params", "lbt_context", "cw_context",
   "cad_context", "tx_payload_buffer", "smtc_rac_data_result", "scheduler_config"}

\* e is c with its first parts converted
FirstSet(e, c, v1, v2, v3, v4) ==
  e = [c EXCEPT !.modulation_type = v1, !.radio_params = v2,
                !.lbt_context = v3, !.cw_context = v4]
\* e is c with its last parts converted
LastSet(e, c, v1, v2, v3) ==
  e = [c EXCEPT !.tx_payload_buffer = v1, !.smtc_rac_data_result = v2, !.scheduler_config = v3]

\* Where the payload is in a request
PayloadPath == <<"rac_config", "smtc_rac_data_buffer_setup", "tx_payload_buffer">>
\* Where the buffer of the payload is
SetupPath == <<"rac_config", "smtc_rac_data_buffer_setup">>

\* The transaction of a receiver of requests is as it was, or as the one
\* conversion that there is leaves it
Converted ==
  /\ Transfer
  /\ outcome # "none" => verdict = "accepted"
  /\ message.type = Request =>
       \/ outcome = "none" /\ native = Native
       \/ \E r \in rac_convert_context_from_pb(dest, Config, Native) :
            native = r.val /\ outcome = IF r.ok THEN "converted" ELSE "refused"
  /\ message.type # Request =>
       \/ outcome = "none" /\ native = NativeResult
       \/ /\ outcome = "converted"
          /\ native \in rac_convert_data_result_from_pb(
                          At(dest, ResultsOf), At(dest, Append(ResultsOf, "ranging_result")),
                          NativeResult)

(***************************************************************************)
(* The sizes of what the converters make                                   *)
(***************************************************************************)
\* The bytes of a message from a place in it on, and those between a tag of
\* one byte and the next one: n bounds a payload or the bytes inside
SizeFrom(T, m, s, k) == Len(Bytes(T, m, s, k))
\* The most bytes of a field of each type, tag included
Most(type, n) ==
  CASE type = "BOOL" -> 1 [] type \in {"UINT32", "UENUM"} -> 5 [] type = "INT32" -> 10
    [] type = "FLOAT" -> 4 [] OTHER -> n + 2

\* A length below this takes two bytes
TwoGroups == 2^14

\* The types whose values are numbers
Numeric == {"BOOL", "UINT32", "UENUM", "INT32", "FLOAT"}

\* The values of a message are left off the wire, those of the messages inside
\* it aside
Unset(m, s) ==
  \A k \in 1..Len(Message[s[2]]) : ~IsMessage(TypeAt(s, k)) => DefaultAt(m, s, k)

\* A structure is placed at its path only
IsPlaced(g, m, prefix, struct) == g = Place(m, prefix, struct)

\* Where the converters place the parts of a context
PartsOf == {Append(Config, name) : name \in {"lbt_context", "cw_context", "cad_context",
                                             "smtc_rac_data_buffer_setup", "scheduler_config"}}
\* The structures of a request that are converted
Placed == PartsOf \cup {Config, <<"rac_config", "radio_params">>,
                        Append(<<"rac_config", "radio_params">>, "rttof")}

\* The message that answers
ResultsType == "rac_results_pb_t"

(***************************************************************************)
(* The parts that the conversions take and leave                           *)
(***************************************************************************)
\* A float is read in its three parts: fraction, exponent and sign
FloatIs(f, mag, e, exponent, sign) ==
  f = {b + 23 - e : b \in {x \in mag : x < e /\ x + 23 >= e}} \cup {b + 23 : b \in exponent}
      \cup sign

\* The structures inside a context
RttofAt == <<<<"rac_config", "radio_params", "rttof">>, "rttof_params_pb_t">>
RadioAt == <<<<"rac_config", "radio_params">>, "rac_radio_lora_params_pb_t">>
LbtAt == <<<<"rac_config", "lbt_context">>, "smtc_rac_lbt_context_pb_t">>
CwAt == <<<<"rac_config", "cw_context">>, "smtc_rac_cw_context_pb_t">>
CadAt == <<<<"rac_config", "cad_context">>, "smtc_rac_cad_context_pb_t">>
SetupAt == <<SetupPath, "smtc_rac_data_buffer_setup_pb_t">>
ScheduleAt == <<<<"rac_config", "scheduler_config">>, "rac_scheduler_config_pb_t">>
ConfigAt == <<Config, "smtc_rac_context_pb_t">>

\* The fields that the converters name
CadNames == {"cad_enabled", "cad_symb_nb", "cad_exit_mode", "cad_timeout_in_ms", "sf", "bw",
             "rf_freq_in_hz", "invert_iq_is_on"}
\* and of the radio parameters
RadioNames == {"tx_power_in_dbm", "symb_nb_timeout", "rttof", "sf", "bw", "cr", "header_type",
               "sync_word"}

\* The structures inside an answer
ResultsAt == <<ResultsOf, "smtc_rac_data_result_pb_t">>
RangingAt == <<<<"results", "ranging_result">>, "ranging_result_pb_t">>
RangingNames == {"valid", "distance_m", "rssi", "timestamp"}
=============================================================================
