------------------------------ MODULE PbDecode ------------------------------
(***************************************************************************)
(* pb_decode of pb_decode.c as a state machine: one step for each turn of  *)
(* the loop of pb_decode_inner.  The calls of pb_decode_inner that are     *)
(* open, one for each submessage being read, are the sequence frames, the  *)
(* innermost last: its message type, where it writes to in dest, and the   *)
(* bytes left in its stream.                                               *)
(***************************************************************************)
EXTENDS PbMessages

VARIABLES
  frames,    \* the open calls
  dest,      \* the message being filled in
  verdict    \* "decoding", then "accepted" or "rejected": the value returned

decoderVars == <<frames, dest, verdict>>

\* The fields are set to their defaults once, in the outermost call
PbDecodeInit(type, bytes) ==
  /\ frames = <<[type |-> type, prefix |-> <<>>, left |-> bytes]>>
  /\ dest = Defaults[type]
  /\ verdict = "decoding"

Inner == Last(frames)
Tag == pb_decode_tag(Inner.left)

\* pb_field_iter_find: the tags of a message are the positions of its fields
Known == Tag.val \in DOMAIN Message[Inner.type]
FieldType == Message[Inner.type][Tag.val][2]
FieldPath == Append(Inner.prefix, Message[Inner.type][Tag.val][1])

\* A reader of the field's type, if the wire type is the one it expects
decode_basic_field(s, type) ==
  IF Tag.wire # wire_type_of(type) THEN Failed(s)
  ELSE CASE type = "BOOL" -> pb_decode_bool(s)
         [] type \in {"UINT32", "UENUM"} -> pb_dec_uvarint(s, Width(type))
         [] type = "INT32" -> pb_dec_varint(s)
         [] type = "FLOAT" -> pb_decode_fixed32(s)
         [] type = "BYTES" -> pb_dec_bytes(s, data_size)
         [] OTHER -> pb_make_string_substream(s)

Reading == verdict = "decoding" /\ Inner.left # <<>>

Reject ==
  /\ verdict' = "rejected"
  /\ UNCHANGED <<frames, dest>>

Continue(rest) == frames' = [frames EXCEPT ![Len(frames)].left = rest]

\* The tag cannot be read, or it is zero
DecodeBadTag ==
  /\ Reading
  /\ ~Tag.ok \/ Tag.val = 0
  /\ Reject

SkipUnknownField ==
  /\ Reading
  /\ Tag.ok /\ Tag.val # 0 /\ ~Known
  /\ LET skipped == pb_skip_field(Tag.rest, Tag.wire)
     IN  IF skipped.ok
         THEN Continue(skipped.rest) /\ UNCHANGED <<dest, verdict>>
         ELSE Reject

DecodeField ==
  /\ Reading
  /\ Tag.ok /\ Known /\ ~IsMessage(FieldType)
  /\ LET value == decode_basic_field(Tag.rest, FieldType)
     IN  IF value.ok
         THEN /\ dest' = [dest EXCEPT ![FieldPath] = value.val]
              /\ Continue(value.rest)
              /\ UNCHANGED verdict
         ELSE Reject

\* Mutant: a submessage starts from its defaults, as the outermost message does
EnterSubmessageInit ==
  /\ Reading
  /\ Tag.ok /\ Known /\ IsMessage(FieldType)
  /\ LET sub == decode_basic_field(Tag.rest, FieldType)
     IN  IF sub.ok
         THEN /\ dest' = [p \in DOMAIN dest |->
                 IF p = FieldPath THEN {0}
                 ELSE IF IsPrefix(FieldPath, p)
                 THEN Defaults[frames[1].type][p] ELSE dest[p]]
              /\ frames' = Append([frames EXCEPT ![Len(frames)].left = sub.rest],
                                  [type |-> FieldType, prefix |-> FieldPath,
                                   left |-> sub.val])
              /\ UNCHANGED verdict
         ELSE Reject

\* The has_ flag is set first, and what the submessage held is kept
EnterSubmessage ==
  /\ Reading
  /\ Tag.ok /\ Known /\ IsMessage(FieldType)
  /\ LET sub == decode_basic_field(Tag.rest, FieldType)
     IN  IF sub.ok
         THEN /\ dest' = [dest EXCEPT ![FieldPath] = {0}]
              /\ frames' = Append([frames EXCEPT ![Len(frames)].left = sub.rest],
                                  [type |-> FieldType, prefix |-> FieldPath,
                                   left |-> sub.val])
              /\ UNCHANGED verdict
         ELSE Reject

LeaveSubmessage ==
  /\ verdict = "decoding"
  /\ Inner.left = <<>>
  /\ Len(frames) > 1
  /\ frames' = Front(frames)
  /\ UNCHANGED <<dest, verdict>>

Accept ==
  /\ verdict = "decoding"
  /\ Inner.left = <<>>
  /\ Len(frames) = 1
  /\ verdict' = "accepted"
  /\ UNCHANGED <<frames, dest>>

PbDecodeNext ==
  \/ DecodeBadTag
  \/ SkipUnknownField
  \/ DecodeField
  \/ EnterSubmessage
  \/ LeaveSubmessage
  \/ Accept
=============================================================================
