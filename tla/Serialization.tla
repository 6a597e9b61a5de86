--------------------------- MODULE Serialization ---------------------------
(***************************************************************************)
(* A message on its way between the hardware modem and its host: the       *)
(* sender converts its native structures and encodes them, the bytes may   *)
(* be damaged, the receiver decodes them and converts the result into the  *)
(* native structures of the transaction under way.                         *)
(*                                                                         *)
(* The sender of a request and the receiver of results are the host, which *)
(* is not in the repository: it is given the same functions.  So are the   *)
(* calls of the conversions, in the command parser.                        *)
(***************************************************************************)
EXTENDS PbDecode, RacContext

CONSTANTS
  Contexts,        \* native contexts a host asks for
  Results,         \* native results a transaction ends with
  Raw,             \* messages of hosts that use other values, [type, sent]
  Native,          \* the context of the receiver
  NativeResult,    \* the results of the receiver
  Damaged(_),      \* the messages that are damaged in every way
  Unknown          \* fields of a later version of the messages, as bytes

VARIABLES
  message,    \* [kind, type, sent, native, bytes]: what is sent, and from what
  fault,      \* what happens to its bytes
  native,     \* the native structure of the receiver
  outcome     \* "none", then "converted" or "refused"

vars == <<decoderVars, message, fault, native, outcome>>

(***************************************************************************)
(* The sender                                                              *)
(***************************************************************************)
Request == "smtc_rac_lora_request_pb_t"
Config == <<"rac_config">>
ResultsOf == <<"results">>

\* The stream has room for the most bytes that the message can take
Encoded(type, m) ==
  LET out == pb_encode(type, m)[<<<<<<>>, type>>, 1>>]
  IN  [ok |-> BytesFit(type, m) /\ Len(out) <= MaxSize[type], out |-> out]

Present(m) ==
  [p \in DOMAIN m |-> IF \E f \in Fields[Request] : f[1] = p /\ IsMessage(f[2])
                      THEN {0} ELSE m[p]]

RequestOf(ctx) ==
  LET Put(m, name, struct) == Place(m, Append(Config, name), struct)
      params == <<"rac_config", "radio_params">>
      m0 == Place(Present(Defaults[Request]), Config,
                  [modulation_type |-> rac_convert_modulation_type_to_pb(ctx.modulation_type)])
      m1 == Place(m0, params, rac_convert_radio_params_to_pb(ctx.radio_params))
      m2 == Place(m1, Append(params, "rttof"),
                  rac_convert_rttof_to_pb(ctx.radio_params["rttof"]))
      m3 == Put(m2, "lbt_context", rac_convert_lbt_context_to_pb(ctx.lbt_context))
      m4 == Put(m3, "cw_context", rac_convert_cw_context_to_pb(ctx.cw_context))
      m5 == Put(m4, "cad_context", rac_convert_cad_context_to_pb(
                  ctx.cad_context, At(m4, Append(Config, "cad_context"))))
      m6 == Put(m5, "smtc_rac_data_buffer_setup",
                [tx_payload_buffer |-> ctx.tx_payload_buffer])
  IN  Put(m6, "scheduler_config", rac_convert_scheduler_config_to_pb(ctx.scheduler_config))

ResultsMessageOf(r) ==
  LET m0 == Defaults["rac_results_pb_t"]
      pb == [At(m0, ResultsOf) EXCEPT !["ranging_result"] = r.has_ranging]
      copied == rac_copy_rx_payload_to_result(
                  r.rx_buffer, r.data["rx_size"], rac_convert_data_result_to_pb(r.data, pb))
      m1 == Place(m0, <<>>, [results |-> {0},
                             transaction_status |-> r.transaction_status,
                             radio_access_id |-> r.radio_access_id,
                             return_code |-> rac_convert_return_code_to_pb(r.return_code),
                             rp_status |-> convert_native_rp_status_to_pb(r.rp_status)])
      m2 == Place(m1, ResultsOf, copied.val)
  IN  IF r.has_ranging = {} THEN m2
      ELSE Place(m2, Append(ResultsOf, "ranging_result"),
                 ranging_result_to_pb(r.data["ranging_result"]))

Sent(kind, type, m, struct) ==
  [kind |-> kind, type |-> type, sent |-> m, native |-> struct,
   bytes |-> Encoded(type, m).out]

Messages ==
  {Sent("context", Request, RequestOf(c), c) : c \in Contexts}
  \cup {Sent("results", "rac_results_pb_t", ResultsMessageOf(r), r) : r \in Results}
  \cup {Sent("raw", r.type, r.sent, {}) : r \in Raw}

\* The structures of the native types, which have the fields of the messages
FieldNames(type) == {Message[type][k][1] : k \in 1..Len(Message[type])}
IsStruct(struct, names) == struct = [name \in names |-> struct[name]]

\* What a host asks for: a LoRa context whose enumerated fields have known
\* values and whose numbers have the widths of their native types
IsContext(c) ==
  LET radio == c.radio_params
      rttof == radio["rttof"]
      lbt == c.lbt_context
      cad == c.cad_context
      schedule == c.scheduler_config
  IN  /\ c.modulation_type = "LORA"
      /\ IsStruct(radio, FieldNames("rac_radio_lora_params_pb_t"))
      /\ radio["tx_power_in_dbm"] \subseteq 0..7 /\ radio["symb_nb_timeout"] \subseteq 0..7
      /\ radio["sf"] \in ToSet(LoraSf) /\ radio["bw"] \in ToSet(LoraBw)
      /\ radio["cr"] \in ToSet(LoraCr) /\ radio["header_type"] \in ToSet(HeaderType)
      /\ radio["sync_word"] \in ToSet(Syncword)
      /\ IsStruct(rttof, FieldNames("rttof_params_pb_t"))
      /\ rttof["bw_ranging"] \in ToSet(LoraBw)
      /\ IsStruct(lbt, FieldNames("smtc_rac_lbt_context_pb_t"))
      /\ lbt["threshold_dbm"] \subseteq 0..15 /\ lbt["rssi_inst_dbm"] \subseteq 0..15
      /\ IsStruct(c.cw_context, FieldNames("smtc_rac_cw_context_pb_t"))
      /\ IsStruct(cad, FieldNames("smtc_rac_cad_context_pb_t"))
      /\ cad["cad_exit_mode"] \in ToSet(CadExitMode)
      /\ cad["cad_symb_nb"] \in ToSet(CadSymbs)
      /\ cad["sf"] \in ToSet(LoraSf) /\ cad["bw"] \in ToSet(LoraBw)
      /\ IsStruct(schedule, FieldNames("rac_scheduler_config_pb_t"))
      /\ schedule["scheduling"] \in ToSet(Scheduling)
      /\ c.tx_payload_buffer \in Seq(Byte) /\ Len(c.tx_payload_buffer) <= 255
ASSUME ContextsAssumption == \A c \in Contexts : IsContext(c)

\* What a transaction ends with: a size announced that fits the buffer of what
\* has been received, and a distance that a float holds exactly
IsResult(r) ==
  LET data == r.data
      ranging == data["ranging_result"]
  IN  /\ IsStruct(data, FieldNames("smtc_rac_data_result_pb_t") \ {"rx_payload_buffer"})
      /\ r.rx_buffer \in Seq(Byte) /\ Len(r.rx_buffer) <= 255
      /\ Number(data["rx_size"]) <= Len(r.rx_buffer)
      /\ r.has_ranging \subseteq {0}
      /\ ranging.distance_m \subseteq 0..31 /\ Magnitude(ranging.distance_m, 32) \subseteq 0..23
      /\ ranging.rssi \subseteq 0..7
      /\ r.return_code \in ToSet(ReturnCode)
ASSUME ResultsAssumption ==
  /\ \A r \in Results : IsResult(r)
  /\ IsStruct(NativeResult, FieldNames("smtc_rac_data_result_pb_t") \ {"rx_payload_buffer"})

\* The transaction of the receiver, with the buffer of its payload
ASSUME NativeAssumption ==
  /\ IsStruct(Native, {"modulation_type", "radio_params", "lbt_context", "cw_context",
                       "cad_context", "tx_payload_buffer", "smtc_rac_data_result",
                       "scheduler_config"})
  /\ IsStruct(Native.cad_context, FieldNames("smtc_rac_cad_context_pb_t"))
  /\ Native.tx_payload_buffer \in Seq(Byte) /\ Len(Native.tx_payload_buffer) = 255

ASSUME MessagesAssumption ==
  \A msg \in Messages : msg.type \in DOMAIN MaxSize /\ IsMessageOf(msg.type, msg.sent)

\* A field of a tag that no message has, of any wire type
IsUnknownField(bytes) ==
  LET tag == pb_decode_tag(bytes)
      skipped == pb_skip_field(tag.rest, tag.wire)
  IN  /\ bytes \in Seq(Byte) /\ bytes # <<>>
      /\ tag.ok /\ tag.val > 17 /\ skipped.ok /\ skipped.rest = <<>>
ASSUME UnknownAssumption == \A u \in Unknown : IsUnknownField(u)

(***************************************************************************)
(* The bytes on their way                                                  *)
(***************************************************************************)
NoFault == [kind |-> "none"]

FaultsOf(msg) ==
  LET n == Len(msg.bytes)
  IN  {NoFault}
      \cup IF ~Damaged(msg) THEN {}
           ELSE [kind : {"truncated"}, at : 0..(n - 1)]
                \cup [kind : {"flipped"}, at : 1..n, bit : 0..7]
                \cup [kind : {"unknown"}, at : {0, n}, bytes : Unknown]
                \cup {[kind |-> "followed", by |-> msg2] :
                      msg2 \in {x \in Messages : x.type = msg.type /\ Damaged(x)}}

Arrived(bytes, f) ==
  CASE f.kind = "none" -> bytes
    [] f.kind = "truncated" -> SubSeq(bytes, 1, f.at)
    [] f.kind = "flipped" -> [bytes EXCEPT ![f.at] = SymDiff(@, {f.bit})]
    [] f.kind = "unknown" -> SubSeq(bytes, 1, f.at) \o f.bytes \o Drop(bytes, f.at)
    [] f.kind = "followed" -> bytes \o f.by.bytes

(***************************************************************************)
(* The receiver                                                            *)
(***************************************************************************)
Init ==
  /\ message \in Messages
  /\ fault \in FaultsOf(message)
  /\ native = IF message.type = Request THEN Native ELSE NativeResult
  /\ outcome = "none"
  /\ PbDecodeInit(message.type, Arrived(message.bytes, fault))

Decode == PbDecodeNext /\ UNCHANGED <<message, fault, native, outcome>>

ConvertRequest ==
  /\ verdict = "accepted" /\ outcome = "none" /\ message.type = Request
  /\ \E r \in rac_convert_context_from_pb(dest, Config, native) :
       /\ native' = r.val
       /\ outcome' = IF r.ok THEN "converted" ELSE "refused"
  /\ UNCHANGED <<decoderVars, message, fault>>

ConvertResults ==
  /\ verdict = "accepted" /\ outcome = "none" /\ message.type = "rac_results_pb_t"
  /\ native' \in rac_convert_data_result_from_pb(
                   At(dest, ResultsOf), At(dest, Append(ResultsOf, "ranging_result")), native)
  /\ outcome' = "converted"
  /\ UNCHANGED <<decoderVars, message, fault>>

Next ==
  \/ Decode
  \/ ConvertRequest
  \/ ConvertResults

Spec == Init /\ [][Next]_vars

(***************************************************************************)
(* Properties                                                              *)
(***************************************************************************)
\* The decoder writes to fields of the message only, of their types, and its
\* calls are nested as the messages are.
TypeOK ==
  /\ verdict \in {"decoding", "accepted", "rejected"}
  /\ outcome \in {"none", "converted", "refused"}
  /\ DOMAIN dest = DOMAIN Defaults[message.type]
  /\ \A f \in Fields[message.type] : dest[f[1]] \in FieldValues(f[2])
  /\ \A i \in DOMAIN frames : i > 1 =>
       /\ Front(frames[i].prefix) = frames[i - 1].prefix
       /\ <<Last(frames[i].prefix), frames[i].type>> \in ToSet(Message[frames[i - 1].type])

\* Protocol buffers define a message that follows another in the same bytes
\* to override the fields it sets and to be merged into the submessages.
Merged(m1, m2, type) ==
  [p \in DOMAIN m1 |->
     IF pb_check_proto3_default_value((CHOOSE f \in Fields[type] : f[1] = p)[2], m2[p])
     THEN m1[p] ELSE m2[p]]

Expected ==
  IF fault.kind = "followed" THEN Merged(message.sent, fault.by.sent, message.type)
  ELSE message.sent

Intact == fault.kind \in {"none", "unknown", "followed"}

\* What is sent is what is received: the defaults left off the wire, the
\* has_ flags, the widths, the signs, fields that the receiver does not know
\* and fields that come twice included.
RoundTrip ==
  Intact => /\ verdict # "rejected"
            /\ verdict = "accepted" => dest = Expected

\* The frame carries no length of the message, so one cut between two of its
\* outermost fields is accepted; then the fields before the cut are as sent
\* and the others have their defaults: a submessage is never half received.
TruncatedIsPrefix ==
  fault.kind = "truncated" /\ verdict = "accepted" =>
    \E n \in 0..Len(Message[message.type]) :
      \A p \in DOMAIN dest :
        dest[p] = IF \E i \in 1..n : Message[message.type][i][1] = p[1]
                  THEN message.sent[p] ELSE Defaults[message.type][p]

\* The size that the header declares for a message is enough for what the
\* converters put in it, the longest payloads and the negative numbers of
\* ten bytes included.
EncodedFits ==
  message.kind # "raw" => Encoded(message.type, message.sent).ok

\* Each conversion undoes the other: a transaction runs with the parameters
\* the host has set, and the host reads the results the transaction had.
ConversionsInvert ==
  /\ message.kind = "context" /\ Intact /\ fault.kind # "followed" /\ outcome # "none" =>
       /\ outcome = "converted"
       /\ native.radio_params = message.native.radio_params
       /\ native.lbt_context = message.native.lbt_context
       /\ native.cw_context = message.native.cw_context
       /\ native.cad_context = [message.native.cad_context EXCEPT
                                  !["cad_enabled"] = Native.cad_context["cad_enabled"]]
       /\ native.scheduler_config = message.native.scheduler_config
       /\ IsPrefix(message.native.tx_payload_buffer, native.tx_payload_buffer)
  /\ message.kind = "results" /\ Intact /\ fault.kind # "followed" /\ outcome # "none" =>
       /\ \A name \in DOMAIN native \ {"ranging_result"} :
            native[name] = message.native.data[name]
       /\ message.native.has_ranging # {} =>
            native["ranging_result"].distance_m
              = message.native.data["ranging_result"].distance_m
            /\ native["ranging_result"].rssi = message.native.data["ranging_result"].rssi
       /\ Len(dest[<<"results", "rx_payload_buffer">>]) = Number(native["rx_size"])
       /\ IsPrefix(dest[<<"results", "rx_payload_buffer">>], message.native.rx_buffer)
       /\ rac_convert_return_code_from_pb(dest[<<"return_code">>])
            = message.native.return_code

\* A request that is refused, whatever its bytes, leaves the payload, the
\* results and the schedule of the transaction alone; one of another
\* modulation leaves everything; and no request fills more than the payload
\* buffer.
RefusedKeepsTransaction ==
  message.type = Request =>
    /\ outcome = "refused" =>
         /\ native.tx_payload_buffer = Native.tx_payload_buffer
         /\ native.smtc_rac_data_result = Native.smtc_rac_data_result
         /\ native.scheduler_config = Native.scheduler_config
         /\ Number(dest[<<"rac_config", "modulation_type">>]) > 0 => native = Native
    /\ Len(native.tx_payload_buffer) = 255
=============================================================================
