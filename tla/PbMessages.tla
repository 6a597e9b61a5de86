----------------------------- MODULE PbMessages -----------------------------
(***************************************************************************)
(* The messages of smtc_rac_context.pb.h and how pb_encode.c writes them.  *)
(*                                                                         *)
(* A message type is the sequence of its fields <<name, type>>, in the     *)
(* order of their tags, which are 1, 2, ... in every message of the file.  *)
(* Every field is static; one whose type is a message has a has_ flag.     *)
(*                                                                         *)
(* A message is a function of the paths of its fields (a path is the names *)
(* from the outermost message in): a path to a submessage holds its has_   *)
(* flag, a path to a bytes field its bytes, every other path a number.     *)
(***************************************************************************)
EXTENDS Wire

CONSTANT EnumBits    \* width of an enum field
ASSUME EnumBitsAssumption == EnumBits \in {8, 16, 32}

rttof_params_pb_t ==
  << <<"request_address", "UINT32">>, <<"delay_indicator", "UINT32">>,
     <<"response_symbols_count", "UINT32">>, <<"bw_ranging", "UENUM">> >>

ranging_result_pb_t ==
  << <<"valid", "BOOL">>, <<"distance_m", "FLOAT">>, <<"rssi", "FLOAT">>,
     <<"timestamp", "INT32">> >>

rac_radio_lora_params_pb_t ==
  << <<"is_tx", "BOOL">>, <<"is_ranging_exchange", "BOOL">>,
     <<"rttof", "rttof_params_pb_t">>, <<"frequency_in_hz", "UINT32">>,
     <<"tx_power_in_dbm", "UINT32">>, <<"sf", "UENUM">>, <<"bw", "UENUM">>,
     <<"cr", "UENUM">>, <<"preamble_len_in_symb", "UINT32">>,
     <<"header_type", "UENUM">>, <<"invert_iq_is_on", "BOOL">>,
     <<"crc_is_on", "BOOL">>, <<"sync_word", "UENUM">>,
     <<"rx_timeout_ms", "UINT32">>, <<"symb_nb_timeout", "UINT32">>,
     <<"max_rx_size", "UINT32">>, <<"tx_size", "UINT32">> >>

smtc_rac_data_buffer_setup_pb_t == << <<"tx_payload_buffer", "BYTES">> >>

smtc_rac_data_result_pb_t ==
  << <<"rx_size", "UINT32">>, <<"rssi_result", "INT32">>, <<"snr_result", "INT32">>,
     <<"radio_end_timestamp_ms", "UINT32">>, <<"radio_start_timestamp_ms", "UINT32">>,
     <<"ranging_result", "ranging_result_pb_t">>, <<"rx_payload_buffer", "BYTES">> >>

rac_scheduler_config_pb_t ==
  << <<"start_time_ms", "UINT32">>, <<"scheduling", "UENUM">>,
     <<"duration_time_ms", "UINT32">> >>

smtc_rac_lbt_context_pb_t ==
  << <<"lbt_enabled", "BOOL">>, <<"listen_duration_ms", "UINT32">>,
     <<"threshold_dbm", "INT32">>, <<"bandwidth_hz", "UINT32">>,
     <<"rssi_inst_dbm", "INT32">>, <<"channel_busy", "BOOL">> >>

smtc_rac_cw_context_pb_t ==
  << <<"cw_enabled", "BOOL">>, <<"infinite_preamble", "BOOL">> >>

smtc_rac_cad_context_pb_t ==
  << <<"cad_enabled", "BOOL">>, <<"cad_symb_nb", "UENUM">>,
     <<"cad_exit_mode", "UENUM">>, <<"cad_timeout_in_ms", "UINT32">>,
     <<"sf", "UENUM">>, <<"bw", "UENUM">>, <<"rf_freq_in_hz", "UINT32">>,
     <<"invert_iq_is_on", "BOOL">> >>

smtc_rac_context_pb_t ==
  << <<"modulation_type", "UENUM">>,
     <<"radio_params", "rac_radio_lora_params_pb_t">>,
     <<"smtc_rac_data_buffer_setup", "smtc_rac_data_buffer_setup_pb_t">>,
     <<"scheduler_config", "rac_scheduler_config_pb_t">>,
     <<"smtc_rac_data_result", "smtc_rac_data_result_pb_t">>,
     <<"lbt_context", "smtc_rac_lbt_context_pb_t">>,
     <<"cad_context", "smtc_rac_cad_context_pb_t">>,
     <<"cw_context", "smtc_rac_cw_context_pb_t">> >>

smtc_rac_lora_request_pb_t ==
  << <<"radio_access_id", "UINT32">>, <<"rac_config", "smtc_rac_context_pb_t">> >>

rac_get_results_request_pb_t == << <<"radio_access_id", "UINT32">> >>

rac_results_pb_t ==
  << <<"transaction_status", "UENUM">>, <<"return_code", "UENUM">>,
     <<"results", "smtc_rac_data_result_pb_t">>, <<"rp_status", "UENUM">>,
     <<"radio_access_id", "UINT32">> >>

Message ==
  [rttof_params_pb_t |-> rttof_params_pb_t,
   ranging_result_pb_t |-> ranging_result_pb_t,
   rac_radio_lora_params_pb_t |-> rac_radio_lora_params_pb_t,
   smtc_rac_data_buffer_setup_pb_t |-> smtc_rac_data_buffer_setup_pb_t,
   smtc_rac_data_result_pb_t |-> smtc_rac_data_result_pb_t,
   rac_scheduler_config_pb_t |-> rac_scheduler_config_pb_t,
   smtc_rac_lbt_context_pb_t |-> smtc_rac_lbt_context_pb_t,
   smtc_rac_cw_context_pb_t |-> smtc_rac_cw_context_pb_t,
   smtc_rac_cad_context_pb_t |-> smtc_rac_cad_context_pb_t,
   smtc_rac_context_pb_t |-> smtc_rac_context_pb_t,
   smtc_rac_lora_request_pb_t |-> smtc_rac_lora_request_pb_t,
   rac_get_results_request_pb_t |-> rac_get_results_request_pb_t,
   rac_results_pb_t |-> rac_results_pb_t]

\* Mutant: a signed number counted as its four bytes
MaxSizeShort ==
  [smtc_rac_lora_request_pb_t |-> 742, rac_get_results_request_pb_t |-> 6,
   rac_results_pb_t |-> 320]

\* The messages that are sent on their own, with the most bytes one takes
MaxSize ==
  [smtc_rac_lora_request_pb_t |-> 772, rac_get_results_request_pb_t |-> 6,
   rac_results_pb_t |-> 338]

IsMessage(type) == type \in DOMAIN Message

\* <<path, type>> of the fields of the messages among the fields fs
FieldsIn(fs) ==
  UNION {{<<Append(f[1], g[1]), g[2]>> : g \in ToSet(Message[f[2]])} :
         f \in {x \in fs : IsMessage(x[2])}}

\* Those of a message at any depth: messages are nested four deep at most
Fields ==
  [type \in DOMAIN MaxSize |->
     LET one == FieldsIn({<<<<>>, type>>})
         two == FieldsIn(one)
         three == FieldsIn(two)
     IN  one \cup two \cup three \cup FieldsIn(three)]

Default(type) == IF type = "BYTES" THEN <<>> ELSE {}

\* pb_message_set_to_defaults: no message has default values of its own
Defaults ==
  [type \in DOMAIN MaxSize |->
     [path \in {f[1] : f \in Fields[type]} |->
        Default((CHOOSE f \in Fields[type] : f[1] = path)[2])]]

Width(type) ==
  CASE type = "BOOL" -> 1 [] type = "UENUM" -> EnumBits [] OTHER -> 32

\* sizeof: the size of the payload, its 255 bytes, and one byte of padding
data_size == 258

Payloads == {b \in Seq(Byte) : Len(b) <= data_size - 2}

\* The values of a field: of a submessage, those of its has_ flag
FieldValues(type) ==
  CASE type = "BYTES" -> Payloads
    [] IsMessage(type) -> SUBSET {0}
    [] OTHER -> SUBSET (0..(Width(type) - 1))

(***************************************************************************)
(* Encoding                                                                *)
(***************************************************************************)
\* A bytes field is empty, a submessage has its has_ flag clear, any other
\* field is zero
pb_check_proto3_default_value(type, v) ==
  IF type = "BYTES" THEN Len(v) = 0 ELSE v = {}

wire_type_of(type) ==
  CASE type \in {"BOOL", "UINT32", "UENUM", "INT32"} -> WT_VARINT
    [] type = "FLOAT" -> WT_32BIT
    [] OTHER -> WT_STRING

pb_encode_tag_for_field(type, tag) == pb_encode_tag(wire_type_of(type), tag)

\* A value and what precedes it; of a submessage, its size and the bytes
\* inside, which the code counts in a first pass and writes in a second
encode_basic_field(type, tag, v, inside) ==
  pb_encode_tag_for_field(type, tag) \o
  CASE type \in {"BOOL", "UINT32", "UENUM"} -> pb_encode_varint(v)
    [] type = "INT32" -> pb_enc_varint(v)
    [] type = "FLOAT" -> pb_encode_fixed32(v)
    [] type = "BYTES" -> pb_encode_string(v)
    [] OTHER -> pb_encode_string(inside)

encode_field(type, tag, v, inside) ==
  IF pb_check_proto3_default_value(type, v) THEN <<>>
  ELSE encode_basic_field(type, tag, v, inside)

\* The messages inside one, itself included, as <<path, type>>
Nested(type) == {<<<<>>, type>>} \cup {f \in Fields[type] : IsMessage(f[2])}

\* The bytes of message m from each place in it on: a place is a message
\* inside m and the tag of one of its fields
pb_encode(type, m) ==
  LET bytes[at \in Nested(type) \X (1..18)] ==
        LET msg == at[1][2]
            tag == at[2]
            field == Message[msg][tag]
            path == Append(at[1][1], field[1])
        IN  IF tag > Len(Message[msg]) THEN <<>>
            ELSE encode_field(field[2], tag, m[path], bytes[<<<<path, field[2]>>, 1>>])
                 \o bytes[<<at[1], tag + 1>>]
  IN  bytes

\* pb_enc_bytes refuses what the field of the receiver could not hold
BytesFit(type, m) ==
  \A f \in Fields[type] : f[2] = "BYTES" => Len(m[f[1]]) <= data_size - 2

\* A message that a program may send: an absent submessage is empty
IsMessageOf(type, m) ==
  /\ m = [path \in {f[1] : f \in Fields[type]} |-> m[path]]
  /\ \A f \in Fields[type] : m[f[1]] \in FieldValues(f[2])
  /\ \A f \in Fields[type] : IsMessage(f[2]) /\ m[f[1]] = {} =>
       \A g \in Fields[type] : IsPrefix(f[1], g[1]) =>
         pb_check_proto3_default_value(g[2], m[g[1]])
=============================================================================
