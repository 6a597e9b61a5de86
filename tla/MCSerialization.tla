-------------------------- MODULE MCSerialization --------------------------
(***************************************************************************)
(* Messages for TLC: a context with every field at its least value, one    *)
(* with every field at its greatest, one for each other enumerator and for *)
(* each other field on its own; results with short and long payloads; the  *)
(* values that only another host would send.                               *)
(***************************************************************************)
EXTENDS Serialization

Bytes(n) == [i \in 1..n |-> BitsOf(i % 256)]
TypeOf(type, name) == (CHOOSE f \in ToSet(Message[type]) : f[1] = name)[2]

EnumOf(name) ==
  CASE name = "sf" -> LoraSf [] name \in {"bw", "bw_ranging"} -> LoraBw
    [] name = "cr" -> LoraCr [] name = "header_type" -> HeaderType
    [] name = "sync_word" -> Syncword [] name = "cad_symb_nb" -> CadSymbs
    [] name = "cad_exit_mode" -> CadExitMode [] name = "scheduling" -> Scheduling
    [] OTHER -> <<>>

WidthOf(type, name) ==
  CASE name \in {"tx_power_in_dbm", "symb_nb_timeout"} -> 8
    [] name \in {"threshold_dbm", "rssi_inst_dbm"} -> 16
    [] OTHER -> Width(TypeOf(type, name))

ValuesOf(type, name) ==
  IF EnumOf(name) # <<>> THEN ToSet(EnumOf(name))
  ELSE {{0}, {WidthOf(type, name) - 1}, 0..(WidthOf(type, name) - 1)}

Least(type) ==
  [name \in FieldNames(type) |-> IF EnumOf(name) # <<>> THEN EnumOf(name)[1] ELSE {}]
Greatest(type) ==
  [name \in FieldNames(type) |->
     IF EnumOf(name) # <<>> THEN Last(EnumOf(name)) ELSE 0..(WidthOf(type, name) - 1)]

RangingOf(distance, rssi) == [raw_distance |-> {}, distance_m |-> distance, rssi |-> rssi]
DataOf(size, value, ranging) ==
  [rx_size |-> BitsOf(size), rssi_result |-> value, snr_result |-> value,
   radio_end_timestamp_ms |-> value, radio_start_timestamp_ms |-> value,
   ranging_result |-> ranging]

MCNativeResult == DataOf(9, {9}, RangingOf({9}, {4}))

ContextOf(Part(_), payload) ==
  [modulation_type |-> "LORA",
   radio_params |-> [Part("rac_radio_lora_params_pb_t") EXCEPT
                       !["rttof"] = Part("rttof_params_pb_t")],
   lbt_context |-> Part("smtc_rac_lbt_context_pb_t"),
   cw_context |-> Part("smtc_rac_cw_context_pb_t"),
   cad_context |-> Part("smtc_rac_cad_context_pb_t"),
   tx_payload_buffer |-> payload,
   smtc_rac_data_result |-> MCNativeResult,
   scheduler_config |-> Part("rac_scheduler_config_pb_t")]

MCNative == ContextOf(Least, [i \in 1..255 |-> {7}])

ContextWith(type, name, value) ==
  ContextOf(LAMBDA t : IF t = type THEN [Least(t) EXCEPT ![name] = value] ELSE Least(t),
            Bytes(2))

Parts == {"rac_radio_lora_params_pb_t", "rttof_params_pb_t", "smtc_rac_lbt_context_pb_t",
          "smtc_rac_cw_context_pb_t", "smtc_rac_cad_context_pb_t",
          "rac_scheduler_config_pb_t"}

MCContexts ==
  {ContextOf(Least, <<>>), ContextOf(Greatest, Bytes(255))}
  \cup UNION {UNION {{ContextWith(type, name, v) : v \in ValuesOf(type, name)} :
                     name \in FieldNames(type) \ {"rttof"}} : type \in Parts}

ResultsWith(data, has, status, code) ==
  [data |-> data, has_ranging |-> has, rx_buffer |-> Bytes(255), rp_status |-> status,
   return_code |-> code, transaction_status |-> {0}, radio_access_id |-> 0..31]

\* 300 m and -75 dBm; -1 m and 127 dBm; 0; 8388609 m and -128 dBm
MCResults ==
  {ResultsWith(DataOf(size, value, ranging), has, "RTTOF_EXCH_VALID", "SUCCESS") :
     size \in {0, 3, 255}, value \in {{}, {0}, {31}, 0..31}, has \in {{}, {0}},
     ranging \in {RangingOf({}, {}), RangingOf(BitsOf(300), Minus(BitsOf(75), 8)),
                  RangingOf(0..31, 0..6), RangingOf({0, 23}, {7})}}
  \cup {ResultsWith(DataOf(0, {}, RangingOf({}, {})), {}, status, "ERROR") :
          status \in ToSet(RpStatus)}
  \cup {ResultsWith(DataOf(0, {}, RangingOf({}, {})), {}, "TX_DONE", code) :
          code \in ToSet(ReturnCode)}

\* Another modulation, unknown enumerators, a payload of 256 bytes, a float
\* out of range, no submessages at all
RawRequest(path, v) == [type |-> Request,
                        sent |-> [Present(Defaults[Request]) EXCEPT ![path] = v]]
MCRaw ==
  {RawRequest(<<"rac_config", "modulation_type">>, v) : v \in {{0}, {1}, {2}}}
  \cup {RawRequest(<<"rac_config", "cad_context", name>>, {7}) :
          name \in {"cad_symb_nb", "cad_exit_mode", "sf"}}
  \cup {RawRequest(<<"rac_config", "smtc_rac_data_buffer_setup", "tx_payload_buffer">>,
                   Bytes(256)),
        [type |-> Request, sent |-> Defaults[Request]],
        [type |-> "rac_get_results_request_pb_t",
         sent |-> [p \in {<<"radio_access_id">>} |-> 0..31]],
        [type |-> Request,
         sent |-> [Present(Defaults[Request]) EXCEPT
           ![<<"rac_config", "smtc_rac_data_result", "ranging_result", "valid">>] = {0},
           ![<<"rac_config", "smtc_rac_data_result", "ranging_result", "distance_m">>]
             = 23..30]]}

MCDamaged(msg) ==
  \/ msg.kind = "context" /\ msg.native = ContextWith("smtc_rac_cad_context_pb_t",
                                                      "sf", "SF9")
  \/ msg.kind = "context" /\ msg.native = ContextWith("smtc_rac_lbt_context_pb_t",
                                                      "threshold_dbm", {15})
  \/ msg.kind = "results" /\ msg.native = ResultsWith(
       DataOf(3, {31}, RangingOf(0..31, 0..6)), {0}, "RTTOF_EXCH_VALID", "SUCCESS")

\* Field 20, of each wire type
MCUnknown ==
  {<<BitsOf(32) \cup {7}, {0}, {7}, {0}>>,
   <<BitsOf(33) \cup {7}, {0}, {}, {}, {}, {}, {}, {}, {}, {}>>,
   <<BitsOf(34) \cup {7}, {0}, {0}, {3}>>,
   <<BitsOf(37) \cup {7}, {0}, {}, {}, {}, {}>>}
=============================================================================
