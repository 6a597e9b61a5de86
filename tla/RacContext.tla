----------------------------- MODULE RacContext -----------------------------
(***************************************************************************)
(* The conversions between the messages of PbMessages and the structures   *)
(* of the radio access controller (rac_context_converter.c).               *)
(*                                                                         *)
(* A structure is the function of the names of its fields, native or not;  *)
(* the native one of an enumerated field is the name of the enumerator.    *)
(* A field that the code copies without a cast keeps its width.            *)
(***************************************************************************)
EXTENDS PbMessages

\* The fields of the structure at a path of a message, and back
At(m, prefix) ==
  [name \in {Last(p) : p \in {q \in DOMAIN m : q # <<>> /\ Front(q) = prefix}} |->
     m[Append(prefix, name)]]

Place(m, prefix, struct) ==
  [p \in DOMAIN m |->
     IF p # <<>> /\ Front(p) = prefix /\ Last(p) \in DOMAIN struct
     THEN struct[Last(p)] ELSE m[p]]

(***************************************************************************)
(* Enumerations: the native names in the order of the messages' values,    *)
(* which count from 0.  An unknown one becomes the default of its switch.  *)
(***************************************************************************)
FromPb(names, default, v) ==
  IF Number(v) < Len(names) THEN names[Number(v) + 1] ELSE default
ToPb(names, default, name) ==
  LET n == IF name \in ToSet(names) THEN name ELSE default
  IN  BitsOf((CHOOSE i \in DOMAIN names : names[i] = n) - 1)

Modulation == <<"LORA", "FSK", "LRFHSS", "FLRC">>
Scheduling == <<"SCHEDULED", "ASAP">>
ReturnCode == <<"SUCCESS", "ERROR", "BUSY", "TIMEOUT", "INVALID_PARAMETER",
                "NOT_SUPPORTED", "NOT_INITIALIZED", "NOT_IMPLEMENTED">>
LoraSf == <<"SF5", "SF6", "SF7", "SF8", "SF9", "SF10", "SF11", "SF12">>
LoraBw == <<"BW_007", "BW_010", "BW_015", "BW_020", "BW_031", "BW_041", "BW_062",
            "BW_125", "BW_200", "BW_250", "BW_400", "BW_500", "BW_800", "BW_1000",
            "BW_1600">>
LoraCr == <<"CR_4_5", "CR_4_6", "CR_4_7", "CR_4_8", "CR_LI_4_5", "CR_LI_4_6",
            "CR_LI_4_8">>
HeaderType == <<"EXPLICIT", "IMPLICIT">>
Syncword == <<"PRIVATE", "PUBLIC">>
CadSymbs == <<"01_SYMB", "02_SYMB", "04_SYMB", "08_SYMB", "16_SYMB">>
CadExitMode == <<"CAD_ONLY", "CAD_RX", "CAD_LBT">>
RpStatus == <<"RX_CRC_ERROR", "CAD_POSITIVE", "CAD_NEGATIVE", "TX_DONE", "RX_PACKET",
              "RX_TIMEOUT", "LBT_FREE_CHANNEL", "LBT_BUSY_CHANNEL", "WIFI_SCAN_DONE",
              "GNSS_SCAN_DONE", "TASK_ABORTED", "TASK_INIT", "LR_FHSS_HOP",
              "RTTOF_REQ_DISCARDED", "RTTOF_RESP_DONE", "RTTOF_EXCH_VALID",
              "RTTOF_TIMEOUT">>

rac_convert_modulation_type_from_pb(v) == FromPb(Modulation, "LORA", v)
rac_convert_modulation_type_to_pb(n) == ToPb(Modulation, "LORA", n)
rac_convert_scheduling_from_pb(v) == FromPb(Scheduling, "ASAP", v)
rac_convert_scheduling_to_pb(n) == ToPb(Scheduling, "ASAP", n)
rac_convert_return_code_from_pb(v) == FromPb(ReturnCode, "ERROR", v)
rac_convert_return_code_to_pb(n) == ToPb(ReturnCode, "ERROR", n)
convert_pb_sf_to_native(v) == FromPb(LoraSf, "SF7", v)
convert_native_sf_to_pb(n) == ToPb(LoraSf, "SF7", n)
convert_pb_bw_to_native(v) == FromPb(LoraBw, "BW_125", v)
convert_native_bw_to_pb(n) == ToPb(LoraBw, "BW_125", n)
convert_pb_cr_to_native(v) == FromPb(LoraCr, "CR_4_5", v)
convert_native_cr_to_pb(n) == ToPb(LoraCr, "CR_4_5", n)
convert_pb_header_type_to_native(v) == FromPb(HeaderType, "EXPLICIT", v)
convert_native_header_type_to_pb(n) == ToPb(HeaderType, "EXPLICIT", n)
convert_pb_sync_word_to_native(v) == FromPb(Syncword, "PRIVATE", v)
convert_native_sync_word_to_pb(n) == ToPb(Syncword, "PRIVATE", n)
convert_native_rp_status_to_pb(n) == ToPb(RpStatus, "TASK_INIT", n)

(***************************************************************************)
(* Parts of a context                                                      *)
(***************************************************************************)
Changed(struct, changes) ==
  [name \in DOMAIN struct |-> IF name \in DOMAIN changes THEN changes[name] ELSE struct[name]]

rac_convert_rttof_from_pb(pb) ==
  Changed(pb, [bw_ranging |-> convert_pb_bw_to_native(pb["bw_ranging"])])
rac_convert_rttof_to_pb(native) ==
  Changed(native, [bw_ranging |-> convert_native_bw_to_pb(native["bw_ranging"])])

\* Power and number of symbols are bytes
rac_convert_radio_params_from_pb(pb, rttof) ==
  Changed(pb, [tx_power_in_dbm |-> Cast(pb["tx_power_in_dbm"], 8),
               symb_nb_timeout |-> Cast(pb["symb_nb_timeout"], 8),
               rttof |-> rac_convert_rttof_from_pb(rttof),
               sf |-> convert_pb_sf_to_native(pb["sf"]),
               bw |-> convert_pb_bw_to_native(pb["bw"]),
               cr |-> convert_pb_cr_to_native(pb["cr"]),
               header_type |-> convert_pb_header_type_to_native(pb["header_type"]),
               sync_word |-> convert_pb_sync_word_to_native(pb["sync_word"])])

\* The value at rttof is its has_ flag
rac_convert_radio_params_to_pb(native) ==
  Changed(native, [rttof |-> {0},
                   sf |-> convert_native_sf_to_pb(native["sf"]),
                   bw |-> convert_native_bw_to_pb(native["bw"]),
                   cr |-> convert_native_cr_to_pb(native["cr"]),
                   header_type |-> convert_native_header_type_to_pb(native["header_type"]),
                   sync_word |-> convert_native_sync_word_to_pb(native["sync_word"])])

rac_convert_scheduler_config_from_pb(pb) ==
  Changed(pb, [scheduling |-> rac_convert_scheduling_from_pb(pb["scheduling"])])
rac_convert_scheduler_config_to_pb(native) ==
  Changed(native, [scheduling |-> rac_convert_scheduling_to_pb(native["scheduling"])])

Extend16(v) == IF 15 \in v THEN v \cup (16..31) ELSE v
rac_convert_lbt_context_from_pb(pb) ==
  Changed(pb, [threshold_dbm |-> Cast(pb["threshold_dbm"], 16),
               rssi_inst_dbm |-> Cast(pb["rssi_inst_dbm"], 16)])
rac_convert_lbt_context_to_pb(native) ==
  Changed(native, [threshold_dbm |-> Extend16(native["threshold_dbm"]),
                   rssi_inst_dbm |-> Extend16(native["rssi_inst_dbm"])])

rac_convert_cw_context_from_pb(pb) == pb
rac_convert_cw_context_to_pb(native) == native

\* Mutant: the bandwidth forgotten in one direction
rac_convert_cad_context_to_pbNoBw(native, pb) ==
  [pb EXCEPT !["cad_timeout_in_ms"] = native["cad_timeout_in_ms"],
             !["cad_exit_mode"] = ToPb(CadExitMode, "CAD_ONLY", native["cad_exit_mode"]),
             !["cad_symb_nb"] = ToPb(CadSymbs, "01_SYMB", native["cad_symb_nb"]),
             !["sf"] = convert_native_sf_to_pb(native["sf"]),
             !["rf_freq_in_hz"] = native["rf_freq_in_hz"],
             !["invert_iq_is_on"] = native["invert_iq_is_on"]]

\* cad_enabled is not converted.  The fields are converted in order, and one
\* out of its enumeration ends the conversion there.
rac_convert_cad_context_from_pb(pb, native) ==
  LET timed == [native EXCEPT !["cad_timeout_in_ms"] = pb["cad_timeout_in_ms"]]
      exit == FromPb(CadExitMode, "unknown", pb["cad_exit_mode"])
      exited == [timed EXCEPT !["cad_exit_mode"] = exit]
      symb == FromPb(CadSymbs, "unknown", pb["cad_symb_nb"])
  IN  IF exit = "unknown" THEN [ok |-> FALSE, val |-> timed]
      ELSE IF symb = "unknown" THEN [ok |-> FALSE, val |-> exited]
      ELSE [ok |-> TRUE,
            val |-> [exited EXCEPT
                       !["cad_symb_nb"] = symb,
                       !["sf"] = convert_pb_sf_to_native(pb["sf"]),
                       !["bw"] = convert_pb_bw_to_native(pb["bw"]),
                       !["rf_freq_in_hz"] = pb["rf_freq_in_hz"],
                       !["invert_iq_is_on"] = pb["invert_iq_is_on"]]]

rac_convert_cad_context_to_pb(native, pb) ==
  [pb EXCEPT !["cad_timeout_in_ms"] = native["cad_timeout_in_ms"],
             !["cad_exit_mode"] = ToPb(CadExitMode, "CAD_ONLY", native["cad_exit_mode"]),
             !["cad_symb_nb"] = ToPb(CadSymbs, "01_SYMB", native["cad_symb_nb"]),
             !["sf"] = convert_native_sf_to_pb(native["sf"]),
             !["bw"] = convert_native_bw_to_pb(native["bw"]),
             !["rf_freq_in_hz"] = native["rf_freq_in_hz"],
             !["invert_iq_is_on"] = native["invert_iq_is_on"]]

\* Mutant: the decoder is trusted to have checked the length
rac_convert_data_buffer_setup_from_pbTrusting(pb, payload) ==
  [ok |-> TRUE,
   val |-> pb["tx_payload_buffer"] \o Drop(payload, Len(pb["tx_payload_buffer"]))]

\* An empty payload leaves the buffer alone
rac_convert_data_buffer_setup_from_pb(pb, payload) ==
  LET sent == pb["tx_payload_buffer"]
  IN  IF Len(sent) > 255 THEN [ok |-> FALSE, val |-> payload]
      ELSE [ok |-> TRUE, val |-> sent \o Drop(payload, Len(sent))]

(***************************************************************************)
(* Results                                                                 *)
(***************************************************************************)
Magnitude(i, w) == IF (w - 1) \in i THEN Minus(i, w) ELSE i

\* The float of an integer of w bits, exact up to 24 significant bits
FloatOf(i, w) ==
  LET mag == Magnitude(i, w)
      e == Max(mag)
  IN  IF i = {} THEN {}
      ELSE {b + 23 - e : b \in {x \in mag : x < e /\ x + 23 >= e}}
           \cup {b + 23 : b \in BitsOf(e + 127)}
           \cup IF (w - 1) \in i THEN {31} ELSE {}

\* The integers of w bits a cast of a float can give: its integral part, or
\* when it does not fit any of what the processors do.  Of the numbers of w
\* bits, the least is the only one with as large a magnitude.
IntsOf(f, w) ==
  LET e == Number(Cast(Shr(f, 23), 8)) - 127
      mag == {b + e - 23 : b \in {x \in Cast(f, 23) \cup {23} : x + e >= 23}}
  IN  IF e < 0 THEN {{}}
      ELSE IF e >= w - 1 /\ ~(31 \in f /\ mag = {w - 1}) THEN {{}, 0..(w - 2), {w - 1}}
      ELSE {IF 31 \in f THEN Minus(mag, w) ELSE mag}

\* The payload is left empty; the has_ flag of the ranging result is left as
\* it is
rac_convert_data_result_to_pb(native, pb) ==
  [name \in DOMAIN pb |->
     CASE name = "ranging_result" -> pb[name]
       [] name = "rx_payload_buffer" -> <<>>
       [] OTHER -> native[name]]
ranging_result_to_pb(ranging) ==
  [valid |-> {0}, distance_m |-> FloatOf(ranging.distance_m, 32),
   rssi |-> FloatOf(ranging.rssi, 8), timestamp |-> {}]

\* rx_buffer is what has been received, rx_size the size announced
rac_copy_rx_payload_to_result(rx_buffer, rx_size, pb) ==
  IF Number(rx_size) > 255 THEN [ok |-> FALSE, val |-> pb]
  ELSE [ok |-> TRUE,
        val |-> [pb EXCEPT !["rx_payload_buffer"] = SubSeq(rx_buffer, 1, Number(rx_size))]]

\* The outcomes are several when a float is out of the range of its integer
rac_convert_data_result_from_pb(pb, ranging, native) ==
  LET copied == [name \in DOMAIN native |->
                   IF name = "ranging_result" THEN native[name] ELSE pb[name]]
  IN  IF ranging["valid"] = {} THEN {copied}
      ELSE {[copied EXCEPT !["ranging_result"] =
               [raw_distance |-> {}, distance_m |-> d, rssi |-> r]] :
            d \in IntsOf(ranging["distance_m"], 32), r \in IntsOf(ranging["rssi"], 8)}

(***************************************************************************)
(* A whole context, into the native one of a transaction.  pb is the path  *)
(* of the context in message m.  The has_ flags are not looked at.         *)
(***************************************************************************)
rac_convert_context_from_pb(m, pb, native) ==
  LET Part(name) == At(m, Append(pb, name))
      params == Append(pb, "radio_params")
      converted ==
        [native EXCEPT
           !.modulation_type = rac_convert_modulation_type_from_pb(
                                 m[Append(pb, "modulation_type")]),
           !.radio_params = rac_convert_radio_params_from_pb(
                              At(m, params), At(m, Append(params, "rttof"))),
           !.lbt_context = rac_convert_lbt_context_from_pb(Part("lbt_context")),
           !.cw_context = rac_convert_cw_context_from_pb(Part("cw_context"))]
      cad == rac_convert_cad_context_from_pb(Part("cad_context"), native.cad_context)
      payload == rac_convert_data_buffer_setup_from_pb(
                   Part("smtc_rac_data_buffer_setup"), native.tx_payload_buffer)
      results == rac_convert_data_result_from_pb(
                   Part("smtc_rac_data_result"),
                   At(m, pb \o <<"smtc_rac_data_result", "ranging_result">>),
                   native.smtc_rac_data_result)
      half == [converted EXCEPT !.cad_context = cad.val]
  IN  IF m[Append(pb, "modulation_type")] # ToPb(Modulation, "LORA", "LORA")
      THEN {[ok |-> FALSE, val |-> native]}
      ELSE IF ~cad.ok \/ ~payload.ok
      THEN {[ok |-> FALSE, val |-> half]}
      ELSE {[ok |-> TRUE,
             val |-> [half EXCEPT
                        !.tx_payload_buffer = payload.val,
                        !.smtc_rac_data_result = r,
                        !.scheduler_config = rac_convert_scheduler_config_from_pb(
                                               Part("scheduler_config"))]] :
            r \in results}
=============================================================================
