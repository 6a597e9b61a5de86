---------------------------------- MODULE Flrp ----------------------------------
(* The FLRP application: flrp_api.c, which hands one buffer to the library   *)
(* for listening, transmission and reception, and its three users: the main  *)
(* loop (the button), the shell (flrp_api_menu.c) and the network            *)
(* (flrp_remote.c, in the thread of the modem's engine). The shell runs when *)
(* nothing else does; the engine's thread interrupts the main thread. Keys,  *)
(* addresses and the packet counter are left out.                            *)
EXTENDS EventLoop

CONSTANTS Options       \* the values of crypto_enabled and is_low_frequency

DefaultOptions == "default"

ASSUME OptionsAssumption == DefaultOptions \in Options

VARIABLES
    is_device_eui_set,          \* as in flrp_api_menu.c
    flrp_api_menu_listening,
    options,                    \* flrp_api_menu_crypto_enabled, flrp_api_menu_is_low_frequency
    data_flrp,                  \* what the buffer holds: "zero", "filled" or "received"
    sending,                    \* the main thread has filled it and not yet sent it
    lib                         \* the library: initialised, its transfer, listening, its options

menu     == << is_device_eui_set, flrp_api_menu_listening, options >>
flrpVars == << menu, data_flrp, sending, lib >>

FlrpImage == image = "flrp_api_lorawan"
Idle      == shell = << "idle" >>

FlrpTypeOK ==
    /\ { is_device_eui_set, flrp_api_menu_listening, sending } \subseteq BOOLEAN /\ options \in Options
    /\ data_flrp \in { "zero", "filled", "received" }
    /\ lib \in [init : BOOLEAN, busy : { "no", "tx", "rx" }, listening : BOOLEAN, options : Options]

\* Either build: with CONFIG_FLRP_TEST_APPLY_DEFAULT_CONFIG the application is
\* initialised, listening, before the loop starts.
FlrpReset(set, listening, opt, data, send, l) ==
    /\ opt = DefaultOptions /\ send = FALSE
    /\ \/ set = FALSE /\ listening = FALSE /\ data = "zero"
          /\ l = [init |-> FALSE, busy |-> "no", listening |-> FALSE, options |-> DefaultOptions]
       \/ FlrpImage /\ set = TRUE /\ listening = TRUE /\ data = "filled"
          /\ l = [init |-> TRUE, busy |-> "no", listening |-> TRUE, options |-> DefaultOptions]

-------------------------------------------------------------------------------
(* The library. It refuses to be initialised and to start a transfer while   *)
(* one runs. A transfer may end at once, in failure.                         *)

Free == lib.init /\ lib.busy = "no"

\* A packet is received into the buffer it was given to listen.
RxStarts ==
    /\ FlrpImage /\ Free /\ lib.listening /\ handler = "idle"
    /\ lib' = [lib EXCEPT !.busy = "rx"] /\ data_flrp' = "received"
    /\ UNCHANGED << modemVars, loopVars, console, menu, sending >>

\* flrp_api_setup_tx_buffer
SetupTxBuffer == data_flrp' = "filled"

\* Mutant: the buffer is left as it was received.
UserRxCallbackKept ==
    /\ lib.busy = "rx" /\ handler = "idle"
    /\ lib' = [lib EXCEPT !.busy = "no"]
    /\ UNCHANGED << data_flrp, modemVars, loopVars, console, menu, sending >>

UserRxCallback ==
    /\ lib.busy = "rx" /\ handler = "idle"
    /\ lib' = [lib EXCEPT !.busy = "no"] /\ SetupTxBuffer
    /\ UNCHANGED << modemVars, loopVars, console, menu, sending >>

UserTxCallback ==
    /\ lib.busy = "tx" /\ handler = "idle"
    /\ lib' = [lib EXCEPT !.busy = "no"] /\ SetupTxBuffer
    /\ UNCHANGED << modemVars, loopVars, console, menu, sending >>

Library == RxStarts \/ UserRxCallback \/ UserTxCallback

-------------------------------------------------------------------------------
(* flrp_api.c. Each operator says what lib and data_flrp become.             *)

\* smtc_flrp_initiate_transmission, smtc_flrp_initiate_reception
Initiate(what) == lib' = IF Free THEN [lib EXCEPT !.busy = what] ELSE lib

\* The buffer is filled even when the library refuses.
ApiInit(opt, listening, accepted) ==
    /\ accepted => lib.busy = "no"
    /\ lib' = IF accepted THEN [init |-> TRUE, busy |-> "no", listening |-> listening, options |-> opt]
              ELSE [lib EXCEPT !.listening = @ \/ (listening /\ lib.init)]
    /\ data_flrp' = IF listening THEN "filled" ELSE data_flrp

SetListening(on) == lib' = [lib EXCEPT !.listening = IF lib.init THEN on ELSE @]

-------------------------------------------------------------------------------
(* The main loop.                                                            *)

FlrpButton ==
    /\ FlrpImage /\ SetEvent("BUTTON")
    /\ UNCHANGED << modemVars, console, flrpVars >>

\* flrp_api_initiate_tx: the buffer, then the library.
ServeButton ==
    /\ FlrpImage /\ Turn("BUTTON") /\ ~sending
    /\ sending' = TRUE /\ SetupTxBuffer
    /\ UNCHANGED << modemVars, loopVars, console, menu, lib >>

SendFilled ==
    /\ Turn("BUTTON") /\ sending /\ sending' = FALSE
    /\ Initiate("tx") /\ Done("BUTTON")
    /\ UNCHANGED << modemVars, console, menu, data_flrp >>

\* flrp_remote_send_keep_alive
SendKeepAlive ==
    /\ FlrpImage /\ Turn("KEEPALIVE") /\ Done("KEEPALIVE")
    /\ RequestUplink
    /\ UNCHANGED << image, joined, alarm, scan, queue, services, console, flrpVars >>

FlrpMain == ServeButton \/ SendFilled \/ SendKeepAlive

-------------------------------------------------------------------------------
(* The shell. A command that waits, or that the engine's thread may         *)
(* interrupt between its test and its effect, takes two steps.               *)

Command == FlrpImage /\ Idle /\ ~sending

CmdKeepalive ==
    /\ Command /\ SetEvent("KEEPALIVE")
    /\ UNCHANGED << modemVars, console, flrpVars >>

\* The addresses are well formed.
CmdSetDeviceEui ==
    /\ Command /\ ~is_device_eui_set
    /\ shell' = << "device_eui" >>
    /\ UNCHANGED << modemVars, loopVars, flrpVars >>

\* It does not look at what flrp_api_init returns.
DeviceEuiInit ==
    /\ shell = << "device_eui" >> /\ ~sending /\ shell' = << "idle" >>
    /\ is_device_eui_set' = TRUE /\ flrp_api_menu_listening' = TRUE
    /\ ApiInit(options, TRUE, lib.busy = "no")
    /\ UNCHANGED << modemVars, loopVars, options, sending >>

\* cmd_set_crypto_enabled, cmd_set_low_frequency
CmdSetOptions ==
    /\ Command /\ ~is_device_eui_set
    /\ \E opt \in Options : shell' = << "options", opt >>
    /\ UNCHANGED << modemVars, loopVars, flrpVars >>

WriteOptions ==
    /\ shell[1] = "options" /\ ~sending /\ shell' = << "idle" >>
    /\ options' = shell[2]
    /\ UNCHANGED << modemVars, loopVars, is_device_eui_set, flrp_api_menu_listening, data_flrp, sending, lib >>

CmdLaunchTx ==
    /\ Command /\ is_device_eui_set
    /\ shell' = << "tx" >> /\ SetupTxBuffer
    /\ UNCHANGED << modemVars, loopVars, menu, sending, lib >>

CmdLaunchRx ==
    /\ Command /\ is_device_eui_set
    /\ shell' = << "rx" >> /\ data_flrp' = "zero"
    /\ UNCHANGED << modemVars, loopVars, menu, sending, lib >>

Launch ==
    /\ shell[1] \in { "tx", "rx" } /\ ~sending /\ shell' = << "idle" >>
    /\ Initiate(shell[1])
    /\ UNCHANGED << modemVars, loopVars, menu, data_flrp, sending >>

\* flrp_api_set_burst_target_per stops listening, sleeps, sets the radio's new
\* configuration, and starts again if the menu was listening when it began.
CmdSetPer ==
    /\ Command /\ is_device_eui_set
    /\ shell' = << "per", flrp_api_menu_listening >> /\ SetListening(FALSE)
    /\ UNCHANGED << modemVars, loopVars, menu, data_flrp, sending >>

RestartListening ==
    /\ shell[1] = "per" /\ ~sending /\ shell' = << "idle" >>
    /\ IF shell[2] THEN SetListening(TRUE) ELSE UNCHANGED lib
    /\ UNCHANGED << modemVars, loopVars, menu, data_flrp, sending >>

\* These two do not look at is_device_eui_set; the library does.
CmdListening ==
    /\ Command /\ lib.init
    /\ \E on \in BOOLEAN : SetListening(on) /\ flrp_api_menu_listening' = on
    /\ UNCHANGED << modemVars, loopVars, console, is_device_eui_set, options, data_flrp, sending >>

FlrpShell == \/ FlrpButton \/ CmdKeepalive \/ CmdSetDeviceEui \/ DeviceEuiInit \/ CmdSetOptions \/ WriteOptions
             \/ CmdLaunchTx \/ CmdLaunchRx \/ Launch \/ CmdSetPer \/ RestartListening \/ CmdListening

-------------------------------------------------------------------------------
(* The network: flrp_remote_handle_downlink, in the hook for DOWNDATA.       *)

FlrpDownlink == FlrpImage /\ handler = "hook" /\ event = "DOWNDATA"

\* Another port, an unknown command or a wrong size.
RemoteIgnored ==
    /\ NextEvent /\ UNCHANGED flrpVars

RemoteReset ==
    /\ handler' = "reboot" /\ UNCHANGED flrpVars

\* flrp_api_menu_init. is_device_eui_set is whether flrp_api_init succeeded,
\* and the key may be refused after the library is initialised.
RemoteInit ==
    /\ \E opt \in Options, listening \in BOOLEAN, keyed \in BOOLEAN :
          /\ options' = opt /\ flrp_api_menu_listening' = listening
          /\ is_device_eui_set' = (lib.busy = "no" /\ keyed)
          /\ ApiInit(opt, listening, lib.busy = "no")
    /\ NextEvent /\ UNCHANGED sending

\* flrp_api_menu_initiate_transfer
RemoteTransfer ==
    /\ is_device_eui_set
    /\ \/ Initiate("tx") /\ SetupTxBuffer
       \/ Initiate("rx") /\ data_flrp' = "zero"
    /\ NextEvent /\ UNCHANGED << menu, sending >>

\* flrp_api_menu_start_listening, flrp_api_menu_stop_listening
RemoteListening ==
    /\ is_device_eui_set
    /\ \E on \in BOOLEAN : SetListening(on) /\ flrp_api_menu_listening' = on
    /\ NextEvent /\ UNCHANGED << is_device_eui_set, options, data_flrp, sending >>

HandleDownlink ==
    /\ FlrpDownlink
    /\ RemoteIgnored \/ RemoteReset \/ RemoteInit \/ RemoteTransfer \/ RemoteListening
    /\ UNCHANGED << image, network, pending, call_due, event, services, loopVars, shell >>

-------------------------------------------------------------------------------
\* The library starts a transmission only from a buffer that was filled for
\* it. What a command does to the buffer of a transmission that runs is not
\* in it: flrp_api_initiate_rx() erases it even when the library refuses.
FilledWhenSent == lib.busy # "tx" /\ lib'.busy = "tx" => data_flrp' = "filled"
===============================================================================
