------------------------------ MODULE LorawanApps ------------------------------
(* The samples with a LoRaWAN modem: the modem and its callback, composed    *)
(* with the application that was built. A reset restarts all of it.          *)
EXTENDS Multiprotocol, Flrp

vars == << modemVars, loopVars, console, multiprotocolVars, flrpVars >>

TypeOK == ModemTypeOK /\ LoopTypeOK /\ MultiTypeOK /\ FlrpTypeOK

Init ==
    /\ ModemInit
    /\ LoopReset(events, snapshot, todo, loop, shell, unserved)
    /\ MultiReset(is_mode_set, is_manager, rac_priority, ranging_params, exchange)
    /\ FlrpReset(is_device_eui_set, flrp_api_menu_listening, options, data_flrp, sending, lib)

Reboot ==
    /\ ModemReboot
    /\ LoopReset(events', snapshot', todo', loop', shell', unserved')
    /\ MultiReset(is_mode_set', is_manager', rac_priority', ranging_params', exchange')
    /\ FlrpReset(is_device_eui_set', flrp_api_menu_listening', options', data_flrp', sending', lib')

\* The modem, its callback, and a press of the button in the samples whose
\* press is modelled with it: nothing else moves.
ModemStep ==
    /\ Modem \/ Callback \/ Press \/ (Hook /\ ~FlrpDownlink)
    /\ UNCHANGED << loopVars, console, multiprotocolVars, flrpVars >>

\* The two steps every main loop has.
LoopStep ==
    /\ Wait \/ (Clear /\ ~sending)
    /\ UNCHANGED << modemVars, console, multiprotocolVars, flrpVars >>

MultiprotocolStep == (MultiShell \/ MultiMain) /\ UNCHANGED flrpVars

FlrpStep == (Library \/ FlrpMain \/ FlrpShell \/ HandleDownlink) /\ UNCHANGED multiprotocolVars

Next == Reboot \/ ModemStep \/ LoopStep \/ MultiprotocolStep \/ FlrpStep

Spec == Init /\ [][Next]_vars

-------------------------------------------------------------------------------
\* No transmission starts from a buffer that was not filled for it
\* (flrp_api_initiate_tx and the two callbacks of the library).
TxStartsFilled == [][FilledWhenSent]_vars

-------------------------------------------------------------------------------
(* What the documentation says of these samples and the code does not keep.  *)
(* The specification violates each of the four.                              *)

\* No ranging test that was asked for is lost to the next request that is
\* raised (user_button_callback and the shell of multiprotocol). Does not hold:
\* k_event_set() replaces the bit that waits.
RequestsHeld == [][RaisesHold]_vars

\* None is lost when the loop clears what it has served (main). Does not hold:
\* a press between its service and k_event_clear() goes with the one served.
ClearsServedOnly == [][ClearHolds]_vars

\* Once the device is set, its options stay until a reset: FLRP is initialised
\* once after boot (cmd_set_device_eui, FLRP_REMOTE_CMD_ID_INIT). Does not
\* hold: the downlink does not look at is_device_eui_set.
SetOnce == [][is_device_eui_set => Reboot \/ lib'.options = lib.options]_vars

\* The command that sets the device starts FLRP with the options the menu holds
\* (cmd_set_device_eui). Does not hold: it ignores a refusal by the library.
StartedAsShown == [][DeviceEuiInit => lib'.options = options]_vars
===============================================================================
