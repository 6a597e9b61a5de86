------------------------------ MODULE ModemEvents ------------------------------
(* The LoRaWAN modem as the applications see it, and the callback that reads *)
(* its events: modem_event_callback() of smtc_modem_helper.c with the hook   *)
(* smtc_modem_helper_event() of the sample, or the sample's own callback.    *)
(* The modem is a library: it raises events, calls the callback in the       *)
(* thread that runs its engine, and forgets all but its settings at a reset. *)
EXTENDS Naturals

CONSTANTS Images,       \* the samples that may be running
          Raises        \* Raises[i]: the events the modem may raise under image i

Hooked      == { "periodical_uplink", "multiprotocol", "flrp_api_lorawan" }
OwnCallback == { "geolocation", "wifi_region_detection", "lctt_certif" }
Events == { "RESET", "ALARM", "JOINED", "JOINFAIL", "DOWNDATA", "NO_DOWNLINK_THRESHOLD", "FIRMWARE_MANAGEMENT",
            "GNSS_SCAN_DONE", "GNSS_TERMINATED", "WIFI_SCAN_DONE", "WIFI_TERMINATED" }

ASSUME ImagesAssumption ==
    /\ Images \subseteq Hooked \cup OwnCallback /\ Raises \in [Images -> SUBSET Events]
    /\ \A i \in Images : "RESET" \in Raises[i]

VARIABLES
    image,          \* the sample that was built
    joined,         \* "no", "joining" or "yes"
    alarm,          \* the alarm timer runs
    uplink,         \* an uplink is waiting to be sent
    scan,           \* the scans that are programmed
    pending,        \* the events raised and not read
    call_due,       \* the modem is about to call the callback
    handler,        \* where the callback is: "idle", "read", "hook" or "reboot"
    event,          \* current_event
    ads_state,      \* geolocation: the application's view of the almanac demodulation
    demod,          \* the almanac demodulation runs
    certif_running, \* lctt_certif: the application's view of the certification mode
    certif_mode,    \* the mode the modem has stored; it survives a reset
    press           \* how far the main thread is with a press of the button

network   == << joined, alarm, uplink, scan >>
queue     == << pending, call_due, handler, event >>
services  == << ads_state, demod, certif_running, certif_mode, press >>
modemVars == << image, network, queue, services >>

ModemTypeOK ==
    /\ image \in Images /\ joined \in { "no", "joining", "yes" }
    /\ { alarm, uplink, call_due, demod, certif_running, certif_mode } \subseteq BOOLEAN
    /\ scan \subseteq { "gnss", "wifi" } /\ pending \subseteq Raises[image]
    /\ handler \in { "idle", "read", "hook", "reboot" } /\ event \in Events
    /\ ads_state \in { "INIT", "STARTED", "STOPPED" }
    /\ press \in { "idle", "decided", "stopping", "starting", "leaving" }

\* After a reset the modem raises RESET at the first run of its engine.
Reset(j, a, u, s, p, c, h, e, ads, d, r, b) ==
    /\ j = "no" /\ a = FALSE /\ u = FALSE /\ s = { }
    /\ p = { "RESET" } /\ c = TRUE /\ h = "idle" /\ e = "RESET"
    /\ ads = "INIT" /\ d = FALSE /\ r = FALSE /\ b = "idle"

ModemInit ==
    /\ image \in Images /\ certif_mode = FALSE
    /\ Reset(joined, alarm, uplink, scan, pending, call_due, handler, event, ads_state, demod, certif_running, press)

\* smtc_modem_hal_reset_mcu() in the callback, or the power fails.
ModemReboot ==
    /\ Reset(joined', alarm', uplink', scan', pending', call_due', handler', event',
             ads_state', demod', certif_running', press')
    /\ UNCHANGED << image, certif_mode >>

-------------------------------------------------------------------------------
(* The modem.                                                                *)

Raise(new) ==
    /\ handler = "idle" /\ new \subseteq Raises[image]
    /\ pending' = pending \cup new /\ call_due' = TRUE
    /\ UNCHANGED << image, handler, event, services >>

AlarmExpires ==
    /\ alarm /\ alarm' = FALSE
    /\ Raise({ "ALARM" })
    /\ UNCHANGED << joined, uplink, scan >>

JoinEnds ==
    /\ joined = "joining"
    /\ \/ joined' = "yes" /\ Raise({ "JOINED" })
       \/ joined' = "joining" /\ Raise({ "JOINFAIL" })
    /\ UNCHANGED << alarm, uplink, scan >>

\* A downlink, a count of uplinks without one, or a command of the firmware
\* management package.
NetworkEvent ==
    /\ joined = "yes"
    /\ \E e \in { "DOWNDATA", "NO_DOWNLINK_THRESHOLD", "FIRMWARE_MANAGEMENT" } : Raise({ e })
    /\ UNCHANGED network

ScanEnds ==
    /\ \E s \in scan :
          /\ scan' = scan \ { s }
          /\ Raise(IF s = "gnss" THEN { "GNSS_SCAN_DONE", "GNSS_TERMINATED" }
                                 ELSE { "WIFI_SCAN_DONE", "WIFI_TERMINATED" })
    /\ UNCHANGED << joined, alarm, uplink >>

UplinkSent ==
    /\ uplink /\ uplink' = FALSE
    /\ UNCHANGED << image, joined, alarm, scan, queue, services >>

Modem == AlarmExpires \/ JoinEnds \/ NetworkEvent \/ ScanEnds \/ UplinkSent

\* smtc_modem_request_uplink() and smtc_modem_request_empty_uplink(), refused
\* unless the device has joined.
RequestUplink == uplink' = (uplink \/ joined = "yes")

-------------------------------------------------------------------------------
(* The callback. It reads an event and serves it, until none is pending.     *)

\* lctt_certif has one thread, which is not serving a press when it calls.
CallCallback ==
    /\ handler = "idle" /\ call_due
    /\ image = "lctt_certif" => press = "idle"
    /\ call_due' = FALSE /\ handler' = "read"
    /\ UNCHANGED << image, network, pending, event, services >>

\* A network that has been silent for too long is left and joined again.
NetworkSilent(e) == e = "NO_DOWNLINK_THRESHOLD" /\ alarm' = FALSE /\ joined' = "joining"

\* What smtc_modem_helper.c does itself: credentials, region and join at a
\* reset; a new join when the network is silent, and nothing when it is heard
\* again; a reset when the package asks for one.
HelperSwitch(e) ==
    /\ \/ e = "RESET" /\ joined' = "joining" /\ UNCHANGED alarm
       \/ NetworkSilent(e)
       \/ e # "RESET" /\ UNCHANGED << joined, alarm >>
    /\ \/ e = "FIRMWARE_MANAGEMENT" /\ handler' = "reboot"
       \/ handler' = "hook"
    /\ UNCHANGED << uplink, scan, services >>

\* The geolocation sample. Nothing is started when the firmware of the
\* transceiver is too old; a scan that ends is programmed again; the almanac
\* is demodulated once a scan has found the time, unless the button decided.
GeolocationSwitch(e) ==
    /\ \/ e = "RESET" /\ joined' = "joining" /\ scan' = { "gnss", "wifi" }
       \/ UNCHANGED joined
          /\ scan' = scan \cup (IF e = "GNSS_TERMINATED" THEN { "gnss" }
                              ELSE IF e = "WIFI_TERMINATED" THEN { "wifi" } ELSE { })
    /\ alarm' = (alarm \/ e \in { "ALARM", "JOINED" })
    /\ IF e = "ALARM" THEN RequestUplink ELSE UNCHANGED uplink
    /\ \/ e = "GNSS_SCAN_DONE" /\ ads_state = "INIT"
          /\ ads_state' = "STARTED" /\ demod' = TRUE
       \/ UNCHANGED << ads_state, demod >>
    /\ handler' = "hook"
    /\ UNCHANGED << certif_running, certif_mode, press >>

\* The wifi_region_detection sample never joins.
WifiRegionSwitch(e) ==
    /\ scan' \in IF e = "WIFI_TERMINATED" THEN { { "wifi" } }
                 ELSE IF e = "RESET" THEN { { "wifi" }, { } } ELSE { scan }
    /\ handler' = "hook"
    /\ UNCHANGED << joined, alarm, uplink, services >>

\* The certification sample: the mode is read back at a reset, and while it
\* is on the application neither joins nor sends by itself.
CertifSwitch(e) ==
    /\ certif_running' = IF e = "RESET" THEN certif_mode ELSE certif_running
    /\ joined' = IF e = "RESET" /\ ~certif_mode THEN "joining" ELSE joined
    /\ alarm' = IF e = "ALARM" THEN ~certif_running
                ELSE alarm \/ (e = "JOINED" /\ ~certif_running)
    /\ IF e = "ALARM" /\ ~certif_running THEN RequestUplink ELSE UNCHANGED uplink
    /\ \/ e = "FIRMWARE_MANAGEMENT" /\ handler' = "reboot"
       \/ handler' = "hook"
    /\ UNCHANGED << scan, ads_state, demod, certif_mode, press >>

ReadEvent ==
    /\ handler = "read"
    /\ \E e \in pending :
          /\ event' = e /\ pending' = pending \ { e }
          /\ \/ image \in Hooked /\ HelperSwitch(e)
             \/ image = "geolocation" /\ GeolocationSwitch(e)
             \/ image = "wifi_region_detection" /\ WifiRegionSwitch(e)
             \/ image = "lctt_certif" /\ CertifSwitch(e)
    /\ UNCHANGED << image, call_due >>

\* The loop goes on while event_pending_count is not zero.
NextEvent == handler' = IF pending = { } THEN "idle" ELSE "read"

\* Mutant: the alarm is set when the device joins and never again.
PeriodicHookOnce ==
    IF event = "JOINED" THEN RequestUplink /\ alarm' = TRUE
    ELSE IF event = "ALARM" THEN RequestUplink /\ UNCHANGED alarm
    ELSE UNCHANGED << alarm, uplink >>

\* periodical_uplink: an uplink and a new alarm, at once and at each alarm.
PeriodicHook ==
    IF event \in { "ALARM", "JOINED" } THEN RequestUplink /\ alarm' = TRUE ELSE UNCHANGED << alarm, uplink >>

\* multiprotocol and flrp_api_lorawan: the first uplink waits for the alarm.
KeepAliveHook ==
    IF event = "ALARM" THEN RequestUplink /\ alarm' = TRUE
    ELSE IF event = "JOINED" THEN alarm' = TRUE /\ UNCHANGED uplink
    ELSE UNCHANGED << alarm, uplink >>

\* smtc_modem_helper_event(), in the samples that have one.
Hook ==
    /\ handler = "hook"
    /\ \/ image = "periodical_uplink" /\ PeriodicHook
       \/ image \in Hooked \ { "periodical_uplink" } /\ KeepAliveHook
       \/ image \in OwnCallback /\ UNCHANGED << alarm, uplink >>
    /\ NextEvent
    /\ UNCHANGED << image, joined, scan, pending, call_due, event, services >>

Callback == CallCallback \/ ReadEvent

-------------------------------------------------------------------------------
(* The main thread of the geolocation sample, on a press of the button. With *)
(* a USP thread the callback may run between any two of these steps: the     *)
(* state is read and written before SMTC_SW_PLATFORM takes the lock.         *)

WantsStop == ads_state = "STARTED"

ButtonToggles ==
    /\ image = "geolocation" /\ press = "idle"
    /\ press' = IF WantsStop THEN "stopping" ELSE "decided"
    /\ ads_state' = IF WantsStop THEN "STOPPED" ELSE ads_state
    /\ UNCHANGED << image, network, queue, demod, certif_running, certif_mode >>

StartDecided ==
    /\ press = "decided" /\ press' = "starting" /\ ads_state' = "STARTED"
    /\ UNCHANGED << image, network, queue, demod, certif_running, certif_mode >>

ToggleService ==
    /\ press \in { "starting", "stopping" } /\ handler = "idle"
    /\ demod' = (press = "starting") /\ press' = "idle"
    /\ UNCHANGED << image, network, queue, ads_state, certif_running, certif_mode >>

(* The main thread of the certification sample: main_handle_push_button().   *)

\* The modem stores the new mode first; a reset may come before the rest.
StoreMode ==
    /\ image = "lctt_certif" /\ press = "idle" /\ handler = "idle"
    /\ certif_mode' = ~certif_running
    /\ press' = IF certif_running THEN "leaving" ELSE "idle"
    /\ certif_running' = TRUE
    /\ UNCHANGED << image, network, queue, ads_state, demod >>

LeaveAndJoin ==
    /\ press = "leaving" /\ press' = "idle"
    /\ joined' = "joining" /\ certif_running' = FALSE
    /\ UNCHANGED << image, alarm, uplink, scan, queue, ads_state, demod, certif_mode >>

Press == ButtonToggles \/ StartDecided \/ ToggleService \/ StoreMode \/ LeaveAndJoin

-------------------------------------------------------------------------------
(* What the callbacks keep going.                                            *)

Being(e) == e \in pending \/ (handler = "hook" /\ event = e)

\* A joined device has its alarm running, or an event that will start it.
AlarmKept ==
    image # "wifi_region_detection" /\ joined = "yes" /\ ~certif_running =>
        alarm \/ Being("ALARM") \/ Being("JOINED")

\* A scan that was programmed is running, or its end is about to be read.
ScansKept ==
    image = "geolocation" /\ joined # "no" =>
        /\ "gnss" \in scan \/ "GNSS_TERMINATED" \in pending
        /\ "wifi" \in scan \/ "WIFI_TERMINATED" \in pending

\* The service runs exactly when the application thinks it does.
AlmanacKept == image = "geolocation" /\ press = "idle" => (demod <=> ads_state = "STARTED")

\* So does the certification mode, once the application has read it back.
CertifKept ==
    image = "lctt_certif" /\ press = "idle" /\ "RESET" \notin pending => certif_running = certif_mode

\* However events, presses and resets interleave, no chain of callbacks that
\* keeps itself going breaks (alarm to uplink to alarm, scan to event to
\* scan), and the application's view of a service of the modem is the modem's.
ServicesKept == AlarmKept /\ ScansKept /\ AlmanacKept /\ CertifKept
===============================================================================
