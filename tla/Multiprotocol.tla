----------------------------- MODULE Multiprotocol -----------------------------
(* The multiprotocol sample: ranging exchanges between uplinks. Its shell    *)
(* runs while the main thread waits or is blocked inside a call.             *)
EXTENDS EventLoop

CONSTANTS Priorities    \* the ranging priorities the shell may choose from

VARIABLES
    is_mode_set, is_manager, rac_priority,  \* as in main.c
    ranging_params, \* what the ranging application was initialised with
    exchange        \* a ranging exchange runs

mode              == << is_manager, rac_priority >>
multiprotocolVars == << is_mode_set, mode, ranging_params, exchange >>

DefaultPriority == "LOW"

ASSUME PrioritiesAssumption == DefaultPriority \in Priorities

Multi == image = "multiprotocol"

MultiTypeOK ==
    /\ { is_mode_set, is_manager, exchange } \subseteq BOOLEAN /\ rac_priority \in Priorities
    /\ ranging_params \in { << >> } \cup (BOOLEAN \X Priorities)

MultiReset(set, man, prio, par, exch) ==
    /\ set = FALSE /\ man = TRUE /\ prio = DefaultPriority
    /\ par = << >> /\ exch = FALSE

-------------------------------------------------------------------------------
(* The shell and the button.                                                 *)

\* user_button_callback, once it has debounced, and cmd_button_press.
PressButton ==
    /\ Multi /\ SetEvent("BUTTON")
    /\ UNCHANGED << modemVars, console, multiprotocolVars >>

CmdRangingStart ==
    /\ Multi /\ shell = << "idle" >> /\ is_mode_set
    /\ SetEvent("RANGING")
    /\ UNCHANGED << modemVars, console, multiprotocolVars >>

CmdSendKeepalive ==
    /\ Multi /\ shell = << "idle" >> /\ SetEvent("KEEPALIVE")
    /\ UNCHANGED << modemVars, console, multiprotocolVars >>

CmdReqMacTime ==
    /\ Multi /\ shell = << "idle" >> /\ SetEvent("REQ_MAC_TIME")
    /\ UNCHANGED << modemVars, console, multiprotocolVars >>

\* cmd_set_mode: the test of is_mode_set. The arguments are valid.
CmdSetMode ==
    /\ Multi /\ shell = << "idle" >> /\ ~is_mode_set
    /\ \E manager \in BOOLEAN, priority \in Priorities : shell' = << "mode", manager, priority >>
    /\ UNCHANGED << modemVars, loopVars, multiprotocolVars >>

\* Its assignments, one by one.
WriteManager ==
    /\ shell[1] = "mode" /\ is_manager' = shell[2]
    /\ shell' = << "priority", shell[3] >>
    /\ UNCHANGED << modemVars, loopVars, is_mode_set, rac_priority, ranging_params, exchange >>

WritePriority ==
    /\ shell[1] = "priority" /\ rac_priority' = shell[2]
    /\ shell' = << "set_mode" >>
    /\ UNCHANGED << modemVars, loopVars, is_mode_set, is_manager, ranging_params, exchange >>

RaiseSetMode ==
    /\ shell = << "set_mode" >> /\ shell' = << "idle" >>
    /\ SetEvent("SET_MODE")
    /\ UNCHANGED << modemVars, multiprotocolVars >>

MultiShell == \/ PressButton \/ CmdRangingStart \/ CmdSendKeepalive \/ CmdReqMacTime
              \/ CmdSetMode \/ WriteManager \/ WritePriority \/ RaiseSetMode

-------------------------------------------------------------------------------
(* The main loop.                                                            *)

ServeRanging ==
    /\ Multi /\ \E b \in { "BUTTON", "RANGING" } : Turn(b) /\ Done(b)
    /\ exchange' = (exchange \/ is_mode_set)
    /\ UNCHANGED << modemVars, console, is_mode_set, mode, ranging_params >>

\* A subordinate starts to listen at once.
ServeSetMode ==
    /\ Multi /\ Turn("SET_MODE") /\ Done("SET_MODE")
    /\ IF is_mode_set THEN UNCHANGED multiprotocolVars
       ELSE /\ is_mode_set' = TRUE
            /\ ranging_params' = mode
            /\ exchange' = ~is_manager
            /\ UNCHANGED mode
    /\ UNCHANGED << modemVars, console >>

ServeKeepalive ==
    /\ Multi /\ Turn("KEEPALIVE") /\ Done("KEEPALIVE")
    /\ RequestUplink
    /\ UNCHANGED << image, joined, alarm, scan, queue, services, console, multiprotocolVars >>

\* The request goes to the modem, if it has joined.
ServeReqMacTime ==
    /\ Multi /\ Turn("REQ_MAC_TIME") /\ Done("REQ_MAC_TIME")
    /\ UNCHANGED << modemVars, console, multiprotocolVars >>

\* ranging_results_callback, in the thread of the engine: a manager sends its
\* result, at most once in RANGING_UPLINK_MAX_RATE. The exchange may go on.
RangingResults ==
    /\ Multi /\ exchange /\ handler = "idle"
    /\ exchange' \in BOOLEAN
    /\ \/ is_manager /\ RequestUplink
       \/ UNCHANGED uplink
    /\ UNCHANGED << image, joined, alarm, scan, queue, services, loopVars, console,
                    is_mode_set, mode, ranging_params >>

MultiMain == ServeRanging \/ ServeSetMode \/ ServeKeepalive \/ ServeReqMacTime \/ RangingResults

-------------------------------------------------------------------------------
(* What one expects of the requests and of the mode, and the code does not   *)
(* keep.                                                                     *)

\* The mode, once set, is the one the ranging application was initialised with
\* (cmd_set_mode, main). Does not hold: a second command that passed its test
\* before the first was served breaks it.
ModeKept == Multi /\ is_mode_set => ranging_params = mode

Ranging == { "BUTTON", "RANGING" }

\* The requests to range that are set and that nothing has served since.
Asked == Ranging \cap events \cap unserved

\* A press or a command starts a ranging test: the device is the manager.
Manages == Multi /\ is_mode_set /\ is_manager

\* With no exchange running, a test that was asked for is still asked for after
\* another request (user_button_callback and the shell). Does not hold:
\* k_event_set() replaces the one that waits for its turn.
RaisesHold == Manages /\ ~exchange /\ MultiShell /\ Asked # { } => Ranging \cap (events' \cup todo') # { }

\* When the loop clears the event, it clears no press it has not served
\* (main). Does not hold: one that comes between its service and
\* k_event_clear() goes.
ClearHolds == Manages /\ Clear => Asked \subseteq events'
===============================================================================
