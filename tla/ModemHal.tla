------------------------------ MODULE ModemHal ------------------------------
(***************************************************************************)
(* Interrupt and timer handling of the modem HAL                           *)
(* (modules/smtc_modem_hal/smtc_modem_hal.c) over the event pin of the     *)
(* transceiver drivers (drivers/usp/*/*_board.c).                          *)
(*                                                                         *)
(* Contexts, on one core:                                                  *)
(*   - the USP thread, which makes the HAL calls; its calls are split at   *)
(*     the statements other contexts can see (variable pc);                *)
(*   - the timer ISR, which may run between any two of its statements;     *)
(*   - the event-pin ISR, during which no thread runs; it reports the      *)
(*     event itself (EVENT_TRIGGER_NO_THREAD) or leaves it to              *)
(*   - the work item it submits, which the cooperative system work queue   *)
(*     runs in one piece with respect to the USP thread.                   *)
(* The radio chip, the radio engine and the kernel are external.           *)
(***************************************************************************)
EXTENDS Naturals, FiniteSets

CONSTANTS
  Requests,  \* one value for each timer request: its callback and its context
  None,      \* the NULL callback or context, and no request
  Boards     \* kinds of event-pin handler, a subset of {"edge", "toggle"}

ASSUME ConstantsAssumption ==
  /\ None \notin Requests
  /\ Boards \subseteq {"edge", "toggle"}

VARIABLES
  irqEnabled,     \* prv_modem_irq_enabled
  timerPending,   \* prv_modem_irq_pending_while_disabled
  radioPending,   \* prv_radio_irq_pending_while_disabled
  timerCallback,  \* prv_smtc_modem_hal_timer_callback
  timerContext,   \* prv_smtc_modem_hal_timer_context
  armed,          \* request the kernel timer is running for, or None
  attached,       \* event_interrupt_cb of the driver is set
  trigger,        \* edge the event pin interrupt is configured for
  work,           \* the driver's work item is queued
  isr,            \* event-pin ISR: not running, or the level it has read
  line,           \* level of the event pin: the chip has an unread event
  latch,          \* the interrupt controller holds an unserved edge
  flags,          \* what the radio engine has been told and has not served
  pc,             \* the statement the USP thread is at
  request,        \* request of the start_timer call in progress
  due,            \* ghost: request that expired, not cancelled nor called yet
  lastCall,       \* ghost: the last call of a timer callback
  board,          \* kind of event-pin handler, fixed at build time
  direct          \* EVENT_TRIGGER_NO_THREAD, fixed at build time

gate   == <<irqEnabled, timerPending, radioPending>>
timer  == <<timerCallback, timerContext, armed>>
pin    == <<trigger, isr, line, latch>>
ghosts == <<due, lastCall>>
build  == <<board, direct>>
vars   == <<gate, timer, attached, work, pin, flags, pc, request, ghosts, build>>

CallRecords == [callback : Requests \cup {None}, context : Requests \cup {None},
                due : BOOLEAN]

NoCall == [callback |-> None, context |-> None, due |-> TRUE]

Init ==
  /\ irqEnabled = TRUE /\ timerPending = FALSE /\ radioPending = FALSE
  /\ timerCallback = None /\ timerContext = None /\ armed = None
  /\ attached = FALSE /\ trigger = "disabled" /\ work = FALSE
  /\ isr = "none" /\ line = FALSE /\ latch = FALSE
  /\ flags = {}
  /\ pc = "idle" /\ request = None
  /\ due = None /\ lastCall = NoCall
  /\ board \in Boards /\ direct \in BOOLEAN

-----------------------------------------------------------------------------
(* Callbacks of the radio engine: they record the interrupt for the engine *)
(* to serve.  A timer call is also recorded in lastCall.                   *)

\* dueNow: the request whose expiry this call reports, or None
CallTimer(dueNow) ==
  /\ flags' = flags \cup {"timer"}
  /\ lastCall' = [callback |-> timerCallback, context |-> timerContext,
                  due |-> timerCallback = dueNow]
  /\ due' = None

CallRadio == flags' = flags \cup {"radio"}

-----------------------------------------------------------------------------
(* The event pin.                                                          *)

\* The level of the pin changes; an edge the trigger selects is latched.
SetLine(level) ==
  /\ line' = level
  /\ latch' = (latch \/ (line # level /\ trigger = IF level THEN "to_active"
                                                   ELSE "to_inactive"))

\* The radio is running and raises an event.
RadioRaises ==
  /\ attached /\ ~line /\ pc # "clear_pending"
  /\ SetLine(TRUE)
  /\ UNCHANGED <<gate, timer, attached, work, trigger, isr, flags, pc, request,
                 ghosts, build>>

\* Mutant: an event raised in a critical section is not remembered.
TransceiverEventCbDropped ==
  /\ IF irqEnabled THEN CallRadio ELSE UNCHANGED flags
  /\ UNCHANGED radioPending

\* prv_transceiver_event_cb
TransceiverEventCb ==
  IF irqEnabled THEN CallRadio /\ UNCHANGED radioPending
                ELSE radioPending' = TRUE /\ UNCHANGED flags

\* The drivers call it once it is attached ...
EventInterruptCb ==
  IF attached THEN TransceiverEventCb ELSE UNCHANGED <<radioPending, flags>>

\* ... from the ISR, or from their work item.
EventTrigger ==
  IF direct THEN EventInterruptCb /\ UNCHANGED work
            ELSE work' = TRUE /\ UNCHANGED <<radioPending, flags>>

WorkItem ==
  /\ work /\ isr = "none"
  /\ work' = FALSE
  /\ EventInterruptCb
  /\ UNCHANGED <<irqEnabled, timerPending, timer, attached, pin, pc, request,
                 ghosts, build>>

\* Edge-only drivers report every interrupt.
EdgeIsr ==
  /\ board = "edge" /\ latch
  /\ latch' = FALSE
  /\ EventTrigger
  /\ UNCHANGED <<irqEnabled, timerPending, timer, attached, trigger, isr, line,
                 pc, request, ghosts, build>>

\* The lr11xx handler reads the pin ...
ToggleIsr ==
  /\ board = "toggle" /\ latch /\ isr = "none"
  /\ latch' = FALSE
  /\ isr' = IF line THEN "high" ELSE "low"
  /\ UNCHANGED <<gate, timer, attached, work, trigger, line, flags, pc, request,
                 ghosts, build>>

\* Mutant: the level read is configured in place of an edge.
ToggleIsrEndLevel ==
  /\ isr # "none"
  /\ trigger' = isr
  /\ IF isr = "high" THEN EventTrigger ELSE UNCHANGED <<work, radioPending, flags>>
  /\ isr' = "none"
  /\ UNCHANGED <<irqEnabled, timerPending, timer, attached, line, latch, pc,
                 request, ghosts, build>>

\* ... and waits for the opposite edge, reporting the interrupt on high.
ToggleIsrEnd ==
  /\ isr # "none"
  /\ trigger' = IF isr = "high" THEN "to_inactive" ELSE "to_active"
  /\ IF isr = "high" THEN EventTrigger ELSE UNCHANGED <<work, radioPending, flags>>
  /\ isr' = "none"
  /\ UNCHANGED <<irqEnabled, timerPending, timer, attached, line, latch, pc,
                 request, ghosts, build>>

-----------------------------------------------------------------------------
(* The timer.                                                              *)

\* The kernel timer expires: prv_smtc_modem_hal_timer_handler.
TimerHandler ==
  /\ armed # None
  /\ armed' = None
  /\ IF irqEnabled
     THEN CallTimer(armed) /\ UNCHANGED timerPending
     ELSE timerPending' = TRUE /\ due' = armed /\ UNCHANGED <<flags, lastCall>>
  /\ UNCHANGED <<irqEnabled, radioPending, timerCallback, timerContext, attached,
                 work, pin, pc, request, build>>

\* The USP thread runs its statement s and goes on with the statement t.
Thread(s, t) == isr = "none" /\ pc = s /\ pc' = t

\* Mutant: the timer is started before its callback and context are stored.
StartTimerArmedFirst(r) ==
  /\ Thread("idle", "start_context")
  /\ armed = None
  /\ armed' = r
  /\ request' = r
  /\ UNCHANGED <<gate, timerCallback, timerContext, attached, work, pin, flags,
                 ghosts, build>>

\* smtc_modem_hal_start_timer; its callers never restart a running timer.
StartTimer(r) ==
  /\ Thread("idle", "start_context")
  /\ armed = None
  /\ timerCallback' = r
  /\ request' = r
  /\ UNCHANGED <<gate, timerContext, armed, attached, work, pin, flags, ghosts,
                 build>>

StartTimerContext ==
  /\ Thread("start_context", "start_arm")
  /\ timerContext' = request
  /\ UNCHANGED <<gate, timerCallback, armed, attached, work, pin, flags, request,
                 ghosts, build>>

\* Starting the timer anew cancels the request before it.
StartTimerArm ==
  /\ Thread("start_arm", "idle")
  /\ armed' = request
  /\ request' = None
  /\ due' = None
  /\ UNCHANGED <<gate, timerCallback, timerContext, attached, work, pin, flags,
                 lastCall, build>>

\* smtc_modem_hal_stop_timer
StopTimer ==
  /\ Thread("idle", "idle")
  /\ armed' = None
  /\ due' = None
  /\ UNCHANGED <<gate, timerCallback, timerContext, attached, work, pin, flags,
                 request, lastCall, build>>

-----------------------------------------------------------------------------
(* The gate.                                                               *)

\* Mutant: the pin is taken for active low.
BoardEnableInterruptInverted == trigger' = "to_inactive"

\* lora_transceiver_board_enable_interrupt
BoardEnableInterrupt == trigger' = "to_active"

\* smtc_modem_hal_irq_config_radio_irq, called while the radio is not running.
ConfigRadioIrq ==
  /\ Thread("idle", "idle")
  /\ ~attached
  /\ attached' = TRUE
  /\ BoardEnableInterrupt
  /\ UNCHANGED <<gate, timer, work, isr, line, latch, flags, request, ghosts,
                 build>>

\* Mutant: entering a critical section forgets what is pending.
DisableModemIrqReset ==
  /\ Thread("idle", "idle")
  /\ irqEnabled' = FALSE
  /\ timerPending' = FALSE
  /\ UNCHANGED <<radioPending, timer, attached, work, pin, flags, request, ghosts,
                 build>>

\* smtc_modem_hal_disable_modem_irq
DisableModemIrq ==
  /\ Thread("idle", "idle")
  /\ irqEnabled' = FALSE
  /\ UNCHANGED <<timerPending, radioPending, timer, attached, work, pin, flags,
                 request, ghosts, build>>

\* smtc_modem_hal_enable_modem_irq, statement by statement
EnableModemIrq ==
  /\ Thread("idle", "enable_board")
  /\ irqEnabled' = TRUE
  /\ UNCHANGED <<timerPending, radioPending, timer, attached, work, pin, flags,
                 request, ghosts, build>>

\* Mutant: the timer's event is looked at before the radio's.
EnableBoardTimerFirst ==
  /\ Thread("enable_board", "check_timer")
  /\ BoardEnableInterrupt
  /\ UNCHANGED <<gate, timer, attached, work, isr, line, latch, flags, request,
                 ghosts, build>>

EnableBoard ==
  /\ Thread("enable_board", "check_radio")
  /\ BoardEnableInterrupt
  /\ UNCHANGED <<gate, timer, attached, work, isr, line, latch, flags, request,
                 ghosts, build>>

CheckRadioPending ==
  /\ Thread("check_radio", IF radioPending THEN "take_radio" ELSE "check_timer")
  /\ UNCHANGED <<gate, timer, attached, work, pin, flags, request, ghosts, build>>

TakeRadioPending ==
  /\ Thread("take_radio", "call_radio")
  /\ radioPending' = FALSE
  /\ UNCHANGED <<irqEnabled, timerPending, timer, attached, work, pin, flags,
                 request, ghosts, build>>

\* Mutant: "else if" between the two pending flags.
CallRadioPendingElse ==
  /\ Thread("call_radio", "idle")
  /\ CallRadio
  /\ UNCHANGED <<gate, timer, attached, work, pin, request, ghosts, build>>

CallRadioPending ==
  /\ Thread("call_radio", "check_timer")
  /\ CallRadio
  /\ UNCHANGED <<gate, timer, attached, work, pin, request, ghosts, build>>

CheckTimerPending ==
  /\ Thread("check_timer", IF timerPending THEN "take_timer" ELSE "idle")
  /\ UNCHANGED <<gate, timer, attached, work, pin, flags, request, ghosts, build>>

\* Mutant: the timer's event is called without being taken from its flag.
TakeTimerPendingKept ==
  /\ Thread("take_timer", "call_timer")
  /\ UNCHANGED <<gate, timer, attached, work, pin, flags, request, ghosts, build>>

TakeTimerPending ==
  /\ Thread("take_timer", "call_timer")
  /\ timerPending' = FALSE
  /\ UNCHANGED <<irqEnabled, radioPending, timer, attached, work, pin, flags,
                 request, ghosts, build>>

CallTimerPending ==
  /\ Thread("call_timer", "idle")
  /\ CallTimer(due)
  /\ UNCHANGED <<gate, timer, attached, work, pin, request, build>>

\* smtc_modem_hal_radio_irq_clear_pending
ClearRadioPending ==
  /\ Thread("clear_pending", "idle")
  /\ radioPending' = FALSE
  /\ UNCHANGED <<irqEnabled, timerPending, timer, attached, work, pin, flags,
                 request, ghosts, build>>

-----------------------------------------------------------------------------
(* The radio engine, external: it serves what it was told about, reading   *)
(* and clearing the chip's event, or aborts the radio operation, after     *)
(* which the chip is in standby and raises nothing.                        *)

RunEngine ==
  /\ Thread("idle", "idle")
  /\ flags # {}
  /\ flags' = {}
  /\ IF "radio" \in flags THEN SetLine(FALSE) ELSE UNCHANGED <<line, latch>>
  /\ UNCHANGED <<gate, timer, attached, work, trigger, isr, request, ghosts,
                 build>>

AbortRadio ==
  /\ Thread("idle", "clear_pending")
  /\ SetLine(FALSE)
  /\ UNCHANGED <<gate, timer, attached, work, trigger, isr, flags, request,
                 ghosts, build>>

-----------------------------------------------------------------------------
\* The statements of a HAL call in progress.
InCall ==
  \/ StartTimerContext \/ StartTimerArm
  \/ EnableBoard \/ CheckRadioPending \/ TakeRadioPending \/ CallRadioPending
  \/ CheckTimerPending \/ TakeTimerPending \/ CallTimerPending
  \/ ClearRadioPending

\* The HAL calls the engine may make next.
Call ==
  \/ \E r \in Requests : StartTimer(r)
  \/ StopTimer \/ ConfigRadioIrq \/ DisableModemIrq \/ EnableModemIrq
  \/ RunEngine \/ AbortRadio

Interrupt ==
  \/ TimerHandler \/ EdgeIsr \/ ToggleIsr \/ ToggleIsrEnd \/ WorkItem

Next == RadioRaises \/ Interrupt \/ Call \/ InCall

Spec == Init /\ [][Next]_vars

\* Interrupts, work items and the calls in progress run to their end.  The
\* engine leaves every critical section and serves what it is told about.
Fairness ==
  /\ WF_vars(TimerHandler) /\ WF_vars(EdgeIsr) /\ WF_vars(ToggleIsr)
  /\ WF_vars(ToggleIsrEnd) /\ WF_vars(WorkItem)
  /\ SF_vars(InCall) /\ SF_vars(EnableModemIrq) /\ SF_vars(RunEngine)

FairSpec == Spec /\ Fairness

-----------------------------------------------------------------------------
CallPoints == {"idle", "start_context", "start_arm", "enable_board",
               "check_radio", "take_radio", "call_radio", "check_timer",
               "take_timer", "call_timer", "clear_pending"}

\* Inside enable_modem_irq, after the gate was opened.
Draining == {"enable_board", "check_radio", "take_radio", "call_radio",
             "check_timer", "take_timer", "call_timer"}

\* Type invariant of the HAL state (smtc_modem_hal.c:84-104).
TypeOK ==
  /\ irqEnabled \in BOOLEAN /\ timerPending \in BOOLEAN /\ radioPending \in BOOLEAN
  /\ timerCallback \in Requests \cup {None}
  /\ timerContext \in Requests \cup {None}
  /\ armed \in Requests \cup {None}
  /\ attached \in BOOLEAN /\ work \in BOOLEAN
  /\ trigger \in {"disabled", "to_active", "to_inactive"}
  /\ isr \in {"none", "high", "low"}
  /\ line \in BOOLEAN /\ latch \in BOOLEAN
  /\ flags \subseteq {"radio", "timer"}
  /\ pc \in CallPoints
  /\ request \in Requests \cup {None}
  /\ due \in Requests \cup {None}
  /\ lastCall \in CallRecords
  /\ board \in Boards /\ direct \in BOOLEAN

\* Outside a critical section nothing stays held: once enable_modem_irq has
\* returned, no interrupt raised around it is left behind in a pending flag,
\* whenever it came (smtc_modem_hal.c:236-251 against :201-213 and :306-319).
OpenMeansDrained ==
  irqEnabled /\ pc \notin Draining => ~radioPending /\ ~timerPending

\* A radio event is never forgotten: while the chip's event is unread, the edge
\* is latched, its work item is queued, it is held, or the engine knows.
\* Stated for the edge-only drivers (sx126x_board.c:61-79, lr20xx_board.c:65-80).
RadioEventIn(boards) ==
  line /\ isr = "none" /\ board \in boards =>
    latch \/ work \/ radioPending \/ pc = "call_radio" \/ "radio" \in flags

RadioEventKept == RadioEventIn({"edge"})

\* The same for the lr11xx handler, which reads the pin and then selects the
\* next edge (lr11xx_board.c:69-88).
RadioEventKeptByToggle == RadioEventIn({"toggle"})

\* An expiry nobody cancelled is held or being delivered, never forgotten
\* (smtc_modem_hal.c:201-213, 246-250).
ExpiryKept == due # None => timerPending \/ pc = "call_timer"

\* A timer callback is called with the context given in the same start_timer
\* call, and never through a NULL pointer (smtc_modem_hal.c:207, 215-222, 249).
CallsPaired ==
  lastCall # NoCall => /\ lastCall.callback # None
                       /\ lastCall.context = lastCall.callback

\* A timer callback is only called for an expiry of its own request: not after
\* stop_timer, and not for the expiry of a request it replaced
\* (porting_tests/src/main.c:1160 and :1201). The code does not
\* keep it: an expiry that is held outlives the stop.
NoStaleTimerCall == lastCall.due

\* Every raised event is served: the engine reads the chip's event, and an
\* expiry that is not cancelled reaches its callback.
EventsServed ==
  /\ (line /\ board = "edge") ~> ~line
  /\ (due # None) ~> (due = None)

-----------------------------------------------------------------------------
(* The inductive invariant behind the properties above.                    *)

\* enable_modem_irq empties the flags in order: the radio's, then the timer's.
DrainsInOrder ==
  /\ pc \in Draining => irqEnabled
  /\ irqEnabled /\ pc \notin {"enable_board", "check_radio", "take_radio"}
       => ~radioPending
  /\ irqEnabled /\ (pc \notin Draining \/ pc = "call_timer") => ~timerPending
  /\ pc = "take_radio" => radioPending
  /\ pc = "take_timer" => timerPending

\* The callback and its context belong to one request whenever the timer runs
\* or its expiry is held.
TimerConsistent ==
  /\ (request # None) <=> pc \in {"start_context", "start_arm"}
  /\ pc \in {"start_context", "start_arm"} => armed = None /\ timerCallback = request
  /\ pc # "start_context" => timerContext = timerCallback
  /\ armed # None \/ timerPending \/ pc \in {"take_timer", "call_timer"}
       => timerCallback # None

\* An unread event was raised after the pin was set up, and an edge-only pin
\* waits for the next one at all times.
RadioTracked ==
  /\ line => attached /\ pc # "clear_pending"
  /\ board = "edge" => isr = "none"
  /\ board = "edge" /\ attached => trigger = "to_active"

\* Inductive invariant: what the safety properties rest on.
IInv ==
  /\ TypeOK
  /\ DrainsInOrder
  /\ TimerConsistent
  /\ RadioTracked
  /\ RadioEventKept
  /\ ExpiryKept
  /\ CallsPaired

-----------------------------------------------------------------------------
\* The HAL implements the gate: an event taken from its flag but not yet
\* reported to the engine counts as held.
Held == {s \in {"radio", "timer"} :
           \/ s = "radio" /\ (radioPending \/ pc = "call_radio")
           \/ s = "timer" /\ (timerPending \/ pc = "call_timer")}

Gate == INSTANCE IrqGate WITH open <- irqEnabled, held <- Held, noticed <- flags

GateSpec == Gate!Spec
=============================================================================
