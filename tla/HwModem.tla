------------------------------ MODULE HwModem ------------------------------
(***************************************************************************)
(* The hardware modem sample (samples/usp/rac/hw_modem): the COMMAND and   *)
(* BUSY lines, the reception of a command over the UART, the main loop     *)
(* that executes and answers it, and the sleep of the main loop.           *)
(*                                                                         *)
(* Contexts, on one core: the main loop; the COMMAND ISR, during which the *)
(* main loop does not run; the UART ISR.  A frame is two pieces, each      *)
(* labelled with its command; fewer or more pieces, or pieces of two       *)
(* commands, fail the CRC or the check for extra data.  The host, the      *)
(* command parser and the engines are external.                            *)
(***************************************************************************)
EXTENDS Naturals, Sequences

CONSTANTS
  Commands,  \* what the host may ask for
  None,      \* no answer
  Error,     \* the answer CMD_RC_FRAME_ERROR
  Hosts      \* kinds of host, subset of {"patient", "retrying"}

ASSUME ConstantsAssumption ==
  /\ None \notin Commands /\ Error \notin Commands \cup {None}
  /\ Hosts \subseteq {"patient", "retrying"}

VARIABLES
  \* the lines and the UART
  command,    \* level of the COMMAND line
  edge,       \* an edge of COMMAND is latched and not served
  busy,       \* level of the BUSY line
  fifo,       \* pieces in the UART, not read yet
  \* hw_modem.c
  buffer,     \* modem_received_buff up to received_length
  rxEnabled,  \* the UART reception interrupt is enabled
  available,  \* hw_cmd_available
  ready,      \* is_hw_modem_ready_to_receive
  lpMode,     \* lp_mode
  response,   \* modem_response_buff: the command it answers, or Error
  isr,        \* the COMMAND ISR is between its two tests
  \* main.c
  pc,         \* the statement the main loop is at
  sem,        \* count of lbm_main_loop_sem
  \* the host
  host,       \* what it is doing
  asked,      \* the command it sends
  sent,       \* pieces it has sent of it
  hostKind,   \* does it ever retry without waiting for BUSY
  executed    \* ghost: how often the command was executed

lines    == <<command, edge, busy>>
flags    == <<available, ready>>
uart     == <<buffer, rxEnabled>>
hostVars == <<host, asked, sent, hostKind>>
vars     == <<lines, fifo, uart, flags, lpMode, response, isr, pc, sem, hostVars,
              executed>>

FrameSize == 2
BufferSize == 3

Init ==
  /\ command = TRUE /\ edge = FALSE /\ busy = TRUE /\ fifo = <<>>
  /\ buffer = <<>> /\ rxEnabled = FALSE
  /\ available = FALSE /\ ready = TRUE /\ lpMode = "enable"
  /\ response = None /\ isr = FALSE
  /\ pc = "loop" /\ sem = 0
  /\ host = "idle" /\ asked \in Commands /\ sent = 0
  /\ hostKind \in Hosts /\ executed = 0

-----------------------------------------------------------------------------
(* The host.  It pulls COMMAND low, waits for BUSY to be low, sends the    *)
(* frame or gives up in the middle, raises COMMAND and waits for the       *)
(* answer.                                                                 *)

SetCommand(level) == command' = level /\ edge' = TRUE /\ UNCHANGED busy

HostAsks(c) ==
  /\ host = "idle" /\ busy
  /\ SetCommand(FALSE)
  /\ host' = "asking" /\ asked' = c /\ sent' = 0 /\ executed' = 0
  /\ UNCHANGED <<fifo, uart, flags, lpMode, response, isr, pc, sem, hostKind>>

\* The UART keeps up with the host: only the last piece may wait to be read.
HostSends ==
  /\ host = "asking" /\ ~busy /\ sent < FrameSize /\ fifo = <<>>
  /\ fifo' = <<asked>>
  /\ sent' = sent + 1
  /\ UNCHANGED <<lines, uart, flags, lpMode, response, isr, pc, sem, host, asked,
                 hostKind, executed>>

HostEnds ==
  /\ host = "asking" /\ ~busy
  /\ SetCommand(TRUE)
  /\ host' = "waiting"
  /\ UNCHANGED <<fifo, uart, flags, lpMode, response, isr, pc, sem, asked, sent,
                 hostKind, executed>>

\* The modem took it for a false detection: BUSY is high and no answer comes.
HostGoesOn ==
  /\ host = "waiting" /\ busy /\ response = None
  /\ host' = "idle"
  /\ UNCHANGED <<lines, fifo, uart, flags, lpMode, response, isr, pc, sem, asked,
                 sent, hostKind, executed>>

\* A retrying host starts anew when the answer takes too long.
HostRetries ==
  /\ hostKind = "retrying" /\ host = "waiting" /\ ~busy
  /\ SetCommand(FALSE)
  /\ host' = "asking" /\ sent' = 0 /\ executed' = 0
  /\ UNCHANGED <<fifo, uart, flags, lpMode, response, isr, pc, sem, asked, hostKind>>

-----------------------------------------------------------------------------
(* Interrupts.                                                             *)

\* Mutant: the buffer's size is not checked.
UartIsrUnbounded ==
  /\ rxEnabled /\ fifo # <<>>
  /\ buffer' = buffer \o fifo
  /\ fifo' = <<>>
  /\ UNCHANGED <<lines, rxEnabled, flags, lpMode, response, isr, pc, sem, hostVars,
                 executed>>

\* uart_irq_rx_callback_handler; bytes beyond the buffer are dropped.
UartIsr ==
  /\ rxEnabled /\ fifo # <<>>
  /\ buffer' = IF Len(buffer) = BufferSize THEN buffer ELSE buffer \o fifo
  /\ fifo' = <<>>
  /\ UNCHANGED <<lines, rxEnabled, flags, lpMode, response, isr, pc, sem, hostVars,
                 executed>>

\* Without the reception interrupt, the byte is overrun by the next.
UartOverrun ==
  /\ ~rxEnabled /\ fifo # <<>>
  /\ fifo' = <<>>
  /\ UNCHANGED <<lines, uart, flags, lpMode, response, isr, pc, sem, hostVars,
                 executed>>

\* Mutant: the buffer is not emptied.
StartReceptionKept ==
  /\ UNCHANGED buffer
  /\ fifo' = <<>>
  /\ ready' = FALSE
  /\ rxEnabled' = TRUE
  /\ busy' = FALSE

\* hw_modem_start_reception. The driver's uart_irq_update() succeeds.
StartReception ==
  /\ buffer' = <<>>
  /\ fifo' = <<>>
  /\ ready' = FALSE
  /\ rxEnabled' = TRUE
  /\ busy' = FALSE

\* wakeup_line_irq_handler: COMMAND was asserted ...
CommandIsr ==
  /\ edge /\ ~isr
  /\ edge' = FALSE
  /\ isr' = TRUE
  /\ IF ready /\ ~command THEN StartReception /\ lpMode' = "disable"
                          ELSE UNCHANGED <<busy, fifo, uart, ready, lpMode>>
  /\ UNCHANGED <<command, available, response, pc, sem, hostVars, executed>>

\* Mutant: the main loop is not woken up.
CommandIsrEndSilent ==
  /\ isr
  /\ isr' = FALSE
  /\ IF ~ready /\ command
     THEN rxEnabled' = FALSE /\ available' = TRUE /\ lpMode' = "disable_once"
     ELSE UNCHANGED <<rxEnabled, available, lpMode>>
  /\ UNCHANGED <<lines, fifo, buffer, ready, response, pc, sem, hostVars, executed>>

\* ... or released: the pin is read a second time.
CommandIsrEnd ==
  /\ isr
  /\ isr' = FALSE
  /\ IF ~ready /\ command
     THEN rxEnabled' = FALSE /\ available' = TRUE /\ sem' = 1 /\ lpMode' = "disable_once"
     ELSE UNCHANGED <<rxEnabled, available, sem, lpMode>>
  /\ UNCHANGED <<lines, fifo, buffer, ready, response, pc, hostVars, executed>>

-----------------------------------------------------------------------------
(* The main loop.                                                          *)

Main(s, n) == ~isr /\ pc = s /\ pc' = n

Loop ==
  /\ Main("loop", IF available THEN "process" ELSE "engine")
  /\ UNCHANGED <<lines, fifo, uart, flags, lpMode, response, isr, sem, hostVars,
                 executed>>

Intact == Len(buffer) = FrameSize /\ buffer[1] = buffer[2]

\* hw_modem_process_cmd.  A blank buffer is a false detection.
ProcessCmd ==
  /\ Main("process", "set_ready")
  /\ response' = IF buffer = <<>> THEN None ELSE IF Intact THEN buffer[1] ELSE Error
  /\ executed' = IF Intact THEN executed + 1 ELSE executed
  /\ UNCHANGED <<lines, fifo, uart, flags, lpMode, isr, sem, hostVars>>

\* Mutant: a false detection does not make the modem ready again.
SetReadyAnswered ==
  /\ Main("set_ready", "clear_available")
  /\ ready' = (response # None)
  /\ UNCHANGED <<lines, fifo, uart, available, lpMode, response, isr, sem, hostVars,
                 executed>>

SetReady ==
  /\ Main("set_ready", "clear_available")
  /\ ready' = TRUE
  /\ UNCHANGED <<lines, fifo, uart, available, lpMode, response, isr, sem, hostVars,
                 executed>>

\* Mutant: BUSY is raised before the flag is cleared.
ClearAvailableLast ==
  \/ /\ Main("clear_available", "clear_last")
     /\ busy' = TRUE
     /\ UNCHANGED <<command, edge, fifo, uart, flags, lpMode, response, isr, sem,
                    hostVars, executed>>
  \/ /\ Main("clear_last", "set_busy")
     /\ available' = FALSE
     /\ UNCHANGED <<lines, fifo, uart, ready, lpMode, response, isr, sem, hostVars,
                    executed>>

ClearAvailable ==
  /\ Main("clear_available", "set_busy")
  /\ available' = FALSE
  /\ UNCHANGED <<lines, fifo, uart, ready, lpMode, response, isr, sem, hostVars,
                 executed>>

SetBusy ==
  /\ Main("set_busy", IF response = None THEN "engine" ELSE "answer")
  /\ busy' = TRUE
  /\ UNCHANGED <<command, edge, fifo, uart, flags, lpMode, response, isr, sem,
                 hostVars, executed>>

Answer ==
  /\ Main("answer", "engine")
  /\ host' = IF host = "waiting" THEN "idle" ELSE host
  /\ response' = None
  /\ UNCHANGED <<lines, fifo, uart, flags, lpMode, isr, sem, asked, sent, hostKind,
                 executed>>

\* The engines run; hw_modem_event_handler wakes the loop up.  With an
\* interrupt of the radio pending the loop starts over.
RunEngine ==
  /\ Main("engine", "check_sleep") \/ Main("engine", "loop")
  /\ sem' \in {sem, 1}
  /\ UNCHANGED <<lines, fifo, uart, flags, lpMode, response, isr, hostVars, executed>>

\* With interrupts locked: hw_modem_is_a_cmd_available, then
\* hw_modem_is_low_power_ok, then the interrupt flag of the modem.
CheckSleep ==
  /\ \/ ~available /\ lpMode = "enable" /\ Main("check_sleep", "sleep")
     \/ Main("check_sleep", "loop")
  /\ lpMode' = IF ~available /\ lpMode = "disable_once" THEN "enable" ELSE lpMode
  /\ UNCHANGED <<lines, fifo, uart, flags, response, isr, sem, hostVars, executed>>

Woken ==
  /\ Main("sleep", "loop")
  /\ sem = 1
  /\ sem' = 0
  /\ UNCHANGED <<lines, fifo, uart, flags, lpMode, response, isr, hostVars, executed>>

TimedOut ==
  /\ Main("sleep", "loop")
  /\ sem = 0
  /\ UNCHANGED <<lines, fifo, uart, flags, lpMode, response, isr, sem, hostVars,
                 executed>>

-----------------------------------------------------------------------------
MainStep ==
  \/ Loop \/ ProcessCmd \/ SetReady \/ ClearAvailable \/ SetBusy \/ Answer
  \/ RunEngine \/ CheckSleep \/ Woken

Next ==
  \/ MainStep \/ TimedOut
  \/ CommandIsr \/ CommandIsrEnd \/ UartIsr \/ UartOverrun
  \/ \E c \in Commands : HostAsks(c)
  \/ HostSends \/ HostEnds \/ HostGoesOn \/ HostRetries

Spec == Init /\ [][Next]_vars

\* The main loop and the interrupts run; the host raises COMMAND some time
\* after BUSY told it to send, and goes on when no answer can come.
Fairness ==
  /\ SF_vars(MainStep)
  /\ WF_vars(CommandIsr) /\ WF_vars(CommandIsrEnd)
  /\ WF_vars(UartIsr) /\ WF_vars(HostEnds) /\ WF_vars(HostGoesOn)

FairSpec == Spec /\ Fairness

-----------------------------------------------------------------------------
\* Type invariant of the sample's state (hw_modem.c:64-70).
TypeOK ==
  /\ {command, edge, busy, rxEnabled, available, ready, isr} \subseteq BOOLEAN
  /\ fifo \in {<<>>} \cup {<<c>> : c \in Commands}
  /\ Len(buffer) <= BufferSize /\ \A i \in DOMAIN buffer : buffer[i] \in Commands
  /\ lpMode \in {"enable", "disable_once", "disable"}
  /\ response \in Commands \cup {None, Error}
  /\ pc \in {"loop", "process", "set_ready", "clear_available", "set_busy",
             "answer", "engine", "check_sleep", "sleep"}
  /\ sem \in {0, 1}
  /\ host \in {"idle", "asking", "waiting"} /\ asked \in Commands
  /\ sent \in 0..FrameSize /\ hostKind \in Hosts /\ executed \in Nat

InHand == ready \/ rxEnabled \/ available

\* The modem never shuts itself off: when it does not take a new command, a
\* reception is under way or a command is in hand (hw_modem.c:341-343 and the
\* ISR of :402-427), for a host that waits for BUSY before it asks again.
StaysReady == hostKind = "patient" => InHand

\* The same for a host that asks again without waiting: "now the hw modem can
\* accept new commands" (hw_modem.c:341) from where it says so. The code does
\* not keep it: a command taken between the two statements of :342-343 is lost.
AcceptsNewCommands == hostKind = "retrying" => InHand

\* BUSY tells a host the truth: while it is high the modem takes a command
\* (hw_modem.c:260-287, :341-348).
BusyHonest == hostKind = "patient" /\ busy => ready /\ ~available

\* A command is executed at most once, and what is answered is the command the
\* host is waiting for, or a frame error, never an earlier command, whatever
\* the UART or an interrupted frame left behind (hw_modem.c:260-284, :296-346).
OwnAnswer ==
  hostKind = "patient" =>
    /\ executed <= 1
    /\ pc = "answer" => host = "waiting" /\ response \in {asked, Error}

\* The main loop does not sleep on a command (main.c:184-194, hw_modem.c:414-422).
NoCommandAsleep == pc = "sleep" /\ sem = 0 => ~available

\* The modem neither shuts itself off nor sleeps on what it has taken
\* (hw_modem.c:341-343, 402-427; main.c:184-194).
NeverStuck == StaysReady /\ NoCommandAsleep

\* Every command the host begins is brought to its end: answered, or found to be
\* a false detection, which the host sees by BUSY (hw_modem.c:289-376, 402-427).
CommandsServed ==
  (host = "asking" /\ hostKind = "patient") ~> (host = "idle")
=============================================================================
