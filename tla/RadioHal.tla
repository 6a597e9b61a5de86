----------------------------- MODULE RadioHal -----------------------------
(***************************************************************************)
(* The SPI command path of the transceiver drivers                         *)
(* (drivers/usp/lr11xx/lr11xx_hal.c, lr20xx/lr20xx_hal.c and               *)
(* sx126x/sx126x_hal.c): how the driver keeps track of the chip's sleep,   *)
(* wakes it up, and waits for its BUSY line under a time-out.              *)
(*                                                                         *)
(* One thread is in the driver at a time.  Time is counted in              *)
(* milliseconds by k_uptime_get_32 and passes while the thread sleeps; the *)
(* thread is otherwise fast enough to see every millisecond.  The chip is  *)
(* external: it is BUSY for at most MaxBusy milliseconds unless it hangs,  *)
(* and a transfer that fails does not reach it.                            *)
(***************************************************************************)
EXTENDS Naturals, Sequences

CONSTANTS
  Families,  \* subset of {"lr11xx", "lr20xx", "sx126x"}
  Wrap,      \* values the uptime takes: 2^32 in the code
  Timeout,   \* HAL_WAIT_ON_BUSY_TIMEOUT_MSEC
  MaxBusy,   \* longest time the chip is BUSY after a command
  Horizon    \* the last uptime explored, counted without wrapping

ASSUME ConstantsAssumption ==
  /\ Families \subseteq {"lr11xx", "lr20xx", "sx126x"}
  /\ Wrap \in Nat /\ Timeout \in Nat /\ MaxBusy \in Nat /\ Horizon \in Nat
  /\ MaxBusy < Timeout /\ Timeout < Wrap

VARIABLES
  family,       \* the driver
  radioStatus,  \* radio_status of the driver data
  todo,         \* what the call in progress still has to do
  pc,           \* the statement the thread is at
  end,          \* the local variable of wait_on_busy
  chip,         \* state of the chip
  busyFor,      \* milliseconds the chip stays busy at most
  uptime,       \* milliseconds since boot
  since         \* ghost: when the last wait_on_busy began

driver == <<family, radioStatus, todo, pc, end>>
vars   == <<driver, chip, busyFor, uptime, since>>

\* k_uptime_get_32
Uptime32 == uptime % Wrap

\* What each call does: "check" is check_device_ready, the others are SPI
\* transfers, and "reset".  The sx126x driver waits for the end of a command
\* it wrote; the lr11xx and lr20xx drivers read in two transfers.
Calls == {"write", "read", "direct_read", "set_sleep", "wakeup", "reset"}

\* Mutant: the response is read without waiting for it.
ScriptOneCheck(call) ==
  CASE call = "write"     -> <<"check", "command">>
    [] call = "read"      -> <<"check", "command", "response">>
    [] call = "direct_read" -> <<"check", "response">>
    [] call = "set_sleep" -> <<"check", "sleep">>
    [] call = "wakeup"    -> <<"check">>
    [] call = "reset"     -> <<"reset">>

\* Mutant: a read of two transfers on top of the wait after a write.
ScriptTooLong(call) ==
  CASE call \in {"write", "read"} -> <<"check", "command", "check", "response", "check">>
    [] call = "direct_read" -> <<"check", "response">>
    [] call = "set_sleep" -> <<"check", "sleep">>
    [] call = "wakeup"    -> <<"check">>
    [] call = "reset"     -> <<"reset">>

Script(call) ==
  CASE call = "write"     -> IF family = "sx126x" THEN <<"check", "command", "check">>
                                                  ELSE <<"check", "command">>
    [] call = "read"      -> IF family = "sx126x" THEN <<"check", "command">>
                             ELSE <<"check", "command", "check", "response">>
    [] call = "direct_read" -> <<"check", "response">>
    [] call = "set_sleep" -> <<"check", "sleep">>
    [] call = "wakeup"    -> <<"check">>
    [] call = "reset"     -> <<"reset">>

Init ==
  /\ family \in Families
  /\ radioStatus = "awake"
  /\ todo = <<>> /\ pc = "run" /\ end = 0
  /\ chip = "busy" /\ busyFor = MaxBusy
  /\ uptime = 0 /\ since = 0

-----------------------------------------------------------------------------
(* The driver.                                                             *)

AtTodo(step) == pc = "run" /\ todo # <<>> /\ Head(todo) = step

Call(call) ==
  /\ pc = "run" /\ todo = <<>>
  /\ call = "direct_read" => family # "sx126x"
  /\ todo' = Script(call)
  /\ UNCHANGED <<family, radioStatus, pc, end, chip, busyFor, uptime, since>>

\* The glitch on NSS wakes the chip if it is asleep already.
Glitch ==
  IF chip = "asleep" THEN chip' = "busy" /\ busyFor' = MaxBusy
                     ELSE UNCHANGED <<chip, busyFor>>

\* check_device_ready, up to the first statement of wait_on_busy
CheckDeviceReady ==
  /\ AtTodo("check")
  /\ pc' = "poll"
  /\ end' = (Uptime32 + Timeout) % Wrap
  /\ since' = uptime
  /\ IF radioStatus = "sleep" THEN Glitch ELSE UNCHANGED <<chip, busyFor>>
  /\ UNCHANGED <<family, radioStatus, todo, uptime>>

\* wait_on_busy: the BUSY line is low, and the chip is awake ...
PollReady ==
  /\ pc = "poll" /\ Uptime32 <= end
  /\ chip = "ready"
  /\ pc' = "run"
  /\ todo' = Tail(todo)
  /\ radioStatus' = "awake"
  /\ UNCHANGED <<family, end, chip, busyFor, uptime, since>>

\* ... or high, and the driver waits 100 us ...
PollBusy ==
  /\ pc = "poll" /\ Uptime32 <= end
  /\ chip # "ready"
  /\ pc' = "poll_sleep"
  /\ UNCHANGED <<family, radioStatus, todo, end, chip, busyFor, uptime, since>>

PollAgain ==
  /\ pc = "poll_sleep"
  /\ pc' = "poll"
  /\ UNCHANGED <<family, radioStatus, todo, end, chip, busyFor, uptime, since>>

\* ... until the time-out, which is fatal: k_oops.
PollTimeout ==
  /\ pc = "poll" /\ Uptime32 > end
  /\ pc' = "oops"
  /\ UNCHANGED <<family, radioStatus, todo, end, chip, busyFor, uptime, since>>

\* A transfer the chip executes; it may hang.
Transfer ==
  /\ \E step \in {"command", "response"} : AtTodo(step)
  /\ todo' = Tail(todo)
  /\ IF chip = "ready"
     THEN /\ chip' \in {"busy", "ready", "hung"}
          /\ busyFor' = IF chip' = "busy" THEN MaxBusy ELSE 0
     ELSE UNCHANGED <<chip, busyFor>>
  /\ UNCHANGED <<family, radioStatus, pc, end, uptime, since>>

\* Mutant: no delay after SET_SLEEP.
SetSleepNoDelay ==
  /\ AtTodo("sleep")
  /\ todo' = Tail(todo)
  /\ chip' = IF chip = "ready" THEN "falling_asleep" ELSE chip
  /\ radioStatus' = "sleep"
  /\ UNCHANGED <<family, pc, end, busyFor, uptime, since>>

\* SET_SLEEP: the driver notes the sleep and gives the chip 500 us.
SetSleep ==
  /\ AtTodo("sleep")
  /\ todo' = Tail(todo)
  /\ chip' = IF chip = "ready" THEN "falling_asleep" ELSE chip
  /\ radioStatus' = "sleep"
  /\ pc' = "delay"
  /\ UNCHANGED <<family, end, busyFor, uptime, since>>

\* The SPI driver fails; the call returns an error at once.
TransferFails ==
  /\ \E step \in {"command", "response", "sleep"} : AtTodo(step)
  /\ todo' = <<>>
  /\ UNCHANGED <<family, radioStatus, pc, end, chip, busyFor, uptime, since>>

\* The delay is longer than the chip takes.
DelayEnds ==
  /\ pc = "delay" /\ chip # "falling_asleep"
  /\ pc' = "run"
  /\ UNCHANGED <<family, radioStatus, todo, end, chip, busyFor, uptime, since>>

Reset ==
  /\ AtTodo("reset")
  /\ pc' = "reset_delay"
  /\ chip' = "busy" /\ busyFor' = MaxBusy
  /\ UNCHANGED <<family, radioStatus, todo, end, uptime, since>>

\* Mutant: a reset does not record that the chip is awake.
ResetEndsUntracked ==
  /\ pc = "reset_delay"
  /\ pc' = "run"
  /\ todo' = Tail(todo)
  /\ UNCHANGED <<family, radioStatus, end, chip, busyFor, uptime, since>>

ResetEnds ==
  /\ pc = "reset_delay"
  /\ pc' = "run"
  /\ todo' = Tail(todo)
  /\ radioStatus' = "awake"
  /\ UNCHANGED <<family, end, chip, busyFor, uptime, since>>

-----------------------------------------------------------------------------
(* The chip and the clock.                                                 *)

BecomesReady ==
  /\ chip = "busy"
  /\ chip' = "ready" /\ busyFor' = 0
  /\ UNCHANGED <<driver, uptime, since>>

FallsAsleep ==
  /\ chip = "falling_asleep"
  /\ chip' = "asleep"
  /\ UNCHANGED <<driver, busyFor, uptime, since>>

\* The thread is in k_usleep, in a longer sleep, or outside the driver.
Waiting ==
  \/ pc \in {"poll_sleep", "delay", "reset_delay"}
  \/ pc = "run" /\ todo = <<>>

\* A millisecond passes; the chip is ready when its time is over.
Tick ==
  /\ Waiting /\ uptime < Horizon
  /\ chip = "busy" => busyFor > 0
  /\ uptime' = uptime + 1
  /\ busyFor' = IF chip = "busy" THEN busyFor - 1 ELSE busyFor
  /\ pc' = IF pc = "poll_sleep" THEN "poll" ELSE pc
  /\ UNCHANGED <<family, radioStatus, todo, end, chip, since>>

Next ==
  \/ \E call \in Calls : Call(call)
  \/ CheckDeviceReady \/ PollReady \/ PollBusy \/ PollAgain \/ PollTimeout
  \/ Transfer \/ SetSleep \/ TransferFails \/ DelayEnds
  \/ Reset \/ ResetEnds
  \/ BecomesReady \/ FallsAsleep \/ Tick

Spec == Init /\ [][Next]_vars

-----------------------------------------------------------------------------
\* Type invariant; at most four things are left to do in a call.
TypeOK ==
  /\ family \in {"lr11xx", "lr20xx", "sx126x"}
  /\ radioStatus \in {"awake", "sleep"}
  /\ todo \in Seq({"check", "command", "response", "sleep", "reset"})
  /\ Len(todo) <= 4
  /\ pc \in {"run", "poll", "poll_sleep", "delay", "reset_delay", "oops"}
  /\ end \in 0..(Wrap - 1)
  /\ chip \in {"busy", "ready", "hung", "falling_asleep", "asleep"}
  /\ busyFor \in 0..MaxBusy
  /\ uptime \in 0..Horizon /\ since \in 0..uptime

\* The driver knows whether the chip sleeps whenever a call has returned,
\* after errors and resets too (lr11xx_hal.c:93-106, 146-160, 300).
SleepTracked ==
  pc = "run" /\ todo = <<>> =>
    (radioStatus = "sleep" <=> chip \in {"falling_asleep", "asleep"})

\* A transfer is only started when the chip can take it: it is neither asleep
\* nor busy, whatever calls came before (lr11xx_hal.c:87-107).
TransferWhenReady ==
  \A step \in {"command", "response", "sleep"} : AtTodo(step) => chip = "ready"

\* The driver and the chip stay in step: what radio_status says and what is
\* sent (lr11xx_hal.c:87-160).
InStep == SleepTracked /\ TransferWhenReady

\* While the uptime does not wrap, the driver panics only over a chip that
\* hangs: no order of calls, errors, sleeps and resets makes it wait for a
\* chip that is asleep or merely slow (lr11xx_hal.c:53-79, 146-160).
OopsOnlyIfHung == pc = "oops" => chip = "hung"

\* The wait lasts until the BUSY line is inactive "or until
\* CONFIG_LORA_BASICS_MODEM_DRIVERS_HAL_WAIT_ON_BUSY_TIMEOUT_MSEC passes"
\* (lr11xx_hal.c:48-49, sx126x_hal.c:47-48).
TimeoutHonest == pc = "oops" => uptime - since >= Timeout
=============================================================================
