----------------------------- MODULE PortingTests -----------------------------
(* The porting tests: a program that tries the functions of the modem HAL    *)
(* and of the radio driver one after the other, on a port where all of them  *)
(* are right or one is wrong. Each test is the list of what its function     *)
(* does; time passes only where it waits, in units of which a timer has T.   *)
(* The five milliseconds some tests wait before they start are left out.     *)
EXTENDS Integers, Sequences

CONSTANTS T,            \* timer_ms, sleep_ms and the reception time-outs
          Margin,       \* the delay an interrupt may have
          Word          \* random numbers and their bounds are 0 .. Word - 1

ASSUME TimesAssumption ==
    /\ T \in Nat /\ Margin \in Nat /\ T > 2 * (Margin + 1)
    /\ Word \in Nat /\ Word > 5

VARIABLES
    fault,                  \* what the port gets wrong
    test, step,             \* the test that runs, the next of its steps
    verdict,                \* what each test has reported
    radio_irq_raised, irq_rx_timeout_raised, timer_irq_raised,
    irq_time,               \* irq_time_ms or irq_time_s, less the start time
    since,                  \* time since the start time was read, capped
    timer, held,            \* the HAL's timer; prv_modem_irq_pending_while_disabled
    irq_enabled,            \* prv_modem_irq_enabled
    radio, chip_irq,        \* the reception in progress; the chip's interrupt status
    callback                \* the radio callback is between its first and its last statement

flags     == << radio_irq_raised, irq_rx_timeout_raised, timer_irq_raised, irq_time >>
hal       == << timer, held, irq_enabled >>
chip      == << radio, chip_irq, callback >>
testsVars == << fault, test, step, verdict, flags, since, hal, chip >>

\* One function of each list of ported functions in the tests' documentation.
Faults == { "none", "spi", "radio_irq", "get_time", "start_timer", "timer_late",
            "stop_timer", "disable_irq", "enable_irq", "timer_asleep" }

Off     == -1
TooLong == T + Margin + 1

-------------------------------------------------------------------------------
(* The tests.                                                                *)

SpiTest == << "reset_init", "read_version", "pass" >>

RadioIrqTest ==
    << "clear_radio", "reset_init", "setup", "set_rx", "start", "sleep_twice", "expect_radio" >>

GetTimeInSTest ==
    << "clear_radio", "reset_init", "setup", "set_rx", "start", "until_radio", "expect_seconds" >>

GetTimeInMsTest ==
    << "clear_radio", "reset_init", "setup", "start", "set_rx", "until_radio", "expect_millis" >>

TimerIrqTest ==
    << "clear_timer", "stop_timer", "start", "start_timer", "until_timer", "expect_on_time" >>

\* Mutant: the flag of the timer is not cleared first.
StopTimerTestUncleared ==
    << "start_timer", "start", "until_half", "stop_timer", "start", "until_past", "expect_no_timer" >>

StopTimerTest ==
    << "clear_timer", "start_timer", "start", "until_half", "stop_timer", "start", "until_past",
       "expect_no_timer" >>

DisableEnableIrqTest ==
    << "clear_timer", "disable_irq", "start_timer", "start", "until_past", "check_no_timer",
       "enable_irq", "expect_timer" >>

RandomTest == << "draw" >>

\* A configuration that is too long is only a warning; NB_LOOP_TEST_CONFIG_RADIO is 2.
ConfigRxTest ==
    << "clear_radio", "reset_init", "clear_radio", "start", "setup", "clear_radio", "start",
       "setup", "pass" >>

ConfigTxTest ==
    << "clear_radio", "reset_init", "clear_radio", "start", "setup", "set_payload", "clear_radio",
       "start", "setup", "set_payload", "pass" >>

SleepMsTest == << "start", "sleep", "expect_slept" >>

TimerIrqLowPowerTest ==
    << "clear_timer", "stop_timer", "start", "start_timer", "sleep_long", "expect_on_time" >>

\* The order of main(), and the tests whose failure ends it.
Tests == << "spi", "radio_irq", "get_time_in_s", "get_time_in_ms", "timer_irq", "stop_timer",
            "disable_enable_irq", "random", "config_rx", "config_tx", "sleep_ms",
            "timer_irq_low_power" >>

\* Mutant: main() goes on without the radio's interrupt.
FatalButRadio == { "spi", "timer_irq" }

Fatal == { "spi", "radio_irq", "timer_irq" }

Steps ==
    [spi |-> SpiTest, radio_irq |-> RadioIrqTest, get_time_in_s |-> GetTimeInSTest,
     get_time_in_ms |-> GetTimeInMsTest, timer_irq |-> TimerIrqTest, stop_timer |-> StopTimerTest,
     disable_enable_irq |-> DisableEnableIrqTest, random |-> RandomTest,
     config_rx |-> ConfigRxTest, config_tx |-> ConfigTxTest, sleep_ms |-> SleepMsTest,
     timer_irq_low_power |-> TimerIrqLowPowerTest]

Running == test \in 1 .. Len(Tests)
Name    == Tests[test]
At(s)   == Running /\ Steps[Name][step] = s
End     == Len(Tests) + 1

TestsTypeOK ==
    /\ fault \in Faults
    /\ test \in 0 .. End /\ (Running => step \in 1 .. Len(Steps[Name]))
    /\ \A n \in DOMAIN verdict : verdict[n] \in { "none", "ok", "nok" }
    /\ { radio_irq_raised, irq_rx_timeout_raised, timer_irq_raised, held, irq_enabled,
         callback } \subseteq BOOLEAN
    /\ { irq_time, since } \subseteq 0 .. 2 * T + 1
    /\ { timer, radio } \subseteq Off .. TooLong
    /\ chip_irq \in { "none", "timeout", "other" }

TestsInit ==
    /\ fault = "none" /\ test = 0 /\ step = 1
    /\ verdict = [n \in DOMAIN Steps |-> "none"]
    /\ radio_irq_raised = FALSE /\ irq_rx_timeout_raised = FALSE /\ timer_irq_raised = FALSE
    /\ irq_time = 0 /\ since = 0
    /\ timer = Off /\ held = FALSE /\ irq_enabled = TRUE
    /\ radio = Off /\ chip_irq = "none" /\ callback = FALSE

\* main() initializes the HAL, as it was ported.
Boot ==
    /\ test = 0 /\ test' = 1
    /\ fault' \in Faults
    /\ UNCHANGED << step, verdict, flags, since, hal, chip >>

Continue == step' = step + 1 /\ UNCHANGED << test, verdict >>

\* porting_test_get_time() returns when its first half has failed.
AfterFailure ==
    IF Name \in Fatal THEN End ELSE IF Name = "get_time_in_s" THEN test + 2 ELSE test + 1

Report(ok) ==
    /\ verdict' = [verdict EXCEPT ![Name] = IF ok THEN "ok" ELSE "nok"]
    /\ test' = (IF ok THEN test + 1 ELSE AfterFailure)
    /\ step' = 1

-------------------------------------------------------------------------------
(* What the HAL and the chip do for a step.                                  *)

\* smtc_modem_hal_get_time_in_ms, less the start time; wrong, it is too fast.
InMillis(time) == IF fault = "get_time" THEN 2 * time ELSE time

\* A command the chip refuses, or that does not reach it, ends the test.
RadioCalls == { "reset_init", "read_version", "setup", "set_payload", "set_rx" }

ResetInitRadio == radio' = Off /\ chip_irq' = "none"

SetRx == (\E late \in 0 .. Margin : radio' = T + late) /\ UNCHANGED chip_irq

RadioCall ==
    \E c \in RadioCalls :
        /\ At(c)
        /\ IF fault = "spi" THEN Report(FALSE) /\ UNCHANGED << radio, chip_irq >>
           ELSE /\ Continue
                /\ \/ c = "reset_init" /\ ResetInitRadio
                   \/ c = "set_rx" /\ SetRx
                   \/ c \notin { "reset_init", "set_rx" } /\ UNCHANGED << radio, chip_irq >>
        /\ UNCHANGED << fault, flags, since, hal, callback >>

ClearFlags ==
    /\ \/ /\ At("clear_radio") /\ radio_irq_raised' = FALSE
          /\ irq_rx_timeout_raised' = (Name \notin { "get_time_in_s", "get_time_in_ms" }
                                       /\ irq_rx_timeout_raised)
          /\ UNCHANGED timer_irq_raised
       \/ /\ At("clear_timer") /\ timer_irq_raised' = FALSE
          /\ UNCHANGED << radio_irq_raised, irq_rx_timeout_raised >>
    /\ Continue
    /\ UNCHANGED << fault, irq_time, since, hal, chip >>

ReadStartTime ==
    /\ At("start") /\ since' = 0 /\ Continue
    /\ UNCHANGED << fault, flags, hal, chip >>

StartTimer ==
    /\ At("start_timer") /\ Continue
    /\ timer' \in IF fault = "timer_late"  THEN { TooLong }
                  ELSE IF fault = "start_timer" THEN { Off }
                  ELSE T .. T + Margin
    /\ UNCHANGED << fault, flags, since, held, irq_enabled, chip >>

StopTimer ==
    /\ At("stop_timer") /\ Continue
    /\ timer' = IF fault = "stop_timer" THEN timer ELSE Off
    /\ UNCHANGED << fault, flags, since, held, irq_enabled, chip >>

DisableModemIrq ==
    /\ At("disable_irq") /\ Continue
    /\ irq_enabled' = (fault = "disable_irq")
    /\ UNCHANGED << fault, flags, since, timer, held, chip >>

TimerIrqCallback == timer_irq_raised' = TRUE /\ irq_time' = since

EnableModemIrq ==
    /\ At("enable_irq") /\ Continue
    /\ irq_enabled' = TRUE /\ held' = FALSE
    /\ IF held /\ fault # "enable_irq" THEN TimerIrqCallback
                                       ELSE UNCHANGED << timer_irq_raised, irq_time >>
    /\ UNCHANGED << fault, radio_irq_raised, irq_rx_timeout_raised, since, timer, chip >>

-------------------------------------------------------------------------------
(* Waits and verdicts.                                                       *)

WaitIsOver ==
    \/ At("sleep")       /\ since >= T
    \/ At("sleep_twice") /\ since >= 2 * T
    \/ At("sleep_long")  /\ since >= TooLong
    \/ At("until_half")  /\ InMillis(since) >= T \div 2
    \/ At("until_past")  /\ InMillis(since) >= TooLong
    \/ At("until_timer") /\ (timer_irq_raised \/ InMillis(since) >= TooLong)
    \/ At("until_radio") /\ radio_irq_raised

Waiting == \E s \in { "sleep", "sleep_twice", "sleep_long", "until_half", "until_past",
                      "until_timer", "until_radio" } : At(s)

EndWait ==
    /\ WaitIsOver /\ Continue
    /\ UNCHANGED << fault, flags, since, hal, chip >>

OnTime(time) == time \in T .. T + Margin
Near(time)   == time \in T - Margin .. T + Margin

\* The reception must have ended by its time-out, or the test starts again.
\* Seconds are rounded down twice, and compared without a margin.
ExpectTime ==
    /\ At("expect_seconds") \/ At("expect_millis")
    /\ IF ~irq_rx_timeout_raised THEN step' = 1 /\ UNCHANGED << test, verdict >>
       ELSE IF At("expect_millis") THEN Report(Near(InMillis(irq_time)))
       ELSE \E seconds \in { irq_time, irq_time + 1 } : Report(InMillis(seconds) = T)
    /\ UNCHANGED << fault, flags, since, hal, chip >>

\* smtc_modem_hal_get_random_nb_in_range; a range of all numbers loses the last.
RandomNbInRange(val_1, val_2) ==
    LET min   == IF val_1 < val_2 THEN val_1 ELSE val_2
        max   == IF val_1 < val_2 THEN val_2 ELSE val_1
        range == (max - min + 1) % Word
    IN  { (r % (IF range = 0 THEN Word - 1 ELSE range)) + min : r \in 0 .. Word - 1 }

\* Two numbers of the full range, two of a part of it, and how often each
\* number of a range comes up, which is left to chance.
Draw ==
    /\ At("draw")
    /\ LET full == RandomNbInRange(0, Word - 1)
           part == RandomNbInRange(1, 4)
       IN  \E a, b \in full, c, d \in part, even \in BOOLEAN :
               Report(a # 0 /\ b # 0 /\ a # b /\ {c, d} \subseteq 1 .. 4 /\ c # d /\ even)
    /\ UNCHANGED << fault, flags, since, hal, chip >>

Expect ==
    /\ \/ At("pass")            /\ Report(TRUE)
       \/ At("expect_radio")    /\ Report(radio_irq_raised)
       \/ At("expect_on_time")  /\ Report(timer_irq_raised /\ OnTime(InMillis(irq_time)))
       \/ At("expect_no_timer") /\ Report(~timer_irq_raised)
       \/ At("expect_timer")    /\ Report(timer_irq_raised)
       \/ At("expect_slept")    /\ Report(TRUE)   \* any other time is only a warning
       \/ /\ At("check_no_timer")
          /\ IF timer_irq_raised THEN Report(FALSE) ELSE Continue
    /\ UNCHANGED << fault, flags, since, hal, chip >>

TestsMain == \/ Boot \/ RadioCall \/ ClearFlags \/ ReadStartTime \/ StartTimer \/ StopTimer
             \/ DisableModemIrq \/ EnableModemIrq \/ EndWait \/ Expect \/ ExpectTime \/ Draw

-------------------------------------------------------------------------------
(* Interrupts and time.                                                      *)

\* prv_smtc_modem_hal_timer_handler, in the interrupt of the timer.
TimerExpires ==
    /\ timer = 0 /\ timer' = Off
    /\ IF irq_enabled THEN TimerIrqCallback /\ UNCHANGED held
                      ELSE held' = TRUE /\ UNCHANGED << timer_irq_raised, irq_time >>
    /\ UNCHANGED << fault, test, step, verdict, radio_irq_raised, irq_rx_timeout_raised, since,
                    irq_enabled, chip >>

\* The reception ends: the time-out, or a header or packet that is received in
\* spite of the parameters. The callback takes the time, says that it was
\* called, and goes on to talk to the chip: the main thread may run meanwhile.
RadioCallbackStarts ==
    /\ radio # Off /\ ~callback
    /\ radio' = Off
    /\ chip_irq' = (IF radio = 0 THEN "timeout" ELSE "other")
    /\ IF fault = "radio_irq" THEN UNCHANGED << radio_irq_raised, irq_time, callback >>
       ELSE radio_irq_raised' = TRUE /\ irq_time' = since /\ callback' = TRUE
    /\ UNCHANGED << fault, test, step, verdict, irq_rx_timeout_raised, timer_irq_raised, since, hal >>

RadioCallbackEnds ==
    /\ callback /\ callback' = FALSE
    /\ irq_rx_timeout_raised' = (irq_rx_timeout_raised \/ chip_irq = "timeout")
    /\ chip_irq' = "none"
    /\ UNCHANGED << fault, test, step, verdict, radio_irq_raised, timer_irq_raised, irq_time, since,
                    hal, radio >>

Less(n) == IF n = Off THEN Off ELSE n - 1

\* Time passes while the main thread waits and nothing is due.
TimePasses ==
    /\ Waiting /\ ~WaitIsOver
    /\ timer # 0 /\ radio # 0 /\ ~callback
    /\ since' = IF since > 2 * T THEN since ELSE since + 1
    /\ timer' = IF fault = "timer_asleep" /\ At("sleep_long") THEN timer ELSE Less(timer)
    /\ radio' = Less(radio)
    /\ UNCHANGED << fault, test, step, verdict, flags, held, irq_enabled, chip_irq, callback >>

TestsClock == TimerExpires \/ (radio = 0 /\ RadioCallbackStarts) \/ RadioCallbackEnds \/ TimePasses

TestsNext == TestsMain \/ TestsClock \/ RadioCallbackStarts

-------------------------------------------------------------------------------
(* Properties.                                                               *)

\* The test that is there to find a fault.
FoundBy ==
    [spi |-> "spi", radio_irq |-> "radio_irq", get_time |-> "timer_irq",
     start_timer |-> "timer_irq", timer_late |-> "timer_irq", stop_timer |-> "stop_timer",
     disable_irq |-> "disable_enable_irq", enable_irq |-> "disable_enable_irq",
     timer_asleep |-> "timer_irq_low_power"]

\* The tests tell a right port from a wrong one: a fault makes its test fail
\* whatever the tests before it left behind, and on a right port none fails
\* but the draw of random numbers and the time tests, which may by chance
\* (main of the porting tests; the seconds are compared without a margin).
VerdictsRight ==
    test = End =>
        IF fault # "none" THEN verdict[FoundBy[fault]] = "nok"
        ELSE \A n \in DOMAIN verdict :
                 verdict[n] = "nok" => n \in { "get_time_in_s", "get_time_in_ms", "random" }

\* No wait lasts for ever, though those for the radio's interrupt have no
\* time-out: a port that loses it does not get past porting_test_radio_irq.
WaitsEnd == Waiting ~> ~Waiting
===============================================================================
