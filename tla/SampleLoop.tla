------------------------------ MODULE SampleLoop ------------------------------
(* The main thread of a sample, the interrupt of its button, and the tokens  *)
(* that wake the one from the other. The thread is preempted between any two *)
(* of its steps by the button, by the radio's interrupt and by the clock.    *)
EXTENDS Samples, Integers, Sequences

CONSTANTS Programs,     \* the samples that may be running
          TimeWrap,     \* the millisecond counter takes TimeWrap values
          Debounce      \* two presses count when more than Debounce apart

ASSUME ClockAssumption ==
    /\ Programs \subseteq AllSamples
    /\ TimeWrap \in Nat /\ Debounce \in Nat /\ TimeWrap % 2 = 0 /\ Debounce + 1 < TimeWrap \div 2

VARIABLES
    sample,                 \* the sample that was built
    threaded,               \* CONFIG_USP_MAIN_THREAD
    pc,                     \* where the main thread is
    call,                   \* the next call of its current list
    armed,                  \* gpio_add_callback has been called
    user_button_is_press,   \* the flag of the button
    last_press,             \* last_press_timestamp_ms
    now,                    \* smtc_modem_hal_get_time_in_ms()
    elapsed,                \* true time since last_press was taken, capped at half the counter's range
    app_sem,                \* the sample's binary semaphore
    hal_sem,                \* the HAL's event semaphore
    irq_flag,               \* the engine has an interrupt to process
    owed                    \* an accepted press no handler has started for

main   == << pc, call >>
button == << user_button_is_press, last_press, owed >>
clock  == << now, elapsed >>
sampleVars == << sample, threaded, main, armed, button, clock, app_sem, hal_sem, irq_flag >>

Half == TimeWrap \div 2
Cap(n) == IF n > Half THEN Half ELSE n

SampleTypeOK ==
    /\ sample \in Programs /\ threaded \in sample.builds
    /\ pc \in { "configure", "init", "check", "press", "round", "engine", "pending", "flag", "wait", "stopped" }
    /\ call \in 1 .. 8
    /\ { armed, user_button_is_press, irq_flag, owed } \subseteq BOOLEAN
    /\ { last_press, now } \subseteq 0 .. TimeWrap - 1 /\ elapsed \in 0 .. Half
    /\ { app_sem, hal_sem } \subseteq 0 .. 1

SampleInit ==
    /\ sample \in Programs /\ threaded \in sample.builds
    /\ pc = "configure" /\ call = 1 /\ armed = FALSE
    /\ user_button_is_press = FALSE /\ owed = FALSE /\ last_press = 0
    /\ now = 0 /\ elapsed = 0
    /\ app_sem = 0 /\ hal_sem = 0 /\ irq_flag = FALSE

GoTo(where) == pc' = where /\ call' = 1

-------------------------------------------------------------------------------
(* The main thread.                                                          *)

\* Any of the three steps of configure_user_button() may fail; main() returns.
Configure ==
    /\ pc = "configure"
    /\ \/ GoTo("init") /\ armed' = TRUE
       \/ GoTo("stopped") /\ UNCHANGED armed
    /\ UNCHANGED << sample, threaded, button, clock, app_sem, hal_sem, irq_flag >>

InitCall ==
    /\ pc = "init"
    /\ IF call < Len(sample.init) THEN call' = call + 1 /\ UNCHANGED pc ELSE GoTo("check")
    /\ UNCHANGED << sample, threaded, armed, button, clock, app_sem, hal_sem, irq_flag >>

\* Where a round goes once the press, if any, is served.
Served == IF sample.round # << >> THEN "round" ELSE IF threaded THEN "flag" ELSE "engine"

CheckButton ==
    /\ pc = "check"
    /\ user_button_is_press' = FALSE
    /\ GoTo(IF user_button_is_press THEN "press" ELSE Served)
    /\ UNCHANGED << sample, threaded, armed, last_press, owed, clock, app_sem, hal_sem, irq_flag >>

\* Mutant: the flag is cleared when the handler returns, not before it starts.
PressCallThenClear ==
    /\ pc = "press"
    /\ owed' = (owed /\ call # 1)
    /\ IF call < Len(sample.press)
         THEN call' = call + 1 /\ UNCHANGED << pc, user_button_is_press >>
         ELSE GoTo(Served) /\ user_button_is_press' = FALSE
    /\ UNCHANGED << sample, threaded, armed, last_press, clock, app_sem, hal_sem, irq_flag >>

\* A call of the handler. smtc_modem_get_status() ends it when not joined;
\* smtc_modem_hal_wake_up() gives the HAL's semaphore.
PressCall ==
    /\ pc = "press"
    /\ owed' = (owed /\ call # 1)
    /\ IF call < Len(sample.press) THEN
           \/ call' = call + 1 /\ UNCHANGED pc
           \/ sample.press[call] = "smtc_modem_get_status" /\ GoTo(Served)
       ELSE GoTo(Served)
    /\ hal_sem' = IF sample.press[call] = "smtc_modem_hal_wake_up" THEN 1 ELSE hal_sem
    /\ UNCHANGED << sample, threaded, armed, user_button_is_press, last_press, clock, app_sem, irq_flag >>

\* lrfhss: the program ends when the application reports an error.
RoundCall ==
    /\ pc = "round"
    /\ \/ GoTo(IF threaded THEN "flag" ELSE "engine")
       \/ GoTo("stopped")
    /\ UNCHANGED << sample, threaded, armed, button, clock, app_sem, hal_sem, irq_flag >>

RunEngine ==
    /\ pc = "engine"
    /\ irq_flag' = FALSE
    /\ GoTo("pending")
    /\ UNCHANGED << sample, threaded, armed, button, clock, app_sem, hal_sem >>

\* An interrupt since then: another round. FLRP does not sleep while
\* smtc_flrp_call_run() holds.
TestPending ==
    /\ pc = "pending"
    /\ \/ GoTo("wait") /\ ~irq_flag
       \/ GoTo("check") /\ (irq_flag \/ sample = FlrpApi)
    /\ UNCHANGED << sample, threaded, armed, button, clock, app_sem, hal_sem, irq_flag >>

TestFlag ==
    /\ pc = "flag"
    /\ GoTo(IF user_button_is_press THEN "check" ELSE "wait")
    /\ UNCHANGED << sample, threaded, armed, button, clock, app_sem, hal_sem, irq_flag >>

\* k_sem_take, or wait_on_sems over both semaphores: it takes one of those
\* that are available and leaves the other one given.
Woken ==
    /\ pc = "wait"
    /\ \/ app_sem = 1 /\ app_sem' = 0 /\ UNCHANGED hal_sem
       \/ ~threaded /\ hal_sem = 1 /\ hal_sem' = 0 /\ UNCHANGED app_sem
    /\ GoTo("check")
    /\ UNCHANGED << sample, threaded, armed, button, clock, irq_flag >>

\* WATCHDOG_RELOAD_PERIOD_MS has passed, or the next task of the modem is due.
TimedOut ==
    /\ pc = "wait"
    /\ GoTo("check")
    /\ UNCHANGED << sample, threaded, armed, button, clock, app_sem, hal_sem, irq_flag >>

Main == \/ Configure \/ InitCall \/ CheckButton \/ PressCall \/ RoundCall
        \/ RunEngine \/ TestPending \/ TestFlag \/ Woken

-------------------------------------------------------------------------------
(* What interrupts it.                                                       *)

\* Mutant: the times are compared as they are, not their difference.
AcceptedAbsolute(time) == time > last_press + Debounce

\* The difference of two 32-bit times, unsigned or read as an int32_t.
Accepted(time) ==
    LET diff == (time - last_press) % TimeWrap
    IN  diff > Debounce /\ (sample.signed => diff < Half)

\* Mutant: a bounce wakes the main thread and an accepted press does not.
WakesOnBounce(accepted) == ~accepted

Wakes(accepted) == accepted \/ sample.bounces

\* user_button_callback(), in the interrupt. Where it reads the time twice the
\* clock may move in between.
ButtonPressed ==
    /\ armed
    /\ IF Accepted(now)
         THEN \E later \in IF sample.signed THEN 0 .. 1 ELSE { 0 } :
                  /\ now' = (now + later) % TimeWrap
                  /\ last_press' = now' /\ elapsed' = 0
                  /\ user_button_is_press' = TRUE /\ owed' = TRUE
         ELSE UNCHANGED << button, clock >>
    /\ app_sem' = IF Wakes(Accepted(now)) THEN 1 ELSE app_sem
    /\ UNCHANGED << sample, threaded, main, armed, hal_sem, irq_flag >>

\* Where the main thread runs the engine: an interrupt of the radio or of the
\* HAL's timer.
RadioIrq ==
    /\ ~threaded /\ pc \notin { "configure", "init", "stopped" }
    /\ irq_flag' = TRUE /\ hal_sem' = 1
    /\ UNCHANGED << sample, threaded, main, armed, button, clock, app_sem >>

\* Where it does not: the USP thread takes the HAL's semaphore.
UspThreadWakes ==
    /\ threaded /\ hal_sem = 1 /\ hal_sem' = 0
    /\ UNCHANGED << sample, threaded, main, armed, button, clock, app_sem, irq_flag >>

\* Mutant: the counter does not wrap.
TickOn ==
    /\ now' = now + 1 /\ elapsed' = Cap(elapsed + 1)
    /\ UNCHANGED << sample, threaded, main, armed, button, app_sem, hal_sem, irq_flag >>

Tick ==
    /\ now' = (now + 1) % TimeWrap
    /\ elapsed' = Cap(elapsed + 1)
    /\ UNCHANGED << sample, threaded, main, armed, button, app_sem, hal_sem, irq_flag >>

SampleNext == Main \/ TimedOut \/ ButtonPressed \/ RadioIrq \/ UspThreadWakes \/ Tick

-------------------------------------------------------------------------------
(* Properties.                                                               *)

\* An accepted press that no handler has started for is still in the flag, or
\* was just read from it.
NotForgotten == owed => user_button_is_press \/ (pc = "press" /\ call = 1)

\* The main thread never sleeps on a press or on an interrupt of the radio
\* without a token that wakes it.
NotSleptOn ==
    pc = "wait" => /\ user_button_is_press => app_sem = 1
                   /\ irq_flag => hal_sem = 1

\* However the button, the radio and the loop interleave, a press is neither
\* forgotten by the loop that clears the flag nor slept on (main() of every
\* sample against its user_button_callback).
PressKept == NotForgotten /\ NotSleptOn

\* A press is accepted only when more than the debounce has passed since the
\* last one that was, and then always while less than half the range of the
\* counter has, wherever the counter has wrapped (user_button_callback).
DebounceByElapsed ==
    [][ButtonPressed => /\ Accepted(now) => elapsed > Debounce
                        /\ elapsed > Debounce /\ elapsed < Half => Accepted(now)]_sampleVars

\* Every accepted press is served, by a token and not by the time-out of the
\* wait, unless the program has ended.
PressesServed == owed ~> (~owed \/ pc = "stopped")
===============================================================================
