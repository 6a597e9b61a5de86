----------------------------- MODULE UspThread -----------------------------
(***************************************************************************)
(* The USP thread, the application threads and what they share: the        *)
(* initialization handshake (zephyr_usp_initialization.c), rac_api_mutex   *)
(* (smtc_sw_platform_helper.h), the engine loop (zephyr_usp_thread.c) and  *)
(* the binary semaphore it sleeps on (smtc_modem_hal.c).                   *)
(*                                                                         *)
(* Two threading models, chosen at build time (doc/THREAD_MANAGEMENT.md):  *)
(* "preemptive", with rac_api_mutex, where any thread may run next, and    *)
(* "cooperative", without it, where a thread runs until it blocks.         *)
(* The RAC and LBM libraries and the radio are external.                   *)
(***************************************************************************)
EXTENDS Naturals, FiniteSets

CONSTANTS
  Apps,         \* application threads
  Usp,          \* the USP thread
  Nobody,       \* owner of a free mutex
  Modes,        \* threading models, subset of {"preemptive", "cooperative"}
  Unprotected   \* application threads that call the API outside the macros

ASSUME ConstantsAssumption ==
  /\ Usp \notin Apps
  /\ Nobody \notin Apps \cup {Usp}
  /\ Modes \subseteq {"preemptive", "cooperative"}
  /\ Unprotected \subseteq Apps

Threads == Apps \cup {Usp}

VARIABLES
  mode,        \* threading model of the build
  lbm,         \* CONFIG_USP_LORA_BASICS_MODEM
  cpu,         \* cooperative: the thread that has the processor
  pc,          \* the statement each thread is at
  op,          \* API operation each application thread is making
  initOwner,   \* owner of usp_initialization_mutex
  isInited,    \* is_usp_inited
  waiters,     \* threads waiting on usp_initialization_condvar
  halReady,    \* the HAL knows its transceiver
  racOwner,    \* owner of rac_api_mutex
  racDepth,    \* its lock count
  sem,         \* count of lbm_main_loop_sem
  irqFlag,     \* smtc_rac_is_irq_flag_pending
  modemReady,  \* smtc_is_modem_initialized
  modemReq,    \* threads with a modem request the engine has not seen
  racReq       \* threads with a radio transaction in progress

config  == <<mode, lbm>>
handshake == <<initOwner, isInited, waiters, halReady>>
mutex   == <<racOwner, racDepth>>
engine  == <<irqFlag, modemReady, modemReq, racReq>>
vars    == <<config, cpu, pc, op, handshake, mutex, sem, engine>>

Init ==
  /\ mode \in Modes /\ lbm \in BOOLEAN
  /\ cpu = Nobody
  /\ pc = [t \in Threads |-> IF t = Usp THEN "hal_init" ELSE "init_lock"]
  /\ op = [a \in Apps |-> "none"]
  /\ initOwner = Nobody /\ isInited = FALSE /\ waiters = {} /\ halReady = FALSE
  /\ racOwner = Nobody /\ racDepth = 0
  /\ sem = 0
  /\ irqFlag = FALSE /\ modemReady = FALSE /\ modemReq = {} /\ racReq = {}

-----------------------------------------------------------------------------
(* Scheduling.                                                             *)

\* Where a thread gives up the processor of its own accord.  The radio drivers
\* sleep between and inside SPI commands ("driver").
Blocked(t) ==
  \/ pc[t] \in {"sleep", "nap", "driver", "engine_driver", "cond_wait", "app_wait"}
  \/ pc[t] \in {"init_lock", "init_relock", "notify_lock"} /\ initOwner # Nobody

\* A cooperative thread keeps the processor until it blocks.
Scheduled(t) ==
  IF mode = "preemptive" THEN UNCHANGED cpu
  ELSE /\ IF cpu \in {t, Nobody} THEN TRUE ELSE Blocked(cpu)
       /\ cpu' = t

\* Thread t runs its statement s and goes on with the statement n.
Step(t, s, n) ==
  /\ pc[t] = s
  /\ Scheduled(t)
  /\ pc' = [pc EXCEPT ![t] = n]

\* k_mutex_lock and k_mutex_unlock of rac_api_mutex, which is recursive;
\* the cooperative build does not have it.
LockRac(t) ==
  IF mode = "cooperative" \/ t \in Unprotected THEN UNCHANGED mutex
  ELSE /\ racOwner \in {Nobody, t}
       /\ racOwner' = t
       /\ racDepth' = racDepth + 1

\* Mutant: the mutex is released whatever its lock count.
UnlockRacOutright(t) ==
  IF mode = "cooperative" \/ t \in Unprotected THEN UNCHANGED mutex
  ELSE racDepth' = 0 /\ racOwner' = Nobody

UnlockRac(t) ==
  IF mode = "cooperative" \/ t \in Unprotected THEN UNCHANGED mutex
  ELSE /\ racDepth' = racDepth - 1
       /\ racOwner' = IF racDepth = 1 THEN Nobody ELSE t

\* Mutant: the semaphore has no limit of one.
WakeUpCounting == sem' = sem + 1

\* smtc_modem_hal_wake_up: k_sem_give on a binary semaphore
WakeUp == sem' = 1

-----------------------------------------------------------------------------
(* zephyr_usp_initialization_wait, by the application threads.             *)

InitLock(a, s) ==
  /\ Step(a, s, "init_check")
  /\ initOwner = Nobody
  /\ initOwner' = a
  /\ UNCHANGED <<config, op, isInited, waiters, halReady, mutex, sem, engine>>

\* k_condvar_wait releases the mutex and starts waiting in one step.
InitCheck(a) ==
  /\ Step(a, "init_check", IF isInited THEN "init_unlock" ELSE "cond_wait")
  /\ IF isInited THEN UNCHANGED <<initOwner, waiters>>
                 ELSE initOwner' = Nobody /\ waiters' = waiters \cup {a}
  /\ UNCHANGED <<config, op, isInited, halReady, mutex, sem, engine>>

CondWoken(a) ==
  /\ Step(a, "cond_wait", "init_relock")
  /\ a \notin waiters
  /\ UNCHANGED <<config, op, handshake, mutex, sem, engine>>

InitUnlock(a) ==
  /\ Step(a, "init_unlock", "app_wait")
  /\ initOwner' = Nobody
  /\ UNCHANGED <<config, op, isInited, waiters, halReady, mutex, sem, engine>>

-----------------------------------------------------------------------------
(* API calls of the application threads through SMTC_SW_PLATFORM.          *)

\* What an application may ask for: to initialize the modem, which comes
\* first, then modem requests and radio transactions.
Ops == IF lbm /\ ~modemReady THEN {"modem_init"}
       ELSE IF lbm THEN {"modem", "rac"} ELSE {"rac"}

\* A button, an event or a time-out makes the application call the API.
AppCall(a) ==
  /\ Step(a, "app_wait", "api_lock")
  /\ \E o \in Ops : op' = [op EXCEPT ![a] = o]
  /\ UNCHANGED <<config, handshake, mutex, sem, engine>>

ApiLock(a) ==
  /\ Step(a, "api_lock", "api")
  /\ LockRac(a)
  /\ UNCHANGED <<config, op, handshake, sem, engine>>

\* The call; it may sleep in the radio driver before it is done.
Api(a) ==
  /\ \/ Step(a, "api", "driver") \/ Step(a, "api", "api_unlock")
  /\ \/ op[a] = "modem_init" /\ modemReady' = TRUE /\ UNCHANGED <<modemReq, racReq>>
     \/ op[a] = "modem" /\ modemReq' = modemReq \cup {a} /\ UNCHANGED <<modemReady, racReq>>
     \/ op[a] = "rac" /\ racReq' = racReq \cup {a} /\ UNCHANGED <<modemReady, modemReq>>
  /\ UNCHANGED <<config, op, handshake, mutex, sem, irqFlag>>

ApiDriver(a) ==
  /\ Step(a, "driver", "api_unlock")
  /\ UNCHANGED <<config, op, handshake, mutex, sem, engine>>

\* Mutant: the application does not wake the engine up.
ApiUnlockSilent(a) ==
  /\ Step(a, "api_unlock", "app_wait")
  /\ UnlockRac(a)
  /\ UNCHANGED <<config, op, handshake, sem, engine>>

ApiUnlock(a) ==
  /\ Step(a, "api_unlock", IF op[a] = "modem" THEN "wake" ELSE "app_wait")
  /\ UnlockRac(a)
  /\ UNCHANGED <<config, op, handshake, sem, engine>>

\* After a modem request the application wakes the engine up.
AppWake(a) ==
  /\ Step(a, "wake", "app_wait")
  /\ WakeUp
  /\ UNCHANGED <<config, op, handshake, mutex, engine>>

-----------------------------------------------------------------------------
(* The radio or its timer interrupts: the callback of the RAC library sets *)
(* its flag and calls smtc_modem_hal_user_lbm_irq.                         *)
Interrupt ==
  /\ racReq # {}
  /\ irqFlag' = TRUE
  /\ WakeUp
  /\ UNCHANGED <<config, cpu, pc, op, handshake, mutex, modemReady, modemReq, racReq>>

-----------------------------------------------------------------------------
(* usp_main_thread.                                                        *)

HalInit ==
  /\ Step(Usp, "hal_init", "notify_lock")
  /\ halReady' = TRUE
  /\ UNCHANGED <<config, op, initOwner, isInited, waiters, mutex, sem, engine>>

\* zephyr_usp_initialization_notify
NotifyLock ==
  /\ Step(Usp, "notify_lock", "notify_set")
  /\ initOwner = Nobody
  /\ initOwner' = Usp
  /\ UNCHANGED <<config, op, isInited, waiters, halReady, mutex, sem, engine>>

NotifySet ==
  /\ Step(Usp, "notify_set", "notify_broadcast")
  /\ isInited' = TRUE
  /\ UNCHANGED <<config, op, initOwner, waiters, halReady, mutex, sem, engine>>

\* Mutant: k_condvar_signal, which wakes one waiter.
NotifyBroadcastOne ==
  /\ Step(Usp, "notify_broadcast", "notify_unlock")
  /\ IF waiters = {} THEN UNCHANGED waiters
     ELSE \E w \in waiters : waiters' = waiters \ {w}
  /\ UNCHANGED <<config, op, initOwner, isInited, halReady, mutex, sem, engine>>

NotifyBroadcast ==
  /\ Step(Usp, "notify_broadcast", "notify_unlock")
  /\ waiters' = {}
  /\ UNCHANGED <<config, op, initOwner, isInited, halReady, mutex, sem, engine>>

NotifyUnlock ==
  /\ Step(Usp, "notify_unlock", "lock")
  /\ initOwner' = Nobody
  /\ UNCHANGED <<config, op, isInited, waiters, halReady, mutex, sem, engine>>

Lock ==
  /\ Step(Usp, "lock", "modem_check")
  /\ LockRac(Usp)
  /\ UNCHANGED <<config, op, handshake, sem, engine>>

\* Mutant: the early exit of the loop body does not unlock.
ModemCheckLocked ==
  /\ Step(Usp, "modem_check", IF lbm /\ ~modemReady THEN "nap" ELSE "engine")
  /\ UNCHANGED <<config, op, handshake, mutex, sem, engine>>

ModemCheck ==
  /\ Step(Usp, "modem_check", IF lbm /\ ~modemReady THEN "unlock_nap" ELSE "engine")
  /\ UNCHANGED <<config, op, handshake, mutex, sem, engine>>

\* The engines run: they see the modem requests, and an interrupt completes
\* the radio transactions, whose callbacks run in this thread.
RunEngine ==
  /\ \/ Step(Usp, "engine", "engine_driver")
     \/ racReq # {} /\ irqFlag /\ Step(Usp, "engine", "callback")
     \/ Step(Usp, "engine", "unlock")
  /\ modemReq' = {}
  /\ racReq' = IF irqFlag THEN {} ELSE racReq
  /\ irqFlag' = FALSE
  /\ UNCHANGED <<config, op, handshake, mutex, sem, modemReady>>

EngineDriver ==
  /\ Step(Usp, "engine_driver", "unlock")
  /\ UNCHANGED <<config, op, handshake, mutex, sem, engine>>

\* A callback starts the next transaction, locking the mutex a second time.
CallbackLock ==
  /\ Step(Usp, "callback", "callback_submit")
  /\ LockRac(Usp)
  /\ UNCHANGED <<config, op, handshake, sem, engine>>

CallbackSubmit(a) ==
  /\ Step(Usp, "callback_submit", "callback_unlock")
  /\ racReq' = racReq \cup {a}
  /\ UNCHANGED <<config, op, handshake, mutex, sem, irqFlag, modemReady, modemReq>>

CallbackUnlock ==
  /\ Step(Usp, "callback_unlock", "unlock")
  /\ UnlockRac(Usp)
  /\ UNCHANGED <<config, op, handshake, sem, engine>>

Unlock(s, n) ==
  /\ Step(Usp, s, n)
  /\ UnlockRac(Usp)
  /\ UNCHANGED <<config, op, handshake, sem, engine>>

\* Mutant: the semaphore is reset before the sleep.
IrqCheckReset ==
  /\ Step(Usp, "irq_check", IF irqFlag THEN "lock" ELSE "sleep")
  /\ sem' = 0
  /\ UNCHANGED <<config, op, handshake, mutex, engine>>

IrqCheck ==
  /\ Step(Usp, "irq_check", IF irqFlag THEN "lock" ELSE "sleep")
  /\ UNCHANGED <<config, op, handshake, mutex, sem, engine>>

\* smtc_modem_hal_interruptible_msleep ends on the semaphore ...
Woken ==
  /\ \E s \in {"nap", "sleep"} : Step(Usp, s, "lock")
  /\ sem = 1
  /\ sem' = 0
  /\ UNCHANGED <<config, op, handshake, mutex, engine>>

\* ... or on its time-out.
TimedOut ==
  /\ \E s \in {"nap", "sleep"} : Step(Usp, s, "lock")
  /\ sem = 0
  /\ UNCHANGED <<config, op, handshake, mutex, sem, engine>>

-----------------------------------------------------------------------------
AppStep(a) ==
  \/ InitLock(a, "init_lock") \/ InitLock(a, "init_relock")
  \/ InitCheck(a) \/ CondWoken(a) \/ InitUnlock(a)
  \/ ApiLock(a) \/ Api(a) \/ ApiDriver(a) \/ ApiUnlock(a) \/ AppWake(a)

UspStep ==
  \/ HalInit \/ NotifyLock \/ NotifySet \/ NotifyBroadcast \/ NotifyUnlock
  \/ Lock \/ ModemCheck \/ RunEngine \/ EngineDriver
  \/ CallbackLock \/ (\E a \in Apps : CallbackSubmit(a)) \/ CallbackUnlock
  \/ Unlock("unlock_nap", "nap") \/ Unlock("unlock", "irq_check")
  \/ IrqCheck \/ Woken

Next ==
  \/ \E a \in Apps : AppStep(a) \/ AppCall(a)
  \/ UspStep
  \/ TimedOut
  \/ Interrupt

Spec == Init /\ [][Next]_vars

\* Every thread that can run does; a mutex is handed to the most urgent
\* waiter when it is released, so no waiter is passed over for ever.  The nap
\* is short.  Nothing is assumed of the time-out of the main sleep.
Fairness ==
  /\ \A a \in Apps : SF_vars(AppStep(a))
  /\ SF_vars(UspStep)
  /\ SF_vars(pc[Usp] = "nap" /\ TimedOut)
  /\ WF_vars(Interrupt)

FairSpec == Spec /\ Fairness

-----------------------------------------------------------------------------
AppPoints == {"init_lock", "init_check", "cond_wait", "init_relock",
              "init_unlock", "app_wait", "api_lock", "api", "driver",
              "api_unlock", "wake"}

UspPoints == {"hal_init", "notify_lock", "notify_set", "notify_broadcast",
              "notify_unlock", "lock", "modem_check", "engine",
              "engine_driver", "callback", "callback_submit",
              "callback_unlock", "unlock", "unlock_nap", "nap", "irq_check",
              "sleep"}

\* Type invariant; the lock count of rac_api_mutex never exceeds two, one for
\* the engine and one for the callback it runs.
TypeOK ==
  /\ mode \in Modes /\ lbm \in BOOLEAN
  /\ cpu \in Threads \cup {Nobody}
  /\ pc \in [Threads -> AppPoints \cup UspPoints]
  /\ pc[Usp] \in UspPoints /\ \A a \in Apps : pc[a] \in AppPoints
  /\ op \in [Apps -> {"none", "modem_init", "modem", "rac"}]
  /\ initOwner \in Threads \cup {Nobody} /\ isInited \in BOOLEAN
  /\ waiters \subseteq Apps /\ halReady \in BOOLEAN
  /\ racOwner \in Threads \cup {Nobody} /\ racDepth \in 0..2
  /\ sem \in {0, 1}
  /\ irqFlag \in BOOLEAN /\ modemReady \in BOOLEAN
  /\ modemReq \subseteq Apps /\ racReq \subseteq Apps

\* Where a thread is inside the RAC or LBM library.
InApi(t) ==
  pc[t] \in {"api", "driver", "api_unlock", "modem_check", "engine",
             "engine_driver", "callback", "callback_submit",
             "callback_unlock", "unlock", "unlock_nap"}

Exclusive == \A t, u \in Threads : InApi(t) /\ InApi(u) => t = u

\* In the preemptive build no two threads are inside the libraries at once,
\* although callbacks lock rac_api_mutex again (smtc_sw_platform_helper.h:75-87,
\* zephyr_usp_thread.c:113-135).
ApiExclusive == mode = "preemptive" => Exclusive

\* The same claimed of the cooperative build, which has no mutex
\* (doc/THREAD_MANAGEMENT.md:28 "None (safe by design)", :101).
CooperativeExclusive == mode = "cooperative" => Exclusive

\* The engine sleeps on its semaphore only if there is nothing it has been
\* woken for: no interrupt flag is pending, and whoever made a modem request
\* has yet to call smtc_modem_hal_wake_up (zephyr_usp_thread.c:136-151).
NoLostWakeUp ==
  pc[Usp] = "sleep" /\ sem = 0 =>
    /\ ~irqFlag
    /\ \A a \in modemReq : op[a] = "modem" /\ pc[a] \in {"driver", "api_unlock", "wake"}

\* The USP thread never sleeps, and an application never waits, with the API
\* mutex in hand, also on the path that skips the engine
\* (zephyr_usp_thread.c:117-124).
SleepsUnlocked ==
  racOwner # Nobody => pc[racOwner] \notin {"sleep", "nap", "app_wait", "wake", "irq_check"}

\* The engine sleeps on nothing that it or another thread waits for
\* (zephyr_usp_thread.c:117-151).
SleepsSafely == NoLostWakeUp /\ SleepsUnlocked

\* No application is left waiting for the initialization, and none reaches the
\* API before it (zephyr_usp_initialization.c:71-87).
InitHandshake ==
  /\ pc[Usp] \notin {"hal_init", "notify_lock", "notify_set", "notify_broadcast"}
       => waiters = {}
  /\ \A a \in Apps : pc[a] \in AppPoints \ {"init_lock", "init_check", "cond_wait",
                                           "init_relock"} => isInited /\ halReady

\* Modem requests reach the engine without the help of the main time-out, and
\* every radio transaction completes.
RequestsServed ==
  \A a \in Apps : /\ a \in modemReq ~> a \notin modemReq
                  /\ a \in racReq ~> a \notin racReq
=============================================================================
