-------------------------- MODULE UspThreadProofs --------------------------
(***************************************************************************)
(* Proofs about UspThread, for any number of application threads and both  *)
(* threading models: the initialization handshake, the mutual exclusion of *)
(* the protected threads, and the sleep that misses no wake-up.            *)
(***************************************************************************)
EXTENDS UspThread, TLAPS

-----------------------------------------------------------------------------
(* The inductive invariant.                                                *)

\* How far the USP thread has come with the notification.
BeforeHal       == {"hal_init"}
BeforeSet       == {"hal_init", "notify_lock", "notify_set"}
BeforeBroadcast == {"hal_init", "notify_lock", "notify_set", "notify_broadcast"}

Notified ==
  /\ halReady <=> pc[Usp] \notin BeforeHal
  /\ isInited <=> pc[Usp] \notin BeforeSet
  /\ pc[Usp] \notin BeforeBroadcast => waiters = {}
  /\ \A a \in Apps : pc[a] \in AppPoints \ {"init_lock", "init_check", "cond_wait",
                                            "init_relock"} => isInited

\* The owner of rac_api_mutex is the one protected thread that is in the
\* libraries; it has locked twice exactly where a callback has.
Protected == Threads \ Unprotected
Twice     == {"callback_submit", "callback_unlock"}

MutexHeld ==
  /\ mode = "cooperative" => racOwner = Nobody
  /\ racOwner \in Protected \cup {Nobody}
  /\ racDepth = IF racOwner = Nobody THEN 0
                ELSE IF racOwner = Usp /\ pc[Usp] \in Twice THEN 2 ELSE 1
  /\ mode = "preemptive" => \A t \in Protected : InApi(t) <=> racOwner = t

\* A modem request is still to be seen by the engine on its way there, or it
\* has given the semaphore, or the application that made it is about to.
OnTheWay == UspPoints \ {"engine_driver", "callback", "callback_submit",
                         "callback_unlock", "unlock", "irq_check", "sleep"}

WakeUpOwed ==
  /\ \A a \in modemReq : \/ pc[Usp] \in OnTheWay \/ sem = 1
                         \/ op[a] = "modem" /\ pc[a] \in {"driver", "api_unlock", "wake"}
  /\ pc[Usp] = "sleep" /\ irqFlag => sem = 1

IInv == TypeOK /\ Notified /\ MutexHeld /\ WakeUpOwed

-----------------------------------------------------------------------------
(* The inductive invariant holds initially and is kept.                    *)

\* The initial states satisfy the inductive invariant.
LEMMA InitIInv == Init => IInv
<1> SUFFICES ASSUME Init PROVE IInv
  OBVIOUS
<1> USE ConstantsAssumption DEF Init, Threads
<1>1. TypeOK
  <2>1. "hal_init" \in UspPoints /\ "init_lock" \in AppPoints
    BY DEF AppPoints, UspPoints
  <2>2. /\ pc \in [Threads -> AppPoints \cup UspPoints]
        /\ pc[Usp] \in UspPoints /\ \A a \in Apps : pc[a] \in AppPoints
    BY <2>1
  <2>3. /\ op \in [Apps -> {"none", "modem_init", "modem", "rac"}]
        /\ racDepth \in 0..2 /\ sem \in {0, 1}
    OBVIOUS
  <2>4. /\ mode \in Modes /\ lbm \in BOOLEAN /\ cpu \in Threads \cup {Nobody}
        /\ initOwner \in Threads \cup {Nobody} /\ isInited \in BOOLEAN
        /\ waiters \subseteq Apps /\ halReady \in BOOLEAN
        /\ racOwner \in Threads \cup {Nobody} /\ irqFlag \in BOOLEAN
        /\ modemReady \in BOOLEAN /\ modemReq \subseteq Apps /\ racReq \subseteq Apps
    BY Zenon
  <2> QED
    BY <2>2, <2>3, <2>4, Zenon DEF TypeOK
<1>2. Notified
  BY DEF Notified, BeforeHal, BeforeSet, BeforeBroadcast, AppPoints
<1>3. MutexHeld
  BY DEF MutexHeld, Protected, InApi
<1>4. WakeUpOwed
  BY DEF WakeUpOwed
<1> QED
  BY <1>1, <1>2, <1>3, <1>4 DEF IInv

\* The statement a thread runs is where it was, and it alone moves.
LEMMA StepMoves ==
  ASSUME NEW t \in Threads, NEW s, NEW n, TypeOK, Step(t, s, n)
  PROVE  /\ pc[t] = s /\ pc' = [pc EXCEPT ![t] = n]
         /\ pc'[t] = n /\ \A u \in Threads \ {t} : pc'[u] = pc[u]
         /\ cpu' \in Threads \cup {Nobody}
  BY DEF TypeOK, Step, Scheduled


\* Every step keeps the order of the notification.
LEMMA NextNotified == ASSUME Notified, TypeOK, [Next]_vars PROVE Notified'
<1> USE ConstantsAssumption
<1> USE DEF Notified, TypeOK, Step, Threads, AppPoints, UspPoints, BeforeHal, BeforeSet,
            BeforeBroadcast, vars, config, handshake, mutex, engine
<1>1. CASE \E a \in Apps : InitLock(a, "init_lock") \/ InitLock(a, "init_relock")
  BY <1>1 DEF InitLock
<1>2. CASE \E a \in Apps : InitCheck(a)
  BY <1>2 DEF InitCheck
<1>3. CASE \E a \in Apps : CondWoken(a)
  BY <1>3 DEF CondWoken
<1>4. CASE \E a \in Apps : InitUnlock(a)
  BY <1>4 DEF InitUnlock
<1>5. CASE \E a \in Apps : AppCall(a)
  BY <1>5 DEF AppCall
<1>6. CASE \E a \in Apps : ApiLock(a)
  BY <1>6 DEF ApiLock
<1>7. CASE \E a \in Apps : Api(a)
  BY <1>7 DEF Api
<1>8. CASE \E a \in Apps : ApiDriver(a)
  BY <1>8 DEF ApiDriver
<1>9. CASE \E a \in Apps : ApiUnlock(a)
  BY <1>9 DEF ApiUnlock
<1>10. CASE \E a \in Apps : AppWake(a)
  BY <1>10 DEF AppWake
<1>11. CASE HalInit
  BY <1>11 DEF HalInit
<1>12. CASE NotifyLock
  BY <1>12 DEF NotifyLock
<1>13. CASE NotifySet
  BY <1>13 DEF NotifySet
<1>14. CASE NotifyBroadcast
  BY <1>14 DEF NotifyBroadcast
<1>15. CASE NotifyUnlock
  BY <1>15 DEF NotifyUnlock
<1>16. CASE Lock
  BY <1>16 DEF Lock
<1>17. CASE ModemCheck
  BY <1>17 DEF ModemCheck
<1>18. CASE RunEngine
  BY <1>18 DEF RunEngine
<1>19. CASE EngineDriver
  BY <1>19 DEF EngineDriver
<1>20. CASE CallbackLock
  BY <1>20 DEF CallbackLock
<1>21. CASE \E a \in Apps : CallbackSubmit(a)
  BY <1>21 DEF CallbackSubmit
<1>22. CASE CallbackUnlock
  BY <1>22 DEF CallbackUnlock
<1>23. CASE Unlock("unlock_nap", "nap") \/ Unlock("unlock", "irq_check")
  BY <1>23 DEF Unlock
<1>24. CASE IrqCheck
  BY <1>24 DEF IrqCheck
<1>25. CASE Woken
  BY <1>25 DEF Woken
<1>26. CASE TimedOut
  BY <1>26 DEF TimedOut
<1>27. CASE Interrupt
  BY <1>27 DEF Interrupt
<1>28. CASE UNCHANGED vars
  BY <1>28 DEF vars
<1> QED
  BY <1>1, <1>2, <1>3, <1>4, <1>5, <1>6, <1>7, <1>8, <1>9, <1>10, <1>11, <1>12,
     <1>13, <1>14, <1>15, <1>16, <1>17, <1>18, <1>19, <1>20, <1>21, <1>22,
     <1>23, <1>24, <1>25, <1>26, <1>27, <1>28 DEF Next, AppStep, UspStep

\* Every step keeps what the engine is owed.
LEMMA NextWakeUpOwed == ASSUME WakeUpOwed, TypeOK, [Next]_vars PROVE WakeUpOwed'
<1> USE ConstantsAssumption
<1> USE DEF WakeUpOwed, OnTheWay, TypeOK, Step, Threads, AppPoints, UspPoints, WakeUp,
            vars, config, handshake, mutex, engine
<1>1. CASE \E a \in Apps : InitLock(a, "init_lock") \/ InitLock(a, "init_relock")
  BY <1>1 DEF InitLock
<1>2. CASE \E a \in Apps : InitCheck(a)
  BY <1>2 DEF InitCheck
<1>3. CASE \E a \in Apps : CondWoken(a)
  BY <1>3 DEF CondWoken
<1>4. CASE \E a \in Apps : InitUnlock(a)
  BY <1>4 DEF InitUnlock
<1>5. CASE \E a \in Apps : AppCall(a)
  BY <1>5 DEF AppCall
<1>6. CASE \E a \in Apps : ApiLock(a)
  BY <1>6 DEF ApiLock
<1>7. CASE \E a \in Apps : Api(a)
  BY <1>7 DEF Api
<1>8. CASE \E a \in Apps : ApiDriver(a)
  BY <1>8 DEF ApiDriver
<1>9. CASE \E a \in Apps : ApiUnlock(a)
  BY <1>9 DEF ApiUnlock
<1>10. CASE \E a \in Apps : AppWake(a)
  BY <1>10 DEF AppWake
<1>11. CASE HalInit
  BY <1>11 DEF HalInit
<1>12. CASE NotifyLock
  BY <1>12 DEF NotifyLock
<1>13. CASE NotifySet
  BY <1>13 DEF NotifySet
<1>14. CASE NotifyBroadcast
  BY <1>14 DEF NotifyBroadcast
<1>15. CASE NotifyUnlock
  BY <1>15 DEF NotifyUnlock
<1>16. CASE Lock
  BY <1>16 DEF Lock
<1>17. CASE ModemCheck
  BY <1>17 DEF ModemCheck
<1>18. CASE RunEngine
  BY <1>18 DEF RunEngine
<1>19. CASE EngineDriver
  BY <1>19 DEF EngineDriver
<1>20. CASE CallbackLock
  BY <1>20 DEF CallbackLock
<1>21. CASE \E a \in Apps : CallbackSubmit(a)
  BY <1>21 DEF CallbackSubmit
<1>22. CASE CallbackUnlock
  BY <1>22 DEF CallbackUnlock
<1>23. CASE Unlock("unlock_nap", "nap") \/ Unlock("unlock", "irq_check")
  BY <1>23 DEF Unlock
<1>24. CASE IrqCheck
  BY <1>24 DEF IrqCheck
<1>25. CASE Woken
  BY <1>25 DEF Woken
<1>26. CASE TimedOut
  BY <1>26 DEF TimedOut
<1>27. CASE Interrupt
  BY <1>27 DEF Interrupt
<1>28. CASE UNCHANGED vars
  BY <1>28 DEF vars
<1> QED
  BY <1>1, <1>2, <1>3, <1>4, <1>5, <1>6, <1>7, <1>8, <1>9, <1>10, <1>11, <1>12,
     <1>13, <1>14, <1>15, <1>16, <1>17, <1>18, <1>19, <1>20, <1>21, <1>22,
     <1>23, <1>24, <1>25, <1>26, <1>27, <1>28 DEF Next, AppStep, UspStep

\* Every step keeps the owner of the API mutex and its lock count.
LEMMA NextMutexHeld == ASSUME MutexHeld, TypeOK, [Next]_vars PROVE MutexHeld'
<1> USE ConstantsAssumption
<1> USE DEF MutexHeld, Protected, Twice, InApi, TypeOK, Step, Threads, AppPoints,
            UspPoints, LockRac, UnlockRac, vars, config, handshake, mutex, engine
<1>1. CASE \E a \in Apps : InitLock(a, "init_lock") \/ InitLock(a, "init_relock")
  BY <1>1 DEF InitLock
<1>2. CASE \E a \in Apps : InitCheck(a)
  BY <1>2 DEF InitCheck
<1>3. CASE \E a \in Apps : CondWoken(a)
  BY <1>3 DEF CondWoken
<1>4. CASE \E a \in Apps : InitUnlock(a)
  BY <1>4 DEF InitUnlock
<1>5. CASE \E a \in Apps : AppCall(a)
  BY <1>5 DEF AppCall
<1>6. CASE \E a \in Apps : ApiLock(a)
  BY <1>6 DEF ApiLock
<1>7. CASE \E a \in Apps : Api(a)
  BY <1>7 DEF Api
<1>8. CASE \E a \in Apps : ApiDriver(a)
  BY <1>8 DEF ApiDriver
<1>9. CASE \E a \in Apps : ApiUnlock(a)
  BY <1>9 DEF ApiUnlock
<1>10. CASE \E a \in Apps : AppWake(a)
  BY <1>10 DEF AppWake
<1>11. CASE HalInit
  BY <1>11 DEF HalInit
<1>12. CASE NotifyLock
  BY <1>12 DEF NotifyLock
<1>13. CASE NotifySet
  BY <1>13 DEF NotifySet
<1>14. CASE NotifyBroadcast
  BY <1>14 DEF NotifyBroadcast
<1>15. CASE NotifyUnlock
  BY <1>15 DEF NotifyUnlock
<1>16. CASE Lock
  BY <1>16 DEF Lock
<1>17. CASE ModemCheck
  BY <1>17 DEF ModemCheck
<1>18. CASE RunEngine
  BY <1>18 DEF RunEngine
<1>19. CASE EngineDriver
  BY <1>19 DEF EngineDriver
<1>20. CASE CallbackLock
  BY <1>20 DEF CallbackLock
<1>21. CASE \E a \in Apps : CallbackSubmit(a)
  BY <1>21 DEF CallbackSubmit
<1>22. CASE CallbackUnlock
  BY <1>22 DEF CallbackUnlock
<1>23. CASE Unlock("unlock_nap", "nap") \/ Unlock("unlock", "irq_check")
  BY <1>23 DEF Unlock
<1>24. CASE IrqCheck
  BY <1>24 DEF IrqCheck
<1>25. CASE Woken
  BY <1>25 DEF Woken
<1>26. CASE TimedOut
  BY <1>26 DEF TimedOut
<1>27. CASE Interrupt
  BY <1>27 DEF Interrupt
<1>28. CASE UNCHANGED vars
  BY <1>28 DEF vars
<1> QED
  BY <1>1, <1>2, <1>3, <1>4, <1>5, <1>6, <1>7, <1>8, <1>9, <1>10, <1>11, <1>12,
     <1>13, <1>14, <1>15, <1>16, <1>17, <1>18, <1>19, <1>20, <1>21, <1>22,
     <1>23, <1>24, <1>25, <1>26, <1>27, <1>28 DEF Next, AppStep, UspStep

\* The Boolean variables, whose types Zenon proves best.
Flags ==
  /\ lbm \in BOOLEAN /\ isInited \in BOOLEAN /\ halReady \in BOOLEAN
  /\ irqFlag \in BOOLEAN /\ modemReady \in BOOLEAN


\* Every step keeps the types of the flags.
LEMMA NextFlags == ASSUME Flags, TypeOK, [Next]_vars PROVE Flags'
<1> USE DEF Flags, Step, vars, config, handshake, mutex, engine
<1>1. CASE \E a \in Apps : InitLock(a, "init_lock") \/ InitLock(a, "init_relock")
  BY <1>1, Zenon DEF InitLock
<1>2. CASE \E a \in Apps : InitCheck(a)
  BY <1>2, Zenon DEF InitCheck
<1>3. CASE \E a \in Apps : CondWoken(a)
  BY <1>3, Zenon DEF CondWoken
<1>4. CASE \E a \in Apps : InitUnlock(a)
  BY <1>4, Zenon DEF InitUnlock
<1>5. CASE \E a \in Apps : AppCall(a)
  BY <1>5, Zenon DEF AppCall
<1>6. CASE \E a \in Apps : ApiLock(a)
  BY <1>6, Zenon DEF ApiLock
<1>7. CASE \E a \in Apps : Api(a)
  BY <1>7, Zenon DEF Api
<1>8. CASE \E a \in Apps : ApiDriver(a)
  BY <1>8, Zenon DEF ApiDriver
<1>9. CASE \E a \in Apps : ApiUnlock(a)
  BY <1>9, Zenon DEF ApiUnlock
<1>10. CASE \E a \in Apps : AppWake(a)
  BY <1>10, Zenon DEF AppWake
<1>11. CASE HalInit
  BY <1>11, Zenon DEF HalInit
<1>12. CASE NotifyLock
  BY <1>12, Zenon DEF NotifyLock
<1>13. CASE NotifySet
  BY <1>13, Zenon DEF NotifySet
<1>14. CASE NotifyBroadcast
  BY <1>14, Zenon DEF NotifyBroadcast
<1>15. CASE NotifyUnlock
  BY <1>15, Zenon DEF NotifyUnlock
<1>16. CASE Lock
  BY <1>16, Zenon DEF Lock
<1>17. CASE ModemCheck
  BY <1>17, Zenon DEF ModemCheck
<1>18. CASE RunEngine
  BY <1>18, Zenon DEF RunEngine
<1>19. CASE EngineDriver
  BY <1>19, Zenon DEF EngineDriver
<1>20. CASE CallbackLock
  BY <1>20, Zenon DEF CallbackLock
<1>21. CASE \E a \in Apps : CallbackSubmit(a)
  BY <1>21, Zenon DEF CallbackSubmit
<1>22. CASE CallbackUnlock
  BY <1>22, Zenon DEF CallbackUnlock
<1>23. CASE Unlock("unlock_nap", "nap") \/ Unlock("unlock", "irq_check")
  BY <1>23, Zenon DEF Unlock
<1>24. CASE IrqCheck
  BY <1>24, Zenon DEF IrqCheck
<1>25. CASE Woken
  BY <1>25, Zenon DEF Woken
<1>26. CASE TimedOut
  BY <1>26, Zenon DEF TimedOut
<1>27. CASE Interrupt
  BY <1>27, Zenon DEF Interrupt
<1>28. CASE UNCHANGED vars
  BY <1>28, Zenon DEF vars
<1> QED
  BY <1>1, <1>2, <1>3, <1>4, <1>5, <1>6, <1>7, <1>8, <1>9, <1>10, <1>11, <1>12,
     <1>13, <1>14, <1>15, <1>16, <1>17, <1>18, <1>19, <1>20, <1>21, <1>22,
     <1>23, <1>24, <1>25, <1>26, <1>27, <1>28 DEF Next, AppStep, UspStep

\* Every step keeps the types of where the threads are.
PointsOK ==
  /\ pc \in [Threads -> AppPoints \cup UspPoints]
  /\ pc[Usp] \in UspPoints /\ \A a \in Apps : pc[a] \in AppPoints
  /\ cpu \in Threads \cup {Nobody}


\* Every step keeps the types of where the threads are.
LEMMA NextPoints == ASSUME PointsOK, [Next]_vars PROVE PointsOK'
<1> USE ConstantsAssumption
<1> USE DEF PointsOK, Step, Scheduled, Threads, AppPoints, UspPoints, vars, config,
            handshake, mutex, engine
<1>1. CASE \E a \in Apps : InitLock(a, "init_lock") \/ InitLock(a, "init_relock")
  BY <1>1 DEF InitLock
<1>2. CASE \E a \in Apps : InitCheck(a)
  BY <1>2 DEF InitCheck
<1>3. CASE \E a \in Apps : CondWoken(a)
  BY <1>3 DEF CondWoken
<1>4. CASE \E a \in Apps : InitUnlock(a)
  BY <1>4 DEF InitUnlock
<1>5. CASE \E a \in Apps : AppCall(a)
  BY <1>5 DEF AppCall
<1>6. CASE \E a \in Apps : ApiLock(a)
  BY <1>6 DEF ApiLock
<1>7. CASE \E a \in Apps : Api(a)
  BY <1>7 DEF Api
<1>8. CASE \E a \in Apps : ApiDriver(a)
  BY <1>8 DEF ApiDriver
<1>9. CASE \E a \in Apps : ApiUnlock(a)
  BY <1>9 DEF ApiUnlock
<1>10. CASE \E a \in Apps : AppWake(a)
  BY <1>10 DEF AppWake
<1>11. CASE HalInit
  BY <1>11 DEF HalInit
<1>12. CASE NotifyLock
  BY <1>12 DEF NotifyLock
<1>13. CASE NotifySet
  BY <1>13 DEF NotifySet
<1>14. CASE NotifyBroadcast
  BY <1>14 DEF NotifyBroadcast
<1>15. CASE NotifyUnlock
  BY <1>15 DEF NotifyUnlock
<1>16. CASE Lock
  BY <1>16 DEF Lock
<1>17. CASE ModemCheck
  BY <1>17 DEF ModemCheck
<1>18. CASE RunEngine
  BY <1>18 DEF RunEngine
<1>19. CASE EngineDriver
  BY <1>19 DEF EngineDriver
<1>20. CASE CallbackLock
  BY <1>20 DEF CallbackLock
<1>21. CASE \E a \in Apps : CallbackSubmit(a)
  BY <1>21 DEF CallbackSubmit
<1>22. CASE CallbackUnlock
  BY <1>22 DEF CallbackUnlock
<1>23. CASE Unlock("unlock_nap", "nap") \/ Unlock("unlock", "irq_check")
  BY <1>23 DEF Unlock
<1>24. CASE IrqCheck
  BY <1>24 DEF IrqCheck
<1>25. CASE Woken
  BY <1>25 DEF Woken
<1>26. CASE TimedOut
  BY <1>26 DEF TimedOut
<1>27. CASE Interrupt
  BY <1>27 DEF Interrupt
<1>28. CASE UNCHANGED vars
  BY <1>28 DEF vars
<1> QED
  BY <1>1, <1>2, <1>3, <1>4, <1>5, <1>6, <1>7, <1>8, <1>9, <1>10, <1>11, <1>12,
     <1>13, <1>14, <1>15, <1>16, <1>17, <1>18, <1>19, <1>20, <1>21, <1>22,
     <1>23, <1>24, <1>25, <1>26, <1>27, <1>28 DEF Next, AppStep, UspStep

\* Every step keeps the types of the other variables.
LEMMA NextRest == ASSUME TypeOK, [Next]_vars PROVE 
         /\ mode' \in Modes
         /\ op' \in [Apps -> {"none", "modem_init", "modem", "rac"}]
         /\ initOwner' \in Threads \cup {Nobody} /\ waiters' \subseteq Apps
         /\ sem' \in {0, 1}
         /\ modemReq' \subseteq Apps /\ racReq' \subseteq Apps
<1> USE DEF TypeOK, Step, Threads, WakeUp, vars, config, handshake, mutex, engine
<1>1. CASE \E a \in Apps : InitLock(a, "init_lock") \/ InitLock(a, "init_relock")
  BY <1>1 DEF InitLock
<1>2. CASE \E a \in Apps : InitCheck(a)
  BY <1>2 DEF InitCheck
<1>3. CASE \E a \in Apps : CondWoken(a)
  BY <1>3 DEF CondWoken
<1>4. CASE \E a \in Apps : InitUnlock(a)
  BY <1>4 DEF InitUnlock
<1>5. CASE \E a \in Apps : AppCall(a)
  BY <1>5 DEF AppCall, Ops
<1>6. CASE \E a \in Apps : ApiLock(a)
  BY <1>6 DEF ApiLock
<1>7. CASE \E a \in Apps : Api(a)
  BY <1>7 DEF Api
<1>8. CASE \E a \in Apps : ApiDriver(a)
  BY <1>8 DEF ApiDriver
<1>9. CASE \E a \in Apps : ApiUnlock(a)
  BY <1>9 DEF ApiUnlock
<1>10. CASE \E a \in Apps : AppWake(a)
  BY <1>10 DEF AppWake
<1>11. CASE HalInit
  BY <1>11 DEF HalInit
<1>12. CASE NotifyLock
  BY <1>12 DEF NotifyLock
<1>13. CASE NotifySet
  BY <1>13 DEF NotifySet
<1>14. CASE NotifyBroadcast
  BY <1>14 DEF NotifyBroadcast
<1>15. CASE NotifyUnlock
  BY <1>15 DEF NotifyUnlock
<1>16. CASE Lock
  BY <1>16 DEF Lock
<1>17. CASE ModemCheck
  BY <1>17 DEF ModemCheck
<1>18. CASE RunEngine
  BY <1>18 DEF RunEngine
<1>19. CASE EngineDriver
  BY <1>19 DEF EngineDriver
<1>20. CASE CallbackLock
  BY <1>20 DEF CallbackLock
<1>21. CASE \E a \in Apps : CallbackSubmit(a)
  BY <1>21 DEF CallbackSubmit
<1>22. CASE CallbackUnlock
  BY <1>22 DEF CallbackUnlock
<1>23. CASE Unlock("unlock_nap", "nap") \/ Unlock("unlock", "irq_check")
  BY <1>23 DEF Unlock
<1>24. CASE IrqCheck
  BY <1>24 DEF IrqCheck
<1>25. CASE Woken
  BY <1>25 DEF Woken
<1>26. CASE TimedOut
  BY <1>26 DEF TimedOut
<1>27. CASE Interrupt
  BY <1>27 DEF Interrupt
<1>28. CASE UNCHANGED vars
  BY <1>28 DEF vars
<1> QED
  BY <1>1, <1>2, <1>3, <1>4, <1>5, <1>6, <1>7, <1>8, <1>9, <1>10, <1>11, <1>12,
     <1>13, <1>14, <1>15, <1>16, <1>17, <1>18, <1>19, <1>20, <1>21, <1>22,
     <1>23, <1>24, <1>25, <1>26, <1>27, <1>28 DEF Next, AppStep, UspStep

\* Every step keeps the inductive invariant.
LEMMA NextIInv == IInv /\ [Next]_vars => IInv'
<1> SUFFICES ASSUME IInv, [Next]_vars PROVE IInv'
  OBVIOUS
<1> USE DEF IInv
<1>1. Notified' /\ MutexHeld' /\ WakeUpOwed'
  BY NextNotified, NextMutexHeld, NextWakeUpOwed
<1>2. Flags'
  BY NextFlags, Zenon DEF TypeOK, Flags
<1>3. PointsOK'
  BY NextPoints, Zenon DEF TypeOK, PointsOK
<1>4. racOwner' \in Threads \cup {Nobody} /\ racDepth' \in 0..2
  BY <1>1 DEF MutexHeld, Protected
<1>5. TypeOK'
  BY <1>2, <1>3, <1>4, NextRest, Zenon DEF TypeOK, Flags, PointsOK
<1> QED
  BY <1>1, <1>5

\* The inductive invariant is an invariant.
THEOREM Inductive == Spec => []IInv
  BY InitIInv, NextIInv, PTL DEF Spec

-----------------------------------------------------------------------------
(* What it implies.                                                        *)

\* TypeOK is an invariant; in particular rac_api_mutex is locked twice at most,
\* once by the engine and once by the callback it runs
\* (smtc_sw_platform_helper.h:75-87, zephyr_usp_thread.c:113-135).
THEOREM TypeCorrect == Spec => []TypeOK
<1>1. IInv => TypeOK
  BY DEF IInv
<1> QED
  BY Inductive, <1>1, PTL

\* In the preemptive build the threads that use the macros exclude one another
\* from the libraries, whatever the threads that do not use them do
\* (smtc_sw_platform_helper.h:75-87).
ProtectedExclusive ==
  mode = "preemptive" => \A t, u \in Protected : InApi(t) /\ InApi(u) => t = u

THEOREM MutualExclusion == Spec => []ProtectedExclusive
<1>1. IInv => ProtectedExclusive
  BY DEF IInv, MutexHeld, ProtectedExclusive
<1> QED
  BY Inductive, <1>1, PTL

\* When every thread uses the macros, no two threads are inside the RAC and LBM
\* libraries at once (ApiExclusive; smtc_sw_platform_helper.h:75-87).
THEOREM ApiExclusion == ASSUME Unprotected = {} PROVE Spec => []ApiExclusive
<1>1. ProtectedExclusive => ApiExclusive
  BY DEF ProtectedExclusive, Protected, ApiExclusive, Exclusive
<1> QED
  BY MutualExclusion, <1>1, PTL

\* The engine sleeps on nothing it has been woken for, and no thread sleeps
\* with rac_api_mutex in hand (SleepsSafely; zephyr_usp_thread.c:117-151).
THEOREM SafeSleep == Spec => []SleepsSafely
<1>1. IInv => NoLostWakeUp
  BY DEF IInv, WakeUpOwed, NoLostWakeUp, OnTheWay
<1>2. IInv => SleepsUnlocked
  <2> SUFFICES ASSUME IInv, racOwner # Nobody
               PROVE  pc[racOwner] \notin {"sleep", "nap", "app_wait", "wake", "irq_check"}
    BY DEF SleepsUnlocked
  <2>1. mode = "preemptive" /\ racOwner \in Protected
    BY ConstantsAssumption DEF IInv, MutexHeld, TypeOK
  <2>2. InApi(racOwner)
    BY <2>1 DEF IInv, MutexHeld
  <2> QED
    BY <2>2 DEF InApi
<1> QED
  BY Inductive, <1>1, <1>2, PTL DEF SleepsSafely

\* No application is left waiting for the initialization, and none reaches the
\* libraries before it (InitHandshake; zephyr_usp_initialization.c:71-87).
THEOREM HandshakeCompletes == Spec => []InitHandshake
<1>1. IInv => InitHandshake
  <2> SUFFICES ASSUME IInv PROVE InitHandshake
    OBVIOUS
  <2>1. isInited => halReady
    BY DEF IInv, Notified, BeforeHal, BeforeSet
  <2> QED
    BY <2>1 DEF IInv, Notified, BeforeBroadcast, InitHandshake
<1> QED
  BY Inductive, <1>1, PTL
=============================================================================
