--------------------------- MODULE ModemHalProofs ---------------------------
(***************************************************************************)
(* Proofs about ModemHal, for any set of timer requests and any kinds of   *)
(* board: the inductive invariant, the safety properties, and the          *)
(* refinement of IrqGate.                                                  *)
(***************************************************************************)
EXTENDS ModemHal, TLAPS

\* The record of a timer call is a record of calls.
LEMMA CallTimerType ==
  ASSUME NEW dueNow, TypeOK, CallTimer(dueNow)
  PROVE  lastCall' \in CallRecords /\ due' = None /\ flags' = flags \cup {"timer"}
<1>1. timerCallback \in Requests \cup {None} /\ timerContext \in Requests \cup {None}
  BY DEF TypeOK
<1>2. (timerCallback = dueNow) \in BOOLEAN
  OBVIOUS
<1> QED
  BY <1>1, <1>2 DEF CallTimer, CallRecords

\* The type invariant holds initially.
LEMMA InitTypeOK == Init => TypeOK
<1> SUFFICES ASSUME Init PROVE TypeOK
  OBVIOUS
<1>1. lastCall \in CallRecords
  BY DEF Init, NoCall, CallRecords
<1> QED
  BY <1>1 DEF Init, TypeOK, CallPoints

\* The Boolean variables, whose types Zenon proves best.
Flags ==
  /\ irqEnabled \in BOOLEAN /\ timerPending \in BOOLEAN /\ radioPending \in BOOLEAN
  /\ attached \in BOOLEAN /\ work \in BOOLEAN
  /\ line \in BOOLEAN /\ latch \in BOOLEAN /\ direct \in BOOLEAN

\* Every step keeps the types of the flags.
LEMMA NextFlags == ASSUME Flags, [Next]_vars PROVE Flags'
  BY ZenonT(30)
  DEF Flags, vars, gate, timer, pin, ghosts, build, Next, Interrupt, Call, InCall,
      Thread, RadioRaises, SetLine, TimerHandler, EdgeIsr, ToggleIsr, ToggleIsrEnd,
      WorkItem, EventTrigger, EventInterruptCb, TransceiverEventCb, StartTimer,
      StopTimer, ConfigRadioIrq, DisableModemIrq, EnableModemIrq, RunEngine,
      AbortRadio, StartTimerContext, StartTimerArm, EnableBoard, CheckRadioPending,
      TakeRadioPending, CallRadioPending, CheckTimerPending, TakeTimerPending,
      CallTimerPending, ClearRadioPending

\* What the drivers' callback does to the engine's flags.
LEMMA CallbackFlags ==
  ASSUME EventInterruptCb PROVE flags' = flags \/ flags' = flags \cup {"radio"}
  BY Zenon DEF EventInterruptCb, TransceiverEventCb, CallRadio

\* What the drivers' ISRs do to the engine's flags.
LEMMA TriggerFlags ==
  ASSUME EventTrigger PROVE flags' = flags \/ flags' = flags \cup {"radio"}
  BY CallbackFlags, Zenon DEF EventTrigger

\* Every step keeps the types.
LEMMA NextTypeOK == TypeOK /\ [Next]_vars => TypeOK'
<1> SUFFICES ASSUME TypeOK, [Next]_vars PROVE TypeOK'
  OBVIOUS
<1> Flags'
  BY NextFlags DEF TypeOK, Flags
<1> USE DEF TypeOK, Flags, CallPoints, vars, gate, timer, pin, ghosts, build, Thread
<1>1. CASE RadioRaises
  BY <1>1 DEF RadioRaises, SetLine
<1>2. CASE TimerHandler
  BY <1>2, CallTimerType DEF TimerHandler
<1>3. CASE EdgeIsr
  <2>1. flags' \subseteq {"radio", "timer"}
    BY <1>3, TriggerFlags DEF EdgeIsr
  <2> QED
    BY <1>3, <2>1 DEF EdgeIsr
<1>4. CASE ToggleIsr
  BY <1>4 DEF ToggleIsr
<1>5. CASE ToggleIsrEnd
  BY <1>5, TriggerFlags DEF ToggleIsrEnd, CallRadio
<1>6. CASE WorkItem
  BY <1>6, CallbackFlags DEF WorkItem, CallRadio
<1>7. CASE \E r \in Requests : StartTimer(r)
  BY <1>7 DEF StartTimer
<1>8. CASE StopTimer
  BY <1>8 DEF StopTimer
<1>9. CASE ConfigRadioIrq
  BY <1>9 DEF ConfigRadioIrq, BoardEnableInterrupt
<1>10. CASE DisableModemIrq
  BY <1>10 DEF DisableModemIrq
<1>11. CASE EnableModemIrq
  BY <1>11 DEF EnableModemIrq
<1>12. CASE RunEngine
  BY <1>12 DEF RunEngine, SetLine
<1>13. CASE AbortRadio
  BY <1>13 DEF AbortRadio, SetLine
<1>14. CASE StartTimerContext
  BY <1>14 DEF StartTimerContext
<1>15. CASE StartTimerArm
  BY <1>15 DEF StartTimerArm
<1>16. CASE EnableBoard
  BY <1>16 DEF EnableBoard, BoardEnableInterrupt
<1>17. CASE CheckRadioPending
  BY <1>17 DEF CheckRadioPending
<1>18. CASE TakeRadioPending
  BY <1>18 DEF TakeRadioPending
<1>19. CASE CallRadioPending
  BY <1>19 DEF CallRadioPending, CallRadio
<1>20. CASE CheckTimerPending
  BY <1>20 DEF CheckTimerPending
<1>21. CASE TakeTimerPending
  BY <1>21 DEF TakeTimerPending
<1>22. CASE CallTimerPending
  BY <1>22, CallTimerType DEF CallTimerPending
<1>23. CASE ClearRadioPending
  BY <1>23 DEF ClearRadioPending
<1>24. CASE UNCHANGED vars
  BY <1>24
<1> QED
  BY <1>1, <1>2, <1>3, <1>4, <1>5, <1>6, <1>7, <1>8, <1>9, <1>10, <1>11, <1>12,
     <1>13, <1>14, <1>15, <1>16, <1>17, <1>18, <1>19, <1>20, <1>21, <1>22,
     <1>23, <1>24 DEF Next, Interrupt, Call, InCall

\* TypeOK is an invariant: the HAL's flags, its timer and the pin only take the
\* values they are meant to (smtc_modem_hal.c:84-104).
THEOREM TypeCorrect == Spec => []TypeOK
  BY InitTypeOK, NextTypeOK, PTL DEF Spec

-----------------------------------------------------------------------------
\* Every step keeps the order in which enable_modem_irq empties the flags.
LEMMA NextDrains == ASSUME DrainsInOrder, [Next]_vars PROVE DrainsInOrder'
<1> USE DEF DrainsInOrder, Draining, vars, gate, timer, pin, ghosts, build, Thread
<1>1. CASE RadioRaises
  BY <1>1 DEF RadioRaises, SetLine
<1>2. CASE TimerHandler
  BY <1>2 DEF TimerHandler, CallTimer
<1>3. CASE EdgeIsr
  BY <1>3 DEF EdgeIsr, EventTrigger, EventInterruptCb, TransceiverEventCb,
     CallRadio
<1>4. CASE ToggleIsr
  BY <1>4 DEF ToggleIsr
<1>5. CASE ToggleIsrEnd
  BY <1>5 DEF ToggleIsrEnd, EventTrigger, EventInterruptCb, TransceiverEventCb,
     CallRadio
<1>6. CASE WorkItem
  BY <1>6 DEF WorkItem, EventInterruptCb, TransceiverEventCb, CallRadio
<1>7. CASE \E r \in Requests : StartTimer(r)
  BY <1>7 DEF StartTimer
<1>8. CASE StopTimer
  BY <1>8 DEF StopTimer
<1>9. CASE ConfigRadioIrq
  BY <1>9 DEF ConfigRadioIrq, BoardEnableInterrupt
<1>10. CASE DisableModemIrq
  BY <1>10 DEF DisableModemIrq
<1>11. CASE EnableModemIrq
  BY <1>11 DEF EnableModemIrq
<1>12. CASE RunEngine
  BY <1>12 DEF RunEngine, SetLine
<1>13. CASE AbortRadio
  BY <1>13 DEF AbortRadio, SetLine
<1>14. CASE StartTimerContext
  BY <1>14 DEF StartTimerContext
<1>15. CASE StartTimerArm
  BY <1>15 DEF StartTimerArm
<1>16. CASE EnableBoard
  BY <1>16 DEF EnableBoard, BoardEnableInterrupt
<1>17. CASE CheckRadioPending
  BY <1>17 DEF CheckRadioPending
<1>18. CASE TakeRadioPending
  BY <1>18 DEF TakeRadioPending
<1>19. CASE CallRadioPending
  BY <1>19 DEF CallRadioPending, CallRadio
<1>20. CASE CheckTimerPending
  BY <1>20 DEF CheckTimerPending
<1>21. CASE TakeTimerPending
  BY <1>21 DEF TakeTimerPending
<1>22. CASE CallTimerPending
  BY <1>22 DEF CallTimerPending, CallTimer
<1>23. CASE ClearRadioPending
  BY <1>23 DEF ClearRadioPending
<1>24. CASE UNCHANGED vars
  BY <1>24
<1> QED
  BY <1>1, <1>2, <1>3, <1>4, <1>5, <1>6, <1>7, <1>8, <1>9, <1>10, <1>11, <1>12,
     <1>13, <1>14, <1>15, <1>16, <1>17, <1>18, <1>19, <1>20, <1>21, <1>22,
     <1>23, <1>24 DEF Next, Interrupt, Call, InCall

\* Every step keeps the timer's callback and context together.
LEMMA NextTimer == ASSUME TimerConsistent, [Next]_vars PROVE TimerConsistent'
<1> USE ConstantsAssumption
    DEF TimerConsistent, vars, gate, timer, pin, ghosts, build, Thread
<1>1. CASE RadioRaises
  BY <1>1 DEF RadioRaises, SetLine
<1>2. CASE TimerHandler
  BY <1>2 DEF TimerHandler, CallTimer
<1>3. CASE EdgeIsr
  BY <1>3 DEF EdgeIsr, EventTrigger, EventInterruptCb, TransceiverEventCb,
     CallRadio
<1>4. CASE ToggleIsr
  BY <1>4 DEF ToggleIsr
<1>5. CASE ToggleIsrEnd
  BY <1>5 DEF ToggleIsrEnd, EventTrigger, EventInterruptCb, TransceiverEventCb,
     CallRadio
<1>6. CASE WorkItem
  BY <1>6 DEF WorkItem, EventInterruptCb, TransceiverEventCb, CallRadio
<1>7. CASE \E r \in Requests : StartTimer(r)
  BY <1>7 DEF StartTimer
<1>8. CASE StopTimer
  BY <1>8 DEF StopTimer
<1>9. CASE ConfigRadioIrq
  BY <1>9 DEF ConfigRadioIrq, BoardEnableInterrupt
<1>10. CASE DisableModemIrq
  BY <1>10 DEF DisableModemIrq
<1>11. CASE EnableModemIrq
  BY <1>11 DEF EnableModemIrq
<1>12. CASE RunEngine
  BY <1>12 DEF RunEngine, SetLine
<1>13. CASE AbortRadio
  BY <1>13 DEF AbortRadio, SetLine
<1>14. CASE StartTimerContext
  BY <1>14 DEF StartTimerContext
<1>15. CASE StartTimerArm
  BY <1>15 DEF StartTimerArm
<1>16. CASE EnableBoard
  BY <1>16 DEF EnableBoard, BoardEnableInterrupt
<1>17. CASE CheckRadioPending
  BY <1>17 DEF CheckRadioPending
<1>18. CASE TakeRadioPending
  BY <1>18 DEF TakeRadioPending
<1>19. CASE CallRadioPending
  BY <1>19 DEF CallRadioPending, CallRadio
<1>20. CASE CheckTimerPending
  BY <1>20 DEF CheckTimerPending
<1>21. CASE TakeTimerPending
  BY <1>21 DEF TakeTimerPending
<1>22. CASE CallTimerPending
  BY <1>22 DEF CallTimerPending, CallTimer
<1>23. CASE ClearRadioPending
  BY <1>23 DEF ClearRadioPending
<1>24. CASE UNCHANGED vars
  BY <1>24
<1> QED
  BY <1>1, <1>2, <1>3, <1>4, <1>5, <1>6, <1>7, <1>8, <1>9, <1>10, <1>11, <1>12,
     <1>13, <1>14, <1>15, <1>16, <1>17, <1>18, <1>19, <1>20, <1>21, <1>22,
     <1>23, <1>24 DEF Next, Interrupt, Call, InCall

\* Every step keeps track of the event pin.
LEMMA NextRadio == ASSUME RadioTracked, [Next]_vars PROVE RadioTracked'
<1> USE DEF RadioTracked, vars, gate, timer, pin, ghosts, build, Thread
<1>1. CASE RadioRaises
  BY <1>1 DEF RadioRaises, SetLine
<1>2. CASE TimerHandler
  BY <1>2 DEF TimerHandler, CallTimer
<1>3. CASE EdgeIsr
  BY <1>3 DEF EdgeIsr, EventTrigger, EventInterruptCb, TransceiverEventCb,
     CallRadio
<1>4. CASE ToggleIsr
  BY <1>4 DEF ToggleIsr
<1>5. CASE ToggleIsrEnd
  BY <1>5 DEF ToggleIsrEnd, EventTrigger, EventInterruptCb, TransceiverEventCb,
     CallRadio
<1>6. CASE WorkItem
  BY <1>6 DEF WorkItem, EventInterruptCb, TransceiverEventCb, CallRadio
<1>7. CASE \E r \in Requests : StartTimer(r)
  BY <1>7 DEF StartTimer
<1>8. CASE StopTimer
  BY <1>8 DEF StopTimer
<1>9. CASE ConfigRadioIrq
  BY <1>9 DEF ConfigRadioIrq, BoardEnableInterrupt
<1>10. CASE DisableModemIrq
  BY <1>10 DEF DisableModemIrq
<1>11. CASE EnableModemIrq
  BY <1>11 DEF EnableModemIrq
<1>12. CASE RunEngine
  BY <1>12 DEF RunEngine, SetLine
<1>13. CASE AbortRadio
  BY <1>13 DEF AbortRadio, SetLine
<1>14. CASE StartTimerContext
  BY <1>14 DEF StartTimerContext
<1>15. CASE StartTimerArm
  BY <1>15 DEF StartTimerArm
<1>16. CASE EnableBoard
  BY <1>16 DEF EnableBoard, BoardEnableInterrupt
<1>17. CASE CheckRadioPending
  BY <1>17 DEF CheckRadioPending
<1>18. CASE TakeRadioPending
  BY <1>18 DEF TakeRadioPending
<1>19. CASE CallRadioPending
  BY <1>19 DEF CallRadioPending, CallRadio
<1>20. CASE CheckTimerPending
  BY <1>20 DEF CheckTimerPending
<1>21. CASE TakeTimerPending
  BY <1>21 DEF TakeTimerPending
<1>22. CASE CallTimerPending
  BY <1>22 DEF CallTimerPending, CallTimer
<1>23. CASE ClearRadioPending
  BY <1>23 DEF ClearRadioPending
<1>24. CASE UNCHANGED vars
  BY <1>24
<1> QED
  BY <1>1, <1>2, <1>3, <1>4, <1>5, <1>6, <1>7, <1>8, <1>9, <1>10, <1>11, <1>12,
     <1>13, <1>14, <1>15, <1>16, <1>17, <1>18, <1>19, <1>20, <1>21, <1>22,
     <1>23, <1>24 DEF Next, Interrupt, Call, InCall

\* Every step keeps an unread event of an edge-only board.
LEMMA NextRadioKept ==
  ASSUME RadioTracked, RadioEventKept, [Next]_vars PROVE RadioEventKept'
<1> USE DEF RadioTracked, RadioEventKept, RadioEventIn, vars, gate, timer, pin,
            ghosts, build, Thread
<1>1. CASE RadioRaises
  BY <1>1 DEF RadioRaises, SetLine
<1>2. CASE TimerHandler
  BY <1>2 DEF TimerHandler, CallTimer
<1>3. CASE EdgeIsr
  BY <1>3 DEF EdgeIsr, EventTrigger, EventInterruptCb, TransceiverEventCb,
     CallRadio
<1>4. CASE ToggleIsr
  BY <1>4 DEF ToggleIsr
<1>5. CASE ToggleIsrEnd
  BY <1>5 DEF ToggleIsrEnd, EventTrigger, EventInterruptCb, TransceiverEventCb,
     CallRadio
<1>6. CASE WorkItem
  BY <1>6 DEF WorkItem, EventInterruptCb, TransceiverEventCb, CallRadio
<1>7. CASE \E r \in Requests : StartTimer(r)
  BY <1>7 DEF StartTimer
<1>8. CASE StopTimer
  BY <1>8 DEF StopTimer
<1>9. CASE ConfigRadioIrq
  BY <1>9 DEF ConfigRadioIrq, BoardEnableInterrupt
<1>10. CASE DisableModemIrq
  BY <1>10 DEF DisableModemIrq
<1>11. CASE EnableModemIrq
  BY <1>11 DEF EnableModemIrq
<1>12. CASE RunEngine
  BY <1>12 DEF RunEngine, SetLine
<1>13. CASE AbortRadio
  BY <1>13 DEF AbortRadio, SetLine
<1>14. CASE StartTimerContext
  BY <1>14 DEF StartTimerContext
<1>15. CASE StartTimerArm
  BY <1>15 DEF StartTimerArm
<1>16. CASE EnableBoard
  BY <1>16 DEF EnableBoard, BoardEnableInterrupt
<1>17. CASE CheckRadioPending
  BY <1>17 DEF CheckRadioPending
<1>18. CASE TakeRadioPending
  BY <1>18 DEF TakeRadioPending
<1>19. CASE CallRadioPending
  BY <1>19 DEF CallRadioPending, CallRadio
<1>20. CASE CheckTimerPending
  BY <1>20 DEF CheckTimerPending
<1>21. CASE TakeTimerPending
  BY <1>21 DEF TakeTimerPending
<1>22. CASE CallTimerPending
  BY <1>22 DEF CallTimerPending, CallTimer
<1>23. CASE ClearRadioPending
  BY <1>23 DEF ClearRadioPending
<1>24. CASE UNCHANGED vars
  BY <1>24
<1> QED
  BY <1>1, <1>2, <1>3, <1>4, <1>5, <1>6, <1>7, <1>8, <1>9, <1>10, <1>11, <1>12,
     <1>13, <1>14, <1>15, <1>16, <1>17, <1>18, <1>19, <1>20, <1>21, <1>22,
     <1>23, <1>24 DEF Next, Interrupt, Call, InCall

\* Every step keeps an expiry until it is delivered or cancelled.
LEMMA NextExpiry ==
  ASSUME ExpiryKept, [Next]_vars PROVE ExpiryKept'
<1> USE DEF ExpiryKept, vars, gate, timer, pin, ghosts, build, Thread
<1>1. CASE RadioRaises
  BY <1>1 DEF RadioRaises, SetLine
<1>2. CASE TimerHandler
  BY <1>2 DEF TimerHandler, CallTimer
<1>3. CASE EdgeIsr
  BY <1>3 DEF EdgeIsr, EventTrigger, EventInterruptCb, TransceiverEventCb,
     CallRadio
<1>4. CASE ToggleIsr
  BY <1>4 DEF ToggleIsr
<1>5. CASE ToggleIsrEnd
  BY <1>5 DEF ToggleIsrEnd, EventTrigger, EventInterruptCb, TransceiverEventCb,
     CallRadio
<1>6. CASE WorkItem
  BY <1>6 DEF WorkItem, EventInterruptCb, TransceiverEventCb, CallRadio
<1>7. CASE \E r \in Requests : StartTimer(r)
  BY <1>7 DEF StartTimer
<1>8. CASE StopTimer
  BY <1>8 DEF StopTimer
<1>9. CASE ConfigRadioIrq
  BY <1>9 DEF ConfigRadioIrq, BoardEnableInterrupt
<1>10. CASE DisableModemIrq
  BY <1>10 DEF DisableModemIrq
<1>11. CASE EnableModemIrq
  BY <1>11 DEF EnableModemIrq
<1>12. CASE RunEngine
  BY <1>12 DEF RunEngine, SetLine
<1>13. CASE AbortRadio
  BY <1>13 DEF AbortRadio, SetLine
<1>14. CASE StartTimerContext
  BY <1>14 DEF StartTimerContext
<1>15. CASE StartTimerArm
  BY <1>15 DEF StartTimerArm
<1>16. CASE EnableBoard
  BY <1>16 DEF EnableBoard, BoardEnableInterrupt
<1>17. CASE CheckRadioPending
  BY <1>17 DEF CheckRadioPending
<1>18. CASE TakeRadioPending
  BY <1>18 DEF TakeRadioPending
<1>19. CASE CallRadioPending
  BY <1>19 DEF CallRadioPending, CallRadio
<1>20. CASE CheckTimerPending
  BY <1>20 DEF CheckTimerPending
<1>21. CASE TakeTimerPending
  BY <1>21 DEF TakeTimerPending
<1>22. CASE CallTimerPending
  BY <1>22 DEF CallTimerPending, CallTimer
<1>23. CASE ClearRadioPending
  BY <1>23 DEF ClearRadioPending
<1>24. CASE UNCHANGED vars
  BY <1>24
<1> QED
  BY <1>1, <1>2, <1>3, <1>4, <1>5, <1>6, <1>7, <1>8, <1>9, <1>10, <1>11, <1>12,
     <1>13, <1>14, <1>15, <1>16, <1>17, <1>18, <1>19, <1>20, <1>21, <1>22,
     <1>23, <1>24 DEF Next, Interrupt, Call, InCall

\* Every timer call is made with a matching callback and context.
LEMMA NextPaired ==
  ASSUME TimerConsistent, CallsPaired, [Next]_vars PROVE CallsPaired'
<1> USE DEF TimerConsistent, CallsPaired, NoCall, vars, gate, timer, pin, ghosts,
            build, Thread
<1>1. CASE RadioRaises
  BY <1>1 DEF RadioRaises, SetLine
<1>2. CASE TimerHandler
  BY <1>2 DEF TimerHandler, CallTimer
<1>3. CASE EdgeIsr
  BY <1>3 DEF EdgeIsr, EventTrigger, EventInterruptCb, TransceiverEventCb,
     CallRadio
<1>4. CASE ToggleIsr
  BY <1>4 DEF ToggleIsr
<1>5. CASE ToggleIsrEnd
  BY <1>5 DEF ToggleIsrEnd, EventTrigger, EventInterruptCb, TransceiverEventCb,
     CallRadio
<1>6. CASE WorkItem
  BY <1>6 DEF WorkItem, EventInterruptCb, TransceiverEventCb, CallRadio
<1>7. CASE \E r \in Requests : StartTimer(r)
  BY <1>7 DEF StartTimer
<1>8. CASE StopTimer
  BY <1>8 DEF StopTimer
<1>9. CASE ConfigRadioIrq
  BY <1>9 DEF ConfigRadioIrq, BoardEnableInterrupt
<1>10. CASE DisableModemIrq
  BY <1>10 DEF DisableModemIrq
<1>11. CASE EnableModemIrq
  BY <1>11 DEF EnableModemIrq
<1>12. CASE RunEngine
  BY <1>12 DEF RunEngine, SetLine
<1>13. CASE AbortRadio
  BY <1>13 DEF AbortRadio, SetLine
<1>14. CASE StartTimerContext
  BY <1>14 DEF StartTimerContext
<1>15. CASE StartTimerArm
  BY <1>15 DEF StartTimerArm
<1>16. CASE EnableBoard
  BY <1>16 DEF EnableBoard, BoardEnableInterrupt
<1>17. CASE CheckRadioPending
  BY <1>17 DEF CheckRadioPending
<1>18. CASE TakeRadioPending
  BY <1>18 DEF TakeRadioPending
<1>19. CASE CallRadioPending
  BY <1>19 DEF CallRadioPending, CallRadio
<1>20. CASE CheckTimerPending
  BY <1>20 DEF CheckTimerPending
<1>21. CASE TakeTimerPending
  BY <1>21 DEF TakeTimerPending
<1>22. CASE CallTimerPending
  BY <1>22 DEF CallTimerPending, CallTimer
<1>23. CASE ClearRadioPending
  BY <1>23 DEF ClearRadioPending
<1>24. CASE UNCHANGED vars
  BY <1>24
<1> QED
  BY <1>1, <1>2, <1>3, <1>4, <1>5, <1>6, <1>7, <1>8, <1>9, <1>10, <1>11, <1>12,
     <1>13, <1>14, <1>15, <1>16, <1>17, <1>18, <1>19, <1>20, <1>21, <1>22,
     <1>23, <1>24 DEF Next, Interrupt, Call, InCall
-----------------------------------------------------------------------------
\* The inductive invariant holds initially ...
LEMMA InitIInv == Init => IInv
<1> SUFFICES ASSUME Init PROVE IInv
  OBVIOUS
<1>1. TypeOK
  BY InitTypeOK
<1>2. DrainsInOrder /\ TimerConsistent /\ RadioTracked
  BY DEF Init, DrainsInOrder, Draining, TimerConsistent, RadioTracked
<1>3. RadioEventKept /\ ExpiryKept /\ CallsPaired
  BY DEF Init, RadioEventKept, RadioEventIn, ExpiryKept, CallsPaired, NoCall
<1> QED
  BY <1>1, <1>2, <1>3 DEF IInv

\* ... and every step keeps it.
LEMMA NextIInv == IInv /\ [Next]_vars => IInv'
  BY NextTypeOK, NextDrains, NextTimer, NextRadio, NextRadioKept, NextExpiry, NextPaired
     DEF IInv

\* IInv is an invariant.
THEOREM Inductive == Spec => []IInv
  BY InitIInv, NextIInv, PTL DEF Spec

\* Outside enable_modem_irq and outside a critical section, neither pending
\* flag is set (smtc_modem_hal.c:201-213, 236-251, 306-319).
THEOREM GateDrained == Spec => []OpenMeansDrained
<1>1. IInv => OpenMeansDrained
  BY DEF IInv, DrainsInOrder, OpenMeansDrained, Draining
<1> QED
  BY <1>1, Inductive, PTL

\* No event of an edge-only transceiver is forgotten, whatever the order of
\* interrupts, work items and critical sections (sx126x_board.c:61-79).
THEOREM RadioEventsKept == Spec => []RadioEventKept
<1>1. IInv => RadioEventKept
  BY DEF IInv
<1> QED
  BY <1>1, Inductive, PTL

\* No expiry of the modem timer is forgotten (smtc_modem_hal.c:201-213).
THEOREM ExpiriesKept == Spec => []ExpiryKept
<1>1. IInv => ExpiryKept
  BY DEF IInv
<1> QED
  BY <1>1, Inductive, PTL

\* Every timer callback gets the context stored with it, although the two are
\* stored one after the other (smtc_modem_hal.c:215-222).
THEOREM TimerCallsPaired == Spec => []CallsPaired
<1>1. IInv => CallsPaired
  BY DEF IInv
<1> QED
  BY <1>1, Inductive, PTL

-----------------------------------------------------------------------------
\* The gate is open and holds nothing to begin with.
LEMMA InitGate == Init => Gate!Init
  BY DEF Init, Gate!Init, Held

\* A step that leaves what the gate is made of alone is a step of no gate action.
LEMMA GateVars ==
  ASSUME UNCHANGED <<irqEnabled, flags>>, Held' = Held
  PROVE  UNCHANGED Gate!gateVars
  BY DEF Gate!gateVars

\* Nor is a step that leaves the flags and the place of the thread alone.
LEMMA Stutter ==
  ASSUME UNCHANGED <<irqEnabled, timerPending, radioPending, flags, pc>>
  PROVE  UNCHANGED Gate!gateVars
  BY GateVars DEF Held

\* Every step of the HAL is a step of the gate, or none.
LEMMA NextGate == ASSUME IInv, [Next]_vars PROVE [Gate!Next]_(Gate!gateVars)
<1> USE DEF vars, gate, timer, pin, ghosts, build
<1>1. CASE RadioRaises
  BY <1>1, Stutter DEF RadioRaises
<1>2. CASE TimerHandler
  <2>1. CASE irqEnabled
    <3>1. Gate!Fire("timer")
      BY <1>2, <2>1 DEF TimerHandler, CallTimer, Gate!Fire, Held
    <3> QED
      BY <3>1 DEF Gate!Next, Gate!Sources
  <2>2. CASE ~irqEnabled
    <3>1. Gate!Fire("timer")
      BY <1>2, <2>2 DEF TimerHandler, Gate!Fire, Held
    <3> QED
      BY <3>1 DEF Gate!Next, Gate!Sources
  <2> QED
    BY <2>1, <2>2
<1>3. CASE EdgeIsr
  <2>1. Gate!Fire("radio") \/ UNCHANGED <<irqEnabled, timerPending, radioPending, flags, pc>>
    BY <1>3 DEF EdgeIsr, EventTrigger, EventInterruptCb, TransceiverEventCb, CallRadio,
                Gate!Fire, Held
  <2> QED
    BY <2>1, Stutter DEF Gate!Next, Gate!Sources
<1>4. CASE ToggleIsr
  BY <1>4, Stutter DEF ToggleIsr
<1>5. CASE ToggleIsrEnd
  <2>1. Gate!Fire("radio") \/ UNCHANGED <<irqEnabled, timerPending, radioPending, flags, pc>>
    BY <1>5 DEF ToggleIsrEnd, EventTrigger, EventInterruptCb, TransceiverEventCb, CallRadio,
                Gate!Fire, Held
  <2> QED
    BY <2>1, Stutter DEF Gate!Next, Gate!Sources
<1>6. CASE WorkItem
  <2>1. Gate!Fire("radio") \/ UNCHANGED <<irqEnabled, timerPending, radioPending, flags, pc>>
    BY <1>6 DEF WorkItem, EventInterruptCb, TransceiverEventCb, CallRadio,
                Gate!Fire, Held
  <2> QED
    BY <2>1, Stutter DEF Gate!Next, Gate!Sources
<1>7. CASE \E r \in Requests : StartTimer(r)
  BY <1>7, GateVars DEF StartTimer, Thread, Held
<1>8. CASE StopTimer
  BY <1>8, GateVars DEF StopTimer, Thread, Held
<1>9. CASE ConfigRadioIrq
  BY <1>9, GateVars DEF ConfigRadioIrq, Thread, Held
<1>10. CASE DisableModemIrq
  <2>1. Gate!Close
    BY <1>10 DEF IInv, DrainsInOrder, Draining, DisableModemIrq, Thread, Gate!Close, Held
  <2> QED
    BY <2>1 DEF Gate!Next
<1>11. CASE EnableModemIrq
  <2>1. Gate!Open
    BY <1>11 DEF EnableModemIrq, Thread, Gate!Open, Held
  <2> QED
    BY <2>1 DEF Gate!Next
<1>12. CASE RunEngine
  <2>1. Gate!Serve
    BY <1>12 DEF RunEngine, Thread, Gate!Serve, Held
  <2> QED
    BY <2>1 DEF Gate!Next
<1>13. CASE AbortRadio
  BY <1>13, GateVars DEF AbortRadio, Thread, Held
<1>14. CASE StartTimerContext
  BY <1>14, GateVars DEF StartTimerContext, Thread, Held
<1>15. CASE StartTimerArm
  BY <1>15, GateVars DEF StartTimerArm, Thread, Held
<1>16. CASE EnableBoard
  BY <1>16, GateVars DEF EnableBoard, Thread, Held
<1>17. CASE CheckRadioPending
  BY <1>17, GateVars DEF CheckRadioPending, Thread, Held
<1>18. CASE TakeRadioPending
  BY <1>18, GateVars DEF IInv, DrainsInOrder, TakeRadioPending, Thread, Held
<1>19. CASE CallRadioPending
  <2>1. Gate!Drain("radio")
    BY <1>19 DEF IInv, DrainsInOrder, Draining, CallRadioPending, Thread, CallRadio, Gate!Drain, Held
  <2> QED
    BY <2>1 DEF Gate!Next, Gate!Sources
<1>20. CASE CheckTimerPending
  BY <1>20, GateVars DEF CheckTimerPending, Thread, Held
<1>21. CASE TakeTimerPending
  BY <1>21, GateVars DEF IInv, DrainsInOrder, TakeTimerPending, Thread, Held
<1>22. CASE CallTimerPending
  <2>1. Gate!Drain("timer")
    BY <1>22 DEF IInv, DrainsInOrder, Draining, CallTimerPending, Thread, CallTimer, Gate!Drain, Held
  <2> QED
    BY <2>1 DEF Gate!Next, Gate!Sources
<1>23. CASE ClearRadioPending
  <2>1. Gate!Withdraw
    BY <1>23 DEF ClearRadioPending, Thread, Gate!Withdraw, Held
  <2> QED
    BY <2>1 DEF Gate!Next
<1>24. CASE UNCHANGED vars
  BY <1>24, Stutter
<1> QED
  BY <1>1, <1>2, <1>3, <1>4, <1>5, <1>6, <1>7, <1>8, <1>9, <1>10, <1>11, <1>12,
     <1>13, <1>14, <1>15, <1>16, <1>17, <1>18, <1>19, <1>20, <1>21, <1>22,
     <1>23, <1>24 DEF Next, Interrupt, Call, InCall

\* The HAL implements the gate: between disable_modem_irq and enable_modem_irq
\* no event reaches the engine, and every event held reaches it afterwards, the
\* radio's first (smtc_modem_hal.c:231-251).
THEOREM ImplementsGate == Spec => GateSpec
<1>1. Spec => []IInv
  BY Inductive
<1> QED
  BY <1>1, InitGate, NextGate, PTL DEF Spec, GateSpec, Gate!Spec
=============================================================================
