--------------------------- MODULE RadioHalProofs ---------------------------
(***************************************************************************)
(* Proofs about RadioHal, for the three drivers, any time-out and any      *)
(* range of the uptime: the driver and the chip stay in step, and a panic  *)
(* over a chip that does not hang only happens next to the wrap.           *)
(***************************************************************************)
EXTENDS RadioHal, TLAPS

-----------------------------------------------------------------------------
(* The inductive invariant.                                                *)

Transfers == {"command", "response", "sleep"}

\* In a call every transfer comes after a check, SET_SLEEP comes last, and a
\* reset is a call of its own.
Ordered(s) ==
  \A i \in 1..Len(s) :
    /\ i > 1 /\ s[i] # "check" => s[i - 1] = "check"
    /\ s[i] = "sleep" => i = Len(s)
    /\ s[i] = "reset" => Len(s) = 1

\* What radio_status and the chip are at each statement of the driver.
Tracked ==
  /\ pc = "run" =>
       /\ radioStatus = "sleep" <=> chip = "asleep"
       /\ chip # "falling_asleep"
       /\ todo # <<>> /\ Head(todo) \in Transfers => chip = "ready"
  /\ pc \in {"poll", "poll_sleep"} =>
       chip \in {"busy", "ready", "hung"} /\ todo # <<>> /\ Head(todo) = "check"
  /\ pc = "delay" =>
       radioStatus = "sleep" /\ chip \in {"falling_asleep", "asleep"} /\ todo = <<>>
  /\ pc = "reset_delay" =>
       chip \in {"busy", "ready"} /\ todo # <<>> /\ Head(todo) = "reset"

\* How long wait_on_busy has waited for a chip that does not hang.
Waited == uptime - since

WaitBounded ==
  /\ pc \in {"poll", "poll_sleep"} /\ chip = "busy" => Waited + busyFor <= MaxBusy
  /\ pc = "poll_sleep" /\ chip = "ready" => Waited <= MaxBusy
  /\ pc = "poll" /\ chip = "ready" => Waited <= MaxBusy + 1

\* The end of the wait, from its start.
Wraps == (since % Wrap) + Timeout >= Wrap

EndOfWait ==
  pc \in {"poll", "poll_sleep"} => end = ((since % Wrap) + Timeout) % Wrap

\* The driver panics over a chip that does not hang only in a wait whose end
\* lies beyond the wrap of the uptime.
OopsOnlyNearWrap == pc = "oops" => chip = "hung" \/ Wraps

IInv == TypeOK /\ Ordered(todo) /\ Tracked /\ WaitBounded /\ EndOfWait /\ OopsOnlyNearWrap

-----------------------------------------------------------------------------
(* Arithmetic of an uptime that wraps.                                     *)

\* Quotient and remainder are unique.
LEMMA ModUnique ==
  ASSUME NEW x \in Nat, NEW y \in Nat, NEW q \in Nat, NEW r \in Nat,
         r < y, x = q * y + r
  PROVE  x % y = r
  BY SMT

\* A sum that does not reach the wrap does not wrap.
LEMMA ModPlus ==
  ASSUME NEW x \in Nat, NEW y \in Nat, NEW d \in Nat, 0 < y, (x % y) + d < y
  PROVE  (x + d) % y = (x % y) + d
<1> DEFINE q == x \div y  r == x % y
<1>1. x = q * y + r /\ q \in Nat /\ r \in 0..(y - 1)
  BY SMT
<1>2. r + d < y
  OBVIOUS
<1> HIDE DEF q, r
<1>3. x + d = q * y + (r + d)
  BY <1>1
<1>4. (x + d) % y = r + d
  BY <1>1, <1>2, <1>3, ModUnique
<1> QED
  BY <1>4 DEF r

\* A number below the wrap is its own remainder.
LEMMA ModSmall == ASSUME NEW x \in Nat, NEW y \in Nat, x < y PROVE x % y = x
  OBVIOUS

\* A remainder is below the wrap.
LEMMA ModRange == ASSUME NEW x \in Nat, NEW y \in Nat, 0 < y PROVE x % y \in 0..(y - 1)
  OBVIOUS

-----------------------------------------------------------------------------
(* What the calls do.                                                      *)

Statements == {"check", "command", "response", "sleep", "reset"}
Short(s) == s \in Seq(Statements) /\ Len(s) <= 4

\* The script of each call.
LEMMA Scripts ==
  /\ Script("write") = IF family = "sx126x" THEN <<"check", "command", "check">>
                                            ELSE <<"check", "command">>
  /\ Script("read") = IF family = "sx126x" THEN <<"check", "command">>
                      ELSE <<"check", "command", "check", "response">>
  /\ Script("direct_read") = <<"check", "response">>
  /\ Script("set_sleep") = <<"check", "sleep">>
  /\ Script("wakeup") = <<"check">>
  /\ Script("reset") = <<"reset">>
  BY Zenon DEF Script

\* A call starts with a check, or is a reset.
StartOK(s) == Short(s) /\ Ordered(s) /\ s # <<>> /\ Head(s) \in {"check", "reset"}

LEMMA CallStarts == ASSUME NEW call \in Calls PROVE StartOK(Script(call))
<1> USE DEF StartOK, Short, Statements, Ordered
<1>1. StartOK(<<"check", "command", "check">>)
  OBVIOUS
<1>2. StartOK(<<"check", "command">>)
  OBVIOUS
<1>3. StartOK(<<"check", "command", "check", "response">>)
  OBVIOUS
<1>4. StartOK(<<"check", "response">>)
  OBVIOUS
<1>5. StartOK(<<"check", "sleep">>)
  OBVIOUS
<1>6. StartOK(<<"check">>)
  OBVIOUS
<1>7. StartOK(<<"reset">>)
  OBVIOUS
<1> HIDE DEF StartOK
<1> QED
  BY <1>1, <1>2, <1>3, <1>4, <1>5, <1>6, <1>7, Scripts, Zenon DEF Calls

\* What is left of a call after a statement is in order.
LEMMA TailOrdered ==
  ASSUME NEW s, Short(s), s # <<>>, Ordered(s)
  PROVE  /\ Short(Tail(s)) /\ Ordered(Tail(s))
         /\ Head(s) \in {"sleep", "reset"} => Tail(s) = <<>>
         /\ Tail(s) # <<>> /\ Head(s) # "check" => Head(Tail(s)) = "check"
         /\ Tail(s) # <<>> => Head(Tail(s)) \in {"check", "command", "response", "sleep"}
  BY DEF Short, Ordered, Statements

\* Every step keeps what is left to do in order.
LEMMA NextTodo == ASSUME Short(todo), Ordered(todo), Tracked, [Next]_vars PROVE Short(todo') /\ Ordered(todo')
<1>0. ASSUME todo # <<>> PROVE Short(Tail(todo)) /\ Ordered(Tail(todo))
  BY <1>0, TailOrdered
<1> USE DEF vars, driver
<1>1. CASE \E call \in Calls : Call(call)
  BY <1>1, CallStarts DEF Call, StartOK
<1>2. CASE CheckDeviceReady
  BY <1>2, <1>0 DEF CheckDeviceReady, AtTodo, Glitch
<1>3. CASE PollReady
  BY <1>3, <1>0 DEF PollReady, Tracked
<1>4. CASE PollBusy
  BY <1>4, <1>0 DEF PollBusy
<1>5. CASE PollAgain
  BY <1>5, <1>0 DEF PollAgain
<1>6. CASE PollTimeout
  BY <1>6, <1>0 DEF PollTimeout
<1>7. CASE Transfer
  BY <1>7, <1>0 DEF Transfer, AtTodo
<1>8. CASE SetSleep
  BY <1>8, <1>0 DEF SetSleep, AtTodo
<1>9. CASE TransferFails
  BY <1>9 DEF TransferFails, AtTodo, Short, Ordered, Statements
<1>10. CASE DelayEnds
  BY <1>10, <1>0 DEF DelayEnds
<1>11. CASE Reset
  BY <1>11, <1>0 DEF Reset, AtTodo
<1>12. CASE ResetEnds
  BY <1>12, <1>0 DEF ResetEnds, Tracked
<1>13. CASE BecomesReady
  BY <1>13, <1>0 DEF BecomesReady
<1>14. CASE FallsAsleep
  BY <1>14, <1>0 DEF FallsAsleep
<1>15. CASE Tick
  BY <1>15, <1>0 DEF Tick, Waiting
<1>16. CASE UNCHANGED vars
  BY <1>16, <1>0
<1> QED
  BY <1>1, <1>2, <1>3, <1>4, <1>5, <1>6, <1>7, <1>8, <1>9, <1>10, <1>11, <1>12,
     <1>13, <1>14, <1>15, <1>16 DEF Next

\* Every step keeps the types.
LEMMA NextTypeOK == ASSUME TypeOK, Short(todo') PROVE [Next]_vars => TypeOK'
<1> SUFFICES ASSUME [Next]_vars PROVE TypeOK'
  OBVIOUS
<1>0. Uptime32 \in Nat /\ (Uptime32 + Timeout) % Wrap \in 0..(Wrap - 1)
  <2>1. Uptime32 \in Nat
    BY ModRange, ConstantsAssumption DEF TypeOK, Uptime32
  <2> QED
    BY <2>1, ModRange, ConstantsAssumption
<1> USE ConstantsAssumption
<1> USE DEF TypeOK, Short, Statements, vars, driver
<1>1. CASE \E call \in Calls : Call(call)
  BY <1>1 DEF Call
<1>2. CASE CheckDeviceReady
  BY <1>2, <1>0 DEF CheckDeviceReady, AtTodo, Glitch
<1>3. CASE PollReady
  BY <1>3 DEF PollReady
<1>4. CASE PollBusy
  BY <1>4 DEF PollBusy
<1>5. CASE PollAgain
  BY <1>5 DEF PollAgain
<1>6. CASE PollTimeout
  BY <1>6 DEF PollTimeout
<1>7. CASE Transfer
  BY <1>7 DEF Transfer, AtTodo
<1>8. CASE SetSleep
  BY <1>8 DEF SetSleep, AtTodo
<1>9. CASE TransferFails
  BY <1>9 DEF TransferFails, AtTodo
<1>10. CASE DelayEnds
  BY <1>10 DEF DelayEnds
<1>11. CASE Reset
  BY <1>11 DEF Reset, AtTodo
<1>12. CASE ResetEnds
  BY <1>12 DEF ResetEnds
<1>13. CASE BecomesReady
  BY <1>13 DEF BecomesReady
<1>14. CASE FallsAsleep
  BY <1>14 DEF FallsAsleep
<1>15. CASE Tick
  BY <1>15 DEF Tick, Waiting
<1>16. CASE UNCHANGED vars
  BY <1>16
<1> QED
  BY <1>1, <1>2, <1>3, <1>4, <1>5, <1>6, <1>7, <1>8, <1>9, <1>10, <1>11, <1>12,
     <1>13, <1>14, <1>15, <1>16 DEF Next

\* Every step keeps the driver and the chip in step.
LEMMA NextTracked == ASSUME Tracked, TypeOK, Ordered(todo), [Next]_vars PROVE Tracked'
<1>0. ASSUME todo # <<>>
      PROVE  /\ Head(todo) \in {"sleep", "reset"} => Tail(todo) = <<>>
             /\ Tail(todo) # <<>> /\ Head(todo) # "check" => Head(Tail(todo)) = "check"
             /\ Tail(todo) # <<>> => Head(Tail(todo)) \in {"check", "command", "response", "sleep"}
  BY <1>0, TailOrdered DEF TypeOK, Short, Statements
<1> USE DEF Tracked, TypeOK, Transfers, vars, driver
<1>1. CASE \E call \in Calls : Call(call)
  BY <1>1, CallStarts DEF Call, StartOK, Short
<1>2. CASE CheckDeviceReady
  BY <1>2, <1>0 DEF CheckDeviceReady, AtTodo, Glitch
<1>3. CASE PollReady
  BY <1>3, <1>0 DEF PollReady
<1>4. CASE PollBusy
  BY <1>4, <1>0 DEF PollBusy
<1>5. CASE PollAgain
  BY <1>5, <1>0 DEF PollAgain
<1>6. CASE PollTimeout
  BY <1>6, <1>0 DEF PollTimeout
<1>7. CASE Transfer
  BY <1>7, <1>0 DEF Transfer, AtTodo
<1>8. CASE SetSleep
  BY <1>8, <1>0 DEF SetSleep, AtTodo
<1>9. CASE TransferFails
  BY <1>9, <1>0 DEF TransferFails, AtTodo
<1>10. CASE DelayEnds
  BY <1>10, <1>0 DEF DelayEnds
<1>11. CASE Reset
  BY <1>11, <1>0 DEF Reset, AtTodo
<1>12. CASE ResetEnds
  BY <1>12, <1>0 DEF ResetEnds
<1>13. CASE BecomesReady
  BY <1>13, <1>0 DEF BecomesReady
<1>14. CASE FallsAsleep
  BY <1>14, <1>0 DEF FallsAsleep
<1>15. CASE Tick
  BY <1>15, <1>0 DEF Tick, Waiting
<1>16. CASE UNCHANGED vars
  BY <1>16, <1>0
<1> QED
  BY <1>1, <1>2, <1>3, <1>4, <1>5, <1>6, <1>7, <1>8, <1>9, <1>10, <1>11, <1>12,
     <1>13, <1>14, <1>15, <1>16 DEF Next

\* Every step keeps the bound of the wait.
LEMMA NextWaitBounded == ASSUME WaitBounded, Tracked, TypeOK, [Next]_vars PROVE WaitBounded'
<1> USE ConstantsAssumption
<1> USE DEF WaitBounded, Waited, Tracked, TypeOK, vars, driver
<1>1. CASE \E call \in Calls : Call(call)
  BY <1>1 DEF Call
<1>2. CASE CheckDeviceReady
  BY <1>2 DEF CheckDeviceReady, AtTodo, Glitch
<1>3. CASE PollReady
  BY <1>3 DEF PollReady
<1>4. CASE PollBusy
  BY <1>4 DEF PollBusy
<1>5. CASE PollAgain
  BY <1>5 DEF PollAgain
<1>6. CASE PollTimeout
  BY <1>6 DEF PollTimeout
<1>7. CASE Transfer
  BY <1>7 DEF Transfer, AtTodo
<1>8. CASE SetSleep
  BY <1>8 DEF SetSleep, AtTodo
<1>9. CASE TransferFails
  BY <1>9 DEF TransferFails, AtTodo
<1>10. CASE DelayEnds
  BY <1>10 DEF DelayEnds
<1>11. CASE Reset
  BY <1>11 DEF Reset, AtTodo
<1>12. CASE ResetEnds
  BY <1>12 DEF ResetEnds
<1>13. CASE BecomesReady
  BY <1>13 DEF BecomesReady
<1>14. CASE FallsAsleep
  BY <1>14 DEF FallsAsleep
<1>15. CASE Tick
  BY <1>15 DEF Tick, Waiting
<1>16. CASE UNCHANGED vars
  BY <1>16
<1> QED
  BY <1>1, <1>2, <1>3, <1>4, <1>5, <1>6, <1>7, <1>8, <1>9, <1>10, <1>11, <1>12,
     <1>13, <1>14, <1>15, <1>16 DEF Next

\* Every step keeps the end of the wait.
LEMMA NextEndOfWait == ASSUME EndOfWait, [Next]_vars PROVE EndOfWait'
<1> USE DEF EndOfWait, Uptime32, vars, driver
<1>1. CASE \E call \in Calls : Call(call)
  BY <1>1 DEF Call
<1>2. CASE CheckDeviceReady
  BY <1>2 DEF CheckDeviceReady, AtTodo, Glitch
<1>3. CASE PollReady
  BY <1>3 DEF PollReady
<1>4. CASE PollBusy
  BY <1>4 DEF PollBusy
<1>5. CASE PollAgain
  BY <1>5 DEF PollAgain
<1>6. CASE PollTimeout
  BY <1>6 DEF PollTimeout
<1>7. CASE Transfer
  BY <1>7 DEF Transfer, AtTodo
<1>8. CASE SetSleep
  BY <1>8 DEF SetSleep, AtTodo
<1>9. CASE TransferFails
  BY <1>9 DEF TransferFails, AtTodo
<1>10. CASE DelayEnds
  BY <1>10 DEF DelayEnds
<1>11. CASE Reset
  BY <1>11 DEF Reset, AtTodo
<1>12. CASE ResetEnds
  BY <1>12 DEF ResetEnds
<1>13. CASE BecomesReady
  BY <1>13 DEF BecomesReady
<1>14. CASE FallsAsleep
  BY <1>14 DEF FallsAsleep
<1>15. CASE Tick
  BY <1>15 DEF Tick, Waiting
<1>16. CASE UNCHANGED vars
  BY <1>16
<1> QED
  BY <1>1, <1>2, <1>3, <1>4, <1>5, <1>6, <1>7, <1>8, <1>9, <1>10, <1>11, <1>12,
     <1>13, <1>14, <1>15, <1>16 DEF Next

\* As long as the end of the wait does not wrap, the wait for a chip that does
\* not hang ends before the time-out.
LEMMA InTime ==
  ASSUME IInv, pc = "poll", chip # "hung", ~Wraps
  PROVE  Uptime32 <= end
<1> USE ConstantsAssumption DEF IInv, TypeOK
<1>1. uptime \in Nat /\ since \in Nat /\ Waited \in Nat /\ uptime = since + Waited
  BY DEF Waited
<1>2. Waited <= Timeout
  BY DEF Waited, WaitBounded, Tracked
<1>3. since % Wrap \in Nat
  BY <1>1, ModRange
<1>4. (since % Wrap) + Timeout \in Nat /\ (since % Wrap) + Timeout < Wrap
  BY <1>3 DEF Wraps
<1>5. end = (since % Wrap) + Timeout
  BY <1>4, ModSmall DEF EndOfWait
<1>6. Uptime32 = (since % Wrap) + Waited
  <2>1. (since % Wrap) + Waited < Wrap
    BY <1>1, <1>2, <1>3, <1>4
  <2> QED
    BY <1>1, <2>1, ModPlus DEF Uptime32
<1> QED
  BY <1>1, <1>2, <1>3, <1>5, <1>6

\* Every step keeps the cause of a panic.
LEMMA NextOops == ASSUME IInv, [Next]_vars PROVE OopsOnlyNearWrap'
<1> USE DEF IInv
<1> USE DEF OopsOnlyNearWrap, Wraps, vars, driver
<1>1. CASE \E call \in Calls : Call(call)
  BY <1>1 DEF Call
<1>2. CASE CheckDeviceReady
  BY <1>2 DEF CheckDeviceReady, AtTodo, Glitch
<1>3. CASE PollReady
  BY <1>3 DEF PollReady
<1>4. CASE PollBusy
  BY <1>4 DEF PollBusy
<1>5. CASE PollAgain
  BY <1>5 DEF PollAgain
<1>6. CASE PollTimeout
  <2>1. chip = "hung" \/ Wraps
    <3>1. Uptime32 > end /\ pc = "poll"
      BY <1>6 DEF PollTimeout
    <3>2. Uptime32 \in Nat /\ end \in Nat
      BY ModRange, ConstantsAssumption DEF IInv, TypeOK, Uptime32
    <3> QED
      BY <3>1, <3>2, InTime
  <2> QED
    BY <1>6, <2>1 DEF PollTimeout
<1>7. CASE Transfer
  BY <1>7 DEF Transfer, AtTodo
<1>8. CASE SetSleep
  BY <1>8 DEF SetSleep, AtTodo
<1>9. CASE TransferFails
  BY <1>9 DEF TransferFails, AtTodo
<1>10. CASE DelayEnds
  BY <1>10 DEF DelayEnds
<1>11. CASE Reset
  BY <1>11 DEF Reset, AtTodo
<1>12. CASE ResetEnds
  BY <1>12 DEF ResetEnds
<1>13. CASE BecomesReady
  BY <1>13 DEF BecomesReady
<1>14. CASE FallsAsleep
  BY <1>14 DEF FallsAsleep
<1>15. CASE Tick
  BY <1>15 DEF Tick, Waiting
<1>16. CASE UNCHANGED vars
  BY <1>16
<1> QED
  BY <1>1, <1>2, <1>3, <1>4, <1>5, <1>6, <1>7, <1>8, <1>9, <1>10, <1>11, <1>12,
     <1>13, <1>14, <1>15, <1>16 DEF Next

-----------------------------------------------------------------------------
(* The theorems.                                                           *)

\* The inductive invariant holds initially.
LEMMA InitIInv == Init => IInv
<1> SUFFICES ASSUME Init PROVE IInv
  OBVIOUS
<1> USE ConstantsAssumption DEF Init
<1>1. TypeOK
  BY DEF TypeOK
<1>2. Ordered(todo) /\ Tracked /\ WaitBounded /\ EndOfWait /\ OopsOnlyNearWrap
  BY DEF Ordered, Tracked, WaitBounded, Waited, EndOfWait, OopsOnlyNearWrap
<1> QED
  BY <1>1, <1>2 DEF IInv

\* The inductive invariant is an invariant.
THEOREM Inductive == Spec => []IInv
<1>1. IInv /\ [Next]_vars => IInv'
  <2> SUFFICES ASSUME IInv, [Next]_vars PROVE IInv'
    OBVIOUS
  <2>1. TypeOK /\ Short(todo) /\ Ordered(todo) /\ Tracked /\ WaitBounded /\ EndOfWait
    BY DEF IInv, TypeOK, Short, Statements
  <2>2. Short(todo') /\ Ordered(todo')
    BY <2>1, NextTodo
  <2>3. TypeOK' /\ Tracked' /\ WaitBounded' /\ EndOfWait' /\ OopsOnlyNearWrap'
    BY <2>1, <2>2, NextTypeOK, NextTracked, NextWaitBounded, NextEndOfWait, NextOops
  <2>4. Ordered(todo)'
    BY <2>2 DEF Ordered
  <2> QED
    BY <2>3, <2>4 DEF IInv
<1> QED
  BY InitIInv, <1>1, PTL DEF Spec

\* TypeOK is an invariant; the end of a wait is a value of the uptime, and no
\* call has more than four statements left.
THEOREM TypeCorrect == Spec => []TypeOK
<1>1. IInv => TypeOK
  BY DEF IInv
<1> QED
  BY Inductive, <1>1, PTL

\* The driver and the chip stay in step, whatever calls, errors, sleeps and
\* resets came before: radio_status is right when a call has returned, and no
\* transfer starts when the chip cannot take it
\* (InStep; lr11xx_hal.c:87-160, 300).
THEOREM StaysInStep == Spec => []InStep
<1>1. IInv => InStep
  BY DEF IInv, Tracked, InStep, SleepTracked, TransferWhenReady, AtTodo, Transfers
<1> QED
  BY Inductive, <1>1, PTL

\* Whatever the range of the uptime, the driver panics over a chip that does
\* not hang only when the wait began in the last Timeout milliseconds before
\* the uptime wraps (lr11xx_hal.c:53-79).
THEOREM PanicsNearWrapOnly == Spec => []OopsOnlyNearWrap
<1>1. IInv => OopsOnlyNearWrap
  BY DEF IInv
<1> QED
  BY Inductive, <1>1, PTL

\* Before the first wrap the driver panics only over a chip that hangs
\* (OopsOnlyIfHung; lr11xx_hal.c:53-79, 146-160).
THEOREM PanicsIfHungOnly ==
  ASSUME Horizon + Timeout < Wrap PROVE Spec => []OopsOnlyIfHung
<1>1. IInv => OopsOnlyIfHung
  <2> SUFFICES ASSUME IInv, Wraps PROVE FALSE
    BY DEF IInv, OopsOnlyNearWrap, OopsOnlyIfHung
  <2>1. since \in Nat /\ since <= Horizon
    BY ConstantsAssumption DEF IInv, TypeOK
  <2>2. since < Wrap
    BY <2>1, ConstantsAssumption
  <2>3. since % Wrap = since
    BY <2>1, <2>2, ConstantsAssumption, ModSmall
  <2> QED
    BY <2>1, <2>3, ConstantsAssumption DEF Wraps
<1> QED
  BY Inductive, <1>1, PTL
=============================================================================
