--------------------------- MODULE HwModemProofs ---------------------------
(***************************************************************************)
(* Proofs about HwModem, for any set of commands: the modem never sleeps   *)
(* on a command, and to a host that waits for BUSY it stays ready, tells   *)
(* the truth by BUSY, and answers the command it was sent, once.           *)
(***************************************************************************)
EXTENDS HwModem, SequenceTheorems, TLAPS

-----------------------------------------------------------------------------
(* The inductive invariant: an exchange with a patient host goes through   *)
(* seven phases, each with its own state of the lines and of the flags.    *)

\* The main loop has no command in hand.
AtRest == pc \in {"loop", "engine", "check_sleep", "sleep"}

\* Whatever was received since BUSY fell is of the command in progress.
Clean ==
  /\ \A i \in DOMAIN buffer : buffer[i] = asked
  /\ fifo \in {<<>>, <<asked>>}

Idle  == busy /\ ready /\ ~available
Taken == ~busy /\ ~ready /\ Clean
Fresh == response = None /\ executed = 0

\* No exchange is in progress.
Resting ==
  host = "idle" /\ Idle /\ command /\ AtRest /\ response = None /\ executed <= 1

\* COMMAND is low and its edge is not served yet.
Called == host = "asking" /\ Idle /\ ~command /\ edge /\ AtRest /\ Fresh

\* BUSY is low and the frame comes in.
Receiving ==
  host = "asking" /\ Taken /\ ~available /\ rxEnabled /\ ~command /\ AtRest /\ Fresh

\* COMMAND is high again, which the ISR is about to see.
Closing ==
  /\ host = "waiting" /\ Taken /\ ~available /\ rxEnabled /\ command
  /\ edge \/ isr
  /\ AtRest /\ Fresh

\* The frame is in hand.
Processing ==
  /\ host = "waiting" /\ Taken /\ available /\ command
  /\ \/ (AtRest \/ pc = "process") /\ Fresh
     \/ pc = "set_ready" /\ response \in {None, asked, Error} /\ executed <= 1

\* The modem is ready again and about to raise BUSY.
Finishing ==
  /\ host = "waiting" /\ ~busy /\ ready /\ command
  /\ response \in {None, asked, Error} /\ executed <= 1
  /\ \/ pc = "clear_available"
     \/ pc = "set_busy" /\ ~available

\* BUSY is high: the answer goes out, or there is none.
Answering ==
  /\ host = "waiting" /\ Idle /\ command /\ executed <= 1
  /\ \/ pc = "answer" /\ response \in {asked, Error}
     \/ AtRest /\ response = None

Exchange ==
  hostKind = "patient" =>
    \/ Resting \/ Called \/ Receiving \/ Closing \/ Processing \/ Finishing \/ Answering

Buffered == buffer \in Seq(Commands)

IInv == TypeOK /\ Buffered /\ NoCommandAsleep /\ Exchange

-----------------------------------------------------------------------------
(* The types.                                                              *)

Booleans == {command, edge, busy, rxEnabled, available, ready, isr} \subseteq BOOLEAN

\* The other variables.
Values ==
  /\ fifo \in {<<>>} \cup {<<c>> : c \in Commands}
  /\ lpMode \in {"enable", "disable_once", "disable"}
  /\ response \in Commands \cup {None, Error}
  /\ pc \in {"loop", "process", "set_ready", "clear_available", "set_busy",
             "answer", "engine", "check_sleep", "sleep"}
  /\ sem \in {0, 1}
  /\ host \in {"idle", "asking", "waiting"} /\ asked \in Commands
  /\ sent \in 0..FrameSize /\ hostKind \in Hosts /\ executed \in Nat

Buffers == Buffered /\ Len(buffer) <= BufferSize

\* TypeOK has these three parts.
LEMMA TypeParts == TypeOK /\ Buffered <=> Booleans /\ Values /\ Buffers
  BY DEF TypeOK, Booleans, Values, Buffers, Buffered

\* Every step keeps the lines and the flags Boolean.
LEMMA NextBooleans == ASSUME Booleans, [Next]_vars PROVE Booleans'
<1> USE DEF Booleans, vars, lines, flags, uart, hostVars
<1>1. CASE Loop
  BY <1>1, Zenon DEF Main, Loop
<1>2. CASE ProcessCmd
  BY <1>2, Zenon DEF Main, ProcessCmd
<1>3. CASE SetReady
  BY <1>3, Zenon DEF Main, SetReady
<1>4. CASE ClearAvailable
  BY <1>4, Zenon DEF Main, ClearAvailable
<1>5. CASE SetBusy
  BY <1>5, Zenon DEF Main, SetBusy
<1>6. CASE Answer
  BY <1>6, Zenon DEF Main, Answer
<1>7. CASE RunEngine
  BY <1>7, Zenon DEF Main, RunEngine
<1>8. CASE CheckSleep
  BY <1>8, Zenon DEF Main, CheckSleep
<1>9. CASE Woken
  BY <1>9, Zenon DEF Main, Woken
<1>10. CASE TimedOut
  BY <1>10, Zenon DEF Main, TimedOut
<1>11. CASE CommandIsr
  BY <1>11, Zenon DEF StartReception, CommandIsr
<1>12. CASE CommandIsrEnd
  BY <1>12, Zenon DEF CommandIsrEnd
<1>13. CASE UartIsr
  BY <1>13, Zenon DEF UartIsr
<1>14. CASE UartOverrun
  BY <1>14, Zenon DEF UartOverrun
<1>15. CASE \E c \in Commands : HostAsks(c)
  BY <1>15, Zenon DEF HostAsks, SetCommand
<1>16. CASE HostSends
  BY <1>16, Zenon DEF HostSends
<1>17. CASE HostEnds
  BY <1>17, Zenon DEF SetCommand, HostEnds
<1>18. CASE HostGoesOn
  BY <1>18, Zenon DEF HostGoesOn
<1>19. CASE HostRetries
  BY <1>19, Zenon DEF SetCommand, HostRetries
<1>20. CASE UNCHANGED vars
  BY <1>20, Zenon
<1> QED
  BY <1>1, <1>2, <1>3, <1>4, <1>5, <1>6, <1>7, <1>8, <1>9, <1>10, <1>11, <1>12,
     <1>13, <1>14, <1>15, <1>16, <1>17, <1>18, <1>19, <1>20 DEF Next, MainStep

\* Where there is room there is room for one more.
LEMMA RoomForOne == \A n \in Nat : n <= 3 /\ n # 3 => n + 1 <= 3
  OBVIOUS

\* Every step keeps the received pieces in the buffer.
LEMMA NextBuffers == ASSUME Buffers, Values, [Next]_vars PROVE Buffers'
<1>0. <<>> \in Seq(Commands) /\ Len(<<>>) = 0
  BY EmptySeq
<1>a. Len(buffer) \in Nat
  BY LenProperties DEF Buffers, Buffered
<1> USE DEF Buffers, Buffered, BufferSize, vars, lines, flags, uart, hostVars
<1>1. CASE Loop
  BY <1>1 DEF Main, Loop
<1>2. CASE ProcessCmd
  BY <1>2 DEF Main, ProcessCmd
<1>3. CASE SetReady
  BY <1>3 DEF Main, SetReady
<1>4. CASE ClearAvailable
  BY <1>4 DEF Main, ClearAvailable
<1>5. CASE SetBusy
  BY <1>5 DEF Main, SetBusy
<1>6. CASE Answer
  BY <1>6 DEF Main, Answer
<1>7. CASE RunEngine
  BY <1>7 DEF Main, RunEngine
<1>8. CASE CheckSleep
  BY <1>8 DEF Main, CheckSleep
<1>9. CASE Woken
  BY <1>9 DEF Main, Woken
<1>10. CASE TimedOut
  BY <1>10 DEF Main, TimedOut
<1>11. CASE CommandIsr
  <2>1. buffer' = <<>> \/ buffer' = buffer
    BY <1>11 DEF StartReception, CommandIsr
  <2>2. Buffered'
    BY <1>0, <2>1
  <2>3. Len(buffer') \in Nat /\ Len(buffer') <= 3
    BY <1>0, <1>a, <2>1
  <2> QED
    BY <2>2, <2>3
<1>12. CASE CommandIsrEnd
  BY <1>12 DEF CommandIsrEnd
<1>13. CASE UartIsr
  <2>1. PICK c \in Commands : fifo = <<c>>
    BY <1>13 DEF UartIsr, Values
  <2>2. buffer \o <<c>> \in Seq(Commands) /\ Len(buffer \o <<c>>) = Len(buffer) + 1
    OBVIOUS
  <2>3. CASE Len(buffer) = BufferSize
    BY <1>13, <2>3 DEF UartIsr
  <2>4. CASE Len(buffer) # BufferSize
    <3>1. buffer' = buffer \o <<c>>
      BY <1>13, <2>1, <2>4 DEF UartIsr
    <3>2. Buffered' /\ Len(buffer') = Len(buffer) + 1
      BY <2>2, <3>1, Zenon
    <3>3. Len(buffer) \in Nat /\ Len(buffer) <= 3 /\ Len(buffer) # 3
      BY <1>a, <2>4
    <3>4. Len(buffer) + 1 <= 3
      BY <3>3, RoomForOne, Zenon
    <3>5. Len(buffer') <= 3
      BY <3>2, <3>4, Zenon
    <3> QED
      BY <3>2, <3>5, Zenon
  <2> QED
    BY <2>3, <2>4
<1>14. CASE UartOverrun
  BY <1>14 DEF UartOverrun
<1>15. CASE \E c \in Commands : HostAsks(c)
  BY <1>15 DEF HostAsks, SetCommand
<1>16. CASE HostSends
  BY <1>16 DEF HostSends
<1>17. CASE HostEnds
  BY <1>17 DEF SetCommand, HostEnds
<1>18. CASE HostGoesOn
  BY <1>18 DEF HostGoesOn
<1>19. CASE HostRetries
  BY <1>19 DEF SetCommand, HostRetries
<1>20. CASE UNCHANGED vars
  BY <1>20
<1> QED
  BY <1>1, <1>2, <1>3, <1>4, <1>5, <1>6, <1>7, <1>8, <1>9, <1>10, <1>11, <1>12,
     <1>13, <1>14, <1>15, <1>16, <1>17, <1>18, <1>19, <1>20 DEF Next, MainStep

\* Every step keeps the types of the other variables.
LEMMA NextValues == ASSUME Values, Buffers, [Next]_vars PROVE Values'
<1> USE DEF Values, FrameSize, vars, lines, flags, uart, hostVars
<1>1. CASE Loop
  BY <1>1 DEF Main, Loop
<1>2. CASE ProcessCmd
  <2>1. buffer # <<>> /\ Intact => buffer[1] \in Commands
    BY DEF Intact, Buffers, Buffered, FrameSize
  <2> QED
    BY <1>2, <2>1 DEF ProcessCmd, Main
<1>3. CASE SetReady
  BY <1>3 DEF Main, SetReady
<1>4. CASE ClearAvailable
  BY <1>4 DEF Main, ClearAvailable
<1>5. CASE SetBusy
  BY <1>5 DEF Main, SetBusy
<1>6. CASE Answer
  BY <1>6 DEF Main, Answer
<1>7. CASE RunEngine
  BY <1>7 DEF Main, RunEngine
<1>8. CASE CheckSleep
  BY <1>8 DEF Main, CheckSleep
<1>9. CASE Woken
  BY <1>9 DEF Main, Woken
<1>10. CASE TimedOut
  BY <1>10 DEF Main, TimedOut
<1>11. CASE CommandIsr
  BY <1>11 DEF StartReception, CommandIsr
<1>12. CASE CommandIsrEnd
  BY <1>12 DEF CommandIsrEnd
<1>13. CASE UartIsr
  BY <1>13 DEF UartIsr
<1>14. CASE UartOverrun
  BY <1>14 DEF UartOverrun
<1>15. CASE \E c \in Commands : HostAsks(c)
  BY <1>15 DEF HostAsks, SetCommand
<1>16. CASE HostSends
  BY <1>16 DEF HostSends
<1>17. CASE HostEnds
  BY <1>17 DEF SetCommand, HostEnds
<1>18. CASE HostGoesOn
  BY <1>18 DEF HostGoesOn
<1>19. CASE HostRetries
  BY <1>19 DEF SetCommand, HostRetries
<1>20. CASE UNCHANGED vars
  BY <1>20
<1> QED
  BY <1>1, <1>2, <1>3, <1>4, <1>5, <1>6, <1>7, <1>8, <1>9, <1>10, <1>11, <1>12,
     <1>13, <1>14, <1>15, <1>16, <1>17, <1>18, <1>19, <1>20 DEF Next, MainStep

\* The main loop does not fall asleep on a command, and a command that arrives
\* wakes it up.
LEMMA NextNoCommandAsleep ==
    ASSUME Booleans, Values, NoCommandAsleep, [Next]_vars
    PROVE  NoCommandAsleep'
<1> USE DEF Values, NoCommandAsleep, vars, lines, flags, uart, hostVars
<1>1. CASE Loop
  BY <1>1 DEF Main, Loop
<1>2. CASE ProcessCmd
  BY <1>2 DEF Main, ProcessCmd
<1>3. CASE SetReady
  BY <1>3 DEF Main, SetReady
<1>4. CASE ClearAvailable
  BY <1>4 DEF Main, ClearAvailable
<1>5. CASE SetBusy
  BY <1>5 DEF Main, SetBusy
<1>6. CASE Answer
  BY <1>6 DEF Main, Answer
<1>7. CASE RunEngine
  BY <1>7 DEF Main, RunEngine
<1>8. CASE CheckSleep
  BY <1>8 DEF Main, CheckSleep
<1>9. CASE Woken
  BY <1>9 DEF Main, Woken
<1>10. CASE TimedOut
  BY <1>10 DEF Main, TimedOut
<1>11. CASE CommandIsr
  BY <1>11 DEF StartReception, CommandIsr
<1>12. CASE CommandIsrEnd
  BY <1>12 DEF CommandIsrEnd
<1>13. CASE UartIsr
  BY <1>13 DEF UartIsr
<1>14. CASE UartOverrun
  BY <1>14 DEF UartOverrun
<1>15. CASE \E c \in Commands : HostAsks(c)
  BY <1>15 DEF HostAsks, SetCommand
<1>16. CASE HostSends
  BY <1>16 DEF HostSends
<1>17. CASE HostEnds
  BY <1>17 DEF SetCommand, HostEnds
<1>18. CASE HostGoesOn
  BY <1>18 DEF HostGoesOn
<1>19. CASE HostRetries
  BY <1>19 DEF SetCommand, HostRetries
<1>20. CASE UNCHANGED vars
  BY <1>20
<1> QED
  BY <1>1, <1>2, <1>3, <1>4, <1>5, <1>6, <1>7, <1>8, <1>9, <1>10, <1>11, <1>12,
     <1>13, <1>14, <1>15, <1>16, <1>17, <1>18, <1>19, <1>20 DEF Next, MainStep

\* Every step takes an exchange with a patient host to its next phase, or keeps
\* its phase.
LEMMA NextExchange ==
    ASSUME Booleans, Values, Buffers, Exchange, [Next]_vars
    PROVE  Exchange'
<1>0. None \notin Commands /\ Error \notin Commands /\ Error # None /\ asked \in Commands /\ executed \in Nat
  BY ConstantsAssumption DEF Values
<1> USE <1>0
<1> USE DEF Resting, Called, Receiving, Closing, Processing, Finishing, Answering,
            AtRest, Idle, Taken, Fresh, Exchange, vars, lines, flags, uart, hostVars
<1>1. CASE Loop
  <2>1. Clean' = Clean
    BY <1>1 DEF Clean, Main, Loop
  <2> QED
    BY <1>1, <2>1 DEF Main, Loop
<1>2. CASE ProcessCmd
  <2>1. Clean' = Clean
    BY <1>2 DEF Clean, ProcessCmd, Main
  <2>2. Clean /\ buffer # <<>> /\ Intact => buffer[1] = asked
    BY DEF Clean, Intact, Buffers, Buffered, FrameSize
  <2> QED
    BY <1>2, <2>1, <2>2 DEF ProcessCmd, Main
<1>3. CASE SetReady
  <2>1. Clean' = Clean
    BY <1>3 DEF Clean, Main, SetReady
  <2> QED
    BY <1>3, <2>1 DEF Main, SetReady
<1>4. CASE ClearAvailable
  <2>1. Clean' = Clean
    BY <1>4 DEF Clean, Main, ClearAvailable
  <2> QED
    BY <1>4, <2>1 DEF Main, ClearAvailable
<1>5. CASE SetBusy
  <2>1. Clean' = Clean
    BY <1>5 DEF Clean, Main, SetBusy
  <2> QED
    BY <1>5, <2>1 DEF Main, SetBusy
<1>6. CASE Answer
  <2>1. Clean' = Clean
    BY <1>6 DEF Clean, Main, Answer
  <2> QED
    BY <1>6, <2>1 DEF Main, Answer
<1>7. CASE RunEngine
  <2>1. Clean' = Clean
    BY <1>7 DEF Clean, Main, RunEngine
  <2> QED
    BY <1>7, <2>1 DEF Main, RunEngine
<1>8. CASE CheckSleep
  <2>1. Clean' = Clean
    BY <1>8 DEF Clean, Main, CheckSleep
  <2> QED
    BY <1>8, <2>1 DEF Main, CheckSleep
<1>9. CASE Woken
  <2>1. Clean' = Clean
    BY <1>9 DEF Clean, Main, Woken
  <2> QED
    BY <1>9, <2>1 DEF Main, Woken
<1>10. CASE TimedOut
  <2>1. Clean' = Clean
    BY <1>10 DEF Clean, Main, TimedOut
  <2> QED
    BY <1>10, <2>1 DEF Main, TimedOut
<1>11. CASE CommandIsr
  <2>1. ready /\ ~command => Clean'
    BY <1>11 DEF Clean, CommandIsr, StartReception
  <2>2. ~(ready /\ ~command) => Clean' = Clean
    BY <1>11 DEF Clean, CommandIsr
  <2> QED
    BY <1>11, <2>1, <2>2 DEF CommandIsr, StartReception
<1>12. CASE CommandIsrEnd
  <2>1. Clean' = Clean
    BY <1>12 DEF Clean, CommandIsrEnd
  <2> QED
    BY <1>12, <2>1 DEF CommandIsrEnd
<1>13. CASE UartIsr
  <2>1. ASSUME Clean PROVE Clean'
    <3>1. fifo' = <<>> /\ fifo = <<asked>> /\ asked' = asked
      BY <1>13, <2>1 DEF Clean, UartIsr
    <3>2. buffer' \in {buffer, buffer \o <<asked>>}
      BY <1>13, <3>1 DEF UartIsr
    <3>3. \A i \in DOMAIN (buffer \o <<asked>>) : (buffer \o <<asked>>)[i] = asked
      BY <2>1 DEF Clean, Buffers, Buffered
    <3> QED
      BY <2>1, <3>1, <3>2, <3>3 DEF Clean
  <2> QED
    BY <1>13, <2>1 DEF UartIsr
<1>14. CASE UartOverrun
  <2>1. Clean => Clean'
    BY <1>14 DEF Clean, UartOverrun
  <2> QED
    BY <1>14, <2>1 DEF UartOverrun
<1>15. CASE \E c \in Commands : HostAsks(c)
  BY <1>15 DEF HostAsks, SetCommand
<1>16. CASE HostSends
  <2>1. Clean => Clean'
    BY <1>16 DEF Clean, HostSends
  <2> QED
    BY <1>16, <2>1 DEF HostSends
<1>17. CASE HostEnds
  <2>1. Clean' = Clean
    BY <1>17 DEF Clean, SetCommand, HostEnds
  <2> QED
    BY <1>17, <2>1 DEF SetCommand, HostEnds
<1>18. CASE HostGoesOn
  <2>1. Clean' = Clean
    BY <1>18 DEF Clean, HostGoesOn
  <2> QED
    BY <1>18, <2>1 DEF HostGoesOn
<1>19. CASE HostRetries
  <2>1. Clean' = Clean
    BY <1>19 DEF Clean, SetCommand, HostRetries
  <2> QED
    BY <1>19, <2>1 DEF SetCommand, HostRetries
<1>20. CASE UNCHANGED vars
  <2>1. Clean' = Clean
    BY <1>20 DEF Clean
  <2> QED
    BY <1>20, <2>1
<1> QED
  BY <1>1, <1>2, <1>3, <1>4, <1>5, <1>6, <1>7, <1>8, <1>9, <1>10, <1>11, <1>12,
     <1>13, <1>14, <1>15, <1>16, <1>17, <1>18, <1>19, <1>20 DEF Next, MainStep

-----------------------------------------------------------------------------
(* The theorems.                                                           *)

\* The inductive invariant holds initially.
LEMMA InitIInv == Init => IInv
<1> SUFFICES ASSUME Init PROVE IInv
  OBVIOUS
<1> USE DEF Init
<1>1. Booleans
  BY Zenon DEF Booleans
<1>2. Values /\ Buffers
  BY DEF Values, Buffers, Buffered, FrameSize, BufferSize
<1>3. NoCommandAsleep /\ Exchange
  BY DEF NoCommandAsleep, Exchange, Resting, Idle, AtRest
<1> QED
  BY <1>1, <1>2, <1>3, TypeParts DEF IInv

\* The inductive invariant is an invariant.
THEOREM Inductive == Spec => []IInv
<1>1. IInv /\ [Next]_vars => IInv'
  <2> SUFFICES ASSUME IInv, [Next]_vars PROVE IInv'
    OBVIOUS
  <2>1. Booleans /\ Values /\ Buffers /\ NoCommandAsleep /\ Exchange
    BY TypeParts DEF IInv
  <2>2. Booleans' /\ Values' /\ Buffers'
    BY <2>1, NextBooleans, NextValues, NextBuffers
  <2>3. NoCommandAsleep' /\ Exchange'
    BY <2>1, NextNoCommandAsleep, NextExchange
  <2>4. TypeOK' /\ Buffered'
    BY <2>2, TypeParts, PTL
  <2> QED
    BY <2>3, <2>4 DEF IInv
<1> QED
  BY InitIInv, <1>1, PTL DEF Spec

\* TypeOK is an invariant; the reception never writes beyond its buffer.
THEOREM TypeCorrect == Spec => []TypeOK
<1>1. IInv => TypeOK
  BY DEF IInv
<1> QED
  BY Inductive, <1>1, PTL

\* The modem never shuts itself off from a host that waits for BUSY, and for
\* either kind of host it never sleeps on a command it has taken
\* (NeverStuck; hw_modem.c:341-343, 402-427, main.c:184-194).
THEOREM StaysAlive == Spec => []NeverStuck
<1>1. IInv => NeverStuck
  BY DEF IInv, NeverStuck, StaysReady, InHand, Exchange, Resting, Called, Receiving,
         Closing, Processing, Finishing, Answering, Idle
<1> QED
  BY Inductive, <1>1, PTL

\* While BUSY is high the modem takes the next command of a host that waits
\* for it (BusyHonest; hw_modem.c:260-287, 341-348).
THEOREM HonestBusy == Spec => []BusyHonest
<1>1. IInv => BusyHonest
  BY DEF IInv, BusyHonest, Exchange, Resting, Called, Receiving,
         Closing, Processing, Finishing, Answering, Idle, Taken
<1> QED
  BY Inductive, <1>1, PTL

\* A command is executed at most once, and only the host that waits for it gets
\* its answer, or a frame error (OwnAnswer; hw_modem.c:260-284, 296-346).
THEOREM AnswersTheCommand == Spec => []OwnAnswer
<1>1. IInv => OwnAnswer
  BY DEF IInv, OwnAnswer, Exchange, Resting, Called, Receiving, Closing, Processing,
         Finishing, Answering, AtRest, Fresh
<1> QED
  BY Inductive, <1>1, PTL
=============================================================================
