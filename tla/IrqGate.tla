------------------------------ MODULE IrqGate ------------------------------
(***************************************************************************)
(* What the interrupt gate of the modem HAL promises to the radio engine.  *)
(* Two sources raise events.  While the gate is open an event reaches the  *)
(* engine at once; while it is closed the event is held, never dropped,    *)
(* and reaches the engine after the gate opens again, the radio event      *)
(* first.  The gate only closes again once nothing is held any more.       *)
(***************************************************************************)

VARIABLES
  open,     \* the engine is not in a critical section
  held,     \* sources with an event raised in a critical section
  noticed   \* sources the engine has been told about

gateVars == <<open, held, noticed>>

Sources == {"radio", "timer"}

Init == open = TRUE /\ held = {} /\ noticed = {}

Close == /\ held = {} \/ ~open
         /\ open' = FALSE
         /\ UNCHANGED <<held, noticed>>

Open == open' = TRUE /\ UNCHANGED <<held, noticed>>

\* A source raises an event.
Fire(s) ==
  \/ open /\ noticed' = noticed \cup {s} /\ UNCHANGED <<open, held>>
  \/ ~open /\ held' = held \cup {s} /\ UNCHANGED <<open, noticed>>

\* A held event reaches the engine; the timer waits for the radio.
Drain(s) ==
  /\ open /\ s \in held
  /\ s = "timer" => "radio" \notin held
  /\ held' = held \ {s}
  /\ noticed' = noticed \cup {s}
  /\ UNCHANGED open

\* The engine aborts the radio operation and withdraws its event.
Withdraw == held' = held \ {"radio"} /\ UNCHANGED <<open, noticed>>

\* The engine serves everything it was told about.
Serve == noticed' = {} /\ UNCHANGED <<open, held>>

Next == \/ Close
        \/ Open
        \/ \E s \in Sources : Fire(s) \/ Drain(s)
        \/ Withdraw
        \/ Serve

Spec == Init /\ [][Next]_gateVars
=============================================================================
