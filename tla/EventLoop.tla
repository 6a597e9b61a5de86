------------------------------- MODULE EventLoop -------------------------------
(* The main loop of multiprotocol and of flrp_api_lorawan. Its requests are  *)
(* the bits of a k_event, raised by the shell and by the button: it waits    *)
(* for a bit, copies the bits, serves each in the order of its code, and     *)
(* clears those it copied. k_event_set() replaces the bits that are set.     *)
EXTENDS ModemEvents, Sequences

VARIABLES
    events,     \* main_loop_event, flrp_api_main_loop_event
    snapshot,   \* event: what the loop copied
    todo,       \* the bits of snapshot it has not served
    loop,       \* "wait" or "serve"
    shell,      \* where a shell command is: << "idle" >>, or its name and arguments
    unserved    \* the requests raised and not yet served, whether the event still shows them or not

loopVars == << events, snapshot, todo, loop, unserved >>
console  == << shell >>

\* Mutant: the main loop of multiprotocol does not wait for the last bit.
ServedFewer ==
    CASE image = "multiprotocol"    -> << "BUTTON", "RANGING", "SET_MODE", "KEEPALIVE" >>
      [] image = "flrp_api_lorawan" -> << "BUTTON", "KEEPALIVE" >>
      [] OTHER                      -> << >>

\* The bits each image serves, in the order of its code.
Served ==
    CASE image = "multiprotocol"    -> << "BUTTON", "RANGING", "SET_MODE", "KEEPALIVE", "REQ_MAC_TIME" >>
      [] image = "flrp_api_lorawan" -> << "BUTTON", "KEEPALIVE" >>
      [] OTHER                      -> << >>

Bits == { Served[i] : i \in DOMAIN Served }

LoopTypeOK ==
    /\ events \subseteq Bits /\ snapshot \subseteq Bits /\ todo \subseteq snapshot /\ unserved \subseteq Bits
    /\ loop \in { "wait", "serve" }

LoopReset(e, s, t, l, sh, u) ==
    /\ e = { } /\ s = { } /\ t = { } /\ u = { }
    /\ l = "wait" /\ sh = << "idle" >>

\* k_event_set: what is in todo will still be served; what is only set is lost.
SetEvent(b) ==
    /\ events' = { b } /\ unserved' = unserved \cup { b }
    /\ UNCHANGED << snapshot, todo, loop >>

\* k_event_wait, or wait_on_sems_and_event and k_event_test. A wait that times
\* out copies no bit.
Wait ==
    /\ loop = "wait" /\ Bits # { }
    /\ snapshot' = events /\ todo' = events /\ loop' = "serve"
    /\ UNCHANGED << events, unserved >>

\* The loop turns to bit b: no bit that comes before it is left.
Turn(b) ==
    /\ loop = "serve" /\ b \in todo
    /\ \A i, j \in DOMAIN Served : Served[i] = b /\ Served[j] \in todo => i <= j

\* It has served b.
Done(b) ==
    /\ todo' = todo \ { b } /\ unserved' = unserved \ { b }
    /\ UNCHANGED << events, snapshot, loop >>

\* Mutant: the loop ends without k_event_clear.
ClearNothing ==
    /\ loop = "serve" /\ todo = { } /\ loop' = "wait"
    /\ snapshot' = { }
    /\ UNCHANGED << events, todo, unserved >>

\* k_event_clear: a bit that was raised again since it was served goes with it.
Clear ==
    /\ loop = "serve" /\ todo = { } /\ loop' = "wait"
    /\ events' = events \ snapshot /\ snapshot' = { }
    /\ UNCHANGED << todo, unserved >>

-------------------------------------------------------------------------------
\* However requests are raised while the loop waits, copies, serves and clears,
\* it serves none that was not raised since it last served it: a press or a
\* command has its effect once (main of both samples).
ServedOnce == todo \subseteq unserved
===============================================================================
