----------------------------- MODULE MCLorawanApps -----------------------------
(* Every sample with a modem, each with the events its own code looks at.    *)
EXTENDS LorawanApps
MCImages == Hooked \cup OwnCallback
MCRaises ==
    [i \in MCImages |->
        CASE i = "multiprotocol"    -> { "RESET", "ALARM", "JOINED" }
          [] i = "flrp_api_lorawan" -> { "RESET", "ALARM", "JOINED", "DOWNDATA" }
          [] OTHER                  -> Events]

\* The state, but for the last event the callback has read once it has served
\* it: nothing reads that before the callback writes it again.
MCView ==
    << image, network, pending, call_due, handler, IF handler = "hook" THEN event ELSE "RESET",
       services, loopVars, console, multiprotocolVars, flrpVars >>
===============================================================================
