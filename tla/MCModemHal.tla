----------------------------- MODULE MCModemHal -----------------------------
(* TLC instance of ModemHal: two timer requests and both kinds of board.   *)
EXTENDS ModemHal

BothBoards == {"edge", "toggle"}
ToggleOnly == {"toggle"}
=============================================================================
