----------------------------- MODULE MCRadioHal -----------------------------
(* TLC instance of RadioHal: every driver, an uptime of a few bits.        *)
EXTENDS RadioHal

AllFamilies == {"lr11xx", "lr20xx", "sx126x"}
OneFamily == {"lr11xx"}
=============================================================================
