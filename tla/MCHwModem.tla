----------------------------- MODULE MCHwModem -----------------------------
(* Instances of HwModem for TLC. *)
EXTENDS HwModem

BothHosts    == {"patient", "retrying"}
=============================================================================
