---------------------------- MODULE MCUspThread ----------------------------
(* TLC instance of UspThread.                                              *)
EXTENDS UspThread

BothModes == {"preemptive", "cooperative"}
CooperativeOnly == {"cooperative"}
NoApp == {}
=============================================================================
