----------------------------- MODULE MCStandalone -----------------------------
(* Every sample, in every build its loop is written for, and the porting     *)
(* tests on every port.                                                      *)
EXTENDS Standalone
MCPrograms == AllSamples
===============================================================================
