------------------------------ MODULE Standalone ------------------------------
(* The programs without a LoRaWAN modem: the image holds the porting tests,  *)
(* or a sample with a button.                                                *)
EXTENDS SampleLoop, PortingTests

VARIABLE image      \* the program that was built: "sample" or "porting_tests"

vars == << image, sampleVars, testsVars >>

TypeOK == image \in { "sample", "porting_tests" } /\ SampleTypeOK /\ TestsTypeOK

\* Of the program that was not built, the variables stay as they are.
Init ==
    /\ image \in { "sample", "porting_tests" }
    /\ SampleInit /\ TestsInit
    /\ image = "porting_tests" => sample = CHOOSE s \in Programs : TRUE

Sampling == image = "sample" /\ UNCHANGED << image, testsVars >>
Testing  == image = "porting_tests" /\ UNCHANGED << image, sampleVars >>

SampleStep == Sampling /\ SampleNext
TestsStep  == Testing /\ TestsNext

Next == SampleStep \/ TestsStep

\* The main thread of a sample runs when it can; nothing is assumed of the
\* button, the radio or the clock, and in particular not that a wait times
\* out. Of the porting tests the main thread runs and the clock goes on.
Spec ==
    /\ Init /\ [][Next]_vars
    /\ WF_vars(Sampling /\ Main)
    /\ WF_vars(Testing /\ (TestsMain \/ TestsClock))

\* A time test starts again only when its reception ended before its time-out,
\* as the comments of test_get_time_in_s and test_get_time_in_ms say. It does
\* not hold: main reads irq_rx_timeout_raised as soon as the callback has set
\* radio_irq_raised, which is before the callback has asked the chip.
RelaunchesRight ==
    [][Testing /\ ExpectTime /\ ~irq_rx_timeout_raised => chip_irq # "timeout"]_vars
===============================================================================
