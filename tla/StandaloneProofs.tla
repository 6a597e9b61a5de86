-------------------------- MODULE StandaloneProofs --------------------------
(***************************************************************************)
(* Proofs about Standalone, for any choice of the samples, any range of    *)
(* the clock and any times of the porting tests: no press is forgotten or  *)
(* slept on, the debounce goes by the time that has really passed, and the *)
(* porting tests tell a right port from a wrong one.                       *)
(***************************************************************************)
EXTENDS Standalone, SequenceTheorems, TLAPS

-----------------------------------------------------------------------------
(* The inductive invariant of the samples' loop.                           *)

\* The loop clears the flag right after it took the token, so a press later
\* than that leaves both; only the engine's own build has interrupts of the
\* radio, and it runs the engine between the token and the test.
Tokens ==
    /\ user_button_is_press /\ pc # "check" => app_sem = 1
    /\ irq_flag => ~threaded
    /\ irq_flag /\ pc \in { "pending", "wait" } => hal_sem = 1
    /\ pc = "flag" => threaded

\* Up to half its range the difference of the clock is the time that passed.
Clocked == elapsed < Half => (now - last_press) % TimeWrap = elapsed

LoopInv == SampleTypeOK /\ NotForgotten /\ Tokens /\ Clocked

-----------------------------------------------------------------------------
(* The samples.                                                            *)

\* A list of at least one call and at most eight.
ShortList(s) == Len(s) \in 1 .. 8
GoodSample(s) == ShortList(s.init) /\ ShortList(s.press) /\ s.builds \subseteq BOOLEAN

\* A sample made from the skeleton, with or without its exceptions.
LEMMA SkeletonGood ==
    ASSUME NEW builds \in SUBSET BOOLEAN, NEW init, NEW press, ShortList(init), ShortList(press)
    PROVE  LET s == Skeleton(builds, init, press)
           IN  /\ GoodSample(s)
               /\ \A calls : GoodSample([s EXCEPT !.round = calls])
               /\ GoodSample([s EXCEPT !.signed = FALSE, !.bounces = FALSE])
  BY DEF Skeleton, GoodSample

\* The calls that initialise a sample on the RAC, of one, two or more calls.
LEMMA RacShort ==
    /\ \A a : ShortList(Rac(<< a >>))
    /\ \A a, b : ShortList(Rac(<< a, b >>))
    /\ \A a, b : ShortList(<< a >>) /\ ShortList(<< a, b >>) /\ ShortList(<< a, b, b >>)
  BY DEF Rac, ShortList

\* Every sample is one of these.
LEMMA SamplesGood == \A s \in AllSamples : GoodSample(s)
<1> USE DEF BothBuilds, OwnEngine
<1> HIDE DEF GoodSample, ShortList
<1>1. GoodSample(PingPong)
  BY SkeletonGood, RacShort DEF PingPong
<1>2. GoodSample(PerLora)
  BY SkeletonGood, RacShort DEF PerLora
<1>3. GoodSample(PerFsk)
  BY SkeletonGood, RacShort DEF PerFsk
<1>4. GoodSample(PerFlrc)
  BY SkeletonGood, RacShort DEF PerFlrc
<1>5. GoodSample(TxCw)
  BY SkeletonGood, RacShort DEF TxCw
<1>6. GoodSample(Cad)
  BY SkeletonGood, RacShort DEF Cad
<1>7. GoodSample(DirectDriver)
  BY SkeletonGood, RacShort DEF DirectDriver
<1>8. GoodSample(ImmediateRadio)
  BY SkeletonGood, RacShort DEF ImmediateRadio
<1>9. GoodSample(SpectralScan)
  <2>1. \A a, b, c : ShortList(<< a, b, c >>)
    BY DEF ShortList
  <2> QED
    BY <2>1, SkeletonGood, RacShort DEF SpectralScan
<1>10. GoodSample(RfCertification)
  <2>1. \A a, b, c : ShortList(<< a, b, c >>)
    BY DEF ShortList
  <2> QED
    BY <2>1, SkeletonGood, RacShort DEF RfCertification
<1>11. GoodSample(LrFhss)
  BY SkeletonGood, RacShort DEF LrFhss
<1>12. GoodSample(PeriodicalUplink)
  <2>1. \A a, b, c : ShortList(<< a, b, c >>)
    BY DEF ShortList
  <2> QED
    BY <2>1, SkeletonGood, RacShort DEF PeriodicalUplink
<1>13. GoodSample(Geolocation)
  BY SkeletonGood, RacShort DEF Geolocation
<1>14. GoodSample(FlrpApi)
  BY SkeletonGood, RacShort DEF FlrpApi
<1>15. ASSUME NEW m \in BOOLEAN, NEW c \in BOOLEAN, NEW p \in BOOLEAN
       PROVE  GoodSample(RangingDemo(m, c, p))
  <2>1. \A a, b, d, e, f : /\ ShortList(Rac(<< a, b >> \o << >> \o << >>))
                           /\ ShortList(Rac(<< a, b >> \o << d >> \o << >>))
                           /\ ShortList(Rac(<< a, b >> \o << >> \o << e, f >>))
                           /\ ShortList(Rac(<< a, b >> \o << d >> \o << e, f >>))
    BY DEF Rac, ShortList
  <2> DEFINE start == IF ~m \/ c THEN << "start_ranging_exchange" >> ELSE << >>
             tx    == IF p THEN << "smtc_rac_open_radio", "periodic_tx_handle_start" >> ELSE << >>
             head  == << "app_radio_ranging_params_init", "app_radio_ranging_set_user_callback" >>
  <2>4. ShortList(Rac(head \o start \o tx))
    <3>1. CASE (~m \/ c) /\ p
      BY <2>1, <3>1
    <3>2. CASE (~m \/ c) /\ ~p
      BY <2>1, <3>2
    <3>3. CASE ~(~m \/ c) /\ p
      BY <2>1, <3>3
    <3>4. CASE ~(~m \/ c) /\ ~p
      BY <2>1, <3>4
    <3> QED
      BY <3>1, <3>2, <3>3, <3>4
  <2>5. ShortList(<< "start_ranging_exchange" >>)
    BY RacShort
  <2>6. RangingDemo(m, c, p) =
          Skeleton(BothBuilds, Rac(head \o start \o tx), << "start_ranging_exchange" >>)
    BY Zenon DEF RangingDemo
  <2> DEFINE init == Rac(head \o start \o tx)
  <2> HIDE DEF init, start, tx, head
  <2>7. GoodSample(Skeleton(BothBuilds, init, << "start_ranging_exchange" >>))
    BY <2>4, <2>5, SkeletonGood DEF init
  <2> QED
    BY <2>6, <2>7 DEF init
<1> QED
  BY <1>1, <1>2, <1>3, <1>4, <1>5, <1>6, <1>7, <1>8, <1>9, <1>10, <1>11, <1>12, <1>13,
     <1>14, <1>15
     DEF AllSamples

-----------------------------------------------------------------------------
(* The clock.                                                              *)

\* The difference of two times of the clock.
LEMMA Difference ==
    ASSUME NEW n \in 0 .. TimeWrap - 1, NEW l \in 0 .. TimeWrap - 1
    PROVE  (n - l) % TimeWrap = IF n >= l THEN n - l ELSE n - l + TimeWrap
  BY ClockAssumption, SMT

\* The next time of the clock.
LEMMA NextTime ==
    ASSUME NEW n \in 0 .. TimeWrap - 1
    PROVE  (n + 1) % TimeWrap = IF n = TimeWrap - 1 THEN 0 ELSE n + 1
  BY ClockAssumption, SMT

\* A time the clock shows.
LEMMA OnClock ==
    ASSUME NEW n \in 0 .. TimeWrap - 1
    PROVE  n % TimeWrap = n /\ (n + 0) % TimeWrap = n
  BY ClockAssumption, SMT

\* A difference of nothing.
LEMMA NoDifference ==
    ASSUME NEW n \in 0 .. TimeWrap - 1 PROVE (n - n) % TimeWrap = 0
<1>1. (n - n) % TimeWrap = IF n >= n THEN n - n ELSE n - n + TimeWrap
  BY Difference
<1> QED
  BY <1>1

\* Half the range.
LEMMA HalfRange ==
    /\ TimeWrap \in Nat \ {0} /\ Half \in Nat \ {0} /\ TimeWrap = 2 * Half
    /\ Debounce \in Nat /\ Debounce + 1 < Half
  BY ClockAssumption, SMT DEF Half

-----------------------------------------------------------------------------
(* Every step keeps the inductive invariant.                               *)

SampleFlags == { armed, user_button_is_press, irq_flag, owed } \subseteq BOOLEAN

SampleBuilt == sample \in Programs /\ threaded \in sample.builds

SampleAt == pc \in { "configure", "init", "check", "press", "round", "engine", "pending", "flag",
                     "wait", "stopped" }

SampleNumbers ==
    /\ call \in 1 .. 8
    /\ last_press \in 0 .. TimeWrap - 1 /\ now \in 0 .. TimeWrap - 1 /\ elapsed \in 0 .. Half
    /\ app_sem \in 0 .. 1 /\ hal_sem \in 0 .. 1

SampleValues == SampleBuilt /\ SampleAt /\ SampleNumbers

\* The next call of a list is one of at most eight.
LEMMA NextCall == 1 \in 1 .. 8 /\ \A c, n \in 1 .. 8 : c < n => c + 1 \in 1 .. 8
  OBVIOUS

LEMMA SampleTypeParts == SampleTypeOK <=> SampleFlags /\ SampleValues
  BY DEF SampleTypeOK, SampleFlags, SampleValues, SampleBuilt, SampleAt, SampleNumbers

LEMMA SampleTypePartsNext == SampleTypeOK' <=> SampleFlags' /\ SampleValues'
  BY DEF SampleTypeOK, SampleFlags, SampleValues, SampleBuilt, SampleAt, SampleNumbers

\* Every step keeps the flags Boolean.
LEMMA NextSampleFlags == ASSUME SampleFlags, [SampleNext]_sampleVars PROVE SampleFlags'
<1> USE DEF SampleFlags, sampleVars, main, button, clock, GoTo
<1>1. CASE Configure
  BY <1>1, Zenon DEF Configure
<1>2. CASE InitCall
  BY <1>2, Zenon DEF InitCall
<1>3. CASE CheckButton
  BY <1>3, Zenon DEF CheckButton, Served
<1>4. CASE PressCall
  BY <1>4, Zenon DEF PressCall, Served
<1>5. CASE RoundCall
  BY <1>5, Zenon DEF RoundCall
<1>6. CASE RunEngine
  BY <1>6, Zenon DEF RunEngine
<1>7. CASE TestPending
  BY <1>7, Zenon DEF TestPending
<1>8. CASE TestFlag
  BY <1>8, Zenon DEF TestFlag
<1>9. CASE Woken
  BY <1>9, Zenon DEF Woken
<1>10. CASE TimedOut
  BY <1>10, Zenon DEF TimedOut
<1>11. CASE ButtonPressed
  BY <1>11, Zenon DEF ButtonPressed, Wakes
<1>12. CASE RadioIrq
  BY <1>12, Zenon DEF RadioIrq
<1>13. CASE UspThreadWakes
  BY <1>13, Zenon DEF UspThreadWakes
<1>14. CASE Tick
  BY <1>14, Zenon DEF Tick
<1>15. CASE UNCHANGED sampleVars
  BY <1>15, Zenon
<1> QED
  BY <1>1, <1>2, <1>3, <1>4, <1>5, <1>6, <1>7, <1>8, <1>9, <1>10, <1>11, <1>12,
     <1>13, <1>14, <1>15 DEF SampleNext, Main

\* No step changes the program that was built.
LEMMA NextSampleBuilt == ASSUME SampleBuilt, [SampleNext]_sampleVars PROVE SampleBuilt'
<1> USE DEF SampleBuilt, sampleVars
<1>1. CASE Configure
  BY <1>1, Zenon DEF Configure
<1>2. CASE InitCall
  BY <1>2, Zenon DEF InitCall
<1>3. CASE CheckButton
  BY <1>3, Zenon DEF CheckButton, Served
<1>4. CASE PressCall
  BY <1>4, Zenon DEF PressCall, Served
<1>5. CASE RoundCall
  BY <1>5, Zenon DEF RoundCall
<1>6. CASE RunEngine
  BY <1>6, Zenon DEF RunEngine
<1>7. CASE TestPending
  BY <1>7, Zenon DEF TestPending
<1>8. CASE TestFlag
  BY <1>8, Zenon DEF TestFlag
<1>9. CASE Woken
  BY <1>9, Zenon DEF Woken
<1>10. CASE TimedOut
  BY <1>10, Zenon DEF TimedOut
<1>11. CASE ButtonPressed
  BY <1>11, Zenon DEF ButtonPressed, Wakes
<1>12. CASE RadioIrq
  BY <1>12, Zenon DEF RadioIrq
<1>13. CASE UspThreadWakes
  BY <1>13, Zenon DEF UspThreadWakes
<1>14. CASE Tick
  BY <1>14, Zenon DEF Tick
<1>15. CASE UNCHANGED sampleVars
  BY <1>15, Zenon
<1> QED
  BY <1>1, <1>2, <1>3, <1>4, <1>5, <1>6, <1>7, <1>8, <1>9, <1>10, <1>11, <1>12,
     <1>13, <1>14, <1>15 DEF SampleNext, Main

\* Every step leaves the main thread at one of its steps.
LEMMA NextSampleAt == ASSUME SampleAt, [SampleNext]_sampleVars PROVE SampleAt'
<1> USE DEF SampleAt, Served, sampleVars, main, button, clock, GoTo
<1>1. CASE Configure
  BY <1>1 DEF Configure
<1>2. CASE InitCall
  BY <1>2 DEF InitCall
<1>3. CASE CheckButton
  BY <1>3 DEF CheckButton, Served
<1>4. CASE PressCall
  BY <1>4 DEF PressCall, Served
<1>5. CASE RoundCall
  BY <1>5 DEF RoundCall
<1>6. CASE RunEngine
  BY <1>6 DEF RunEngine
<1>7. CASE TestPending
  BY <1>7 DEF TestPending
<1>8. CASE TestFlag
  BY <1>8 DEF TestFlag
<1>9. CASE Woken
  BY <1>9 DEF Woken
<1>10. CASE TimedOut
  BY <1>10 DEF TimedOut
<1>11. CASE ButtonPressed
  BY <1>11 DEF ButtonPressed, Wakes
<1>12. CASE RadioIrq
  BY <1>12 DEF RadioIrq
<1>13. CASE UspThreadWakes
  BY <1>13 DEF UspThreadWakes
<1>14. CASE Tick
  BY <1>14 DEF Tick
<1>15. CASE UNCHANGED sampleVars
  BY <1>15
<1> QED
  BY <1>1, <1>2, <1>3, <1>4, <1>5, <1>6, <1>7, <1>8, <1>9, <1>10, <1>11, <1>12,
     <1>13, <1>14, <1>15 DEF SampleNext, Main

\* Every step keeps the types of the numbers.
LEMMA NextSampleNumbers ==
    ASSUME SampleNumbers, SampleBuilt, [SampleNext]_sampleVars
    PROVE  SampleNumbers'
<1>0. Len(sample.init) \in 1 .. 8 /\ Len(sample.press) \in 1 .. 8
  BY SamplesGood, ClockAssumption DEF SampleBuilt, GoodSample, ShortList
<1>a. TimeWrap \in Nat \ {0} /\ Half \in Nat \ {0}
  BY HalfRange
<1> USE DEF SampleNumbers, Served, sampleVars, main, button, clock, GoTo
<1>1. CASE Configure
  BY <1>1 DEF Configure
<1>2. CASE InitCall
  <2>1. call' \in 1 .. 8
    BY <1>2, <1>0, NextCall, Zenon DEF InitCall
  <2> QED
    BY <1>2, <2>1 DEF InitCall
<1>3. CASE CheckButton
  BY <1>3 DEF CheckButton, Served
<1>4. CASE PressCall
  <2>1. call' \in 1 .. 8
    BY <1>4, <1>0, NextCall, Zenon DEF PressCall
  <2>2. hal_sem' \in 0 .. 1
    BY <1>4 DEF PressCall
  <2> QED
    BY <1>4, <2>1, <2>2 DEF PressCall
<1>5. CASE RoundCall
  BY <1>5 DEF RoundCall
<1>6. CASE RunEngine
  BY <1>6 DEF RunEngine
<1>7. CASE TestPending
  BY <1>7 DEF TestPending
<1>8. CASE TestFlag
  BY <1>8 DEF TestFlag
<1>9. CASE Woken
  BY <1>9 DEF Woken
<1>10. CASE TimedOut
  BY <1>10 DEF TimedOut
<1>11. CASE ButtonPressed
  <2>1. \A n \in 0 .. TimeWrap - 1, d \in 0 .. 1 : (n + d) % TimeWrap \in 0 .. TimeWrap - 1
    <3> SUFFICES ASSUME NEW n \in 0 .. TimeWrap - 1, NEW d \in 0 .. 1
                 PROVE  (n + d) % TimeWrap \in 0 .. TimeWrap - 1
      OBVIOUS
    <3>1. CASE d = 0
      BY <1>a, <3>1, OnClock
    <3>2. CASE d = 1
      BY <1>a, <3>2, NextTime
    <3> QED
      BY <3>1, <3>2
  <2>2. \/ UNCHANGED << button, clock >>
        \/ \E later \in 0 .. 1 : now' = (now + later) % TimeWrap /\ last_press' = now' /\ elapsed' = 0
    BY <1>11 DEF ButtonPressed
  <2>3. now' \in 0 .. TimeWrap - 1 /\ last_press' \in 0 .. TimeWrap - 1 /\ elapsed' \in 0 .. Half
    BY <1>a, <2>1, <2>2
  <2> QED
    BY <1>11, <2>3 DEF ButtonPressed, Wakes
<1>12. CASE RadioIrq
  BY <1>12 DEF RadioIrq
<1>13. CASE UspThreadWakes
  BY <1>13 DEF UspThreadWakes
<1>14. CASE Tick
  <2>1. (now + 1) % TimeWrap \in 0 .. TimeWrap - 1
    BY <1>a, NextTime
  <2>2. Cap(elapsed + 1) \in 0 .. Half
    BY <1>a DEF Cap
  <2> QED
    BY <1>14, <2>1, <2>2 DEF Tick
<1>15. CASE UNCHANGED sampleVars
  BY <1>15
<1> QED
  BY <1>1, <1>2, <1>3, <1>4, <1>5, <1>6, <1>7, <1>8, <1>9, <1>10, <1>11, <1>12,
     <1>13, <1>14, <1>15 DEF SampleNext, Main

LEMMA NextSampleValues ==
    ASSUME SampleValues, [SampleNext]_sampleVars
    PROVE  SampleValues'
  BY NextSampleBuilt, NextSampleAt, NextSampleNumbers DEF SampleValues

\* Every step keeps an accepted press in the flag until its handler starts.
LEMMA NextNotForgotten ==
    ASSUME NotForgotten, [SampleNext]_sampleVars
    PROVE  NotForgotten'
<1> USE DEF NotForgotten, Served, sampleVars, main, button, clock, GoTo
<1>1. CASE Configure
  BY <1>1 DEF Configure
<1>2. CASE InitCall
  BY <1>2 DEF InitCall
<1>3. CASE CheckButton
  BY <1>3 DEF CheckButton, Served
<1>4. CASE PressCall
  BY <1>4 DEF PressCall, Served
<1>5. CASE RoundCall
  BY <1>5 DEF RoundCall
<1>6. CASE RunEngine
  BY <1>6 DEF RunEngine
<1>7. CASE TestPending
  BY <1>7 DEF TestPending
<1>8. CASE TestFlag
  BY <1>8 DEF TestFlag
<1>9. CASE Woken
  BY <1>9 DEF Woken
<1>10. CASE TimedOut
  BY <1>10 DEF TimedOut
<1>11. CASE ButtonPressed
  BY <1>11 DEF ButtonPressed, Wakes
<1>12. CASE RadioIrq
  BY <1>12 DEF RadioIrq
<1>13. CASE UspThreadWakes
  BY <1>13 DEF UspThreadWakes
<1>14. CASE Tick
  BY <1>14 DEF Tick
<1>15. CASE UNCHANGED sampleVars
  BY <1>15
<1> QED
  BY <1>1, <1>2, <1>3, <1>4, <1>5, <1>6, <1>7, <1>8, <1>9, <1>10, <1>11, <1>12,
     <1>13, <1>14, <1>15 DEF SampleNext, Main

\* Every step keeps a token for what the main thread has to wake up for.
LEMMA NextTokens ==
    ASSUME Tokens, SampleFlags, SampleValues, [SampleNext]_sampleVars
    PROVE  Tokens'
<1> USE DEF Tokens, Served, Wakes, sampleVars, main, button, clock, GoTo
<1>1. CASE Configure
  BY <1>1 DEF Configure
<1>2. CASE InitCall
  BY <1>2 DEF InitCall
<1>3. CASE CheckButton
  BY <1>3 DEF CheckButton, Served
<1>4. CASE PressCall
  BY <1>4 DEF PressCall, Served
<1>5. CASE RoundCall
  BY <1>5 DEF RoundCall
<1>6. CASE RunEngine
  BY <1>6 DEF RunEngine
<1>7. CASE TestPending
  BY <1>7 DEF TestPending
<1>8. CASE TestFlag
  BY <1>8 DEF TestFlag
<1>9. CASE Woken
  BY <1>9 DEF Woken
<1>10. CASE TimedOut
  BY <1>10 DEF TimedOut
<1>11. CASE ButtonPressed
  BY <1>11 DEF ButtonPressed, Wakes
<1>12. CASE RadioIrq
  BY <1>12 DEF RadioIrq
<1>13. CASE UspThreadWakes
  BY <1>13 DEF UspThreadWakes
<1>14. CASE Tick
  BY <1>14 DEF Tick
<1>15. CASE UNCHANGED sampleVars
  BY <1>15
<1> QED
  BY <1>1, <1>2, <1>3, <1>4, <1>5, <1>6, <1>7, <1>8, <1>9, <1>10, <1>11, <1>12,
     <1>13, <1>14, <1>15 DEF SampleNext, Main

\* Every step keeps the difference of the clock.
LEMMA NextClocked ==
    ASSUME Clocked, SampleValues, [SampleNext]_sampleVars
    PROVE  Clocked'
<1>a. TimeWrap \in Nat \ {0} /\ Half \in Nat \ {0} /\ TimeWrap = 2 * Half
  BY HalfRange
<1>b. now \in 0 .. TimeWrap - 1 /\ last_press \in 0 .. TimeWrap - 1 /\ elapsed \in 0 .. Half
  BY DEF SampleValues, SampleNumbers
<1> USE DEF Clocked, sampleVars, main, button, clock, GoTo
<1>1. CASE Configure
  BY <1>1 DEF Configure
<1>2. CASE InitCall
  BY <1>2 DEF InitCall
<1>3. CASE CheckButton
  BY <1>3 DEF CheckButton, Served
<1>4. CASE PressCall
  BY <1>4 DEF PressCall, Served
<1>5. CASE RoundCall
  BY <1>5 DEF RoundCall
<1>6. CASE RunEngine
  BY <1>6 DEF RunEngine
<1>7. CASE TestPending
  BY <1>7 DEF TestPending
<1>8. CASE TestFlag
  BY <1>8 DEF TestFlag
<1>9. CASE Woken
  BY <1>9 DEF Woken
<1>10. CASE TimedOut
  BY <1>10 DEF TimedOut
<1>11. CASE ButtonPressed
  <2>1. CASE UNCHANGED << button, clock >>
    BY <2>1
  <2>2. CASE \E later \in 0 .. 1 : now' = (now + later) % TimeWrap /\ last_press' = now' /\ elapsed' = 0
    <3>1. PICK later \in 0 .. 1 :
            now' = (now + later) % TimeWrap /\ last_press' = now' /\ elapsed' = 0
      BY <2>2
    <3>0. now' \in 0 .. TimeWrap - 1
      <4>1. CASE later = 0
        BY <1>a, <1>b, <3>1, <4>1, OnClock
      <4>2. CASE later = 1
        BY <1>a, <1>b, <3>1, <4>2, NextTime
      <4> QED
        BY <4>1, <4>2
    <3>2. (now' - now') % TimeWrap = 0
      BY <3>0, NoDifference
    <3> QED
      BY <3>1, <3>2
  <2> QED
    BY <1>11, <2>1, <2>2 DEF ButtonPressed
<1>12. CASE RadioIrq
  BY <1>12 DEF RadioIrq
<1>13. CASE UspThreadWakes
  BY <1>13 DEF UspThreadWakes
<1>14. CASE Tick
  <2>1. now' = (now + 1) % TimeWrap /\ last_press' = last_press /\ elapsed' = Cap(elapsed + 1)
    BY <1>14 DEF Tick
  <2> SUFFICES ASSUME elapsed' < Half PROVE (now' - last_press) % TimeWrap = elapsed'
    BY <2>1 DEF Clocked
  <2>2. elapsed' = elapsed + 1 /\ elapsed < Half
    BY <1>a, <1>b, <2>1 DEF Cap
  <2>3. elapsed = IF now >= last_press THEN now - last_press ELSE now - last_press + TimeWrap
    BY <1>b, <2>2, Difference DEF Clocked
  <2>4. now' = (IF now = TimeWrap - 1 THEN 0 ELSE now + 1) /\ now' \in 0 .. TimeWrap - 1
    BY <1>a, <1>b, <2>1, NextTime
  <2>5. (now' - last_press) % TimeWrap =
          IF now' >= last_press THEN now' - last_press ELSE now' - last_press + TimeWrap
    BY <1>b, <2>4, Difference
  <2> QED
    BY <1>a, <1>b, <2>2, <2>3, <2>4, <2>5
<1>15. CASE UNCHANGED sampleVars
  BY <1>15
<1> QED
  BY <1>1, <1>2, <1>3, <1>4, <1>5, <1>6, <1>7, <1>8, <1>9, <1>10, <1>11, <1>12,
     <1>13, <1>14, <1>15 DEF SampleNext, Main

\* The loop's inductive invariant holds initially, and every step keeps it.
LEMMA InitLoopInv == SampleInit => LoopInv
<1> SUFFICES ASSUME SampleInit PROVE LoopInv
  OBVIOUS
<1> USE DEF SampleInit
<1>1. SampleFlags
  BY Zenon DEF SampleFlags
<1>2. SampleValues
  BY HalfRange DEF SampleValues, SampleBuilt, SampleAt, SampleNumbers
<1>3. NotForgotten /\ Tokens
  BY DEF NotForgotten, Tokens
<1>4. Clocked
  <2>1. 0 \in 0 .. TimeWrap - 1
    BY HalfRange
  <2>2. (0 - 0) % TimeWrap = 0
    BY <2>1, Difference
  <2> QED
    BY <2>2 DEF Clocked
<1> QED
  BY <1>1, <1>2, <1>3, <1>4, SampleTypeParts DEF LoopInv

LEMMA NextLoopInv == ASSUME LoopInv, [SampleNext]_sampleVars PROVE LoopInv'
<1>1. SampleFlags /\ SampleValues /\ NotForgotten /\ Tokens /\ Clocked
  BY SampleTypeParts DEF LoopInv
<1>2. SampleFlags' /\ SampleValues' /\ NotForgotten' /\ Tokens' /\ Clocked'
  BY <1>1, NextSampleFlags, NextSampleValues, NextNotForgotten, NextTokens, NextClocked
<1> QED
  BY <1>2, SampleTypePartsNext DEF LoopInv

-----------------------------------------------------------------------------
(* The theorems about the samples.                                         *)

\* The samples' loop is in its inductive invariant, in either image.
THEOREM LoopInductive == Spec => []LoopInv
<1>1. Init => LoopInv
  BY InitLoopInv DEF Init
<1>2. LoopInv /\ [Next]_vars => LoopInv'
  <2>1. [Next]_vars => [SampleNext]_sampleVars
    BY DEF Next, vars, SampleStep, TestsStep, Sampling, Testing
  <2> QED
    BY <2>1, NextLoopInv
<1> QED
  BY <1>1, <1>2, PTL DEF Spec

\* However the button, the radio and the loop interleave, no sample forgets a
\* press or sleeps on one (PressKept; main() of every sample against its
\* user_button_callback).
THEOREM KeepsPresses == Spec => []PressKept
<1>1. LoopInv => PressKept
  BY DEF LoopInv, Tokens, PressKept, NotSleptOn
<1> QED
  BY LoopInductive, <1>1, PTL

\* The debounce accepts a press only when more than its time has passed since
\* the last accepted press, and then always for half the range of the counter,
\* wherever the counter has wrapped (DebounceByElapsed; user_button_callback).
THEOREM DebouncesByElapsed == Spec => DebounceByElapsed
<1> DEFINE Fair == /\ Accepted(now) => elapsed > Debounce
                   /\ elapsed > Debounce /\ elapsed < Half => Accepted(now)
<1>1. LoopInv => Fair
  <2> SUFFICES ASSUME LoopInv PROVE Fair
    OBVIOUS
  <2>1. /\ now \in 0 .. TimeWrap - 1 /\ last_press \in 0 .. TimeWrap - 1
        /\ elapsed \in 0 .. Half
    BY DEF LoopInv, SampleTypeOK
  <2>2. CASE elapsed = Half
    BY <2>1, <2>2, HalfRange
  <2>3. CASE elapsed < Half
    <3>1. (now - last_press) % TimeWrap = elapsed
      BY <2>3 DEF LoopInv, Clocked
    <3> QED
      BY <2>1, <2>3, <3>1, HalfRange DEF Accepted
  <2> QED
    BY <2>1, <2>2, <2>3, HalfRange
<1>2. LoopInv => (ButtonPressed => Fair)
  BY <1>1
<1> QED
  BY LoopInductive, <1>2, PTL DEF DebounceByElapsed

-----------------------------------------------------------------------------
(* The inductive invariant of the porting tests: what the tests before it  *)
(* left behind for each test that must find a fault, and how the timer and *)
(* the reception stand at each of its steps.                               *)

In(n, a, b) == test = n /\ step \in a .. b

\* A reception is under way only where a test waits for its end.
RadioOff ==
    /\ radio # Off => /\ ~radio_irq_raised
                      /\ In(2, 5, 6) \/ In(3, 5, 6) \/ In(4, 6, 6)
    /\ In(2, 2, 4) \/ In(3, 2, 4) \/ In(4, 2, 5) => ~radio_irq_raised
    /\ test = 0 \/ fault = "radio_irq" => ~radio_irq_raised

\* porting_test_radio_irq waits longer than the reception lasts.
RadioTest ==
    /\ In(2, 5, 5) /\ radio # Off => radio <= T + Margin
    /\ In(2, 6, 6) /\ radio # Off => radio + since <= T + Margin
    /\ In(2, 5, 7) /\ fault # "radio_irq" => radio_irq_raised \/ radio # Off

\* No test before porting_test_timer_irq starts a timer.
NoTimerYet == test \in 0 .. 4 => timer = Off /\ irq_enabled

\* The faults that porting_test_timer_irq finds.
TimerFaults == { "get_time", "start_timer", "timer_late" }

\* When the timer that was started expires, and when it ought to.
Expires == IF fault = "timer_late" THEN { TooLong } ELSE T .. T + Margin

TimerTest ==
    /\ test = 5 => irq_enabled
    /\ In(5, 1, 4) => timer = Off
    /\ In(5, 2, 4) => ~timer_irq_raised
    /\ In(5, 4, 4) => since = 0
    /\ In(5, 5, 6) =>
        /\ timer # Off => ~timer_irq_raised /\ timer + since \in Expires
        /\ timer_irq_raised => irq_time \in Expires
        /\ timer = Off /\ ~timer_irq_raised => fault = "start_timer"
        /\ fault = "start_timer" => timer = Off /\ ~timer_irq_raised
    /\ In(5, 6, 6) /\ fault \notin TimerFaults => timer_irq_raised

\* porting_test_stop_timer stops a timer that has not expired.
StopTest ==
    /\ test = 6 => irq_enabled
    /\ In(6, 1, 2) => timer = Off
    /\ In(6, 2, 5) => ~timer_irq_raised
    /\ In(6, 3, 3) => timer \in T .. T + Margin
    /\ In(6, 4, 5) => since <= T \div 2 /\ timer + since \in T .. T + Margin
    /\ In(6, 6, 8) /\ fault # "stop_timer" => timer = Off /\ ~timer_irq_raised
    /\ fault = "stop_timer" =>
        /\ In(6, 6, 6) => timer \in 1 .. T + Margin
        /\ In(6, 7, 7) => timer_irq_raised \/ (timer # Off /\ timer + since <= T + Margin)
        /\ In(6, 8, 8) => timer_irq_raised

\* porting_test_disable_enable_irq lets its timer expire while it is disabled.
GateTest ==
    fault # "stop_timer" =>
        /\ In(7, 1, 3) => timer = Off
        /\ In(7, 1, 2) \/ In(7, 8, 8) => irq_enabled
        /\ In(7, 3, 6) => (irq_enabled <=> fault = "disable_irq")
        /\ In(7, 2, 4) => ~timer_irq_raised
        /\ In(7, 4, 4) => timer \in T .. T + Margin
        /\ In(7, 5, 6) => /\ timer # Off => ~timer_irq_raised /\ timer + since <= T + Margin
                          /\ timer = Off => IF fault = "disable_irq" THEN timer_irq_raised
                                            ELSE held /\ ~timer_irq_raised
        /\ In(7, 6, 8) => timer = Off
        /\ In(7, 7, 7) => fault # "disable_irq" /\ held /\ ~timer_irq_raised
        /\ In(7, 8, 8) => fault # "disable_irq"
        /\ In(7, 8, 8) => (timer_irq_raised <=> fault # "enable_irq")

\* The faults no test before the last one finds.
Last == fault \in { "none", "timer_asleep" }

\* The tests in between leave the timer alone.
SleepTest == Last /\ test \in 8 .. 11 => timer = Off /\ irq_enabled

\* porting_test_timer_irq_low_power.
LowPowerTest ==
    Last =>
        /\ test = 12 => irq_enabled
        /\ In(12, 1, 4) => timer = Off
        /\ In(12, 2, 4) => ~timer_irq_raised
        /\ In(12, 4, 4) => since = 0
        /\ In(12, 5, 6) =>
            /\ timer # Off => ~timer_irq_raised
            /\ timer # Off /\ fault = "none" => timer + since \in T .. T + Margin
            /\ timer_irq_raised => irq_time \in T .. T + Margin
            /\ timer = Off => timer_irq_raised
            /\ fault = "timer_asleep" => timer > 0
        /\ In(12, 6, 6) /\ fault = "none" => timer_irq_raised

\* The place in the order of the tests of the one that finds a fault.
Place ==
    [spi |-> 1, radio_irq |-> 2, get_time |-> 5, start_timer |-> 5, timer_late |-> 5,
     stop_timer |-> 6, disable_irq |-> 7, enable_irq |-> 7, timer_asleep |-> 12]

\* The verdict on a fault does not change once its test is over; the fatal
\* tests end the program there.
Verdicts ==
    /\ verdict \in [DOMAIN Steps -> { "none", "ok", "nok" }]
    /\ test = 0 => fault = "none" /\ step = 1
    /\ fault = "spi" => test = End \/ In(1, 1, 1)
    /\ fault = "radio_irq" => test <= 2 \/ test = End
    /\ fault \in TimerFaults => test <= 5 \/ test = End
    /\ fault # "none" /\ test > Place[fault] => verdict[FoundBy[fault]] = "nok"
    /\ fault = "none" => \A n \in DOMAIN verdict :
                           verdict[n] = "nok" => n \in { "get_time_in_s", "get_time_in_ms", "random" }

TestsInv ==
    /\ TestsTypeOK /\ RadioOff /\ RadioTest /\ NoTimerYet /\ TimerTest /\ StopTest
    /\ GateTest /\ SleepTest /\ LowPowerTest /\ Verdicts

-----------------------------------------------------------------------------
(* The tests, statement by statement.                                      *)

\* The steps each test has.
Bound(t, s) ==
    \/ t = 1 /\ s \in 1 .. 3
    \/ t = 2 /\ s \in 1 .. 7
    \/ t = 3 /\ s \in 1 .. 7
    \/ t = 4 /\ s \in 1 .. 7
    \/ t = 5 /\ s \in 1 .. 6
    \/ t = 6 /\ s \in 1 .. 8
    \/ t = 7 /\ s \in 1 .. 8
    \/ t = 8 /\ s \in 1 .. 1
    \/ t = 9 /\ s \in 1 .. 9
    \/ t = 10 /\ s \in 1 .. 11
    \/ t = 11 /\ s \in 1 .. 3
    \/ t = 12 /\ s \in 1 .. 6

\* The lists of the tests.
LEMMA Listed1 ==
    /\ Tests[1] = "spi"
    /\ Steps[Tests[1]] = << "reset_init", "read_version", "pass" >>
  BY DEF Tests, Steps, SpiTest

LEMMA Listed2 ==
    /\ Tests[2] = "radio_irq"
    /\ Steps[Tests[2]] = << "clear_radio", "reset_init", "setup", "set_rx",
         "start", "sleep_twice", "expect_radio" >>
  BY DEF Tests, Steps, RadioIrqTest

LEMMA Listed3 ==
    /\ Tests[3] = "get_time_in_s"
    /\ Steps[Tests[3]] = << "clear_radio", "reset_init", "setup", "set_rx",
         "start", "until_radio", "expect_seconds" >>
  BY DEF Tests, Steps, GetTimeInSTest

LEMMA Listed4 ==
    /\ Tests[4] = "get_time_in_ms"
    /\ Steps[Tests[4]] = << "clear_radio", "reset_init", "setup", "start",
         "set_rx", "until_radio", "expect_millis" >>
  BY DEF Tests, Steps, GetTimeInMsTest

LEMMA Listed5 ==
    /\ Tests[5] = "timer_irq"
    /\ Steps[Tests[5]] = << "clear_timer", "stop_timer", "start",
         "start_timer", "until_timer", "expect_on_time" >>
  BY DEF Tests, Steps, TimerIrqTest

LEMMA Listed6 ==
    /\ Tests[6] = "stop_timer"
    /\ Steps[Tests[6]] = << "clear_timer", "start_timer", "start",
         "until_half", "stop_timer", "start", "until_past", "expect_no_timer" >>
  BY DEF Tests, Steps, StopTimerTest

LEMMA Listed7 ==
    /\ Tests[7] = "disable_enable_irq"
    /\ Steps[Tests[7]] = << "clear_timer", "disable_irq", "start_timer",
         "start", "until_past", "check_no_timer", "enable_irq", "expect_timer" >>
  BY DEF Tests, Steps, DisableEnableIrqTest

LEMMA Listed8 ==
    /\ Tests[8] = "random"
    /\ Steps[Tests[8]] = << "draw" >>
  BY DEF Tests, Steps, RandomTest

LEMMA Listed9 ==
    /\ Tests[9] = "config_rx"
    /\ Steps[Tests[9]] = << "clear_radio", "reset_init", "clear_radio",
         "start", "setup", "clear_radio", "start", "setup", "pass" >>
  BY DEF Tests, Steps, ConfigRxTest

LEMMA Listed10 ==
    /\ Tests[10] = "config_tx"
    /\ Steps[Tests[10]] = << "clear_radio", "reset_init", "clear_radio",
         "start", "setup", "set_payload", "clear_radio", "start", "setup",
         "set_payload", "pass" >>
  BY DEF Tests, Steps, ConfigTxTest

LEMMA Listed11 ==
    /\ Tests[11] = "sleep_ms"
    /\ Steps[Tests[11]] = << "start", "sleep", "expect_slept" >>
  BY DEF Tests, Steps, SleepMsTest

LEMMA Listed12 ==
    /\ Tests[12] = "timer_irq_low_power"
    /\ Steps[Tests[12]] = << "clear_timer", "stop_timer", "start",
         "start_timer", "sleep_long", "expect_on_time" >>
  BY DEF Tests, Steps, TimerIrqLowPowerTest

\* There are twelve tests.
LEMMA Twelve == End = 13 /\ (Running <=> test \in 1 .. 12)
  BY DEF End, Running, Tests

\* The names of the tests are those that have a list.
Names == { "spi", "radio_irq", "get_time_in_s", "get_time_in_ms", "timer_irq",
           "stop_timer", "disable_enable_irq", "random", "config_rx", "config_tx",
           "sleep_ms", "timer_irq_low_power" }

LEMMA HaveSteps == DOMAIN Steps = Names
  BY DEF Steps, Names

LEMMA AllNamed == \A t \in 1 .. 12 : Tests[t] \in Names
  BY Listed1, Listed2, Listed3, Listed4, Listed5, Listed6, Listed7, Listed8, Listed9,
     Listed10, Listed11, Listed12
     DEF Names

\* A step of a test lies in its list.
LEMMA Bounds == \A t \in 1 .. 12 : \A s : s \in 1 .. Len(Steps[Tests[t]]) <=> Bound(t, s)
<1> SUFFICES ASSUME NEW t \in 1 .. 12, NEW s
             PROVE  s \in 1 .. Len(Steps[Tests[t]]) <=> Bound(t, s)
  OBVIOUS
<1>1. CASE t = 1
  <2>1. Len(Steps[Tests[1]]) = 3
    BY Listed1
  <2> QED
    BY <1>1, <2>1 DEF Bound
<1>2. CASE t = 2
  <2>1. Len(Steps[Tests[2]]) = 7
    BY Listed2
  <2> QED
    BY <1>2, <2>1 DEF Bound
<1>3. CASE t = 3
  <2>1. Len(Steps[Tests[3]]) = 7
    BY Listed3
  <2> QED
    BY <1>3, <2>1 DEF Bound
<1>4. CASE t = 4
  <2>1. Len(Steps[Tests[4]]) = 7
    BY Listed4
  <2> QED
    BY <1>4, <2>1 DEF Bound
<1>5. CASE t = 5
  <2>1. Len(Steps[Tests[5]]) = 6
    BY Listed5
  <2> QED
    BY <1>5, <2>1 DEF Bound
<1>6. CASE t = 6
  <2>1. Len(Steps[Tests[6]]) = 8
    BY Listed6
  <2> QED
    BY <1>6, <2>1 DEF Bound
<1>7. CASE t = 7
  <2>1. Len(Steps[Tests[7]]) = 8
    BY Listed7
  <2> QED
    BY <1>7, <2>1 DEF Bound
<1>8. CASE t = 8
  <2>1. Len(Steps[Tests[8]]) = 1
    BY Listed8
  <2> QED
    BY <1>8, <2>1 DEF Bound
<1>9. CASE t = 9
  <2>1. Len(Steps[Tests[9]]) = 9
    BY Listed9
  <2> QED
    BY <1>9, <2>1 DEF Bound
<1>10. CASE t = 10
  <2>1. Len(Steps[Tests[10]]) = 11
    BY Listed10
  <2> QED
    BY <1>10, <2>1 DEF Bound
<1>11. CASE t = 11
  <2>1. Len(Steps[Tests[11]]) = 3
    BY Listed11
  <2> QED
    BY <1>11, <2>1 DEF Bound
<1>12. CASE t = 12
  <2>1. Len(Steps[Tests[12]]) = 6
    BY Listed12
  <2> QED
    BY <1>12, <2>1 DEF Bound
<1> QED
  BY <1>1, <1>2, <1>3, <1>4, <1>5, <1>6, <1>7, <1>8, <1>9, <1>10, <1>11, <1>12

LEMMA InBounds == TestsTypeOK /\ Running => Bound(test, step)
  BY Bounds, Twelve DEF TestsTypeOK, Name

\* What the main thread is at, test by test.
LEMMA At1 ==
    ASSUME TestsTypeOK, test = 1, NEW x
    PROVE  At(x) <=> \/ step = 1 /\ x = "reset_init"
                     \/ step = 2 /\ x = "read_version"
                     \/ step = 3 /\ x = "pass"
<1>1. Running /\ step \in 1 .. 3
  BY InBounds, Twelve DEF Bound
<1>2. Steps[Name] = Steps[Tests[1]]
  BY DEF Name
<1> QED
  BY <1>1, <1>2, Listed1 DEF At

LEMMA At2 ==
    ASSUME TestsTypeOK, test = 2, NEW x
    PROVE  At(x) <=> \/ step = 1 /\ x = "clear_radio"
                     \/ step = 2 /\ x = "reset_init"
                     \/ step = 3 /\ x = "setup"
                     \/ step = 4 /\ x = "set_rx"
                     \/ step = 5 /\ x = "start"
                     \/ step = 6 /\ x = "sleep_twice"
                     \/ step = 7 /\ x = "expect_radio"
<1>1. Running /\ step \in 1 .. 7
  BY InBounds, Twelve DEF Bound
<1>2. Steps[Name] = Steps[Tests[2]]
  BY DEF Name
<1> QED
  BY <1>1, <1>2, Listed2 DEF At

LEMMA At3 ==
    ASSUME TestsTypeOK, test = 3, NEW x
    PROVE  At(x) <=> \/ step = 1 /\ x = "clear_radio"
                     \/ step = 2 /\ x = "reset_init"
                     \/ step = 3 /\ x = "setup"
                     \/ step = 4 /\ x = "set_rx"
                     \/ step = 5 /\ x = "start"
                     \/ step = 6 /\ x = "until_radio"
                     \/ step = 7 /\ x = "expect_seconds"
<1>1. Running /\ step \in 1 .. 7
  BY InBounds, Twelve DEF Bound
<1>2. Steps[Name] = Steps[Tests[3]]
  BY DEF Name
<1> QED
  BY <1>1, <1>2, Listed3 DEF At

LEMMA At4 ==
    ASSUME TestsTypeOK, test = 4, NEW x
    PROVE  At(x) <=> \/ step = 1 /\ x = "clear_radio"
                     \/ step = 2 /\ x = "reset_init"
                     \/ step = 3 /\ x = "setup"
                     \/ step = 4 /\ x = "start"
                     \/ step = 5 /\ x = "set_rx"
                     \/ step = 6 /\ x = "until_radio"
                     \/ step = 7 /\ x = "expect_millis"
<1>1. Running /\ step \in 1 .. 7
  BY InBounds, Twelve DEF Bound
<1>2. Steps[Name] = Steps[Tests[4]]
  BY DEF Name
<1> QED
  BY <1>1, <1>2, Listed4 DEF At

LEMMA At5 ==
    ASSUME TestsTypeOK, test = 5, NEW x
    PROVE  At(x) <=> \/ step = 1 /\ x = "clear_timer"
                     \/ step = 2 /\ x = "stop_timer"
                     \/ step = 3 /\ x = "start"
                     \/ step = 4 /\ x = "start_timer"
                     \/ step = 5 /\ x = "until_timer"
                     \/ step = 6 /\ x = "expect_on_time"
<1>1. Running /\ step \in 1 .. 6
  BY InBounds, Twelve DEF Bound
<1>2. Steps[Name] = Steps[Tests[5]]
  BY DEF Name
<1> QED
  BY <1>1, <1>2, Listed5 DEF At

LEMMA At6 ==
    ASSUME TestsTypeOK, test = 6, NEW x
    PROVE  At(x) <=> \/ step = 1 /\ x = "clear_timer"
                     \/ step = 2 /\ x = "start_timer"
                     \/ step = 3 /\ x = "start"
                     \/ step = 4 /\ x = "until_half"
                     \/ step = 5 /\ x = "stop_timer"
                     \/ step = 6 /\ x = "start"
                     \/ step = 7 /\ x = "until_past"
                     \/ step = 8 /\ x = "expect_no_timer"
<1>1. Running /\ step \in 1 .. 8
  BY InBounds, Twelve DEF Bound
<1>2. Steps[Name] = Steps[Tests[6]]
  BY DEF Name
<1> QED
  BY <1>1, <1>2, Listed6 DEF At

LEMMA At7 ==
    ASSUME TestsTypeOK, test = 7, NEW x
    PROVE  At(x) <=> \/ step = 1 /\ x = "clear_timer"
                     \/ step = 2 /\ x = "disable_irq"
                     \/ step = 3 /\ x = "start_timer"
                     \/ step = 4 /\ x = "start"
                     \/ step = 5 /\ x = "until_past"
                     \/ step = 6 /\ x = "check_no_timer"
                     \/ step = 7 /\ x = "enable_irq"
                     \/ step = 8 /\ x = "expect_timer"
<1>1. Running /\ step \in 1 .. 8
  BY InBounds, Twelve DEF Bound
<1>2. Steps[Name] = Steps[Tests[7]]
  BY DEF Name
<1> QED
  BY <1>1, <1>2, Listed7 DEF At

LEMMA At8 ==
    ASSUME TestsTypeOK, test = 8, NEW x
    PROVE  At(x) <=> \/ step = 1 /\ x = "draw"
<1>1. Running /\ step \in 1 .. 1
  BY InBounds, Twelve DEF Bound
<1>2. Steps[Name] = Steps[Tests[8]]
  BY DEF Name
<1> QED
  BY <1>1, <1>2, Listed8 DEF At

LEMMA At9 ==
    ASSUME TestsTypeOK, test = 9, NEW x
    PROVE  At(x) <=> \/ step = 1 /\ x = "clear_radio"
                     \/ step = 2 /\ x = "reset_init"
                     \/ step = 3 /\ x = "clear_radio"
                     \/ step = 4 /\ x = "start"
                     \/ step = 5 /\ x = "setup"
                     \/ step = 6 /\ x = "clear_radio"
                     \/ step = 7 /\ x = "start"
                     \/ step = 8 /\ x = "setup"
                     \/ step = 9 /\ x = "pass"
<1>1. Running /\ step \in 1 .. 9
  BY InBounds, Twelve DEF Bound
<1>2. Steps[Name] = Steps[Tests[9]]
  BY DEF Name
<1> QED
  BY <1>1, <1>2, Listed9 DEF At

LEMMA At10 ==
    ASSUME TestsTypeOK, test = 10, NEW x
    PROVE  At(x) <=> \/ step = 1 /\ x = "clear_radio"
                     \/ step = 2 /\ x = "reset_init"
                     \/ step = 3 /\ x = "clear_radio"
                     \/ step = 4 /\ x = "start"
                     \/ step = 5 /\ x = "setup"
                     \/ step = 6 /\ x = "set_payload"
                     \/ step = 7 /\ x = "clear_radio"
                     \/ step = 8 /\ x = "start"
                     \/ step = 9 /\ x = "setup"
                     \/ step = 10 /\ x = "set_payload"
                     \/ step = 11 /\ x = "pass"
<1>1. Running /\ step \in 1 .. 11
  BY InBounds, Twelve DEF Bound
<1>2. Steps[Name] = Steps[Tests[10]]
  BY DEF Name
<1> QED
  BY <1>1, <1>2, Listed10 DEF At

LEMMA At11 ==
    ASSUME TestsTypeOK, test = 11, NEW x
    PROVE  At(x) <=> \/ step = 1 /\ x = "start"
                     \/ step = 2 /\ x = "sleep"
                     \/ step = 3 /\ x = "expect_slept"
<1>1. Running /\ step \in 1 .. 3
  BY InBounds, Twelve DEF Bound
<1>2. Steps[Name] = Steps[Tests[11]]
  BY DEF Name
<1> QED
  BY <1>1, <1>2, Listed11 DEF At

LEMMA At12 ==
    ASSUME TestsTypeOK, test = 12, NEW x
    PROVE  At(x) <=> \/ step = 1 /\ x = "clear_timer"
                     \/ step = 2 /\ x = "stop_timer"
                     \/ step = 3 /\ x = "start"
                     \/ step = 4 /\ x = "start_timer"
                     \/ step = 5 /\ x = "sleep_long"
                     \/ step = 6 /\ x = "expect_on_time"
<1>1. Running /\ step \in 1 .. 6
  BY InBounds, Twelve DEF Bound
<1>2. Steps[Name] = Steps[Tests[12]]
  BY DEF Name
<1> QED
  BY <1>1, <1>2, Listed12 DEF At

\* Where each statement stands.
LEMMA AtResetInit ==
    ASSUME TestsTypeOK
    PROVE  At("reset_init") <=> In(1, 1, 1) \/ In(2, 2, 2) \/ In(3, 2, 2) \/ In(4, 2, 2) \/
             In(9, 2, 2) \/ In(10, 2, 2)
  BY SMTT(60), Twelve, At1, At2, At3, At4, At5, At6, At7, At8, At9, At10, At11, At12
     DEF At, In

LEMMA AtReadVersion ==
    ASSUME TestsTypeOK
    PROVE  At("read_version") <=> In(1, 2, 2)
  BY SMTT(60), Twelve, At1, At2, At3, At4, At5, At6, At7, At8, At9, At10, At11, At12
     DEF At, In

LEMMA AtPass ==
    ASSUME TestsTypeOK
    PROVE  At("pass") <=> In(1, 3, 3) \/ In(9, 9, 9) \/ In(10, 11, 11)
  BY SMTT(60), Twelve, At1, At2, At3, At4, At5, At6, At7, At8, At9, At10, At11, At12
     DEF At, In

LEMMA AtClearRadio ==
    ASSUME TestsTypeOK
    PROVE  At("clear_radio") <=> In(2, 1, 1) \/ In(3, 1, 1) \/ In(4, 1, 1) \/ In(9, 1, 1) \/
             In(9, 3, 3) \/ In(9, 6, 6) \/ In(10, 1, 1) \/ In(10, 3, 3) \/
             In(10, 7, 7)
  BY SMTT(60), Twelve, At1, At2, At3, At4, At5, At6, At7, At8, At9, At10, At11, At12
     DEF At, In

LEMMA AtSetup ==
    ASSUME TestsTypeOK
    PROVE  At("setup") <=> In(2, 3, 3) \/ In(3, 3, 3) \/ In(4, 3, 3) \/ In(9, 5, 5) \/
             In(9, 8, 8) \/ In(10, 5, 5) \/ In(10, 9, 9)
  BY SMTT(60), Twelve, At1, At2, At3, At4, At5, At6, At7, At8, At9, At10, At11, At12
     DEF At, In

LEMMA AtSetRx ==
    ASSUME TestsTypeOK
    PROVE  At("set_rx") <=> In(2, 4, 4) \/ In(3, 4, 4) \/ In(4, 5, 5)
  BY SMTT(60), Twelve, At1, At2, At3, At4, At5, At6, At7, At8, At9, At10, At11, At12
     DEF At, In

LEMMA AtStart ==
    ASSUME TestsTypeOK
    PROVE  At("start") <=> In(2, 5, 5) \/ In(3, 5, 5) \/ In(4, 4, 4) \/ In(5, 3, 3) \/
             In(6, 3, 3) \/ In(6, 6, 6) \/ In(7, 4, 4) \/ In(9, 4, 4) \/
             In(9, 7, 7) \/ In(10, 4, 4) \/ In(10, 8, 8) \/ In(11, 1, 1) \/
             In(12, 3, 3)
  BY SMTT(60), Twelve, At1, At2, At3, At4, At5, At6, At7, At8, At9, At10, At11, At12
     DEF At, In

LEMMA AtSleepTwice ==
    ASSUME TestsTypeOK
    PROVE  At("sleep_twice") <=> In(2, 6, 6)
  BY SMTT(60), Twelve, At1, At2, At3, At4, At5, At6, At7, At8, At9, At10, At11, At12
     DEF At, In

LEMMA AtExpectRadio ==
    ASSUME TestsTypeOK
    PROVE  At("expect_radio") <=> In(2, 7, 7)
  BY SMTT(60), Twelve, At1, At2, At3, At4, At5, At6, At7, At8, At9, At10, At11, At12
     DEF At, In

LEMMA AtUntilRadio ==
    ASSUME TestsTypeOK
    PROVE  At("until_radio") <=> In(3, 6, 6) \/ In(4, 6, 6)
  BY SMTT(60), Twelve, At1, At2, At3, At4, At5, At6, At7, At8, At9, At10, At11, At12
     DEF At, In

LEMMA AtExpectSeconds ==
    ASSUME TestsTypeOK
    PROVE  At("expect_seconds") <=> In(3, 7, 7)
  BY SMTT(60), Twelve, At1, At2, At3, At4, At5, At6, At7, At8, At9, At10, At11, At12
     DEF At, In

LEMMA AtExpectMillis ==
    ASSUME TestsTypeOK
    PROVE  At("expect_millis") <=> In(4, 7, 7)
  BY SMTT(60), Twelve, At1, At2, At3, At4, At5, At6, At7, At8, At9, At10, At11, At12
     DEF At, In

LEMMA AtClearTimer ==
    ASSUME TestsTypeOK
    PROVE  At("clear_timer") <=> In(5, 1, 1) \/ In(6, 1, 1) \/ In(7, 1, 1) \/ In(12, 1, 1)
  BY SMTT(60), Twelve, At1, At2, At3, At4, At5, At6, At7, At8, At9, At10, At11, At12
     DEF At, In

LEMMA AtStopTimer ==
    ASSUME TestsTypeOK
    PROVE  At("stop_timer") <=> In(5, 2, 2) \/ In(6, 5, 5) \/ In(12, 2, 2)
  BY SMTT(60), Twelve, At1, At2, At3, At4, At5, At6, At7, At8, At9, At10, At11, At12
     DEF At, In

LEMMA AtStartTimer ==
    ASSUME TestsTypeOK
    PROVE  At("start_timer") <=> In(5, 4, 4) \/ In(6, 2, 2) \/ In(7, 3, 3) \/ In(12, 4, 4)
  BY SMTT(60), Twelve, At1, At2, At3, At4, At5, At6, At7, At8, At9, At10, At11, At12
     DEF At, In

LEMMA AtUntilTimer ==
    ASSUME TestsTypeOK
    PROVE  At("until_timer") <=> In(5, 5, 5)
  BY SMTT(60), Twelve, At1, At2, At3, At4, At5, At6, At7, At8, At9, At10, At11, At12
     DEF At, In

LEMMA AtExpectOnTime ==
    ASSUME TestsTypeOK
    PROVE  At("expect_on_time") <=> In(5, 6, 6) \/ In(12, 6, 6)
  BY SMTT(60), Twelve, At1, At2, At3, At4, At5, At6, At7, At8, At9, At10, At11, At12
     DEF At, In

LEMMA AtUntilHalf ==
    ASSUME TestsTypeOK
    PROVE  At("until_half") <=> In(6, 4, 4)
  BY SMTT(60), Twelve, At1, At2, At3, At4, At5, At6, At7, At8, At9, At10, At11, At12
     DEF At, In

LEMMA AtUntilPast ==
    ASSUME TestsTypeOK
    PROVE  At("until_past") <=> In(6, 7, 7) \/ In(7, 5, 5)
  BY SMTT(60), Twelve, At1, At2, At3, At4, At5, At6, At7, At8, At9, At10, At11, At12
     DEF At, In

LEMMA AtExpectNoTimer ==
    ASSUME TestsTypeOK
    PROVE  At("expect_no_timer") <=> In(6, 8, 8)
  BY SMTT(60), Twelve, At1, At2, At3, At4, At5, At6, At7, At8, At9, At10, At11, At12
     DEF At, In

LEMMA AtDisableIrq ==
    ASSUME TestsTypeOK
    PROVE  At("disable_irq") <=> In(7, 2, 2)
  BY SMTT(60), Twelve, At1, At2, At3, At4, At5, At6, At7, At8, At9, At10, At11, At12
     DEF At, In

LEMMA AtCheckNoTimer ==
    ASSUME TestsTypeOK
    PROVE  At("check_no_timer") <=> In(7, 6, 6)
  BY SMTT(60), Twelve, At1, At2, At3, At4, At5, At6, At7, At8, At9, At10, At11, At12
     DEF At, In

LEMMA AtEnableIrq ==
    ASSUME TestsTypeOK
    PROVE  At("enable_irq") <=> In(7, 7, 7)
  BY SMTT(60), Twelve, At1, At2, At3, At4, At5, At6, At7, At8, At9, At10, At11, At12
     DEF At, In

LEMMA AtExpectTimer ==
    ASSUME TestsTypeOK
    PROVE  At("expect_timer") <=> In(7, 8, 8)
  BY SMTT(60), Twelve, At1, At2, At3, At4, At5, At6, At7, At8, At9, At10, At11, At12
     DEF At, In

LEMMA AtDraw ==
    ASSUME TestsTypeOK
    PROVE  At("draw") <=> In(8, 1, 1)
  BY SMTT(60), Twelve, At1, At2, At3, At4, At5, At6, At7, At8, At9, At10, At11, At12
     DEF At, In

LEMMA AtSetPayload ==
    ASSUME TestsTypeOK
    PROVE  At("set_payload") <=> In(10, 6, 6) \/ In(10, 10, 10)
  BY SMTT(60), Twelve, At1, At2, At3, At4, At5, At6, At7, At8, At9, At10, At11, At12
     DEF At, In

LEMMA AtSleep ==
    ASSUME TestsTypeOK
    PROVE  At("sleep") <=> In(11, 2, 2)
  BY SMTT(60), Twelve, At1, At2, At3, At4, At5, At6, At7, At8, At9, At10, At11, At12
     DEF At, In

LEMMA AtExpectSlept ==
    ASSUME TestsTypeOK
    PROVE  At("expect_slept") <=> In(11, 3, 3)
  BY SMTT(60), Twelve, At1, At2, At3, At4, At5, At6, At7, At8, At9, At10, At11, At12
     DEF At, In

LEMMA AtSleepLong ==
    ASSUME TestsTypeOK
    PROVE  At("sleep_long") <=> In(12, 5, 5)
  BY SMTT(60), Twelve, At1, At2, At3, At4, At5, At6, At7, At8, At9, At10, At11, At12
     DEF At, In

\* Where a failure leads.
LEMMA Failure ==
    ASSUME test \in 1 .. 12
    PROVE  AfterFailure = IF test \in {1, 2, 5} THEN 13 ELSE IF test = 3 THEN 5 ELSE test + 1
<1>1. CASE test = 1
  BY <1>1, Listed1, Twelve DEF AfterFailure, Name, Fatal
<1>2. CASE test = 2
  BY <1>2, Listed2, Twelve DEF AfterFailure, Name, Fatal
<1>3. CASE test = 3
  BY <1>3, Listed3, Twelve DEF AfterFailure, Name, Fatal
<1>4. CASE test = 4
  BY <1>4, Listed4, Twelve DEF AfterFailure, Name, Fatal
<1>5. CASE test = 5
  BY <1>5, Listed5, Twelve DEF AfterFailure, Name, Fatal
<1>6. CASE test = 6
  BY <1>6, Listed6, Twelve DEF AfterFailure, Name, Fatal
<1>7. CASE test = 7
  BY <1>7, Listed7, Twelve DEF AfterFailure, Name, Fatal
<1>8. CASE test = 8
  BY <1>8, Listed8, Twelve DEF AfterFailure, Name, Fatal
<1>9. CASE test = 9
  BY <1>9, Listed9, Twelve DEF AfterFailure, Name, Fatal
<1>10. CASE test = 10
  BY <1>10, Listed10, Twelve DEF AfterFailure, Name, Fatal
<1>11. CASE test = 11
  BY <1>11, Listed11, Twelve DEF AfterFailure, Name, Fatal
<1>12. CASE test = 12
  BY <1>12, Listed12, Twelve DEF AfterFailure, Name, Fatal
<1> QED
  BY <1>1, <1>2, <1>3, <1>4, <1>5, <1>6, <1>7, <1>8, <1>9, <1>10, <1>11, <1>12

-----------------------------------------------------------------------------
(* Every step preserves the invariant.                                     *)

\* Half of the time of a timer.
LEMMA Times == T \in Nat /\ Margin \in Nat /\ T > 2 * Margin + 2
              /\ T \div 2 \in Nat /\ 2 * (T \div 2) <= T /\ T <= 2 * (T \div 2) + 1
  BY TimesAssumption

\* Where Expect leads: the check of the timer's interrupt goes on, the other
\* verdicts end their test.
LEMMA ExpectGoes ==
    ASSUME TestsTypeOK, Expect
    PROVE  /\ \/ In(7, 6, 6) /\ ~timer_irq_raised /\ test' = 7 /\ step' = 7
              \/ /\ \/ In(1, 3, 3) \/ In(2, 7, 7) \/ In(5, 6, 6) \/ In(6, 8, 8) \/ In(7, 8, 8)
                    \/ In(7, 6, 6) /\ timer_irq_raised
                    \/ In(9, 9, 9) \/ In(10, 11, 11) \/ In(11, 3, 3) \/ In(12, 6, 6)
                 /\ step' = 1
                 /\ test' = test + 1 \/ (test \in {1, 2, 5} /\ test' = 13)
                 /\ test = 5 /\ test' = 6 => timer_irq_raised
           /\ UNCHANGED << fault, flags, since, hal, chip >>
<1>0. UNCHANGED << fault, flags, since, hal, chip >>
  BY DEF Expect
<1>1. CASE At("pass") /\ Report(TRUE)
  BY <1>0, <1>1, AtPass, Failure DEF In, Report
<1>2. CASE At("expect_radio") /\ Report(radio_irq_raised)
  BY <1>0, <1>2, AtExpectRadio, Failure DEF In, Report
<1>3. CASE At("expect_on_time") /\ Report(timer_irq_raised /\ OnTime(InMillis(irq_time)))
  BY <1>0, <1>3, AtExpectOnTime, Failure DEF In, Report
<1>4. CASE At("expect_no_timer") /\ Report(~timer_irq_raised)
  BY <1>0, <1>4, AtExpectNoTimer, Failure DEF In, Report
<1>5. CASE At("expect_timer") /\ Report(timer_irq_raised)
  BY <1>0, <1>5, AtExpectTimer, Failure DEF In, Report
<1>6. CASE At("expect_slept") /\ Report(TRUE)
  BY <1>0, <1>6, AtExpectSlept, Failure DEF In, Report
<1>7. CASE At("check_no_timer") /\ timer_irq_raised /\ Report(FALSE)
  BY <1>0, <1>7, AtCheckNoTimer, Failure DEF In, Report
<1>8. CASE At("check_no_timer") /\ ~timer_irq_raised /\ Continue
  BY <1>0, <1>8, AtCheckNoTimer DEF In, Continue
<1> QED
  BY <1>1, <1>2, <1>3, <1>4, <1>5, <1>6, <1>7, <1>8, Zenon DEF Expect

\* Where ExpectTime leads: the test starts again, or the next one does.
LEMMA ExpectTimeGoes ==
    ASSUME TestsTypeOK, ExpectTime
    PROVE  /\ In(3, 7, 7) \/ In(4, 7, 7)
           /\ step' = 1 /\ test' \in { test, test + 1, 5 }
           /\ UNCHANGED << fault, flags, since, hal, chip >>
  BY AtExpectSeconds, AtExpectMillis, Failure DEF ExpectTime, Report, In

\* Where Draw leads.
LEMMA DrawGoes ==
    ASSUME TestsTypeOK, Draw
    PROVE  /\ In(8, 1, 1) /\ step' = 1 /\ test' = 9
           /\ UNCHANGED << fault, flags, since, hal, chip >>
  BY AtDraw, Failure DEF Draw, Report, In

\* The ranges of the numbers.
LEMMA Typed ==
    ASSUME TestsTypeOK
    PROVE  /\ fault \in Faults /\ test \in 0 .. 13
           /\ irq_time \in 0 .. 2 * T + 1 /\ since \in 0 .. 2 * T + 1
           /\ timer \in -1 .. T + Margin + 1 /\ radio \in -1 .. T + Margin + 1
  BY Times, Twelve DEF TestsTypeOK, Off, TooLong

\* The faults that are no longer there.
LEMMA FoundByNow ==
    ASSUME TestsInv
    PROVE  /\ fault = "spi" => test = 13 \/ In(1, 1, 1)
           /\ fault = "radio_irq" => test <= 2 \/ test = 13
           /\ fault \in { "get_time", "start_timer", "timer_late" } => test <= 5 \/ test = 13
  BY Twelve DEF TestsInv, Verdicts, TimerFaults

\* Every step preserves RadioOff.
LEMMA RadioOffKept == ASSUME TestsInv, TestsNext \/ UNCHANGED testsVars PROVE RadioOff'
<1> USE DEF TestsInv, testsVars, flags, hal, chip, Off, TooLong, RadioOff, RadioTest,
            In, Faults
<1>1. CASE Boot
  BY <1>1, Times, Typed DEF Boot
<1>2. CASE RadioCall
  BY <1>2, SMTT(60), AtResetInit, AtReadVersion, AtSetup, AtSetPayload, AtSetRx,
     Failure, Times, Typed
     DEF RadioCall, RadioCalls, ResetInitRadio, SetRx, Continue, Report
<1>3. CASE ClearFlags
  BY <1>3, SMTT(60), AtClearRadio, AtClearTimer, Times, Typed DEF ClearFlags, Continue
<1>4. CASE ReadStartTime
  BY <1>4, SMTT(60), AtStart, Times, Typed DEF ReadStartTime, Continue
<1>5. CASE StartTimer
  BY <1>5, SMTT(60), AtStartTimer, Times, Typed DEF StartTimer, Continue
<1>6. CASE StopTimer
  BY <1>6, SMTT(60), AtStopTimer, Times, Typed DEF StopTimer, Continue
<1>7. CASE DisableModemIrq
  BY <1>7, SMTT(60), AtDisableIrq, Times, Typed DEF DisableModemIrq, Continue
<1>8. CASE EnableModemIrq
  BY <1>8, SMTT(60), AtEnableIrq, Times, Typed DEF EnableModemIrq, TimerIrqCallback, Continue
<1>9. CASE EndWait
  BY <1>9, SMTT(60), AtSleep, AtSleepTwice, AtSleepLong, AtUntilHalf, AtUntilPast,
     AtUntilTimer, AtUntilRadio, Times, Typed
     DEF EndWait, WaitIsOver, Continue, InMillis
<1>10. CASE Expect
  BY <1>10, SMTT(60), ExpectGoes, Times, Typed
<1>11. CASE ExpectTime
  BY <1>11, ExpectTimeGoes, Times, Typed
<1>12. CASE Draw
  BY <1>12, DrawGoes, Times, Typed
<1>13. CASE TimerExpires
  BY <1>13, Times, Typed DEF TimerExpires, TimerIrqCallback
<1>14. CASE RadioCallbackStarts
  BY <1>14, Times, Typed DEF RadioCallbackStarts
<1>15. CASE RadioCallbackEnds
  BY <1>15, Times, Typed DEF RadioCallbackEnds
<1>16. CASE TimePasses
  BY <1>16, SMTT(60), AtSleep, AtSleepTwice, AtSleepLong, AtUntilHalf, AtUntilPast,
     AtUntilTimer, AtUntilRadio, Times, Typed
     DEF TimePasses, Waiting, WaitIsOver, Less, InMillis
<1>17. CASE UNCHANGED testsVars
  BY <1>17, Times, Typed
<1> QED
  BY <1>1, <1>2, <1>3, <1>4, <1>5, <1>6, <1>7, <1>8, <1>9, <1>10, <1>11, <1>12,
     <1>13, <1>14, <1>15, <1>16, <1>17 DEF TestsNext, TestsMain, TestsClock

\* Every step preserves RadioTest.
LEMMA RadioTestKept ==
    ASSUME TestsInv, TestsNext \/ UNCHANGED testsVars
    PROVE  RadioTest'
<1> USE DEF TestsInv, testsVars, flags, hal, chip, Off, TooLong, RadioTest, RadioOff,
            In, Faults
<1>1. CASE Boot
  BY <1>1, Times, Typed DEF Boot
<1>2. CASE RadioCall
  BY <1>2, SMTT(60), AtResetInit, AtReadVersion, AtSetup, AtSetPayload, AtSetRx,
     Failure, Times, Typed
     DEF RadioCall, RadioCalls, ResetInitRadio, SetRx, Continue, Report
<1>3. CASE ClearFlags
  BY <1>3, SMTT(60), AtClearRadio, AtClearTimer, Times, Typed DEF ClearFlags, Continue
<1>4. CASE ReadStartTime
  BY <1>4, SMTT(60), AtStart, Times, Typed DEF ReadStartTime, Continue
<1>5. CASE StartTimer
  BY <1>5, SMTT(60), AtStartTimer, Times, Typed DEF StartTimer, Continue
<1>6. CASE StopTimer
  BY <1>6, SMTT(60), AtStopTimer, Times, Typed DEF StopTimer, Continue
<1>7. CASE DisableModemIrq
  BY <1>7, SMTT(60), AtDisableIrq, Times, Typed DEF DisableModemIrq, Continue
<1>8. CASE EnableModemIrq
  BY <1>8, SMTT(60), AtEnableIrq, Times, Typed DEF EnableModemIrq, TimerIrqCallback, Continue
<1>9. CASE EndWait
  BY <1>9, SMTT(60), AtSleep, AtSleepTwice, AtSleepLong, AtUntilHalf, AtUntilPast,
     AtUntilTimer, AtUntilRadio, Times, Typed
     DEF EndWait, WaitIsOver, Continue, InMillis
<1>10. CASE Expect
  BY <1>10, SMTT(60), ExpectGoes, Times, Typed
<1>11. CASE ExpectTime
  BY <1>11, ExpectTimeGoes, Times, Typed
<1>12. CASE Draw
  BY <1>12, DrawGoes, Times, Typed
<1>13. CASE TimerExpires
  BY <1>13, Times, Typed DEF TimerExpires, TimerIrqCallback
<1>14. CASE RadioCallbackStarts
  BY <1>14, Times, Typed DEF RadioCallbackStarts
<1>15. CASE RadioCallbackEnds
  BY <1>15, Times, Typed DEF RadioCallbackEnds
<1>16. CASE TimePasses
  BY <1>16, SMTT(60), AtSleep, AtSleepTwice, AtSleepLong, AtUntilHalf, AtUntilPast,
     AtUntilTimer, AtUntilRadio, Times, Typed
     DEF TimePasses, Waiting, WaitIsOver, Less, InMillis
<1>17. CASE UNCHANGED testsVars
  BY <1>17, Times, Typed
<1> QED
  BY <1>1, <1>2, <1>3, <1>4, <1>5, <1>6, <1>7, <1>8, <1>9, <1>10, <1>11, <1>12,
     <1>13, <1>14, <1>15, <1>16, <1>17 DEF TestsNext, TestsMain, TestsClock

\* Every step preserves NoTimerYet.
LEMMA NoTimerYetKept ==
    ASSUME TestsInv, TestsNext \/ UNCHANGED testsVars
    PROVE  NoTimerYet'
<1> USE DEF TestsInv, testsVars, flags, hal, chip, Off, TooLong, NoTimerYet, In, Faults
<1>1. CASE Boot
  BY <1>1, Times, Typed DEF Boot
<1>2. CASE RadioCall
  BY <1>2, SMTT(60), AtResetInit, AtReadVersion, AtSetup, AtSetPayload, AtSetRx,
     Failure, Times, Typed
     DEF RadioCall, RadioCalls, ResetInitRadio, SetRx, Continue, Report
<1>3. CASE ClearFlags
  BY <1>3, AtClearRadio, AtClearTimer, Times, Typed DEF ClearFlags, Continue
<1>4. CASE ReadStartTime
  BY <1>4, SMTT(60), AtStart, Times, Typed DEF ReadStartTime, Continue
<1>5. CASE StartTimer
  BY <1>5, SMTT(60), AtStartTimer, Times, Typed DEF StartTimer, Continue
<1>6. CASE StopTimer
  BY <1>6, SMTT(60), AtStopTimer, Times, Typed DEF StopTimer, Continue
<1>7. CASE DisableModemIrq
  BY <1>7, AtDisableIrq, Times, Typed DEF DisableModemIrq, Continue
<1>8. CASE EnableModemIrq
  BY <1>8, AtEnableIrq, Times, Typed DEF EnableModemIrq, TimerIrqCallback, Continue
<1>9. CASE EndWait
  BY <1>9, SMTT(60), AtSleep, AtSleepTwice, AtSleepLong, AtUntilHalf, AtUntilPast,
     AtUntilTimer, AtUntilRadio, Times, Typed
     DEF EndWait, WaitIsOver, Continue, InMillis
<1>10. CASE Expect
  BY <1>10, SMTT(60), ExpectGoes, Times, Typed
<1>11. CASE ExpectTime
  BY <1>11, ExpectTimeGoes, Times, Typed
<1>12. CASE Draw
  BY <1>12, DrawGoes, Times, Typed
<1>13. CASE TimerExpires
  BY <1>13, Times, Typed DEF TimerExpires, TimerIrqCallback
<1>14. CASE RadioCallbackStarts
  BY <1>14, Times, Typed DEF RadioCallbackStarts
<1>15. CASE RadioCallbackEnds
  BY <1>15, Times, Typed DEF RadioCallbackEnds
<1>16. CASE TimePasses
  BY <1>16, SMTT(60), AtSleep, AtSleepTwice, AtSleepLong, AtUntilHalf, AtUntilPast,
     AtUntilTimer, AtUntilRadio, Times, Typed
     DEF TimePasses, Waiting, WaitIsOver, Less, InMillis
<1>17. CASE UNCHANGED testsVars
  BY <1>17, Times, Typed
<1> QED
  BY <1>1, <1>2, <1>3, <1>4, <1>5, <1>6, <1>7, <1>8, <1>9, <1>10, <1>11, <1>12,
     <1>13, <1>14, <1>15, <1>16, <1>17 DEF TestsNext, TestsMain, TestsClock

\* Every step preserves TimerTest.
LEMMA TimerTestKept ==
    ASSUME TestsInv, TestsNext \/ UNCHANGED testsVars
    PROVE  TimerTest'
<1> USE DEF TestsInv, testsVars, flags, hal, chip, Off, TooLong, TimerTest, TimerFaults,
            Expires, NoTimerYet, RadioOff, In, Faults
<1>1. CASE Boot
  BY <1>1, Times, Typed DEF Boot
<1>2. CASE RadioCall
  BY <1>2, SMTT(60), AtResetInit, AtReadVersion, AtSetup, AtSetPayload, AtSetRx,
     Failure, Times, Typed
     DEF RadioCall, RadioCalls, ResetInitRadio, SetRx, Continue, Report
<1>3. CASE ClearFlags
  BY <1>3, SMTT(60), AtClearRadio, AtClearTimer, Times, Typed DEF ClearFlags, Continue
<1>4. CASE ReadStartTime
  BY <1>4, SMTT(60), AtStart, Times, Typed DEF ReadStartTime, Continue
<1>5. CASE StartTimer
  BY <1>5, SMTT(60), AtStartTimer, Times, Typed DEF StartTimer, Continue
<1>6. CASE StopTimer
  BY <1>6, SMTT(60), AtStopTimer, Times, Typed DEF StopTimer, Continue
<1>7. CASE DisableModemIrq
  BY <1>7, SMTT(60), AtDisableIrq, Times, Typed DEF DisableModemIrq, Continue
<1>8. CASE EnableModemIrq
  BY <1>8, SMTT(60), AtEnableIrq, Times, Typed DEF EnableModemIrq, TimerIrqCallback, Continue
<1>9. CASE EndWait
  BY <1>9, SMTT(60), AtSleep, AtSleepTwice, AtSleepLong, AtUntilHalf, AtUntilPast,
     AtUntilTimer, AtUntilRadio, Times, Typed
     DEF EndWait, WaitIsOver, Continue, InMillis
<1>10. CASE Expect
  BY <1>10, SMTT(60), ExpectGoes, Times, Typed
<1>11. CASE ExpectTime
  BY <1>11, ExpectTimeGoes, Times, Typed
<1>12. CASE Draw
  BY <1>12, DrawGoes, Times, Typed
<1>13. CASE TimerExpires
  BY <1>13, Times, Typed DEF TimerExpires, TimerIrqCallback
<1>14. CASE RadioCallbackStarts
  BY <1>14, Times, Typed DEF RadioCallbackStarts
<1>15. CASE RadioCallbackEnds
  BY <1>15, Times, Typed DEF RadioCallbackEnds
<1>16. CASE TimePasses
  BY <1>16, SMTT(60), AtSleep, AtSleepTwice, AtSleepLong, AtUntilHalf, AtUntilPast,
     AtUntilTimer, AtUntilRadio, Times, Typed
     DEF TimePasses, Waiting, WaitIsOver, Less, InMillis
<1>17. CASE UNCHANGED testsVars
  BY <1>17, Times, Typed
<1> QED
  BY <1>1, <1>2, <1>3, <1>4, <1>5, <1>6, <1>7, <1>8, <1>9, <1>10, <1>11, <1>12,
     <1>13, <1>14, <1>15, <1>16, <1>17 DEF TestsNext, TestsMain, TestsClock

\* Every step preserves StopTest.
LEMMA StopTestKept == ASSUME TestsInv, TestsNext \/ UNCHANGED testsVars PROVE StopTest'
<1> USE DEF TestsInv, testsVars, flags, hal, chip, Off, TooLong, StopTest, TimerTest,
            TimerFaults, Expires, RadioOff, In, Faults
<1>1. CASE Boot
  BY <1>1, Times, Typed DEF Boot
<1>2. CASE RadioCall
  BY <1>2, SMTT(60), AtResetInit, AtReadVersion, AtSetup, AtSetPayload, AtSetRx,
     Failure, Times, Typed
     DEF RadioCall, RadioCalls, ResetInitRadio, SetRx, Continue, Report
<1>3. CASE ClearFlags
  BY <1>3, SMTT(60), AtClearRadio, AtClearTimer, Times, Typed DEF ClearFlags, Continue
<1>4. CASE ReadStartTime
  BY <1>4, SMTT(60), AtStart, Times, Typed DEF ReadStartTime, Continue
<1>5. CASE StartTimer
  BY <1>5, SMTT(60), AtStartTimer, Times, Typed, FoundByNow DEF StartTimer, Continue
<1>6. CASE StopTimer
  BY <1>6, SMTT(60), AtStopTimer, Times, Typed, FoundByNow DEF StopTimer, Continue
<1>7. CASE DisableModemIrq
  BY <1>7, SMTT(60), AtDisableIrq, Times, Typed DEF DisableModemIrq, Continue
<1>8. CASE EnableModemIrq
  BY <1>8, SMTT(60), AtEnableIrq, Times, Typed, FoundByNow
     DEF EnableModemIrq, TimerIrqCallback, Continue
<1>9. CASE EndWait
  BY <1>9, SMTT(60), AtSleep, AtSleepTwice, AtSleepLong, AtUntilHalf, AtUntilPast,
     AtUntilTimer, AtUntilRadio, Times, Typed, FoundByNow
     DEF EndWait, WaitIsOver, Continue, InMillis
<1>10. CASE Expect
  BY <1>10, SMTT(60), ExpectGoes, Times, Typed, FoundByNow
<1>11. CASE ExpectTime
  BY <1>11, ExpectTimeGoes, Times, Typed
<1>12. CASE Draw
  BY <1>12, DrawGoes, Times, Typed
<1>13. CASE TimerExpires
  BY <1>13, Times, Typed DEF TimerExpires, TimerIrqCallback
<1>14. CASE RadioCallbackStarts
  BY <1>14, Times, Typed, FoundByNow DEF RadioCallbackStarts
<1>15. CASE RadioCallbackEnds
  BY <1>15, Times, Typed DEF RadioCallbackEnds
<1>16. CASE TimePasses
  <2>1. /\ UNCHANGED << fault, test, step, timer_irq_raised, irq_enabled >>
        /\ timer # 0 /\ ~WaitIsOver
        /\ since' = IF since > 2 * T THEN since ELSE since + 1
        /\ timer' = IF fault = "timer_asleep" /\ At("sleep_long") THEN timer ELSE Less(timer)
    BY <1>16 DEF TimePasses
  <2>2. test = 6 => In(6, 4, 4) \/ In(6, 7, 7)
    BY <1>16, AtSleep, AtSleepTwice, AtSleepLong, AtUntilHalf, AtUntilPast, AtUntilTimer,
       AtUntilRadio DEF TimePasses, Waiting
  <2>3. CASE test # 6
    BY <2>1, <2>3
  <2>4. CASE In(6, 4, 4)
    <3>1. fault # "get_time" /\ ~At("sleep_long") /\ At("until_half")
      BY <2>4, AtSleepLong, AtUntilHalf, FoundByNow
    <3>2. since < T \div 2 /\ since' = since + 1 /\ timer' = Less(timer)
      BY <2>1, <3>1, Times, Typed DEF WaitIsOver, InMillis
    <3> QED
      BY <2>1, <2>4, <3>2, Times, Typed DEF Less
  <2>5. CASE In(6, 7, 7)
    <3>1. ~At("sleep_long")
      BY <2>5, AtSleepLong
    <3>2. timer' = Less(timer)
      BY <2>1, <3>1
    <3> QED
      BY <2>1, <2>5, <3>2, Times, Typed DEF Less
  <2> QED
    BY <2>2, <2>3, <2>4, <2>5
<1>17. CASE UNCHANGED testsVars
  BY <1>17, Times, Typed
<1> QED
  BY <1>1, <1>2, <1>3, <1>4, <1>5, <1>6, <1>7, <1>8, <1>9, <1>10, <1>11, <1>12,
     <1>13, <1>14, <1>15, <1>16, <1>17 DEF TestsNext, TestsMain, TestsClock

\* Every step preserves GateTest.
LEMMA GateTestKept == ASSUME TestsInv, TestsNext \/ UNCHANGED testsVars PROVE GateTest'
<1> USE DEF TestsInv, testsVars, flags, hal, chip, Off, TooLong, GateTest, StopTest, In,
            Faults
<1>1. CASE Boot
  BY <1>1, Times, Typed DEF Boot
<1>2. CASE RadioCall
  BY <1>2, SMTT(60), AtResetInit, AtReadVersion, AtSetup, AtSetPayload, AtSetRx,
     Failure, Times, Typed
     DEF RadioCall, RadioCalls, ResetInitRadio, SetRx, Continue, Report
<1>3. CASE ClearFlags
  BY <1>3, SMTT(60), AtClearRadio, AtClearTimer, Times, Typed DEF ClearFlags, Continue
<1>4. CASE ReadStartTime
  BY <1>4, SMTT(60), AtStart, Times, Typed DEF ReadStartTime, Continue
<1>5. CASE StartTimer
  BY <1>5, SMTT(60), AtStartTimer, Times, Typed, FoundByNow DEF StartTimer, Continue
<1>6. CASE StopTimer
  BY <1>6, SMTT(60), AtStopTimer, Times, Typed, FoundByNow DEF StopTimer, Continue
<1>7. CASE DisableModemIrq
  <2>1. In(7, 2, 2) /\ test' = 7 /\ step' = 3 /\ UNCHANGED << fault, timer, timer_irq_raised >>
    BY <1>7, AtDisableIrq DEF DisableModemIrq, Continue
  <2>2. irq_enabled' <=> fault = "disable_irq"
    BY <1>7, Zenon DEF DisableModemIrq
  <2> HIDE DEF testsVars
  <2> QED
    BY <2>1, <2>2, Typed
<1>8. CASE EnableModemIrq
  BY <1>8, SMTT(60), AtEnableIrq, Times, Typed, FoundByNow
     DEF EnableModemIrq, TimerIrqCallback, Continue
<1>9. CASE EndWait
  BY <1>9, SMTT(60), AtSleep, AtSleepTwice, AtSleepLong, AtUntilHalf, AtUntilPast,
     AtUntilTimer, AtUntilRadio, Times, Typed, FoundByNow
     DEF EndWait, WaitIsOver, Continue, InMillis
<1>10. CASE Expect
  BY <1>10, SMTT(60), ExpectGoes, Times, Typed, FoundByNow
<1>11. CASE ExpectTime
  BY <1>11, ExpectTimeGoes, Times, Typed
<1>12. CASE Draw
  BY <1>12, DrawGoes, Times, Typed
<1>13. CASE TimerExpires
  BY <1>13, Times, Typed DEF TimerExpires, TimerIrqCallback
<1>14. CASE RadioCallbackStarts
  BY <1>14, Times, Typed, FoundByNow DEF RadioCallbackStarts
<1>15. CASE RadioCallbackEnds
  BY <1>15, Times, Typed DEF RadioCallbackEnds
<1>16. CASE TimePasses
  BY <1>16, SMTT(60), AtSleep, AtSleepTwice, AtSleepLong, AtUntilHalf, AtUntilPast,
     AtUntilTimer, AtUntilRadio, Times, Typed, FoundByNow
     DEF TimePasses, Waiting, WaitIsOver, Less, InMillis
<1>17. CASE UNCHANGED testsVars
  BY <1>17, Times, Typed
<1> QED
  BY <1>1, <1>2, <1>3, <1>4, <1>5, <1>6, <1>7, <1>8, <1>9, <1>10, <1>11, <1>12,
     <1>13, <1>14, <1>15, <1>16, <1>17 DEF TestsNext, TestsMain, TestsClock

\* Every step preserves SleepTest.
LEMMA SleepTestKept ==
    ASSUME TestsInv, TestsNext \/ UNCHANGED testsVars
    PROVE  SleepTest'
<1> USE DEF TestsInv, testsVars, flags, hal, chip, Off, TooLong, SleepTest, Last,
            GateTest, In, Faults
<1>1. CASE Boot
  BY <1>1, Times, Typed DEF Boot
<1>2. CASE RadioCall
  BY <1>2, SMTT(60), AtResetInit, AtReadVersion, AtSetup, AtSetPayload, AtSetRx,
     Failure, Times, Typed
     DEF RadioCall, RadioCalls, ResetInitRadio, SetRx, Continue, Report
<1>3. CASE ClearFlags
  BY <1>3, SMTT(60), AtClearRadio, AtClearTimer, Times, Typed DEF ClearFlags, Continue
<1>4. CASE ReadStartTime
  BY <1>4, SMTT(60), AtStart, Times, Typed DEF ReadStartTime, Continue
<1>5. CASE StartTimer
  BY <1>5, SMTT(60), AtStartTimer, Times, Typed, FoundByNow DEF StartTimer, Continue
<1>6. CASE StopTimer
  BY <1>6, SMTT(60), AtStopTimer, Times, Typed, FoundByNow DEF StopTimer, Continue
<1>7. CASE DisableModemIrq
  BY <1>7, SMTT(60), AtDisableIrq, Times, Typed DEF DisableModemIrq, Continue
<1>8. CASE EnableModemIrq
  BY <1>8, SMTT(60), AtEnableIrq, Times, Typed, FoundByNow
     DEF EnableModemIrq, TimerIrqCallback, Continue
<1>9. CASE EndWait
  BY <1>9, SMTT(60), AtSleep, AtSleepTwice, AtSleepLong, AtUntilHalf, AtUntilPast,
     AtUntilTimer, AtUntilRadio, Times, Typed, FoundByNow
     DEF EndWait, WaitIsOver, Continue, InMillis
<1>10. CASE Expect
  BY <1>10, SMTT(60), ExpectGoes, Times, Typed, FoundByNow
<1>11. CASE ExpectTime
  BY <1>11, ExpectTimeGoes, Times, Typed
<1>12. CASE Draw
  BY <1>12, DrawGoes, Times, Typed
<1>13. CASE TimerExpires
  BY <1>13, Times, Typed DEF TimerExpires, TimerIrqCallback
<1>14. CASE RadioCallbackStarts
  BY <1>14, Times, Typed, FoundByNow DEF RadioCallbackStarts
<1>15. CASE RadioCallbackEnds
  BY <1>15, Times, Typed DEF RadioCallbackEnds
<1>16. CASE TimePasses
  BY <1>16, SMTT(60), AtSleep, AtSleepTwice, AtSleepLong, AtUntilHalf, AtUntilPast,
     AtUntilTimer, AtUntilRadio, Times, Typed, FoundByNow
     DEF TimePasses, Waiting, WaitIsOver, Less, InMillis
<1>17. CASE UNCHANGED testsVars
  BY <1>17, Times, Typed
<1> QED
  BY <1>1, <1>2, <1>3, <1>4, <1>5, <1>6, <1>7, <1>8, <1>9, <1>10, <1>11, <1>12,
     <1>13, <1>14, <1>15, <1>16, <1>17 DEF TestsNext, TestsMain, TestsClock

\* Every step preserves LowPowerTest.
LEMMA LowPowerTestKept ==
    ASSUME TestsInv, TestsNext \/ UNCHANGED testsVars
    PROVE  LowPowerTest'
<1> USE DEF TestsInv, testsVars, flags, hal, chip, Off, TooLong, LowPowerTest, Last,
            SleepTest, RadioOff, In, Faults
<1>1. CASE Boot
  BY <1>1, Times, Typed DEF Boot
<1>2. CASE RadioCall
  BY <1>2, SMTT(60), AtResetInit, AtReadVersion, AtSetup, AtSetPayload, AtSetRx,
     Failure, Times, Typed
     DEF RadioCall, RadioCalls, ResetInitRadio, SetRx, Continue, Report
<1>3. CASE ClearFlags
  BY <1>3, SMTT(60), AtClearRadio, AtClearTimer, Times, Typed DEF ClearFlags, Continue
<1>4. CASE ReadStartTime
  BY <1>4, SMTT(60), AtStart, Times, Typed DEF ReadStartTime, Continue
<1>5. CASE StartTimer
  BY <1>5, SMTT(60), AtStartTimer, Times, Typed, FoundByNow DEF StartTimer, Continue
<1>6. CASE StopTimer
  BY <1>6, SMTT(60), AtStopTimer, Times, Typed, FoundByNow DEF StopTimer, Continue
<1>7. CASE DisableModemIrq
  BY <1>7, SMTT(60), AtDisableIrq, Times, Typed DEF DisableModemIrq, Continue
<1>8. CASE EnableModemIrq
  BY <1>8, SMTT(60), AtEnableIrq, Times, Typed, FoundByNow
     DEF EnableModemIrq, TimerIrqCallback, Continue
<1>9. CASE EndWait
  BY <1>9, SMTT(60), AtSleep, AtSleepTwice, AtSleepLong, AtUntilHalf, AtUntilPast,
     AtUntilTimer, AtUntilRadio, Times, Typed, FoundByNow
     DEF EndWait, WaitIsOver, Continue, InMillis
<1>10. CASE Expect
  BY <1>10, SMTT(60), ExpectGoes, Times, Typed, FoundByNow
<1>11. CASE ExpectTime
  BY <1>11, ExpectTimeGoes, Times, Typed
<1>12. CASE Draw
  BY <1>12, DrawGoes, Times, Typed
<1>13. CASE TimerExpires
  BY <1>13, Times, Typed DEF TimerExpires, TimerIrqCallback
<1>14. CASE RadioCallbackStarts
  BY <1>14, Times, Typed, FoundByNow DEF RadioCallbackStarts
<1>15. CASE RadioCallbackEnds
  BY <1>15, Times, Typed DEF RadioCallbackEnds
<1>16. CASE TimePasses
  BY <1>16, SMTT(60), AtSleep, AtSleepTwice, AtSleepLong, AtUntilHalf, AtUntilPast,
     AtUntilTimer, AtUntilRadio, Times, Typed, FoundByNow
     DEF TimePasses, Waiting, WaitIsOver, Less, InMillis
<1>17. CASE UNCHANGED testsVars
  BY <1>17, Times, Typed
<1> QED
  BY <1>1, <1>2, <1>3, <1>4, <1>5, <1>6, <1>7, <1>8, <1>9, <1>10, <1>11, <1>12,
     <1>13, <1>14, <1>15, <1>16, <1>17 DEF TestsNext, TestsMain, TestsClock

\* The place of a test is where main() runs it, and no test runs twice.
LEMMA Places ==
    /\ \A f \in Faults \ { "none" } :
           Place[f] \in 1 .. 12 /\ FoundBy[f] \in Names /\ Tests[Place[f]] = FoundBy[f]
    /\ \A i, j \in 1 .. 12 : Tests[i] = Tests[j] => i = j
<1>1. ASSUME NEW f \in Faults \ { "none" }
      PROVE  Place[f] \in 1 .. 12 /\ FoundBy[f] \in Names /\ Tests[Place[f]] = FoundBy[f]
  BY Listed1, Listed2, Listed5, Listed6, Listed7, Listed12
     DEF Faults, Place, FoundBy, Names
<1>2. ASSUME NEW i \in 1 .. 12, NEW j \in 1 .. 12, Tests[i] = Tests[j] PROVE i = j
  BY <1>2, SMTT(60), Listed1, Listed2, Listed3, Listed4, Listed5, Listed6, Listed7,
     Listed8,
     Listed9, Listed10, Listed11, Listed12
<1> QED
  BY <1>1, <1>2

\* The test in which each fault is found.
LEMMA PlaceIs ==
    ASSUME NEW f \in Faults \ { "none" }
    PROVE  /\ Place[f] = 1 <=> f = "spi"
           /\ Place[f] = 2 <=> f = "radio_irq"
           /\ Place[f] = 5 <=> f \in TimerFaults
           /\ Place[f] = 6 <=> f = "stop_timer"
           /\ Place[f] = 7 <=> f \in { "disable_irq", "enable_irq" }
           /\ Place[f] = 12 <=> f = "timer_asleep"
           /\ Place[f] \in { 1, 2, 5, 6, 7, 12 }
  BY DEF Place, Faults, TimerFaults

\* A test passes, or fails.
Passes ==
    /\ step' = 1 /\ test' = test + 1
    /\ verdict' = [verdict EXCEPT ![Name] = "ok"]

Fails ==
    /\ step' = 1
    /\ test' = IF test \in {1, 2, 5} THEN 13 ELSE IF test = 3 THEN 5 ELSE test + 1
    /\ verdict' = [verdict EXCEPT ![Name] = "nok"]

\* What a test may say: it fails on its fault, it does not end the program for
\* another, and on a right port it fails by chance only.
Judges ==
    \/ Passes /\ (fault # "none" => Place[fault] # test)
    \/ /\ Fails
       /\ test \in {1, 2, 5} => fault # "none" /\ Place[fault] = test
       /\ fault = "none" => Name \in { "get_time_in_s", "get_time_in_ms", "random" }

LEMMA Judged ==
    ASSUME Verdicts, test \in 1 .. 12, fault \in Faults, fault' = fault, Judges
    PROVE  Verdicts'
<1>1. Name \in Names /\ DOMAIN Steps = Names
  BY AllNamed, HaveSteps DEF Name
<1>2. /\ verdict \in [Names -> { "none", "ok", "nok" }]
      /\ verdict' \in [Names -> { "none", "ok", "nok" }]
      /\ \A n \in Names : n # Name => verdict'[n] = verdict[n]
      /\ Passes => verdict'[Name] = "ok"
      /\ Fails => verdict'[Name] = "nok"
  BY <1>1 DEF Verdicts, Judges, Passes, Fails
<1>3. test' \in 1 .. 13
  BY DEF Judges, Passes, Fails
<1>4. fault # "none" => /\ Place[fault] \in 1 .. 12 /\ FoundBy[fault] \in Names
                        /\ Tests[Place[fault]] = FoundBy[fault]
                        /\ test # Place[fault] => Name # FoundBy[fault]
                        /\ test = Place[fault] => Name = FoundBy[fault]
  BY Places DEF Name
<1>5. fault # "none" /\ test' > Place[fault] => verdict'[FoundBy[fault]] = "nok"
  <2> SUFFICES ASSUME fault # "none", test' > Place[fault]
               PROVE  verdict'[FoundBy[fault]] = "nok"
    OBVIOUS
  <2>1. CASE test > Place[fault]
    BY <2>1, <1>2, <1>4 DEF Verdicts
  <2>2. CASE test = Place[fault]
    BY <2>2, <1>2, <1>4 DEF Judges
  <2>3. CASE test < Place[fault]
    <3>1. Place[fault] # 4
      BY DEF Place, Faults
    <3> QED
      BY <2>3, <3>1, <1>4 DEF Judges, Passes, Fails
  <2> QED
    BY <2>1, <2>2, <2>3, <1>4
<1>6. fault = "none" =>
          \A n \in Names : verdict'[n] = "nok" => n \in { "get_time_in_s", "get_time_in_ms", "random" }
  BY <1>1, <1>2 DEF Verdicts, Judges
<1>7. /\ fault = "spi" => test' = 13
      /\ fault = "radio_irq" => test' <= 2 \/ test' = 13
      /\ fault \in TimerFaults => test' <= 5 \/ test' = 13
  BY Twelve DEF Verdicts, Judges, Passes, Fails, Place, In, TimerFaults
<1> QED
  BY <1>1, <1>2, <1>3, <1>5, <1>6, <1>7, Twelve DEF Verdicts, TimerFaults, End

\* A verdict.
LEMMA ReportPasses ==
    ASSUME test \in 1 .. 12, NEW ok, Report(ok), ok
    PROVE  Passes
  BY DEF Report, Passes

LEMMA ReportFails ==
    ASSUME test \in 1 .. 12, NEW ok, Report(ok), ~ok
    PROVE  Fails
  BY Failure DEF Report, Fails

\* On what the tests give their verdicts.
LEMMA ExpectJudges ==
    ASSUME TestsInv, Expect
    PROVE  Judges \/ (In(7, 6, 6) /\ test' = 7 /\ step' = 7 /\ UNCHANGED verdict)
<1>0. TestsTypeOK /\ fault \in Faults
  BY Typed DEF TestsInv
<1>1. CASE At("pass") /\ Report(TRUE)
  <2>1. In(1, 3, 3) \/ In(9, 9, 9) \/ In(10, 11, 11)
    BY <1>0, <1>1, AtPass
  <2> QED
    BY <1>0, <1>1, <2>1, Failure, FoundByNow
       DEF Report, Judges, Passes, Fails, Place, Faults, In
<1>2. CASE At("expect_radio") /\ Report(radio_irq_raised)
  <2>1. In(2, 7, 7)
    BY <1>0, <1>2, AtExpectRadio
  <2>2. radio_irq_raised <=> fault # "radio_irq"
    BY <1>0, <2>1, Times, Typed, FoundByNow DEF TestsInv, RadioTest, RadioOff, In, Off
  <2>3. (radio_irq_raised /\ Passes) \/ (~(radio_irq_raised) /\ Fails)
    <3>1. test \in 1 .. 12
      BY <2>1 DEF In
    <3>2. CASE radio_irq_raised
      BY <1>2, <3>2, Zenon DEF Report, Passes
    <3>3. CASE ~radio_irq_raised
      BY <1>2, <3>1, <3>3, Failure, Zenon DEF Report, Fails
    <3> QED
      BY <3>2, <3>3
  <2> QED
    BY <1>0, <2>1, <2>2, <2>3, FoundByNow, PlaceIs DEF Judges, In, TimerFaults
<1>3. CASE At("expect_on_time") /\ Report(timer_irq_raised /\ OnTime(InMillis(irq_time)))
  <2>1. In(5, 6, 6) \/ In(12, 6, 6)
    BY <1>0, <1>3, AtExpectOnTime
  <2>0. \/ timer_irq_raised /\ OnTime(InMillis(irq_time)) /\ Passes
        \/ ~(timer_irq_raised /\ OnTime(InMillis(irq_time))) /\ Fails
    <3>1. test \in 1 .. 12
      BY <2>1 DEF In
    <3> QED
      BY <1>3, <3>1, ReportPasses, ReportFails, Zenon
  <2>2. CASE test = 5
    <3>1. timer_irq_raised /\ OnTime(InMillis(irq_time)) <=> fault \notin TimerFaults
      BY <1>0, <2>1, <2>2, Times, Typed, FoundByNow
         DEF TestsInv, TimerTest, TimerFaults, Expires, In, Off, TooLong, OnTime, InMillis
    <3> QED
      BY <1>0, <2>0, <2>2, <3>1, FoundByNow, PlaceIs DEF Judges, TimerFaults
  <2>3. CASE test = 12
    <3>1. /\ fault = "none" => timer_irq_raised /\ OnTime(InMillis(irq_time))
          /\ fault = "timer_asleep" => ~timer_irq_raised
      BY <1>0, <2>1, <2>3, Times, Typed
         DEF TestsInv, LowPowerTest, Last, In, Off, OnTime, InMillis
    <3> QED
      BY <1>0, <2>0, <2>3, <3>1, FoundByNow, PlaceIs DEF Judges, TimerFaults
  <2> QED
    BY <2>1, <2>2, <2>3 DEF In
<1>4. CASE At("expect_no_timer") /\ Report(~timer_irq_raised)
  <2>1. In(6, 8, 8)
    BY <1>0, <1>4, AtExpectNoTimer
  <2>2. ~timer_irq_raised <=> fault # "stop_timer"
    BY <1>0, <2>1, Times, Typed, FoundByNow DEF TestsInv, StopTest, In
  <2>3. (~timer_irq_raised /\ Passes) \/ (~(~timer_irq_raised) /\ Fails)
    <3>1. test \in 1 .. 12
      BY <2>1 DEF In
    <3> QED
      BY <1>4, <3>1, ReportPasses, ReportFails, Zenon
  <2> QED
    BY <1>0, <2>1, <2>2, <2>3, FoundByNow, PlaceIs DEF Judges, In, TimerFaults
<1>5. CASE At("expect_timer") /\ Report(timer_irq_raised)
  <2>1. In(7, 8, 8)
    BY <1>0, <1>5, AtExpectTimer
  <2>2. fault # "stop_timer" => fault # "disable_irq" /\ (timer_irq_raised <=> fault # "enable_irq")
    BY <1>0, <2>1 DEF TestsInv, GateTest, In
  <2>3. (timer_irq_raised /\ Passes) \/ (~(timer_irq_raised) /\ Fails)
    <3>1. test \in 1 .. 12
      BY <2>1 DEF In
    <3>2. CASE timer_irq_raised
      BY <1>5, <3>2, Zenon DEF Report, Passes
    <3>3. CASE ~timer_irq_raised
      BY <1>5, <3>1, <3>3, Failure, Zenon DEF Report, Fails
    <3> QED
      BY <3>2, <3>3
  <2> QED
    BY <1>0, <2>1, <2>2, <2>3, FoundByNow, PlaceIs DEF Judges, In, TimerFaults
<1>6. CASE At("expect_slept") /\ Report(TRUE)
  <2>1. In(11, 3, 3)
    BY <1>0, <1>6, AtExpectSlept
  <2> QED
    BY <1>0, <1>6, <2>1, Failure, FoundByNow
       DEF Report, Judges, Passes, Fails, Place, Faults, In
<1>7. CASE At("check_no_timer") /\ timer_irq_raised /\ Report(FALSE)
  <2>1. In(7, 6, 6)
    BY <1>0, <1>7, AtCheckNoTimer
  <2>2. fault # "stop_timer" => fault = "disable_irq"
    BY <1>0, <1>7, <2>1 DEF TestsInv, GateTest, In
  <2>3. Fails
    BY <1>0, <1>7, <2>1, Failure DEF Report, Fails, In
  <2> QED
    BY <1>0, <2>1, <2>2, <2>3, FoundByNow, PlaceIs DEF Judges, In, TimerFaults
<1>8. CASE At("check_no_timer") /\ ~timer_irq_raised /\ Continue
  BY <1>0, <1>8, AtCheckNoTimer DEF In, Continue
<1> QED
  BY <1>1, <1>2, <1>3, <1>4, <1>5, <1>6, <1>7, <1>8, Zenon DEF Expect

\* The time tests and the draw of random numbers may fail by chance.
LEMMA ExpectTimeJudges ==
    ASSUME TestsInv, ExpectTime
    PROVE  Judges \/ (test' = test /\ test \in 3 .. 4 /\ UNCHANGED verdict)
<1>1. /\ TestsTypeOK /\ fault \in Faults /\ (In(3, 7, 7) \/ In(4, 7, 7))
      /\ fault = "none" \/ Place[fault] \notin {3, 4}
  BY Typed, ExpectTimeGoes DEF TestsInv, Place, Faults
<1>2. Name \in { "get_time_in_s", "get_time_in_ms" }
  BY <1>1, Listed3, Listed4 DEF Name, In
<1>3. (step' = 1 /\ UNCHANGED << test, verdict >>) \/ Passes \/ Fails
  BY <1>1, Failure DEF ExpectTime, Report, Passes, Fails, In
<1> QED
  BY <1>1, <1>2, <1>3, PlaceIs DEF Judges, In

LEMMA DrawJudges ==
    ASSUME TestsInv, Draw
    PROVE  Judges
<1>1. TestsTypeOK /\ fault \in Faults /\ In(8, 1, 1) /\ (fault = "none" \/ Place[fault] # 8)
  BY Typed, DrawGoes DEF TestsInv, Place, Faults
<1>2. Name = "random"
  BY <1>1, Listed8 DEF Name, In
<1>3. PICK ok : Report(ok)
  BY Zenon DEF Draw
<1>4. test \in 1 .. 12
  BY <1>1 DEF In
<1>5. Passes \/ Fails
  <2>1. CASE ok
    BY <1>3, <2>1, Zenon DEF Report, Passes
  <2>2. CASE ~ok
    BY <1>3, <1>4, <2>2, Failure, Zenon DEF Report, Fails
  <2> QED
    BY <2>1, <2>2
<1> QED
  BY <1>1, <1>2, <1>5, PlaceIs DEF Judges, In

\* A command to the radio fails on a port with a wrong SPI only.
LEMMA RadioCallJudges ==
    ASSUME TestsInv, RadioCall
    PROVE  /\ test \in 1 .. 12 /\ fault \in Faults /\ fault' = fault
           /\ Judges \/ (fault # "spi" /\ UNCHANGED << test, verdict >>)
<1>1. TestsTypeOK /\ fault \in Faults /\ fault' = fault
  BY Typed DEF TestsInv, RadioCall
<1>2. test \in 1 .. 12
  BY <1>1, Twelve DEF RadioCall, At
<1>3. CASE fault = "spi"
  <2>1. Report(FALSE)
    BY <1>3, Zenon DEF RadioCall
  <2>2. Fails
    BY <1>2, <2>1, ReportFails, Zenon
  <2>3. In(1, 1, 1)
    BY <1>2, <1>3, FoundByNow
  <2> QED
    BY <1>1, <1>2, <1>3, <2>2, <2>3, PlaceIs DEF Judges, In
<1>4. CASE fault # "spi"
  <2>1. Continue
    BY <1>4, Zenon DEF RadioCall
  <2> QED
    BY <1>1, <1>2, <1>4, <2>1 DEF Continue
<1> QED
  BY <1>3, <1>4

\* Every step preserves Verdicts.
LEMMA VerdictsKept == ASSUME TestsInv, TestsNext \/ UNCHANGED testsVars PROVE Verdicts'
<1> USE DEF TestsInv, testsVars, flags, hal, chip, Off, TooLong, Verdicts, TimerFaults,
            In, Faults
<1>1. CASE Boot
  <2>1. /\ fault = "none" /\ fault' \in Faults /\ test = 0 /\ test' = 1
        /\ step' = 1 /\ verdict' = verdict
    BY <1>1 DEF Boot, Verdicts
  <2> QED
    BY <2>1, PlaceIs, Twelve DEF Verdicts, TimerFaults, In, Faults, Names
<1>2. CASE RadioCall
  BY <1>2, RadioCallJudges, Judged, Twelve DEF Verdicts, TimerFaults, In
<1>3. CASE ClearFlags
  BY <1>3, AtClearRadio, AtClearTimer, Times, Typed DEF ClearFlags, Continue
<1>4. CASE ReadStartTime
  BY <1>4, SMTT(60), AtStart, Times, Typed DEF ReadStartTime, Continue
<1>5. CASE StartTimer
  BY <1>5, SMTT(60), AtStartTimer, Times, Typed, FoundByNow DEF StartTimer, Continue
<1>6. CASE StopTimer
  BY <1>6, SMTT(60), AtStopTimer, Times, Typed, FoundByNow DEF StopTimer, Continue
<1>7. CASE DisableModemIrq
  BY <1>7, AtDisableIrq, Times, Typed DEF DisableModemIrq, Continue
<1>8. CASE EnableModemIrq
  BY <1>8, AtEnableIrq, Times, Typed, FoundByNow
     DEF EnableModemIrq, TimerIrqCallback, Continue
<1>9. CASE EndWait
  BY <1>9, SMTT(60), AtSleep, AtSleepTwice, AtSleepLong, AtUntilHalf, AtUntilPast,
     AtUntilTimer, AtUntilRadio, Times, Typed, FoundByNow
     DEF EndWait, WaitIsOver, Continue, InMillis
<1>10. CASE Expect
  <2>1. fault' = fault /\ test \in 1 .. 12 /\ fault \in Faults
    BY <1>10, ExpectGoes, Typed DEF In
  <2> QED
    BY <1>10, <2>1, ExpectJudges, Judged, FoundByNow DEF Verdicts, TimerFaults, In
<1>11. CASE ExpectTime
  <2>1. fault' = fault /\ test \in 3 .. 4 /\ fault \in Faults
    BY <1>11, ExpectTimeGoes, Typed DEF In
  <2> QED
    BY <1>11, <2>1, ExpectTimeJudges, Judged, FoundByNow DEF Verdicts, TimerFaults, In
<1>12. CASE Draw
  <2>1. fault' = fault /\ test = 8 /\ fault \in Faults
    BY <1>12, DrawGoes, Typed DEF In
  <2> QED
    BY <1>12, <2>1, DrawJudges, Judged
<1>13. CASE TimerExpires
  BY <1>13, Times, Typed DEF TimerExpires, TimerIrqCallback
<1>14. CASE RadioCallbackStarts
  BY <1>14, Times, Typed, FoundByNow DEF RadioCallbackStarts
<1>15. CASE RadioCallbackEnds
  BY <1>15, Times, Typed DEF RadioCallbackEnds
<1>16. CASE TimePasses
  BY <1>16, SMTT(60), AtSleep, AtSleepTwice, AtSleepLong, AtUntilHalf, AtUntilPast,
     AtUntilTimer, AtUntilRadio, Times, Typed, FoundByNow
     DEF TimePasses, Waiting, WaitIsOver, Less, InMillis
<1>17. CASE UNCHANGED testsVars
  BY <1>17, Times, Typed
<1> QED
  BY <1>1, <1>2, <1>3, <1>4, <1>5, <1>6, <1>7, <1>8, <1>9, <1>10, <1>11, <1>12,
     <1>13, <1>14, <1>15, <1>16, <1>17 DEF TestsNext, TestsMain, TestsClock

\* Every step stays in the lists of the tests.
LEMMA BoundKept ==
    ASSUME TestsInv, TestsNext \/ UNCHANGED testsVars
    PROVE  test' \in 0 .. 13 /\ (test' \in 1 .. 12 => Bound(test', step'))
<1> USE DEF TestsInv, testsVars, flags, hal, chip, Off, TooLong, Bound, In
<1>1. CASE Boot
  BY <1>1, Typed DEF Boot, Verdicts
<1>2. CASE RadioCall
  BY <1>2, SMTT(60), AtResetInit, AtReadVersion, AtSetup, AtSetPayload, AtSetRx,
     Failure, Typed, InBounds, Twelve
     DEF RadioCall, RadioCalls, ResetInitRadio, SetRx, Continue, Report
<1>3. CASE ClearFlags
  BY <1>3, AtClearRadio, AtClearTimer, Typed, InBounds, Twelve DEF ClearFlags, Continue
<1>4. CASE ReadStartTime
  BY <1>4, SMTT(60), AtStart, Typed, InBounds, Twelve DEF ReadStartTime, Continue
<1>5. CASE StartTimer
  BY <1>5, SMTT(60), AtStartTimer, Typed, InBounds, Twelve, FoundByNow
     DEF StartTimer, Continue
<1>6. CASE StopTimer
  BY <1>6, SMTT(60), AtStopTimer, Typed, InBounds, Twelve, FoundByNow
     DEF StopTimer, Continue
<1>7. CASE DisableModemIrq
  BY <1>7, AtDisableIrq, Typed, InBounds, Twelve DEF DisableModemIrq, Continue
<1>8. CASE EnableModemIrq
  BY <1>8, AtEnableIrq, Typed, InBounds, Twelve, FoundByNow
     DEF EnableModemIrq, TimerIrqCallback, Continue
<1>9. CASE EndWait
  BY <1>9, SMTT(60), AtSleep, AtSleepTwice, AtSleepLong, AtUntilHalf, AtUntilPast,
     AtUntilTimer, AtUntilRadio, Typed, InBounds, Twelve, FoundByNow
     DEF EndWait, WaitIsOver, Continue, InMillis
<1>10. CASE Expect
  BY <1>10, SMTT(60), ExpectGoes, Typed, InBounds, Twelve, FoundByNow
<1>11. CASE ExpectTime
  BY <1>11, ExpectTimeGoes, Typed, InBounds, Twelve
<1>12. CASE Draw
  BY <1>12, DrawGoes, Typed, InBounds, Twelve
<1>13. CASE TimerExpires
  BY <1>13, Typed, InBounds, Twelve DEF TimerExpires, TimerIrqCallback
<1>14. CASE RadioCallbackStarts
  BY <1>14, Typed, InBounds, Twelve, FoundByNow DEF RadioCallbackStarts
<1>15. CASE RadioCallbackEnds
  BY <1>15, Typed, InBounds, Twelve DEF RadioCallbackEnds
<1>16. CASE TimePasses
  BY <1>16, SMTT(60), AtSleep, AtSleepTwice, AtSleepLong, AtUntilHalf, AtUntilPast,
     AtUntilTimer, AtUntilRadio, Typed, InBounds, Twelve, FoundByNow
     DEF TimePasses, Waiting, WaitIsOver, Less, InMillis
<1>17. CASE UNCHANGED testsVars
  BY <1>17, Typed, InBounds, Twelve
<1> QED
  BY <1>1, <1>2, <1>3, <1>4, <1>5, <1>6, <1>7, <1>8, <1>9, <1>10, <1>11, <1>12,
     <1>13, <1>14, <1>15, <1>16, <1>17 DEF TestsNext, TestsMain, TestsClock

\* Every step keeps the numbers in their ranges.
LEMMA NumbersKept == ASSUME TestsInv, TestsNext \/ UNCHANGED testsVars PROVE 
    /\ fault' \in Faults
    /\ irq_time' \in 0 .. 2 * T + 1 /\ since' \in 0 .. 2 * T + 1
    /\ timer' \in -1 .. T + Margin + 1 /\ radio' \in -1 .. T + Margin + 1
    /\ chip_irq' \in { "none", "timeout", "other" }
<1> USE DEF TestsInv, testsVars, flags, hal, chip, Off, TooLong, TestsTypeOK, Faults
<1>1. CASE Boot
  BY <1>1, Times, Typed DEF Boot
<1>2. CASE RadioCall
  BY <1>2, SMTT(60), AtResetInit, AtReadVersion, AtSetup, AtSetPayload, AtSetRx,
     Failure, Times, Typed
     DEF RadioCall, RadioCalls, ResetInitRadio, SetRx, Continue, Report
<1>3. CASE ClearFlags
  BY <1>3, AtClearRadio, AtClearTimer, Times, Typed DEF ClearFlags, Continue
<1>4. CASE ReadStartTime
  BY <1>4, SMTT(60), AtStart, Times, Typed DEF ReadStartTime, Continue
<1>5. CASE StartTimer
  BY <1>5, SMTT(60), AtStartTimer, Times, Typed, FoundByNow DEF StartTimer, Continue
<1>6. CASE StopTimer
  BY <1>6, SMTT(60), AtStopTimer, Times, Typed, FoundByNow DEF StopTimer, Continue
<1>7. CASE DisableModemIrq
  BY <1>7, AtDisableIrq, Times, Typed DEF DisableModemIrq, Continue
<1>8. CASE EnableModemIrq
  BY <1>8, AtEnableIrq, Times, Typed, FoundByNow
     DEF EnableModemIrq, TimerIrqCallback, Continue
<1>9. CASE EndWait
  BY <1>9, SMTT(60), AtSleep, AtSleepTwice, AtSleepLong, AtUntilHalf, AtUntilPast,
     AtUntilTimer, AtUntilRadio, Times, Typed, FoundByNow
     DEF EndWait, WaitIsOver, Continue, InMillis
<1>10. CASE Expect
  BY <1>10, SMTT(60), ExpectGoes, Times, Typed, FoundByNow
<1>11. CASE ExpectTime
  BY <1>11, ExpectTimeGoes, Times, Typed
<1>12. CASE Draw
  BY <1>12, DrawGoes, Times, Typed
<1>13. CASE TimerExpires
  BY <1>13, Times, Typed DEF TimerExpires, TimerIrqCallback
<1>14. CASE RadioCallbackStarts
  BY <1>14, Times, Typed, FoundByNow DEF RadioCallbackStarts
<1>15. CASE RadioCallbackEnds
  BY <1>15, Times, Typed DEF RadioCallbackEnds
<1>16. CASE TimePasses
  BY <1>16, SMTT(60), AtSleep, AtSleepTwice, AtSleepLong, AtUntilHalf, AtUntilPast,
     AtUntilTimer, AtUntilRadio, Times, Typed, FoundByNow
     DEF TimePasses, Waiting, WaitIsOver, Less, InMillis
<1>17. CASE UNCHANGED testsVars
  BY <1>17, Times, Typed
<1> QED
  BY <1>1, <1>2, <1>3, <1>4, <1>5, <1>6, <1>7, <1>8, <1>9, <1>10, <1>11, <1>12,
     <1>13, <1>14, <1>15, <1>16, <1>17 DEF TestsNext, TestsMain, TestsClock

\* The flags.
Flags ==
    /\ radio_irq_raised \in BOOLEAN /\ irq_rx_timeout_raised \in BOOLEAN
    /\ timer_irq_raised \in BOOLEAN /\ held \in BOOLEAN
    /\ irq_enabled \in BOOLEAN /\ callback \in BOOLEAN

\* Every step keeps the flags Boolean.
LEMMA FlagsKept == ASSUME TestsInv, TestsNext \/ UNCHANGED testsVars PROVE Flags'
<1> USE DEF TestsInv, testsVars, flags, hal, chip, TestsTypeOK, Flags
<1>1. CASE Boot
  BY <1>1, Zenon DEF Boot
<1>2. CASE RadioCall
  BY <1>2, Zenon DEF RadioCall, RadioCalls, ResetInitRadio, SetRx, Continue, Report
<1>3. CASE ClearFlags
  BY <1>3, Zenon DEF ClearFlags, Continue
<1>4. CASE ReadStartTime
  BY <1>4, Zenon DEF ReadStartTime, Continue
<1>5. CASE StartTimer
  BY <1>5, Zenon DEF StartTimer, Continue
<1>6. CASE StopTimer
  BY <1>6, Zenon DEF StopTimer, Continue
<1>7. CASE DisableModemIrq
  BY <1>7, Zenon DEF DisableModemIrq, Continue
<1>8. CASE EnableModemIrq
  BY <1>8, Zenon DEF EnableModemIrq, TimerIrqCallback, Continue
<1>9. CASE EndWait
  BY <1>9, Zenon DEF EndWait, WaitIsOver, Continue, InMillis
<1>10. CASE Expect
  BY <1>10, ExpectGoes, Zenon
<1>11. CASE ExpectTime
  BY <1>11, ExpectTimeGoes, Zenon
<1>12. CASE Draw
  BY <1>12, DrawGoes, Zenon
<1>13. CASE TimerExpires
  BY <1>13, Zenon DEF TimerExpires, TimerIrqCallback
<1>14. CASE RadioCallbackStarts
  BY <1>14, Zenon DEF RadioCallbackStarts
<1>15. CASE RadioCallbackEnds
  BY <1>15, Zenon DEF RadioCallbackEnds
<1>16. CASE TimePasses
  BY <1>16, Zenon DEF TimePasses, Waiting, WaitIsOver, Less, InMillis
<1>17. CASE UNCHANGED testsVars
  BY <1>17, Zenon
<1> QED
  BY <1>1, <1>2, <1>3, <1>4, <1>5, <1>6, <1>7, <1>8, <1>9, <1>10, <1>11, <1>12,
     <1>13, <1>14, <1>15, <1>16, <1>17 DEF TestsNext, TestsMain, TestsClock

\* Every step preserves TestsTypeOK.
LEMMA TestsTypeKept ==
    ASSUME TestsInv, TestsNext \/ UNCHANGED testsVars
    PROVE  TestsTypeOK'
<1>1. fault' \in Faults /\ chip_irq' \in { "none", "timeout", "other" }
  BY NumbersKept
<1>2. test' \in 0 .. End /\ (Running' => step' \in 1 .. Len(Steps[Name]'))
  <2>1. test' \in 0 .. End /\ (Running' <=> test' \in 1 .. 12)
    BY BoundKept, Twelve DEF Running, Tests, End
  <2>2. Steps[Name]' = Steps[Tests[test']]
    BY DEF Name, Steps, Tests
  <2> QED
    BY <2>1, <2>2, BoundKept, Bounds
<1>3. \A n \in DOMAIN verdict' : verdict'[n] \in { "none", "ok", "nok" }
  BY VerdictsKept DEF Verdicts
<1>4. { radio_irq_raised, irq_rx_timeout_raised, timer_irq_raised, held, irq_enabled,
        callback }' \subseteq BOOLEAN
  BY FlagsKept, Zenon DEF Flags
<1>5. { irq_time, since }' \subseteq 0 .. 2 * T + 1 /\ { timer, radio }' \subseteq Off .. TooLong
  BY NumbersKept, Times DEF Off, TooLong
<1> QED
  BY <1>1, <1>2, <1>3, <1>4, <1>5, Zenon DEF TestsTypeOK

\* It holds at the start.
LEMMA TestsStart == TestsInit => TestsInv
<1> SUFFICES ASSUME TestsInit PROVE TestsInv
  OBVIOUS
<1>1. /\ fault = "none" /\ test = 0 /\ step = 1 /\ radio = -1 /\ timer = -1
      /\ ~radio_irq_raised /\ irq_enabled
      /\ verdict = [n \in Names |-> "none"]
  BY HaveSteps DEF TestsInit, Off
<1>2. TestsTypeOK
  <2>1. { radio_irq_raised, irq_rx_timeout_raised, timer_irq_raised, held, irq_enabled,
          callback } \subseteq BOOLEAN
    BY Zenon DEF TestsInit
  <2>2. { irq_time, since } \subseteq 0 .. 2 * T + 1 /\ { timer, radio } \subseteq Off .. TooLong
    BY Times DEF TestsInit, Off, TooLong
  <2>3. fault \in Faults /\ test \in 0 .. End /\ ~Running /\ chip_irq \in { "none", "timeout", "other" }
    BY <1>1, Twelve DEF TestsInit, Faults
  <2> QED
    BY <1>1, <2>1, <2>2, <2>3 DEF TestsTypeOK
<1>3. RadioOff /\ RadioTest /\ NoTimerYet /\ TimerTest /\ StopTest /\ GateTest
  BY <1>1 DEF RadioOff, RadioTest, NoTimerYet, TimerTest, StopTest, GateTest, In, Off
<1>4. SleepTest /\ LowPowerTest
  BY <1>1 DEF SleepTest, LowPowerTest, In, Off
<1>5. Verdicts
  BY <1>1, HaveSteps DEF Verdicts, TimerFaults
<1> QED
  BY <1>2, <1>3, <1>4, <1>5 DEF TestsInv

\* The porting tests' part of Standalone keeps its invariant.
THEOREM TestsInductive == Spec => []TestsInv
<1>1. Init => TestsInv
  BY TestsStart DEF Init
<1>2. TestsInv /\ [Next]_vars => TestsInv'
  <2> SUFFICES ASSUME TestsInv, TestsNext \/ UNCHANGED testsVars PROVE TestsInv'
    BY DEF Next, SampleStep, Sampling, TestsStep, vars
  <2> QED
    BY TestsTypeKept, RadioOffKept, RadioTestKept, NoTimerYetKept, TimerTestKept,
       StopTestKept,
       GateTestKept, SleepTestKept, LowPowerTestKept, VerdictsKept DEF TestsInv
<1> QED
  BY <1>1, <1>2, PTL DEF Spec

\* The tests tell a right port from a wrong one, for every duration of the
\* timers and every delay of an interrupt less than half of it
\* (main of the porting tests).
THEOREM TellsRightFromWrong == Spec => []VerdictsRight
<1>1. TestsInv => VerdictsRight
  <2> SUFFICES ASSUME TestsInv, test = 13 PROVE VerdictsRight
    BY Twelve DEF VerdictsRight
  <2> QED
    BY Typed, PlaceIs DEF TestsInv, Verdicts, VerdictsRight
<1> QED
  BY <1>1, TestsInductive, PTL

\* One of the two programs was built.
Built == image \in { "sample", "porting_tests" }

\* Every variable of the two programs keeps its type.
THEOREM TypeCorrect == Spec => []TypeOK
<1>1. Init => Built
  BY DEF Init, Built
<1>2. Built /\ [Next]_vars => Built'
  BY DEF Next, SampleStep, Sampling, TestsStep, Testing, vars, Built
<1>3. Spec => []Built
  BY <1>1, <1>2, PTL DEF Spec
<1>4. Built /\ LoopInv /\ TestsInv => TypeOK
  BY DEF TypeOK, LoopInv, TestsInv, Built
<1> QED
  BY <1>3, <1>4, LoopInductive, TestsInductive, PTL
=============================================================================
