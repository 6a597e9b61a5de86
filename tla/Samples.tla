------------------------------- MODULE Samples -------------------------------
(* The samples whose main thread waits on a binary semaphore, one record per *)
(* sample. They share one skeleton (SampleLoop.tla): configure the button,   *)
(* initialise the platform and the application, then loop: serve a press,    *)
(* run the engine or leave it to the USP thread, sleep. A record says what   *)
(* its sample puts into the skeleton:                                        *)
(*   builds   the values of CONFIG_USP_MAIN_THREAD its loop is written for   *)
(*   init     the calls between configuring the button and the loop          *)
(*   press    the calls that serve a press                                   *)
(*   round    the calls made in every round, press or none                   *)
(*   signed   the debounce compares the elapsed time as an int32_t           *)
(*   bounces  a press the debounce refuses wakes the main thread as well     *)
EXTENDS Sequences

BothBuilds   == BOOLEAN
OwnEngine    == { FALSE }          \* always runs the engine in its own loop

Skeleton(builds, init, press) ==
    [builds |-> builds, init |-> init, press |-> press, round |-> << >>, signed |-> TRUE, bounces |-> TRUE]

Rac(init)    == << "SMTC_SW_PLATFORM_INIT", "smtc_rac_init" >> \o init

PingPong     == Skeleton(BothBuilds, Rac(<< "ping_pong_init", "periodic_uplink_init" >>),
                         << "ping_pong_on_button_press", "periodic_uplink_on_button_press" >>)
PerLora      == Skeleton(BothBuilds, Rac(<< "per_init" >>), << "per_on_button_press" >>)
PerFsk       == Skeleton(BothBuilds, Rac(<< "per_fsk_init" >>), << "per_fsk_on_button_press" >>)
PerFlrc      == Skeleton(BothBuilds, Rac(<< "per_flrc_init" >>), << "per_flrc_on_button_press" >>)
TxCw         == Skeleton(BothBuilds, Rac(<< "tx_cw_init" >>), << "tx_cw_on_button_press" >>)
Cad          == Skeleton(BothBuilds, Rac(<< "cad_init" >>), << "cad_on_button_press" >>)
DirectDriver == Skeleton(BothBuilds, Rac(<< "direct_driver_access_init" >>),
                         << "direct_driver_access_on_button_press" >>)
ImmediateRadio ==
    Skeleton(BothBuilds, Rac(<< "immediate_radio_access_init" >>), << "immediate_radio_access_on_button_press" >>)

SpectralScan ==
    Skeleton(OwnEngine, << "lorawan_smtc_modem_hal_init", "smtc_rac_init", "spectral_scan_init" >>,
             << "spectral_scan_start_cycle" >>)
RfCertification ==
    Skeleton(OwnEngine, << "lorawan_smtc_modem_hal_init", "smtc_rac_init", "rf_certification_init" >>,
             << "rf_certification_on_button_press" >>)

\* A round that lrfhss_example_process() fails ends the program.
LrFhss == [Skeleton(BothBuilds, Rac(<< "lrfhss_example_init" >>), << "lrfhss_example_start_cycle" >>)
             EXCEPT !.round = << "lrfhss_example_process" >>]

\* The press only sends when the device has joined, and then wakes the modem.
PeriodicalUplink ==
    Skeleton(BothBuilds, Rac(<< "smtc_modem_init" >>),
             << "smtc_modem_get_status", "send_uplink_counter_on_port", "smtc_modem_hal_wake_up" >>)

\* A press starts or stops the demodulation of the almanac.
Geolocation == Skeleton(BothBuilds, Rac(<< "smtc_modem_init" >>), << "smtc_modem_almanac_demodulation" >>)

\* The initiator sends by itself in a round without a press; a bounce wakes nobody.
FlrpApi ==
    [Skeleton(BothBuilds, Rac(<< "flrp_api_init" >>), << "flrp_api_initiate_transfer" >>)
       EXCEPT !.signed = FALSE, !.bounces = FALSE]

\* A manager exchanges on a press (and at once with CONTINUOUS_RANGING), a
\* subordinate starts to listen at once; the periodic uplink is an option.
RangingDemo(is_manager, continuous, periodic) ==
    Skeleton(BothBuilds,
             Rac(<< "app_radio_ranging_params_init", "app_radio_ranging_set_user_callback" >>
                 \o (IF ~is_manager \/ continuous THEN << "start_ranging_exchange" >> ELSE << >>)
                 \o (IF periodic THEN << "smtc_rac_open_radio", "periodic_tx_handle_start" >> ELSE << >>)),
             << "start_ranging_exchange" >>)

AllSamples ==
    { PingPong, PerLora, PerFsk, PerFlrc, TxCw, Cad, DirectDriver, ImmediateRadio, SpectralScan,
      RfCertification, LrFhss, PeriodicalUplink, Geolocation, FlrpApi }
      \cup { RangingDemo(m, c, p) : m \in BOOLEAN, c \in BOOLEAN, p \in BOOLEAN }
==============================================================================
