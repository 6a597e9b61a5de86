------------------------- MODULE LorawanAppsProofs -------------------------
(***************************************************************************)
(* Proofs about LorawanApps, for any of its samples, any events the modem  *)
(* may raise under them, any ranging priorities and any options: what the  *)
(* callbacks keep going is kept going, the main loop serves no request     *)
(* twice, and the FLRP library never starts to send a buffer that was not  *)
(* filled for it.                                                          *)
(***************************************************************************)
EXTENDS LorawanApps, TLAPS

-----------------------------------------------------------------------------
(* The inductive invariant.                                                *)

\* The callback that sets the alarm itself has set it when it is done.
AlarmServed ==
    image \in OwnCallback \ { "wifi_region_detection" } /\ joined = "yes" /\ ~certif_running =>
        alarm \/ "ALARM" \in pending \/ "JOINED" \in pending

\* A press of the button is served by the sample that has it: the state that
\* was decided is the one the service is brought to, and the certification
\* sample serves no event meanwhile.
PressServed ==
    /\ press \in { "decided", "stopping", "starting" } => image = "geolocation"
    /\ press = "starting" => ads_state = "STARTED"
    /\ press = "stopping" => ads_state = "STOPPED"
    /\ press = "leaving" => image = "lctt_certif" /\ ~certif_mode
    /\ image = "lctt_certif" /\ handler # "idle" => press = "idle"

ServicesInv == AlarmServed /\ PressServed /\ ServicesKept

\* Between two rounds nothing is left to serve, and a bit that is still set
\* after it was served is one the loop is about to clear.
LoopServed ==
    /\ loop = "wait" => todo = { } /\ snapshot = { }
    /\ ServedOnce
    /\ events \ unserved \subseteq snapshot \ todo

\* A command belongs to the sample that has it, with the arguments it was given.
ShellOf ==
    /\ shell[1] \in { "mode", "priority", "set_mode" } => Multi
    /\ shell[1] \in { "device_eui", "options", "tx", "rx", "per" } => FlrpImage
    /\ shell[1] = "mode" => shell[2] \in BOOLEAN /\ shell[3] \in Priorities
    /\ shell[1] = "priority" => shell[2] \in Priorities
    /\ shell[1] = "options" => shell[2] \in Options

\* What is set belongs to its sample, and FLRP is then initialised.
SettingsOf ==
    /\ is_mode_set => Multi
    /\ is_device_eui_set => FlrpImage /\ lib.init

\* The buffer waits for its transmission filled, or the library is busy, and
\* will fill it again before it is free.
BufferOf ==
    /\ sending => FlrpImage
    /\ lib.busy # "no" => lib.init
    /\ sending \/ shell[1] = "tx" => data_flrp = "filled" \/ lib.busy # "no"

IInv ==
    /\ TypeOK /\ ServicesInv /\ LoopServed
    /\ ShellOf /\ SettingsOf /\ BufferOf

-----------------------------------------------------------------------------
(* What the callbacks keep going.                                          *)

\* A step that leaves the modem and its callback alone, but for an uplink.
Quiet == UNCHANGED << image, joined, alarm, scan, queue, services >>

\* The steps as the callbacks see them.
ServiceStep ==
    \/ AlarmExpires \/ JoinEnds \/ NetworkEvent \/ ScanEnds
    \/ UplinkSent \/ CallCallback \/ ReadEvent
    \/ ButtonToggles \/ StartDecided \/ ToggleService \/ StoreMode \/ LeaveAndJoin
    \/ Hook \/ ModemReboot \/ HandleDownlink \/ Quiet

\* A joined device keeps its alarm running, or is about to start it.
LEMMA AlarmsGoOn ==
    ASSUME ModemTypeOK, ServicesInv, ServiceStep
    PROVE  AlarmKept' /\ AlarmServed'
<1> USE DEF ServicesInv, ServicesKept, network, queue, services, AlarmKept, AlarmServed,
            Being, Hooked, OwnCallback
<1>1. CASE AlarmExpires
  BY <1>1 DEF AlarmExpires, Raise
<1>2. CASE JoinEnds
  BY <1>2 DEF JoinEnds, Raise
<1>3. CASE NetworkEvent
  BY <1>3 DEF NetworkEvent, Raise
<1>4. CASE ScanEnds
  BY <1>4 DEF ScanEnds, Raise
<1>5. CASE UplinkSent
  BY <1>5 DEF UplinkSent
<1>6. CASE CallCallback
  BY <1>6 DEF CallCallback
<1>7. CASE ReadEvent
  <2>1. PICK e \in pending : /\ event' = e /\ pending' = pending \ { e }
                            /\ \/ image \in Hooked /\ HelperSwitch(e)
                               \/ image = "geolocation" /\ GeolocationSwitch(e)
                               \/ image = "wifi_region_detection" /\ WifiRegionSwitch(e)
                               \/ image = "lctt_certif" /\ CertifSwitch(e)
    BY <1>7 DEF ReadEvent
  <2>2. image' = image /\ handler # "hook"
    BY <1>7 DEF ReadEvent
  <2>3. CASE image \in Hooked /\ HelperSwitch(e)
    BY <2>1, <2>2, <2>3 DEF HelperSwitch, NetworkSilent
  <2>4. CASE image = "geolocation" /\ GeolocationSwitch(e)
    BY <2>1, <2>2, <2>4 DEF GeolocationSwitch
  <2>5. CASE image = "wifi_region_detection" /\ WifiRegionSwitch(e)
    BY <2>1, <2>2, <2>5 DEF WifiRegionSwitch
  <2>6. CASE image = "lctt_certif" /\ CertifSwitch(e)
    BY <2>1, <2>2, <2>6 DEF CertifSwitch
  <2> QED
    BY <2>1, <2>3, <2>4, <2>5, <2>6
<1>8. CASE ButtonToggles
  BY <1>8 DEF ButtonToggles, WantsStop
<1>9. CASE StartDecided
  BY <1>9 DEF StartDecided
<1>10. CASE ToggleService
  BY <1>10 DEF ToggleService
<1>11. CASE StoreMode
  BY <1>11 DEF StoreMode
<1>12. CASE LeaveAndJoin
  BY <1>12 DEF LeaveAndJoin
<1>13. CASE Hook
  BY <1>13 DEF Hook, PeriodicHook, KeepAliveHook, NextEvent
<1>14. CASE ModemReboot
  BY <1>14 DEF ModemReboot, Reset
<1>15. CASE HandleDownlink
  BY <1>15
     DEF HandleDownlink, FlrpDownlink, FlrpImage, RemoteIgnored, RemoteReset,
         RemoteInit, RemoteTransfer, RemoteListening, NextEvent
<1>16. CASE Quiet
  BY <1>16 DEF Quiet
<1> QED
  BY <1>1, <1>2, <1>3, <1>4, <1>5, <1>6, <1>7, <1>8, <1>9, <1>10, <1>11, <1>12,
     <1>13, <1>14, <1>15, <1>16 DEF ServiceStep

\* The scans of the geolocation sample go on.
LEMMA ScansGoOn == ASSUME ModemTypeOK, ServicesInv, ServiceStep PROVE ScansKept'
<1> USE DEF ServicesInv, ServicesKept, network, queue, services, ScansKept, PressServed,
            Hooked, OwnCallback, ModemTypeOK
<1>1. CASE AlarmExpires
  BY <1>1 DEF AlarmExpires, Raise
<1>2. CASE JoinEnds
  BY <1>2 DEF JoinEnds, Raise
<1>3. CASE NetworkEvent
  BY <1>3 DEF NetworkEvent, Raise
<1>4. CASE ScanEnds
  BY <1>4 DEF ScanEnds, Raise
<1>5. CASE UplinkSent
  BY <1>5 DEF UplinkSent
<1>6. CASE CallCallback
  BY <1>6 DEF CallCallback
<1>7. CASE ReadEvent
  BY <1>7
     DEF ReadEvent, HelperSwitch, NetworkSilent, GeolocationSwitch, WifiRegionSwitch,
         CertifSwitch
<1>8. CASE ButtonToggles
  BY <1>8 DEF ButtonToggles, WantsStop
<1>9. CASE StartDecided
  BY <1>9 DEF StartDecided
<1>10. CASE ToggleService
  BY <1>10 DEF ToggleService
<1>11. CASE StoreMode
  BY <1>11 DEF StoreMode
<1>12. CASE LeaveAndJoin
  BY <1>12 DEF LeaveAndJoin
<1>13. CASE Hook
  BY <1>13 DEF Hook, PeriodicHook, KeepAliveHook, NextEvent
<1>14. CASE ModemReboot
  BY <1>14 DEF ModemReboot, Reset
<1>15. CASE HandleDownlink
  BY <1>15
     DEF HandleDownlink, FlrpDownlink, FlrpImage, RemoteIgnored, RemoteReset,
         RemoteInit, RemoteTransfer, RemoteListening, NextEvent
<1>16. CASE Quiet
  BY <1>16 DEF Quiet
<1> QED
  BY <1>1, <1>2, <1>3, <1>4, <1>5, <1>6, <1>7, <1>8, <1>9, <1>10, <1>11, <1>12,
     <1>13, <1>14, <1>15, <1>16 DEF ServiceStep

\* A press is served as it was decided.
LEMMA PressServedKept == ASSUME ModemTypeOK, ServicesInv, ServiceStep PROVE PressServed'
<1> USE DEF ServicesInv, ServicesKept, network, queue, services, PressServed, Hooked,
            OwnCallback
<1>1. CASE AlarmExpires
  BY <1>1 DEF AlarmExpires, Raise
<1>2. CASE JoinEnds
  BY <1>2 DEF JoinEnds, Raise
<1>3. CASE NetworkEvent
  BY <1>3 DEF NetworkEvent, Raise
<1>4. CASE ScanEnds
  BY <1>4 DEF ScanEnds, Raise
<1>5. CASE UplinkSent
  BY <1>5 DEF UplinkSent
<1>6. CASE CallCallback
  BY <1>6 DEF CallCallback
<1>7. CASE ReadEvent
  BY <1>7
     DEF ReadEvent, HelperSwitch, NetworkSilent, GeolocationSwitch, WifiRegionSwitch,
         CertifSwitch
<1>8. CASE ButtonToggles
  BY <1>8 DEF ButtonToggles, WantsStop
<1>9. CASE StartDecided
  BY <1>9 DEF StartDecided
<1>10. CASE ToggleService
  BY <1>10 DEF ToggleService
<1>11. CASE StoreMode
  BY <1>11 DEF StoreMode
<1>12. CASE LeaveAndJoin
  BY <1>12 DEF LeaveAndJoin
<1>13. CASE Hook
  BY <1>13 DEF Hook, PeriodicHook, KeepAliveHook, NextEvent
<1>14. CASE ModemReboot
  BY <1>14 DEF ModemReboot, Reset
<1>15. CASE HandleDownlink
  BY <1>15
     DEF HandleDownlink, FlrpDownlink, FlrpImage, RemoteIgnored, RemoteReset,
         RemoteInit, RemoteTransfer, RemoteListening, NextEvent
<1>16. CASE Quiet
  BY <1>16 DEF Quiet
<1> QED
  BY <1>1, <1>2, <1>3, <1>4, <1>5, <1>6, <1>7, <1>8, <1>9, <1>10, <1>11, <1>12,
     <1>13, <1>14, <1>15, <1>16 DEF ServiceStep

\* The almanac demodulation runs as the application thinks.
LEMMA AlmanacAgrees == ASSUME ModemTypeOK, ServicesInv, ServiceStep PROVE AlmanacKept'
<1> USE DEF ServicesInv, ServicesKept, network, queue, services, AlmanacKept,
            PressServed, Hooked, OwnCallback
<1>1. CASE AlarmExpires
  BY <1>1 DEF AlarmExpires, Raise
<1>2. CASE JoinEnds
  BY <1>2 DEF JoinEnds, Raise
<1>3. CASE NetworkEvent
  BY <1>3 DEF NetworkEvent, Raise
<1>4. CASE ScanEnds
  BY <1>4 DEF ScanEnds, Raise
<1>5. CASE UplinkSent
  BY <1>5 DEF UplinkSent
<1>6. CASE CallCallback
  BY <1>6 DEF CallCallback
<1>7. CASE ReadEvent
  BY <1>7
     DEF ReadEvent, HelperSwitch, NetworkSilent, GeolocationSwitch, WifiRegionSwitch,
         CertifSwitch
<1>8. CASE ButtonToggles
  BY <1>8 DEF ButtonToggles, WantsStop
<1>9. CASE StartDecided
  BY <1>9 DEF StartDecided
<1>10. CASE ToggleService
  BY <1>10 DEF ToggleService
<1>11. CASE StoreMode
  BY <1>11 DEF StoreMode
<1>12. CASE LeaveAndJoin
  BY <1>12 DEF LeaveAndJoin
<1>13. CASE Hook
  BY <1>13 DEF Hook, PeriodicHook, KeepAliveHook, NextEvent
<1>14. CASE ModemReboot
  BY <1>14 DEF ModemReboot, Reset
<1>15. CASE HandleDownlink
  BY <1>15
     DEF HandleDownlink, FlrpDownlink, FlrpImage, RemoteIgnored, RemoteReset,
         RemoteInit, RemoteTransfer, RemoteListening, NextEvent
<1>16. CASE Quiet
  BY <1>16 DEF Quiet
<1> QED
  BY <1>1, <1>2, <1>3, <1>4, <1>5, <1>6, <1>7, <1>8, <1>9, <1>10, <1>11, <1>12,
     <1>13, <1>14, <1>15, <1>16 DEF ServiceStep

\* The certification mode is on as the application thinks.
LEMMA CertifAgrees == ASSUME ModemTypeOK, ServicesInv, ServiceStep PROVE CertifKept'
<1> USE DEF ServicesInv, ServicesKept, network, queue, services, CertifKept,
            PressServed, Hooked, OwnCallback
<1>1. CASE AlarmExpires
  BY <1>1, Zenon DEF AlarmExpires, Raise
<1>2. CASE JoinEnds
  BY <1>2, Zenon DEF JoinEnds, Raise
<1>3. CASE NetworkEvent
  BY <1>3, Zenon DEF NetworkEvent, Raise
<1>4. CASE ScanEnds
  BY <1>4, Zenon DEF ScanEnds, Raise
<1>5. CASE UplinkSent
  BY <1>5, Zenon DEF UplinkSent
<1>6. CASE CallCallback
  BY <1>6, Zenon DEF CallCallback
<1>7. CASE ReadEvent
  BY <1>7, Zenon
     DEF ReadEvent, HelperSwitch, NetworkSilent, GeolocationSwitch, WifiRegionSwitch,
         CertifSwitch
<1>8. CASE ButtonToggles
  BY <1>8, Zenon DEF ButtonToggles, WantsStop
<1>9. CASE StartDecided
  BY <1>9, Zenon DEF StartDecided
<1>10. CASE ToggleService
  BY <1>10, Zenon DEF ToggleService
<1>11. CASE StoreMode
  BY <1>11, Zenon DEF StoreMode
<1>12. CASE LeaveAndJoin
  <2>1. certif_mode \in BOOLEAN
    BY Zenon DEF ModemTypeOK
  <2>2. ~certif_mode /\ press = "leaving"
    BY <1>12 DEF LeaveAndJoin
  <2> QED
    BY <1>12, <2>1, <2>2, Zenon DEF LeaveAndJoin
<1>13. CASE Hook
  BY <1>13, Zenon DEF Hook, PeriodicHook, KeepAliveHook, NextEvent
<1>14. CASE ModemReboot
  BY <1>14, Zenon DEF ModemReboot, Reset
<1>15. CASE HandleDownlink
  BY <1>15, Zenon
     DEF HandleDownlink, FlrpDownlink, FlrpImage, RemoteIgnored, RemoteReset,
         RemoteInit, RemoteTransfer, RemoteListening, NextEvent
<1>16. CASE Quiet
  BY <1>16, Zenon DEF Quiet
<1> QED
  BY <1>1, <1>2, <1>3, <1>4, <1>5, <1>6, <1>7, <1>8, <1>9, <1>10, <1>11, <1>12,
     <1>13, <1>14, <1>15, <1>16 DEF ServiceStep

-----------------------------------------------------------------------------
(* The steps of the system, one by one.                                    *)

\* A step that leaves the application alone.
Still == UNCHANGED << image, console, multiprotocolVars, flrpVars >>

\* The steps of the two applications.
MultiMoves ==
    /\ \/ PressButton \/ CmdRangingStart \/ CmdSendKeepalive \/ CmdReqMacTime
       \/ CmdSetMode \/ WriteManager \/ WritePriority \/ RaiseSetMode \/ ServeRanging
       \/ ServeSetMode \/ ServeKeepalive \/ ServeReqMacTime \/ RangingResults
    /\ UNCHANGED flrpVars

FlrpMoves ==
    /\ \/ RxStarts \/ UserRxCallback \/ UserTxCallback \/ ServeButton \/ SendFilled
       \/ SendKeepAlive \/ FlrpButton \/ CmdKeepalive \/ CmdSetDeviceEui
       \/ DeviceEuiInit \/ CmdSetOptions \/ WriteOptions \/ CmdLaunchTx
       \/ CmdLaunchRx \/ Launch \/ CmdSetPer \/ RestartListening \/ CmdListening
       \/ HandleDownlink
    /\ UNCHANGED multiprotocolVars

AppStep == Reboot \/ Still \/ MultiMoves \/ FlrpMoves

\* A step of the callback keeps the sample.
LEMMA SameImage == Modem \/ Callback \/ Press \/ Hook => image' = image
  BY DEF Modem, Callback, Press, Hook, AlarmExpires, JoinEnds, NetworkEvent, ScanEnds,
     Raise,
         UplinkSent, CallCallback, ReadEvent, ButtonToggles, StartDecided, ToggleService,
         StoreMode, LeaveAndJoin

\* Every step is one of these.
LEMMA AppSteps == [Next]_vars => AppStep
<1> USE DEF AppStep
<1>1. CASE Reboot
  BY <1>1
<1>2. CASE ModemStep
  BY <1>2, SameImage DEF ModemStep, Still
<1>3. CASE LoopStep
  BY <1>3 DEF LoopStep, Still, modemVars
<1>4. CASE MultiprotocolStep
  BY <1>4, Zenon DEF MultiprotocolStep, MultiMoves, MultiShell, MultiMain
<1>5. CASE FlrpStep
  BY <1>5, Zenon DEF FlrpStep, FlrpMoves, Library, FlrpMain, FlrpShell
<1>6. CASE UNCHANGED vars
  BY <1>6 DEF vars, Still, modemVars
<1> QED
  BY <1>1, <1>2, <1>3, <1>4, <1>5, <1>6, Zenon DEF Next

\* A command gets on within its sample.
LEMMA ShellOfKept == ASSUME ShellOf, SettingsOf, AppStep PROVE ShellOf'
<1> USE DEF ShellOf, modemVars, console, multiprotocolVars, mode, flrpVars, menu, Multi,
            FlrpImage
<1>1. CASE Reboot
  BY <1>1 DEF Reboot, ModemReboot, LoopReset, MultiReset, FlrpReset
<1>2. CASE Still
  BY <1>2 DEF Still
<1>3. CASE PressButton /\ UNCHANGED flrpVars
  BY <1>3 DEF PressButton
<1>4. CASE CmdRangingStart /\ UNCHANGED flrpVars
  BY <1>4 DEF CmdRangingStart
<1>5. CASE CmdSendKeepalive /\ UNCHANGED flrpVars
  BY <1>5 DEF CmdSendKeepalive
<1>6. CASE CmdReqMacTime /\ UNCHANGED flrpVars
  BY <1>6 DEF CmdReqMacTime
<1>7. CASE CmdSetMode /\ UNCHANGED flrpVars
  BY <1>7 DEF CmdSetMode
<1>8. CASE WriteManager /\ UNCHANGED flrpVars
  BY <1>8 DEF WriteManager
<1>9. CASE WritePriority /\ UNCHANGED flrpVars
  BY <1>9 DEF WritePriority
<1>10. CASE RaiseSetMode /\ UNCHANGED flrpVars
  BY <1>10 DEF RaiseSetMode
<1>11. CASE ServeRanging /\ UNCHANGED flrpVars
  BY <1>11 DEF ServeRanging
<1>12. CASE ServeSetMode /\ UNCHANGED flrpVars
  BY <1>12 DEF ServeSetMode
<1>13. CASE ServeKeepalive /\ UNCHANGED flrpVars
  BY <1>13 DEF ServeKeepalive
<1>14. CASE ServeReqMacTime /\ UNCHANGED flrpVars
  BY <1>14 DEF ServeReqMacTime
<1>15. CASE RangingResults /\ UNCHANGED flrpVars
  BY <1>15 DEF RangingResults
<1>16. CASE RxStarts /\ UNCHANGED multiprotocolVars
  BY <1>16 DEF RxStarts, Free
<1>17. CASE UserRxCallback /\ UNCHANGED multiprotocolVars
  BY <1>17 DEF UserRxCallback, SetupTxBuffer
<1>18. CASE UserTxCallback /\ UNCHANGED multiprotocolVars
  BY <1>18 DEF UserTxCallback, SetupTxBuffer
<1>19. CASE ServeButton /\ UNCHANGED multiprotocolVars
  BY <1>19 DEF ServeButton, SetupTxBuffer
<1>20. CASE SendFilled /\ UNCHANGED multiprotocolVars
  BY <1>20 DEF SendFilled, Initiate, Free
<1>21. CASE SendKeepAlive /\ UNCHANGED multiprotocolVars
  BY <1>21 DEF SendKeepAlive
<1>22. CASE FlrpButton /\ UNCHANGED multiprotocolVars
  BY <1>22 DEF FlrpButton
<1>23. CASE CmdKeepalive /\ UNCHANGED multiprotocolVars
  BY <1>23 DEF CmdKeepalive, Command
<1>24. CASE CmdSetDeviceEui /\ UNCHANGED multiprotocolVars
  BY <1>24 DEF CmdSetDeviceEui, Command, Idle
<1>25. CASE DeviceEuiInit /\ UNCHANGED multiprotocolVars
  BY <1>25 DEF DeviceEuiInit, ApiInit
<1>26. CASE CmdSetOptions /\ UNCHANGED multiprotocolVars
  BY <1>26 DEF CmdSetOptions, Command, Idle
<1>27. CASE WriteOptions /\ UNCHANGED multiprotocolVars
  BY <1>27 DEF WriteOptions
<1>28. CASE CmdLaunchTx /\ UNCHANGED multiprotocolVars
  BY <1>28 DEF CmdLaunchTx, SetupTxBuffer, Command, Idle
<1>29. CASE CmdLaunchRx /\ UNCHANGED multiprotocolVars
  BY <1>29 DEF CmdLaunchRx, Command, Idle
<1>30. CASE Launch /\ UNCHANGED multiprotocolVars
  BY <1>30 DEF Launch, Initiate, Free
<1>31. CASE CmdSetPer /\ UNCHANGED multiprotocolVars
  BY <1>31 DEF CmdSetPer, SetListening, Command, Idle
<1>32. CASE RestartListening /\ UNCHANGED multiprotocolVars
  BY <1>32 DEF RestartListening, SetListening
<1>33. CASE CmdListening /\ UNCHANGED multiprotocolVars
  BY <1>33 DEF CmdListening, SetListening, Command
<1>34. CASE HandleDownlink /\ UNCHANGED multiprotocolVars /\ RemoteIgnored
  BY <1>34 DEF HandleDownlink, FlrpDownlink, RemoteIgnored
<1>35. CASE HandleDownlink /\ UNCHANGED multiprotocolVars /\ RemoteReset
  BY <1>35 DEF HandleDownlink, FlrpDownlink, RemoteReset
<1>36. CASE HandleDownlink /\ UNCHANGED multiprotocolVars /\ RemoteInit
  BY <1>36 DEF HandleDownlink, FlrpDownlink, RemoteInit, ApiInit
<1>37. CASE HandleDownlink /\ UNCHANGED multiprotocolVars /\ RemoteTransfer
  BY <1>37
     DEF HandleDownlink, FlrpDownlink, RemoteTransfer, Initiate, Free, SetupTxBuffer
<1>38. CASE HandleDownlink /\ UNCHANGED multiprotocolVars /\ RemoteListening
  BY <1>38 DEF HandleDownlink, FlrpDownlink, RemoteListening, SetListening
<1> QED
  BY <1>1, <1>2, <1>3, <1>4, <1>5, <1>6, <1>7, <1>8, <1>9, <1>10, <1>11, <1>12,
     <1>13, <1>14, <1>15, <1>16, <1>17, <1>18, <1>19, <1>20, <1>21, <1>22,
     <1>23, <1>24, <1>25, <1>26, <1>27, <1>28, <1>29, <1>30, <1>31, <1>32,
     <1>33, <1>34, <1>35, <1>36, <1>37, <1>38 DEF AppStep, MultiMoves,
     FlrpMoves, HandleDownlink

\* The settings stay as they were chosen.
LEMMA SettingsOfKept ==
    ASSUME ShellOf, SettingsOf, BufferOf, FlrpTypeOK, AppStep
    PROVE  SettingsOf'
<1>0. lib \in [init : BOOLEAN, busy : { "no", "tx", "rx" }, listening : BOOLEAN, options : Options]
  BY DEF FlrpTypeOK
<1> USE DEF ShellOf, SettingsOf, BufferOf, modemVars, console, multiprotocolVars, mode,
            flrpVars, menu, Multi, FlrpImage
<1>1. CASE Reboot
  BY <1>1 DEF Reboot, ModemReboot, LoopReset, MultiReset, FlrpReset
<1>2. CASE Still
  BY <1>2 DEF Still
<1>3. CASE PressButton /\ UNCHANGED flrpVars
  BY <1>3 DEF PressButton
<1>4. CASE CmdRangingStart /\ UNCHANGED flrpVars
  BY <1>4 DEF CmdRangingStart
<1>5. CASE CmdSendKeepalive /\ UNCHANGED flrpVars
  BY <1>5 DEF CmdSendKeepalive
<1>6. CASE CmdReqMacTime /\ UNCHANGED flrpVars
  BY <1>6 DEF CmdReqMacTime
<1>7. CASE CmdSetMode /\ UNCHANGED flrpVars
  BY <1>7 DEF CmdSetMode
<1>8. CASE WriteManager /\ UNCHANGED flrpVars
  BY <1>8 DEF WriteManager
<1>9. CASE WritePriority /\ UNCHANGED flrpVars
  BY <1>9 DEF WritePriority
<1>10. CASE RaiseSetMode /\ UNCHANGED flrpVars
  BY <1>10 DEF RaiseSetMode
<1>11. CASE ServeRanging /\ UNCHANGED flrpVars
  BY <1>11 DEF ServeRanging
<1>12. CASE ServeSetMode /\ UNCHANGED flrpVars
  BY <1>12 DEF ServeSetMode
<1>13. CASE ServeKeepalive /\ UNCHANGED flrpVars
  BY <1>13 DEF ServeKeepalive
<1>14. CASE ServeReqMacTime /\ UNCHANGED flrpVars
  BY <1>14 DEF ServeReqMacTime
<1>15. CASE RangingResults /\ UNCHANGED flrpVars
  BY <1>15 DEF RangingResults
<1>16. CASE RxStarts /\ UNCHANGED multiprotocolVars
  BY <1>16 DEF RxStarts, Free
<1>17. CASE UserRxCallback /\ UNCHANGED multiprotocolVars
  BY <1>17 DEF UserRxCallback, SetupTxBuffer
<1>18. CASE UserTxCallback /\ UNCHANGED multiprotocolVars
  BY <1>18 DEF UserTxCallback, SetupTxBuffer
<1>19. CASE ServeButton /\ UNCHANGED multiprotocolVars
  BY <1>19 DEF ServeButton, SetupTxBuffer
<1>20. CASE SendFilled /\ UNCHANGED multiprotocolVars
  BY <1>20 DEF SendFilled, Initiate, Free
<1>21. CASE SendKeepAlive /\ UNCHANGED multiprotocolVars
  BY <1>21 DEF SendKeepAlive
<1>22. CASE FlrpButton /\ UNCHANGED multiprotocolVars
  BY <1>22 DEF FlrpButton
<1>23. CASE CmdKeepalive /\ UNCHANGED multiprotocolVars
  BY <1>23 DEF CmdKeepalive, Command
<1>24. CASE CmdSetDeviceEui /\ UNCHANGED multiprotocolVars
  BY <1>24 DEF CmdSetDeviceEui, Command, Idle
<1>25. CASE DeviceEuiInit /\ UNCHANGED multiprotocolVars
  <2>1. /\ shell[1] = "device_eui" /\ shell'[1] = "idle" /\ options' = options
        /\ UNCHANGED << image, sending, multiprotocolVars >> /\ FlrpImage
    BY <1>25 DEF DeviceEuiInit
  <2>2. ApiInit(options, TRUE, lib.busy = "no")
    BY <1>25 DEF DeviceEuiInit
  <2>3. /\ lib.busy = "no" => lib'.init /\ lib'.busy = "no" /\ lib'.options = options
        /\ lib'.busy = lib.busy
        /\ lib.init => lib'.init
        /\ data_flrp' = "filled"
    BY <1>0, <2>2 DEF ApiInit
  <2> QED
    BY <2>1, <2>3
<1>26. CASE CmdSetOptions /\ UNCHANGED multiprotocolVars
  BY <1>26 DEF CmdSetOptions, Command, Idle
<1>27. CASE WriteOptions /\ UNCHANGED multiprotocolVars
  BY <1>27 DEF WriteOptions
<1>28. CASE CmdLaunchTx /\ UNCHANGED multiprotocolVars
  BY <1>28 DEF CmdLaunchTx, SetupTxBuffer, Command, Idle
<1>29. CASE CmdLaunchRx /\ UNCHANGED multiprotocolVars
  BY <1>29 DEF CmdLaunchRx, Command, Idle
<1>30. CASE Launch /\ UNCHANGED multiprotocolVars
  BY <1>30 DEF Launch, Initiate, Free
<1>31. CASE CmdSetPer /\ UNCHANGED multiprotocolVars
  BY <1>31 DEF CmdSetPer, SetListening, Command, Idle
<1>32. CASE RestartListening /\ UNCHANGED multiprotocolVars
  <2>1. /\ shell[1] = "per" /\ shell'[1] = "idle"
        /\ UNCHANGED << image, menu, data_flrp, sending >>
        /\ UNCHANGED multiprotocolVars
    BY <1>32 DEF RestartListening
  <2>2. SetListening(TRUE) \/ UNCHANGED lib
    BY <1>32, Zenon DEF RestartListening
  <2>3. lib'.init = lib.init /\ lib'.busy = lib.busy /\ lib'.options = lib.options
    BY <1>0, <2>2 DEF SetListening
  <2> QED
    BY <2>1, <2>3
<1>33. CASE CmdListening /\ UNCHANGED multiprotocolVars
  BY <1>33 DEF CmdListening, SetListening, Command
<1>34. CASE HandleDownlink /\ UNCHANGED multiprotocolVars /\ RemoteIgnored
  BY <1>34 DEF HandleDownlink, FlrpDownlink, RemoteIgnored
<1>35. CASE HandleDownlink /\ UNCHANGED multiprotocolVars /\ RemoteReset
  BY <1>35 DEF HandleDownlink, FlrpDownlink, RemoteReset
<1>36. CASE HandleDownlink /\ UNCHANGED multiprotocolVars /\ RemoteInit
  <2>1. PICK opt \in Options, listening \in BOOLEAN, keyed \in BOOLEAN :
            /\ options' = opt /\ flrp_api_menu_listening' = listening
            /\ is_device_eui_set' = (lib.busy = "no" /\ keyed)
            /\ ApiInit(opt, listening, lib.busy = "no")
    BY <1>36 DEF RemoteInit
  <2>2. UNCHANGED << image, shell, sending, multiprotocolVars >> /\ FlrpImage
    BY <1>36 DEF HandleDownlink, FlrpDownlink, RemoteInit
  <2>3. is_device_eui_set' => lib.busy = "no"
    BY <2>1, Zenon
  <2>4. /\ lib.busy = "no" => lib'.init /\ lib'.busy = "no" /\ lib'.options = options'
        /\ lib'.busy = lib.busy
        /\ lib.init => lib'.init
        /\ data_flrp' = "filled" \/ data_flrp' = data_flrp
    BY <1>0, <2>1 DEF ApiInit
  <2> QED
    BY <2>2, <2>3, <2>4
<1>37. CASE HandleDownlink /\ UNCHANGED multiprotocolVars /\ RemoteTransfer
  <2>1. /\ is_device_eui_set
        /\ UNCHANGED << image, shell, menu, sending, multiprotocolVars >>
    BY <1>37 DEF HandleDownlink, RemoteTransfer
  <2>2. \/ Initiate("tx") /\ data_flrp' = "filled"
        \/ Initiate("rx")
    BY <1>37 DEF RemoteTransfer, SetupTxBuffer
  <2>3. /\ lib'.init = lib.init /\ lib'.options = lib.options
        /\ lib'.busy = lib.busy \/ lib.busy = "no"
        /\ data_flrp' = "filled" \/ lib'.busy # "no" \/ ~lib.init
    BY <1>0, <2>2 DEF Initiate, Free
  <2> QED
    BY <2>1, <2>3
<1>38. CASE HandleDownlink /\ UNCHANGED multiprotocolVars /\ RemoteListening
  BY <1>38 DEF HandleDownlink, FlrpDownlink, RemoteListening, SetListening
<1> QED
  BY <1>1, <1>2, <1>3, <1>4, <1>5, <1>6, <1>7, <1>8, <1>9, <1>10, <1>11, <1>12,
     <1>13, <1>14, <1>15, <1>16, <1>17, <1>18, <1>19, <1>20, <1>21, <1>22,
     <1>23, <1>24, <1>25, <1>26, <1>27, <1>28, <1>29, <1>30, <1>31, <1>32,
     <1>33, <1>34, <1>35, <1>36, <1>37, <1>38 DEF AppStep, MultiMoves,
     FlrpMoves, HandleDownlink

\* The buffer waits filled.
LEMMA BufferOfKept ==
    ASSUME ShellOf, SettingsOf, BufferOf, FlrpTypeOK, AppStep
    PROVE  BufferOf'
<1>0. lib \in [init : BOOLEAN, busy : { "no", "tx", "rx" }, listening : BOOLEAN, options : Options]
  BY DEF FlrpTypeOK
<1> USE DEF ShellOf, SettingsOf, BufferOf, modemVars, console, multiprotocolVars, mode,
            flrpVars, menu, Multi, FlrpImage
<1>1. CASE Reboot
  BY <1>1 DEF Reboot, ModemReboot, LoopReset, MultiReset, FlrpReset
<1>2. CASE Still
  BY <1>2 DEF Still
<1>3. CASE PressButton /\ UNCHANGED flrpVars
  BY <1>3 DEF PressButton
<1>4. CASE CmdRangingStart /\ UNCHANGED flrpVars
  BY <1>4 DEF CmdRangingStart
<1>5. CASE CmdSendKeepalive /\ UNCHANGED flrpVars
  BY <1>5 DEF CmdSendKeepalive
<1>6. CASE CmdReqMacTime /\ UNCHANGED flrpVars
  BY <1>6 DEF CmdReqMacTime
<1>7. CASE CmdSetMode /\ UNCHANGED flrpVars
  BY <1>7 DEF CmdSetMode
<1>8. CASE WriteManager /\ UNCHANGED flrpVars
  BY <1>8 DEF WriteManager
<1>9. CASE WritePriority /\ UNCHANGED flrpVars
  BY <1>9 DEF WritePriority
<1>10. CASE RaiseSetMode /\ UNCHANGED flrpVars
  BY <1>10 DEF RaiseSetMode
<1>11. CASE ServeRanging /\ UNCHANGED flrpVars
  BY <1>11 DEF ServeRanging
<1>12. CASE ServeSetMode /\ UNCHANGED flrpVars
  BY <1>12 DEF ServeSetMode
<1>13. CASE ServeKeepalive /\ UNCHANGED flrpVars
  BY <1>13 DEF ServeKeepalive
<1>14. CASE ServeReqMacTime /\ UNCHANGED flrpVars
  BY <1>14 DEF ServeReqMacTime
<1>15. CASE RangingResults /\ UNCHANGED flrpVars
  BY <1>15 DEF RangingResults
<1>16. CASE RxStarts /\ UNCHANGED multiprotocolVars
  BY <1>16 DEF RxStarts, Free
<1>17. CASE UserRxCallback /\ UNCHANGED multiprotocolVars
  BY <1>17 DEF UserRxCallback, SetupTxBuffer
<1>18. CASE UserTxCallback /\ UNCHANGED multiprotocolVars
  BY <1>18 DEF UserTxCallback, SetupTxBuffer
<1>19. CASE ServeButton /\ UNCHANGED multiprotocolVars
  BY <1>19 DEF ServeButton, SetupTxBuffer
<1>20. CASE SendFilled /\ UNCHANGED multiprotocolVars
  BY <1>20 DEF SendFilled, Initiate, Free
<1>21. CASE SendKeepAlive /\ UNCHANGED multiprotocolVars
  BY <1>21 DEF SendKeepAlive
<1>22. CASE FlrpButton /\ UNCHANGED multiprotocolVars
  BY <1>22 DEF FlrpButton
<1>23. CASE CmdKeepalive /\ UNCHANGED multiprotocolVars
  BY <1>23 DEF CmdKeepalive, Command
<1>24. CASE CmdSetDeviceEui /\ UNCHANGED multiprotocolVars
  BY <1>24 DEF CmdSetDeviceEui, Command, Idle
<1>25. CASE DeviceEuiInit /\ UNCHANGED multiprotocolVars
  <2>1. /\ shell[1] = "device_eui" /\ shell'[1] = "idle" /\ options' = options
        /\ UNCHANGED << image, sending, multiprotocolVars >> /\ FlrpImage
    BY <1>25 DEF DeviceEuiInit
  <2>2. ApiInit(options, TRUE, lib.busy = "no")
    BY <1>25 DEF DeviceEuiInit
  <2>3. /\ lib.busy = "no" => lib'.init /\ lib'.busy = "no" /\ lib'.options = options
        /\ lib'.busy = lib.busy
        /\ lib.init => lib'.init
        /\ data_flrp' = "filled"
    BY <1>0, <2>2 DEF ApiInit
  <2> QED
    BY <2>1, <2>3
<1>26. CASE CmdSetOptions /\ UNCHANGED multiprotocolVars
  BY <1>26 DEF CmdSetOptions, Command, Idle
<1>27. CASE WriteOptions /\ UNCHANGED multiprotocolVars
  BY <1>27 DEF WriteOptions
<1>28. CASE CmdLaunchTx /\ UNCHANGED multiprotocolVars
  BY <1>28 DEF CmdLaunchTx, SetupTxBuffer, Command, Idle
<1>29. CASE CmdLaunchRx /\ UNCHANGED multiprotocolVars
  BY <1>29 DEF CmdLaunchRx, Command, Idle
<1>30. CASE Launch /\ UNCHANGED multiprotocolVars
  BY <1>30 DEF Launch, Initiate, Free
<1>31. CASE CmdSetPer /\ UNCHANGED multiprotocolVars
  BY <1>31 DEF CmdSetPer, SetListening, Command, Idle
<1>32. CASE RestartListening /\ UNCHANGED multiprotocolVars
  <2>1. /\ shell[1] = "per" /\ shell'[1] = "idle"
        /\ UNCHANGED << image, menu, data_flrp, sending >>
        /\ UNCHANGED multiprotocolVars
    BY <1>32 DEF RestartListening
  <2>2. SetListening(TRUE) \/ UNCHANGED lib
    BY <1>32, Zenon DEF RestartListening
  <2>3. lib'.init = lib.init /\ lib'.busy = lib.busy /\ lib'.options = lib.options
    BY <1>0, <2>2 DEF SetListening
  <2> QED
    BY <2>1, <2>3
<1>33. CASE CmdListening /\ UNCHANGED multiprotocolVars
  BY <1>33 DEF CmdListening, SetListening, Command
<1>34. CASE HandleDownlink /\ UNCHANGED multiprotocolVars /\ RemoteIgnored
  BY <1>34 DEF HandleDownlink, FlrpDownlink, RemoteIgnored
<1>35. CASE HandleDownlink /\ UNCHANGED multiprotocolVars /\ RemoteReset
  BY <1>35 DEF HandleDownlink, FlrpDownlink, RemoteReset
<1>36. CASE HandleDownlink /\ UNCHANGED multiprotocolVars /\ RemoteInit
  <2>1. PICK opt \in Options, listening \in BOOLEAN, keyed \in BOOLEAN :
            /\ options' = opt /\ flrp_api_menu_listening' = listening
            /\ is_device_eui_set' = (lib.busy = "no" /\ keyed)
            /\ ApiInit(opt, listening, lib.busy = "no")
    BY <1>36 DEF RemoteInit
  <2>2. UNCHANGED << image, shell, sending, multiprotocolVars >> /\ FlrpImage
    BY <1>36 DEF HandleDownlink, FlrpDownlink, RemoteInit
  <2>3. is_device_eui_set' => lib.busy = "no"
    BY <2>1, Zenon
  <2>4. /\ lib.busy = "no" => lib'.init /\ lib'.busy = "no" /\ lib'.options = options'
        /\ lib'.busy = lib.busy
        /\ lib.init => lib'.init
        /\ data_flrp' = "filled" \/ data_flrp' = data_flrp
    BY <1>0, <2>1 DEF ApiInit
  <2> QED
    BY <2>2, <2>3, <2>4
<1>37. CASE HandleDownlink /\ UNCHANGED multiprotocolVars /\ RemoteTransfer
  <2>1. /\ is_device_eui_set
        /\ UNCHANGED << image, shell, menu, sending, multiprotocolVars >>
    BY <1>37 DEF HandleDownlink, RemoteTransfer
  <2>2. \/ Initiate("tx") /\ data_flrp' = "filled"
        \/ Initiate("rx")
    BY <1>37 DEF RemoteTransfer, SetupTxBuffer
  <2>3. /\ lib'.init = lib.init /\ lib'.options = lib.options
        /\ lib'.busy = lib.busy \/ lib.busy = "no"
        /\ data_flrp' = "filled" \/ lib'.busy # "no" \/ ~lib.init
    BY <1>0, <2>2 DEF Initiate, Free
  <2> QED
    BY <2>1, <2>3
<1>38. CASE HandleDownlink /\ UNCHANGED multiprotocolVars /\ RemoteListening
  BY <1>38 DEF HandleDownlink, FlrpDownlink, RemoteListening, SetListening
<1> QED
  BY <1>1, <1>2, <1>3, <1>4, <1>5, <1>6, <1>7, <1>8, <1>9, <1>10, <1>11, <1>12,
     <1>13, <1>14, <1>15, <1>16, <1>17, <1>18, <1>19, <1>20, <1>21, <1>22,
     <1>23, <1>24, <1>25, <1>26, <1>27, <1>28, <1>29, <1>30, <1>31, <1>32,
     <1>33, <1>34, <1>35, <1>36, <1>37, <1>38 DEF AppStep, MultiMoves,
     FlrpMoves, HandleDownlink

\* No step starts to send a buffer that was not filled.
LEMMA SendsFilled ==
    ASSUME ShellOf, SettingsOf, BufferOf, FlrpTypeOK, AppStep
    PROVE  FilledWhenSent
<1>0. lib \in [init : BOOLEAN, busy : { "no", "tx", "rx" }, listening : BOOLEAN, options : Options]
  BY DEF FlrpTypeOK
<1> USE DEF FilledWhenSent, ShellOf, SettingsOf, BufferOf, modemVars, console,
            multiprotocolVars, mode, flrpVars, menu, Multi, FlrpImage
<1>1. CASE Reboot
  BY <1>1 DEF Reboot, ModemReboot, LoopReset, MultiReset, FlrpReset
<1>2. CASE Still
  BY <1>2 DEF Still
<1>3. CASE PressButton /\ UNCHANGED flrpVars
  BY <1>3 DEF PressButton
<1>4. CASE CmdRangingStart /\ UNCHANGED flrpVars
  BY <1>4 DEF CmdRangingStart
<1>5. CASE CmdSendKeepalive /\ UNCHANGED flrpVars
  BY <1>5 DEF CmdSendKeepalive
<1>6. CASE CmdReqMacTime /\ UNCHANGED flrpVars
  BY <1>6 DEF CmdReqMacTime
<1>7. CASE CmdSetMode /\ UNCHANGED flrpVars
  BY <1>7 DEF CmdSetMode
<1>8. CASE WriteManager /\ UNCHANGED flrpVars
  BY <1>8 DEF WriteManager
<1>9. CASE WritePriority /\ UNCHANGED flrpVars
  BY <1>9 DEF WritePriority
<1>10. CASE RaiseSetMode /\ UNCHANGED flrpVars
  BY <1>10 DEF RaiseSetMode
<1>11. CASE ServeRanging /\ UNCHANGED flrpVars
  BY <1>11 DEF ServeRanging
<1>12. CASE ServeSetMode /\ UNCHANGED flrpVars
  BY <1>12 DEF ServeSetMode
<1>13. CASE ServeKeepalive /\ UNCHANGED flrpVars
  BY <1>13 DEF ServeKeepalive
<1>14. CASE ServeReqMacTime /\ UNCHANGED flrpVars
  BY <1>14 DEF ServeReqMacTime
<1>15. CASE RangingResults /\ UNCHANGED flrpVars
  BY <1>15 DEF RangingResults
<1>16. CASE RxStarts /\ UNCHANGED multiprotocolVars
  BY <1>16 DEF RxStarts, Free
<1>17. CASE UserRxCallback /\ UNCHANGED multiprotocolVars
  BY <1>17 DEF UserRxCallback, SetupTxBuffer
<1>18. CASE UserTxCallback /\ UNCHANGED multiprotocolVars
  BY <1>18 DEF UserTxCallback, SetupTxBuffer
<1>19. CASE ServeButton /\ UNCHANGED multiprotocolVars
  BY <1>19 DEF ServeButton, SetupTxBuffer
<1>20. CASE SendFilled /\ UNCHANGED multiprotocolVars
  BY <1>20 DEF SendFilled, Initiate, Free
<1>21. CASE SendKeepAlive /\ UNCHANGED multiprotocolVars
  BY <1>21 DEF SendKeepAlive
<1>22. CASE FlrpButton /\ UNCHANGED multiprotocolVars
  BY <1>22 DEF FlrpButton
<1>23. CASE CmdKeepalive /\ UNCHANGED multiprotocolVars
  BY <1>23 DEF CmdKeepalive, Command
<1>24. CASE CmdSetDeviceEui /\ UNCHANGED multiprotocolVars
  BY <1>24 DEF CmdSetDeviceEui, Command, Idle
<1>25. CASE DeviceEuiInit /\ UNCHANGED multiprotocolVars
  <2>1. /\ shell[1] = "device_eui" /\ shell'[1] = "idle" /\ options' = options
        /\ UNCHANGED << image, sending, multiprotocolVars >> /\ FlrpImage
    BY <1>25 DEF DeviceEuiInit
  <2>2. ApiInit(options, TRUE, lib.busy = "no")
    BY <1>25 DEF DeviceEuiInit
  <2>3. /\ lib.busy = "no" => lib'.init /\ lib'.busy = "no" /\ lib'.options = options
        /\ lib'.busy = lib.busy
        /\ lib.init => lib'.init
        /\ data_flrp' = "filled"
    BY <1>0, <2>2 DEF ApiInit
  <2> QED
    BY <2>1, <2>3
<1>26. CASE CmdSetOptions /\ UNCHANGED multiprotocolVars
  BY <1>26 DEF CmdSetOptions, Command, Idle
<1>27. CASE WriteOptions /\ UNCHANGED multiprotocolVars
  BY <1>27 DEF WriteOptions
<1>28. CASE CmdLaunchTx /\ UNCHANGED multiprotocolVars
  BY <1>28 DEF CmdLaunchTx, SetupTxBuffer, Command, Idle
<1>29. CASE CmdLaunchRx /\ UNCHANGED multiprotocolVars
  BY <1>29 DEF CmdLaunchRx, Command, Idle
<1>30. CASE Launch /\ UNCHANGED multiprotocolVars
  BY <1>30 DEF Launch, Initiate, Free
<1>31. CASE CmdSetPer /\ UNCHANGED multiprotocolVars
  BY <1>31 DEF CmdSetPer, SetListening, Command, Idle
<1>32. CASE RestartListening /\ UNCHANGED multiprotocolVars
  <2>1. /\ shell[1] = "per" /\ shell'[1] = "idle"
        /\ UNCHANGED << image, menu, data_flrp, sending >>
        /\ UNCHANGED multiprotocolVars
    BY <1>32 DEF RestartListening
  <2>2. SetListening(TRUE) \/ UNCHANGED lib
    BY <1>32, Zenon DEF RestartListening
  <2>3. lib'.init = lib.init /\ lib'.busy = lib.busy /\ lib'.options = lib.options
    BY <1>0, <2>2 DEF SetListening
  <2> QED
    BY <2>1, <2>3
<1>33. CASE CmdListening /\ UNCHANGED multiprotocolVars
  BY <1>33 DEF CmdListening, SetListening, Command
<1>34. CASE HandleDownlink /\ UNCHANGED multiprotocolVars /\ RemoteIgnored
  BY <1>34 DEF HandleDownlink, FlrpDownlink, RemoteIgnored
<1>35. CASE HandleDownlink /\ UNCHANGED multiprotocolVars /\ RemoteReset
  BY <1>35 DEF HandleDownlink, FlrpDownlink, RemoteReset
<1>36. CASE HandleDownlink /\ UNCHANGED multiprotocolVars /\ RemoteInit
  <2>1. PICK opt \in Options, listening \in BOOLEAN, keyed \in BOOLEAN :
            /\ options' = opt /\ flrp_api_menu_listening' = listening
            /\ is_device_eui_set' = (lib.busy = "no" /\ keyed)
            /\ ApiInit(opt, listening, lib.busy = "no")
    BY <1>36 DEF RemoteInit
  <2>2. UNCHANGED << image, shell, sending, multiprotocolVars >> /\ FlrpImage
    BY <1>36 DEF HandleDownlink, FlrpDownlink, RemoteInit
  <2>3. is_device_eui_set' => lib.busy = "no"
    BY <2>1, Zenon
  <2>4. /\ lib.busy = "no" => lib'.init /\ lib'.busy = "no" /\ lib'.options = options'
        /\ lib'.busy = lib.busy
        /\ lib.init => lib'.init
        /\ data_flrp' = "filled" \/ data_flrp' = data_flrp
    BY <1>0, <2>1 DEF ApiInit
  <2> QED
    BY <2>2, <2>3, <2>4
<1>37. CASE HandleDownlink /\ UNCHANGED multiprotocolVars /\ RemoteTransfer
  <2>1. \/ Initiate("tx") /\ data_flrp' = "filled"
        \/ Initiate("rx")
    BY <1>37 DEF RemoteTransfer, SetupTxBuffer
  <2> QED
    BY <1>0, <2>1 DEF Initiate, Free
<1>38. CASE HandleDownlink /\ UNCHANGED multiprotocolVars /\ RemoteListening
  BY <1>38 DEF HandleDownlink, FlrpDownlink, RemoteListening, SetListening
<1> QED
  BY <1>1, <1>2, <1>3, <1>4, <1>5, <1>6, <1>7, <1>8, <1>9, <1>10, <1>11, <1>12,
     <1>13, <1>14, <1>15, <1>16, <1>17, <1>18, <1>19, <1>20, <1>21, <1>22,
     <1>23, <1>24, <1>25, <1>26, <1>27, <1>28, <1>29, <1>30, <1>31, <1>32,
     <1>33, <1>34, <1>35, <1>36, <1>37, <1>38 DEF AppStep, MultiMoves,
     FlrpMoves, HandleDownlink

-----------------------------------------------------------------------------
(* The main loop.                                                          *)

\* The bits of the two samples that have a main loop.
LEMMA BitsOf ==
    /\ Multi => Bits = { "BUTTON", "RANGING", "SET_MODE", "KEEPALIVE", "REQ_MAC_TIME" }
    /\ FlrpImage => Bits = { "BUTTON", "KEEPALIVE" }
<1>1. Multi => Served = << "BUTTON", "RANGING", "SET_MODE", "KEEPALIVE", "REQ_MAC_TIME" >>
  BY Zenon DEF Served, Multi
<1>2. FlrpImage => Served = << "BUTTON", "KEEPALIVE" >>
  BY Zenon DEF Served, FlrpImage
<1> QED
  BY <1>1, <1>2 DEF Bits

\* They depend on the sample only.
LEMMA SameBits == image' = image => Bits' = Bits
  BY Zenon DEF Bits, Served

\* What a step does to the loop.
LoopMove ==
    \/ UNCHANGED loopVars \/ Wait \/ Clear
    \/ \E b \in Bits : SetEvent(b)
    \/ \E b \in todo : Done(b)
    \/ \E e : /\ e = { } /\ events' = e /\ snapshot' = e /\ todo' = e
              /\ unserved' = e /\ loop' = "wait"

\* Every step is one of these.
LEMMA LoopMoves == ASSUME ShellOf, [Next]_vars PROVE LoopMove
<1> USE DEF LoopMove
<1>1. CASE Reboot
  BY <1>1 DEF Reboot, LoopReset
<1>2. CASE ModemStep
  BY <1>2 DEF ModemStep
<1>3. CASE LoopStep
  BY <1>3 DEF LoopStep
<1>4. CASE PressButton
  BY <1>4, BitsOf DEF PressButton
<1>5. CASE CmdRangingStart
  BY <1>5, BitsOf DEF CmdRangingStart
<1>6. CASE CmdSendKeepalive
  BY <1>6, BitsOf DEF CmdSendKeepalive
<1>7. CASE CmdReqMacTime
  BY <1>7, BitsOf DEF CmdReqMacTime
<1>8. CASE CmdSetMode
  BY <1>8 DEF CmdSetMode
<1>9. CASE WriteManager
  BY <1>9 DEF WriteManager
<1>10. CASE WritePriority
  BY <1>10 DEF WritePriority
<1>11. CASE RaiseSetMode
  BY <1>11, BitsOf DEF RaiseSetMode, ShellOf, Multi
<1>12. CASE ServeRanging
  BY <1>12 DEF ServeRanging, Turn
<1>13. CASE ServeSetMode
  BY <1>13 DEF ServeSetMode, Turn
<1>14. CASE ServeKeepalive
  BY <1>14 DEF ServeKeepalive, Turn
<1>15. CASE ServeReqMacTime
  BY <1>15 DEF ServeReqMacTime, Turn
<1>16. CASE RangingResults
  BY <1>16 DEF RangingResults
<1>17. CASE RxStarts
  BY <1>17 DEF RxStarts
<1>18. CASE UserRxCallback
  BY <1>18 DEF UserRxCallback
<1>19. CASE UserTxCallback
  BY <1>19 DEF UserTxCallback
<1>20. CASE ServeButton
  BY <1>20 DEF ServeButton
<1>21. CASE SendFilled
  BY <1>21 DEF SendFilled, Turn
<1>22. CASE SendKeepAlive
  BY <1>22 DEF SendKeepAlive, Turn
<1>23. CASE FlrpButton
  BY <1>23, BitsOf DEF FlrpButton
<1>24. CASE CmdKeepalive
  BY <1>24, BitsOf DEF CmdKeepalive, Command
<1>25. CASE CmdSetDeviceEui
  BY <1>25 DEF CmdSetDeviceEui
<1>26. CASE DeviceEuiInit
  BY <1>26 DEF DeviceEuiInit
<1>27. CASE CmdSetOptions
  BY <1>27 DEF CmdSetOptions
<1>28. CASE WriteOptions
  BY <1>28 DEF WriteOptions
<1>29. CASE CmdLaunchTx
  BY <1>29 DEF CmdLaunchTx
<1>30. CASE CmdLaunchRx
  BY <1>30 DEF CmdLaunchRx
<1>31. CASE Launch
  BY <1>31 DEF Launch
<1>32. CASE CmdSetPer
  BY <1>32 DEF CmdSetPer
<1>33. CASE RestartListening
  BY <1>33 DEF RestartListening
<1>34. CASE CmdListening
  BY <1>34 DEF CmdListening
<1>35. CASE HandleDownlink
  BY <1>35 DEF HandleDownlink
<1>36. CASE UNCHANGED vars
  BY <1>36 DEF vars
<1> QED
  BY <1>1, <1>2, <1>3, <1>4, <1>5, <1>6, <1>7, <1>8, <1>9, <1>10, <1>11, <1>12,
     <1>13, <1>14, <1>15, <1>16, <1>17, <1>18, <1>19, <1>20, <1>21, <1>22,
     <1>23, <1>24, <1>25, <1>26, <1>27, <1>28, <1>29, <1>30, <1>31, <1>32,
     <1>33, <1>34, <1>35, <1>36 DEF Next, MultiprotocolStep, FlrpStep,
     MultiShell, MultiMain, Library, FlrpMain, FlrpShell

\* The bits stay those of the sample.
LEMMA LoopTypeKept ==
    ASSUME LoopTypeOK, LoopServed, LoopMove, image' = image
    PROVE  /\ events' \subseteq Bits' /\ snapshot' \subseteq Bits' /\ todo' \subseteq snapshot'
           /\ unserved' \subseteq Bits' /\ loop' \in { "wait", "serve" }
<1> USE DEF LoopTypeOK, LoopServed, LoopMove
<1>0. Bits' = Bits
  BY SameBits
<1>1. CASE UNCHANGED loopVars
  BY <1>0, <1>1 DEF loopVars
<1>2. CASE Wait
  BY <1>0, <1>2 DEF Wait
<1>3. CASE Clear
  BY <1>0, <1>3 DEF Clear
<1>4. CASE \E b \in Bits : SetEvent(b)
  BY <1>0, <1>4 DEF SetEvent
<1>5. CASE \E b \in todo : Done(b)
  BY <1>0, <1>5 DEF Done
<1> QED
  BY <1>0, <1>1, <1>2, <1>3, <1>4, <1>5

\* No request is served that was not raised since it was last served.
LEMMA LoopServedKept ==
    ASSUME LoopTypeOK, LoopServed, LoopMove
    PROVE  LoopServed'
<1> USE DEF LoopTypeOK, LoopServed, ServedOnce, LoopMove
<1>1. CASE UNCHANGED loopVars
  BY <1>1 DEF loopVars
<1>2. CASE Wait
  BY <1>2 DEF Wait
<1>3. CASE Clear
  BY <1>3 DEF Clear
<1>4. CASE \E b \in Bits : SetEvent(b)
  BY <1>4 DEF SetEvent
<1>5. CASE \E b \in todo : Done(b)
  BY <1>5 DEF Done
<1> QED
  BY <1>1, <1>2, <1>3, <1>4, <1>5

\* Every step is one that the callbacks see, and keeps the sample.
LEMMA ServiceSteps == ASSUME [Next]_vars PROVE ServiceStep
<1> USE DEF ServiceStep
<1>0. UNCHANGED modemVars \/ UNCHANGED << image, joined, alarm, scan, queue, services >> => Quiet
  BY DEF Quiet, modemVars, network, queue, services
<1>1. CASE Reboot
  BY <1>1 DEF Reboot
<1>2. CASE ModemStep
  BY <1>2, Zenon DEF ModemStep, Modem, Callback, Press
<1>3. CASE LoopStep
  BY <1>0, <1>3 DEF LoopStep
<1>4. CASE PressButton
  BY <1>0, <1>4 DEF PressButton
<1>5. CASE CmdRangingStart
  BY <1>0, <1>5 DEF CmdRangingStart
<1>6. CASE CmdSendKeepalive
  BY <1>0, <1>6 DEF CmdSendKeepalive
<1>7. CASE CmdReqMacTime
  BY <1>0, <1>7 DEF CmdReqMacTime
<1>8. CASE CmdSetMode
  BY <1>0, <1>8 DEF CmdSetMode
<1>9. CASE WriteManager
  BY <1>0, <1>9 DEF WriteManager
<1>10. CASE WritePriority
  BY <1>0, <1>10 DEF WritePriority
<1>11. CASE RaiseSetMode
  BY <1>0, <1>11 DEF RaiseSetMode
<1>12. CASE ServeRanging
  BY <1>0, <1>12 DEF ServeRanging
<1>13. CASE ServeSetMode
  BY <1>0, <1>13 DEF ServeSetMode
<1>14. CASE ServeKeepalive
  BY <1>0, <1>14 DEF ServeKeepalive
<1>15. CASE ServeReqMacTime
  BY <1>0, <1>15 DEF ServeReqMacTime
<1>16. CASE RangingResults
  BY <1>0, <1>16 DEF RangingResults
<1>17. CASE RxStarts
  BY <1>0, <1>17 DEF RxStarts
<1>18. CASE UserRxCallback
  BY <1>0, <1>18 DEF UserRxCallback
<1>19. CASE UserTxCallback
  BY <1>0, <1>19 DEF UserTxCallback
<1>20. CASE ServeButton
  BY <1>0, <1>20 DEF ServeButton
<1>21. CASE SendFilled
  BY <1>0, <1>21 DEF SendFilled
<1>22. CASE SendKeepAlive
  BY <1>0, <1>22 DEF SendKeepAlive
<1>23. CASE FlrpButton
  BY <1>0, <1>23 DEF FlrpButton
<1>24. CASE CmdKeepalive
  BY <1>0, <1>24 DEF CmdKeepalive
<1>25. CASE CmdSetDeviceEui
  BY <1>0, <1>25 DEF CmdSetDeviceEui
<1>26. CASE DeviceEuiInit
  BY <1>0, <1>26 DEF DeviceEuiInit
<1>27. CASE CmdSetOptions
  BY <1>0, <1>27 DEF CmdSetOptions
<1>28. CASE WriteOptions
  BY <1>0, <1>28 DEF WriteOptions
<1>29. CASE CmdLaunchTx
  BY <1>0, <1>29 DEF CmdLaunchTx
<1>30. CASE CmdLaunchRx
  BY <1>0, <1>30 DEF CmdLaunchRx
<1>31. CASE Launch
  BY <1>0, <1>31 DEF Launch
<1>32. CASE CmdSetPer
  BY <1>0, <1>32 DEF CmdSetPer
<1>33. CASE RestartListening
  BY <1>0, <1>33 DEF RestartListening
<1>34. CASE CmdListening
  BY <1>0, <1>34 DEF CmdListening
<1>35. CASE HandleDownlink
  BY <1>35
<1>36. CASE UNCHANGED vars
  BY <1>0, <1>36 DEF vars
<1> QED
  BY <1>1, <1>2, <1>3, <1>4, <1>5, <1>6, <1>7, <1>8, <1>9, <1>10, <1>11, <1>12,
     <1>13, <1>14, <1>15, <1>16, <1>17, <1>18, <1>19, <1>20, <1>21, <1>22,
     <1>23, <1>24, <1>25, <1>26, <1>27, <1>28, <1>29, <1>30, <1>31, <1>32,
     <1>33, <1>34, <1>35, <1>36 DEF Next, MultiprotocolStep, FlrpStep,
     MultiShell, MultiMain, Library, FlrpMain, FlrpShell

-----------------------------------------------------------------------------
(* The types.                                                              *)

\* The flags of the modem and of its callback.
ModemFlags ==
    /\ alarm \in BOOLEAN /\ call_due \in BOOLEAN
    /\ demod \in BOOLEAN /\ certif_running \in BOOLEAN /\ certif_mode \in BOOLEAN

ModemRest ==
    /\ image \in Images /\ joined \in { "no", "joining", "yes" }
    /\ scan \subseteq { "gnss", "wifi" } /\ pending \subseteq Raises[image]
    /\ handler \in { "idle", "read", "hook", "reboot" } /\ event \in Events
    /\ ads_state \in { "INIT", "STARTED", "STOPPED" }
    /\ press \in { "idle", "decided", "stopping", "starting", "leaving" }

\* Together with the uplink they are the types.
LEMMA ModemTypes == ModemTypeOK <=> ModemFlags /\ uplink \in BOOLEAN /\ ModemRest
  BY Zenon DEF ModemTypeOK, ModemFlags, ModemRest

\* Every step of the modem keeps the types of the rest.
LEMMA ModemRestKept == ASSUME ModemTypeOK, ServiceStep PROVE ModemRest'
<1> USE DEF ModemRest, network, queue, services, Hooked, OwnCallback
<1>1. CASE AlarmExpires
  BY <1>1, ModemTypes, ImagesAssumption DEF AlarmExpires, Raise
<1>2. CASE JoinEnds
  BY <1>2, ModemTypes, ImagesAssumption DEF JoinEnds, Raise
<1>3. CASE NetworkEvent
  BY <1>3, ModemTypes, ImagesAssumption DEF NetworkEvent, Raise
<1>4. CASE ScanEnds
  BY <1>4, ModemTypes, ImagesAssumption DEF ScanEnds, Raise
<1>5. CASE UplinkSent
  BY <1>5, ModemTypes, ImagesAssumption DEF UplinkSent
<1>6. CASE CallCallback
  BY <1>6, ModemTypes, ImagesAssumption DEF CallCallback
<1>7. CASE ReadEvent
  BY <1>7, ModemTypes, ImagesAssumption
     DEF ReadEvent, HelperSwitch, NetworkSilent, GeolocationSwitch, WifiRegionSwitch,
         CertifSwitch
<1>8. CASE ButtonToggles
  BY <1>8, ModemTypes, ImagesAssumption DEF ButtonToggles, WantsStop
<1>9. CASE StartDecided
  BY <1>9, ModemTypes, ImagesAssumption DEF StartDecided
<1>10. CASE ToggleService
  BY <1>10, ModemTypes, ImagesAssumption DEF ToggleService
<1>11. CASE StoreMode
  BY <1>11, ModemTypes, ImagesAssumption DEF StoreMode
<1>12. CASE LeaveAndJoin
  BY <1>12, ModemTypes, ImagesAssumption DEF LeaveAndJoin
<1>13. CASE Hook
  BY <1>13, ModemTypes, ImagesAssumption
     DEF Hook, PeriodicHook, KeepAliveHook, NextEvent
<1>14. CASE ModemReboot
  BY <1>14, ModemTypes, ImagesAssumption DEF ModemReboot, Reset
<1>15. CASE HandleDownlink
  BY <1>15, ModemTypes, ImagesAssumption
     DEF HandleDownlink, FlrpDownlink, FlrpImage, RemoteIgnored, RemoteReset,
         RemoteInit, RemoteTransfer, RemoteListening, NextEvent
<1>16. CASE Quiet
  BY <1>16, ModemTypes, ImagesAssumption DEF Quiet
<1> QED
  BY <1>1, <1>2, <1>3, <1>4, <1>5, <1>6, <1>7, <1>8, <1>9, <1>10, <1>11, <1>12,
     <1>13, <1>14, <1>15, <1>16 DEF ServiceStep

\* Every step keeps the modem's flags Boolean.
LEMMA ModemFlagsKept == ASSUME ModemTypeOK, ServiceStep PROVE ModemFlags'
<1> USE DEF ModemFlags, network, queue, services, Hooked, OwnCallback
<1>1. CASE AlarmExpires
  BY <1>1, ModemTypes, Zenon DEF AlarmExpires, Raise
<1>2. CASE JoinEnds
  BY <1>2, ModemTypes, Zenon DEF JoinEnds, Raise
<1>3. CASE NetworkEvent
  BY <1>3, ModemTypes, Zenon DEF NetworkEvent, Raise
<1>4. CASE ScanEnds
  BY <1>4, ModemTypes, Zenon DEF ScanEnds, Raise
<1>5. CASE UplinkSent
  BY <1>5, ModemTypes, Zenon DEF UplinkSent
<1>6. CASE CallCallback
  BY <1>6, ModemTypes, Zenon DEF CallCallback
<1>7. CASE ReadEvent
  BY <1>7, ModemTypes, Zenon
     DEF ReadEvent, HelperSwitch, NetworkSilent, GeolocationSwitch, WifiRegionSwitch,
         CertifSwitch
<1>8. CASE ButtonToggles
  BY <1>8, ModemTypes, Zenon DEF ButtonToggles, WantsStop
<1>9. CASE StartDecided
  BY <1>9, ModemTypes, Zenon DEF StartDecided
<1>10. CASE ToggleService
  BY <1>10, ModemTypes, Zenon DEF ToggleService
<1>11. CASE StoreMode
  BY <1>11, ModemTypes, Zenon DEF StoreMode
<1>12. CASE LeaveAndJoin
  BY <1>12, ModemTypes, Zenon DEF LeaveAndJoin
<1>13. CASE Hook
  BY <1>13, ModemTypes, Zenon DEF Hook, PeriodicHook, KeepAliveHook, NextEvent
<1>14. CASE ModemReboot
  BY <1>14, ModemTypes, Zenon DEF ModemReboot, Reset
<1>15. CASE HandleDownlink
  BY <1>15, ModemTypes, Zenon
     DEF HandleDownlink, FlrpDownlink, FlrpImage, RemoteIgnored, RemoteReset,
         RemoteInit, RemoteTransfer, RemoteListening, NextEvent
<1>16. CASE Quiet
  BY <1>16, ModemTypes, Zenon DEF Quiet
<1> QED
  BY <1>1, <1>2, <1>3, <1>4, <1>5, <1>6, <1>7, <1>8, <1>9, <1>10, <1>11, <1>12,
     <1>13, <1>14, <1>15, <1>16 DEF ServiceStep

\* So is the uplink.
LEMMA UplinkKept == ASSUME ModemTypeOK, [Next]_vars PROVE uplink' \in BOOLEAN
<1> USE DEF modemVars, network, RequestUplink
<1>1. CASE Reboot
  BY <1>1, ModemTypes, Zenon DEF Reboot, ModemReboot, Reset
<1>2. CASE ModemStep
  BY <1>2, ModemTypes, Zenon
     DEF ModemStep, Modem, Callback, Press, AlarmExpires, Raise, JoinEnds, NetworkEvent,
         ScanEnds, UplinkSent, CallCallback, ReadEvent, HelperSwitch, NetworkSilent,
         GeolocationSwitch, WifiRegionSwitch, CertifSwitch, ButtonToggles, WantsStop,
         StartDecided, ToggleService, StoreMode, LeaveAndJoin, Hook, PeriodicHook,
         KeepAliveHook, NextEvent
<1>3. CASE LoopStep
  BY <1>3, ModemTypes, Zenon DEF LoopStep
<1>4. CASE PressButton
  BY <1>4, ModemTypes, Zenon DEF PressButton
<1>5. CASE CmdRangingStart
  BY <1>5, ModemTypes, Zenon DEF CmdRangingStart
<1>6. CASE CmdSendKeepalive
  BY <1>6, ModemTypes, Zenon DEF CmdSendKeepalive
<1>7. CASE CmdReqMacTime
  BY <1>7, ModemTypes, Zenon DEF CmdReqMacTime
<1>8. CASE CmdSetMode
  BY <1>8, ModemTypes, Zenon DEF CmdSetMode
<1>9. CASE WriteManager
  BY <1>9, ModemTypes, Zenon DEF WriteManager
<1>10. CASE WritePriority
  BY <1>10, ModemTypes, Zenon DEF WritePriority
<1>11. CASE RaiseSetMode
  BY <1>11, ModemTypes, Zenon DEF RaiseSetMode
<1>12. CASE ServeRanging
  BY <1>12, ModemTypes, Zenon DEF ServeRanging
<1>13. CASE ServeSetMode
  BY <1>13, ModemTypes, Zenon DEF ServeSetMode
<1>14. CASE ServeKeepalive
  BY <1>14, ModemTypes, Zenon DEF ServeKeepalive
<1>15. CASE ServeReqMacTime
  BY <1>15, ModemTypes, Zenon DEF ServeReqMacTime
<1>16. CASE RangingResults
  BY <1>16, ModemTypes, Zenon DEF RangingResults
<1>17. CASE RxStarts
  BY <1>17, ModemTypes, Zenon DEF RxStarts
<1>18. CASE UserRxCallback
  BY <1>18, ModemTypes, Zenon DEF UserRxCallback
<1>19. CASE UserTxCallback
  BY <1>19, ModemTypes, Zenon DEF UserTxCallback
<1>20. CASE ServeButton
  BY <1>20, ModemTypes, Zenon DEF ServeButton
<1>21. CASE SendFilled
  BY <1>21, ModemTypes, Zenon DEF SendFilled
<1>22. CASE SendKeepAlive
  BY <1>22, ModemTypes, Zenon DEF SendKeepAlive
<1>23. CASE FlrpButton
  BY <1>23, ModemTypes, Zenon DEF FlrpButton
<1>24. CASE CmdKeepalive
  BY <1>24, ModemTypes, Zenon DEF CmdKeepalive
<1>25. CASE CmdSetDeviceEui
  BY <1>25, ModemTypes, Zenon DEF CmdSetDeviceEui
<1>26. CASE DeviceEuiInit
  BY <1>26, ModemTypes, Zenon DEF DeviceEuiInit
<1>27. CASE CmdSetOptions
  BY <1>27, ModemTypes, Zenon DEF CmdSetOptions
<1>28. CASE WriteOptions
  BY <1>28, ModemTypes, Zenon DEF WriteOptions
<1>29. CASE CmdLaunchTx
  BY <1>29, ModemTypes, Zenon DEF CmdLaunchTx
<1>30. CASE CmdLaunchRx
  BY <1>30, ModemTypes, Zenon DEF CmdLaunchRx
<1>31. CASE Launch
  BY <1>31, ModemTypes, Zenon DEF Launch
<1>32. CASE CmdSetPer
  BY <1>32, ModemTypes, Zenon DEF CmdSetPer
<1>33. CASE RestartListening
  BY <1>33, ModemTypes, Zenon DEF RestartListening
<1>34. CASE CmdListening
  BY <1>34, ModemTypes, Zenon DEF CmdListening
<1>35. CASE HandleDownlink
  BY <1>35, ModemTypes, Zenon DEF HandleDownlink
<1>36. CASE UNCHANGED vars
  BY <1>36, ModemTypes, Zenon DEF vars
<1> QED
  BY <1>1, <1>2, <1>3, <1>4, <1>5, <1>6, <1>7, <1>8, <1>9, <1>10, <1>11, <1>12,
     <1>13, <1>14, <1>15, <1>16, <1>17, <1>18, <1>19, <1>20, <1>21, <1>22,
     <1>23, <1>24, <1>25, <1>26, <1>27, <1>28, <1>29, <1>30, <1>31, <1>32,
     <1>33, <1>34, <1>35, <1>36 DEF Next, MultiprotocolStep, FlrpStep,
     MultiShell, MultiMain, Library, FlrpMain, FlrpShell

\* The flags of the two applications.
AppFlags ==
    /\ is_mode_set \in BOOLEAN /\ is_manager \in BOOLEAN /\ exchange \in BOOLEAN
    /\ is_device_eui_set \in BOOLEAN /\ flrp_api_menu_listening \in BOOLEAN /\ sending \in BOOLEAN

AppRest ==
    /\ rac_priority \in Priorities /\ ranging_params \in { << >> } \cup (BOOLEAN \X Priorities)
    /\ options \in Options /\ data_flrp \in { "zero", "filled", "received" }
    /\ lib \in [init : BOOLEAN, busy : { "no", "tx", "rx" }, listening : BOOLEAN, options : Options]

\* Both together are the types.
LEMMA AppTypes == MultiTypeOK /\ FlrpTypeOK <=> AppFlags /\ AppRest
  BY Zenon DEF MultiTypeOK, FlrpTypeOK, AppFlags, AppRest

\* Every step keeps their flags Boolean.
LEMMA AppFlagsKept == ASSUME AppFlags, AppRest, ShellOf, AppStep PROVE AppFlags'
<1> USE DEF AppFlags, modemVars, console, multiprotocolVars, mode, flrpVars, menu,
            Multi, FlrpImage
<1>1. CASE Reboot
  BY <1>1, Zenon DEF Reboot, ModemReboot, LoopReset, MultiReset, FlrpReset
<1>2. CASE Still
  BY <1>2, Zenon DEF Still
<1>3. CASE PressButton /\ UNCHANGED flrpVars
  BY <1>3, Zenon DEF PressButton
<1>4. CASE CmdRangingStart /\ UNCHANGED flrpVars
  BY <1>4, Zenon DEF CmdRangingStart
<1>5. CASE CmdSendKeepalive /\ UNCHANGED flrpVars
  BY <1>5, Zenon DEF CmdSendKeepalive
<1>6. CASE CmdReqMacTime /\ UNCHANGED flrpVars
  BY <1>6, Zenon DEF CmdReqMacTime
<1>7. CASE CmdSetMode /\ UNCHANGED flrpVars
  BY <1>7, Zenon DEF CmdSetMode
<1>8. CASE WriteManager /\ UNCHANGED flrpVars
  <2>1. shell[2] \in BOOLEAN
    BY <1>8 DEF WriteManager, ShellOf
  <2> QED
    BY <1>8, <2>1, Zenon DEF WriteManager
<1>9. CASE WritePriority /\ UNCHANGED flrpVars
  BY <1>9, Zenon DEF WritePriority
<1>10. CASE RaiseSetMode /\ UNCHANGED flrpVars
  BY <1>10, Zenon DEF RaiseSetMode
<1>11. CASE ServeRanging /\ UNCHANGED flrpVars
  BY <1>11, Zenon DEF ServeRanging
<1>12. CASE ServeSetMode /\ UNCHANGED flrpVars
  BY <1>12, Zenon DEF ServeSetMode
<1>13. CASE ServeKeepalive /\ UNCHANGED flrpVars
  BY <1>13, Zenon DEF ServeKeepalive
<1>14. CASE ServeReqMacTime /\ UNCHANGED flrpVars
  BY <1>14, Zenon DEF ServeReqMacTime
<1>15. CASE RangingResults /\ UNCHANGED flrpVars
  BY <1>15, Zenon DEF RangingResults
<1>16. CASE RxStarts /\ UNCHANGED multiprotocolVars
  BY <1>16, Zenon DEF RxStarts, Free
<1>17. CASE UserRxCallback /\ UNCHANGED multiprotocolVars
  BY <1>17, Zenon DEF UserRxCallback, SetupTxBuffer
<1>18. CASE UserTxCallback /\ UNCHANGED multiprotocolVars
  BY <1>18, Zenon DEF UserTxCallback, SetupTxBuffer
<1>19. CASE ServeButton /\ UNCHANGED multiprotocolVars
  BY <1>19, Zenon DEF ServeButton, SetupTxBuffer
<1>20. CASE SendFilled /\ UNCHANGED multiprotocolVars
  BY <1>20, Zenon DEF SendFilled, Initiate, Free
<1>21. CASE SendKeepAlive /\ UNCHANGED multiprotocolVars
  BY <1>21, Zenon DEF SendKeepAlive
<1>22. CASE FlrpButton /\ UNCHANGED multiprotocolVars
  BY <1>22, Zenon DEF FlrpButton
<1>23. CASE CmdKeepalive /\ UNCHANGED multiprotocolVars
  BY <1>23, Zenon DEF CmdKeepalive, Command
<1>24. CASE CmdSetDeviceEui /\ UNCHANGED multiprotocolVars
  BY <1>24, Zenon DEF CmdSetDeviceEui, Command, Idle
<1>25. CASE DeviceEuiInit /\ UNCHANGED multiprotocolVars
  BY <1>25, Zenon DEF DeviceEuiInit, ApiInit
<1>26. CASE CmdSetOptions /\ UNCHANGED multiprotocolVars
  BY <1>26, Zenon DEF CmdSetOptions, Command, Idle
<1>27. CASE WriteOptions /\ UNCHANGED multiprotocolVars
  BY <1>27, Zenon DEF WriteOptions
<1>28. CASE CmdLaunchTx /\ UNCHANGED multiprotocolVars
  BY <1>28, Zenon DEF CmdLaunchTx, SetupTxBuffer, Command, Idle
<1>29. CASE CmdLaunchRx /\ UNCHANGED multiprotocolVars
  BY <1>29, Zenon DEF CmdLaunchRx, Command, Idle
<1>30. CASE Launch /\ UNCHANGED multiprotocolVars
  BY <1>30, Zenon DEF Launch, Initiate, Free
<1>31. CASE CmdSetPer /\ UNCHANGED multiprotocolVars
  BY <1>31, Zenon DEF CmdSetPer, SetListening, Command, Idle
<1>32. CASE RestartListening /\ UNCHANGED multiprotocolVars
  BY <1>32, Zenon DEF RestartListening, SetListening
<1>33. CASE CmdListening /\ UNCHANGED multiprotocolVars
  BY <1>33, Zenon DEF CmdListening, SetListening, Command
<1>34. CASE HandleDownlink /\ UNCHANGED multiprotocolVars /\ RemoteIgnored
  BY <1>34, Zenon DEF HandleDownlink, FlrpDownlink, RemoteIgnored
<1>35. CASE HandleDownlink /\ UNCHANGED multiprotocolVars /\ RemoteReset
  BY <1>35, Zenon DEF HandleDownlink, FlrpDownlink, RemoteReset
<1>36. CASE HandleDownlink /\ UNCHANGED multiprotocolVars /\ RemoteInit
  BY <1>36, Zenon DEF HandleDownlink, FlrpDownlink, RemoteInit, ApiInit
<1>37. CASE HandleDownlink /\ UNCHANGED multiprotocolVars /\ RemoteTransfer
  BY <1>37, Zenon
     DEF HandleDownlink, FlrpDownlink, RemoteTransfer, Initiate, Free, SetupTxBuffer
<1>38. CASE HandleDownlink /\ UNCHANGED multiprotocolVars /\ RemoteListening
  BY <1>38, Zenon DEF HandleDownlink, FlrpDownlink, RemoteListening, SetListening
<1> QED
  BY <1>1, <1>2, <1>3, <1>4, <1>5, <1>6, <1>7, <1>8, <1>9, <1>10, <1>11, <1>12,
     <1>13, <1>14, <1>15, <1>16, <1>17, <1>18, <1>19, <1>20, <1>21, <1>22,
     <1>23, <1>24, <1>25, <1>26, <1>27, <1>28, <1>29, <1>30, <1>31, <1>32,
     <1>33, <1>34, <1>35, <1>36, <1>37, <1>38 DEF AppStep, MultiMoves,
     FlrpMoves, HandleDownlink

\* Every step keeps the types of the rest.
LEMMA AppRestKept == ASSUME AppFlags, AppRest, ShellOf, AppStep PROVE AppRest'
<1> USE DEF AppRest, AppFlags, ShellOf, modemVars, console, multiprotocolVars, mode,
            flrpVars, menu, Multi, FlrpImage
<1>1. CASE Reboot
  <2>1. /\ rac_priority' = DefaultPriority /\ ranging_params' = << >> /\ options' = DefaultOptions
        /\ data_flrp' \in { "zero", "filled" }
    BY <1>1 DEF Reboot, MultiReset, FlrpReset
  <2>2. \/ lib' = [init |-> FALSE, busy |-> "no", listening |-> FALSE, options |-> DefaultOptions]
        \/ lib' = [init |-> TRUE, busy |-> "no", listening |-> TRUE, options |-> DefaultOptions]
    BY <1>1 DEF Reboot, FlrpReset
  <2>3. lib' \in [init : BOOLEAN, busy : { "no", "tx", "rx" },
                  listening : BOOLEAN, options : Options]
    <3>1. CASE lib' = [init |-> FALSE, busy |-> "no", listening |-> FALSE,
                       options |-> DefaultOptions]
      BY <3>1, OptionsAssumption
    <3>2. CASE lib' = [init |-> TRUE, busy |-> "no", listening |-> TRUE, options |-> DefaultOptions]
      BY <3>2, OptionsAssumption
    <3> QED
      BY <2>2, <3>1, <3>2
  <2> QED
    BY <2>1, <2>3, OptionsAssumption, PrioritiesAssumption, Zenon
<1>2. CASE Still
  BY <1>2, OptionsAssumption, PrioritiesAssumption DEF Still
<1>3. CASE PressButton /\ UNCHANGED flrpVars
  BY <1>3, OptionsAssumption, PrioritiesAssumption DEF PressButton
<1>4. CASE CmdRangingStart /\ UNCHANGED flrpVars
  BY <1>4, OptionsAssumption, PrioritiesAssumption DEF CmdRangingStart
<1>5. CASE CmdSendKeepalive /\ UNCHANGED flrpVars
  BY <1>5, OptionsAssumption, PrioritiesAssumption DEF CmdSendKeepalive
<1>6. CASE CmdReqMacTime /\ UNCHANGED flrpVars
  BY <1>6, OptionsAssumption, PrioritiesAssumption DEF CmdReqMacTime
<1>7. CASE CmdSetMode /\ UNCHANGED flrpVars
  BY <1>7, OptionsAssumption, PrioritiesAssumption DEF CmdSetMode
<1>8. CASE WriteManager /\ UNCHANGED flrpVars
  BY <1>8, OptionsAssumption, PrioritiesAssumption DEF WriteManager
<1>9. CASE WritePriority /\ UNCHANGED flrpVars
  BY <1>9, OptionsAssumption, PrioritiesAssumption DEF WritePriority
<1>10. CASE RaiseSetMode /\ UNCHANGED flrpVars
  BY <1>10, OptionsAssumption, PrioritiesAssumption DEF RaiseSetMode
<1>11. CASE ServeRanging /\ UNCHANGED flrpVars
  BY <1>11, OptionsAssumption, PrioritiesAssumption DEF ServeRanging
<1>12. CASE ServeSetMode /\ UNCHANGED flrpVars
  BY <1>12, OptionsAssumption, PrioritiesAssumption DEF ServeSetMode
<1>13. CASE ServeKeepalive /\ UNCHANGED flrpVars
  BY <1>13, OptionsAssumption, PrioritiesAssumption DEF ServeKeepalive
<1>14. CASE ServeReqMacTime /\ UNCHANGED flrpVars
  BY <1>14, OptionsAssumption, PrioritiesAssumption DEF ServeReqMacTime
<1>15. CASE RangingResults /\ UNCHANGED flrpVars
  BY <1>15, OptionsAssumption, PrioritiesAssumption DEF RangingResults
<1>16. CASE RxStarts /\ UNCHANGED multiprotocolVars
  BY <1>16, OptionsAssumption, PrioritiesAssumption DEF RxStarts, Free
<1>17. CASE UserRxCallback /\ UNCHANGED multiprotocolVars
  BY <1>17, OptionsAssumption, PrioritiesAssumption DEF UserRxCallback, SetupTxBuffer
<1>18. CASE UserTxCallback /\ UNCHANGED multiprotocolVars
  BY <1>18, OptionsAssumption, PrioritiesAssumption DEF UserTxCallback, SetupTxBuffer
<1>19. CASE ServeButton /\ UNCHANGED multiprotocolVars
  BY <1>19, OptionsAssumption, PrioritiesAssumption DEF ServeButton, SetupTxBuffer
<1>20. CASE SendFilled /\ UNCHANGED multiprotocolVars
  BY <1>20, OptionsAssumption, PrioritiesAssumption DEF SendFilled, Initiate, Free
<1>21. CASE SendKeepAlive /\ UNCHANGED multiprotocolVars
  BY <1>21, OptionsAssumption, PrioritiesAssumption DEF SendKeepAlive
<1>22. CASE FlrpButton /\ UNCHANGED multiprotocolVars
  BY <1>22, OptionsAssumption, PrioritiesAssumption DEF FlrpButton
<1>23. CASE CmdKeepalive /\ UNCHANGED multiprotocolVars
  BY <1>23, OptionsAssumption, PrioritiesAssumption DEF CmdKeepalive, Command
<1>24. CASE CmdSetDeviceEui /\ UNCHANGED multiprotocolVars
  BY <1>24, OptionsAssumption, PrioritiesAssumption DEF CmdSetDeviceEui, Command, Idle
<1>25. CASE DeviceEuiInit /\ UNCHANGED multiprotocolVars
  BY <1>25, OptionsAssumption, PrioritiesAssumption DEF DeviceEuiInit, ApiInit
<1>26. CASE CmdSetOptions /\ UNCHANGED multiprotocolVars
  BY <1>26, OptionsAssumption, PrioritiesAssumption DEF CmdSetOptions, Command, Idle
<1>27. CASE WriteOptions /\ UNCHANGED multiprotocolVars
  BY <1>27, OptionsAssumption, PrioritiesAssumption DEF WriteOptions
<1>28. CASE CmdLaunchTx /\ UNCHANGED multiprotocolVars
  BY <1>28, OptionsAssumption, PrioritiesAssumption
     DEF CmdLaunchTx, SetupTxBuffer, Command, Idle
<1>29. CASE CmdLaunchRx /\ UNCHANGED multiprotocolVars
  BY <1>29, OptionsAssumption, PrioritiesAssumption DEF CmdLaunchRx, Command, Idle
<1>30. CASE Launch /\ UNCHANGED multiprotocolVars
  BY <1>30, OptionsAssumption, PrioritiesAssumption DEF Launch, Initiate, Free
<1>31. CASE CmdSetPer /\ UNCHANGED multiprotocolVars
  BY <1>31, OptionsAssumption, PrioritiesAssumption
     DEF CmdSetPer, SetListening, Command, Idle
<1>32. CASE RestartListening /\ UNCHANGED multiprotocolVars
  BY <1>32, OptionsAssumption, PrioritiesAssumption DEF RestartListening, SetListening
<1>33. CASE CmdListening /\ UNCHANGED multiprotocolVars
  BY <1>33, OptionsAssumption, PrioritiesAssumption
     DEF CmdListening, SetListening, Command
<1>34. CASE HandleDownlink /\ UNCHANGED multiprotocolVars /\ RemoteIgnored
  BY <1>34, OptionsAssumption, PrioritiesAssumption
     DEF HandleDownlink, FlrpDownlink, RemoteIgnored
<1>35. CASE HandleDownlink /\ UNCHANGED multiprotocolVars /\ RemoteReset
  BY <1>35, OptionsAssumption, PrioritiesAssumption
     DEF HandleDownlink, FlrpDownlink, RemoteReset
<1>36. CASE HandleDownlink /\ UNCHANGED multiprotocolVars /\ RemoteInit
  BY <1>36, OptionsAssumption, PrioritiesAssumption
     DEF HandleDownlink, FlrpDownlink, RemoteInit, ApiInit
<1>37. CASE HandleDownlink /\ UNCHANGED multiprotocolVars /\ RemoteTransfer
  BY <1>37, OptionsAssumption, PrioritiesAssumption
     DEF HandleDownlink, FlrpDownlink, RemoteTransfer, Initiate, Free, SetupTxBuffer
<1>38. CASE HandleDownlink /\ UNCHANGED multiprotocolVars /\ RemoteListening
  BY <1>38, OptionsAssumption, PrioritiesAssumption
     DEF HandleDownlink, FlrpDownlink, RemoteListening, SetListening
<1> QED
  BY <1>1, <1>2, <1>3, <1>4, <1>5, <1>6, <1>7, <1>8, <1>9, <1>10, <1>11, <1>12,
     <1>13, <1>14, <1>15, <1>16, <1>17, <1>18, <1>19, <1>20, <1>21, <1>22,
     <1>23, <1>24, <1>25, <1>26, <1>27, <1>28, <1>29, <1>30, <1>31, <1>32,
     <1>33, <1>34, <1>35, <1>36, <1>37, <1>38 DEF AppStep, MultiMoves,
     FlrpMoves, HandleDownlink

\* No step changes the sample.
LEMMA SameSample == ASSUME [Next]_vars PROVE image' = image
<1> USE DEF modemVars
<1>1. CASE Reboot
  BY <1>1 DEF Reboot, ModemReboot
<1>2. CASE ModemStep
  BY <1>2, SameImage DEF ModemStep
<1>3. CASE LoopStep
  BY <1>3 DEF LoopStep
<1>4. CASE PressButton
  BY <1>4 DEF PressButton
<1>5. CASE CmdRangingStart
  BY <1>5 DEF CmdRangingStart
<1>6. CASE CmdSendKeepalive
  BY <1>6 DEF CmdSendKeepalive
<1>7. CASE CmdReqMacTime
  BY <1>7 DEF CmdReqMacTime
<1>8. CASE CmdSetMode
  BY <1>8 DEF CmdSetMode
<1>9. CASE WriteManager
  BY <1>9 DEF WriteManager
<1>10. CASE WritePriority
  BY <1>10 DEF WritePriority
<1>11. CASE RaiseSetMode
  BY <1>11 DEF RaiseSetMode
<1>12. CASE ServeRanging
  BY <1>12 DEF ServeRanging
<1>13. CASE ServeSetMode
  BY <1>13 DEF ServeSetMode
<1>14. CASE ServeKeepalive
  BY <1>14 DEF ServeKeepalive
<1>15. CASE ServeReqMacTime
  BY <1>15 DEF ServeReqMacTime
<1>16. CASE RangingResults
  BY <1>16 DEF RangingResults
<1>17. CASE RxStarts
  BY <1>17 DEF RxStarts
<1>18. CASE UserRxCallback
  BY <1>18 DEF UserRxCallback
<1>19. CASE UserTxCallback
  BY <1>19 DEF UserTxCallback
<1>20. CASE ServeButton
  BY <1>20 DEF ServeButton
<1>21. CASE SendFilled
  BY <1>21 DEF SendFilled
<1>22. CASE SendKeepAlive
  BY <1>22 DEF SendKeepAlive
<1>23. CASE FlrpButton
  BY <1>23 DEF FlrpButton
<1>24. CASE CmdKeepalive
  BY <1>24 DEF CmdKeepalive
<1>25. CASE CmdSetDeviceEui
  BY <1>25 DEF CmdSetDeviceEui
<1>26. CASE DeviceEuiInit
  BY <1>26 DEF DeviceEuiInit
<1>27. CASE CmdSetOptions
  BY <1>27 DEF CmdSetOptions
<1>28. CASE WriteOptions
  BY <1>28 DEF WriteOptions
<1>29. CASE CmdLaunchTx
  BY <1>29 DEF CmdLaunchTx
<1>30. CASE CmdLaunchRx
  BY <1>30 DEF CmdLaunchRx
<1>31. CASE Launch
  BY <1>31 DEF Launch
<1>32. CASE CmdSetPer
  BY <1>32 DEF CmdSetPer
<1>33. CASE RestartListening
  BY <1>33 DEF RestartListening
<1>34. CASE CmdListening
  BY <1>34 DEF CmdListening
<1>35. CASE HandleDownlink
  BY <1>35 DEF HandleDownlink
<1>36. CASE UNCHANGED vars
  BY <1>36 DEF vars
<1> QED
  BY <1>1, <1>2, <1>3, <1>4, <1>5, <1>6, <1>7, <1>8, <1>9, <1>10, <1>11, <1>12,
     <1>13, <1>14, <1>15, <1>16, <1>17, <1>18, <1>19, <1>20, <1>21, <1>22,
     <1>23, <1>24, <1>25, <1>26, <1>27, <1>28, <1>29, <1>30, <1>31, <1>32,
     <1>33, <1>34, <1>35, <1>36 DEF Next, MultiprotocolStep, FlrpStep,
     MultiShell, MultiMain, Library, FlrpMain, FlrpShell

-----------------------------------------------------------------------------
(* The theorems.                                                           *)

\* The invariant holds at the start.
LEMMA Start == Init => IInv
<1> SUFFICES ASSUME Init PROVE IInv
  OBVIOUS
<1>1. ModemTypeOK
  <2>1. ModemFlags /\ uplink \in BOOLEAN
    BY Zenon DEF Init, ModemInit, Reset, ModemFlags
  <2>2. ModemRest
    BY ImagesAssumption DEF Init, ModemInit, Reset, ModemRest, Events
  <2> QED
    BY <2>1, <2>2, ModemTypes
<1>2. MultiTypeOK /\ FlrpTypeOK
  <2>1. AppFlags
    BY Zenon DEF Init, LoopReset, MultiReset, FlrpReset, AppFlags
  <2>2. lib \in [init : BOOLEAN, busy : { "no", "tx", "rx" },
                 listening : BOOLEAN, options : Options]
    <3>1. CASE lib = [init |-> FALSE, busy |-> "no", listening |-> FALSE,
                      options |-> DefaultOptions]
      BY <3>1, OptionsAssumption
    <3>2. CASE lib = [init |-> TRUE, busy |-> "no", listening |-> TRUE, options |-> DefaultOptions]
      BY <3>2, OptionsAssumption
    <3> QED
      BY <3>1, <3>2 DEF Init, FlrpReset
  <2>3. AppRest
    BY <2>2, OptionsAssumption, PrioritiesAssumption
       DEF Init, MultiReset, FlrpReset, AppRest
  <2> QED
    BY <2>1, <2>3, AppTypes
<1>3. LoopTypeOK /\ LoopServed
  BY DEF Init, LoopReset, LoopTypeOK, LoopServed, ServedOnce
<1>4. ServicesInv
  BY DEF Init, ModemInit, Reset, ServicesInv, AlarmServed, PressServed, ServicesKept,
     AlarmKept,
         ScansKept, AlmanacKept, CertifKept
<1>5. ShellOf
  BY DEF Init, LoopReset, ShellOf
<1>6. SettingsOf
  BY DEF Init, LoopReset, MultiReset, FlrpReset, SettingsOf
<1>7. BufferOf
  BY DEF Init, LoopReset, FlrpReset, BufferOf
<1> QED
  BY <1>1, <1>2, <1>3, <1>4, <1>5, <1>6, <1>7 DEF IInv, TypeOK

\* Every step of the system preserves the invariant.
LEMMA Kept == IInv /\ [Next]_vars => IInv'
<1> SUFFICES ASSUME IInv, [Next]_vars PROVE IInv'
  OBVIOUS
<1> USE DEF IInv, TypeOK
<1>1. ServiceStep /\ AppStep /\ LoopMove
  BY ServiceSteps, AppSteps, LoopMoves
<1>2. ModemTypeOK'
  BY <1>1, ModemTypes, ModemFlagsKept, ModemRestKept, UplinkKept
     DEF ModemTypeOK, ModemFlags, ModemRest
<1>3. AppFlags' /\ AppRest'
  BY <1>1, AppTypes, AppFlagsKept, AppRestKept
<1>4. MultiTypeOK' /\ FlrpTypeOK'
  BY <1>3, Zenon DEF MultiTypeOK, FlrpTypeOK, AppFlags, AppRest
<1>5. ServicesInv'
  BY <1>1, AlarmsGoOn, ScansGoOn, PressServedKept, AlmanacAgrees, CertifAgrees
     DEF ServicesInv, ServicesKept
<1>6. image' = image
  BY SameSample
<1>7. LoopTypeOK' /\ LoopServed'
  BY <1>1, <1>6, LoopTypeKept, LoopServedKept DEF LoopTypeOK
<1>8. ShellOf' /\ SettingsOf' /\ BufferOf'
  BY <1>1, ShellOfKept, SettingsOfKept, BufferOfKept
<1> QED
  BY <1>2, <1>4, <1>5, <1>7, <1>8

\* The invariant holds always.
THEOREM Inductive == Spec => []IInv
  BY Start, Kept, PTL DEF Spec

\* Every variable of the samples and of the modem keeps its type.
THEOREM TypeCorrect == Spec => []TypeOK
<1>1. IInv => TypeOK
  BY DEF IInv
<1> QED
  BY <1>1, Inductive, PTL

\* No chain of callbacks that keeps itself going breaks, and the application's
\* view of a service of the modem is the modem's (modem_event_callback of the
\* helper and of the samples that have their own).
THEOREM KeepsServices == Spec => []ServicesKept
<1>1. IInv => ServicesKept
  BY DEF IInv, ServicesInv
<1> QED
  BY <1>1, Inductive, PTL

\* However requests are raised, the main loop serves none that was not raised
\* since it last served it (main of both samples).
THEOREM ServesOnce == Spec => []ServedOnce
<1>1. IInv => ServedOnce
  BY DEF IInv, LoopServed
<1> QED
  BY <1>1, Inductive, PTL

\* The library never starts to send a buffer that was not filled for it
\* (flrp_api_initiate_tx and the two callbacks of the library).
THEOREM SendsFilledOnly == Spec => TxStartsFilled
<1>1. IInv /\ [Next]_vars => [FilledWhenSent]_vars
  <2> SUFFICES ASSUME IInv, [Next]_vars PROVE FilledWhenSent
    OBVIOUS
  <2> QED
    BY AppSteps, SendsFilled DEF IInv, TypeOK
<1> QED
  BY <1>1, Inductive, PTL DEF Spec, TxStartsFilled
=============================================================================
