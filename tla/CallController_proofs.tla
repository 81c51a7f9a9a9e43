----------------------- MODULE CallController_proofs -----------------------
(***************************************************************************)
(* What is proved of CallController for every value of its constants: its  *)
(* variables keep their types, and no handler makes a change of status     *)
(* that assertTransition refuses; and, when no release of the writer and   *)
(* no restart comes in while interrupt() waits (EndingRaces = {}), the log *)
(* stays open as long as the call needs it.                                *)
(***************************************************************************)
EXTENDS CallController, TLAPS

USE MaxPartAssumption, LimitAssumption, BoundsAssumption
USE DEF Parts, NoPart, outVars, setVars, wrVars, launchVars, helpVars, endVars, logVars

(* The program before its call exists satisfies the invariant.               *)
LEMMA InitInv == Init => CoreInv /\ WriterInv
<1> SUFFICES ASSUME Init PROVE CoreInv /\ WriterInv OBVIOUS
<1>1. LogTypeOK BY DEF Init, LogInit, LogTypeOK, LogStates
<1>2. StatusTypeOK BY DEF Init, StatusTypeOK, Statuses
<1>3. SettingsTypeOK
  <2>1. fuel \in 0..MaxFuel /\ holds \in 0..MaxHolds /\ auto \in 0..Limit BY DEF Init
  <2>2. muted \in BOOLEAN /\ writer \in BOOLEAN /\ restarting \in BOOLEAN BY DEF Init
  <2>3. scope \in {"apps", "system"} BY DEF Init
  <2> QED BY <2>1, <2>2, <2>3 DEF SettingsTypeOK
<1>4. PartTypeOK BY DEF Init, PartTypeOK, NoHelpers, NoStops, FreshRun, PartRuns
<1>5. RecoveryTypeOK BY DEF Init, RecoveryTypeOK
<1>6. TypeOK BY <1>1, <1>2, <1>3, <1>4, <1>5 DEF TypeOK
<1>7. /\ DownHoldsNothing /\ StartRemembersBefore /\ RestartWhileTaking
      /\ StopMatchesStatus /\ WriterInv
  BY DEF Init, DownHoldsNothing, StartRemembersBefore, RestartWhileTaking, StopMatchesStatus,
         WriterInv, InterruptMatchesStatus, WriterWhileNeeded, Live, Taking
<1> QED BY <1>6, <1>7 DEF CoreInv

(* Types survive every step.  A reopen that fails puts back the status it     *)
(* remembered, so that part of the invariant is needed here already.         *)
LEMMA TypeStep == ASSUME CoreInv, [Next]_vars PROVE TypeOK'
<1>1. CASE Create
  BY <1>1 DEF CoreInv, TypeOK, LogTypeOK, LogStates, Create, CallCreated, StatusTypeOK,
         Statuses, SettingsTypeOK, PartTypeOK, RecoveryTypeOK
<1>2. ASSUME NEW spawned \in BOOLEAN, Begin(spawned) PROVE TypeOK'
  BY <1>2 DEF CoreInv, TypeOK, LogTypeOK, LogStates, Begin, StatusTypeOK, Statuses,
         Launch, SettingsTypeOK, PartTypeOK, RecoveryTypeOK
<1>3. ASSUME NEW spawned \in BOOLEAN, RestartLive(spawned) PROVE TypeOK'
  BY <1>3 DEF CoreInv, TypeOK, LogTypeOK, LogStates, RestartLive, Restartable,
         ReplaceHelper, StatusTypeOK, Statuses, Launch, SettingsTypeOK, Spend,
         PartTypeOK, RecoveryTypeOK
<1>4. ASSUME NEW spawned \in BOOLEAN, Reopen(spawned) PROVE TypeOK'
  BY <1>4 DEF CoreInv, TypeOK, LogTypeOK, LogStates, Reopen, StatusTypeOK, Statuses,
         Launch, SettingsTypeOK, Spend, PartTypeOK, RecoveryTypeOK
<1>5. ASSUME NEW h \in {"ok", "exited"}, Capturing(h) PROVE TypeOK'
  <2>1. LogTypeOK' /\ RecoveryTypeOK'
    BY <1>5 DEF CoreInv, TypeOK, LogTypeOK, LogStates, PartTypeOK, SettingsTypeOK,
           Capturing, PartStarted, PauseToTakeOver, RecoveryTypeOK
  <2>2. StatusTypeOK' /\ SettingsTypeOK'
    BY <1>5 DEF CoreInv, TypeOK, StatusTypeOK, Statuses, Capturing, SettingsTypeOK
  <2>3. PartTypeOK'
    <3>1. run' \in PartRuns
      BY <1>5 DEF CoreInv, TypeOK, SettingsTypeOK, PauseToTakeOver, FreshRun, PartRuns,
                  Capturing
    <3> QED BY <1>5, <3>1 DEF CoreInv, TypeOK, PartTypeOK, Capturing
  <2> QED BY <2>1, <2>2, <2>3 DEF TypeOK
<1>6. CASE EarlyExit
  BY <1>6 DEF CoreInv, TypeOK, LogTypeOK, LogStates, EarlyExit, LaunchFails,
         StatusTypeOK, Statuses, SettingsTypeOK, PartTypeOK, RecoveryTypeOK
<1>7. CASE LaunchTimeout
  BY <1>7 DEF CoreInv, TypeOK, LogTypeOK, LogStates, LaunchTimeout, LaunchFails,
         StatusTypeOK, Statuses, SettingsTypeOK, PartTypeOK, RecoveryTypeOK
<1>8. CASE BeginFails
  BY <1>8 DEF CoreInv, TypeOK, LogTypeOK, LogStates, BeginFails, LaunchReturns,
         CallFailed, StatusTypeOK, Statuses, SettingsTypeOK, CloseWriter, PartTypeOK,
         RecoveryTypeOK
<1>9. CASE ReopenFails
  BY <1>9 DEF CoreInv, StartRemembersBefore, TypeOK, LogTypeOK, LogStates, ReopenFails,
         LaunchReturns, StatusTypeOK, Statuses, BackTo, SettingsTypeOK, CloseWriter,
         PartTypeOK, RecoveryTypeOK
<1>10. CASE ReplaceFails
  <2>1. LogTypeOK' /\ RecoveryTypeOK'
    BY <1>10 DEF CoreInv, TypeOK, LogTypeOK, LogStates, ReplaceFails, LaunchReturns,
           RecoveryTypeOK
  <2>2. StatusTypeOK' /\ SettingsTypeOK'
    BY <1>10 DEF CoreInv, TypeOK, StatusTypeOK, Statuses, ReplaceFails, LaunchReturns,
           Retry, SettingsTypeOK
  <2>3. PartTypeOK'
    BY <1>10 DEF CoreInv, TypeOK, PartTypeOK, ReplaceFails, LaunchReturns
  <2> QED BY <2>1, <2>2, <2>3 DEF TypeOK
<1>11. CASE AutoSkip
  BY <1>11 DEF CoreInv, TypeOK, LogTypeOK, LogStates, AutoSkip, StatusTypeOK, Statuses,
         SettingsTypeOK, PartTypeOK, RecoveryTypeOK
<1>12. CASE Interrupt
  <2>1. LogTypeOK' /\ RecoveryTypeOK'
    BY <1>12 DEF CoreInv, TypeOK, LogTypeOK, LogStates, Interrupt, CloseCall,
           RecoveryTypeOK
  <2>2. StatusTypeOK' /\ SettingsTypeOK'
    BY <1>12 DEF CoreInv, TypeOK, StatusTypeOK, Statuses, Interrupt, CloseCall, WaitFor,
           SettingsTypeOK
  <2>3. PartTypeOK'
    BY <1>12 DEF CoreInv, TypeOK, PartTypeOK, Interrupt, CloseCall, StopsAtClose
  <2> QED BY <2>1, <2>2, <2>3 DEF TypeOK
<1>13. CASE AutoTooLate
  BY <1>13 DEF CoreInv, TypeOK, LogTypeOK, LogStates, AutoTooLate, StatusTypeOK,
         Statuses, SettingsTypeOK, UnderLimit, Counted, PartTypeOK, RecoveryTypeOK
<1>14. ASSUME NEW spawned \in BOOLEAN, AutoRestart(spawned) PROVE TypeOK'
  BY <1>14 DEF CoreInv, TypeOK, LogTypeOK, LogStates, AutoRestart, ReplaceHelper,
         StatusTypeOK, Statuses, Launch, SettingsTypeOK, UnderLimit, Counted,
         PartTypeOK, RecoveryTypeOK
<1>15. CASE Stop
  <2>1. LogTypeOK' /\ RecoveryTypeOK'
    BY <1>15 DEF CoreInv, TypeOK, LogTypeOK, LogStates, Stop, CloseCall, RecoveryTypeOK
  <2>2. StatusTypeOK' /\ SettingsTypeOK'
    BY <1>15 DEF CoreInv, TypeOK, StatusTypeOK, Statuses, Stop, CloseCall, WaitFor,
           SettingsTypeOK
  <2>3. PartTypeOK'
    BY <1>15 DEF CoreInv, TypeOK, PartTypeOK, Stop, CloseCall, StopsAtClose
  <2> QED BY <2>1, <2>2, <2>3 DEF TypeOK
<1>16. CASE Pause
  <2>1. LogTypeOK' /\ RecoveryTypeOK'
    BY <1>16 DEF CoreInv, TypeOK, LogTypeOK, LogStates, Pause, Paused, RecoveryTypeOK
  <2>2. StatusTypeOK' /\ SettingsTypeOK'
    BY <1>16 DEF CoreInv, TypeOK, StatusTypeOK, Statuses, Pause, SettingsTypeOK
  <2>3. PartTypeOK'
    BY <1>16 DEF CoreInv, TypeOK, PartTypeOK, PartRuns, Pause
  <2> QED BY <2>1, <2>2, <2>3 DEF TypeOK
<1>17. CASE Resume
  <2>1. LogTypeOK' /\ RecoveryTypeOK'
    BY <1>17 DEF CoreInv, TypeOK, LogTypeOK, LogStates, Resume, Resumed, RecoveryTypeOK
  <2>2. StatusTypeOK' /\ SettingsTypeOK'
    BY <1>17 DEF CoreInv, TypeOK, StatusTypeOK, Statuses, Resume, SettingsTypeOK
  <2>3. PartTypeOK'
    BY <1>17 DEF CoreInv, TypeOK, PartTypeOK, PartRuns, Resume
  <2> QED BY <2>1, <2>2, <2>3 DEF TypeOK
<1>18. ASSUME NEW on \in BOOLEAN, Mute(on) PROVE TypeOK'
  <2>1. LogTypeOK' /\ RecoveryTypeOK'
    BY <1>18 DEF CoreInv, TypeOK, LogTypeOK, LogStates, Mute, Mutes, RecoveryTypeOK
  <2>2. StatusTypeOK' /\ SettingsTypeOK'
    BY <1>18 DEF CoreInv, TypeOK, StatusTypeOK, Statuses, Mute, SettingsTypeOK
  <2>3. PartTypeOK'
    <3>1. run' \in PartRuns
      BY <1>18 DEF CoreInv, TypeOK, PartTypeOK, SettingsTypeOK, PartRuns, Mute
    <3> QED BY <1>18, <3>1 DEF CoreInv, TypeOK, PartTypeOK, Mute
  <2> QED BY <2>1, <2>2, <2>3 DEF TypeOK
<1>19. CASE HoldWriter
  BY <1>19 DEF CoreInv, TypeOK, LogTypeOK, LogStates, HoldWriter, StatusTypeOK,
         Statuses, SettingsTypeOK, PartTypeOK, RecoveryTypeOK
<1>20. CASE Release
  BY <1>20 DEF CoreInv, TypeOK, LogTypeOK, LogStates, Release, StatusTypeOK, Statuses,
         SettingsTypeOK, CallNeedsWriter, PartTypeOK, RecoveryTypeOK
<1>21. CASE HelperExit
  <2>1. LogTypeOK' /\ RecoveryTypeOK'
    BY <1>21 DEF CoreInv, TypeOK, LogTypeOK, LogStates, PartTypeOK, HelperExit,
           PartEnded, StateAfterEnd, RecoveryTypeOK
  <2>2. StatusTypeOK' /\ SettingsTypeOK'
    BY <1>21 DEF CoreInv, TypeOK, StatusTypeOK, Statuses, HelperExit, SettingsTypeOK
  <2>3. PartTypeOK'
    BY <1>21 DEF CoreInv, TypeOK, PartTypeOK, PartRuns, HelperExit, Undead
  <2> QED BY <2>1, <2>2, <2>3 DEF TypeOK
<1>22. CASE HealthDead
  <2>1. LogTypeOK' /\ RecoveryTypeOK'
    BY <1>22 DEF CoreInv, TypeOK, LogTypeOK, LogStates, HealthDead, Report,
           RecoveryTypeOK
  <2>2. StatusTypeOK' /\ SettingsTypeOK'
    BY <1>22 DEF CoreInv, TypeOK, StatusTypeOK, Statuses, HealthDead, Report,
           SettingsTypeOK
  <2>3. PartTypeOK'
    BY <1>22 DEF CoreInv, TypeOK, PartTypeOK, PartRuns, HealthDead, Report
  <2> QED BY <2>1, <2>2, <2>3 DEF TypeOK
<1>23. CASE HealthOk
  <2>1. LogTypeOK' /\ RecoveryTypeOK'
    BY <1>23 DEF CoreInv, TypeOK, LogTypeOK, LogStates, HealthOk, Report, RecoveryTypeOK
  <2>2. StatusTypeOK' /\ SettingsTypeOK'
    BY <1>23 DEF CoreInv, TypeOK, StatusTypeOK, Statuses, HealthOk, Report,
           SettingsTypeOK
  <2>3. PartTypeOK'
    BY <1>23 DEF CoreInv, TypeOK, PartTypeOK, PartRuns, HealthOk, Report, Undead
  <2> QED BY <2>1, <2>2, <2>3 DEF TypeOK
<1>24. CASE TappedAppsExited
  <2>1. LogTypeOK' /\ RecoveryTypeOK'
    BY <1>24 DEF CoreInv, TypeOK, LogTypeOK, LogStates, TappedAppsExited, RecoveryTypeOK
  <2>2. StatusTypeOK' /\ SettingsTypeOK'
    BY <1>24 DEF CoreInv, TypeOK, StatusTypeOK, Statuses, TappedAppsExited,
           SettingsTypeOK
  <2>3. PartTypeOK'
    BY <1>24 DEF CoreInv, TypeOK, PartTypeOK, PartRuns, TappedAppsExited, Undead
  <2> QED BY <2>1, <2>2, <2>3 DEF TypeOK
<1>25. CASE PacketAgain
  <2>1. LogTypeOK' /\ RecoveryTypeOK'
    BY <1>25 DEF CoreInv, TypeOK, LogTypeOK, LogStates, PacketAgain, Report,
           RecoveryTypeOK
  <2>2. StatusTypeOK' /\ SettingsTypeOK'
    BY <1>25 DEF CoreInv, TypeOK, StatusTypeOK, Statuses, PacketAgain, Report,
           SettingsTypeOK
  <2>3. PartTypeOK'
    BY <1>25 DEF CoreInv, TypeOK, PartTypeOK, PartRuns, PacketAgain, Report
  <2> QED BY <2>1, <2>2, <2>3 DEF TypeOK
<1>26. CASE DeadTimerFires
  <2>1. LogTypeOK' /\ RecoveryTypeOK'
    BY <1>26 DEF CoreInv, TypeOK, LogTypeOK, LogStates, DeadTimerFires, RecoveryTypeOK
  <2>2. StatusTypeOK' /\ SettingsTypeOK'
    BY <1>26 DEF CoreInv, TypeOK, StatusTypeOK, Statuses, DeadTimerFires, SettingsTypeOK
  <2>3. PartTypeOK'
    BY <1>26 DEF CoreInv, TypeOK, PartTypeOK, PartRuns, DeadTimerFires
  <2> QED BY <2>1, <2>2, <2>3 DEF TypeOK
<1>27. CASE Watchdog
  <2>1. LogTypeOK' /\ RecoveryTypeOK'
    BY <1>27 DEF CoreInv, TypeOK, LogTypeOK, LogStates, Watchdog, RecoveryTypeOK
  <2>2. StatusTypeOK' /\ SettingsTypeOK'
    BY <1>27 DEF CoreInv, TypeOK, StatusTypeOK, Statuses, Watchdog, SettingsTypeOK
  <2>3. PartTypeOK'
    BY <1>27 DEF CoreInv, TypeOK, PartTypeOK, PartRuns, Watchdog
  <2> QED BY <2>1, <2>2, <2>3 DEF TypeOK
<1>28. CASE WindowPasses
  BY <1>28 DEF CoreInv, TypeOK, LogTypeOK, LogStates, WindowPasses, StatusTypeOK,
         Statuses, SettingsTypeOK, Spend, PartTypeOK, RecoveryTypeOK
<1>29. ASSUME NEW p \in Parts, StopExit(p) PROVE TypeOK'
  <2>1. LogTypeOK' /\ RecoveryTypeOK'
    BY <1>29 DEF CoreInv, TypeOK, LogTypeOK, LogStates, StopExit, Retired, PartEnded,
           StateAfterEnd, RecoveryTypeOK
  <2>2. StatusTypeOK'
    BY <1>29 DEF CoreInv, TypeOK, StatusTypeOK, Statuses, StopExit, Retired, WaitFor
  <2>3. SettingsTypeOK'
    BY <1>29 DEF CoreInv, TypeOK, SettingsTypeOK, StopExit, Retired
  <2>4. PartTypeOK'
    BY <1>29 DEF CoreInv, TypeOK, PartTypeOK, PartRuns, StopExit, Retired, Undead
  <2> QED BY <2>1, <2>2, <2>3, <2>4 DEF TypeOK
<1>30. ASSUME NEW p \in Parts, StopKill(p) PROVE TypeOK'
  BY <1>30 DEF CoreInv, TypeOK, LogTypeOK, LogStates, StopKill, StatusTypeOK, Statuses,
         SettingsTypeOK, PartTypeOK, RecoveryTypeOK
<1>31. ASSUME NEW p \in Parts, KillGrace(p) PROVE TypeOK'
  <2>1. LogTypeOK' /\ RecoveryTypeOK'
    BY <1>31 DEF CoreInv, TypeOK, LogTypeOK, LogStates, KillGrace, Retired, PartEnded,
           StateAfterEnd, RecoveryTypeOK
  <2>2. StatusTypeOK' /\ SettingsTypeOK'
    BY <1>31 DEF CoreInv, TypeOK, StatusTypeOK, Statuses, KillGrace, Retired, WaitFor,
           SettingsTypeOK
  <2>3. PartTypeOK'
    BY <1>31 DEF CoreInv, TypeOK, PartTypeOK, PartRuns, KillGrace, Retired, Undead
  <2> QED BY <2>1, <2>2, <2>3 DEF TypeOK
<1>32. CASE FlushDone
  <2>1. LogTypeOK' /\ RecoveryTypeOK'
    BY <1>32 DEF CoreInv, TypeOK, LogTypeOK, LogStates, FlushDone, CallEnded,
           RecoveryTypeOK
  <2>2. StatusTypeOK' /\ SettingsTypeOK'
    BY <1>32 DEF CoreInv, TypeOK, StatusTypeOK, Statuses, FlushDone, SettingsTypeOK,
           CloseWriter
  <2>3. PartTypeOK'
    BY <1>32 DEF CoreInv, TypeOK, PartTypeOK, FlushDone
  <2> QED BY <2>1, <2>2, <2>3 DEF TypeOK
<1>33. CASE Crash
  <2>1. LogTypeOK' /\ RecoveryTypeOK'
    BY <1>33 DEF CoreInv, TypeOK, LogTypeOK, LogStates, Crash, RecoveryTypeOK
  <2>2. StatusTypeOK'
    BY <1>33 DEF CoreInv, TypeOK, StatusTypeOK, Statuses, Crash
  <2>3. SettingsTypeOK'
    <3>1. (fuel \in 0..MaxFuel /\ holds \in 0..MaxHolds /\ auto \in 0..Limit)'
      BY <1>33 DEF CoreInv, TypeOK, SettingsTypeOK, Crash, Spend
    <3>2. (/\ muted \in BOOLEAN /\ writer \in BOOLEAN /\ restarting \in BOOLEAN
           /\ scope \in {"apps", "system"})'
      BY <1>33 DEF CoreInv, TypeOK, SettingsTypeOK, Crash
    <3> QED BY <3>1, <3>2 DEF SettingsTypeOK
  <2>4. PartTypeOK'
    BY <1>33 DEF CoreInv, TypeOK, PartTypeOK, PartRuns, Crash, NoHelpers, NoStops,
           FreshRun
  <2> QED BY <2>1, <2>2, <2>3, <2>4 DEF TypeOK
<1>34. ASSUME NEW old \in BOOLEAN, RecoverStart(old) PROVE TypeOK'
  BY <1>34 DEF CoreInv, TypeOK, LogTypeOK, LogStates, RecoverStart, Recovering,
         StatusTypeOK, Statuses, SettingsTypeOK, PartTypeOK, RecoveryTypeOK, OpenParts,
         VerdictOf
<1>35. CASE RecoverPart
  BY <1>35 DEF CoreInv, TypeOK, LogTypeOK, LogStates, RecoveryTypeOK, RecoverPart,
         PartEnded, StateAfterEnd, Recovering, StatusTypeOK, Statuses, SettingsTypeOK,
         PartTypeOK
<1>36. CASE RecoverVerdict
  <2>1. LogTypeOK' /\ RecoveryTypeOK'
    BY <1>36 DEF CoreInv, TypeOK, LogTypeOK, LogStates, RecoverVerdict, CallFailed,
           CallEnded, Recovering, RecoveryTypeOK
  <2>2. StatusTypeOK' /\ SettingsTypeOK'
    BY <1>36 DEF CoreInv, TypeOK, StatusTypeOK, Statuses, RecoverVerdict, Recovering,
           SettingsTypeOK
  <2>3. PartTypeOK'
    BY <1>36 DEF CoreInv, TypeOK, PartTypeOK, RecoverVerdict, Recovering
  <2> QED BY <2>1, <2>2, <2>3 DEF TypeOK
<1>37. CASE Load
  BY <1>37 DEF CoreInv, TypeOK, LogTypeOK, LogStates, Load, StatusTypeOK, Statuses,
         SettingsTypeOK, PartTypeOK, RecoveryTypeOK
<1>38. CASE UNCHANGED vars
  <2>1. LogTypeOK' /\ StatusTypeOK' /\ SettingsTypeOK'
    BY <1>38 DEF CoreInv, TypeOK, LogTypeOK, StatusTypeOK, SettingsTypeOK, vars
  <2>2. PartTypeOK' /\ RecoveryTypeOK'
    BY <1>38 DEF CoreInv, TypeOK, PartTypeOK, RecoveryTypeOK, vars
  <2> QED BY <2>1, <2>2 DEF TypeOK
<1> QED BY <1>1, <1>2, <1>3, <1>4, <1>5, <1>6, <1>7, <1>8, <1>9, <1>10, <1>11, <1>12,
       <1>13, <1>14, <1>15, <1>16, <1>17, <1>18, <1>19, <1>20, <1>21, <1>22, <1>23,
       <1>24, <1>25, <1>26, <1>27, <1>28, <1>29, <1>30, <1>31, <1>32, <1>33, <1>34,
       <1>35, <1>36, <1>37, <1>38 DEF Next, Launches, LaunchEnds, Continue, Controls,
       Reports, Stopping, Recovery

(* The table of state.ts, as a relation between a step's two ends.            *)
LegalChange ==
  app = "up" /\ app' = "up" /\ status' # status => status' \in Transitions[status]

(* What a step owes the rest of CoreInv.                                     *)
ControlOK ==
  DownHoldsNothing /\ StartRemembersBefore /\ RestartWhileTaking /\ StopMatchesStatus

(* Every step keeps the end it waits for in line with its status, and        *)
(* changes status by the table.                                              *)
LEMMA ControlStep == ASSUME CoreInv, [Next]_vars PROVE ControlOK' /\ LegalChange
<1> USE DEF CoreInv, TypeOK, StatusTypeOK, Statuses, ControlOK, LegalChange, DownHoldsNothing,
            StartRemembersBefore, RestartWhileTaking, StopMatchesStatus, Live, Taking, Turn,
            Transitions
<1>1. CASE Create
  BY <1>1 DEF Create
<1>2. ASSUME NEW spawned \in BOOLEAN, Begin(spawned) PROVE ControlOK' /\ LegalChange
  BY <1>2 DEF Begin, Launch
<1>3. ASSUME NEW spawned \in BOOLEAN, RestartLive(spawned) PROVE ControlOK' /\
  LegalChange
  BY <1>3 DEF RestartLive, Restartable, ReplaceHelper, Launch
<1>4. ASSUME NEW spawned \in BOOLEAN, Reopen(spawned) PROVE ControlOK' /\ LegalChange
  BY <1>4 DEF Reopen, Launch
<1>5. ASSUME NEW h \in {"ok", "exited"}, Capturing(h) PROVE ControlOK' /\ LegalChange
  BY <1>5 DEF Capturing
<1>6. CASE EarlyExit
  BY <1>6 DEF EarlyExit, LaunchFails
<1>7. CASE LaunchTimeout
  BY <1>7 DEF LaunchTimeout, LaunchFails
<1>8. CASE BeginFails
  BY <1>8 DEF BeginFails, LaunchReturns
<1>9. CASE ReopenFails
  BY <1>9 DEF ReopenFails, LaunchReturns, BackTo
<1>10. CASE ReplaceFails
  BY <1>10 DEF ReplaceFails, LaunchReturns, Retry
<1>11. CASE AutoSkip
  BY <1>11 DEF AutoSkip
<1>12. CASE Interrupt
  BY <1>12 DEF Interrupt, CloseCall, WaitFor
<1>13. CASE AutoTooLate
  BY <1>13 DEF AutoTooLate
<1>14. ASSUME NEW spawned \in BOOLEAN, AutoRestart(spawned) PROVE ControlOK' /\
  LegalChange
  BY <1>14 DEF AutoRestart, ReplaceHelper, Launch
<1>15. CASE Stop
  BY <1>15 DEF Stop, CloseCall, WaitFor
<1>16. CASE Pause
  BY <1>16 DEF Pause
<1>17. CASE Resume
  BY <1>17 DEF Resume
<1>18. ASSUME NEW on \in BOOLEAN, Mute(on) PROVE ControlOK' /\ LegalChange
  BY <1>18 DEF Mute
<1>19. CASE HoldWriter
  BY <1>19 DEF HoldWriter
<1>20. CASE Release
  BY <1>20 DEF Release
<1>21. CASE HelperExit
  BY <1>21 DEF HelperExit
<1>22. CASE HealthDead
  BY <1>22 DEF HealthDead, Report
<1>23. CASE HealthOk
  BY <1>23 DEF HealthOk, Report
<1>24. CASE TappedAppsExited
  BY <1>24 DEF TappedAppsExited
<1>25. CASE PacketAgain
  BY <1>25 DEF PacketAgain, Report
<1>26. CASE DeadTimerFires
  BY <1>26 DEF DeadTimerFires
<1>27. CASE Watchdog
  BY <1>27 DEF Watchdog
<1>28. CASE WindowPasses
  BY <1>28 DEF WindowPasses
<1>29. ASSUME NEW p \in Parts, StopExit(p) PROVE ControlOK' /\ LegalChange
  BY <1>29 DEF StopExit, Retired, WaitFor
<1>30. ASSUME NEW p \in Parts, StopKill(p) PROVE ControlOK' /\ LegalChange
  BY <1>30 DEF StopKill
<1>31. ASSUME NEW p \in Parts, KillGrace(p) PROVE ControlOK' /\ LegalChange
  BY <1>31 DEF KillGrace, Retired, WaitFor
<1>32. CASE FlushDone
  BY <1>32 DEF FlushDone
<1>33. CASE Crash
  BY <1>33 DEF Crash
<1>34. ASSUME NEW old \in BOOLEAN, RecoverStart(old) PROVE ControlOK' /\ LegalChange
  BY <1>34 DEF RecoverStart, Recovering
<1>35. CASE RecoverPart
  BY <1>35 DEF RecoverPart, Recovering
<1>36. CASE RecoverVerdict
  BY <1>36 DEF RecoverVerdict, Recovering
<1>37. CASE Load
  BY <1>37 DEF Load
<1>38. CASE UNCHANGED vars
  BY <1>38 DEF vars
<1> HIDE DEF ControlOK, LegalChange
<1> QED BY <1>1, <1>2, <1>3, <1>4, <1>5, <1>6, <1>7, <1>8, <1>9, <1>10, <1>11, <1>12,
       <1>13, <1>14, <1>15, <1>16, <1>17, <1>18, <1>19, <1>20, <1>21, <1>22, <1>23,
       <1>24, <1>25, <1>26, <1>27, <1>28, <1>29, <1>30, <1>31, <1>32, <1>33, <1>34,
       <1>35, <1>36, <1>37, <1>38 DEF Next, Launches, LaunchEnds, Continue, Controls,
       Reports, Stopping, Recovery

(* A release spares the log of a call that is being interrupted, and no call *)
(* restarts before its end is written, because EndingRaces is empty.         *)
LEMMA WriterStep ==
  ASSUME EndingRaces = {}, CoreInv, WriterInv, [Next]_vars
  PROVE  WriterInv'
<1> USE DEF CoreInv, TypeOK, StatusTypeOK, SettingsTypeOK, Statuses, WriterInv,
            InterruptMatchesStatus, WriterWhileNeeded, DownHoldsNothing, StartRemembersBefore,
            RestartWhileTaking, StopMatchesStatus, Live, Taking, Turn
<1>1. CASE Create
  BY <1>1 DEF Create
<1>2. ASSUME NEW spawned \in BOOLEAN, Begin(spawned) PROVE WriterInv'
  BY <1>2 DEF Begin, Launch
<1>3. ASSUME NEW spawned \in BOOLEAN, RestartLive(spawned) PROVE WriterInv'
  BY <1>3 DEF RestartLive, Restartable, Spend, ReplaceHelper, Launch
<1>4. ASSUME NEW spawned \in BOOLEAN, Reopen(spawned) PROVE WriterInv'
  BY <1>4 DEF Reopen, Spend, Launch
<1>5. ASSUME NEW h \in {"ok", "exited"}, Capturing(h) PROVE WriterInv'
  BY <1>5 DEF Capturing
<1>6. CASE EarlyExit
  BY <1>6 DEF EarlyExit, LaunchFails
<1>7. CASE LaunchTimeout
  BY <1>7 DEF LaunchTimeout, LaunchFails
<1>8. CASE BeginFails
  BY <1>8 DEF BeginFails, LaunchReturns, CloseWriter
<1>9. CASE ReopenFails
  BY <1>9 DEF ReopenFails, LaunchReturns, BackTo, CloseWriter
<1>10. CASE ReplaceFails
  BY <1>10 DEF ReplaceFails, LaunchReturns, Retry
<1>11. CASE AutoSkip
  BY <1>11 DEF AutoSkip
<1>12. CASE Interrupt
  BY <1>12 DEF Interrupt, CloseCall, WaitFor
<1>13. CASE AutoTooLate
  BY <1>13 DEF AutoTooLate, UnderLimit, Counted
<1>14. ASSUME NEW spawned \in BOOLEAN, AutoRestart(spawned) PROVE WriterInv'
  BY <1>14 DEF AutoRestart, UnderLimit, Counted, ReplaceHelper, Launch
<1>15. CASE Stop
  BY <1>15 DEF Stop, CloseCall, WaitFor
<1>16. CASE Pause
  BY <1>16 DEF Pause
<1>17. CASE Resume
  BY <1>17 DEF Resume
<1>18. ASSUME NEW on \in BOOLEAN, Mute(on) PROVE WriterInv'
  BY <1>18 DEF Mute
<1>19. CASE HoldWriter
  BY <1>19 DEF HoldWriter
<1>20. CASE Release
  BY <1>20 DEF Release, CallNeedsWriter
<1>21. CASE HelperExit
  BY <1>21 DEF HelperExit
<1>22. CASE HealthDead
  BY <1>22 DEF HealthDead, Report
<1>23. CASE HealthOk
  BY <1>23 DEF HealthOk, Report
<1>24. CASE TappedAppsExited
  BY <1>24 DEF TappedAppsExited
<1>25. CASE PacketAgain
  BY <1>25 DEF PacketAgain, Report
<1>26. CASE DeadTimerFires
  BY <1>26 DEF DeadTimerFires
<1>27. CASE Watchdog
  BY <1>27 DEF Watchdog
<1>28. CASE WindowPasses
  BY <1>28 DEF WindowPasses, Spend
<1>29. ASSUME NEW p \in Parts, StopExit(p) PROVE WriterInv'
  BY <1>29 DEF StopExit, Retired, WaitFor
<1>30. ASSUME NEW p \in Parts, StopKill(p) PROVE WriterInv'
  BY <1>30 DEF StopKill
<1>31. ASSUME NEW p \in Parts, KillGrace(p) PROVE WriterInv'
  BY <1>31 DEF KillGrace, Retired, WaitFor
<1>32. CASE FlushDone
  BY <1>32 DEF FlushDone, CloseWriter
<1>33. CASE Crash
  BY <1>33 DEF Crash, Spend
<1>34. ASSUME NEW old \in BOOLEAN, RecoverStart(old) PROVE WriterInv'
  BY <1>34 DEF RecoverStart, Recovering
<1>35. CASE RecoverPart
  BY <1>35 DEF RecoverPart, Recovering
<1>36. CASE RecoverVerdict
  BY <1>36 DEF RecoverVerdict, Recovering
<1>37. CASE Load
  BY <1>37 DEF Load
<1>38. CASE UNCHANGED vars
  BY <1>38 DEF vars
<1> HIDE DEF WriterInv
<1> QED BY <1>1, <1>2, <1>3, <1>4, <1>5, <1>6, <1>7, <1>8, <1>9, <1>10, <1>11, <1>12,
       <1>13, <1>14, <1>15, <1>16, <1>17, <1>18, <1>19, <1>20, <1>21, <1>22, <1>23,
       <1>24, <1>25, <1>26, <1>27, <1>28, <1>29, <1>30, <1>31, <1>32, <1>33, <1>34,
       <1>35, <1>36, <1>37, <1>38 DEF Next, Launches, LaunchEnds, Continue, Controls,
       Reports, Stopping, Recovery

(* The core invariant holds in every state.                                  *)
LEMMA CoreInvariance == Spec => []CoreInv
<1>1. ASSUME CoreInv, [Next]_vars PROVE CoreInv'
  BY <1>1, TypeStep, ControlStep DEF CoreInv, ControlOK
<1> QED BY InitInv, <1>1, PTL DEF Spec

(* Every variable keeps its type: among others, no automatic restart passes  *)
(* the limit of the window (autoRestart, call.ts:779), and a part that is    *)
(* stopped or replaced is always one that was launched.                      *)
THEOREM TypeCorrect == Spec => []TypeOK
<1>1. CoreInv => TypeOK BY DEF CoreInv
<1> QED BY CoreInvariance, <1>1, PTL

(* No handler ever throws TransitionError (assertTransition, state.ts:51):   *)
(* every change of status the controller makes is one the table allows.      *)
THEOREM TransitionsLegal == Spec => NoTransitionError
<1>1. ASSUME CoreInv, [Next]_vars PROVE [LegalChange]_vars
  BY <1>1, ControlStep
<1> QED BY CoreInvariance, <1>1, PTL DEF Spec, NoTransitionError, LegalChange

(* The log is open for writing while the call is live, stopping, or still    *)
(* has its end to write, whoever else held the writer and let it go          *)
(* (holdWriter, call.ts:270).                                                *)
THEOREM WriterSafe == ASSUME EndingRaces = {} PROVE Spec => []WriterWhileNeeded
<1>1. ASSUME CoreInv, WriterInv, [Next]_vars PROVE WriterInv'
  BY <1>1, WriterStep
<1>2. WriterInv => WriterWhileNeeded BY DEF WriterInv
<1> QED BY InitInv, CoreInvariance, <1>1, <1>2, PTL DEF Spec
=============================================================================
