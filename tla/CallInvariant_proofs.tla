----------------------- MODULE CallInvariant_proofs -----------------------
(***************************************************************************)
(* The proof that CallInvariant's CallInv is an invariant of the           *)
(* controller, and what follows from it for every number of parts, limit   *)
(* of restarts, holders of the writer and crashes: the safety invariants   *)
(* of CallController, and that it implements both the contract of the log  *)
(* (CallLog) and the call the manager relies on (CallLife).                *)
(*                                                                         *)
(* All of it assumes EndingRaces = {}.  With a restart that comes in while *)
(* interrupt() waits, MCCall finds LogTellsStatus violated.                *)
(***************************************************************************)
EXTENDS CallInvariant, CallController_proofs

USE MaxPartAssumption, LimitAssumption, BoundsAssumption
USE DEF Parts, NoPart, outVars, setVars, wrVars, launchVars, helpVars, endVars, logVars

(* Who owns which helper.  The retries a restart owes are needed here: a      *)
(* failed launch of a restart either returns or is tried again.              *)
LEMMA PartsStep == ASSUME EndingRaces = {}, CallInv, [Next]_vars PROVE PartsInv'
<1> USE DEF CallInv, CoreInv, TypeOK, LogTypeOK, StatusTypeOK, SettingsTypeOK, PartTypeOK,
            RecoveryTypeOK, DownHoldsNothing, StartRemembersBefore, RestartWhileTaking,
            StopMatchesStatus, WriterInv, InterruptMatchesStatus, WriterWhileNeeded, PartsInv,
            DownIsEmpty, Numbered, LaunchIsNewest, CurrentIsNewest, EachHelperKnown,
            StopsHaveReasons, RunInv, FailedRestartsRetried, EndInv, DrainedUnlessDraining,
            Drained, Turn, Live, Taking, Newest
<1>1. CASE Create
  BY <1>1 DEF Create, CallCreated
<1>2. ASSUME NEW spawned \in BOOLEAN, Begin(spawned) PROVE PartsInv'
  BY <1>2 DEF Begin, Launch
<1>3. ASSUME NEW spawned \in BOOLEAN, RestartLive(spawned) PROVE PartsInv'
  BY <1>3 DEF RestartLive, Restartable, ReplaceHelper, Launch, Spend
<1>4. ASSUME NEW spawned \in BOOLEAN, Reopen(spawned) PROVE PartsInv'
  BY <1>4 DEF Reopen, Launch, Spend
<1>5. ASSUME NEW h \in {"ok", "exited"}, Capturing(h) PROVE PartsInv'
  BY <1>5 DEF Capturing, PartStarted, PauseToTakeOver, FreshRun
<1>6. CASE EarlyExit
  BY <1>6 DEF EarlyExit, LaunchFails
<1>7. CASE LaunchTimeout
  BY <1>7 DEF LaunchTimeout, LaunchFails
<1>8. CASE BeginFails
  BY <1>8 DEF BeginFails, LaunchReturns, CallFailed, CloseWriter
<1>9. CASE ReopenFails
  BY <1>9 DEF ReopenFails, LaunchReturns, BackTo, CloseWriter
<1>10. CASE ReplaceFails
  BY <1>10 DEF ReplaceFails, LaunchReturns, Retry, NeedsRestart
<1>11. CASE AutoSkip
  BY <1>11 DEF AutoSkip
<1>12. CASE Interrupt
  BY <1>12 DEF Interrupt, CloseCall, WaitFor, StopsAtClose
<1>13. CASE AutoTooLate
  BY <1>13 DEF AutoTooLate
<1>14. ASSUME NEW spawned \in BOOLEAN, AutoRestart(spawned) PROVE PartsInv'
  BY <1>14 DEF AutoRestart, ReplaceHelper, Launch
<1>15. CASE Stop
  BY <1>15 DEF Stop, CloseCall, WaitFor, StopsAtClose
<1>16. CASE Pause
  BY <1>16 DEF Pause, Paused
<1>17. CASE Resume
  BY <1>17 DEF Resume, Resumed
<1>18. ASSUME NEW on \in BOOLEAN, Mute(on) PROVE PartsInv'
  BY <1>18 DEF Mute, Mutes
<1>19. CASE HoldWriter
  BY <1>19 DEF HoldWriter
<1>20. CASE Release
  BY <1>20 DEF Release, CallNeedsWriter
<1>21. CASE HelperExit
  BY <1>21 DEF HelperExit, PartEnded, StateAfterEnd, Undead
<1>22. CASE HealthDead
  BY <1>22 DEF HealthDead, Report, Heard
<1>23. CASE HealthOk
  BY <1>23 DEF HealthOk, Report, Heard, Undead
<1>24. CASE TappedAppsExited
  BY <1>24 DEF TappedAppsExited, Heard, Undead
<1>25. CASE PacketAgain
  BY <1>25 DEF PacketAgain, Report, Heard
<1>26. CASE DeadTimerFires
  BY <1>26 DEF DeadTimerFires
<1>27. CASE Watchdog
  BY <1>27 DEF Watchdog
<1>28. CASE WindowPasses
  BY <1>28 DEF WindowPasses, Spend
<1>29. ASSUME NEW p \in Parts, StopExit(p) PROVE PartsInv'
  BY <1>29 DEF StopExit, Retired, PartEnded, StateAfterEnd, WaitFor, Undead
<1>30. ASSUME NEW p \in Parts, StopKill(p) PROVE PartsInv'
  BY <1>30 DEF StopKill
<1>31. ASSUME NEW p \in Parts, KillGrace(p) PROVE PartsInv'
  BY <1>31 DEF KillGrace, Retired, PartEnded, StateAfterEnd, WaitFor, Undead
<1>32. CASE FlushDone
  <2>1. /\ Drained(stops) /\ ~Taking /\ status # "starting" /\ app = "up" /\ micro = "none"
        /\ status' = status \/ (status = "stopping" /\ status' = "ended")
        /\ UNCHANGED <<app, micro, lstarted, lended, current, lastPart, launching, restarting,
                       helper, stops>>
    BY <1>32 DEF FlushDone, CallEnded
  <2>2. DownIsEmpty' /\ Numbered' BY <2>1
  <2>3. LaunchIsNewest' /\ CurrentIsNewest' BY <2>1
  <2>4. EachHelperKnown' BY <2>1
  <2>5. StopsHaveReasons' BY <2>1
  <2> HIDE DEF DownIsEmpty, Numbered, LaunchIsNewest, CurrentIsNewest, EachHelperKnown,
               StopsHaveReasons
  <2> QED BY <2>2, <2>3, <2>4, <2>5
<1>33. CASE Crash
  BY <1>33 DEF Crash, Spend, NoHelpers, NoStops, FreshRun
<1>34. ASSUME NEW old \in BOOLEAN, RecoverStart(old) PROVE PartsInv'
  BY <1>34 DEF RecoverStart, Recovering, OpenParts, VerdictOf
<1>35. CASE RecoverPart
  BY <1>35 DEF RecoverPart, Recovering, PartEnded, StateAfterEnd
<1>36. CASE RecoverVerdict
  BY <1>36 DEF RecoverVerdict, Recovering, CallFailed, CallEnded
<1>37. CASE Load
  BY <1>37 DEF Load, LastLogged, IsLast, LogInv, RecoveryFits, OpenParts, NoHelpers, NoStops
<1>38. CASE UNCHANGED vars
  BY <1>38 DEF vars
<1> HIDE DEF CallInv, PartsInv
<1> QED BY <1>1, <1>2, <1>3, <1>4, <1>5, <1>6, <1>7, <1>8, <1>9, <1>10, <1>11, <1>12, <1>13,
           <1>14, <1>15, <1>16, <1>17, <1>18, <1>19, <1>20, <1>21, <1>22, <1>23, <1>24, <1>25,
           <1>26, <1>27, <1>28, <1>29, <1>30, <1>31, <1>32, <1>33, <1>34, <1>35, <1>36, <1>37,
           <1>38
  DEF Next, Launches, LaunchEnds, Continue, Controls, Reports, Stopping, Recovery

(* What the part being recorded remembers, through a restart that starts a    *)
(* new one in the middle of a pause or a mute.                               *)
LEMMA RunStep == ASSUME EndingRaces = {}, CallInv, [Next]_vars PROVE RunInv'
<1> USE DEF CallInv, CoreInv, TypeOK, LogTypeOK, StatusTypeOK, SettingsTypeOK, PartTypeOK,
            RecoveryTypeOK, DownHoldsNothing, StartRemembersBefore, RestartWhileTaking,
            StopMatchesStatus, WriterInv, InterruptMatchesStatus, WriterWhileNeeded, Turn, Live,
            Taking, Newest, PartsInv, DownIsEmpty, Numbered, LaunchIsNewest, CurrentIsNewest,
            EachHelperKnown, StopsHaveReasons, RunInv, RunTells, FailedRestartsRetried
<1>1. CASE Create
  BY <1>1 DEF Create, CallCreated
<1>2. ASSUME NEW spawned \in BOOLEAN, Begin(spawned) PROVE RunInv'
  BY <1>2 DEF Begin, Launch
<1>3. ASSUME NEW spawned \in BOOLEAN, RestartLive(spawned) PROVE RunInv'
  BY <1>3 DEF RestartLive, Restartable, ReplaceHelper, Launch, Spend
<1>4. ASSUME NEW spawned \in BOOLEAN, Reopen(spawned) PROVE RunInv'
  BY <1>4 DEF Reopen, Launch, Spend
<1>5. ASSUME NEW h \in {"ok", "exited"}, Capturing(h) PROVE RunInv'
  BY <1>5 DEF Capturing, PartStarted, PauseToTakeOver, FreshRun
<1>6. CASE EarlyExit
  BY <1>6 DEF EarlyExit, LaunchFails
<1>7. CASE LaunchTimeout
  BY <1>7 DEF LaunchTimeout, LaunchFails
<1>8. CASE BeginFails
  BY <1>8 DEF BeginFails, LaunchReturns, CallFailed, CloseWriter
<1>9. CASE ReopenFails
  BY <1>9 DEF ReopenFails, LaunchReturns, BackTo, CloseWriter
<1>10. CASE ReplaceFails
  BY <1>10 DEF ReplaceFails, LaunchReturns, Retry, NeedsRestart
<1>11. CASE AutoSkip
  BY <1>11 DEF AutoSkip
<1>12. CASE Interrupt
  BY <1>12 DEF Interrupt, CloseCall, WaitFor, StopsAtClose
<1>13. CASE AutoTooLate
  BY <1>13 DEF AutoTooLate
<1>14. ASSUME NEW spawned \in BOOLEAN, AutoRestart(spawned) PROVE RunInv'
  BY <1>14 DEF AutoRestart, ReplaceHelper, Launch
<1>15. CASE Stop
  BY <1>15 DEF Stop, CloseCall, WaitFor, StopsAtClose
<1>16. CASE Pause
  BY <1>16 DEF Pause, Paused, PartRuns
<1>17. CASE Resume
  BY <1>17 DEF Resume, Resumed, PartRuns
<1>18. ASSUME NEW on \in BOOLEAN, Mute(on) PROVE RunInv'
  BY <1>18 DEF Mute, Mutes
<1>19. CASE HoldWriter
  BY <1>19 DEF HoldWriter
<1>20. CASE Release
  BY <1>20 DEF Release, CallNeedsWriter
<1>21. CASE HelperExit
  BY <1>21 DEF HelperExit, PartEnded, StateAfterEnd, Undead
<1>22. CASE HealthDead
  BY <1>22 DEF HealthDead, Report, Heard
<1>23. CASE HealthOk
  BY <1>23 DEF HealthOk, Report, Heard, Undead
<1>24. CASE TappedAppsExited
  BY <1>24 DEF TappedAppsExited, Heard, Undead
<1>25. CASE PacketAgain
  BY <1>25 DEF PacketAgain, Report, Heard
<1>26. CASE DeadTimerFires
  BY <1>26 DEF DeadTimerFires
<1>27. CASE Watchdog
  BY <1>27 DEF Watchdog
<1>28. CASE WindowPasses
  BY <1>28 DEF WindowPasses, Spend
<1>29. ASSUME NEW p \in Parts, StopExit(p) PROVE RunInv'
  BY <1>29 DEF StopExit, Retired, PartEnded, StateAfterEnd, WaitFor, Undead
<1>30. ASSUME NEW p \in Parts, StopKill(p) PROVE RunInv'
  BY <1>30 DEF StopKill
<1>31. ASSUME NEW p \in Parts, KillGrace(p) PROVE RunInv'
  BY <1>31 DEF KillGrace, Retired, PartEnded, StateAfterEnd, WaitFor, Undead
<1>32. CASE FlushDone
  BY <1>32 DEF FlushDone, CallEnded, CloseWriter
<1>33. CASE Crash
  BY <1>33 DEF Crash, Spend, NoHelpers, NoStops, FreshRun
<1>34. ASSUME NEW old \in BOOLEAN, RecoverStart(old) PROVE RunInv'
  BY <1>34 DEF RecoverStart, Recovering, OpenParts, VerdictOf
<1>35. CASE RecoverPart
  BY <1>35 DEF RecoverPart, Recovering, PartEnded, StateAfterEnd
<1>36. CASE RecoverVerdict
  BY <1>36 DEF RecoverVerdict, Recovering, CallFailed, CallEnded
<1>37. CASE Load
  BY <1>37 DEF Load, LastLogged, IsLast
<1>38. CASE UNCHANGED vars
  BY <1>38 DEF vars
<1> QED BY <1>1, <1>2, <1>3, <1>4, <1>5, <1>6, <1>7, <1>8, <1>9, <1>10, <1>11, <1>12, <1>13,
           <1>14, <1>15, <1>16, <1>17, <1>18, <1>19, <1>20, <1>21, <1>22, <1>23, <1>24, <1>25,
           <1>26, <1>27, <1>28, <1>29, <1>30, <1>31, <1>32, <1>33, <1>34, <1>35, <1>36, <1>37,
           <1>38
  DEF Next, Launches, LaunchEnds, Continue, Controls, Reports, Stopping, Recovery

(* The end of a call: its helpers stop, the recognizer writes its last lines, *)
(* and only then the end is written and the writer let go.                   *)
LEMMA EndStep == ASSUME EndingRaces = {}, CallInv, [Next]_vars PROVE EndInv'
<1> USE DEF CallInv, CoreInv, TypeOK, LogTypeOK, StatusTypeOK, SettingsTypeOK, PartTypeOK,
            RecoveryTypeOK, DownHoldsNothing, StartRemembersBefore, RestartWhileTaking,
            StopMatchesStatus, WriterInv, InterruptMatchesStatus, WriterWhileNeeded, Turn, Live,
            Taking, Newest, PartsInv, DownIsEmpty, Numbered, LaunchIsNewest, CurrentIsNewest,
            EachHelperKnown, StopsHaveReasons, RunInv, FailedRestartsRetried, EndInv,
            DrainedUnlessDraining, EndWillFit, ClosedWhenOver, Drained, LogInv, NothingYet,
            LogFollows, Finished
<1>1. CASE Create
  BY <1>1 DEF Create, CallCreated
<1>2. ASSUME NEW spawned \in BOOLEAN, Begin(spawned) PROVE EndInv'
  BY <1>2 DEF Begin, Launch
<1>3. ASSUME NEW spawned \in BOOLEAN, RestartLive(spawned) PROVE EndInv'
  BY <1>3 DEF RestartLive, Restartable, ReplaceHelper, Launch, Spend
<1>4. ASSUME NEW spawned \in BOOLEAN, Reopen(spawned) PROVE EndInv'
  BY <1>4 DEF Reopen, Launch, Spend
<1>5. ASSUME NEW h \in {"ok", "exited"}, Capturing(h) PROVE EndInv'
  BY <1>5 DEF Capturing, PartStarted, PauseToTakeOver, FreshRun
<1>6. CASE EarlyExit
  BY <1>6 DEF EarlyExit, LaunchFails
<1>7. CASE LaunchTimeout
  BY <1>7 DEF LaunchTimeout, LaunchFails
<1>8. CASE BeginFails
  BY <1>8 DEF BeginFails, LaunchReturns, CallFailed, CloseWriter
<1>9. CASE ReopenFails
  BY <1>9 DEF ReopenFails, LaunchReturns, BackTo, CloseWriter
<1>10. CASE ReplaceFails
  BY <1>10 DEF ReplaceFails, LaunchReturns, Retry, NeedsRestart
<1>11. CASE AutoSkip
  BY <1>11 DEF AutoSkip
<1>12. CASE Interrupt
  BY <1>12 DEF Interrupt, CloseCall, WaitFor, StopsAtClose
<1>13. CASE AutoTooLate
  BY <1>13 DEF AutoTooLate
<1>14. ASSUME NEW spawned \in BOOLEAN, AutoRestart(spawned) PROVE EndInv'
  BY <1>14 DEF AutoRestart, ReplaceHelper, Launch
<1>15. CASE Stop
  BY <1>15 DEF Stop, CloseCall, WaitFor, StopsAtClose
<1>16. CASE Pause
  BY <1>16 DEF Pause, Paused
<1>17. CASE Resume
  BY <1>17 DEF Resume, Resumed
<1>18. ASSUME NEW on \in BOOLEAN, Mute(on) PROVE EndInv'
  BY <1>18 DEF Mute, Mutes
<1>19. CASE HoldWriter
  BY <1>19 DEF HoldWriter
<1>20. CASE Release
  BY <1>20 DEF Release, CallNeedsWriter
<1>21. CASE HelperExit
  BY <1>21 DEF HelperExit, PartEnded, StateAfterEnd, Undead
<1>22. CASE HealthDead
  BY <1>22 DEF HealthDead, Report, Heard
<1>23. CASE HealthOk
  BY <1>23 DEF HealthOk, Report, Heard, Undead
<1>24. CASE TappedAppsExited
  BY <1>24 DEF TappedAppsExited, Heard, Undead
<1>25. CASE PacketAgain
  BY <1>25 DEF PacketAgain, Report, Heard
<1>26. CASE DeadTimerFires
  BY <1>26 DEF DeadTimerFires
<1>27. CASE Watchdog
  BY <1>27 DEF Watchdog
<1>28. CASE WindowPasses
  BY <1>28 DEF WindowPasses, Spend
<1>29. ASSUME NEW p \in Parts, StopExit(p) PROVE EndInv'
  <2>1. DrainedUnlessDraining' /\ ClosedWhenOver'
    BY <1>29 DEF StopExit, Retired, PartEnded, WaitFor
  <2>2. EndWillFit'
    BY <1>29, <2>1 DEF StopExit, Retired, PartEnded, StateAfterEnd, WaitFor
  <2> QED BY <2>1, <2>2
<1>30. ASSUME NEW p \in Parts, StopKill(p) PROVE EndInv'
  BY <1>30 DEF StopKill
<1>31. ASSUME NEW p \in Parts, KillGrace(p) PROVE EndInv'
  <2>1. DrainedUnlessDraining' /\ ClosedWhenOver'
    BY <1>31 DEF KillGrace, Retired, PartEnded, WaitFor
  <2>2. EndWillFit'
    BY <1>31, <2>1 DEF KillGrace, Retired, PartEnded, StateAfterEnd, WaitFor
  <2> QED BY <2>1, <2>2
<1>32. CASE FlushDone
  BY <1>32 DEF FlushDone, CallEnded, CloseWriter
<1>33. CASE Crash
  BY <1>33 DEF Crash, Spend, NoHelpers, NoStops, FreshRun
<1>34. ASSUME NEW old \in BOOLEAN, RecoverStart(old) PROVE EndInv'
  BY <1>34 DEF RecoverStart, Recovering, OpenParts, VerdictOf
<1>35. CASE RecoverPart
  BY <1>35 DEF RecoverPart, Recovering, PartEnded, StateAfterEnd
<1>36. CASE RecoverVerdict
  BY <1>36 DEF RecoverVerdict, Recovering, CallFailed, CallEnded
<1>37. CASE Load
  BY <1>37 DEF Load, LastLogged, IsLast
<1>38. CASE UNCHANGED vars
  BY <1>38 DEF vars
<1> QED BY <1>1, <1>2, <1>3, <1>4, <1>5, <1>6, <1>7, <1>8, <1>9, <1>10, <1>11, <1>12, <1>13,
           <1>14, <1>15, <1>16, <1>17, <1>18, <1>19, <1>20, <1>21, <1>22, <1>23, <1>24, <1>25,
           <1>26, <1>27, <1>28, <1>29, <1>30, <1>31, <1>32, <1>33, <1>34, <1>35, <1>36, <1>37,
           <1>38
  DEF Next, Launches, LaunchEnds, Continue, Controls, Reports, Stopping, Recovery

(* Where the log stands.  A part that ends moves the state of the log only    *)
(* when it is the newest, so the two stops of a restart leave it alone.      *)
LEMMA LogInvStep == ASSUME EndingRaces = {}, CallInv, [Next]_vars PROVE LogInv'
<1> USE DEF CallInv, CoreInv, TypeOK, LogTypeOK, StatusTypeOK, SettingsTypeOK, PartTypeOK,
            RecoveryTypeOK, DownHoldsNothing, StartRemembersBefore, RestartWhileTaking,
            StopMatchesStatus, WriterInv, InterruptMatchesStatus, WriterWhileNeeded, Turn, Live,
            Taking, Newest, PartsInv, DownIsEmpty, Numbered, LaunchIsNewest, CurrentIsNewest,
            EachHelperKnown, StopsHaveReasons, RunInv, FailedRestartsRetried, RunTells, EndInv,
            DrainedUnlessDraining, EndWillFit, ClosedWhenOver, Drained, LogInv, NothingYet,
            LogAgrees, LogFollows, RecoveryFits, Finished, AllEnded, OpenParts
<1>1. CASE Create
  BY <1>1 DEF Create, CallCreated
<1>2. ASSUME NEW spawned \in BOOLEAN, Begin(spawned) PROVE LogInv'
  BY <1>2 DEF Begin, Launch
<1>3. ASSUME NEW spawned \in BOOLEAN, RestartLive(spawned) PROVE LogInv'
  BY <1>3 DEF RestartLive, Restartable, ReplaceHelper, Launch, Spend
<1>4. ASSUME NEW spawned \in BOOLEAN, Reopen(spawned) PROVE LogInv'
  BY <1>4 DEF Reopen, Launch, Spend
<1>5. ASSUME NEW h \in {"ok", "exited"}, Capturing(h) PROVE LogInv'
  BY <1>5 DEF Capturing, PartStarted, PauseToTakeOver, FreshRun
<1>6. CASE EarlyExit
  BY <1>6 DEF EarlyExit, LaunchFails
<1>7. CASE LaunchTimeout
  BY <1>7 DEF LaunchTimeout, LaunchFails
<1>8. CASE BeginFails
  BY <1>8 DEF BeginFails, LaunchReturns, CallFailed, CloseWriter
<1>9. CASE ReopenFails
  BY <1>9 DEF ReopenFails, LaunchReturns, BackTo, CloseWriter
<1>10. CASE ReplaceFails
  BY <1>10 DEF ReplaceFails, LaunchReturns, Retry, NeedsRestart
<1>11. CASE AutoSkip
  BY <1>11 DEF AutoSkip
<1>12. CASE Interrupt
  BY <1>12 DEF Interrupt, CloseCall, WaitFor, StopsAtClose
<1>13. CASE AutoTooLate
  BY <1>13 DEF AutoTooLate
<1>14. ASSUME NEW spawned \in BOOLEAN, AutoRestart(spawned) PROVE LogInv'
  BY <1>14 DEF AutoRestart, ReplaceHelper, Launch
<1>15. CASE Stop
  BY <1>15 DEF Stop, CloseCall, WaitFor, StopsAtClose
<1>16. CASE Pause
  BY <1>16 DEF Pause, Paused
<1>17. CASE Resume
  BY <1>17 DEF Resume, Resumed
<1>18. ASSUME NEW on \in BOOLEAN, Mute(on) PROVE LogInv'
  BY <1>18 DEF Mute, Mutes
<1>19. CASE HoldWriter
  BY <1>19 DEF HoldWriter
<1>20. CASE Release
  BY <1>20 DEF Release, CallNeedsWriter
<1>21. CASE HelperExit
  BY <1>21 DEF HelperExit, PartEnded, StateAfterEnd, Undead
<1>22. CASE HealthDead
  BY <1>22 DEF HealthDead, Report, Heard
<1>23. CASE HealthOk
  BY <1>23 DEF HealthOk, Report, Heard, Undead
<1>24. CASE TappedAppsExited
  BY <1>24 DEF TappedAppsExited, Heard, Undead
<1>25. CASE PacketAgain
  BY <1>25 DEF PacketAgain, Report, Heard
<1>26. CASE DeadTimerFires
  BY <1>26 DEF DeadTimerFires
<1>27. CASE Watchdog
  BY <1>27 DEF Watchdog
<1>28. CASE WindowPasses
  BY <1>28 DEF WindowPasses, Spend
<1>29. ASSUME NEW p \in Parts, StopExit(p) PROVE LogInv'
  <2>1. NothingYet' /\ RecoveryFits' BY <1>29 DEF StopExit, Retired, PartEnded, StateAfterEnd
  <2>2. LogAgrees' BY <1>29 DEF StopExit, Retired, PartEnded, StateAfterEnd
  <2>3. LogFollows'
    <3>1. CASE Taking
      <4>1. ~Newest(p) /\ p # current BY <1>29, <3>1 DEF StopExit, Retired
      <4>2. lstate' = lstate BY <1>29, <4>1 DEF StopExit, Retired, PartEnded, StateAfterEnd
      <4> QED BY <1>29, <3>1, <4>1, <4>2 DEF StopExit, Retired, PartEnded
    <3>2. CASE ~Taking
      <4>1. closing = "drain" BY <1>29, <3>2 DEF StopExit, Retired
      <4>2. status \in {"stopping", "interrupted"} BY <4>1
      <4>3. closing' # "none" /\ status' = status
        BY <1>29, <4>1 DEF StopExit, Retired, WaitFor
      <4> QED BY <4>2, <4>3
    <3> QED BY <3>1, <3>2
  <2> QED BY <2>1, <2>2, <2>3
<1>30. ASSUME NEW p \in Parts, StopKill(p) PROVE LogInv'
  BY <1>30 DEF StopKill
<1>31. ASSUME NEW p \in Parts, KillGrace(p) PROVE LogInv'
  <2>1. NothingYet' /\ RecoveryFits' BY <1>31 DEF KillGrace, Retired, PartEnded, StateAfterEnd
  <2>2. LogAgrees' BY <1>31 DEF KillGrace, Retired, PartEnded, StateAfterEnd
  <2>3. LogFollows'
    <3>1. CASE Taking
      <4>1. ~Newest(p) /\ p # current BY <1>31, <3>1 DEF KillGrace, Retired
      <4>2. lstate' = lstate BY <1>31, <4>1 DEF KillGrace, Retired, PartEnded, StateAfterEnd
      <4> QED BY <1>31, <3>1, <4>1, <4>2 DEF KillGrace, Retired, PartEnded
    <3>2. CASE ~Taking
      <4>1. closing = "drain" BY <1>31, <3>2 DEF KillGrace, Retired
      <4>2. status \in {"stopping", "interrupted"} BY <4>1
      <4>3. closing' # "none" /\ status' = status
        BY <1>31, <4>1 DEF KillGrace, Retired, WaitFor
      <4> QED BY <4>2, <4>3
    <3> QED BY <3>1, <3>2
  <2> QED BY <2>1, <2>2, <2>3
<1>32. CASE FlushDone
  <2>1. AllEnded BY <1>32 DEF FlushDone
  <2>2. NothingYet' /\ RecoveryFits' BY <1>32 DEF FlushDone, CallEnded, CloseWriter
  <2>3. LogAgrees' BY <1>32, <2>1 DEF FlushDone, CallEnded
  <2>4. LogFollows' BY <1>32 DEF FlushDone, CallEnded
  <2> QED BY <2>2, <2>3, <2>4
<1>33. CASE Crash
  BY <1>33 DEF Crash, Spend, NoHelpers, NoStops, FreshRun
<1>34. ASSUME NEW old \in BOOLEAN, RecoverStart(old) PROVE LogInv'
  BY <1>34 DEF RecoverStart, Recovering, VerdictOf
<1>35. CASE RecoverPart
  BY <1>35 DEF RecoverPart, Recovering, PartEnded, StateAfterEnd
<1>36. CASE RecoverVerdict
  BY <1>36 DEF RecoverVerdict, Recovering, CallFailed, CallEnded
<1>37. CASE Load
  BY <1>37 DEF Load, LastLogged, IsLast
<1>38. CASE UNCHANGED vars
  BY <1>38 DEF vars
<1> QED BY <1>1, <1>2, <1>3, <1>4, <1>5, <1>6, <1>7, <1>8, <1>9, <1>10, <1>11, <1>12, <1>13,
           <1>14, <1>15, <1>16, <1>17, <1>18, <1>19, <1>20, <1>21, <1>22, <1>23, <1>24, <1>25,
           <1>26, <1>27, <1>28, <1>29, <1>30, <1>31, <1>32, <1>33, <1>34, <1>35, <1>36, <1>37,
           <1>38
  DEF Next, Launches, LaunchEnds, Continue, Controls, Reports, Stopping, Recovery

(* The program before its call exists satisfies the invariant.               *)
LEMMA InitCallInv == ASSUME Init PROVE CallInv
<1> USE DEF Init, LogInit
<1>1. PartsInv
  BY DEF PartsInv, DownIsEmpty, Numbered, LaunchIsNewest, CurrentIsNewest, EachHelperKnown,
         StopsHaveReasons, NoHelpers, NoStops, Taking, Newest
<1>2. RunInv BY DEF RunInv, RunTells, FailedRestartsRetried, Taking
<1>3. EndInv
  BY DEF EndInv, DrainedUnlessDraining, Drained, NoStops, EndWillFit, ClosedWhenOver, Finished
<1>4. LogInv
  BY DEF LogInv, NothingYet, LogAgrees, LogFollows, RecoveryFits, Finished, Taking
<1> QED BY InitInv, <1>1, <1>2, <1>3, <1>4 DEF CallInv

(* CallInv is inductive: each part of it is kept by every step.              *)
LEMMA CallInvStep == ASSUME EndingRaces = {}, CallInv, [Next]_vars PROVE CallInv'
<1>1. CoreInv' BY TypeStep, ControlStep DEF CallInv, CoreInv, ControlOK
<1>2. WriterInv' BY WriterStep DEF CallInv
<1> QED BY <1>1, <1>2, PartsStep, RunStep, EndStep, LogInvStep DEF CallInv

(* What each status, helper, waiting stop and setting remembered for a       *)
(* restart say of each other and of the log, in every reachable state of a   *)
(* call that nothing reopens or lets go of while interrupt() waits           *)
(* (call.ts:249, 720-744, 828; recovery.ts:199).                             *)
THEOREM CallInvariance == ASSUME EndingRaces = {} PROVE Spec => []CallInv
<1>1. ASSUME CallInv, [Next]_vars PROVE CallInv' BY <1>1, CallInvStep
<1>2. Init => CallInv BY InitCallInv
<1> QED BY <1>1, <1>2, PTL DEF Spec

(* What the invariant says at the end of each turn.                          *)
LEMMA InvImplies ==
  ASSUME CallInv
  PROVE  /\ RestartOverlaps /\ CapturesWhileTaking /\ FailedRestartsRetried
         /\ PauseAndMuteSurvive /\ LogTellsStatus /\ OverIsOver
<1> USE DEF CallInv, CoreInv, TypeOK, LogTypeOK, PartTypeOK, SettingsTypeOK, StatusTypeOK,
            DownHoldsNothing, RestartWhileTaking, PartsInv, LaunchIsNewest, CurrentIsNewest,
            EachHelperKnown, StopsHaveReasons, RunInv, EndInv, DrainedUnlessDraining, Drained,
            Taking, Live
<1>1. MakeBeforeBreak BY DEF MakeBeforeBreak, Newest
<1>2. OneLaunch BY DEF OneLaunch
<1>3. CapturesWhileTaking BY DEF CapturesWhileTaking, FailedRestartsRetried
<1>4. FailedRestartsRetried OBVIOUS
<1>5. PauseAndMuteSurvive BY DEF PauseAndMuteSurvive, RunTells
<1>6. LogTellsStatus BY DEF LogTellsStatus, LogInv, LogFollows
<1>7. OverIsOver
  BY DEF OverIsOver, ClosedWhenOver, LogInv, LogAgrees, Finished, Statuses
<1> QED BY <1>1, <1>2, <1>3, <1>4, <1>5, <1>6, <1>7 DEF RestartOverlaps

(* Each step of the controller and of a recovery appends what the contract of *)
(* the log allows, or nothing.                                               *)
LEMMA LogStep == ASSUME CallInv, [Next]_vars PROVE [LogNext]_logVars
<1> USE DEF CallInv, CoreInv, TypeOK, LogTypeOK, StatusTypeOK, SettingsTypeOK, PartTypeOK,
            RecoveryTypeOK, DownHoldsNothing, StartRemembersBefore, RestartWhileTaking,
            StopMatchesStatus, WriterInv, InterruptMatchesStatus, WriterWhileNeeded, Turn, Live,
            Taking, Newest, PartsInv, DownIsEmpty, Numbered, LaunchIsNewest, CurrentIsNewest,
            EachHelperKnown, StopsHaveReasons, RunInv, FailedRestartsRetried, RunTells, EndInv,
            DrainedUnlessDraining, EndWillFit, Drained, LogInv, NothingYet, LogAgrees,
            LogFollows, RecoveryFits, Finished, AllEnded, OpenParts
<1>1. CASE Create
  BY <1>1 DEF Create, LogNext, LogCreate
<1>2. ASSUME NEW spawned \in BOOLEAN, Begin(spawned) PROVE [LogNext]_logVars
  BY <1>2 DEF Begin
<1>3. ASSUME NEW spawned \in BOOLEAN, RestartLive(spawned) PROVE [LogNext]_logVars
  BY <1>3 DEF RestartLive, ReplaceHelper
<1>4. ASSUME NEW spawned \in BOOLEAN, Reopen(spawned) PROVE [LogNext]_logVars
  BY <1>4 DEF Reopen
<1>5. ASSUME NEW h \in {"ok", "exited"}, Capturing(h) PROVE [LogNext]_logVars
  <2>1. launching \in Parts /\ Fresh(launching) BY <1>5 DEF Capturing, Turn, Fresh
  <2>2. lstate # "none" BY <1>5 DEF Capturing, Turn
  <2>3. PauseToTakeOver \in BOOLEAN BY DEF PauseToTakeOver
  <2>4. PartStarted(launching, PauseToTakeOver, muted) BY <1>5 DEF Capturing
  <2> QED BY <2>1, <2>2, <2>3, <2>4 DEF LogNext, LogPartStart
<1>6. CASE EarlyExit
  BY <1>6 DEF EarlyExit, LaunchFails
<1>7. CASE LaunchTimeout
  BY <1>7 DEF LaunchTimeout, LaunchFails
<1>8. CASE BeginFails
  BY <1>8 DEF BeginFails, LogNext, LogFail
<1>9. CASE ReopenFails
  BY <1>9 DEF ReopenFails
<1>10. CASE ReplaceFails
  BY <1>10 DEF ReplaceFails
<1>11. CASE AutoSkip
  BY <1>11 DEF AutoSkip
<1>12. CASE Interrupt
  BY <1>12 DEF Interrupt, CloseCall
<1>13. CASE AutoTooLate
  BY <1>13 DEF AutoTooLate
<1>14. ASSUME NEW spawned \in BOOLEAN, AutoRestart(spawned) PROVE [LogNext]_logVars
  BY <1>14 DEF AutoRestart, ReplaceHelper
<1>15. CASE Stop
  BY <1>15 DEF Stop, CloseCall
<1>16. CASE Pause
  BY <1>16 DEF Pause, Turn, LogNext, LogPause
<1>17. CASE Resume
  BY <1>17 DEF Resume, Turn, LogNext, LogResume
<1>18. ASSUME NEW on \in BOOLEAN, Mute(on) PROVE [LogNext]_logVars
  <2>1. on = ~lmuted BY <1>18 DEF Mute
  <2>2. lstate \in {"recording", "paused", "restarting"} BY <1>18 DEF Mute
  <2> QED BY <1>18, <2>1, <2>2 DEF Mute, LogNext, LogMute
<1>19. CASE HoldWriter
  BY <1>19 DEF HoldWriter
<1>20. CASE Release
  BY <1>20 DEF Release
<1>21. CASE HelperExit
  <2>1. current \in Parts /\ current \notin lended /\ current \in lstarted BY <1>21 DEF HelperExit
  <2>2. PartEnded(current, "helper-exit") BY <1>21 DEF HelperExit
  <2> QED BY <2>1, <2>2 DEF LogNext, LogPartEnd, EndReasons
<1>22. CASE HealthDead
  BY <1>22 DEF HealthDead, Report
<1>23. CASE HealthOk
  BY <1>23 DEF HealthOk, Report
<1>24. CASE TappedAppsExited
  BY <1>24 DEF TappedAppsExited
<1>25. CASE PacketAgain
  BY <1>25 DEF PacketAgain, Report
<1>26. CASE DeadTimerFires
  BY <1>26 DEF DeadTimerFires
<1>27. CASE Watchdog
  BY <1>27 DEF Watchdog
<1>28. CASE WindowPasses
  BY <1>28 DEF WindowPasses
<1>29. ASSUME NEW p \in Parts, StopExit(p) PROVE [LogNext]_logVars
  <2>1. p \notin lended /\ stops[p] # "no" BY <1>29 DEF StopExit, Retired
  <2>2. PICK reason \in EndReasons :
          PartEnded(p, reason) /\ (p \in lstarted \/ (reason = "cancelled" /\ Newest(p)))
    <3>1. CASE stops[p] = "cancelled"
      <4>1. Newest(p) BY <1>29, <2>1, <3>1 DEF StopExit, Retired, Turn, Newest
      <4>2. PartEnded(p, "cancelled") BY <1>29, <3>1 DEF StopExit, Retired
      <4> QED BY <4>1, <4>2 DEF EndReasons
    <3>2. CASE stops[p] # "cancelled" /\ helper[p] = "killed"
      <4>1. p \in lstarted BY <2>1, <3>2
      <4>2. PartEnded(p, "killed") BY <1>29, <3>2 DEF StopExit, Retired
      <4>3. "killed" \in EndReasons BY DEF EndReasons
      <4> WITNESS "killed" \in EndReasons
      <4> QED BY <4>1, <4>2
    <3>3. CASE stops[p] # "cancelled" /\ helper[p] # "killed"
      <4>1. p \in lstarted BY <2>1, <3>3
      <4>2. PartEnded(p, stops[p]) BY <1>29, <3>3 DEF StopExit, Retired
      <4>3. stops[p] \in EndReasons BY <2>1 DEF EndReasons
      <4> WITNESS stops[p] \in EndReasons
      <4> QED BY <4>1, <4>2
    <3> QED BY <3>1, <3>2, <3>3
  <2> QED BY <2>1, <2>2 DEF LogNext, LogPartEnd
<1>30. ASSUME NEW p \in Parts, StopKill(p) PROVE [LogNext]_logVars
  BY <1>30 DEF StopKill
<1>31. ASSUME NEW p \in Parts, KillGrace(p) PROVE [LogNext]_logVars
  <2>1. p \notin lended /\ stops[p] # "no" BY <1>31 DEF KillGrace, Retired
  <2>2. PICK reason \in EndReasons :
          PartEnded(p, reason) /\ (p \in lstarted \/ (reason = "cancelled" /\ Newest(p)))
    <3>1. CASE stops[p] = "cancelled"
      <4>1. Newest(p) BY <1>31, <2>1, <3>1 DEF KillGrace, Retired, Turn, Newest
      <4>2. PartEnded(p, "cancelled") BY <1>31, <3>1 DEF KillGrace, Retired
      <4> QED BY <4>1, <4>2 DEF EndReasons
    <3>2. CASE stops[p] # "cancelled" /\ helper[p] = "killed"
      <4>1. p \in lstarted BY <2>1, <3>2
      <4>2. PartEnded(p, "killed") BY <1>31, <3>2 DEF KillGrace, Retired
      <4>3. "killed" \in EndReasons BY DEF EndReasons
      <4> WITNESS "killed" \in EndReasons
      <4> QED BY <4>1, <4>2
    <3>3. CASE stops[p] # "cancelled" /\ helper[p] # "killed"
      <4>1. p \in lstarted BY <2>1, <3>3
      <4>2. PartEnded(p, stops[p]) BY <1>31, <3>3 DEF KillGrace, Retired
      <4>3. stops[p] \in EndReasons BY <2>1 DEF EndReasons
      <4> WITNESS stops[p] \in EndReasons
      <4> QED BY <4>1, <4>2
    <3> QED BY <3>1, <3>2, <3>3
  <2> QED BY <2>1, <2>2 DEF LogNext, LogPartEnd
<1>32. CASE FlushDone
  <2>1. AllEnded BY <1>32 DEF FlushDone, Turn
  <2>2. writer /\ CallEnded(ending) BY <1>32 DEF FlushDone
  <2>3. CASE ending = "stop" BY <1>32, <2>1, <2>2, <2>3 DEF FlushDone, LogNext, LogEnd
  <2>4. CASE ending # "stop" BY <1>32, <2>1, <2>2, <2>4 DEF FlushDone, LogNext, LogEnd
  <2> QED BY <2>3, <2>4
<1>33. CASE Crash
  BY <1>33 DEF Crash
<1>34. ASSUME NEW old \in BOOLEAN, RecoverStart(old) PROVE [LogNext]_logVars
  BY <1>34 DEF RecoverStart
<1>35. CASE RecoverPart
  <2>1. PICK p \in todo : PartEnded(p, "crashed") BY <1>35 DEF RecoverPart
  <2>2. p \in Parts /\ p \notin lended /\ p \in lstarted BY <1>35, <2>1 DEF RecoverPart
  <2> QED BY <2>1, <2>2 DEF LogNext, LogPartEnd, EndReasons
<1>36. CASE RecoverVerdict
  BY <1>36 DEF RecoverVerdict, LogNext, LogFail, LogEnd
<1>37. CASE Load
  BY <1>37 DEF Load
<1>38. CASE UNCHANGED vars
  BY <1>38 DEF vars
<1> QED BY <1>1, <1>2, <1>3, <1>4, <1>5, <1>6, <1>7, <1>8, <1>9, <1>10, <1>11, <1>12, <1>13,
           <1>14, <1>15, <1>16, <1>17, <1>18, <1>19, <1>20, <1>21, <1>22, <1>23, <1>24, <1>25,
           <1>26, <1>27, <1>28, <1>29, <1>30, <1>31, <1>32, <1>33, <1>34, <1>35, <1>36, <1>37,
           <1>38
  DEF Next, Launches, LaunchEnds, Continue, Controls, Reports, Stopping, Recovery

(* Each step changes the phase of the call as the manager relies on, or not   *)
(* at all.                                                                   *)
LEMMA LifeStep == ASSUME EndingRaces = {}, CallInv, [Next]_vars PROVE [Life!Next]_Phase
<1> USE DEF CallInv, CoreInv, TypeOK, LogTypeOK, StatusTypeOK, SettingsTypeOK, PartTypeOK,
            RecoveryTypeOK, DownHoldsNothing, StartRemembersBefore, RestartWhileTaking,
            StopMatchesStatus, WriterInv, InterruptMatchesStatus, WriterWhileNeeded, Turn, Live,
            Taking, Newest, PartsInv, DownIsEmpty, Numbered, LaunchIsNewest, CurrentIsNewest,
            EachHelperKnown, StopsHaveReasons, RunInv, FailedRestartsRetried, EndInv,
            DrainedUnlessDraining, LogInv, NothingYet, Phase, Life!Next, Life!Goes,
            Life!Openings, Life!Stops, Life!LivePhases, Life!OwnSteps
<1>1. CASE Create
  BY <1>1 DEF Create
<1>2. ASSUME NEW spawned \in BOOLEAN, Begin(spawned) PROVE [Life!Next]_Phase
  BY <1>2 DEF Begin, Life!Open
<1>3. ASSUME NEW spawned \in BOOLEAN, RestartLive(spawned) PROVE [Life!Next]_Phase
  BY <1>3 DEF RestartLive, ReplaceHelper
<1>4. ASSUME NEW spawned \in BOOLEAN, Reopen(spawned) PROVE [Life!Next]_Phase
  BY <1>4 DEF Reopen, Life!Open
<1>5. ASSUME NEW h \in {"ok", "exited"}, Capturing(h) PROVE [Life!Next]_Phase
  BY <1>5 DEF Capturing, Life!Own
<1>6. CASE EarlyExit
  BY <1>6 DEF EarlyExit, LaunchFails
<1>7. CASE LaunchTimeout
  BY <1>7 DEF LaunchTimeout, LaunchFails
<1>8. CASE BeginFails
  BY <1>8 DEF BeginFails, LaunchReturns, Life!Own
<1>9. CASE ReopenFails
  BY <1>9 DEF ReopenFails, LaunchReturns, BackTo, Life!Own
<1>10. CASE ReplaceFails
  BY <1>10 DEF ReplaceFails, LaunchReturns
<1>11. CASE AutoSkip
  BY <1>11 DEF AutoSkip
<1>12. CASE Interrupt
  BY <1>12 DEF Interrupt, CloseCall, WaitFor, Life!Own
<1>13. CASE AutoTooLate
  BY <1>13 DEF AutoTooLate
<1>14. ASSUME NEW spawned \in BOOLEAN, AutoRestart(spawned) PROVE [Life!Next]_Phase
  BY <1>14 DEF AutoRestart, ReplaceHelper
<1>15. CASE Stop
  <2>1. ~Drained(StopsAtClose) BY <1>15 DEF Stop, StopsAtClose, Drained
  <2>2. Phase \in Life!LivePhases BY <1>15 DEF Stop
  <2>3. Phase' = "draining" BY <1>15, <2>1 DEF Stop, CloseCall, WaitFor
  <2>4. <<Phase, "draining">> \in Life!Stops BY <2>2
  <2>5. Life!Goes(<<Phase, "draining">>[1], <<Phase, "draining">>[2]) BY <2>3
  <2> QED BY <2>4, <2>5 DEF Life!Stop
<1>16. CASE Pause
  BY <1>16 DEF Pause
<1>17. CASE Resume
  BY <1>17 DEF Resume
<1>18. ASSUME NEW on \in BOOLEAN, Mute(on) PROVE [Life!Next]_Phase
  BY <1>18 DEF Mute
<1>19. CASE HoldWriter
  BY <1>19 DEF HoldWriter
<1>20. CASE Release
  BY <1>20 DEF Release
<1>21. CASE HelperExit
  BY <1>21 DEF HelperExit
<1>22. CASE HealthDead
  BY <1>22 DEF HealthDead, Report
<1>23. CASE HealthOk
  BY <1>23 DEF HealthOk, Report
<1>24. CASE TappedAppsExited
  BY <1>24 DEF TappedAppsExited
<1>25. CASE PacketAgain
  BY <1>25 DEF PacketAgain, Report
<1>26. CASE DeadTimerFires
  BY <1>26 DEF DeadTimerFires
<1>27. CASE Watchdog
  BY <1>27 DEF Watchdog
<1>28. CASE WindowPasses
  BY <1>28 DEF WindowPasses
<1>29. ASSUME NEW p \in Parts, StopExit(p) PROVE [Life!Next]_Phase
  BY <1>29 DEF StopExit, Retired, WaitFor, Life!Own
<1>30. ASSUME NEW p \in Parts, StopKill(p) PROVE [Life!Next]_Phase
  BY <1>30 DEF StopKill
<1>31. ASSUME NEW p \in Parts, KillGrace(p) PROVE [Life!Next]_Phase
  BY <1>31 DEF KillGrace, Retired, WaitFor, Life!Own
<1>32. CASE FlushDone
  BY <1>32 DEF FlushDone, Life!Own
<1>33. CASE Crash
  BY <1>33 DEF Crash, Life!Crash
<1>34. ASSUME NEW old \in BOOLEAN, RecoverStart(old) PROVE [Life!Next]_Phase
  BY <1>34 DEF RecoverStart, Recovering
<1>35. CASE RecoverPart
  BY <1>35 DEF RecoverPart, Recovering
<1>36. CASE RecoverVerdict
  BY <1>36 DEF RecoverVerdict, Recovering
<1>37. CASE Load
  BY <1>37 DEF Load, Life!Return
<1>38. CASE UNCHANGED vars
  BY <1>38 DEF vars
<1> QED BY <1>1, <1>2, <1>3, <1>4, <1>5, <1>6, <1>7, <1>8, <1>9, <1>10, <1>11, <1>12, <1>13,
           <1>14, <1>15, <1>16, <1>17, <1>18, <1>19, <1>20, <1>21, <1>22, <1>23, <1>24, <1>25,
           <1>26, <1>27, <1>28, <1>29, <1>30, <1>31, <1>32, <1>33, <1>34, <1>35, <1>36, <1>37,
           <1>38
  DEF Next, Launches, LaunchEnds, Continue, Controls, Reports, Stopping, Recovery

-----------------------------------------------------------------------------

(* A restart overlaps its two helpers and no more (replaceHelper,            *)
(* call.ts:720-744).                                                         *)
THEOREM PartsOverlap == ASSUME EndingRaces = {} PROVE Spec => []RestartOverlaps
<1>1. CallInv => RestartOverlaps BY InvImplies
<1> QED BY CallInvariance, <1>1, PTL

(* A call that records or pauses captures: its current part is open and the  *)
(* one helper that runs for it was not told to stop (call.ts:25).            *)
THEOREM CaptureGoesOn == ASSUME EndingRaces = {} PROVE Spec => []CapturesWhileTaking
<1>1. CallInv => CapturesWhileTaking BY InvImplies
<1> QED BY CallInvariance, <1>1, PTL

(* A restart that was asked for and failed is tried again as long as what    *)
(* asked for it stands (restartLive, call.ts:704).                           *)
THEOREM RestartsOwed == ASSUME EndingRaces = {} PROVE Spec => []FailedRestartsRetried
<1>1. CallInv => FailedRestartsRetried BY InvImplies
<1> QED BY CallInvariance, <1>1, PTL

(* Pause and mute reach every part that a restart starts, and the log.       *)
THEOREM SettingsSurvive == ASSUME EndingRaces = {} PROVE Spec => []PauseAndMuteSurvive
<1>1. CallInv => PauseAndMuteSurvive BY InvImplies
<1> QED BY CallInvariance, <1>1, PTL

(* Whoever reads the log is told the status the controller has.              *)
THEOREM LogTrue == ASSUME EndingRaces = {} PROVE Spec => []LogTellsStatus
<1>1. CallInv => LogTellsStatus BY InvImplies
<1> QED BY CallInvariance, <1>1, PTL

(* Nothing of a call that is over is left: every helper was at least killed, *)
(* no part is open in the log, and the writer went with its last holder.     *)
THEOREM NothingLeftOver == ASSUME EndingRaces = {} PROVE Spec => []OverIsOver
<1>1. CallInv => OverIsOver BY InvImplies
<1> QED BY CallInvariance, <1>1, PTL

(* The controller and the recovery, across crashes, only ever append what    *)
(* the contract of the log allows (CallLog): each step is a step of LogSpec  *)
(* or leaves the log alone.                                                  *)
THEOREM LogImplemented == ASSUME EndingRaces = {} PROVE Spec => LogSpec
<1>1. Init => LogInit BY DEF Init
<1>2. ASSUME CallInv, [Next]_vars PROVE [LogNext]_logVars BY <1>2, LogStep
<1> QED BY CallInvariance, <1>1, <1>2, PTL DEF Spec, LogSpec

(* The controller implements the call that CallManager composes (CallLife):  *)
(* under the mapping Phase, each step is one of its steps or a stutter.      *)
THEOREM LifeImplemented == ASSUME EndingRaces = {} PROVE Spec => LifeSpec
<1>1. Init => Life!Init
  BY DEF Init, Life!Init, Phase, Taking
<1>2. ASSUME CallInv, [Next]_vars PROVE [Life!Next]_Phase BY <1>2, LifeStep
<1> QED BY CallInvariance, <1>1, <1>2, PTL DEF Spec, LifeSpec, Life!Spec
=============================================================================
