------------------------ MODULE ProcessMonitorProofs ------------------------
(***************************************************************************)
(* Proofs about ProcessMonitor, for every number of entries, every set of  *)
(* critical entries, with and without restarts and under every fault.      *)
(***************************************************************************)
EXTENDS ProcessMonitor, TLAPS

Ended == {"gone", "failed"}

\* Before run_cvd starts the monitor, nothing has happened.
NotStarted ==
  /\ parent = "new" => mon = "none" /\ result = "none"
  /\ mon \in {"none", "forked", "start"} => monitored = Entry /\ idx >= 1 /\ comms = "none"
  /\ mon = "none" => \A c \in Child : kid[c] = "null"

\* An entry leaves the vector only after its process was waited for, and is
\* never started again.
ErasedIsGone == \A j \in Entry \ monitored : kid[j] = "gone"

\* What cur stands for at each place of the main thread.
CurInv ==
  /\ mon \in {"recheck", "lookup"} => cur \in Child /\ kid[cur] = "gone"
  /\ mon \in {"critical", "launch"} => cur \in Entry
  /\ mon = "reap" => /\ cur \in monitored /\ NextToStop(cur)
                     /\ kid[cur] \in {"stopping", "zombie"}

\* StopSubprocesses has dealt with the entries after idx.
StopProgress ==
  mon \in {"stop", "reap"} => \A j \in monitored : j > idx => kid[j] \in Ended

\* A monitor that exits with status 0 leaves nothing behind.
ExitInv ==
  /\ mon = "exit0" => \A i \in Entry : kid[i] \in Ended
  /\ result = "ok" => mon = "exit0"

\* Only the subprocess the main thread waits for has been asked to stop, and only
\* children of a monitor that ended have got SIGHUP.
SignalInv ==
  \A c \in Child :
    /\ kid[c] = "stopping" /\ MonAlive => mon = "reap" /\ cur = c
    /\ kid[c] = "hup" => mon \in MonEnded

\* The process that wakes up wait() is forked after running is cleared.
WakeInv ==
  /\ running => kid[Wake] = "null"
  /\ comms = "read" => running
  /\ comms = "fork" => ~running /\ kid[Wake] = "null"

IInv ==
  /\ TypeOK /\ NotStarted /\ ErasedIsGone /\ CurInv /\ StopProgress /\ ExitInv
  /\ SignalInv /\ WakeInv /\ WakeUpEndsLoop /\ CriticalExitNotLost

-----------------------------------------------------------------------------
LEMMA InitIInv == Init => IInv
<1> SUFFICES ASSUME Init PROVE IInv
  OBVIOUS
<1> USE NAssumption, CriticalAssumption, MaxCrashesAssumption
    DEF Init, Entry, StopCvd, Wake, Orphan, Child, KidState, MonEnded, MonAlive, Alive, Ended
<1>1. TypeOK
  <2>1. kid \in [Child -> KidState]
    OBVIOUS
  <2>2. idx \in 0..(N + 1) /\ cur \in 0..(2 * N + 2) /\ crashes \in 0..MaxCrashes
    OBVIOUS
  <2> QED
    BY <2>1, <2>2, Zenon DEF TypeOK
<1>2. NotStarted
  BY DEF NotStarted
<1>3. ErasedIsGone
  BY DEF ErasedIsGone
<1>4. CurInv
  BY DEF CurInv
<1>5. StopProgress
  BY DEF StopProgress
<1>6. ExitInv
  BY DEF ExitInv
<1>7. SignalInv
  BY DEF SignalInv
<1>8. WakeInv
  BY DEF WakeInv
<1>9. WakeUpEndsLoop
  BY DEF WakeUpEndsLoop
<1>10. CriticalExitNotLost
  BY DEF CriticalExitNotLost
<1> QED
  BY <1>1, <1>2, <1>3, <1>4, <1>5, <1>6, <1>7, <1>8, <1>9, <1>10 DEF IInv

\* The communications thread's stop only takes the message and clears running.
LEMMA CommsStopTyped == TypeOK /\ CommsStop => TypeOK'
<1> SUFFICES ASSUME TypeOK, CommsStop PROVE TypeOK'
  OBVIOUS
<1>1. pipe' \in BOOLEAN /\ running' \in BOOLEAN
  BY Zenon DEF CommsStop
<1>2. comms' = "fork" /\ UNCHANGED <<parentVars, mainVars, kernelVars>>
  BY Zenon DEF CommsStop
<1> QED
  BY <1>1, <1>2 DEF TypeOK, parentVars, mainVars, kernelVars

LEMMA StepIInv == IInv /\ [Next]_vars => IInv'
<1> SUFFICES ASSUME IInv, [Next]_vars PROVE IInv'
  OBVIOUS
<1> USE NAssumption, CriticalAssumption, MaxCrashesAssumption
    DEF IInv, Entry, StopCvd, Wake, Orphan, Child, KidState, Alive, Ended,
        MonEnded, MonAlive, parentVars, mainVars, commsVars, kernelVars, vars
<1> USE DEF TypeOK, NotStarted, ErasedIsGone, CurInv, StopProgress, ExitInv,
        SignalInv, WakeInv, WakeUpEndsLoop, CriticalExitNotLost, NextToStop
<1>1. CASE StartAndMonitorProcesses
  <2>1. TypeOK'
    BY <1>1, Zenon DEF StartAndMonitorProcesses
  <2>2. NotStarted'
    BY <1>1 DEF StartAndMonitorProcesses
  <2>3. ErasedIsGone'
    BY <1>1 DEF StartAndMonitorProcesses
  <2>4. CurInv'
    BY <1>1 DEF StartAndMonitorProcesses
  <2>5. StopProgress'
    BY <1>1 DEF StartAndMonitorProcesses
  <2>6. ExitInv'
    BY <1>1 DEF StartAndMonitorProcesses
  <2>7. SignalInv'
    BY <1>1 DEF StartAndMonitorProcesses
  <2>8. WakeInv'
    BY <1>1 DEF StartAndMonitorProcesses
  <2>9. WakeUpEndsLoop'
    BY <1>1 DEF StartAndMonitorProcesses
  <2>10. CriticalExitNotLost'
    BY <1>1 DEF StartAndMonitorProcesses
  <2> QED
    BY <2>1, <2>2, <2>3, <2>4, <2>5, <2>6, <2>7, <2>8, <2>9, <2>10
<1>2. CASE StopMonitoredProcesses
  <2>1. TypeOK'
    BY <1>2, ZenonT(30) DEF StopMonitoredProcesses
  <2>2. NotStarted'
    BY <1>2 DEF StopMonitoredProcesses
  <2>3. ErasedIsGone'
    BY <1>2 DEF StopMonitoredProcesses
  <2>4. CurInv'
    BY <1>2 DEF StopMonitoredProcesses
  <2>5. StopProgress'
    BY <1>2 DEF StopMonitoredProcesses
  <2>6. ExitInv'
    BY <1>2 DEF StopMonitoredProcesses
  <2>7. SignalInv'
    BY <1>2 DEF StopMonitoredProcesses
  <2>8. WakeInv'
    BY <1>2 DEF StopMonitoredProcesses
  <2>9. WakeUpEndsLoop'
    BY <1>2 DEF StopMonitoredProcesses
  <2>10. CriticalExitNotLost'
    BY <1>2 DEF StopMonitoredProcesses
  <2> QED
    BY <2>1, <2>2, <2>3, <2>4, <2>5, <2>6, <2>7, <2>8, <2>9, <2>10
<1>3. CASE StopWriteFails
  BY <1>3 DEF StopWriteFails
<1>4. CASE StopRefused
  BY <1>4 DEF StopRefused
<1>5. CASE WaitpidReturns
  BY <1>5 DEF WaitpidReturns
<1>6. CASE RunCvdKilled
  BY <1>6 DEF RunCvdKilled
<1>7. CASE Prctl
  BY <1>7 DEF Prctl
<1>8. CASE StartSubprocess
  <2>1. TypeOK'
    BY <1>8 DEF StartSubprocess, Forks, ForkFails
  <2>2. NotStarted'
    BY <1>8 DEF StartSubprocess, Forks, ForkFails
  <2>3. ErasedIsGone'
    BY <1>8 DEF StartSubprocess, Forks, ForkFails
  <2>4. CurInv'
    BY <1>8 DEF StartSubprocess, Forks, ForkFails
  <2>5. StopProgress'
    BY <1>8 DEF StartSubprocess, Forks, ForkFails
  <2>6. ExitInv'
    BY <1>8 DEF StartSubprocess, Forks, ForkFails
  <2>7. SignalInv'
    BY <1>8 DEF StartSubprocess, Forks, ForkFails
  <2>8. WakeInv'
    BY <1>8 DEF StartSubprocess, Forks, ForkFails
  <2>9. WakeUpEndsLoop'
    BY <1>8 DEF StartSubprocess, Forks, ForkFails
  <2>10. CriticalExitNotLost'
    BY <1>8 DEF StartSubprocess, Forks, ForkFails
  <2> QED
    BY <2>1, <2>2, <2>3, <2>4, <2>5, <2>6, <2>7, <2>8, <2>9, <2>10
<1>9. CASE StartComms
  BY <1>9 DEF StartComms
<1>10. CASE MonitorLoopCheck
  BY <1>10 DEF MonitorLoopCheck
<1>11. CASE MonitorLoopNoChild
  BY <1>11 DEF MonitorLoopNoChild
<1>12. CASE MonitorLoopRecheck
  BY <1>12 DEF MonitorLoopRecheck
<1>13. CASE LookupUnknown
  BY <1>13 DEF LookupUnknown
<1>14. CASE LookupRestart
  BY <1>14 DEF LookupRestart, Forks, ForkFails
<1>15. CASE LookupErase
  BY <1>15 DEF LookupErase
<1>16. CASE LookupSegfault
  BY <1>16 DEF LookupSegfault, MonitorEnds
<1>17. CASE MonitorLoopCritical
  BY <1>17 DEF MonitorLoopCritical
<1>18. CASE MonitorLoopStopCvd
  BY <1>18 DEF MonitorLoopStopCvd, Forks, ForkFails
<1>19. CASE JoinComms
  BY <1>19 DEF JoinComms
<1>20. CASE JoinCommsFails
  BY <1>20 DEF JoinCommsFails, MonitorEnds
<1>21. CASE ReapEntry
  BY <1>21 DEF ReapEntry
<1>22. CASE StopDone
  BY <1>22 DEF StopDone, MonitorEnds
<1>23. CASE CommsCheck
  BY <1>23 DEF CommsCheck
<1>24. CASE CommsStop
  <2>1. TypeOK'
    BY <1>24, CommsStopTyped
  <2>2. NotStarted'
    BY <1>24 DEF CommsStop
  <2>3. ErasedIsGone'
    BY <1>24 DEF CommsStop
  <2>4. CurInv'
    BY <1>24 DEF CommsStop
  <2>5. StopProgress'
    BY <1>24 DEF CommsStop
  <2>6. ExitInv'
    BY <1>24 DEF CommsStop
  <2>7. SignalInv'
    BY <1>24 DEF CommsStop
  <2>8. WakeInv'
    BY <1>24 DEF CommsStop
  <2>9. WakeUpEndsLoop'
    BY <1>24 DEF CommsStop
  <2>10. CriticalExitNotLost'
    BY <1>24 DEF CommsStop
  <2> QED
    BY <2>1, <2>2, <2>3, <2>4, <2>5, <2>6, <2>7, <2>8, <2>9, <2>10
<1>25. CASE CommsReadFails
  BY <1>25 DEF CommsReadFails
<1>26. CASE CommsWake
  BY <1>26 DEF CommsWake
<1>27. CASE MonitorSighup
  BY <1>27 DEF MonitorSighup, MonitorEnds
<1>28. CASE MonitorKilled
  BY <1>28 DEF MonitorKilled, MonitorEnds
<1>29. CASE OrphanAppears
  BY <1>29 DEF OrphanAppears
<1>30. ASSUME NEW c \in Child, MonitorLoopWait(c) PROVE IInv'
  BY <1>30 DEF MonitorLoopWait
<1>31. ASSUME NEW k \in monitored, StopEntry(k) PROVE IInv'
  BY <1>31 DEF StopEntry
<1>32. ASSUME NEW k \in monitored, StopEntryFails(k) PROVE IInv'
  BY <1>32 DEF StopEntryFails
<1>33. ASSUME NEW k \in monitored, StopEntrySegfault(k) PROVE IInv'
  BY <1>33 DEF StopEntrySegfault, MonitorEnds
<1>34. ASSUME NEW c \in Child, KidExec(c) PROVE IInv'
  BY <1>34 DEF KidExec
<1>35. ASSUME NEW c \in Child, KidExits(c) PROVE IInv'
  BY <1>35 DEF KidExits, Exited
<1>36. ASSUME NEW i \in Entry, KidCrashes(i) PROVE IInv'
  BY <1>36 DEF KidCrashes, Exited
<1>37. CASE UNCHANGED vars
  BY <1>37
<1> QED
  BY <1>1, <1>2, <1>3, <1>4, <1>5, <1>6, <1>7, <1>8, <1>9, <1>10, <1>11,
     <1>12, <1>13, <1>14, <1>15, <1>16, <1>17, <1>18, <1>19, <1>20, <1>21,
     <1>22, <1>23, <1>24, <1>25, <1>26, <1>27, <1>28, <1>29, <1>30, <1>31,
     <1>32, <1>33, <1>34, <1>35, <1>36, <1>37, Zenon
  DEF Next, RunCvdNext, MainNext, CommsNext, KidNext

\* Each variable of the monitor keeps its type, in every instance.
THEOREM TypeCorrect == Spec => []TypeOK
<1>1. IInv => TypeOK
  BY DEF IInv
<1> QED
  BY InitIInv, StepIInv, <1>1, PTL DEF Spec

\* Whatever the number of subprocesses, and whichever crash, restart, fork failure
\* or signal falls between the stop message and the last wait: if
\* StopMonitoredProcesses reports success, no monitored subprocess is left.
THEOREM StopIsComplete == Spec => []StoppedMeansStopped
<1>1. IInv => StoppedMeansStopped
  BY DEF IInv, ExitInv, StoppedMeansStopped, Ended
<1> QED
  BY InitIInv, StepIInv, <1>1, PTL DEF Spec

\* StopSubprocesses stops the subprocesses in the reverse of the order in which
\* StartSubprocesses started them, one at a time.
THEOREM StopsInReverse == Spec => []ReverseStopOrder
<1>1. IInv => ReverseStopOrder
  <2> SUFFICES ASSUME IInv, NEW j \in monitored, NEW k \in monitored,
                      j < k, kid[j] = "stopping", MonAlive
               PROVE  kid[k] \notin Alive
    BY DEF ReverseStopOrder
  <2>1. mon = "reap" /\ cur = j
    BY NAssumption DEF IInv, SignalInv, TypeOK, Entry, Child
  <2>2. k > idx
    BY <2>1, NAssumption DEF IInv, CurInv, NextToStop, TypeOK, Entry
  <2> QED
    BY <2>1, <2>2 DEF IInv, StopProgress, Ended, Alive
<1> QED
  BY InitIInv, StepIInv, <1>1, PTL DEF Spec

\* The process forked to wake up wait() never leads to a restart or to stop_cvd.
THEOREM WakeUpIsNotHandled == Spec => []WakeUpEndsLoop
<1>1. IInv => WakeUpEndsLoop
  BY DEF IInv
<1> QED
  BY InitIInv, StepIInv, <1>1, PTL DEF Spec

\* The exit of a critical process always leads MonitorLoop to start stop_cvd, or
\* finds a stop already under way.
THEOREM CriticalExitIsHandled == Spec => []CriticalExitNotLost
<1>1. IInv => CriticalExitNotLost
  BY DEF IInv
<1> QED
  BY InitIInv, StepIInv, <1>1, PTL DEF Spec

-----------------------------------------------------------------------------
(* ProcessMonitor implements Supervisor                                    *)

\* The main thread stops subprocesses only after run_cvd has asked for it.
RequestInv ==
  /\ parent = "new" => ~pipe /\ running
  /\ pipe \/ ~running => ~monitor_
  /\ comms = "ok" \/ mon \in {"stop", "reap"} => ~running

LEMMA StepRequestInv == IInv /\ RequestInv /\ [Next]_vars => RequestInv'
<1> SUFFICES ASSUME IInv, RequestInv, [Next]_vars PROVE RequestInv'
  OBVIOUS
<1> USE DEF IInv, TypeOK, NotStarted, RequestInv, MonEnded, MonAlive,
        parentVars, mainVars, commsVars, kernelVars, vars
<1>1. CASE StartAndMonitorProcesses
  BY <1>1 DEF StartAndMonitorProcesses
<1>2. CASE StopMonitoredProcesses
  BY <1>2 DEF StopMonitoredProcesses
<1>3. CASE StopWriteFails
  BY <1>3 DEF StopWriteFails
<1>4. CASE StopRefused
  BY <1>4 DEF StopRefused
<1>5. CASE WaitpidReturns
  BY <1>5 DEF WaitpidReturns
<1>6. CASE RunCvdKilled
  BY <1>6 DEF RunCvdKilled
<1>7. CASE Prctl
  BY <1>7 DEF Prctl
<1>8. CASE StartSubprocess
  BY <1>8 DEF StartSubprocess, Forks, ForkFails
<1>9. CASE StartComms
  BY <1>9 DEF StartComms
<1>10. CASE MonitorLoopCheck
  BY <1>10 DEF MonitorLoopCheck
<1>11. CASE MonitorLoopNoChild
  BY <1>11 DEF MonitorLoopNoChild
<1>12. CASE MonitorLoopRecheck
  BY <1>12 DEF MonitorLoopRecheck
<1>13. CASE LookupUnknown
  BY <1>13 DEF LookupUnknown
<1>14. CASE LookupRestart
  BY <1>14 DEF LookupRestart, Forks, ForkFails
<1>15. CASE LookupErase
  BY <1>15 DEF LookupErase
<1>16. CASE LookupSegfault
  BY <1>16 DEF LookupSegfault, MonitorEnds
<1>17. CASE MonitorLoopCritical
  BY <1>17 DEF MonitorLoopCritical
<1>18. CASE MonitorLoopStopCvd
  BY <1>18 DEF MonitorLoopStopCvd, Forks, ForkFails
<1>19. CASE JoinComms
  BY <1>19 DEF JoinComms
<1>20. CASE JoinCommsFails
  BY <1>20 DEF JoinCommsFails, MonitorEnds
<1>21. CASE ReapEntry
  BY <1>21 DEF ReapEntry
<1>22. CASE StopDone
  BY <1>22 DEF StopDone, MonitorEnds
<1>23. CASE CommsCheck
  BY <1>23 DEF CommsCheck
<1>24. CASE CommsStop
  BY <1>24 DEF CommsStop
<1>25. CASE CommsReadFails
  BY <1>25 DEF CommsReadFails
<1>26. CASE CommsWake
  BY <1>26 DEF CommsWake
<1>27. CASE MonitorSighup
  BY <1>27 DEF MonitorSighup, MonitorEnds
<1>28. CASE MonitorKilled
  BY <1>28 DEF MonitorKilled, MonitorEnds
<1>29. CASE OrphanAppears
  BY <1>29 DEF OrphanAppears
<1>30. ASSUME NEW c \in Child, MonitorLoopWait(c) PROVE RequestInv'
  BY <1>30 DEF MonitorLoopWait
<1>31. ASSUME NEW k \in monitored, StopEntry(k) PROVE RequestInv'
  BY <1>31 DEF StopEntry
<1>32. ASSUME NEW k \in monitored, StopEntryFails(k) PROVE RequestInv'
  BY <1>32 DEF StopEntryFails
<1>33. ASSUME NEW k \in monitored, StopEntrySegfault(k) PROVE RequestInv'
  BY <1>33 DEF StopEntrySegfault, MonitorEnds
<1>34. ASSUME NEW c \in Child, KidExec(c) PROVE RequestInv'
  BY <1>34 DEF KidExec
<1>35. ASSUME NEW c \in Child, KidExits(c) PROVE RequestInv'
  BY <1>35 DEF KidExits, Exited
<1>36. ASSUME NEW i \in Entry, KidCrashes(i) PROVE RequestInv'
  BY <1>36 DEF KidCrashes, Exited
<1>37. CASE UNCHANGED vars
  BY <1>37
<1> QED
  BY <1>1, <1>2, <1>3, <1>4, <1>5, <1>6, <1>7, <1>8, <1>9, <1>10, <1>11,
     <1>12, <1>13, <1>14, <1>15, <1>16, <1>17, <1>18, <1>19, <1>20, <1>21,
     <1>22, <1>23, <1>24, <1>25, <1>26, <1>27, <1>28, <1>29, <1>30, <1>31,
     <1>32, <1>33, <1>34, <1>35, <1>36, <1>37, Zenon
  DEF Next, RunCvdNext, MainNext, CommsNext, KidNext

\* A child whose state changes is among the live subprocesses according to its new state.
LEMMA AliveEffect ==
  ASSUME TypeOK, NEW c \in Child, NEW v, kid' = [kid EXCEPT ![c] = v]
  PROVE  /\ v \in Alive /\ c \in Entry => aliveEntries' = aliveEntries \cup {c}
         /\ v \in Alive /\ kid[c] \in Alive => aliveEntries' = aliveEntries
         /\ v \notin Alive => aliveEntries' = aliveEntries \ {c}
<1>1. \A i \in Entry : kid'[i] = IF i = c THEN v ELSE kid[i]
  BY DEF TypeOK, Entry, Child
<1> QED
  BY <1>1 DEF aliveEntries

\* What the supervisor allows when its phase stays: nothing, an exit, a start.
LEMMA DeviceStays ==
  ASSUME devicePhase' = devicePhase, aliveEntries' = aliveEntries
  PROVE  [Device!SupervisorNext]_(Device!supervisorVars)
BY Zenon DEF Device!supervisorVars

LEMMA DeviceExits ==
  ASSUME NEW c, devicePhase' = devicePhase, aliveEntries' = aliveEntries \ {c}
  PROVE  [Device!SupervisorNext]_(Device!supervisorVars)
<1>1. CASE c \in aliveEntries
  <2>1. c \in Entry
    BY <1>1, Zenon DEF aliveEntries
  <2> QED
    BY <1>1, <2>1, Zenon DEF Device!SupervisorNext, Device!Exit
<1>2. CASE c \notin aliveEntries
  <2>1. aliveEntries' = aliveEntries
    BY <1>2
  <2> QED
    BY <2>1, DeviceStays
<1> QED
  BY <1>1, <1>2

LEMMA DeviceSpawns ==
  ASSUME NEW c \in Entry, devicePhase' = devicePhase, devicePhase \in {"up", "stopping"},
         aliveEntries' = aliveEntries \cup {c}
  PROVE  [Device!SupervisorNext]_(Device!supervisorVars)
BY Zenon DEF Device!SupervisorNext, Device!Spawn

\* Subprocess c is started, or its fork fails.
LEMMA ForkDevice ==
  ASSUME TypeOK, NEW c \in Entry, Forks(c) \/ ForkFails(c),
         devicePhase' = devicePhase, devicePhase \in {"up", "stopping"}
  PROVE  [Device!SupervisorNext]_(Device!supervisorVars)
<1>1. c \in Child
  BY NAssumption DEF Entry, StopCvd, Wake, Orphan, Child
<1>2. CASE Forks(c)
  <2>1. aliveEntries' = aliveEntries \cup {c}
    BY <1>1, <1>2, AliveEffect, Zenon DEF Forks, Alive
  <2> QED
    BY <2>1, DeviceSpawns
<1>3. CASE ForkFails(c)
  <2>1. "failed" \notin Alive
    BY DEF Alive
  <2>2. aliveEntries' = aliveEntries \ {c}
    BY <1>1, <1>3, <2>1, AliveEffect, Zenon DEF ForkFails
  <2> QED
    BY <2>2, DeviceExits
<1> QED
  BY <1>2, <1>3

\* A child begins or ends.
LEMMA KidDevice ==
  ASSUME TypeOK, NEW c \in Child, KidExec(c) \/ KidExits(c) \/ KidCrashes(c)
  PROVE  [Device!SupervisorNext]_(Device!supervisorVars)
<1>1. devicePhase' = devicePhase
  <2>1. UNCHANGED <<parent, monitor_, mon>>
    BY Zenon DEF KidExec, KidExits, KidCrashes, parentVars, mainVars
  <2> QED
    BY <2>1 DEF devicePhase, MonAlive
<1>2. CASE KidExec(c)
  <2>1. aliveEntries' = aliveEntries
    <3>1. "forked" \in Alive /\ "run" \in Alive
      BY DEF Alive
    <3> QED
      BY <1>2, <3>1, AliveEffect, Zenon DEF KidExec
  <2> QED
    BY <1>1, <2>1, DeviceStays
<1>3. CASE KidExits(c) \/ KidCrashes(c)
  <2>1. aliveEntries' = aliveEntries \ {c}
    BY <1>3, AliveEffect DEF KidExits, KidCrashes, Exited, Alive
  <2> QED
    BY <1>1, <2>1, DeviceExits
<1> QED
  BY <1>2, <1>3

LEMMA StepDevice ==
  IInv /\ RequestInv /\ [Next]_vars
    => [Device!SupervisorNext]_(Device!supervisorVars)
<1> SUFFICES ASSUME IInv, RequestInv, [Next]_vars
             PROVE  [Device!SupervisorNext]_(Device!supervisorVars)
  OBVIOUS
<1> USE NAssumption, CriticalAssumption
    DEF IInv, TypeOK, NotStarted, ErasedIsGone, CurInv, StopProgress, RequestInv,
        Entry, StopCvd, Wake, Orphan, Child, Alive, Ended, MonEnded, MonAlive,
        parentVars, mainVars, commsVars, kernelVars, vars
<1> USE DEF devicePhase, aliveEntries, Device!supervisorVars, Device!SupervisorNext,
        Device!StartMonitor, Device!RequestStop, Device!Stopped, Device!LoseMonitor,
        Device!Spawn, Device!Exit
<1>1. CASE StartAndMonitorProcesses
  BY <1>1 DEF StartAndMonitorProcesses
<1>2. CASE StopMonitoredProcesses
  BY <1>2 DEF StopMonitoredProcesses
<1>3. CASE StopWriteFails
  BY <1>3 DEF StopWriteFails
<1>4. CASE StopRefused
  BY <1>4 DEF StopRefused
<1>5. CASE WaitpidReturns
  BY <1>5 DEF WaitpidReturns
<1>6. CASE RunCvdKilled
  BY <1>6 DEF RunCvdKilled
<1>7. CASE Prctl
  BY <1>7 DEF Prctl
<1>8. CASE StartSubprocess
  <2>1. devicePhase' = devicePhase /\ devicePhase \in {"up", "stopping"}
    BY <1>8 DEF StartSubprocess
  <2>2. idx \in Entry
    BY <1>8 DEF StartSubprocess
  <2>3. Forks(idx) \/ ForkFails(idx)
    BY <1>8, Zenon DEF StartSubprocess
  <2> QED
    BY <2>1, <2>2, <2>3, ForkDevice, Zenon
<1>9. CASE StartComms
  BY <1>9 DEF StartComms
<1>10. CASE MonitorLoopCheck
  BY <1>10 DEF MonitorLoopCheck
<1>11. CASE MonitorLoopNoChild
  BY <1>11 DEF MonitorLoopNoChild
<1>12. CASE MonitorLoopRecheck
  BY <1>12 DEF MonitorLoopRecheck
<1>13. CASE LookupUnknown
  BY <1>13 DEF LookupUnknown
<1>14. CASE LookupRestart
  <2>1. devicePhase' = devicePhase /\ devicePhase \in {"up", "stopping"}
    BY <1>14 DEF LookupRestart
  <2>2. cur \in Entry
    BY <1>14 DEF LookupRestart
  <2>3. Forks(cur) \/ ForkFails(cur)
    BY <1>14, Zenon DEF LookupRestart
  <2> QED
    BY <2>1, <2>2, <2>3, ForkDevice, ZenonT(30)
<1>15. CASE LookupErase
  BY <1>15 DEF LookupErase
<1>16. CASE LookupSegfault
  BY <1>16 DEF LookupSegfault, MonitorEnds
<1>17. CASE MonitorLoopCritical
  BY <1>17 DEF MonitorLoopCritical
<1>18. CASE MonitorLoopStopCvd
  BY <1>18 DEF MonitorLoopStopCvd, Forks, ForkFails
<1>19. CASE JoinComms
  BY <1>19 DEF JoinComms
<1>20. CASE JoinCommsFails
  BY <1>20 DEF JoinCommsFails, MonitorEnds
<1>21. CASE ReapEntry
  BY <1>21 DEF ReapEntry
<1>22. CASE StopDone
  BY <1>22 DEF StopDone, MonitorEnds
<1>23. CASE CommsCheck
  BY <1>23 DEF CommsCheck
<1>24. CASE CommsStop
  BY <1>24 DEF CommsStop
<1>25. CASE CommsReadFails
  BY <1>25 DEF CommsReadFails
<1>26. CASE CommsWake
  BY <1>26 DEF CommsWake
<1>27. CASE MonitorSighup
  BY <1>27 DEF MonitorSighup, MonitorEnds
<1>28. CASE MonitorKilled
  BY <1>28 DEF MonitorKilled, MonitorEnds
<1>29. CASE OrphanAppears
  BY <1>29 DEF OrphanAppears
<1>30. ASSUME NEW c \in Child, MonitorLoopWait(c) PROVE [Device!SupervisorNext]_(Device!supervisorVars)
  BY <1>30 DEF MonitorLoopWait
<1>31. ASSUME NEW k \in monitored, StopEntry(k) PROVE [Device!SupervisorNext]_(Device!supervisorVars)
  BY <1>31 DEF StopEntry
<1>32. ASSUME NEW k \in monitored, StopEntryFails(k) PROVE [Device!SupervisorNext]_(Device!supervisorVars)
  BY <1>32, ZenonT(30) DEF StopEntryFails
<1>33. ASSUME NEW k \in monitored, StopEntrySegfault(k) PROVE [Device!SupervisorNext]_(Device!supervisorVars)
  BY <1>33 DEF StopEntrySegfault, MonitorEnds
<1>34. ASSUME NEW c \in Child, KidExec(c) PROVE [Device!SupervisorNext]_(Device!supervisorVars)
  BY <1>34, KidDevice, ZenonT(30)
<1>35. ASSUME NEW c \in Child, KidExits(c) PROVE [Device!SupervisorNext]_(Device!supervisorVars)
  BY <1>35, KidDevice, Zenon
<1>36. ASSUME NEW i \in Entry, KidCrashes(i) PROVE [Device!SupervisorNext]_(Device!supervisorVars)
  <2>1. i \in Child
    OBVIOUS
  <2> QED
    BY <1>36, <2>1, KidDevice, ZenonT(30)
<1>37. CASE UNCHANGED vars
  BY <1>37
<1> QED
  BY <1>1, <1>2, <1>3, <1>4, <1>5, <1>6, <1>7, <1>8, <1>9, <1>10, <1>11,
     <1>12, <1>13, <1>14, <1>15, <1>16, <1>17, <1>18, <1>19, <1>20, <1>21,
     <1>22, <1>23, <1>24, <1>25, <1>26, <1>27, <1>28, <1>29, <1>30, <1>31,
     <1>32, <1>33, <1>34, <1>35, <1>36, <1>37, ZenonT(30)
  DEF Next, RunCvdNext, MainNext, CommsNext, KidNext

\* Every behaviour of run_cvd, the two threads of the monitor and the kernel is,
\* seen through devicePhase and the set of live subprocesses, a behaviour of the
\* supervisor: in particular a stop that succeeded leaves no process and none
\* appears later.
THEOREM MonitorImplementsSupervisor == Spec => ImplementsSupervisor
<1>1. Init => RequestInv
  BY DEF Init, RequestInv
<1>2. Init => Device!SupervisorInit
  <2> SUFFICES ASSUME Init PROVE devicePhase = "off" /\ aliveEntries = {}
    BY DEF Device!SupervisorInit
  <2>1. devicePhase = "off"
    BY DEF Init, devicePhase, MonAlive, MonEnded
  <2>2. aliveEntries = {}
    BY NAssumption DEF Init, aliveEntries, Entry, Child, Alive
  <2> QED
    BY <2>1, <2>2
<1> QED
  BY InitIInv, StepIInv, StepRequestInv, StepDevice, <1>1, <1>2, PTL
  DEF Spec, ImplementsSupervisor, Device!SupervisorSpec
-----------------------------------------------------------------------------
\* What StopIsOnItsWay needs to be inductive: the reader thread stops reading only
\* after a stop, or when run_cvd has died, and the exited child that wakes up wait()
\* is waited for only by a loop that is about to end.
ReaderInv ==
  /\ mon = "none" => running /\ comms = "none"
  /\ MonAlive =>
       /\ comms = "none" => mon \in {"forked", "start"}
       /\ running => comms \in {"none", "check", "read", "error"}
       /\ ~running => comms \in {"fork", "check", "ok"}
       /\ comms = "error" => parent = "dead"
       /\ parent = "waitpid" /\ running => pipe
       /\ ~monitor_socket_ => parent \in {"waitpid", "dead"}
       /\ mon \in {"stop", "reap"} => ~running
       /\ kid[Wake] \in {"null", "run", "zombie", "gone"}
       /\ kid[Wake] = "gone" => mon \in {"recheck", "join", "stop", "reap"}

LEMMA StepReaderInv == IInv /\ ReaderInv /\ [Next]_vars => ReaderInv'
<1> SUFFICES ASSUME IInv, ReaderInv, [Next]_vars PROVE ReaderInv'
  OBVIOUS
<1> USE NAssumption
    DEF IInv, TypeOK, NotStarted, CurInv, WakeInv, ReaderInv, Entry, StopCvd, Wake, Orphan,
        Child, MonEnded, MonAlive, parentVars, mainVars, commsVars, kernelVars, vars
<1>1. CASE StartAndMonitorProcesses
  BY <1>1 DEF StartAndMonitorProcesses
<1>2. CASE StopMonitoredProcesses
  BY <1>2 DEF StopMonitoredProcesses
<1>3. CASE StopWriteFails
  BY <1>3 DEF StopWriteFails
<1>4. CASE StopRefused
  BY <1>4 DEF StopRefused
<1>5. CASE WaitpidReturns
  BY <1>5 DEF WaitpidReturns
<1>6. CASE RunCvdKilled
  BY <1>6 DEF RunCvdKilled
<1>7. CASE Prctl
  BY <1>7 DEF Prctl
<1>8. CASE StartSubprocess
  BY <1>8 DEF StartSubprocess, Forks, ForkFails
<1>9. CASE StartComms
  BY <1>9 DEF StartComms
<1>10. CASE MonitorLoopCheck
  BY <1>10 DEF MonitorLoopCheck
<1>11. CASE MonitorLoopNoChild
  BY <1>11 DEF MonitorLoopNoChild
<1>12. CASE MonitorLoopRecheck
  BY <1>12 DEF MonitorLoopRecheck
<1>13. CASE LookupUnknown
  BY <1>13 DEF LookupUnknown
<1>14. CASE LookupRestart
  BY <1>14 DEF LookupRestart, Forks, ForkFails
<1>15. CASE LookupErase
  BY <1>15 DEF LookupErase
<1>16. CASE LookupSegfault
  BY <1>16 DEF LookupSegfault, MonitorEnds
<1>17. CASE MonitorLoopCritical
  BY <1>17 DEF MonitorLoopCritical
<1>18. CASE MonitorLoopStopCvd
  BY <1>18 DEF MonitorLoopStopCvd, Forks, ForkFails
<1>19. CASE JoinComms
  BY <1>19 DEF JoinComms
<1>20. CASE JoinCommsFails
  BY <1>20 DEF JoinCommsFails, MonitorEnds
<1>21. CASE ReapEntry
  BY <1>21 DEF ReapEntry
<1>22. CASE StopDone
  BY <1>22 DEF StopDone, MonitorEnds
<1>23. CASE CommsCheck
  BY <1>23 DEF CommsCheck
<1>24. CASE CommsStop
  BY <1>24 DEF CommsStop
<1>25. CASE CommsReadFails
  BY <1>25 DEF CommsReadFails
<1>26. CASE CommsWake
  BY <1>26 DEF CommsWake
<1>27. CASE MonitorSighup
  BY <1>27 DEF MonitorSighup, MonitorEnds
<1>28. CASE MonitorKilled
  BY <1>28 DEF MonitorKilled, MonitorEnds
<1>29. CASE OrphanAppears
  BY <1>29 DEF OrphanAppears
<1>30. ASSUME NEW c \in Child, MonitorLoopWait(c) PROVE ReaderInv'
  BY <1>30 DEF MonitorLoopWait
<1>31. ASSUME NEW k \in monitored, StopEntry(k) PROVE ReaderInv'
  BY <1>31 DEF StopEntry
<1>32. ASSUME NEW k \in monitored, StopEntryFails(k) PROVE ReaderInv'
  BY <1>32 DEF StopEntryFails
<1>33. ASSUME NEW k \in monitored, StopEntrySegfault(k) PROVE ReaderInv'
  BY <1>33 DEF StopEntrySegfault, MonitorEnds
<1>34. ASSUME NEW c \in Child, KidExec(c) PROVE ReaderInv'
  BY <1>34 DEF KidExec
<1>35. ASSUME NEW c \in Child, KidExits(c) PROVE ReaderInv'
  BY <1>35 DEF KidExits, Exited
<1>36. ASSUME NEW i \in Entry, KidCrashes(i) PROVE ReaderInv'
  BY <1>36 DEF KidCrashes, Exited
<1>37. CASE UNCHANGED vars
  BY <1>37
<1> QED
  BY <1>1, <1>2, <1>3, <1>4, <1>5, <1>6, <1>7, <1>8, <1>9, <1>10, <1>11,
     <1>12, <1>13, <1>14, <1>15, <1>16, <1>17, <1>18, <1>19, <1>20, <1>21,
     <1>22, <1>23, <1>24, <1>25, <1>26, <1>27, <1>28, <1>29, <1>30, <1>31,
     <1>32, <1>33, <1>34, <1>35, <1>36, <1>37, Zenon
  DEF Next, RunCvdNext, MainNext, CommsNext, KidNext

\* No stop is lost on its way from StopMonitoredProcesses through the pipe, the
\* reader thread and the exited child to MonitorLoop, for any number of entries and
\* whatever exits, fails to fork or is killed meanwhile: this is the safety half of
\* StopReturns.
THEOREM StopIsNotLost == Spec => []StopIsOnItsWay
<1>1. Init => ReaderInv
  BY DEF Init, ReaderInv, MonAlive
<1>2. IInv /\ ReaderInv => StopIsOnItsWay
  BY DEF IInv, TypeOK, ReaderInv, StopIsOnItsWay, WakeLost, MonAlive
<1> QED
  BY InitIInv, StepIInv, StepReaderInv, <1>1, <1>2, PTL DEF Spec

-----------------------------------------------------------------------------
\* With restart_subprocesses, as long as MonitorLoop runs, every entry stays in the
\* vector, and a subprocess that exited and was waited for is the one MonitorLoop
\* has in hand: it is started again, or the loop has seen the stop, before wait()
\* is called for another one.
RestartOnItsWay ==
  restart_subprocesses /\ MonAlive /\ mon \notin {"join", "stop", "reap"} =>
    \A i \in Entry :
      /\ i \in monitored
      /\ kid[i] = "gone" => cur = i /\ mon \in {"recheck", "lookup"}

LEMMA StepRestart == IInv /\ RestartOnItsWay /\ [Next]_vars => RestartOnItsWay'
<1> SUFFICES ASSUME IInv, RestartOnItsWay, [Next]_vars PROVE RestartOnItsWay'
  OBVIOUS
<1> USE NAssumption
    DEF IInv, TypeOK, NotStarted, RestartOnItsWay, Entry, StopCvd, Wake, Orphan, Child,
        MonEnded, MonAlive, parentVars, mainVars, commsVars, kernelVars, vars
<1>1. CASE StartAndMonitorProcesses
  BY <1>1 DEF StartAndMonitorProcesses
<1>2. CASE StopMonitoredProcesses \/ StopWriteFails \/ StopRefused \/ WaitpidReturns \/ RunCvdKilled
  <2>1. UNCHANGED <<restart_subprocesses, mon, monitored, cur, kid>>
    BY <1>2 DEF StopMonitoredProcesses, StopWriteFails, StopRefused, WaitpidReturns, RunCvdKilled
  <2> QED
    BY <2>1
<1>3. CASE Prctl \/ StartComms \/ MonitorLoopCheck \/ MonitorLoopNoChild
  BY <1>3, Zenon DEF Prctl, StartComms, MonitorLoopCheck, MonitorLoopNoChild
<1>4. CASE StartSubprocess
  BY <1>4 DEF StartSubprocess, Forks, ForkFails
<1>5. ASSUME NEW c \in Child, MonitorLoopWait(c) PROVE RestartOnItsWay'
  BY <1>5 DEF MonitorLoopWait
<1>6. CASE MonitorLoopRecheck
  BY <1>6 DEF MonitorLoopRecheck
<1>7. CASE LookupUnknown
  BY <1>7 DEF LookupUnknown
<1>8. CASE LookupRestart
  BY <1>8 DEF LookupRestart, Forks, ForkFails
<1>9. CASE LookupErase
  BY <1>9 DEF LookupErase
<1>10. CASE MonitorLoopCritical
  BY <1>10 DEF MonitorLoopCritical
<1>11. CASE MonitorLoopStopCvd
  BY <1>11 DEF MonitorLoopStopCvd, Forks, ForkFails, CurInv
<1>12. ASSUME NEW how \in MonEnded, MonitorEnds(how) PROVE RestartOnItsWay'
  BY <1>12 DEF MonitorEnds
<1>13. CASE JoinComms
  BY <1>13 DEF JoinComms
<1>14. ASSUME NEW k \in monitored, StopEntry(k) \/ StopEntryFails(k) PROVE RestartOnItsWay'
  BY <1>14, Zenon DEF StopEntry, StopEntryFails
<1>15. CASE ReapEntry
  BY <1>15 DEF ReapEntry
<1>16. CASE CommsCheck \/ CommsStop \/ CommsReadFails
  <2>1. UNCHANGED <<restart_subprocesses, mon, monitored, cur, kid>>
    BY <1>16 DEF CommsCheck, CommsStop, CommsReadFails
  <2> QED
    BY <2>1
<1>17. CASE CommsWake
  BY <1>17 DEF CommsWake
<1>18. CASE OrphanAppears
  BY <1>18 DEF OrphanAppears
<1>19. ASSUME NEW c \in Child, KidExec(c) \/ KidExits(c) PROVE RestartOnItsWay'
  <2>1. CASE KidExec(c)
    BY <2>1 DEF KidExec
  <2>2. CASE KidExits(c)
    BY <2>2 DEF KidExits, Exited
  <2> QED
    BY <1>19, <2>1, <2>2, Zenon
<1>20. ASSUME NEW i \in Entry, KidCrashes(i) PROVE RestartOnItsWay'
  BY <1>20 DEF KidCrashes, Exited
<1>21. CASE UNCHANGED vars
  BY <1>21
<1>22. "killed" \in MonEnded /\ "exit0" \in MonEnded /\ "exit1" \in MonEnded
  OBVIOUS
<1>23. CASE \/ LookupSegfault \/ JoinCommsFails \/ StopDone \/ MonitorSighup \/ MonitorKilled
            \/ \E k \in monitored : StopEntrySegfault(k)
  BY <1>12, <1>22, <1>23, Zenon DEF LookupSegfault, JoinCommsFails, StopDone, MonitorSighup,
                             MonitorKilled, StopEntrySegfault
<1> QED
  BY <1>1, <1>2, <1>3, <1>4, <1>5, <1>6, <1>7, <1>8, <1>9, <1>10, <1>11, <1>13, <1>14,
     <1>15, <1>16, <1>17, <1>18, <1>19, <1>20, <1>21, <1>23, Zenon
  DEF Next, RunCvdNext, MainNext, CommsNext, KidNext

\* A monitor that restarts its subprocesses forgets none of them, for any number of
\* entries and however their exits, the forks that fail and a stop interleave: this is
\* the safety half of CrashedIsRestarted.
THEOREM NoRestartIsLost == Spec => []RestartOnItsWay
<1>1. Init => RestartOnItsWay
  BY DEF Init, RestartOnItsWay, MonAlive
<1> QED
  BY InitIInv, StepIInv, StepRestart, <1>1, PTL DEF Spec
=============================================================================
