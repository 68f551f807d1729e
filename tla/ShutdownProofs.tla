---------------------------- MODULE ShutdownProofs ----------------------------
(***************************************************************************)
(* The shutdown sequence for any number of services, processes and console  *)
(* programs.  Every step of the composed system is a step of the supervisor *)
(* or leaves it alone, so what SupervisorProofs establishes carries over.   *)
(***************************************************************************)
EXTENDS Shutdown, SupervisorProofs

-----------------------------------------------------------------------------
(* The composition refines the supervisor.                                  *)

LEMMA ShutdownStep == [ShutdownNext]_allVars => [Next]_vars
  <1> SUFFICES ASSUME [ShutdownNext]_allVars
               PROVE  [Next]_vars
    OBVIOUS
  <1>1. SystemNext => Next
    BY DEF SystemNext, Next
  <1>2. ASSUME NEW t \in Requesters
        PROVE  /\ AskSupervisor(t) => Next
               /\ \/ Enter(t) \/ TakeForeground(t) \/ KillForeground(t)
                  \/ StopAnswered(t) \/ Sync(t, "flush", "unmount") \/ Unmount(t)
                  \/ Sync(t, "flushAgain", "reboot") \/ Reboot(t)
                  => UNCHANGED vars
    BY DEF AskSupervisor, Next, Enter, TakeForeground, KillForeground,
           StopAnswered, Sync, Unmount, Reboot
  <1>3. ConsoleNext \/ ProgramExits \/ DiskWrite \/ OthersNext => UNCHANGED vars
    BY DEF ConsoleNext, EnterConsole, CheckUnderWay, SpawnProgram,
           SpawnProgramFails, SetForeground, WaitProgram, ClearForeground,
           ProgramExits, DiskWrite, OthersNext, OthersStart, OthersEnd
  <1>4. UNCHANGED allVars => UNCHANGED vars
    BY DEF allVars
  <1> QED
    BY <1>1, <1>2, <1>3, <1>4 DEF ShutdownNext, ExecuteNext

\* The supervisor inside the composed system behaves as the one specified
\* alone: the shutdown sequence interferes with it through request_stop only.
THEOREM ShutdownImplementsSupervisor == ShutdownSpec => Spec
  <1>1. ShutdownInit => Init
    BY DEF ShutdownInit
  <1> QED
    BY <1>1, ShutdownStep, PTL DEF ShutdownSpec, Spec

-----------------------------------------------------------------------------
(* Type correctness, of the whole composition.                              *)

LEMMA InitShutdownType == ShutdownInit => ShutdownTypeOK
  BY ShutdownAssumption DEF ShutdownInit, ShutdownTypeOK, Requesters, None

LEMMA ExecType ==
    ASSUME ShutdownTypeOK, NEW t \in Requesters,
           NEW to \in {"idle", "parked", "take", "kill", "stop", "wait", "flush",
                       "unmount", "flushAgain", "reboot", "refused"},
           Goto(t, to)
    PROVE  exec' \in [Requesters -> {"idle", "parked", "take", "kill", "stop",
                         "wait", "flush", "unmount", "flushAgain", "reboot",
                         "refused"}]
  BY DEF ShutdownTypeOK, Goto

LEMMA NextShutdownType ==
    ShutdownTypeOK /\ [ShutdownNext]_allVars => ShutdownTypeOK'
  <1> SUFFICES ASSUME ShutdownTypeOK, [ShutdownNext]_allVars
               PROVE  ShutdownTypeOK'
    OBVIOUS
  <1> USE DEF execVars, consoleVars, diskVars, shutdownVars
  <1>1. CASE SystemNext \/ UNCHANGED allVars
    BY <1>1 DEF SystemNext, allVars, ShutdownTypeOK
  <1>2. ASSUME NEW t \in Requesters, Enter(t)
        PROVE  ShutdownTypeOK'
    <2>1. PICK to \in {"parked", "take"} : Goto(t, to)
      BY <1>2 DEF Enter
    <2> QED
      BY <1>2, <2>1, ExecType DEF Enter, ShutdownTypeOK
  <1>3. ASSUME NEW t \in Requesters, TakeForeground(t)
        PROVE  ShutdownTypeOK'
    BY <1>3, ExecType DEF TakeForeground, ShutdownTypeOK
  <1>4. ASSUME NEW t \in Requesters, KillForeground(t)
        PROVE  ShutdownTypeOK'
    <2>1. termed' \subseteq Programs
      BY <1>4 DEF KillForeground, ShutdownTypeOK
    <2> QED
      BY <1>4, <2>1, ExecType DEF KillForeground, ShutdownTypeOK
  <1>5. ASSUME NEW t \in Requesters, AskSupervisor(t) \/ StopAnswered(t)
        PROVE  ShutdownTypeOK'
    BY <1>5, ExecType DEF AskSupervisor, StopAnswered, ShutdownTypeOK
  <1>6. ASSUME NEW t \in Requesters,
               Sync(t, "flush", "unmount") \/ Sync(t, "flushAgain", "reboot")
        PROVE  ShutdownTypeOK'
    <2>1. dirty' \in BOOLEAN /\ others' \in BOOLEAN
      BY <1>6 DEF Sync, ShutdownTypeOK
    <2> QED
      BY <1>6, <2>1, ExecType DEF Sync, ShutdownTypeOK
  <1>7. ASSUME NEW t \in Requesters, Unmount(t)
        PROVE  ShutdownTypeOK'
    <2>1. dirty' \in BOOLEAN /\ others' \in BOOLEAN
      BY <1>7 DEF Unmount, ShutdownTypeOK
    <2> QED
      BY <1>7, <2>1, ExecType DEF Unmount, ShutdownTypeOK
  <1>8. ASSUME NEW t \in Requesters, Reboot(t)
        PROVE  ShutdownTypeOK'
    BY <1>8, ExecType DEF Reboot, ShutdownTypeOK
  <1>9. CASE SpawnProgram
    <2>1. program' \in Programs
      BY <1>9, ShutdownAssumption DEF SpawnProgram, ShutdownTypeOK, Programs, None
    <2> QED
      BY <1>9, <2>1 DEF SpawnProgram, ShutdownTypeOK
  <1>10. CASE EnterConsole \/ CheckUnderWay \/ SpawnProgramFails \/ SetForeground
              \/ WaitProgram \/ ClearForeground
    BY <1>10 DEF EnterConsole, CheckUnderWay, SpawnProgramFails, SetForeground,
                 WaitProgram, ClearForeground, ShutdownTypeOK
  <1>11. CASE ProgramExits \/ DiskWrite \/ OthersNext
    <2>1. dirty' \in BOOLEAN /\ others' \in BOOLEAN
      BY <1>11 DEF ProgramExits, DiskWrite, OthersNext, OthersStart, OthersEnd,
                   ShutdownTypeOK
    <2> QED
      BY <1>11, <2>1 DEF ProgramExits, DiskWrite, OthersNext, OthersStart, OthersEnd,
                         ShutdownTypeOK
  <1> QED
    BY <1>1, <1>2, <1>3, <1>4, <1>5, <1>6, <1>7, <1>8, <1>9, <1>10, <1>11
       DEF ShutdownNext, ExecuteNext, ConsoleNext

\* The shutdown sequence, the console loop and the volume keep to their types,
\* and the supervisor beside them to its own.
THEOREM ShutdownTypeCorrect == ShutdownSpec => []ShutdownTypeOK /\ []TypeOK
  BY InitShutdownType, NextShutdownType, ShutdownImplementsSupervisor,
     TypeCorrect, PTL DEF ShutdownSpec

-----------------------------------------------------------------------------
(* One shutdown, whoever asks.                                              *)

SequenceInv == ShutdownTypeOK /\ OneSequence

LEMMA InitSequence == ShutdownInit => SequenceInv
  BY InitShutdownType DEF ShutdownInit, SequenceInv, OneSequence, Executing

\* A thread that is already executing goes on executing.
LEMMA StillExecuting ==
    ASSUME SequenceInv, UNCHANGED underWay, NEW t \in Executing,
           NEW to \in {"kill", "stop", "wait", "flush", "unmount", "flushAgain",
                       "reboot", "refused"},
           Goto(t, to)
    PROVE  OneSequence'
  <1>1. Executing' = Executing
    BY DEF SequenceInv, ShutdownTypeOK, Executing, Goto
  <1> QED
    BY <1>1 DEF SequenceInv, OneSequence

LEMMA NextSequence == SequenceInv /\ [ShutdownNext]_allVars => SequenceInv'
  <1> SUFFICES ASSUME SequenceInv, [ShutdownNext]_allVars
               PROVE  OneSequence'
    BY NextShutdownType DEF SequenceInv
  <1> USE DEF execVars, consoleVars, diskVars, shutdownVars
  <1>1. CASE UNCHANGED <<underWay, exec>>
    BY <1>1 DEF SequenceInv, OneSequence, Executing
  <1>2. CASE SystemNext \/ ConsoleNext \/ ProgramExits \/ DiskWrite \/ OthersNext
             \/ UNCHANGED allVars
    BY <1>1, <1>2 DEF SystemNext, ConsoleNext, EnterConsole, CheckUnderWay,
       SpawnProgram, SpawnProgramFails, SetForeground, WaitProgram,
       ClearForeground, ProgramExits, DiskWrite, OthersNext, OthersStart, OthersEnd, allVars
  <1>3. ASSUME NEW t \in Requesters, Enter(t)
        PROVE  OneSequence'
    <2>1. CASE underWay
      <3>1. exec' = [exec EXCEPT ![t] = "parked"]
        BY <1>3, <2>1 DEF Enter, Goto
      <3>2. Executing' = Executing
        BY <1>3, <3>1 DEF SequenceInv, ShutdownTypeOK, Executing, Enter
      <3> QED
        BY <1>3, <2>1, <3>2 DEF SequenceInv, OneSequence, Enter
    <2>2. CASE ~underWay
      <3>1. exec' = [exec EXCEPT ![t] = "take"] /\ Executing = {}
        BY <1>3, <2>2 DEF Enter, Goto, SequenceInv, OneSequence
      <3>2. Executing' = {t}
        BY <3>1 DEF SequenceInv, ShutdownTypeOK, Executing
      <3> QED
        BY <1>3, <3>2 DEF OneSequence, Enter
    <2> QED
      BY <2>1, <2>2
  <1>4. ASSUME NEW t \in Requesters,
               TakeForeground(t) \/ KillForeground(t) \/ AskSupervisor(t)
               \/ StopAnswered(t) \/ Sync(t, "flush", "unmount") \/ Unmount(t)
               \/ Sync(t, "flushAgain", "reboot")
        PROVE  OneSequence'
    <2>1. t \in Executing /\ UNCHANGED underWay
      BY <1>4 DEF TakeForeground, KillForeground, AskSupervisor, StopAnswered,
                  Sync, Unmount, Executing
    <2>2. \E to \in {"kill", "stop", "wait", "flush", "unmount", "flushAgain",
                     "reboot", "refused"} : Goto(t, to)
      BY <1>4 DEF TakeForeground, KillForeground, AskSupervisor, StopAnswered,
                  Sync, Unmount
    <2> QED
      BY <2>1, <2>2, StillExecuting
  <1>5. ASSUME NEW t \in Requesters, Reboot(t)
        PROVE  OneSequence'
    <2>1. t \in Executing /\ UNCHANGED underWay
      BY <1>5 DEF Reboot, Executing
    <2>2. UNCHANGED exec \/ Goto(t, "refused")
      BY <1>5 DEF Reboot
    <2> QED
      BY <1>1, <2>1, <2>2, StillExecuting
  <1> QED
    BY <1>2, <1>3, <1>4, <1>5 DEF ShutdownNext, ExecuteNext

\* Whichever of the two threads is asked, and however often, one of them
\* carries the shutdown out.
THEOREM OneSequenceOnly == ShutdownSpec => []OneSequence
  <1>1. SequenceInv => OneSequence
    BY DEF SequenceInv
  <1> QED
    BY <1>1, InitSequence, NextSequence, PTL DEF ShutdownSpec

-----------------------------------------------------------------------------
(* The order of the shutdown: daemons first.                                *)

\* What wait_until_stopped has answered it keeps to, and "stopped" is the truth.
Answered == stopper = "stopped" => phase = "Stopped"

LEMMA NextAnswered ==
    ASSUME Answered, [Next]_vars
    PROVE  /\ Answered'
           /\ stopper \in {"stopped", "timed_out"}
                => stopper' \in {"stopped", "timed_out"}
  <1> USE DEF sharedVars, managedVars, fileVars, localVars, waitVars, procVars,
              daemonVars
  <1>1. CASE UNCHANGED <<stopper, phase>>
    BY <1>1 DEF Answered
  <1>2. CASE SupervisorNext
    <2>1. CASE Mark
      BY <2>1 DEF Mark, MarkStopped, Answered
    <2>2. CASE Spawn \/ Register \/ SpawnFails \/ Snapshot \/ Publish
               \/ ReadPublished \/ TickCheck \/ TickWoken \/ ReadRevision
      BY <1>1, <2>2 DEF Spawn, Register, DoRegister, SpawnFails, Settle,
         Snapshot, Publish, ReadPublished, TickCheck, TickWoken, ReadRevision
    <2>3. CASE ReapIdle \/ ReapError \/ SettleAt
               \/ \E stable \in BOOLEAN : ReapExited(stable)
      BY <1>1, <2>3 DEF ReapIdle, ReapError, SettleAt, ReapExited, Deregister,
         Settle
    <2>4. CASE Terminate \/ Collect \/ Kill
      BY <1>1, <2>4 DEF Terminate, Collect, Kill
    <2> QED
      BY <1>2, <2>1, <2>2, <2>3, <2>4 DEF SupervisorNext
  <1>3. CASE TickTimeout \/ GraceExpires \/ BootNext \/ BootTimeout \/ DaemonNext
             \/ UNCHANGED vars
    BY <1>1, <1>3 DEF TickTimeout, GraceExpires, BootNext, BootSleep,
       BootReturns, BootTimeout, DaemonNext, DaemonReports, StrangerReports, DaemonExits, vars
  <1>4. CASE Deliver
    BY <1>1, <1>4 DEF Deliver, Received, NoteReady
  <1>5. CASE StopRequested \/ StopperNext \/ StopTimeout
    BY <1>5 DEF StopRequested, RequestStop, StopperNext, StopperSleep,
       StopperReturns, StopTimeout, Answered
  <1> QED
    BY <1>2, <1>3, <1>4, <1>5 DEF Next

\* execute is past step 2
Flushing(t) == exec[t] \in {"flush", "unmount", "flushAgain", "reboot", "refused"}

FlushInv ==
    /\ ShutdownTypeOK
    /\ Answered
    /\ \A t \in Requesters : Flushing(t) => stopper \in {"stopped", "timed_out"}

LEMMA InitFlush == ShutdownInit => FlushInv
  BY InitShutdownType DEF ShutdownInit, Init, ControlNew, FlushInv, Answered, Flushing

LEMMA NextFlush == FlushInv /\ [ShutdownNext]_allVars => FlushInv'
  <1> SUFFICES ASSUME FlushInv, [ShutdownNext]_allVars,
                      NEW u \in Requesters, Flushing(u)'
               PROVE  stopper' \in {"stopped", "timed_out"}
    BY NextShutdownType, ShutdownStep, NextAnswered DEF FlushInv
  <1> USE DEF execVars, consoleVars, diskVars, shutdownVars
  <1>1. stopper \in {"stopped", "timed_out"} => stopper' \in {"stopped", "timed_out"}
    BY ShutdownStep, NextAnswered DEF FlushInv
  <1>2. CASE Flushing(u)
    BY <1>1, <1>2 DEF FlushInv
  <1>3. CASE UNCHANGED exec
    BY <1>2, <1>3 DEF Flushing
  <1>4. CASE SystemNext \/ ConsoleNext \/ ProgramExits \/ DiskWrite \/ OthersNext
             \/ UNCHANGED allVars
    BY <1>3, <1>4 DEF SystemNext, ConsoleNext, EnterConsole, CheckUnderWay,
       SpawnProgram, SpawnProgramFails, SetForeground, WaitProgram,
       ClearForeground, ProgramExits, DiskWrite, OthersNext, OthersStart, OthersEnd, allVars
  <1>5. ASSUME NEW t \in Requesters,
               \/ Enter(t) \/ TakeForeground(t) \/ KillForeground(t)
               \/ AskSupervisor(t)
        PROVE  Flushing(u)
    <2>1. \E to \in {"parked", "take", "kill", "stop", "wait"} : Goto(t, to)
      BY <1>5 DEF Enter, TakeForeground, KillForeground, AskSupervisor
    <2> QED
      BY <2>1 DEF FlushInv, ShutdownTypeOK, Flushing, Goto
  <1>6. ASSUME NEW t \in Requesters,
               \/ StopAnswered(t) \/ Sync(t, "flush", "unmount") \/ Unmount(t)
               \/ Sync(t, "flushAgain", "reboot") \/ Reboot(t)
        PROVE  stopper' \in {"stopped", "timed_out"}
    BY <1>1, <1>6 DEF StopAnswered, Sync, Unmount, Reboot, FlushInv, Flushing
  <1> QED
    BY <1>2, <1>4, <1>5, <1>6 DEF ShutdownNext, ExecuteNext

\* The volume is flushed, unmounted and flushed again with every daemon gone,
\* unless the supervisor did not answer within STOP_TIMEOUT.
THEOREM FlushAfterDaemons == ShutdownSpec => []DaemonsDownBeforeFlush
  <1>1. FlushInv /\ StoppedMeansDown => DaemonsDownBeforeFlush
    BY DEF FlushInv, Answered, Flushing, StoppedMeansDown, DaemonsDownBeforeFlush
  <1> QED
    BY <1>1, InitFlush, NextFlush, ShutdownImplementsSupervisor, StoppedIsDown,
       PTL DEF ShutdownSpec

-----------------------------------------------------------------------------
(* The console gives way.                                                   *)

\* A shutdown began when the console had run k programs: there is at most one
\* more, counting the one it may be about to run.
GivenWay(k) ==
    /\ underWay
    /\ program + (IF console = "spawn" THEN 1 ELSE 0) <= k + 1

LEMMA NextGivenWay ==
    ASSUME ShutdownTypeOK, [ShutdownNext]_allVars, NEW k \in Nat, GivenWay(k)
    PROVE  GivenWay(k)'
  <1> USE DEF execVars, consoleVars, diskVars, shutdownVars
  <1>0. program \in Nat
    BY ShutdownAssumption DEF ShutdownTypeOK, Programs, None
  <1>1. CASE underWay' /\ UNCHANGED <<console, program>>
    BY <1>1 DEF GivenWay
  <1>2. CASE SystemNext \/ ProgramExits \/ DiskWrite \/ OthersNext \/ UNCHANGED allVars
    BY <1>1, <1>2 DEF SystemNext, ProgramExits, DiskWrite, OthersNext, OthersStart, OthersEnd, allVars, GivenWay
  <1>3. CASE ExecuteNext \/ \E t \in Requesters : Enter(t)
    BY <1>1, <1>3 DEF ExecuteNext, Enter, TakeForeground, KillForeground, AskSupervisor,
       StopAnswered, Sync, Unmount, Reboot, GivenWay
  <1>4. CASE SpawnProgram
    BY <1>0, <1>4 DEF SpawnProgram, GivenWay
  <1>5. CASE EnterConsole \/ CheckUnderWay \/ SpawnProgramFails \/ SetForeground
             \/ WaitProgram \/ ClearForeground
    <2>1. underWay' /\ program' = program /\ console' # "spawn"
      BY <1>5 DEF EnterConsole, CheckUnderWay, SpawnProgramFails, SetForeground, WaitProgram,
         ClearForeground, GivenWay
    <2> QED
      BY <1>0, <2>1 DEF GivenWay
  <1> QED
    BY <1>2, <1>3, <1>4, <1>5 DEF ShutdownNext, ConsoleNext

\* After the beginning of a shutdown the main thread starts at most the one
\* program it had decided on, for any number of programs and any schedule.
THEOREM OneStrayAtMost == ShutdownSpec => AtMostOneStray
  <1> SUFFICES ASSUME NEW k \in {n \in 0..MaxPrograms : n + 1 < MaxPrograms}
               PROVE  ShutdownSpec => [](underWay /\ program = k => [](program <= k + 1))
    BY DEF AtMostOneStray
  <1>0. k \in Nat
    BY ShutdownAssumption
  <1>1. underWay /\ program = k => GivenWay(k)
    BY <1>0 DEF GivenWay
  <1>2. ShutdownTypeOK /\ GivenWay(k) /\ [ShutdownNext]_allVars => GivenWay(k)'
    BY <1>0, NextGivenWay
  <1>3. ShutdownTypeOK /\ GivenWay(k) => program <= k + 1
    BY <1>0, ShutdownAssumption DEF GivenWay, ShutdownTypeOK, Programs, None
  <1> QED
    BY <1>1, <1>2, <1>3, ShutdownTypeCorrect, PTL DEF ShutdownSpec

-----------------------------------------------------------------------------
(* A clean end.                                                             *)

\* What holds of every shutdown: the power goes off at reboot(2), and a
\* main thread that has parked has nothing running on the console.
EndInv ==
    /\ SequenceInv
    /\ FlushInv
    /\ StoppedMeansDown
    /\ power = "off" => \E t \in Requesters : exec[t] = "reboot"
    /\ console \in {"boot", "check", "spawn", "clear", "parked"} => progLife # "alive"

\* From the flush on, with no daemon and no program left to write, the volume only
\* becomes cleaner; what it is in the end depends on whether, as the flush began, a
\* process was `left` that nobody waits for.
CleanSoFar(t, left) ==
    /\ Flushing(t)
    /\ exec[t] # "flush" => ~dirty
    /\ exec[t] \in {"flushAgain", "reboot", "refused"} =>
           volume \in {"unmounted"} \cup (IF left THEN {"detached"} ELSE {})

Quiet(left) ==
    /\ stopper = "stopped"
    /\ console = "parked"
    /\ left \/ ~others
    /\ \E t \in Requesters : CleanSoFar(t, left)

LEMMA NextEnd ==
    ASSUME EndInv, [ShutdownNext]_allVars, StoppedMeansDown'
    PROVE  EndInv'
  <1> USE DEF execVars, consoleVars, diskVars, shutdownVars
  <1>1. power' = "off" => \E t \in Requesters : exec'[t] = "reboot"
    <2>1. CASE UNCHANGED allVars
      BY <2>1 DEF allVars, EndInv
    <2>2. CASE ShutdownNext
      <3>1. SUFFICES ASSUME power' # power
                     PROVE  \E t \in Requesters : exec'[t] = "reboot"
        BY <2>2, <3>1 DEF ShutdownNext
      <3>2. PICK t \in Requesters : Reboot(t)
        BY <2>2, <3>1 DEF ShutdownNext, SystemNext, Enter, ExecuteNext, TakeForeground,
           KillForeground, AskSupervisor, StopAnswered, Sync, Unmount, ConsoleNext,
           EnterConsole, CheckUnderWay, SpawnProgram, SpawnProgramFails, SetForeground,
           WaitProgram, ClearForeground, ProgramExits, DiskWrite, OthersNext, OthersStart, OthersEnd
      <3> QED
        BY <3>1, <3>2 DEF Reboot
    <2> QED
      BY <2>1, <2>2
  <1>2. console' \in {"boot", "check", "spawn", "clear", "parked"} => progLife' # "alive"
    BY DEF EndInv, ShutdownNext, SystemNext, Enter, ExecuteNext, TakeForeground,
       KillForeground, AskSupervisor, StopAnswered, Sync, Unmount, Reboot, ConsoleNext,
       EnterConsole, CheckUnderWay, SpawnProgram, SpawnProgramFails, SetForeground,
       WaitProgram, ClearForeground, ProgramExits, DiskWrite, OthersNext, OthersStart, OthersEnd, allVars
  <1> QED
    BY <1>1, <1>2, NextSequence, NextFlush DEF EndInv

LEMMA NextQuiet ==
    ASSUME EndInv, NEW left \in BOOLEAN, Quiet(left), [ShutdownNext]_allVars
    PROVE  Quiet(left)'
  <1> USE DEF execVars, consoleVars, diskVars, shutdownVars
  <1>1. PICK t \in Requesters :
            /\ Flushing(t)
            /\ exec[t] # "flush" => ~dirty
            /\ exec[t] \in {"flushAgain", "reboot", "refused"} =>
                   volume \in {"unmounted"} \cup (IF left THEN {"detached"} ELSE {})
    BY DEF Quiet, CleanSoFar
  <1>2. DiskUsers = {} /\ ~ConsoleAlive /\ ~OursAlive /\ (InUse => left)
    BY DEF Quiet, EndInv, FlushInv, Answered, StoppedMeansDown, Exists, DiskUsers,
           ConsoleAlive, OursAlive, InUse
  <1>3. \A u \in Requesters : u # t => exec[u] \in {"idle", "parked"}
    BY <1>1 DEF EndInv, SequenceInv, OneSequence, Executing, Flushing
  <1>4. underWay
    BY <1>1 DEF EndInv, SequenceInv, OneSequence, Executing, Flushing
  <1>5. stopper = "stopped" /\ console = "parked" /\ (left \/ ~others)
    BY DEF Quiet
  <1>6. CASE /\ stopper' = "stopped" /\ console' = "parked"
             /\ exec'[t] = exec[t] /\ UNCHANGED <<dirty, volume>>
             /\ others' => others
    BY <1>1, <1>5, <1>6 DEF Quiet, CleanSoFar, Flushing
  <1>7. CASE UNCHANGED allVars
    BY <1>5, <1>6, <1>7 DEF allVars, vars, waitVars
  <1>8. CASE SystemNext
    <2>1. stopper' = "stopped"
      <3>1. SupervisorNext => UNCHANGED stopper
        BY DEF SupervisorNext, Mark, MarkStopped, Spawn, Register, DoRegister, SpawnFails, Settle,
         Snapshot, Publish, ReadPublished, TickCheck, TickWoken, ReadRevision, ReapIdle,
         ReapError, SettleAt, ReapExited, Deregister, Terminate, Collect, Kill, waitVars
      <3>2. \/ TickTimeout \/ GraceExpires \/ BootNext \/ BootTimeout \/ DaemonNext \/ Deliver
            => UNCHANGED stopper
        BY DEF TickTimeout, GraceExpires, BootNext, BootSleep, BootReturns, BootTimeout,
           DaemonNext, DaemonReports, StrangerReports, DaemonExits, Deliver, Received, NoteReady, waitVars
      <3>3. ~StopperNext /\ ~StopTimeout
        BY <1>5 DEF StopperNext, StopperSleep, StopperReturns, StopTimeout
      <3> QED
        BY <1>5, <1>8, <3>1, <3>2, <3>3 DEF SystemNext
    <2> QED
      BY <1>5, <1>6, <1>8, <2>1 DEF SystemNext
  <1>9. CASE ConsoleNext \/ ProgramExits \/ DiskWrite \/ OthersNext
    <2>1. ~ConsoleNext
      BY <1>5 DEF ConsoleNext, EnterConsole, CheckUnderWay, SpawnProgram,
         SpawnProgramFails, SetForeground, WaitProgram, ClearForeground
    <2>2. ~ProgramExits /\ ~DiskWrite /\ ~OthersStart
      BY <1>2 DEF ProgramExits, DiskWrite, OthersStart, ConsoleAlive
    <2>3. CASE OthersEnd
      BY <1>5, <1>6, <2>3 DEF OthersEnd, vars, waitVars
    <2> QED
      BY <1>9, <2>1, <2>2, <2>3 DEF OthersNext
  <1>10. ASSUME NEW u \in Requesters, Enter(u)
         PROVE  Quiet(left)'
    <2>1. u # t
      BY <1>1, <1>10 DEF Enter, Flushing
    <2>2. exec'[t] = exec[t]
      BY <1>10, <2>1 DEF Enter, Goto, EndInv, SequenceInv, ShutdownTypeOK
    <2> QED
      BY <1>5, <1>6, <1>10, <2>2 DEF Enter, vars, waitVars
  <1>11. ASSUME NEW u \in Requesters,
                \/ TakeForeground(u) \/ KillForeground(u) \/ AskSupervisor(u)
                \/ StopAnswered(u)
         PROVE  FALSE
    <2>1. exec[u] \in {"take", "kill", "stop", "wait"}
      BY <1>11 DEF TakeForeground, KillForeground, AskSupervisor, StopAnswered
    <2> QED
      BY <1>1, <1>3, <2>1 DEF Flushing
  <1>12. ASSUME NEW u \in Requesters,
                \/ Sync(u, "flush", "unmount") \/ Unmount(u)
                \/ Sync(u, "flushAgain", "reboot") \/ Reboot(u)
         PROVE  Quiet(left)'
    <2>1. u = t /\ UNCHANGED <<stopper, console, others>>
      BY <1>3, <1>12 DEF Sync, Unmount, Reboot, vars, waitVars
    <2>2. \A to \in {"unmount", "flushAgain", "reboot", "refused"} :
            Goto(t, to) => exec'[t] = to
      BY DEF Goto, EndInv, SequenceInv, ShutdownTypeOK
    <2>3. CASE Sync(t, "flush", "unmount")
      BY <1>5, <2>1, <2>2, <2>3 DEF Sync, Quiet, CleanSoFar, Flushing
    <2>4. CASE Unmount(t)
      BY <1>1, <1>2, <1>5, <2>1, <2>2, <2>4 DEF Unmount, Quiet, CleanSoFar, Flushing
    <2>5. CASE Sync(t, "flushAgain", "reboot")
      BY <1>1, <1>5, <2>1, <2>2, <2>5 DEF Sync, Quiet, CleanSoFar, Flushing
    <2>6. CASE Reboot(t)
      BY <1>1, <1>5, <2>1, <2>2, <2>6 DEF Reboot, Quiet, CleanSoFar, Flushing
    <2> QED
      BY <1>12, <2>1, <2>3, <2>4, <2>5, <2>6
  <1> QED
    BY <1>7, <1>8, <1>9, <1>10, <1>11, <1>12 DEF ShutdownNext, ExecuteNext

\* When the daemons were stopped in time and the main thread had parked, what they
\* wrote is on the disk as the power goes and the volume is not mounted; unless a
\* process they started was left behind, it is unmounted.
THEOREM EndsClean == ShutdownSpec => CleanPowerOff
  <1>1. ShutdownInit => (StoppedMeansDown => EndInv)
    BY InitSequence, InitFlush DEF ShutdownInit, EndInv
  <1>2. EndInv /\ [ShutdownNext]_allVars /\ StoppedMeansDown' => EndInv'
    BY NextEnd
  <1>3. EndInv /\ Parked => Quiet(TRUE)
    BY DEF Quiet, CleanSoFar, Flushing, Parked
  <1>4. EndInv /\ Parked /\ ~others => Quiet(FALSE)
    BY DEF Quiet, CleanSoFar, Flushing, Parked
  <1>5. EndInv /\ Quiet(TRUE) /\ [ShutdownNext]_allVars => Quiet(TRUE)'
    BY NextQuiet
  <1>6. EndInv /\ Quiet(FALSE) /\ [ShutdownNext]_allVars => Quiet(FALSE)'
    BY NextQuiet
  <1>7. EndInv /\ Quiet(TRUE) => (power = "off" => volume # "mounted" /\ ~dirty)
    BY DEF Quiet, CleanSoFar, EndInv, SequenceInv, OneSequence, Executing, Flushing
  <1>8. EndInv /\ Quiet(FALSE) => (power = "off" => volume = "unmounted" /\ ~dirty)
    BY DEF Quiet, CleanSoFar, EndInv, SequenceInv, OneSequence, Executing, Flushing
  <1> QED
    BY <1>1, <1>2, <1>3, <1>4, <1>5, <1>6, <1>7, <1>8, ShutdownImplementsSupervisor,
       StoppedIsDown, PTL DEF ShutdownSpec, CleanPowerOff
=============================================================================
