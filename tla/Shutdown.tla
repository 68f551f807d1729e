------------------------------- MODULE Shutdown -------------------------------
(***************************************************************************)
(* The end of a system's life: shutdown::execute                            *)
(* (src/vakt-init/src/shutdown.rs), which the signal thread and the socket  *)
(* thread may both enter, composed with the supervisor it stops, the        *)
(* console loop of main.rs it takes the panel away from, and the persistent *)
(* volume it flushes and unmounts.                                          *)
(*                                                                          *)
(* The loop alternates the panel and a shell, or in recovery runs a shell   *)
(* alone; either way it is: look at under_way, run a program, look again.   *)
(* A program is a number, counted from the first one the console ran.       *)
(* Daemons and programs start processes of their own, which outlive them and *)
(* which nobody waits for: those are one variable, `others`.                 *)
(***************************************************************************)
EXTENDS Supervisor

CONSTANT MaxPrograms    \* bound: programs the console ever runs

ASSUME ShutdownAssumption == MaxPrograms \in Nat

VARIABLES
    underWay,     \* UNDER_WAY
    foreground,   \* FOREGROUND, None for 0
    exec,         \* where each thread that may call execute is
    target,       \* what the executing thread took out of FOREGROUND
    console,      \* where the main thread is
    program,      \* the last program the console started, None before one
    progLife,     \* that program's life
    termed,       \* programs that were sent SIGTERM
    volume,       \* "mounted", "unmounted" or "detached"
    dirty,        \* whether PID 1, a daemon or a program has data on the volume
                  \* that is not on the disk
    others,       \* whether a process that nobody waits for uses the volume
    power         \* "on" or "off"

execVars == <<underWay, exec, target>>
consoleVars == <<console, program, progLife>>
diskVars == <<volume, dirty, others>>
shutdownVars == <<execVars, foreground, consoleVars, termed, diskVars, power>>
allVars == <<vars, shutdownVars>>

Requesters == {"signal", "socket"}
Programs == 1..MaxPrograms

ShutdownInit ==
    /\ Init
    /\ underWay = FALSE
    /\ foreground = None
    /\ exec = [t \in Requesters |-> "idle"]
    /\ target = None
    /\ console = "boot"
    /\ program = None
    /\ progLife = "none"
    /\ termed = {}
    /\ volume = "mounted"
    /\ dirty = TRUE
    /\ others = FALSE
    /\ power = "on"

-----------------------------------------------------------------------------
(* shutdown::execute.  Variants the specification does not use, such as      *)
(* EnterUnguarded, are mistakes the properties must notice.                  *)

Goto(t, label) == exec' = [exec EXCEPT ![t] = label]

EnterUnguarded(t) ==
    /\ exec[t] = "idle"
    /\ underWay' = TRUE
    /\ Goto(t, "take")
    /\ UNCHANGED <<vars, foreground, target, consoleVars, termed, diskVars, power>>

\* UNDER_WAY.swap(true): the first caller goes on, any other parks
Enter(t) ==
    /\ exec[t] = "idle"
    /\ underWay' = TRUE
    /\ Goto(t, IF underWay THEN "parked" ELSE "take")
    /\ UNCHANGED <<vars, foreground, target, consoleVars, termed, diskVars, power>>

\* FOREGROUND.swap(0)
TakeForeground(t) ==
    /\ exec[t] = "take"
    /\ target' = foreground
    /\ foreground' = None
    /\ Goto(t, "kill")
    /\ UNCHANGED <<vars, underWay, consoleVars, termed, diskVars, power>>

KillForegroundUnchecked(t) ==
    /\ exec[t] = "kill"
    /\ termed' = termed \cup {target}
    /\ Goto(t, "stop")
    /\ UNCHANGED <<vars, underWay, foreground, target, consoleVars, diskVars,
                   power>>

\* SIGTERM for the program that was there, if it still is; a FOREGROUND of 0
\* must not reach kill, to which it means the whole process group
KillForeground(t) ==
    /\ exec[t] = "kill"
    /\ termed' = IF target # None THEN termed \cup {target} ELSE termed
    /\ Goto(t, "stop")
    /\ UNCHANGED <<vars, underWay, foreground, target, consoleVars, diskVars,
                   power>>

AskSupervisor(t) ==
    /\ exec[t] = "stop"
    /\ StopRequested
    /\ Goto(t, "wait")
    /\ UNCHANGED <<underWay, foreground, target, consoleVars, termed, diskVars,
                   power>>

StopUnanswered(t) ==
    /\ exec[t] = "wait"
    /\ Goto(t, "flush")
    /\ UNCHANGED <<vars, underWay, foreground, target, consoleVars, termed,
                   diskVars, power>>

StopNeverTimesOut(t) ==
    /\ exec[t] = "wait"
    /\ stopper = "stopped"
    /\ Goto(t, "flush")
    /\ UNCHANGED <<vars, underWay, foreground, target, consoleVars, termed,
                   diskVars, power>>

\* wait_until_stopped has answered, one way or the other
StopAnswered(t) ==
    /\ exec[t] = "wait"
    /\ stopper \in {"stopped", "timed_out"}
    /\ Goto(t, "flush")
    /\ UNCHANGED <<vars, underWay, foreground, target, consoleVars, termed,
                   diskVars, power>>

Sync(t, from, to) ==
    /\ exec[t] = from
    /\ dirty' = FALSE
    /\ Goto(t, to)
    /\ UNCHANGED <<vars, underWay, foreground, target, consoleVars, termed,
                   volume, others, power>>

\* the processes that may have a file open on the volume
DiskUsers == {p \in Pids : life[p] = "alive"}
ConsoleAlive == progLife = "alive"
OursAlive == DiskUsers # {} \/ ConsoleAlive
InUse == OursAlive \/ others

UnmountForgotten(t) ==
    /\ exec[t] = "unmount"
    /\ Goto(t, "flushAgain")
    /\ UNCHANGED <<vars, underWay, foreground, target, consoleVars, termed,
                   diskVars, power>>

\* unmount_persistent: a plain unmount writes everything back; a volume in
\* use is detached instead
Unmount(t) ==
    /\ exec[t] = "unmount"
    /\ \/ volume' = "unmounted" /\ dirty' = FALSE
       \/ InUse /\ volume' = "detached" /\ UNCHANGED dirty
    /\ Goto(t, "flushAgain")
    /\ UNCHANGED <<vars, underWay, foreground, target, consoleVars, termed, others,
                   power>>

\* reboot(2), which only returns when the kernel refuses
Reboot(t) ==
    /\ exec[t] = "reboot"
    /\ \/ power' = "off" /\ UNCHANGED exec
       \/ Goto(t, "refused") /\ UNCHANGED power
    /\ UNCHANGED <<vars, underWay, foreground, target, consoleVars, termed,
                   diskVars>>

ExecuteNext ==
    \E t \in Requesters :
        \/ TakeForeground(t) \/ KillForeground(t)
        \/ AskSupervisor(t) \/ StopAnswered(t)
        \/ Sync(t, "flush", "unmount") \/ Unmount(t)
        \/ Sync(t, "flushAgain", "reboot") \/ Reboot(t)

-----------------------------------------------------------------------------
(* The console loop of the main thread.                                     *)

\* wait_until_ready has returned, whatever it said
EnterConsole ==
    /\ console = "boot"
    /\ boot # "waiting"
    /\ console' = "check"
    /\ UNCHANGED <<vars, execVars, foreground, program, progLife, termed,
                   diskVars, power>>

NeverLooks ==
    /\ console = "check"
    /\ console' = "spawn"
    /\ UNCHANGED <<vars, execVars, foreground, program, progLife, termed,
                   diskVars, power>>

CheckUnderWay ==
    /\ console = "check"
    /\ console' = IF underWay THEN "parked" ELSE "spawn"
    /\ UNCHANGED <<vars, execVars, foreground, program, progLife, termed,
                   diskVars, power>>

\* run_on_console, whose spawn may fail
SpawnProgram ==
    /\ console = "spawn"
    /\ program < MaxPrograms
    /\ program' = program + 1
    /\ progLife' = "alive"
    /\ console' = "announce"
    /\ UNCHANGED <<vars, execVars, foreground, termed, diskVars, power>>

SpawnProgramFails ==
    /\ console = "spawn"
    /\ console' = "check"
    /\ UNCHANGED <<vars, execVars, foreground, program, progLife, termed,
                   diskVars, power>>

SetForeground ==
    /\ console = "announce"
    /\ foreground' = program
    /\ console' = "wait"
    /\ UNCHANGED <<vars, execVars, program, progLife, termed, diskVars, power>>

WaitProgram ==
    /\ console = "wait"
    /\ progLife = "zombie"
    /\ progLife' = "reaped"
    /\ console' = "clear"
    /\ UNCHANGED <<vars, execVars, foreground, program, termed, diskVars, power>>

ClearForeground ==
    /\ console = "clear"
    /\ foreground' = None
    /\ console' = "check"
    /\ UNCHANGED <<vars, execVars, program, progLife, termed, diskVars, power>>

ConsoleNext ==
    \/ EnterConsole \/ CheckUnderWay
    \/ SpawnProgram \/ SpawnProgramFails
    \/ SetForeground \/ WaitProgram \/ ClearForeground

ProgramExits ==
    /\ progLife = "alive"
    /\ progLife' = "zombie"
    /\ UNCHANGED <<vars, execVars, foreground, console, program, termed,
                   diskVars, power>>

\* a daemon, or a program on the console, writes to the volume
DiskWrite ==
    /\ volume # "unmounted"
    /\ OursAlive
    /\ dirty' = TRUE
    /\ UNCHANGED <<vars, execVars, foreground, consoleVars, termed, volume, others,
                   power>>

\* A daemon or a program starts a process, or leaves one behind: the panel its
\* zrpkg, the shell its jobs, vakt-net its udhcpc.  SIGTERM reaches none of them.
OthersStart ==
    /\ ~others
    /\ OursAlive
    /\ others' = TRUE
    /\ UNCHANGED <<vars, execVars, foreground, consoleVars, termed, volume, dirty,
                   power>>

OthersEnd ==
    /\ others
    /\ others' = FALSE
    /\ UNCHANGED <<vars, execVars, foreground, consoleVars, termed, volume, dirty,
                   power>>

OthersNext == OthersStart \/ OthersEnd

-----------------------------------------------------------------------------
\* Supervisor's own steps; the request is execute's, and the socket thread
\* reads no datagram once it has entered execute
SystemNext ==
    /\ \/ SupervisorNext \/ TickTimeout \/ GraceExpires
       \/ BootNext \/ BootTimeout
       \/ exec["socket"] = "idle" /\ Deliver
       \/ DaemonNext
       \/ StopperNext \/ StopTimeout
    /\ UNCHANGED shutdownVars

ShutdownNext ==
    /\ power = "on"
    /\ \/ SystemNext
       \/ \E t \in Requesters : Enter(t)
       \/ ExecuteNext
       \/ ConsoleNext
       \/ ProgramExits
       \/ DiskWrite
       \/ OthersNext

ShutdownSpec == ShutdownInit /\ [][ShutdownNext]_allVars

Powered(A) == power = "on" /\ A /\ UNCHANGED shutdownVars

\* the threads of PID 1 run, its tick and grace period elapse; the fifteen
\* second STOP_TIMEOUT is not needed
ShutdownFairness ==
    /\ WF_allVars(Powered(SupervisorNext))
    /\ WF_allVars(Powered(TickTimeout))
    /\ WF_allVars(Powered(GraceExpires))
    /\ WF_allVars(Powered(StopperNext))
    /\ WF_allVars(power = "on" /\ ExecuteNext)

FairShutdownSpec == ShutdownSpec /\ ShutdownFairness

-----------------------------------------------------------------------------
(* Properties.                                                              *)

\* Every variable this module adds holds a value of its kind.
ShutdownTypeOK ==
    /\ underWay \in BOOLEAN
    /\ foreground \in Programs \cup {None}
    /\ exec \in [Requesters -> {"idle", "parked", "take", "kill", "stop", "wait",
                    "flush", "unmount", "flushAgain", "reboot", "refused"}]
    /\ target \in Programs \cup {None}
    /\ console \in {"boot", "check", "spawn", "announce", "wait", "clear",
                    "parked"}
    /\ program \in Programs \cup {None}
    /\ progLife \in {"none", "alive", "zombie", "reaped"}
    /\ termed \subseteq Programs
    /\ volume \in {"mounted", "unmounted", "detached"}
    /\ dirty \in BOOLEAN
    /\ others \in BOOLEAN
    /\ power \in {"on", "off"}

\* execute is run by one thread only, however signals and SHUTDOWN= requests
\* race, and only after UNDER_WAY was raised.
Executing == {t \in Requesters : exec[t] \notin {"idle", "parked"}}
OneSequence ==
    /\ \A t, u \in Executing : t = u
    /\ Executing # {} <=> underWay

\* The volume is flushed and unmounted with every daemon gone, unless the
\* supervisor used up the fifteen seconds it is given.
DaemonsDownBeforeFlush ==
    \A t \in Requesters :
        exec[t] \in {"flush", "unmount", "flushAgain", "reboot", "refused"}
            => stopper = "timed_out" \/ \A p \in Pids : ~Exists(p)

\* The flush begins with the daemons stopped in time and the main thread parked.
Parked ==
    /\ \E t \in Requesters : exec[t] = "flush"
    /\ stopper = "stopped"
    /\ console = "parked"

\* From then on to the end of the power, nothing a daemon or a console program
\* wrote is lost and the volume does not stay mounted; and when nobody else is
\* left using the volume as the flush begins it is unmounted, with all of it
\* written.
CleanPowerOff ==
    /\ [](Parked => [](power = "off" => volume # "mounted" /\ ~dirty))
    /\ [](Parked /\ ~others =>
              [](power = "off" => volume = "unmounted" /\ ~dirty))

\* Once a shutdown has begun the main thread starts at most one more program:
\* the one it had already decided on when it looked at under_way.  (Of the
\* MaxPrograms, one after k + 1 must be left for this to say anything.)
AtMostOneStray ==
    \A k \in {n \in 0..MaxPrograms : n + 1 < MaxPrograms} :
        [](underWay /\ program = k => [](program <= k + 1))

\* A shutdown that has begun gets as far as reboot(2), whatever the daemons
\* and the console program do.
GoesDown ==
    underWay ~> (power = "off" \/ \E t \in Requesters : exec[t] = "refused")

-----------------------------------------------------------------------------
(* What a comment says and the code does not do.                            *)

\* shutdown.rs:181-182: once step 1 is over the console session has been told
\* to end, so any program still on the console was sent SIGTERM.
ConsoleWasSignalled ==
    (\E t \in Requesters : exec[t] \in {"stop", "wait", "flush", "unmount"})
        => (ConsoleAlive => program \in termed)

\* shutdown.rs:163-165 and 181-182: with the console and the daemons down nothing
\* uses the volume any more, and it is unmounted before the power goes.  A process
\* they left behind keeps it busy.
NothingUsesTheVolume ==
    [](Parked => [](power = "off" => volume = "unmounted"))
=============================================================================
