------------------------------ MODULE Supervisor ------------------------------
(***************************************************************************)
(* vakt-init's service supervisor (src/vakt-init/src/services.rs): the      *)
(* state shared under one mutex and one condition variable (Control), the   *)
(* supervisor thread that starts, reaps, restarts and stops the daemons,    *)
(* the socket thread that records READY datagrams, and the boot thread      *)
(* blocked in wait_until_ready.                                             *)
(*                                                                          *)
(* One action is what a thread does between two points where another thread *)
(* can be seen to interfere: a critical section of the mutex together with  *)
(* the thread-local work around it, or a system call.  A service is its     *)
(* position in the `services` vector.  A process identifier is drawn once   *)
(* and never reused.                                                        *)
(***************************************************************************)
EXTENDS Naturals, Sequences, FiniteSets

CONSTANTS
    NumServices,    \* how many services there are
    Notifies,       \* the ones with `notifies: true`
    Respawns,       \* the ones with `respawn: true`
    Names,          \* what a datagram may have for NAME=, None for nothing
    MaxRestarts,    \* MAX_RESTARTS
    MaxPid,         \* bound: processes that can ever be forked
    MaxLine,        \* bound: datagrams one process sends
    MaxClaims,      \* bound: datagrams from processes the supervisor did not start
    WritesMayFail   \* whether a write to the tmpfs can fail

Services == 1..NumServices
Pids == 1..MaxPid
None == 0

ASSUME SupervisorAssumption ==
    /\ NumServices \in Nat \ {0}
    /\ Notifies \subseteq Services
    /\ Respawns \subseteq Services
    /\ Names \subseteq Services \cup {None}
    /\ MaxRestarts \in Nat
    /\ MaxPid \in Nat
    /\ MaxLine \in Nat
    /\ MaxClaims \in Nat
    /\ WritesMayFail \in BOOLEAN

VARIABLES
    (* Shared, behind the mutex *)
    phase,      \* "Running", "Stopping" or "Stopped"
    awaiting,   \* services boot is still waiting on
    pids,       \* pid -> service, None when not registered
    ready,      \* services recorded as ready
    status,     \* service -> the last STATUS line recorded
    revision,   \* bumped by every change worth republishing
    asleep,     \* threads blocked on the condition variable
    (* the supervisor thread *)
    pc, round, at, child, state, restarts, published, seen, changed, expired,
    body,       \* the status file being composed
    file,       \* the status file as the panel reads it
    boot,       \* where the boot thread is in wait_until_ready
    stopper,    \* where the shutdown sequence is in wait_until_stopped
    (* daemons and the kernel *)
    nextPid, life, owner, line, socket, claims,
    vouched     \* history: services whose NAME= was believed of another process

sharedVars == <<phase, awaiting, pids, ready, status, revision, asleep>>
managedVars == <<child, state, restarts>>
fileVars == <<body, file>>
localVars == <<published, seen, changed, expired>>
procVars == <<nextPid, life, owner>>
daemonVars == <<line, socket, claims, vouched>>
waitVars == <<boot, stopper>>
vars == <<sharedVars, managedVars, fileVars, localVars, pc, round, at, waitVars,
          procVars, daemonVars>>

-----------------------------------------------------------------------------
Phases == {"Running", "Stopping", "Stopped"}
States == {"Running", "Exited", "Failed", "Stopped"}
Waiters == {"supervisor", "boot", "shutdown"}
Labels == {"Spawn", "Register", "Snapshot", "Publish", "Published", "Tick",
           "Woken", "Revision", "Reap", "Settle", "Terminate", "Collect",
           "Kill", "Mark", "Done"}

Rows == [state : States \cup {"absent"}, pid : Pids \cup {None},
         readiness : {"n/a", "ready", "waiting"}, line : 0..MaxLine]
NoRow == [state |-> "absent", pid |-> None, readiness |-> "waiting", line |-> 0]

Datagrams == [pid : Pids \cup {None}, name : Services \cup {None}, ready : BOOLEAN,
              line : 0..MaxLine]

\* Control::new
ControlNew ==
    /\ phase = "Running"
    /\ awaiting = Notifies
    /\ pids = [p \in Pids |-> None]
    /\ ready = {}
    /\ status = [s \in Services |-> 0]
    /\ revision = 0
    /\ asleep = {}

\* Supervisor::with_run_dir
Init ==
    /\ ControlNew
    /\ pc = "Spawn" /\ round = "start" /\ at = 1
    /\ child = [s \in Services |-> None]
    /\ state = [s \in Services |-> "Exited"]
    /\ restarts = [s \in Services |-> 0]
    /\ published = 0 /\ seen = 0 /\ changed = FALSE /\ expired = FALSE
    /\ body = [s \in Services |-> NoRow]
    /\ file = [s \in Services |-> NoRow]
    /\ boot = "waiting" /\ stopper = "idle"
    /\ nextPid = 1
    /\ life = [p \in Pids |-> "unborn"]
    /\ owner = [p \in Pids |-> None]
    /\ line = [p \in Pids |-> 0]
    /\ socket = <<>>
    /\ claims = 0 /\ vouched = {}

-----------------------------------------------------------------------------
(* Control: the critical sections the threads share.                        *)

NotifyAll == asleep' = {}

Registered(d) == d.pid # None /\ pids[d.pid] # None

\* Variants such as this one, which believes the claim first, or those named after
\* what they leave out, are mistakes the properties must notice; the specification
\* does not use them.
AttributedByName(d) ==
    IF d.name # None \/ ~Registered(d) THEN d.name ELSE pids[d.pid]

\* note_ready: the kernel's pid decides; the claimed name only when the pid
\* is not that of a registered child.
Attributed(d) == IF Registered(d) THEN pids[d.pid] ELSE d.name

NoteReadyQuietly(d) ==
    IF Attributed(d) = None
    THEN UNCHANGED sharedVars
    ELSE /\ awaiting' = awaiting \ {Attributed(d)}
         /\ ready' = ready \cup {Attributed(d)}
         /\ status' = [status EXCEPT ![Attributed(d)] = d.line]
         /\ revision' = revision + 1
         /\ UNCHANGED <<phase, pids, asleep>>

NoteReady(d) ==
    IF Attributed(d) = None
    THEN UNCHANGED sharedVars
    ELSE /\ awaiting' = awaiting \ {Attributed(d)}
         /\ ready' = ready \cup {Attributed(d)}
         /\ status' = [status EXCEPT ![Attributed(d)] = d.line]
         /\ revision' = revision + 1
         /\ NotifyAll
         /\ UNCHANGED <<phase, pids>>

DoRegister(p, s) ==
    /\ pids' = [pids EXCEPT ![p] = s]
    /\ UNCHANGED <<phase, awaiting, ready, status, revision, asleep>>

Deregister(p, s) ==
    /\ pids' = [pids EXCEPT ![p] = None]
    /\ ready' = ready \ {s}
    /\ revision' = revision + 1
    /\ NotifyAll
    /\ UNCHANGED <<phase, awaiting, status>>

SettleQuietly(s) ==
    /\ awaiting' = awaiting \ {s}
    /\ revision' = revision + 1
    /\ UNCHANGED <<phase, pids, ready, status, asleep>>

Settle(s) ==
    /\ awaiting' = awaiting \ {s}
    /\ revision' = revision + 1
    /\ NotifyAll
    /\ UNCHANGED <<phase, pids, ready, status>>

RequestStop ==
    /\ phase' = IF phase = "Running" THEN "Stopping" ELSE phase
    /\ NotifyAll
    /\ UNCHANGED <<awaiting, pids, ready, status, revision>>

MarkStoppedQuietly ==
    /\ phase' = "Stopped"
    /\ UNCHANGED <<awaiting, pids, ready, status, revision, asleep>>

MarkStopped ==
    /\ phase' = "Stopped"
    /\ NotifyAll
    /\ UNCHANGED <<awaiting, pids, ready, status, revision>>

-----------------------------------------------------------------------------
(* The supervisor thread.                                                   *)

NextOrPastTheEnd(loop, after) ==
    IF at <= NumServices
    THEN at' = at + 1 /\ pc' = loop
    ELSE at' = 1 /\ pc' = after

\* `for service in &mut self.services`: stay in the loop, or leave it
NextOr(loop, after) ==
    IF at < NumServices
    THEN at' = at + 1 /\ pc' = loop
    ELSE at' = 1 /\ pc' = after

AdvanceOnExitsOnly ==
    IF round = "start"
    THEN NextOr("Spawn", "Snapshot")
    ELSE NextOr("Reap", IF changed THEN "Snapshot" ELSE "Tick")

\* the end of one service's turn in start_all or in reap, and what run does
\* once reap has returned
Advance ==
    IF round = "start"
    THEN NextOr("Spawn", "Snapshot")
    ELSE NextOr("Reap", IF changed \/ seen # published THEN "Snapshot"
                                                       ELSE "Tick")

\* Managed::start: the child exists, and can speak, before it is registered
Spawn ==
    /\ pc = "Spawn"
    /\ nextPid <= MaxPid
    /\ life' = [life EXCEPT ![nextPid] = "alive"]
    /\ owner' = [owner EXCEPT ![nextPid] = at]
    /\ nextPid' = nextPid + 1
    /\ pc' = "Register"
    /\ UNCHANGED <<sharedVars, managedVars, fileVars, localVars, round, at,
                   waitVars, daemonVars>>

Register ==
    /\ pc = "Register"
    /\ DoRegister(nextPid - 1, at)
    /\ child' = [child EXCEPT ![at] = nextPid - 1]
    /\ state' = [state EXCEPT ![at] = "Running"]
    /\ Advance
    /\ UNCHANGED <<restarts, fileVars, localVars, round, waitVars, procVars,
                   daemonVars>>

SpawnFailsUnsettled ==
    /\ pc = "Spawn"
    /\ child' = [child EXCEPT ![at] = None]
    /\ state' = [state EXCEPT ![at] = "Failed"]
    /\ Advance
    /\ UNCHANGED <<sharedVars, restarts, fileVars, localVars, round, waitVars,
                   procVars, daemonVars>>

SpawnFails ==
    /\ pc = "Spawn"
    /\ child' = [child EXCEPT ![at] = None]
    /\ state' = [state EXCEPT ![at] = "Failed"]
    /\ Settle(at)
    /\ Advance
    /\ UNCHANGED <<restarts, fileVars, localVars, round, waitVars, procVars,
                   daemonVars>>

\* write_status takes the lock once per service
Row(s) ==
    [state |-> state[s], pid |-> child[s], line |-> status[s],
     readiness |-> IF s \notin Notifies THEN "n/a"
                   ELSE IF s \in ready THEN "ready" ELSE "waiting"]

Snapshot ==
    /\ pc = "Snapshot"
    /\ body' = [body EXCEPT ![at] = Row(at)]
    /\ NextOr("Snapshot", "Publish")
    /\ UNCHANGED <<sharedVars, managedVars, localVars, file, round, waitVars,
                   procVars, daemonVars>>

\* the rename that makes the new contents visible, or a write that failed
Publish ==
    /\ pc = "Publish"
    /\ file' \in {body} \cup (IF WritesMayFail THEN {file} ELSE {})
    /\ body' = [s \in Services |-> NoRow]
    /\ pc' = CASE round = "start" -> "Published"
               [] round = "loop"  -> "Tick"
               [] round = "stop"  -> "Mark"
    /\ published' = IF round = "loop" THEN seen ELSE published
    /\ UNCHANGED <<sharedVars, managedVars, seen, changed, expired, round, at,
                   waitVars, procVars, daemonVars>>

\* let mut published = self.control.revision()
ReadPublished ==
    /\ pc = "Published"
    /\ published' = revision
    /\ round' = "loop"
    /\ pc' = "Tick"
    /\ UNCHANGED <<sharedVars, managedVars, fileVars, seen, changed, expired,
                   at, waitVars, procVars, daemonVars>>

\* wait_tick up to the wait, where the lock is given up
TickCheck ==
    /\ pc = "Tick"
    /\ IF phase = "Stopping"
       THEN pc' = "Terminate" /\ UNCHANGED asleep
       ELSE pc' = "Woken" /\ asleep' = asleep \cup {"supervisor"}
    /\ UNCHANGED <<phase, awaiting, pids, ready, status, revision, managedVars,
                   fileVars, localVars, round, at, waitVars, procVars, daemonVars>>

TickTimeout ==
    /\ "supervisor" \in asleep
    /\ asleep' = asleep \ {"supervisor"}
    /\ UNCHANGED <<phase, awaiting, pids, ready, status, revision, managedVars,
                   fileVars, localVars, pc, round, at, waitVars, procVars,
                   daemonVars>>

\* wait_tick from the wake-up on, and the loop condition
TickWoken ==
    /\ pc = "Woken"
    /\ "supervisor" \notin asleep
    /\ pc' = IF phase = "Stopping" THEN "Terminate" ELSE "Revision"
    /\ UNCHANGED <<sharedVars, managedVars, fileVars, localVars, round, at,
                   waitVars, procVars, daemonVars>>

ReadRevision ==
    /\ pc = "Revision"
    /\ seen' = revision
    /\ changed' = FALSE
    /\ pc' = "Reap"
    /\ UNCHANGED <<sharedVars, managedVars, fileVars, published, expired,
                   round, at, waitVars, procVars, daemonVars>>

\* reap: try_wait answered Ok(None), or there is no child
ReapIdle ==
    /\ pc = "Reap"
    /\ child[at] # None => life[child[at]] = "alive"
    /\ Advance
    /\ UNCHANGED <<sharedVars, managedVars, fileVars, localVars, round, waitVars,
                   procVars, daemonVars>>

ForgetUnwaited(p) ==
    /\ child' = [child EXCEPT ![at] = None]
    /\ UNCHANGED procVars

Forget(p) ==
    /\ life' = [life EXCEPT ![p] = "reaped"]
    /\ child' = [child EXCEPT ![at] = None]
    /\ UNCHANGED <<nextPid, owner>>

ReapExitedOnceMore(stable) ==
    LET count == IF stable THEN 1 ELSE restarts[at] + 1
    IN  /\ pc = "Reap"
        /\ child[at] # None
        /\ life[child[at]] = "zombie"
        /\ Forget(child[at])
        /\ Deregister(child[at], at)
        /\ changed' = TRUE
        /\ restarts' = [restarts EXCEPT ![at] = count]
        /\ state' = [state EXCEPT ![at] = "Exited"]
        /\ pc' = IF count > MaxRestarts + 1 THEN "Settle" ELSE "Spawn"
        /\ UNCHANGED <<fileVars, published, seen, expired, round, at,
                       waitVars, daemonVars>>

\* reap: try_wait answered Ok(Some(exit)).  `stable` is whether the crash
\* window had elapsed.
ReapExited(stable) ==
    LET count == IF stable THEN 1 ELSE restarts[at] + 1
    IN  /\ pc = "Reap"
        /\ child[at] # None
        /\ life[child[at]] = "zombie"
        /\ Forget(child[at])
        /\ Deregister(child[at], at)
        /\ changed' = TRUE
        /\ IF at \notin Respawns
           THEN /\ state' = [state EXCEPT ![at] = "Exited"]
                /\ pc' = "Settle"
                /\ UNCHANGED restarts
           ELSE /\ restarts' = [restarts EXCEPT ![at] = count]
                /\ IF count > MaxRestarts
                   THEN /\ state' = [state EXCEPT ![at] = "Failed"]
                        /\ pc' = "Settle"
                   ELSE /\ state' = [state EXCEPT ![at] = "Exited"]
                        /\ pc' = "Spawn"
        /\ UNCHANGED <<fileVars, published, seen, expired, round, at, waitVars,
                       daemonVars>>

\* reap: try_wait answered Err.  Waiting on a child of one's own fails only
\* when there is no such child any more.
ReapError ==
    /\ pc = "Reap"
    /\ child[at] # None
    /\ life[child[at]] = "zombie"
    /\ Forget(child[at])
    /\ Deregister(child[at], at)
    /\ state' = [state EXCEPT ![at] = "Failed"]
    /\ changed' = TRUE
    /\ pc' = "Settle"
    /\ UNCHANGED <<restarts, fileVars, published, seen, expired, round, at,
                   waitVars, daemonVars>>

SettleAt ==
    /\ pc = "Settle"
    /\ Settle(at)
    /\ Advance
    /\ UNCHANGED <<managedVars, fileVars, localVars, round, waitVars, procVars,
                   daemonVars>>

\* stop_all, up to the loop that collects: SIGTERM to every child at once
Terminate ==
    /\ pc = "Terminate"
    /\ round' = "stop"
    /\ at' = 1
    /\ pc' = IF \A s \in Services : child[s] = None THEN "Snapshot" ELSE "Collect"
    /\ UNCHANGED <<sharedVars, managedVars, fileVars, localVars, waitVars,
                   procVars, daemonVars>>

StopAt(p) ==
    /\ Forget(p)
    /\ state' = [state EXCEPT ![at] = "Stopped"]
    /\ UNCHANGED restarts

\* one service of collect_stopped.  A pass that found nobody left, and one
\* that ends after the deadline, go on to the children still there.
Collect ==
    /\ pc = "Collect"
    /\ IF child[at] # None /\ life[child[at]] = "zombie"
       THEN StopAt(child[at])
       ELSE UNCHANGED <<managedVars, procVars>>
    /\ NextOr("Collect", IF expired \/ \A s \in Services : child'[s] = None
                         THEN "Kill" ELSE "Collect")
    /\ UNCHANGED <<sharedVars, fileVars, localVars, round, waitVars, daemonVars>>

\* STOP_GRACE runs out
GraceExpires ==
    /\ pc = "Collect"
    /\ ~expired
    /\ expired' = TRUE
    /\ UNCHANGED <<sharedVars, managedVars, fileVars, published, seen, changed,
                   pc, round, at, waitVars, procVars, daemonVars>>

KillForgets ==
    /\ pc = "Kill"
    /\ child' = [child EXCEPT ![at] = None]
    /\ NextOr("Kill", "Snapshot")
    /\ UNCHANGED <<sharedVars, state, restarts, fileVars, localVars, round,
                   waitVars, procVars, daemonVars>>

\* SIGKILL and wait for a child that outlived the grace period
Kill ==
    /\ pc = "Kill"
    /\ IF child[at] # None
       THEN StopAt(child[at])
       ELSE UNCHANGED <<managedVars, procVars>>
    /\ NextOr("Kill", "Snapshot")
    /\ UNCHANGED <<sharedVars, fileVars, localVars, round, waitVars, daemonVars>>

Mark ==
    /\ pc = "Mark"
    /\ MarkStopped
    /\ pc' = "Done"
    /\ UNCHANGED <<managedVars, fileVars, localVars, round, at, waitVars, procVars,
                   daemonVars>>

-----------------------------------------------------------------------------
(* The other threads, and the daemons.                                      *)

\* wait_until_ready: what it returns
BootResult == IF Notifies \subseteq ready THEN "ready" ELSE "not_ready"

BootSleep ==
    /\ boot = "waiting"
    /\ "boot" \notin asleep
    /\ awaiting # {}
    /\ asleep' = asleep \cup {"boot"}
    /\ UNCHANGED <<phase, awaiting, pids, ready, status, revision, managedVars,
                   fileVars, localVars, pc, round, at, waitVars, procVars,
                   daemonVars>>

BootReturns ==
    /\ boot = "waiting"
    /\ "boot" \notin asleep
    /\ awaiting = {}
    /\ boot' = BootResult
    /\ UNCHANGED <<sharedVars, managedVars, fileVars, localVars, pc, round, at,
                   stopper, procVars, daemonVars>>

\* READY_TIMEOUT runs out
BootTimeout ==
    /\ boot = "waiting"
    /\ "boot" \in asleep
    /\ asleep' = asleep \ {"boot"}
    /\ boot' = BootResult
    /\ UNCHANGED <<phase, awaiting, pids, ready, status, revision, managedVars,
                   fileVars, localVars, pc, round, at, stopper, procVars,
                   daemonVars>>

\* Listener::recv: the oldest datagram, with the pid the kernel attached to it
Received == Head(socket)

\* the claim alone made its service ready: the sender is not, or not any more or
\* not yet, in the table, and does not run for the service it names
OnItsWord(d) ==
    /\ d.ready
    /\ ~Registered(d)
    /\ d.pid # None => owner[d.pid] # d.name

\* watch_notifications: one datagram.  One without READY=1 changes nothing.
Deliver ==
    /\ socket # <<>>
    /\ socket' = Tail(socket)
    /\ IF Received.ready THEN NoteReady(Received) ELSE UNCHANGED sharedVars
    /\ vouched' = IF OnItsWord(Received) THEN vouched \cup ({Received.name} \ {None})
                                         ELSE vouched
    /\ UNCHANGED <<managedVars, fileVars, localVars, pc, round, at, waitVars,
                   procVars, line, claims>>

\* A daemon, notifying or not, announces readiness once and refreshes its status
\* after that.  NAME= is its own text: its service, another one or left out.
DaemonReports(p, name) ==
    /\ life[p] = "alive"
    /\ line[p] < MaxLine
    /\ line' = [line EXCEPT ![p] = line[p] + 1]
    /\ socket' = Append(socket, [pid |-> p, name |-> name, ready |-> line[p] = 0,
                                 line |-> line[p] + 1])
    /\ UNCHANGED <<sharedVars, managedVars, fileVars, localVars, pc, round, at,
                   waitVars, procVars, claims, vouched>>

\* So does any other process that may write to the socket, which root and the
\* group vakt may: the panel, or a process a daemon started.
StrangerReports(name) ==
    /\ claims < MaxClaims
    /\ claims' = claims + 1
    /\ socket' = Append(socket, [pid |-> None, name |-> name, ready |-> TRUE,
                                 line |-> MaxLine])
    /\ UNCHANGED <<sharedVars, managedVars, fileVars, localVars, pc, round, at,
                   waitVars, procVars, line, vouched>>

DaemonExits(p) ==
    /\ life[p] = "alive"
    /\ life' = [life EXCEPT ![p] = "zombie"]
    /\ UNCHANGED <<sharedVars, managedVars, fileVars, localVars, pc, round, at,
                   waitVars, nextPid, owner, daemonVars>>

\* the shutdown sequence: request_stop, then into wait_until_stopped
StopRequested ==
    /\ stopper = "idle"
    /\ RequestStop
    /\ stopper' = "waiting"
    /\ UNCHANGED <<managedVars, fileVars, localVars, pc, round, at, boot,
                   procVars, daemonVars>>

StopperSleep ==
    /\ stopper = "waiting"
    /\ "shutdown" \notin asleep
    /\ phase # "Stopped"
    /\ asleep' = asleep \cup {"shutdown"}
    /\ UNCHANGED <<phase, awaiting, pids, ready, status, revision, managedVars,
                   fileVars, localVars, pc, round, at, waitVars, procVars,
                   daemonVars>>

StopperReturns ==
    /\ stopper = "waiting"
    /\ "shutdown" \notin asleep
    /\ phase = "Stopped"
    /\ stopper' = "stopped"
    /\ UNCHANGED <<sharedVars, managedVars, fileVars, localVars, pc, round, at,
                   boot, procVars, daemonVars>>

\* STOP_TIMEOUT runs out
StopTimeout ==
    /\ stopper = "waiting"
    /\ "shutdown" \in asleep
    /\ asleep' = asleep \ {"shutdown"}
    /\ stopper' = IF phase = "Stopped" THEN "stopped" ELSE "timed_out"
    /\ UNCHANGED <<phase, awaiting, pids, ready, status, revision, managedVars,
                   fileVars, localVars, pc, round, at, boot, procVars,
                   daemonVars>>

-----------------------------------------------------------------------------
SupervisorNext ==
    \/ Spawn \/ Register \/ SpawnFails
    \/ Snapshot \/ Publish \/ ReadPublished
    \/ TickCheck \/ TickWoken \/ ReadRevision
    \/ ReapIdle \/ ReapError \/ SettleAt
    \/ \E stable \in BOOLEAN : ReapExited(stable)
    \/ Terminate \/ Collect \/ Kill \/ Mark

BootNext == BootSleep \/ BootReturns

StopperNext == StopperSleep \/ StopperReturns

DaemonNext ==
    \/ \E p \in Pids, name \in Names : DaemonReports(p, name)
    \/ \E name \in Names : StrangerReports(name)
    \/ \E p \in Pids : DaemonExits(p)

Next ==
    \/ SupervisorNext \/ TickTimeout \/ GraceExpires
    \/ BootNext \/ BootTimeout
    \/ Deliver
    \/ DaemonNext
    \/ StopRequested \/ StopperNext \/ StopTimeout

Spec == Init /\ [][Next]_vars

\* The supervisor, socket and boot threads run, the two-second tick and the
\* grace period elapse.  Nothing is assumed of the daemons, and the two
\* timeouts of boot and of shutdown are left out, so that both waits may only
\* end by being woken.
Fairness ==
    /\ WF_vars(SupervisorNext)
    /\ WF_vars(TickTimeout)
    /\ WF_vars(GraceExpires)
    /\ WF_vars(BootNext)
    /\ WF_vars(StopperNext)
    /\ WF_vars(Deliver)

FairSpec == Spec /\ Fairness

-----------------------------------------------------------------------------
(* Properties.                                                              *)

\* Every variable holds a value of its kind.
TypeOK ==
    /\ phase \in Phases
    /\ awaiting \subseteq Services
    /\ pids \in [Pids -> Services \cup {None}]
    /\ ready \subseteq Services
    /\ status \in [Services -> 0..MaxLine]
    /\ revision \in Nat
    /\ asleep \subseteq Waiters
    /\ pc \in Labels
    /\ round \in {"start", "loop", "stop"}
    /\ at \in Services
    /\ child \in [Services -> Pids \cup {None}]
    /\ state \in [Services -> States]
    /\ restarts \in [Services -> Nat]
    /\ published \in Nat /\ seen \in Nat
    /\ changed \in BOOLEAN /\ expired \in BOOLEAN
    /\ body \in [Services -> Rows]
    /\ file \in [Services -> Rows]
    /\ boot \in {"waiting", "ready", "not_ready"}
    /\ stopper \in {"idle", "waiting", "stopped", "timed_out"}
    /\ nextPid \in 1..(MaxPid + 1)
    /\ life \in [Pids -> {"unborn", "alive", "zombie", "reaped"}]
    /\ owner \in [Pids -> Services \cup {None}]
    /\ line \in [Pids -> 0..MaxLine]
    /\ socket \in Seq(Datagrams)
    /\ claims \in 0..MaxClaims
    /\ vouched \subseteq Services

\* a process the kernel still knows: running, or dead and not waited for
Exists(p) == life[p] \in {"alive", "zombie"}

\* However crashes, restarts and a shutdown interleave, a service never has
\* two processes at once: reap has collected the old one before start forks.
OneInstance ==
    \A p, q \in Pids :
        Exists(p) /\ Exists(q) /\ owner[p] = owner[q] => p = q

\* When mark_stopped tells the shutdown sequence that everything is down, no
\* daemon is running and none is left unreaped, and none appears afterwards.
StoppedMeansDown == phase = "Stopped" => \A p \in Pids : ~Exists(p)

\* A thread is never blocked on the condition variable while what it waits
\* for already holds: each change it depends on comes with notify_all, and
\* wait_tick looks at the phase before it sleeps.
NoLostWakeup ==
    /\ "supervisor" \in asleep => phase # "Stopping"
    /\ "boot" \in asleep => awaiting # {}
    /\ "shutdown" \in asleep => phase # "Stopped"

\* Whenever the supervisor sleeps between passes, each service boot still
\* waits for has a child under supervision: start failures, exits for good
\* and services given up on have all been settled.
AwaitedIsSupervised ==
    pc \in {"Tick", "Woken"} => \A s \in awaiting : child[s] # None

\* A service is only recorded ready on a datagram one of its own processes
\* sent, whatever the order of registration, exits and deliveries and whatever
\* name registered processes claim; or else one whose sender was not in the pid
\* table has claimed its name.
ReadyWasReported ==
    \A s \in ready : s \in vouched \/ \E p \in Pids : owner[p] = s /\ line[p] > 0

\* A service that used up its MAX_RESTARTS within a window has failed and has no
\* process; what runs, or is about to be started again, is within the budget.
GivesUp ==
    \A s \in Services :
        restarts[s] <= MaxRestarts \/ (state[s] = "Failed" /\ child[s] = None)

FileMatches == \A s \in Services : file[s] = Row(s)

\* A service given up on, or that could not be started, stays that way.
FailedIsFinal ==
    [][\A s \in Services : state[s] = "Failed" => state'[s] = "Failed"]_vars

\* A shutdown request is always answered: the caller of wait_until_stopped is
\* told that every daemon is down.
StopCompletes == (stopper = "waiting") ~> (stopper # "waiting")

\* Boot leaves wait_until_ready once nothing is left to wait for, without
\* the timeout's help.
BootIsReleased == (awaiting = {}) ~> (boot # "waiting")

\* PID 1 never leaves a dead daemon unreaped.
ZombiesAreReaped ==
    \A p \in Pids : (life[p] = "zombie") ~> (life[p] = "reaped")

\* A readiness the supervisor has not published yet reaches the status file.
ReadinessIsPublished ==
    \A s \in Notifies :
        (pc = "Tick" /\ s \in ready /\ revision # published)
            ~> (file[s].readiness = "ready" \/ s \notin ready \/ phase # "Running")

-----------------------------------------------------------------------------
(* What the comments say and the code does not do.                          *)

\* services.rs:97-104 and 435-438: the status file follows readiness instead
\* of describing the moment of launch for ever.
StatusConverges == <>[](phase = "Running" => FileMatches)

\* services.rs:176-177: a daemon that has been restarted has not reported
\* anything yet, so it is not ready on the word of the process it replaced.
ReadinessIsCurrent ==
    pc = "Woken" => \A s \in ready \ vouched : child[s] # None => line[child[s]] > 0

\* notify.rs:13-15: the sender is identified by its credentials, not by the
\* message, so a service cannot report readiness for another.
NobodySpeaksForAnother ==
    \A s \in ready : \E p \in Pids : owner[p] = s /\ line[p] > 0

\* OPERATIONS.md:166: after MAX_RESTARTS crashes in 60 seconds a service is not
\* restarted.  It is after one more.
DownAfterMaxCrashes ==
    \A s \in Services : state[s] = "Running" => restarts[s] < MaxRestarts
=============================================================================
