--------------------------- MODULE SupervisorProofs ---------------------------
(***************************************************************************)
(* What holds of the supervisor for any number of services and processes,   *)
(* any budget of restarts and any schedule.                                 *)
(***************************************************************************)
EXTENDS Supervisor, TLAPS

-----------------------------------------------------------------------------
(* The loops over `services` stay inside the vector.                        *)

LEMMA NextOrType ==
    ASSUME at \in Services, NEW loop \in Labels, NEW after \in Labels,
           NextOr(loop, after)
    PROVE  at' \in Services /\ pc' \in Labels
  BY SupervisorAssumption DEF NextOr, Services

LEMMA AdvanceType ==
    ASSUME at \in Services, Advance
    PROVE  at' \in Services /\ pc' \in Labels
  <1>1. {"Spawn", "Snapshot", "Reap", "Tick"} \subseteq Labels
    BY DEF Labels
  <1>2. CASE round = "start"
    BY <1>1, <1>2, NextOrType DEF Advance
  <1>3. CASE round # "start" /\ (changed \/ seen # published)
    BY <1>1, <1>3, NextOrType DEF Advance
  <1>4. CASE round # "start" /\ ~(changed \/ seen # published)
    BY <1>1, <1>4, NextOrType DEF Advance
  <1> QED
    BY <1>2, <1>3, <1>4

LEMMA RowType ==
    ASSUME TypeOK, NEW s \in Services
    PROVE  Row(s) \in Rows
  BY DEF Row, Rows, TypeOK

-----------------------------------------------------------------------------
(* Type correctness.                                                        *)

LEMMA InitTypeOK == Init => TypeOK
  <1> SUFFICES ASSUME Init
               PROVE  TypeOK
    OBVIOUS
  <1>1. /\ phase \in Phases /\ pc \in Labels
        /\ \A s \in Services : state[s] \in States
    BY DEF Init, ControlNew, Phases, Labels, States
  <1>2. NoRow \in Rows /\ 0 \in 0..MaxLine
    BY SupervisorAssumption DEF NoRow, Rows
  <1>3. at \in Services /\ nextPid \in 1..(MaxPid + 1)
    BY SupervisorAssumption DEF Init, ControlNew, Services
  <1>4. socket \in Seq(Datagrams) /\ awaiting \subseteq Services
    BY SupervisorAssumption DEF Init, ControlNew
  <1>5. claims \in 0..MaxClaims /\ vouched \subseteq Services
    BY SupervisorAssumption DEF Init
  <1> QED
    BY <1>1, <1>2, <1>3, <1>4, <1>5 DEF Init, ControlNew, TypeOK

LEMMA NextTypeOK == TypeOK /\ [Next]_vars => TypeOK'
  <1> SUFFICES ASSUME TypeOK, [Next]_vars
               PROVE  TypeOK'
    OBVIOUS
  <1> USE DEF sharedVars, managedVars, fileVars, localVars, waitVars, procVars,
              daemonVars
  <1>1. CASE Spawn
    <2>1. nextPid' \in 1..(MaxPid + 1) /\ nextPid \in Pids
      BY <1>1, SupervisorAssumption DEF Spawn, TypeOK, Pids
    <2>2. pc' \in Labels
      BY <1>1 DEF Spawn, Labels
    <2> QED
      BY <1>1, <2>1, <2>2 DEF Spawn, TypeOK
  <1>2. CASE Register
    <2>1. nextPid - 1 \in Pids \cup {None}
      BY SupervisorAssumption DEF TypeOK, Pids, None
    <2>2. at' \in Services /\ pc' \in Labels
      BY <1>2, AdvanceType DEF Register, TypeOK
    <2>3. state' \in [Services -> States]
      BY <1>2 DEF Register, TypeOK, States
    <2> QED
      BY <1>2, <2>1, <2>2, <2>3 DEF Register, DoRegister, TypeOK
  <1>3. CASE SpawnFails
    <2>1. at' \in Services /\ pc' \in Labels
      BY <1>3, AdvanceType DEF SpawnFails, TypeOK
    <2>2. state' \in [Services -> States] /\ revision' \in Nat
      BY <1>3 DEF SpawnFails, Settle, TypeOK, States
    <2> QED
      BY <1>3, <2>1, <2>2 DEF SpawnFails, Settle, NotifyAll, TypeOK
  <1>4. CASE Snapshot
    <2>1. at' \in Services /\ pc' \in Labels
      BY <1>4, NextOrType DEF Snapshot, TypeOK, Labels
    <2>2. body' \in [Services -> Rows]
      BY <1>4, RowType DEF Snapshot, TypeOK
    <2> QED
      BY <1>4, <2>1, <2>2 DEF Snapshot, TypeOK
  <1>5. CASE Publish
    <2>1. pc' \in Labels
      BY <1>5 DEF Publish, TypeOK, Labels
    <2>2. NoRow \in Rows
      BY SupervisorAssumption DEF NoRow, Rows
    <2> QED
      BY <1>5, <2>1, <2>2 DEF Publish, TypeOK
  <1>6. CASE ReadPublished
    <2>1. pc' \in Labels
      BY <1>6 DEF ReadPublished, Labels
    <2> QED
      BY <1>6, <2>1 DEF ReadPublished, TypeOK
  <1>7. CASE TickCheck
    <2>1. pc' \in Labels /\ asleep' \subseteq Waiters
      BY <1>7 DEF TickCheck, TypeOK, Labels, Waiters
    <2> QED
      BY <1>7, <2>1 DEF TickCheck, TypeOK
  <1>8. CASE TickWoken
    <2>1. pc' \in Labels
      BY <1>8 DEF TickWoken, Labels
    <2> QED
      BY <1>8, <2>1 DEF TickWoken, TypeOK
  <1>9. CASE ReadRevision
    <2>1. pc' \in Labels
      BY <1>9 DEF ReadRevision, Labels
    <2> QED
      BY <1>9, <2>1 DEF ReadRevision, TypeOK
  <1>10. CASE ReapIdle
    <2>1. at' \in Services /\ pc' \in Labels
      BY <1>10, AdvanceType DEF ReapIdle, TypeOK
    <2> QED
      BY <1>10, <2>1 DEF ReapIdle, TypeOK
  <1>11. CASE ReapError
    <2>1. pc' \in Labels /\ state' \in [Services -> States] /\ revision' \in Nat
      BY <1>11 DEF ReapError, Deregister, TypeOK, Labels, States
    <2> QED
      BY <1>11, <2>1 DEF ReapError, Forget, Deregister, NotifyAll, TypeOK
  <1>12. CASE SettleAt
    <2>1. at' \in Services /\ pc' \in Labels /\ revision' \in Nat
      BY <1>12, AdvanceType DEF SettleAt, Settle, TypeOK
    <2> QED
      BY <1>12, <2>1 DEF SettleAt, Settle, NotifyAll, TypeOK
  <1>13. ASSUME NEW stable \in BOOLEAN, ReapExited(stable)
         PROVE  TypeOK'
    <2>1. pc' \in Labels /\ state' \in [Services -> States]
      BY <1>13 DEF ReapExited, TypeOK, Labels, States
    <2>2. restarts' \in [Services -> Nat] /\ revision' \in Nat
      <3> DEFINE count == IF stable THEN 1 ELSE restarts[at] + 1
      <3>1. count \in Nat /\ revision + 1 \in Nat
        BY DEF TypeOK
      <3>2. restarts' = restarts \/ restarts' = [restarts EXCEPT ![at] = count]
        BY <1>13 DEF ReapExited
      <3> HIDE DEF count
      <3> QED
        BY <1>13, <3>1, <3>2 DEF ReapExited, Deregister, TypeOK
    <2> QED
      BY <1>13, <2>1, <2>2 DEF ReapExited, Forget, Deregister, NotifyAll, TypeOK
  <1>14. CASE Terminate
    <2>1. at' \in Services /\ pc' \in Labels
      BY <1>14, SupervisorAssumption DEF Terminate, Services, Labels
    <2> QED
      BY <1>14, <2>1 DEF Terminate, TypeOK
  <1>15. CASE Collect
    <2>1. at' \in Services /\ pc' \in Labels
      BY <1>15, NextOrType DEF Collect, TypeOK, Labels
    <2>2. CASE child[at] # None /\ life[child[at]] = "zombie"
      <3>1. state' \in [Services -> States]
        BY <1>15, <2>2 DEF Collect, StopAt, TypeOK, States
      <3> QED
        BY <1>15, <2>1, <2>2, <3>1 DEF Collect, StopAt, Forget, TypeOK
    <2>3. CASE ~(child[at] # None /\ life[child[at]] = "zombie")
      BY <1>15, <2>1, <2>3 DEF Collect, TypeOK
    <2> QED
      BY <2>2, <2>3
  <1>16. CASE Kill
    <2>1. at' \in Services /\ pc' \in Labels
      BY <1>16, NextOrType DEF Kill, TypeOK, Labels
    <2>2. CASE child[at] # None
      <3>1. state' \in [Services -> States]
        BY <1>16, <2>2 DEF Kill, StopAt, TypeOK, States
      <3> QED
        BY <1>16, <2>1, <2>2, <3>1 DEF Kill, StopAt, Forget, TypeOK
    <2>3. CASE child[at] = None
      BY <1>16, <2>1, <2>3 DEF Kill, TypeOK
    <2> QED
      BY <2>2, <2>3
  <1>17. CASE Mark
    <2>1. pc' \in Labels /\ phase' \in Phases
      BY <1>17 DEF Mark, MarkStopped, Labels, Phases
    <2> QED
      BY <1>17, <2>1 DEF Mark, MarkStopped, NotifyAll, TypeOK
  <1>18. CASE TickTimeout
    BY <1>18 DEF TickTimeout, TypeOK
  <1>19. CASE GraceExpires
    BY <1>19 DEF GraceExpires, TypeOK
  <1>20. CASE BootSleep \/ StopperSleep
    <2>1. asleep' \subseteq Waiters
      BY <1>20 DEF BootSleep, StopperSleep, TypeOK, Waiters
    <2> QED
      BY <1>20, <2>1 DEF BootSleep, StopperSleep, TypeOK
  <1>21. CASE BootReturns \/ BootTimeout
    BY <1>21 DEF BootReturns, BootTimeout, BootResult, TypeOK
  <1>22. CASE StopperReturns \/ StopTimeout
    BY <1>22 DEF StopperReturns, StopTimeout, TypeOK
  <1>23. CASE StopRequested
    <2>1. phase' \in Phases
      BY <1>23 DEF StopRequested, RequestStop, TypeOK, Phases
    <2> QED
      BY <1>23, <2>1 DEF StopRequested, RequestStop, NotifyAll, TypeOK
  <1>24. CASE Deliver
    <2>1. Head(socket) \in Datagrams /\ socket' \in Seq(Datagrams)
      BY <1>24 DEF Deliver, Received, TypeOK
    <2>2. vouched' \subseteq Services
      BY <1>24, <2>1 DEF Deliver, Received, TypeOK, Datagrams
    <2>3. CASE Head(socket).ready /\ Attributed(Head(socket)) # None
      <3>1. Attributed(Head(socket)) \in Services
        BY <2>1, <2>3 DEF Attributed, Registered, Datagrams, TypeOK
      <3>2. Head(socket).line \in 0..MaxLine /\ revision + 1 \in Nat
        BY <2>1 DEF Datagrams, TypeOK
      <3> QED
        BY <1>24, <2>1, <2>2, <2>3, <3>1, <3>2 DEF Deliver, Received, NoteReady, NotifyAll, TypeOK
    <2>4. CASE ~(Head(socket).ready /\ Attributed(Head(socket)) # None)
      BY <1>24, <2>1, <2>2, <2>4 DEF Deliver, Received, NoteReady, TypeOK
    <2> QED
      BY <2>3, <2>4
  <1>25. ASSUME NEW p \in Pids, NEW name \in Names, DaemonReports(p, name)
         PROVE  TypeOK'
    <2>1. line[p] + 1 \in 0..MaxLine
      BY <1>25, SupervisorAssumption DEF DaemonReports, TypeOK
    <2>2. name \in Services \cup {None}
      BY SupervisorAssumption
    <2>3. socket' \in Seq(Datagrams)
      BY <1>25, <2>1, <2>2 DEF DaemonReports, TypeOK, Datagrams
    <2> QED
      BY <1>25, <2>1, <2>3 DEF DaemonReports, TypeOK
  <1>28. ASSUME NEW name \in Names, StrangerReports(name)
         PROVE  TypeOK'
    <2>1. claims + 1 \in 0..MaxClaims /\ MaxLine \in 0..MaxLine
      BY <1>28, SupervisorAssumption DEF StrangerReports, TypeOK
    <2>2. name \in Services \cup {None}
      BY SupervisorAssumption
    <2>3. socket' \in Seq(Datagrams)
      BY <1>28, <2>1, <2>2 DEF StrangerReports, TypeOK, Datagrams
    <2> QED
      BY <1>28, <2>1, <2>3 DEF StrangerReports, TypeOK
  <1>26. ASSUME NEW p \in Pids, DaemonExits(p)
         PROVE  TypeOK'
    BY <1>26 DEF DaemonExits, TypeOK
  <1>27. CASE UNCHANGED vars
    BY <1>27 DEF vars, TypeOK
  <1> QED
    BY <1>1, <1>2, <1>3, <1>4, <1>5, <1>6, <1>7, <1>8, <1>9, <1>10, <1>11,
       <1>12, <1>13, <1>14, <1>15, <1>16, <1>17, <1>18, <1>19, <1>20, <1>21,
       <1>22, <1>23, <1>24, <1>25, <1>26, <1>27, <1>28
    DEF Next, SupervisorNext, BootNext, StopperNext, DaemonNext

\* Every variable of the supervisor, of Control and of the daemons keeps to
\* its kind, whatever the services' flags and the interleaving.
THEOREM TypeCorrect == Spec => []TypeOK
  BY InitTypeOK, NextTypeOK, PTL DEF Spec

-----------------------------------------------------------------------------
(* No thread sleeps through what it waits for.                              *)

LEMMA NextNoLostWakeup == NoLostWakeup /\ [Next]_vars => NoLostWakeup'
  <1> SUFFICES ASSUME NoLostWakeup, [Next]_vars
               PROVE  NoLostWakeup'
    OBVIOUS
  <1> USE DEF NoLostWakeup, sharedVars
  <1>1. CASE UNCHANGED <<phase, awaiting, asleep>>
    BY <1>1
  <1>2. CASE asleep' = {}
    BY <1>2
  <1>3. CASE TickCheck
    BY <1>3 DEF TickCheck
  <1>4. CASE TickTimeout \/ BootTimeout \/ StopTimeout
    BY <1>4 DEF TickTimeout, BootTimeout, StopTimeout
  <1>5. CASE BootSleep \/ StopperSleep
    BY <1>5 DEF BootSleep, StopperSleep
  <1>6. SupervisorNext =>
            TickCheck \/ asleep' = {} \/ UNCHANGED <<phase, awaiting, asleep>>
    BY DEF SupervisorNext, Spawn, Register, DoRegister, SpawnFails, Settle,
           Snapshot, Publish, ReadPublished, TickWoken, ReadRevision, ReapIdle,
           ReapError, Deregister, SettleAt, ReapExited, Terminate, Collect,
           Kill, Mark, MarkStopped, NotifyAll
  <1>7. Deliver => asleep' = {} \/ UNCHANGED <<phase, awaiting, asleep>>
    BY DEF Deliver, Received, NoteReady, NotifyAll
  <1>8. GraceExpires \/ BootReturns \/ StopperReturns \/ DaemonNext
            => UNCHANGED <<phase, awaiting, asleep>>
    BY DEF GraceExpires, BootReturns, StopperReturns, DaemonNext,
           DaemonReports, StrangerReports, DaemonExits
  <1>9. StopRequested => asleep' = {}
    BY DEF StopRequested, RequestStop, NotifyAll
  <1>10. UNCHANGED vars => UNCHANGED <<phase, awaiting, asleep>>
    BY DEF vars
  <1> QED
    BY <1>1, <1>2, <1>3, <1>4, <1>5, <1>6, <1>7, <1>8, <1>9, <1>10
    DEF Next, BootNext, StopperNext

\* No thread of PID 1 is ever left sleeping on the condition variable while
\* what it waits for holds: every critical section that changes the phase or
\* the awaited services notifies, and no thread sleeps on a condition it has
\* not just seen false.
THEOREM WakeupsAreNotLost == Spec => []NoLostWakeup
  <1>1. Init => NoLostWakeup
    BY DEF Init, ControlNew, NoLostWakeup
  <1> QED
    BY <1>1, NextNoLostWakeup, PTL DEF Spec

-----------------------------------------------------------------------------
(* One process per service, and none when the supervisor says `Stopped`.    *)

\* Where the supervisor can be in which of its three rounds
RoundInv ==
    /\ pc = "Published" => round = "start"
    /\ pc \in {"Spawn", "Register"} => round # "stop"
    /\ pc \in {"Tick", "Woken", "Revision", "Reap", "Settle", "Terminate"}
           => round = "loop"
    /\ pc \in {"Collect", "Kill", "Mark", "Done"} => round = "stop"
    /\ phase = "Stopped" => pc = "Done"

\* Processes are born in order, and belong to a service from then on.
BornInv ==
    /\ \A p \in Pids :
           /\ p >= nextPid => life[p] = "unborn"
           /\ Exists(p) => owner[p] \in Services
    /\ pc = "Register" =>
           /\ nextPid - 1 \in Pids
           /\ Exists(nextPid - 1)
           /\ owner[nextPid - 1] = at

\* The process Managed::start has forked and not yet registered
Newborn(p) == pc = "Register" /\ p = nextPid - 1 /\ owner[p] = at

\* Every process that exists is held by the service it runs for, or is being
\* started for it; what a service holds is such a process.
HeldInv ==
    /\ \A p \in Pids : Exists(p) => child[owner[p]] = p \/ Newborn(p)
    /\ \A s \in Services :
           child[s] # None => Exists(child[s]) /\ owner[child[s]] = s

\* start is only called for a service that holds no process, ...
VacantInv ==
    /\ pc \in {"Spawn", "Register"} => child[at] = None
    /\ round = "start" /\ pc \in {"Spawn", "Register"}
           => \A s \in Services : s > at => child[s] = None

\* ... and once stop_all has passed a service it holds none.
DownInv ==
    /\ pc = "Kill" => \A s \in Services : s < at => child[s] = None
    /\ round = "stop" /\ pc \notin {"Collect", "Kill"}
           => \A s \in Services : child[s] = None

LifeInv == TypeOK /\ RoundInv /\ BornInv /\ HeldInv /\ VacantInv /\ DownInv

LEMMA InitLife == Init => LifeInv
  <1> SUFFICES ASSUME Init
               PROVE  LifeInv
    OBVIOUS
  <1>1. TypeOK
    BY InitTypeOK
  <1>2. RoundInv
    BY DEF Init, ControlNew, RoundInv
  <1>3. BornInv /\ HeldInv
    BY <1>1 DEF Init, ControlNew, BornInv, HeldInv, Exists, TypeOK
  <1>4. VacantInv /\ DownInv
    BY <1>1 DEF Init, ControlNew, VacantInv, DownInv, TypeOK
  <1> QED
    BY <1>1, <1>2, <1>3, <1>4 DEF LifeInv

\* what the end of a service's turn leads to
LEMMA AdvanceTo ==
    ASSUME at \in Services, Advance
    PROVE  /\ round = "start" => \/ pc' = "Snapshot"
                                 \/ pc' = "Spawn" /\ at' = at + 1
           /\ round # "start" => pc' \in {"Reap", "Snapshot", "Tick"}
  BY DEF Advance, NextOr

procState == <<child, nextPid, life, owner>>

LEMMA StillHeld ==
    ASSUME LifeInv, UNCHANGED procState, pc # "Register", pc' # "Register"
    PROVE  BornInv' /\ HeldInv'
  BY DEF LifeInv, BornInv, HeldInv, Newborn, Exists, procState

LEMMA ForgetHeld ==
    ASSUME LifeInv, TypeOK', pc # "Register", pc' # "Register",
           child[at] # None, Forget(child[at])
    PROVE  /\ BornInv' /\ HeldInv'
           /\ \A s \in Services : child'[s] # None => child[s] # None
           /\ child'[at] = None
  <1> DEFINE gone == child[at]
  <1>1. /\ at \in Services /\ gone \in Pids
        /\ child' = [child EXCEPT ![at] = None]
        /\ life' = [life EXCEPT ![gone] = "reaped"]
        /\ UNCHANGED <<nextPid, owner>>
    BY DEF LifeInv, TypeOK, Forget
  <1>2. owner[gone] = at
    BY <1>1 DEF LifeInv, HeldInv
  <1>3. child \in [Services -> Pids \cup {None}] /\ life \in [Pids -> {"unborn",
            "alive", "zombie", "reaped"}]
    BY DEF LifeInv, TypeOK
  <1>4. \A p \in Pids : Exists(p)' => Exists(p) /\ p # gone
    BY <1>1, <1>3 DEF Exists
  <1>5. BornInv'
    BY <1>1, <1>3, <1>4 DEF LifeInv, BornInv, HeldInv, Exists
  <1>6. ASSUME NEW p \in Pids, Exists(p)'
        PROVE  child'[owner'[p]] = p
    BY <1>1, <1>2, <1>3, <1>4, <1>6 DEF LifeInv, BornInv, HeldInv, Newborn
  <1>7. ASSUME NEW s \in Services, child'[s] # None
        PROVE  /\ s # at /\ child[s] # None
               /\ life'[child'[s]] \in {"alive", "zombie"}
               /\ owner'[child'[s]] = s
    <2>1. s # at /\ child'[s] = child[s]
      BY <1>1, <1>3, <1>7
    <2>2. Exists(child[s]) /\ owner[child[s]] = s /\ child[s] \in Pids
      BY <1>3, <1>7, <2>1 DEF LifeInv, HeldInv
    <2>3. child[s] # gone
      BY <1>2, <2>1, <2>2
    <2> QED
      BY <1>1, <1>3, <1>7, <2>1, <2>2, <2>3 DEF Exists
  <1> QED
    BY <1>1, <1>3, <1>5, <1>6, <1>7 DEF HeldInv, Exists

\* the steps of the other threads, of the daemons and of the clocks
LEMMA OthersLife ==
    ASSUME LifeInv, TypeOK', UNCHANGED <<pc, round, at, child, nextPid, owner>>,
           phase' = phase \/ phase' # "Stopped",
           \/ life' = life
           \/ \E p \in Pids : /\ life[p] = "alive"
                              /\ life' = [life EXCEPT ![p] = "zombie"]
    PROVE  LifeInv'
  <1>1. \A p \in Pids : (Exists(p)' <=> Exists(p))
                        /\ (life[p] = "unborn" => life'[p] = "unborn")
    BY DEF LifeInv, TypeOK, Exists
  <1>2. RoundInv'
    BY DEF LifeInv, RoundInv
  <1>3. BornInv'
    BY <1>1 DEF LifeInv, BornInv, Exists
  <1>4. HeldInv'
    <2>1. \A s \in Services : child[s] # None => child[s] \in Pids
      BY DEF LifeInv, TypeOK
    <2> QED
      BY <1>1, <2>1 DEF LifeInv, HeldInv, Newborn, Exists
  <1>5. VacantInv' /\ DownInv'
    BY DEF LifeInv, VacantInv, DownInv, RoundInv
  <1> QED
    BY <1>2, <1>3, <1>4, <1>5 DEF LifeInv

LEMMA SpawnLife == ASSUME LifeInv, TypeOK', Spawn PROVE LifeInv'
  <1>1. /\ pc = "Spawn" /\ pc' = "Register" /\ nextPid \in Pids
        /\ nextPid' = nextPid + 1 /\ nextPid' - 1 = nextPid
        /\ owner' = [owner EXCEPT ![nextPid] = at]
        /\ life' = [life EXCEPT ![nextPid] = "alive"]
        /\ UNCHANGED <<phase, round, at, child>>
    BY SupervisorAssumption
    DEF Spawn, LifeInv, TypeOK, Pids, sharedVars, managedVars
  <1>2. /\ at \in Services
        /\ owner \in [Pids -> Services \cup {None}]
        /\ life \in [Pids -> {"unborn", "alive", "zombie", "reaped"}]
        /\ child \in [Services -> Pids \cup {None}]
        /\ \A p \in Pids : p \in Nat
    <2>1. \A p \in Pids : p \in Nat
      BY SupervisorAssumption DEF Pids
    <2> QED
      BY <2>1 DEF LifeInv, TypeOK
  <1>3. life[nextPid] = "unborn"
    BY <1>1, <1>2 DEF LifeInv, BornInv
  <1>4. \A p \in Pids : p # nextPid => life'[p] = life[p] /\ owner'[p] = owner[p]
    BY <1>1, <1>2
  <1>5. life'[nextPid] = "alive" /\ owner'[nextPid] = at
    BY <1>1, <1>2
  <1>6. RoundInv'
    BY <1>1 DEF LifeInv, RoundInv
  <1>7. BornInv'
    BY <1>1, <1>2, <1>4, <1>5 DEF LifeInv, BornInv, Exists
  <1>8. ASSUME NEW p \in Pids, Exists(p)'
        PROVE  child'[owner'[p]] = p \/ Newborn(p)'
    <2>1. CASE p = nextPid
      BY <1>1, <1>5, <2>1 DEF Newborn
    <2>2. CASE p # nextPid
      BY <1>1, <1>4, <1>8, <2>2 DEF LifeInv, HeldInv, Newborn, Exists
    <2> QED
      BY <2>1, <2>2
  <1>9. ASSUME NEW s \in Services, child'[s] # None
        PROVE  life'[child'[s]] \in {"alive", "zombie"} /\ owner'[child'[s]] = s
    <2>1. child[s] \in Pids /\ Exists(child[s]) /\ owner[child[s]] = s
      BY <1>1, <1>2, <1>9 DEF LifeInv, HeldInv
    <2> QED
      BY <1>1, <1>3, <1>4, <2>1 DEF Exists
  <1>10. VacantInv' /\ DownInv'
    BY <1>1 DEF LifeInv, VacantInv, DownInv, RoundInv
  <1> QED
    BY <1>6, <1>7, <1>8, <1>9, <1>10 DEF LifeInv, HeldInv, Exists

LEMMA RegisterLife == ASSUME LifeInv, TypeOK', Register PROVE LifeInv'
  <1> DEFINE new == nextPid - 1
  <1>1. /\ pc = "Register" /\ new \in Pids /\ Exists(new) /\ owner[new] = at
        /\ child' = [child EXCEPT ![at] = new]
        /\ UNCHANGED <<phase, round, nextPid, life, owner>>
    BY DEF Register, DoRegister, LifeInv, BornInv, procVars
  <1>2. /\ at \in Services
        /\ child \in [Services -> Pids \cup {None}]
        /\ \A p \in Pids : p # None
    BY SupervisorAssumption DEF LifeInv, TypeOK, Pids, None
  <1>3. /\ child[at] = None
        /\ round = "start" => \A s \in Services : s > at => child[s] = None
    BY <1>1 DEF LifeInv, VacantInv
  <1>4. /\ round = "start" => \/ pc' = "Snapshot"
                              \/ pc' = "Spawn" /\ at' = at + 1
        /\ round # "start" => pc' \in {"Reap", "Snapshot", "Tick"}
        /\ round \in {"start", "loop"}
    BY <1>1, <1>2, AdvanceTo DEF Register, LifeInv, RoundInv, TypeOK
  <1>5. RoundInv'
    BY <1>1, <1>4 DEF LifeInv, RoundInv
  <1>6. BornInv'
    BY <1>1, <1>4 DEF LifeInv, BornInv, Exists
  <1>7. ASSUME NEW p \in Pids, Exists(p)'
        PROVE  child'[owner'[p]] = p
    <2>1. owner[p] \in Services /\ (child[owner[p]] = p \/ Newborn(p))
      BY <1>1, <1>7 DEF LifeInv, BornInv, HeldInv, Exists
    <2>2. CASE owner[p] = at
      BY <1>1, <1>2, <1>3, <2>1, <2>2 DEF Newborn
    <2>3. CASE owner[p] # at
      BY <1>1, <1>2, <2>1, <2>3 DEF Newborn
    <2> QED
      BY <2>2, <2>3
  <1>8. ASSUME NEW s \in Services, child'[s] # None
        PROVE  life'[child'[s]] \in {"alive", "zombie"} /\ owner'[child'[s]] = s
    <2>1. CASE s = at
      BY <1>1, <1>2, <2>1 DEF Exists
    <2>2. CASE s # at
      BY <1>1, <1>2, <1>8, <2>2 DEF LifeInv, HeldInv, Exists
    <2> QED
      BY <2>1, <2>2
  <1>9. VacantInv'
    <2>1. CASE pc' = "Spawn" /\ at' = at + 1 /\ round = "start"
      <3>1. at' \in Services /\ at' > at /\ at' # at
        BY <2>1, SupervisorAssumption DEF TypeOK, LifeInv, Services
      <3>2. \A s \in Services : s >= at' => child'[s] = None
        BY <1>1, <1>2, <1>3, <2>1, SupervisorAssumption DEF Services
      <3> QED
        BY <3>1, <3>2, SupervisorAssumption DEF VacantInv, Services
    <2>2. CASE pc' \notin {"Spawn", "Register"}
      BY <2>2 DEF VacantInv
    <2> QED
      BY <1>4, <2>1, <2>2
  <1>10. DownInv'
    BY <1>1, <1>4 DEF DownInv
  <1> QED
    BY <1>5, <1>6, <1>7, <1>8, <1>9, <1>10 DEF LifeInv, HeldInv, Exists

\* the supervisor's steps that neither start nor reap a process
LEMMA QuietLife ==
    ASSUME LifeInv, TypeOK', pc # "Register", UNCHANGED procState,
           \/ SpawnFails \/ Snapshot \/ Publish \/ ReadPublished
           \/ TickCheck \/ TickWoken \/ ReadRevision \/ ReapIdle \/ SettleAt
           \/ Terminate \/ Mark
    PROVE  LifeInv'
  <1> USE DEF LifeInv, procState, sharedVars, Settle, MarkStopped
  <1>1. at \in Services /\ round \in {"start", "loop", "stop"} /\ pc \in Labels
    BY DEF TypeOK
  <1>2. CASE SpawnFails
    <2>1. /\ pc = "Spawn" /\ round \in {"start", "loop"}
          /\ UNCHANGED <<phase, round, child>> /\ phase # "Stopped"
          /\ round = "start" => \/ pc' = "Snapshot"
                                \/ pc' = "Spawn" /\ at' = at + 1
          /\ round # "start" => pc' \in {"Reap", "Snapshot", "Tick"}
      BY <1>1, <1>2, AdvanceTo DEF SpawnFails, RoundInv
    <2>2. VacantInv'
      <3>1. CASE pc' = "Spawn" /\ at' = at + 1 /\ round = "start"
        <4>1. at' \in Services /\ at' > at
          BY <3>1, <1>1, SupervisorAssumption DEF TypeOK, Services
        <4> QED
          BY <2>1, <3>1, <4>1, <1>1, SupervisorAssumption DEF VacantInv, Services
      <3>2. CASE pc' \notin {"Spawn", "Register"}
        BY <3>2 DEF VacantInv
      <3> QED
        BY <2>1, <3>1, <3>2
    <2>3. pc' # "Register" /\ RoundInv' /\ DownInv'
      BY <2>1 DEF RoundInv, DownInv
    <2> QED
      BY <2>2, <2>3, StillHeld
  <1>3. CASE Snapshot
    <2>1. /\ pc = "Snapshot" /\ pc' \in {"Snapshot", "Publish"}
          /\ UNCHANGED <<phase, round, child>>
      BY <1>3 DEF Snapshot, NextOr
    <2>2. pc' # "Register" /\ RoundInv' /\ VacantInv' /\ DownInv'
      BY <2>1 DEF RoundInv, VacantInv, DownInv
    <2> QED
      BY <2>2, StillHeld
  <1>4. CASE Publish
    <2>1. /\ pc = "Publish"
          /\ round = "start" => pc' = "Published"
          /\ round = "loop" => pc' = "Tick"
          /\ round = "stop" => pc' = "Mark"
          /\ UNCHANGED <<phase, round, child>>
      BY <1>4 DEF Publish
    <2>2. pc' # "Register" /\ RoundInv' /\ VacantInv' /\ DownInv'
      BY <1>1, <2>1 DEF RoundInv, VacantInv, DownInv
    <2> QED
      BY <2>2, StillHeld
  <1>5. CASE ReadPublished
    <2>1. /\ pc = "Published" /\ pc' = "Tick" /\ round' = "loop"
          /\ UNCHANGED <<phase, child>>
      BY <1>5 DEF ReadPublished
    <2>2. pc' # "Register" /\ RoundInv' /\ VacantInv' /\ DownInv'
      BY <2>1 DEF RoundInv, VacantInv, DownInv
    <2> QED
      BY <2>2, StillHeld
  <1>6. CASE TickCheck \/ TickWoken \/ ReadRevision
    <2>1. /\ pc \in {"Tick", "Woken", "Revision"} /\ round = "loop"
          /\ pc' \in {"Terminate", "Woken", "Revision", "Reap"}
          /\ UNCHANGED <<phase, round, child>>
      BY <1>6 DEF TickCheck, TickWoken, ReadRevision, RoundInv
    <2>2. pc' # "Register" /\ RoundInv' /\ VacantInv' /\ DownInv'
      BY <2>1 DEF RoundInv, VacantInv, DownInv
    <2> QED
      BY <2>2, StillHeld
  <1>7. CASE ReapIdle \/ SettleAt
    <2>1. /\ pc \in {"Reap", "Settle"}
          /\ round = "loop" => pc' \in {"Reap", "Snapshot", "Tick"}
          /\ round = "start" => \/ pc' = "Snapshot"
                                \/ pc' = "Spawn" /\ at' = at + 1
          /\ UNCHANGED <<phase, round, child>>
      BY <1>1, <1>7, AdvanceTo DEF ReapIdle, SettleAt
    <2>2. round = "loop"
      BY <1>1, <2>1 DEF RoundInv
    <2>3. pc' # "Register" /\ RoundInv' /\ VacantInv' /\ DownInv'
      BY <2>1, <2>2 DEF RoundInv, VacantInv, DownInv
    <2> QED
      BY <2>3, StillHeld
  <1>8. CASE Terminate
    <2>1. /\ pc = "Terminate" /\ round' = "stop"
          /\ \/ pc' = "Collect"
             \/ pc' = "Snapshot" /\ \A s \in Services : child[s] = None
          /\ UNCHANGED <<phase, child>>
      BY <1>8 DEF Terminate
    <2>2. pc' # "Register" /\ RoundInv' /\ VacantInv' /\ DownInv'
      BY <2>1 DEF RoundInv, VacantInv, DownInv
    <2> QED
      BY <2>2, StillHeld
  <1>9. CASE Mark
    <2>1. pc = "Mark" /\ pc' = "Done" /\ UNCHANGED <<round, child>>
      BY <1>9 DEF Mark
    <2>2. pc' # "Register" /\ RoundInv' /\ VacantInv' /\ DownInv'
      BY <2>1 DEF RoundInv, VacantInv, DownInv
    <2> QED
      BY <2>2, StillHeld
  <1> QED
    BY <1>2, <1>3, <1>4, <1>5, <1>6, <1>7, <1>8, <1>9

LEMMA ReapLife ==
    ASSUME LifeInv, TypeOK',
           ReapError \/ \E stable \in BOOLEAN : ReapExited(stable)
    PROVE  LifeInv'
  <1>1. /\ pc = "Reap" /\ pc' \in {"Settle", "Spawn"}
        /\ child[at] # None /\ Forget(child[at])
        /\ UNCHANGED <<phase, round, at>>
    BY DEF ReapError, ReapExited, Deregister
  <1>2. BornInv' /\ HeldInv' /\ child'[at] = None
    BY <1>1, ForgetHeld
  <1>3. round = "loop"
    BY <1>1 DEF LifeInv, RoundInv
  <1>4. RoundInv' /\ VacantInv' /\ DownInv'
    BY <1>1, <1>2, <1>3 DEF LifeInv, RoundInv, VacantInv, DownInv
  <1> QED
    BY <1>2, <1>4 DEF LifeInv

LEMMA CollectLife == ASSUME LifeInv, TypeOK', Collect PROVE LifeInv'
  <1>1. /\ pc = "Collect"
        /\ \/ pc' = "Collect"
           \/ pc' = "Kill" /\ at' = 1
        /\ UNCHANGED <<phase, round>>
    <2>1. NextOr("Collect", "Kill") \/ NextOr("Collect", "Collect")
      <3> DEFINE empty == expired \/ \A s \in Services : child'[s] = None
      <3>1. NextOr("Collect", IF empty THEN "Kill" ELSE "Collect")
        BY DEF Collect
      <3> HIDE DEF empty
      <3>2. CASE empty
        BY <3>1, <3>2
      <3>3. CASE ~empty
        BY <3>1, <3>3
      <3> QED
        BY <3>2, <3>3
    <2>2. pc = "Collect" /\ UNCHANGED <<phase, round>>
      BY DEF Collect, sharedVars
    <2> QED
      BY <2>1, <2>2 DEF NextOr
  <1>2. BornInv' /\ HeldInv'
    <2>1. CASE child[at] # None /\ life[child[at]] = "zombie"
      BY <1>1, <2>1, ForgetHeld DEF Collect, StopAt
    <2>2. CASE ~(child[at] # None /\ life[child[at]] = "zombie")
      BY <1>1, <2>2, StillHeld
      DEF Collect, procState, managedVars, procVars
    <2> QED
      BY <2>1, <2>2
  <1>3. RoundInv' /\ VacantInv' /\ DownInv'
    BY <1>1, SupervisorAssumption
    DEF LifeInv, RoundInv, VacantInv, DownInv, Services
  <1> QED
    BY <1>2, <1>3 DEF LifeInv

LEMMA KillLife == ASSUME LifeInv, TypeOK', Kill PROVE LifeInv'
  <1>1. /\ pc = "Kill" /\ at \in Services
        /\ \/ pc' = "Kill" /\ at' = at + 1
           \/ pc' = "Snapshot" /\ ~(at < NumServices)
        /\ UNCHANGED <<phase, round>>
    BY DEF Kill, NextOr, sharedVars, LifeInv, TypeOK
  <1>2. /\ BornInv' /\ HeldInv'
        /\ \A s \in Services : child'[s] # None => child[s] # None
        /\ child'[at] = None
    <2>1. CASE child[at] # None
      BY <1>1, <2>1, ForgetHeld DEF Kill, StopAt
    <2>2. CASE child[at] = None
      BY <1>1, <2>2, StillHeld DEF Kill, procState, managedVars, procVars
    <2> QED
      BY <2>1, <2>2
  <1>3. \A s \in Services : s <= at => child'[s] = None
    <2>1. \A s \in Services : s < at => child[s] = None
      BY <1>1 DEF LifeInv, DownInv
    <2> QED
      BY <1>1, <1>2, <2>1, SupervisorAssumption DEF Services
  <1>4. DownInv'
    <2>1. CASE pc' = "Kill" /\ at' = at + 1
      BY <1>1, <1>3, <2>1, SupervisorAssumption DEF DownInv, Services
    <2>2. CASE pc' = "Snapshot" /\ ~(at < NumServices)
      BY <1>1, <1>3, <2>2, SupervisorAssumption DEF DownInv, Services
    <2> QED
      BY <1>1, <2>1, <2>2
  <1>5. RoundInv' /\ VacantInv'
    BY <1>1 DEF LifeInv, RoundInv, VacantInv
  <1> QED
    BY <1>2, <1>4, <1>5 DEF LifeInv

LEMMA NextLife == LifeInv /\ [Next]_vars => LifeInv'
  <1> SUFFICES ASSUME LifeInv, [Next]_vars
               PROVE  LifeInv'
    OBVIOUS
  <1>1. TypeOK'
    BY NextTypeOK DEF LifeInv
  <1>2. CASE Spawn \/ Register
    BY <1>1, <1>2, SpawnLife, RegisterLife
  <1>3. CASE \/ SpawnFails \/ Snapshot \/ Publish \/ ReadPublished
             \/ TickCheck \/ TickWoken \/ ReadRevision \/ ReapIdle \/ SettleAt
             \/ Terminate \/ Mark
    <2>1. CASE SpawnFails
      <3>1. child' = child
        BY <2>1 DEF SpawnFails, LifeInv, VacantInv, TypeOK
      <3> QED
        BY <1>1, <2>1, <3>1, QuietLife DEF SpawnFails, procState, procVars
    <2>2. CASE ~SpawnFails
      <3>1. pc # "Register" /\ UNCHANGED procState
        BY <1>3, <2>2
        DEF Snapshot, Publish, ReadPublished, TickCheck, TickWoken,
            ReadRevision, ReapIdle, SettleAt, Terminate, Mark, procState,
            managedVars, procVars
      <3> QED
        BY <1>1, <1>3, <3>1, QuietLife
    <2> QED
      BY <2>1, <2>2
  <1>4. CASE ReapError \/ \E stable \in BOOLEAN : ReapExited(stable)
    BY <1>1, <1>4, ReapLife
  <1>5. CASE Collect \/ Kill
    BY <1>1, <1>5, CollectLife, KillLife
  <1>6. CASE \/ TickTimeout \/ GraceExpires \/ BootSleep \/ BootReturns
             \/ BootTimeout \/ StopperSleep \/ StopperReturns \/ StopTimeout
    <2>1. UNCHANGED <<phase, pc, round, at, child, nextPid, life, owner>>
      BY <1>6
      DEF TickTimeout, GraceExpires, BootSleep, BootReturns, BootTimeout,
          StopperSleep, StopperReturns, StopTimeout, sharedVars, managedVars,
          procVars
    <2> QED
      BY <1>1, <2>1, OthersLife
  <1>7. CASE Deliver
    <2>1. UNCHANGED <<phase, pc, round, at, child, nextPid, life, owner>>
      BY <1>7 DEF Deliver, Received, NoteReady, sharedVars, managedVars, procVars
    <2> QED
      BY <1>1, <2>1, OthersLife
  <1>8. CASE StopRequested
    <2>1. /\ UNCHANGED <<pc, round, at, child, nextPid, life, owner>>
          /\ phase' = phase \/ phase' # "Stopped"
      BY <1>8 DEF StopRequested, RequestStop, managedVars, procVars
    <2> QED
      BY <1>1, <2>1, OthersLife
  <1>9. CASE DaemonNext
    <2>1. /\ UNCHANGED <<phase, pc, round, at, child, nextPid, owner>>
          /\ \/ life' = life
             \/ \E p \in Pids : /\ life[p] = "alive"
                                /\ life' = [life EXCEPT ![p] = "zombie"]
      BY <1>9
      DEF DaemonNext, DaemonReports, StrangerReports, DaemonExits, sharedVars, managedVars,
          procVars
    <2> QED
      BY <1>1, <2>1, OthersLife
  <1>10. CASE UNCHANGED vars
    <2>1. UNCHANGED <<phase, pc, round, at, child, nextPid, life, owner>>
      BY <1>10 DEF vars, sharedVars, managedVars, procVars
    <2> QED
      BY <1>1, <2>1, OthersLife
  <1> QED
    BY <1>2, <1>3, <1>4, <1>5, <1>6, <1>7, <1>8, <1>9, <1>10
    DEF Next, SupervisorNext, BootNext, StopperNext

LEMMA LifeInvariant == Spec => []LifeInv
  BY InitLife, NextLife, PTL DEF Spec

\* A service never has two processes at once, for any number of services and
\* any interleaving of crashes, restarts and the shutdown.
THEOREM NeverTwoInstances == Spec => []OneInstance
  <1>1. LifeInv => OneInstance
    <2> SUFFICES ASSUME LifeInv,
                        NEW p \in Pids, NEW q \in Pids,
                        Exists(p), Exists(q), owner[p] = owner[q]
                 PROVE  p = q
      BY DEF OneInstance
    <2>1. /\ child[owner[p]] = p \/ Newborn(p)
          /\ child[owner[q]] = q \/ Newborn(q)
      BY DEF LifeInv, HeldInv
    <2>2. pc = "Register" => child[at] = None
      BY DEF LifeInv, VacantInv
    <2>3. p # None /\ q # None
      BY SupervisorAssumption DEF Pids, None
    <2> QED
      BY <2>1, <2>2, <2>3 DEF Newborn
  <1> QED
    BY LifeInvariant, <1>1, PTL

\* Once the supervisor has told the shutdown sequence that it stopped, no
\* daemon is running, none is left unreaped, and none is started again.
THEOREM StoppedIsDown == Spec => []StoppedMeansDown
  <1>1. LifeInv => StoppedMeansDown
    <2> SUFFICES ASSUME LifeInv, phase = "Stopped",
                        NEW p \in Pids, Exists(p)
                 PROVE  FALSE
      BY DEF StoppedMeansDown
    <2>1. pc = "Done" /\ round = "stop"
      BY DEF LifeInv, RoundInv
    <2>2. child[owner[p]] = p /\ owner[p] \in Services
      BY <2>1 DEF LifeInv, HeldInv, BornInv, Newborn
    <2>3. child[owner[p]] = None
      BY <2>1, <2>2 DEF LifeInv, DownInv
    <2> QED
      BY <2>2, <2>3, SupervisorAssumption DEF Pids, None
  <1> QED
    BY LifeInvariant, <1>1, PTL
=============================================================================
