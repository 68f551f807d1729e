---------------------------- MODULE ServiceProofs ----------------------------
(***************************************************************************)
(* What the supervisor says of its services, readiness, restarts and        *)
(* failure, is right for any number of them and any schedule.               *)
(***************************************************************************)
EXTENDS SupervisorProofs

-----------------------------------------------------------------------------
(* Restarts and failure.                                                    *)

\* Nothing is restarted while start_all runs; start is called within budget.
BudgetInv ==
    /\ round = "start" => \A s \in Services : restarts[s] = 0
    /\ pc \in {"Spawn", "Register"} => restarts[at] <= MaxRestarts
    /\ GivesUp

\* A failed service holds no process and none is being started for it.
FailedInv ==
    /\ \A s \in Services :
           state[s] = "Failed" =>
               child[s] = None /\ ~(pc \in {"Spawn", "Register"} /\ at = s)
    /\ round = "start" /\ pc \in {"Spawn", "Register"} =>
           \A s \in Services : s > at => state[s] = "Exited"

OutcomeInv == LifeInv /\ BudgetInv /\ FailedInv

FailedStays == \A s \in Services : state[s] = "Failed" => state'[s] = "Failed"

LEMMA InitOutcome == Init => OutcomeInv
  <1> SUFFICES ASSUME Init
               PROVE  OutcomeInv
    OBVIOUS
  <1>1. LifeInv
    BY InitLife
  <1>2. BudgetInv
    BY SupervisorAssumption DEF Init, ControlNew, BudgetInv, GivesUp, Services
  <1>3. FailedInv
    BY DEF Init, ControlNew, FailedInv
  <1> QED
    BY <1>1, <1>2, <1>3 DEF OutcomeInv

\* steps that change no state, no count and no child, and start nothing
LEMMA StillOutcome ==
    ASSUME OutcomeInv, UNCHANGED <<child, state, restarts>>,
           round' = "start" => round = "start",
           \/ pc' \notin {"Spawn", "Register"}
           \/ UNCHANGED <<at, round>> /\ pc \in {"Spawn", "Register"}
           \/ UNCHANGED <<at, round, pc>>
    PROVE  BudgetInv' /\ FailedInv' /\ FailedStays
  BY DEF OutcomeInv, BudgetInv, FailedInv, GivesUp, FailedStays

LEMMA RegisterOutcome ==
    ASSUME OutcomeInv, TypeOK', Register \/ SpawnFails
    PROVE  BudgetInv' /\ FailedInv' /\ FailedStays
  <1>1. /\ pc \in {"Spawn", "Register"} /\ at \in Services /\ round # "stop"
        /\ UNCHANGED <<restarts, round>>
        /\ \A s \in Services \ {at} : state'[s] = state[s] /\ child'[s] = child[s]
        /\ \/ state'[at] = "Running"
           \/ state'[at] = "Failed" /\ child'[at] = None
    BY DEF Register, SpawnFails, OutcomeInv, LifeInv, RoundInv, TypeOK
  <1>2. \/ round = "start" /\ pc' = "Spawn" /\ at' = at + 1
        \/ pc' \notin {"Spawn", "Register"}
    BY <1>1, AdvanceTo DEF Register, SpawnFails
  <1>3. /\ restarts[at] <= MaxRestarts /\ state[at] # "Failed"
        /\ round = "start" => \A s \in Services : restarts[s] = 0
    BY <1>1 DEF OutcomeInv, BudgetInv, FailedInv
  <1>4. at \in Nat /\ at' \in Services /\ (\A s \in Services : s \in Nat)
    BY <1>1, SupervisorAssumption DEF Services, TypeOK
  <1>5. BudgetInv'
    <2>1. GivesUp'
      BY <1>1, <1>3 DEF OutcomeInv, BudgetInv, GivesUp
    <2>2. pc' \in {"Spawn", "Register"} => restarts'[at'] <= MaxRestarts
      BY <1>1, <1>2, <1>3, <1>4, SupervisorAssumption
    <2> QED
      BY <1>1, <1>3, <2>1, <2>2 DEF BudgetInv
  <1>6. FailedInv'
    <2>1. ASSUME NEW s \in Services, state'[s] = "Failed"
          PROVE  child'[s] = None /\ ~(pc' \in {"Spawn", "Register"} /\ at' = s)
      <3>1. CASE s = at
        BY <1>1, <1>2, <1>4, <2>1, <3>1
      <3>2. CASE s # at
        <4>1. state[s] = "Failed" /\ child[s] = None /\ child'[s] = None
          BY <1>1, <2>1, <3>2 DEF OutcomeInv, FailedInv
        <4>2. round = "start" => ~(s > at)
          BY <1>1, <4>1 DEF OutcomeInv, FailedInv
        <4> QED
          BY <1>2, <1>4, <4>1, <4>2
      <3> QED
        BY <3>1, <3>2
    <2>2. ASSUME round = "start", pc' \in {"Spawn", "Register"},
                 NEW s \in Services, s > at'
          PROVE  state'[s] = "Exited"
      <3>1. s > at /\ s # at
        BY <1>2, <1>4, <2>2
      <3> QED
        BY <1>1, <2>2, <3>1 DEF OutcomeInv, FailedInv
    <2> QED
      BY <1>1, <2>1, <2>2 DEF FailedInv
  <1> QED
    BY <1>1, <1>3, <1>5, <1>6 DEF FailedStays

LEMMA ReapOutcome ==
    ASSUME OutcomeInv, TypeOK',
           ReapError \/ \E stable \in BOOLEAN : ReapExited(stable)
    PROVE  BudgetInv' /\ FailedInv' /\ FailedStays
  <1>1. /\ pc = "Reap" /\ round = "loop" /\ at \in Services
        /\ child[at] # None /\ Forget(child[at])
        /\ UNCHANGED <<round, at>>
    BY DEF ReapError, ReapExited, OutcomeInv, LifeInv, RoundInv, TypeOK
  <1>2. /\ child \in [Services -> Pids \cup {None}]
        /\ state \in [Services -> States]
        /\ restarts \in [Services -> Nat]
        /\ restarts' \in [Services -> Nat]
    BY DEF OutcomeInv, LifeInv, TypeOK
  <1>3. child'[at] = None /\ state[at] # "Failed"
        /\ \A s \in Services \ {at} : child'[s] = child[s]
    BY <1>1, <1>2 DEF Forget, OutcomeInv, FailedInv
  <1>4. /\ \A s \in Services \ {at} : state'[s] = state[s] /\ restarts'[s] = restarts[s]
        /\ \/ state'[at] = "Failed" /\ pc' = "Settle"
           \/ state'[at] = "Exited" /\ pc' = "Settle" /\ restarts'[at] = restarts[at]
           \/ state'[at] = "Exited" /\ pc' = "Spawn" /\ ~(restarts'[at] > MaxRestarts)
    <2>1. CASE ReapError
      BY <1>1, <1>2, <2>1 DEF ReapError
    <2>2. ASSUME NEW stable \in BOOLEAN, ReapExited(stable)
          PROVE  /\ \A s \in Services \ {at} :
                        state'[s] = state[s] /\ restarts'[s] = restarts[s]
                 /\ \/ state'[at] = "Failed" /\ pc' = "Settle"
                    \/ /\ state'[at] = "Exited" /\ pc' = "Settle"
                       /\ restarts'[at] = restarts[at]
                    \/ /\ state'[at] = "Exited" /\ pc' = "Spawn"
                       /\ ~(restarts'[at] > MaxRestarts)
      <3> DEFINE count == IF stable THEN 1 ELSE restarts[at] + 1
      <3> HIDE DEF count
      <3>1. IF at \notin Respawns
            THEN /\ state' = [state EXCEPT ![at] = "Exited"]
                 /\ pc' = "Settle"
                 /\ UNCHANGED restarts
            ELSE /\ restarts' = [restarts EXCEPT ![at] = count]
                 /\ IF count > MaxRestarts
                    THEN /\ state' = [state EXCEPT ![at] = "Failed"]
                         /\ pc' = "Settle"
                    ELSE /\ state' = [state EXCEPT ![at] = "Exited"]
                         /\ pc' = "Spawn"
        BY <2>2 DEF ReapExited, count
      <3> QED
        BY <1>1, <1>2, <3>1
    <2> QED
      BY <2>1, <2>2
  <1>5. pc' = "Spawn" => restarts'[at] <= MaxRestarts
    <2>1. restarts'[at] \in Nat /\ MaxRestarts \in Nat
      BY <1>1, <1>2, SupervisorAssumption
    <2> QED
      BY <1>4, <2>1
  <1>6. BudgetInv'
    <2>1. restarts[at] <= MaxRestarts
      BY <1>1, <1>3 DEF OutcomeInv, BudgetInv, GivesUp
    <2>2. restarts'[at] <= MaxRestarts \/ (state'[at] = "Failed" /\ child'[at] = None)
      BY <1>1, <1>2, <1>3, <1>4, <2>1, SupervisorAssumption
    <2> QED
      BY <1>1, <1>3, <1>4, <1>5, <2>2 DEF OutcomeInv, BudgetInv, GivesUp
  <1>7. FailedInv'
    BY <1>1, <1>3, <1>4 DEF OutcomeInv, FailedInv
  <1> QED
    BY <1>3, <1>4, <1>6, <1>7 DEF FailedStays

\* stop_all relabels only the services it took a process from
LEMMA StopOutcome ==
    ASSUME OutcomeInv, Collect \/ Kill
    PROVE  BudgetInv' /\ FailedInv' /\ FailedStays
  <1>1. /\ at \in Services /\ round = "stop" /\ UNCHANGED <<round, restarts>>
        /\ child \in [Services -> Pids \cup {None}]
        /\ state \in [Services -> States]
    BY DEF Collect, Kill, StopAt, managedVars, OutcomeInv, LifeInv, RoundInv, TypeOK
  <1>2. pc' \notin {"Spawn", "Register"}
    <2>1. CASE Kill
      BY <2>1 DEF Kill, NextOr
    <2>2. CASE Collect
      <3> DEFINE empty == expired \/ \A s \in Services : child'[s] = None
      <3>1. NextOr("Collect", IF empty THEN "Kill" ELSE "Collect")
        BY <2>2 DEF Collect
      <3> HIDE DEF empty
      <3> QED
        BY <3>1 DEF NextOr
    <2> QED
      BY <2>1, <2>2
  <1>3. \/ UNCHANGED <<child, state>>
        \/ /\ child[at] # None
           /\ child' = [child EXCEPT ![at] = None]
           /\ state' = [state EXCEPT ![at] = "Stopped"]
    BY DEF Collect, Kill, StopAt, Forget, managedVars
  <1>4. CASE UNCHANGED <<child, state>>
    BY <1>1, <1>2, <1>4, StillOutcome
  <1>5. CASE /\ child[at] # None
             /\ child' = [child EXCEPT ![at] = None]
             /\ state' = [state EXCEPT ![at] = "Stopped"]
    <2>1. state[at] # "Failed"
      BY <1>1, <1>5 DEF OutcomeInv, FailedInv
    <2>2. BudgetInv'
      BY <1>1, <1>2, <1>5 DEF OutcomeInv, BudgetInv, GivesUp
    <2>3. FailedInv'
      BY <1>1, <1>2, <1>5 DEF OutcomeInv, FailedInv
    <2> QED
      BY <1>1, <1>5, <2>1, <2>2, <2>3 DEF FailedStays
  <1> QED
    BY <1>3, <1>4, <1>5

LEMMA NextOutcome ==
    OutcomeInv /\ [Next]_vars => OutcomeInv' /\ FailedStays
  <1> SUFFICES ASSUME OutcomeInv, [Next]_vars
               PROVE  BudgetInv' /\ FailedInv' /\ FailedStays
    BY NextLife DEF OutcomeInv
  <1>1. TypeOK'
    BY NextTypeOK DEF OutcomeInv, LifeInv
  <1> USE DEF sharedVars, managedVars, fileVars, localVars, waitVars, procVars,
              daemonVars
  <1>2. CASE Register \/ SpawnFails
    BY <1>1, <1>2, RegisterOutcome
  <1>3. CASE ReapError \/ \E stable \in BOOLEAN : ReapExited(stable)
    BY <1>1, <1>3, ReapOutcome
  <1>4. CASE Collect \/ Kill
    BY <1>4, StopOutcome
  <1>5. CASE Spawn
    BY <1>5, StillOutcome DEF Spawn
  <1>6. CASE ReapIdle \/ SettleAt
    <2>1. pc' \notin {"Spawn", "Register"}
      BY <1>6, AdvanceTo
      DEF ReapIdle, SettleAt, OutcomeInv, LifeInv, RoundInv, TypeOK
    <2> QED
      BY <1>6, <2>1, StillOutcome DEF ReapIdle, SettleAt
  <1>7. CASE Snapshot
    <2>1. pc' \notin {"Spawn", "Register"}
      BY <1>7 DEF Snapshot, NextOr
    <2> QED
      BY <1>7, <2>1, StillOutcome DEF Snapshot
  <1>8. CASE Publish
    <2>1. pc' \notin {"Spawn", "Register"}
      <3>1. round \in {"start", "loop", "stop"}
        BY DEF OutcomeInv, LifeInv, TypeOK
      <3> QED
        BY <1>8, <3>1 DEF Publish
    <2> QED
      BY <1>8, <2>1, StillOutcome DEF Publish
  <1>9. CASE \/ ReadPublished \/ TickCheck \/ TickWoken \/ ReadRevision
             \/ Terminate \/ Mark
    BY <1>9, StillOutcome
    DEF ReadPublished, TickCheck, TickWoken, ReadRevision, Terminate, Mark
  <1>10. CASE \/ TickTimeout \/ GraceExpires \/ BootNext \/ BootTimeout \/ Deliver
              \/ DaemonNext \/ StopRequested \/ StopperNext \/ StopTimeout
              \/ UNCHANGED vars
    <2>1. UNCHANGED <<child, state, restarts, at, round, pc>>
      BY <1>10
      DEF TickTimeout, GraceExpires, BootNext, BootSleep, BootReturns,
          BootTimeout, Deliver, Received, DaemonNext, DaemonReports, StrangerReports, DaemonExits,
          StopRequested, StopperNext, StopperSleep, StopperReturns, StopTimeout,
          vars
    <2> QED
      BY <2>1, StillOutcome
  <1> QED
    BY <1>2, <1>3, <1>4, <1>5, <1>6, <1>7, <1>8, <1>9, <1>10
    DEF Next, SupervisorNext

LEMMA OutcomeInvariant == Spec => []OutcomeInv
  BY InitOutcome, NextOutcome, PTL DEF Spec

\* A service that crashed more than MAX_RESTARTS times within a window has failed
\* and holds no process, whatever the number of services and however they crash;
\* any other is within its budget.
THEOREM RestartsAreBounded == Spec => []GivesUp
  <1>1. OutcomeInv => GivesUp
    BY DEF OutcomeInv, BudgetInv
  <1> QED
    BY <1>1, OutcomeInvariant, PTL

\* A service given up on, or that could not be started, is never started again.
THEOREM FailedForGood == Spec => FailedIsFinal
  <1>1. OutcomeInv /\ [Next]_vars => [FailedStays]_vars
    BY NextOutcome
  <1> QED
    BY <1>1, OutcomeInvariant, PTL DEF Spec, FailedIsFinal, FailedStays

-----------------------------------------------------------------------------
(* Readiness.                                                               *)

Speaks(p) == life[p] # "unborn" /\ line[p] > 0
Spoke(p, s) == Speaks(p) /\ owner[p] = s

\* The pid table names the service a process runs for; a datagram on its way that
\* carries the pid of a daemon was sent by it; and what is recorded was either said
\* by a process of that service or believed of one the table did not hold.
ReportInv ==
    /\ \A p \in Pids : pids[p] # None => life[p] # "unborn" /\ owner[p] = pids[p]
    /\ \A i \in 1..Len(socket) :
           socket[i].pid # None => Speaks(socket[i].pid)
    /\ \A s \in ready : s \in vouched \/ \E p \in Pids : Spoke(p, s)

\* a process keeps its service and what it has said
Kept ==
    /\ \A p \in Pids :
           life[p] # "unborn" => life'[p] # "unborn" /\ owner'[p] = owner[p]
    /\ \A p \in Pids : line[p] > 0 => line'[p] > 0

LEMMA NextKept == ASSUME LifeInv, [Next]_vars PROVE Kept
  <1> USE DEF sharedVars, managedVars, fileVars, localVars, waitVars, procVars,
              daemonVars
  <1>1. /\ life \in [Pids -> {"unborn", "alive", "zombie", "reaped"}]
        /\ owner \in [Pids -> Services \cup {None}]
        /\ line \in [Pids -> 0..MaxLine]
    BY DEF LifeInv, TypeOK
  <1>2. CASE UNCHANGED <<life, owner, line>>
    BY <1>2 DEF Kept
  <1>3. CASE Spawn
    <2>1. nextPid \in Pids /\ life[nextPid] = "unborn"
      BY <1>3, SupervisorAssumption DEF Spawn, LifeInv, TypeOK, BornInv, Pids
    <2> QED
      BY <1>1, <1>3, <2>1 DEF Spawn, Kept
  <1>4. ASSUME NEW p, Forget(p), UNCHANGED line
        PROVE  Kept
    BY <1>1, <1>4 DEF Forget, Kept
  <1>5. ASSUME NEW p \in Pids, DaemonExits(p)
        PROVE  Kept
    BY <1>1, <1>5 DEF DaemonExits, Kept
  <1>6. ASSUME NEW p \in Pids, NEW name \in Names, DaemonReports(p, name)
        PROVE  Kept
    BY <1>1, <1>6, SupervisorAssumption DEF DaemonReports, Kept
  <1>10. ASSUME NEW name \in Names, StrangerReports(name)
        PROVE  Kept
    BY <1>2, <1>10 DEF StrangerReports
  <1>7. CASE ReapError \/ \E stable \in BOOLEAN : ReapExited(stable)
    BY <1>4, <1>7 DEF ReapError, ReapExited
  <1>8. CASE Collect \/ Kill
    <2>1. UNCHANGED line /\ (Forget(child[at]) \/ UNCHANGED <<life, owner>>)
      BY <1>8 DEF Collect, Kill, StopAt
    <2> QED
      BY <1>2, <1>4, <2>1
  <1>9. CASE \/ Register \/ SpawnFails \/ Snapshot \/ Publish \/ ReadPublished
             \/ TickCheck \/ TickWoken \/ ReadRevision \/ ReapIdle \/ SettleAt
             \/ Terminate \/ Mark \/ TickTimeout \/ GraceExpires \/ BootNext
             \/ BootTimeout \/ Deliver \/ StopRequested \/ StopperNext
             \/ StopTimeout \/ UNCHANGED vars
    BY <1>2, <1>9
    DEF Register, SpawnFails, Snapshot, Publish, ReadPublished, TickCheck,
        TickWoken, ReadRevision, ReapIdle, SettleAt, Terminate, Mark,
        TickTimeout, GraceExpires, BootNext, BootSleep, BootReturns,
        BootTimeout, Deliver, Received, StopRequested, StopperNext, StopperSleep,
        StopperReturns, StopTimeout, vars
  <1> QED
    BY <1>3, <1>5, <1>6, <1>7, <1>8, <1>9, <1>10 DEF Next, SupervisorNext, DaemonNext

LEMMA NextReport ==
    LifeInv /\ ReportInv /\ [Next]_vars => ReportInv'
  <1> SUFFICES ASSUME LifeInv, ReportInv, [Next]_vars
               PROVE  ReportInv'
    OBVIOUS
  <1> USE DEF sharedVars, managedVars, fileVars, localVars, waitVars, procVars,
              daemonVars, Speaks, Spoke
  <1>1. Kept
    BY NextKept
  <1>2. /\ pids \in [Pids -> Services \cup {None}]
        /\ ready \subseteq Services
        /\ owner \in [Pids -> Services \cup {None}]
        /\ line \in [Pids -> 0..MaxLine]
        /\ socket \in Seq(Datagrams)
    BY DEF LifeInv, TypeOK
  <1>3. None \notin Services /\ None \notin Pids
    BY SupervisorAssumption DEF None, Services, Pids
  <1>4. vouched \subseteq vouched'
    BY DEF Next, SupervisorNext, BootNext, StopperNext, DaemonNext, Spawn, Register,
           SpawnFails, Snapshot, Publish, ReadPublished, TickCheck, TickWoken,
           ReadRevision, ReapIdle, ReapError, ReapExited, SettleAt, Terminate,
           Collect, Kill, Mark, TickTimeout, GraceExpires, BootSleep, BootReturns,
           BootTimeout, Deliver, DaemonReports, StrangerReports, DaemonExits,
           StopRequested, StopperSleep, StopperReturns, StopTimeout, vars
  <1>5. \A i \in 1..Len(socket) : socket[i].pid \in Pids \cup {None}
    <2>1. \A d \in Datagrams : d.pid \in Pids \cup {None}
      BY DEF Datagrams
    <2>2. \A i \in 1..Len(socket) : socket[i] \in Datagrams
      BY <1>2
    <2> QED
      BY <2>1, <2>2
  <1>6. CASE UNCHANGED <<pids, socket, ready>>
    BY <1>1, <1>2, <1>3, <1>4, <1>5, <1>6 DEF ReportInv, Kept
  <1>7. CASE Register
    <2>1. /\ nextPid - 1 \in Pids /\ life[nextPid - 1] # "unborn"
          /\ owner[nextPid - 1] = at
      BY <1>7 DEF Register, LifeInv, BornInv, Exists
    <2>2. /\ pids' = [pids EXCEPT ![nextPid - 1] = at]
          /\ UNCHANGED <<socket, ready>>
      BY <1>7 DEF Register, DoRegister
    <2> QED
      BY <1>1, <1>2, <1>3, <1>4, <1>5, <2>1, <2>2 DEF ReportInv, Kept
  <1>8. CASE ReapError \/ \E stable \in BOOLEAN : ReapExited(stable)
    <2>1. /\ pids' = [pids EXCEPT ![child[at]] = None]
          /\ ready' = ready \ {at}
          /\ UNCHANGED socket
      BY <1>8 DEF ReapError, ReapExited, Deregister
    <2> QED
      BY <1>1, <1>2, <1>3, <1>4, <1>5, <2>1 DEF ReportInv, Kept
  <1>9. CASE Deliver
    <2> DEFINE d == Head(socket)
    <2>1. /\ socket # <<>> /\ socket' = Tail(socket) /\ UNCHANGED pids
          /\ \/ UNCHANGED ready
             \/ /\ d.ready /\ Attributed(d) # None
                /\ ready' = ready \cup {Attributed(d)}
          /\ OnItsWord(d) => vouched' = vouched \cup ({d.name} \ {None})
      BY <1>9 DEF Deliver, Received, NoteReady
    <2>2. d = socket[1] /\ 1 \in 1..Len(socket)
      BY <1>2, <2>1
    <2> HIDE DEF d
    <2>3. d.pid \in Pids \cup {None} /\ (d.pid # None => Speaks(d.pid))
      BY <1>5, <2>2 DEF ReportInv
    <2>4. ASSUME d.ready, Attributed(d) # None
          PROVE  Attributed(d) \in vouched' \/ \E p \in Pids : Spoke(p, Attributed(d))
      <3>1. CASE Registered(d)
        BY <2>3, <3>1 DEF Registered, Attributed, ReportInv
      <3>2. CASE ~Registered(d) /\ d.pid # None /\ owner[d.pid] = d.name
        BY <2>3, <3>2 DEF Attributed
      <3>3. CASE ~Registered(d) /\ ~(d.pid # None /\ owner[d.pid] = d.name)
        BY <2>1, <2>4, <3>3 DEF Attributed, OnItsWord
      <3> QED
        BY <3>1, <3>2, <3>3
    <2>5. \A s \in ready' : s \in vouched' \/ \E p \in Pids : Spoke(p, s)
      BY <1>4, <2>1, <2>4 DEF ReportInv
    <2>6. \A i \in 1..Len(socket') :
              i + 1 \in 1..Len(socket) /\ socket'[i] = socket[i + 1]
      BY <1>2, <2>1
    <2>7. ASSUME NEW i \in 1..Len(socket'), socket'[i].pid # None
          PROVE  life'[socket'[i].pid] # "unborn" /\ line'[socket'[i].pid] > 0
      <3>1. socket'[i] = socket[i + 1] /\ i + 1 \in 1..Len(socket)
        BY <2>6
      <3>2. socket[i + 1].pid \in Pids /\ Speaks(socket[i + 1].pid)
        BY <1>5, <2>7, <3>1 DEF ReportInv
      <3> QED
        BY <1>1, <3>1, <3>2 DEF Kept
    <2>8. \A p \in Pids :
              pids'[p] # None => life'[p] # "unborn" /\ owner'[p] = pids'[p]
      BY <1>1, <2>1 DEF ReportInv, Kept
    <2>9. \A s \in ready' : s \in vouched' \/ \E p \in Pids : Spoke(p, s)'
      BY <1>1, <2>5 DEF Kept
    <2> QED
      BY <2>7, <2>8, <2>9 DEF ReportInv
  <1>10. ASSUME NEW d \in Datagrams, socket' = Append(socket, d),
                d.pid # None => Speaks(d.pid)', UNCHANGED <<pids, ready>>
        PROVE  ReportInv'
    <2>1. \A i \in 1..Len(socket') :
              socket'[i] = d \/ (i \in 1..Len(socket) /\ socket'[i] = socket[i])
      BY <1>2, <1>10
    <2>2. ASSUME NEW i \in 1..Len(socket'), socket'[i].pid # None
          PROVE  life'[socket'[i].pid] # "unborn" /\ line'[socket'[i].pid] > 0
      <3>1. CASE socket'[i] = d
        BY <1>10, <2>2, <3>1
      <3>2. CASE i \in 1..Len(socket) /\ socket'[i] = socket[i]
        <4>1. socket[i].pid \in Pids /\ Speaks(socket[i].pid)
          BY <1>5, <2>2, <3>2 DEF ReportInv
        <4> QED
          BY <1>1, <3>2, <4>1 DEF Kept
      <3> QED
        BY <2>1, <3>1, <3>2
    <2> QED
      BY <1>1, <1>2, <1>3, <1>4, <1>10, <2>2 DEF ReportInv, Kept
  <1>12. ASSUME NEW p \in Pids, NEW name \in Names, DaemonReports(p, name)
        PROVE  ReportInv'
    <2> DEFINE d == [pid |-> p, name |-> name, ready |-> line[p] = 0,
                     line |-> line[p] + 1]
    <2>1. /\ socket' = Append(socket, d) /\ life[p] = "alive"
          /\ line' = [line EXCEPT ![p] = line[p] + 1]
          /\ UNCHANGED <<pids, ready, life>>
      BY <1>12 DEF DaemonReports
    <2>2. d \in Datagrams /\ d.pid = p
      <3>1. line[p] + 1 \in 0..MaxLine /\ name \in Services \cup {None}
        BY <1>2, <1>12, SupervisorAssumption DEF DaemonReports
      <3> QED
        BY <3>1 DEF Datagrams
    <2>3. Speaks(p)'
      <3>1. line[p] \in 0..MaxLine
        BY <1>2
      <3>2. line'[p] = line[p] + 1 /\ life'[p] = "alive"
        BY <1>2, <2>1
      <3> QED
        BY <3>1, <3>2
    <2> HIDE DEF d
    <2> QED
      BY <1>10, <2>1, <2>2, <2>3
  <1>13. ASSUME NEW name \in Names, StrangerReports(name)
        PROVE  ReportInv'
    <2> DEFINE d == [pid |-> None, name |-> name, ready |-> TRUE, line |-> MaxLine]
    <2>1. socket' = Append(socket, d) /\ UNCHANGED <<pids, ready>>
      BY <1>13 DEF StrangerReports
    <2>2. d \in Datagrams /\ d.pid = None
      BY SupervisorAssumption DEF Datagrams
    <2> HIDE DEF d
    <2> QED
      BY <1>10, <2>1, <2>2
  <1>11. CASE \/ Spawn \/ SpawnFails \/ Snapshot \/ Publish \/ ReadPublished
             \/ TickCheck \/ TickWoken \/ ReadRevision \/ ReapIdle \/ SettleAt
             \/ Terminate \/ Collect \/ Kill \/ Mark \/ TickTimeout
             \/ GraceExpires \/ BootNext \/ BootTimeout
             \/ (\E p \in Pids : DaemonExits(p))
             \/ StopRequested \/ StopperNext \/ StopTimeout \/ UNCHANGED vars
    BY <1>6, <1>11
    DEF Spawn, SpawnFails, Settle, Snapshot, Publish, ReadPublished, TickCheck,
        TickWoken, ReadRevision, ReapIdle, SettleAt, Terminate, Collect, Kill,
        Mark, MarkStopped, TickTimeout, GraceExpires, BootNext, BootSleep,
        BootReturns, BootTimeout, DaemonExits, StopRequested, RequestStop,
        StopperNext, StopperSleep, StopperReturns, StopTimeout, vars
  <1> QED
    BY <1>7, <1>8, <1>9, <1>11, <1>12, <1>13 DEF Next, SupervisorNext, DaemonNext

\* What a registered daemon says is recorded for its own service, whatever it puts
\* in NAME=: a service is recorded ready on the word of its own processes, or of a
\* sender that was not in the table as its datagram was read and named it.
THEOREM ReadinessWasReported == Spec => []ReadyWasReported
  <1>1. Init => ReportInv
    BY DEF Init, ControlNew, ReportInv
  <1>2. ReportInv => ReadyWasReported
    BY DEF ReportInv, ReadyWasReported, Spoke, Speaks
  <1> QED
    BY <1>1, <1>2, LifeInvariant, NextReport, PTL DEF Spec

-----------------------------------------------------------------------------
(* What boot waits for.                                                     *)

\* A service boot waits for runs, or its turn to be started is still to come,
\* or it has just ended and is being started again or settled, ...
Coming(s) ==
    \/ child[s] # None
    \/ round = "start" /\ pc \in {"Spawn", "Register"} /\ at <= s
    \/ round = "loop" /\ pc \in {"Spawn", "Register", "Settle"} /\ at = s
    \/ round = "stop"

AwaitedInv == \A s \in awaiting : Coming(s)

\* ... which no step changes that neither ends a turn nor loses a process.
LEMMA StillComing ==
    ASSUME AwaitedInv, awaiting' \subseteq awaiting,
           \A s \in Services : child[s] # None => child'[s] # None,
           awaiting \subseteq Services,
           \/ UNCHANGED <<round, at, pc>>
           \/ pc \notin {"Spawn", "Register", "Settle"} /\ round' \in {round, "stop"}
           \/ pc = "Spawn" /\ pc' = "Register" /\ UNCHANGED <<round, at>>
           \/ round' = "stop"
    PROVE  AwaitedInv'
  BY DEF AwaitedInv, Coming

\* The turn of the service at hand ends, with it running or settled.
LEMMA TurnEnds ==
    ASSUME LifeInv, AwaitedInv, Advance, round' = round, round # "stop",
           pc \in {"Spawn", "Register", "Settle"},
           awaiting' \subseteq awaiting,
           at \notin awaiting' \/ child'[at] # None,
           \A s \in Services \ {at} : child'[s] = child[s]
    PROVE  AwaitedInv'
  <1> SUFFICES ASSUME NEW s \in awaiting', s # at
               PROVE  Coming(s)'
    BY DEF AwaitedInv, Coming
  <1>1. s \in Services /\ at \in Services /\ s \in Nat /\ at \in Nat /\ s <= NumServices
    BY SupervisorAssumption DEF LifeInv, TypeOK, Services
  <1>2. Coming(s) /\ child'[s] = child[s]
    BY <1>1 DEF AwaitedInv
  <1>3. CASE child[s] # None
    BY <1>2, <1>3 DEF Coming
  <1>4. CASE round = "start" /\ at <= s
    <2>1. at < NumServices /\ at + 1 <= s
      BY <1>1, <1>4, SupervisorAssumption
    <2>2. at' = at + 1 /\ pc' = "Spawn"
      BY <1>4, <2>1 DEF Advance, NextOr
    <2> QED
      BY <1>1, <1>4, <2>1, <2>2 DEF Coming
  <1> QED
    BY <1>2, <1>3, <1>4 DEF Coming

LEMMA NextAwaited == LifeInv /\ AwaitedInv /\ [Next]_vars => AwaitedInv'
  <1> SUFFICES ASSUME LifeInv, AwaitedInv, [Next]_vars
               PROVE  AwaitedInv'
    OBVIOUS
  <1> USE DEF sharedVars, managedVars, fileVars, localVars, waitVars, procVars,
              daemonVars
  <1>1. /\ awaiting \subseteq Services /\ at \in Services
        /\ child \in [Services -> Pids \cup {None}]
        /\ round \in {"start", "loop", "stop"}
    BY DEF LifeInv, TypeOK
  <1>2. CASE Register
    <2>1. round # "stop" /\ nextPid - 1 \in Pids
      BY <1>2 DEF Register, LifeInv, RoundInv, BornInv
    <2>2. child'[at] # None /\ \A s \in Services \ {at} : child'[s] = child[s]
      BY <1>1, <1>2, <2>1, SupervisorAssumption DEF Register, Pids, None
    <2> QED
      BY <1>2, <2>1, <2>2, TurnEnds DEF Register, DoRegister
  <1>3. CASE SpawnFails
    <2>1. round # "stop" /\ at \notin awaiting' /\ awaiting' \subseteq awaiting
      BY <1>3 DEF SpawnFails, Settle, LifeInv, RoundInv
    <2>2. \A s \in Services \ {at} : child'[s] = child[s]
      BY <1>1, <1>3 DEF SpawnFails
    <2> QED
      BY <1>3, <2>1, <2>2, TurnEnds DEF SpawnFails
  <1>4. CASE SettleAt
    <2>1. round = "loop" /\ at \notin awaiting' /\ awaiting' \subseteq awaiting
      BY <1>4 DEF SettleAt, Settle, LifeInv, RoundInv
    <2> QED
      BY <1>4, <2>1, TurnEnds DEF SettleAt
  <1>5. CASE ReapError \/ \E stable \in BOOLEAN : ReapExited(stable)
    <2>1. /\ pc = "Reap" /\ round = "loop" /\ UNCHANGED <<round, at, awaiting>>
          /\ Forget(child[at]) /\ pc' \in {"Settle", "Spawn"}
      BY <1>5 DEF ReapError, ReapExited, Deregister, LifeInv, RoundInv
    <2>2. \A s \in Services \ {at} : child'[s] = child[s]
      BY <1>1, <2>1 DEF Forget
    <2>3. ASSUME NEW s \in awaiting
          PROVE  Coming(s)'
      <3>1. CASE s = at
        BY <2>1, <3>1 DEF Coming
      <3>2. CASE s # at
        <4>1. child[s] # None
          BY <2>1, <3>2 DEF AwaitedInv, Coming
        <4> QED
          BY <1>1, <2>2, <3>2, <4>1 DEF Coming
      <3> QED
        BY <3>1, <3>2
    <2> QED
      BY <2>1, <2>3 DEF AwaitedInv
  <1>6. CASE Collect \/ Kill \/ Mark
    <2>1. round = "stop" /\ UNCHANGED <<round, awaiting>>
      BY <1>6 DEF Collect, Kill, Mark, MarkStopped, LifeInv, RoundInv
    <2> QED
      BY <2>1 DEF AwaitedInv, Coming
  <1>7. CASE Spawn
    BY <1>1, <1>7, StillComing DEF Spawn
  <1>8. CASE Terminate
    BY <1>1, <1>8, StillComing DEF Terminate
  <1>9. CASE \/ ReapIdle \/ Snapshot \/ Publish \/ TickCheck \/ TickWoken
             \/ ReadRevision
    <2>1. /\ pc \notin {"Spawn", "Register", "Settle"}
          /\ UNCHANGED <<round, awaiting, child>>
      BY <1>9 DEF ReapIdle, Snapshot, Publish, TickCheck, TickWoken, ReadRevision
    <2> QED
      BY <1>1, <2>1, StillComing
  <1>10. CASE ReadPublished
    BY <1>10 DEF ReadPublished, AwaitedInv, Coming, LifeInv, RoundInv
  <1>11. CASE \/ TickTimeout \/ GraceExpires \/ BootNext \/ BootTimeout \/ Deliver
              \/ DaemonNext \/ StopRequested \/ StopperNext \/ StopTimeout
              \/ UNCHANGED vars
    <2>1. UNCHANGED <<child, at, round, pc>>
      BY <1>11
      DEF TickTimeout, GraceExpires, BootNext, BootSleep, BootReturns,
          BootTimeout, Deliver, Received, DaemonNext, DaemonReports, StrangerReports, DaemonExits,
          StopRequested, StopperNext, StopperSleep, StopperReturns, StopTimeout,
          vars
    <2>2. awaiting' \subseteq awaiting
      BY <1>11
      DEF TickTimeout, GraceExpires, BootNext, BootSleep, BootReturns,
          BootTimeout, Deliver, Received, NoteReady, DaemonNext, DaemonReports, StrangerReports, DaemonExits,
          StopRequested, RequestStop, StopperNext, StopperSleep, StopperReturns,
          StopTimeout, vars
    <2> QED
      BY <1>1, <2>1, <2>2, StillComing
  <1> QED
    BY <1>2, <1>3, <1>4, <1>5, <1>6, <1>7, <1>8, <1>9, <1>10, <1>11
    DEF Next, SupervisorNext

\* Boot never waits for a service nobody looks after: whenever the supervisor
\* sleeps, what boot waits for has a process, however starts and restarts went.
THEOREM AwaitedHaveProcesses == Spec => []AwaitedIsSupervised
  <1>1. Init => AwaitedInv
    BY SupervisorAssumption DEF Init, ControlNew, AwaitedInv, Coming, Services
  <1>2. LifeInv /\ AwaitedInv => AwaitedIsSupervised
    BY DEF LifeInv, RoundInv, AwaitedInv, Coming, AwaitedIsSupervised
  <1> QED
    BY <1>1, <1>2, LifeInvariant, NextAwaited, PTL DEF Spec
=============================================================================
