------------------------------- MODULE IdsProofs -------------------------------
(***************************************************************************)
(* The intrusion detection daemon for any set of files, any length of the   *)
(* alert file and any number of changes and faults: every safety property   *)
(* of Ids, from one inductive invariant.                                    *)
(***************************************************************************)
EXTENDS Ids, TLAPS

-----------------------------------------------------------------------------
(* The invariant.                                                           *)

Saving == pc \in {"open", "write", "sync", "rename", "syncdir"}
Reporting == pc \in {"report", "trim", "rewrite"}

\* What each step of the daemon can rely on.
StepInv ==
    /\ pc = "load" => base = NoBaseline
    /\ pc = "sleep" => base # NoBaseline
    /\ pc \in {"load", "sleep", "scan"} => findings = {}
    /\ Reporting => base # NoBaseline /\ findings \subseteq Findings(base, current) \cup {Info}
    /\ Saving => base # NoBaseline /\ base = current /\ findings \subseteq {Info}
    /\ Info \in findings => base = current /\ findings = {Info}

\* The file is synced before it gets the baseline's name, and once that name
\* was synced there is always a baseline behind it.
SaveInv ==
    /\ pc = "rename" => temp = "synced"
    /\ pc = "syncdir" => stored = base
    /\ saved => NoBaseline \notin reach

\* The alert file is at most a line too long for each crash, and one more
\* before it is trimmed.
LinesInv ==
    lines <= MaxAlertLines + crashes + (IF pc = "trim" THEN 1 ELSE 0)

\* The report has told what it is done with.
ReportInv ==
    Reporting => \A p \in Paths : p \in Findings(base, current) /\ p \notin findings =>
                    <<p, current[p]>> \in announced /\ told[p] = current[p]

\* What sets the baseline in memory apart from the stored one was alerted.
AbsorbInv ==
    base # NoBaseline /\ stored # NoBaseline /\ Info \notin findings \cup announced =>
        \A p \in Paths \ Large :
            base[p] # stored[p] => <<p, base[p]>> \in announced

\* A path that was alerted again in this life of the daemon will not be alerted
\* as it was once more.
RepeatInv ==
    \A p \in Paths :
        /\ repeats[p] <= crashes
        /\ repeats[p] = crashes =>
             \/ pc = "load" /\ stored = NoBaseline
             \/ base = NoBaseline /\ pc # "load"
             \/ Info \in findings
             \/ base # NoBaseline /\ p \notin Findings(told, base)
             \/ Reporting /\ p \notin findings /\ told[p] = current[p]

IdsInv ==
    /\ IdsTypeOK
    /\ StepInv
    /\ SaveInv
    /\ LinesInv
    /\ ReportInv
    /\ AbsorbInv
    /\ RepeatInv

-----------------------------------------------------------------------------
(* Baselines, and what diff makes of two of them.                           *)

LEMMA EntryTypes ==
    ASSUME NEW b \in Baselines, NEW p \in Paths
    PROVE  b[p] \in Entries(p)
  BY DEF Baselines

LEMMA BaselineUpdate ==
    ASSUME NEW b \in Baselines, NEW p \in Paths, NEW e \in Entries(p)
    PROVE  [b EXCEPT ![p] = e] \in Baselines
  BY DEF Baselines

LEMMA NothingIsBaseline == Nothing \in Baselines
  <1>1. \A p \in Paths : Absent \in Entries(p)
    BY DEF Entries, Entry, Contents
  <1> QED
    BY <1>1 DEF Nothing, Baselines

LEMMA SeenIsEntry ==
    ASSUME tree \in [Files -> Contents], NEW p \in Paths
    PROVE  Seen(p) \in Entries(p)
  <1>1. CASE p = Temp
    BY <1>1 DEF Seen, Entries
  <1>2. CASE p # Temp
    <2>1. p \in Files /\ tree[p] \in Contents
      BY <1>2 DEF Paths
    <2> QED
      BY <1>2, <2>1 DEF Seen, Entries
  <1> QED
    BY <1>1, <1>2

\* Nothing differs from itself, ...
LEMMA SameAgrees ==
    ASSUME NEW b
    PROVE  Findings(b, b) = {}
  BY DEF Findings

\* ... what diff passes over twice it passes over at once, ...
LEMMA AgreesTransitive ==
    ASSUME NEW p \in Paths, NEW a, NEW b, NEW c,
           p \notin Findings(a, b), p \notin Findings(b, c)
    PROVE  p \notin Findings(a, c)
  BY DEF Findings

\* ... only an entry's own path counts, ...
LEMMA AgreesHere ==
    ASSUME NEW p \in Paths, NEW a, NEW b, a[p] = b[p]
    PROVE  \A c : p \in Findings(a, c) <=> p \in Findings(b, c)
  BY DEF Findings

LEMMA AgreesSymmetric ==
    ASSUME NEW p \in Paths, NEW a, NEW b, p \notin Findings(a, b)
    PROVE  p \notin Findings(b, a)
  BY DEF Findings

\* ... and of a file that is hashed it passes over no difference.
LEMMA AgreesMeansSame ==
    ASSUME NEW a \in Baselines, NEW b \in Baselines, NEW p \in Paths \ Large,
           p \notin Findings(a, b)
    PROVE  a[p] = b[p]
  <1>1. a[p] \in Entries(p) /\ b[p] \in Entries(p)
    BY EntryTypes
  <1>2. \/ a[p] = Absent /\ b[p] = Absent
        \/ /\ a[p] # Absent /\ b[p] # Absent
           /\ a[p].hash = b[p].hash /\ a[p].mode = b[p].mode
    BY DEF Findings
  <1>3. CASE p = Temp
    BY <1>1, <1>2, <1>3 DEF Entries
  <1>4. CASE p # Temp
    <2>1. ASSUME NEW e \in Entries(p), e # Absent
          PROVE  e = [hash |-> e.hash, mtime |-> e.hash, mode |-> e.mode]
      BY <1>4, <2>1 DEF Entries, Entry
    <2> QED
      BY <1>1, <1>2, <2>1
  <1> QED
    BY <1>3, <1>4

-----------------------------------------------------------------------------
(* Type correctness.                                                        *)

LEMMA InitType == IdsInit => IdsTypeOK
  <1> SUFFICES ASSUME IdsInit
               PROVE  IdsTypeOK
    OBVIOUS
  <1>1. tree \in [Files -> Contents]
    BY IdsAssumption DEF IdsInit, Contents
  <1>2. current \in Baselines /\ told \in Baselines
    BY NothingIsBaseline DEF IdsInit
  <1>3. /\ 0 \in 0..MaxFaults /\ 0 \in 0..(MaxAlertLines + 1 + 0)
    BY IdsAssumption
  <1>4. /\ crashes \in 0..MaxFaults /\ faults \in crashes..MaxFaults
        /\ lines \in 0..(MaxAlertLines + 1 + crashes)
    BY <1>3 DEF IdsInit
  <1>5. repeats \in [Paths -> Nat]
    BY DEF IdsInit
  <1> QED
    BY <1>1, <1>2, <1>4, <1>5 DEF IdsInit, IdsTypeOK

\* A fault stays within its bound, and so do the crashes among them.
LEMMA FaultTypes ==
    ASSUME IdsTypeOK, Fault
    PROVE  /\ faults' \in crashes..MaxFaults
           /\ faults' \in (crashes + 1)..MaxFaults
           /\ crashes + 1 \in 0..MaxFaults
  BY IdsAssumption DEF IdsTypeOK, Fault

LEMMA DiesType ==
    ASSUME IdsInv, Fault, Dies, UNCHANGED <<told, repeats, saved>>,
           tree' = tree,
           temp' \in {Absent, "opened", "written", "synced"},
           stored' \in reach', reach' \subseteq reach,
           lines' \in {0, lines}
    PROVE  IdsTypeOK'
  <1>1. /\ faults' \in crashes'..MaxFaults /\ crashes' \in 0..MaxFaults
        /\ crashes' = crashes + 1
    BY FaultTypes DEF Dies, IdsInv
  <1>2. lines' \in 0..(MaxAlertLines + 1 + crashes')
    BY <1>1, IdsAssumption DEF IdsInv, IdsTypeOK
  <1>3. current' \in Baselines
    BY NothingIsBaseline DEF Dies
  <1> QED
    BY <1>1, <1>2, <1>3 DEF Dies, IdsInv, IdsTypeOK

LEMMA WorldType ==
    ASSUME IdsInv, Change \/ Crash \/ PowerCut \/ UNCHANGED vars
    PROVE  IdsTypeOK'
  <1> USE DEF diskVars, scanVars, alertVars, worldVars
  <1>1. CASE Change
    <2>1. tree' \in [Files -> Contents]
      BY <1>1 DEF Change, IdsInv, IdsTypeOK
    <2> QED
      BY <1>1, <2>1 DEF Change, IdsInv, IdsTypeOK
  <1>2. CASE Crash
    BY <1>2, DiesType DEF Crash, IdsInv, IdsTypeOK
  <1>3. CASE PowerCut
    BY <1>3, DiesType DEF PowerCut, IdsInv, IdsTypeOK
  <1>4. CASE UNCHANGED vars
    BY <1>4 DEF vars, IdsInv, IdsTypeOK
  <1> QED
    BY <1>1, <1>2, <1>3, <1>4

LEMMA ScanType ==
    ASSUME IdsInv, Load \/ Wake \/ Visit \/ Scanned \/ Reported
    PROVE  IdsTypeOK'
  <1> USE DEF diskVars, scanVars, alertVars, worldVars
  <1>1. CASE Load
    <2>1. base' \in Baselines \cup {NoBaseline}
      BY <1>1 DEF Load, IdsInv, IdsTypeOK
    <2>2. faults' \in crashes..MaxFaults
      BY <1>1, FaultTypes DEF Load, IdsInv, IdsTypeOK
    <2> QED
      BY <1>1, <2>1, <2>2 DEF Load, IdsInv, IdsTypeOK
  <1>2. CASE Wake
    BY <1>2 DEF Wake, IdsInv, IdsTypeOK
  <1>3. CASE Visit
    <2>1. PICK p \in todo : /\ todo' = todo \ {p}
                            /\ \/ current' = [current EXCEPT ![p] = Seen(p)]
                                  /\ faults' = faults
                               \/ current' = current /\ Fault
      BY <1>3 DEF Visit
    <2>2. p \in Paths /\ Seen(p) \in Entries(p)
      BY <2>1, SeenIsEntry DEF IdsInv, IdsTypeOK
    <2>3. current' \in Baselines
      BY <2>1, <2>2, BaselineUpdate DEF IdsInv, IdsTypeOK
    <2>4. faults' \in crashes..MaxFaults
      BY <2>1, FaultTypes DEF IdsInv, IdsTypeOK
    <2> QED
      BY <1>3, <2>1, <2>3, <2>4 DEF Visit, IdsInv, IdsTypeOK
  <1>4. CASE Scanned
    <2>1. findings' \subseteq Paths \cup {Info}
      BY <1>4 DEF Scanned, Findings
    <2>2. current' \in Baselines /\ base' \in Baselines \cup {NoBaseline}
      BY <1>4, NothingIsBaseline DEF Scanned, Sleeps, IdsInv, IdsTypeOK
    <2>3. pc' \in {"open", "report", "sleep"}
      BY <1>4 DEF Scanned, Sleeps
    <2>4. UNCHANGED <<diskVars, alertVars, worldVars, todo, faults>>
      BY <1>4 DEF Scanned
    <2> QED
      BY <2>1, <2>2, <2>3, <2>4 DEF IdsInv, IdsTypeOK
  <1>5. CASE Reported
    <2>1. current' \in Baselines /\ base' \in Baselines
      BY <1>5, NothingIsBaseline DEF Reported, Sleeps, IdsInv, IdsTypeOK
    <2>2. pc' \in {"open", "sleep"}
      BY <1>5 DEF Reported, Sleeps
    <2>3. UNCHANGED <<diskVars, alertVars, worldVars, todo, findings, faults>>
      BY <1>5 DEF Reported
    <2> QED
      BY <2>1, <2>2, <2>3 DEF IdsInv, IdsTypeOK
  <1> QED
    BY <1>1, <1>2, <1>3, <1>4, <1>5

LEMMA AlertType ==
    ASSUME IdsInv, Alert \/ Trim
    PROVE  IdsTypeOK'
  <1> USE DEF diskVars, scanVars, alertVars, worldVars
  <1>1. CASE Alert
    <2>1. PICK p \in findings : /\ findings' = findings \ {p}
                                /\ IF p = Info THEN TellsInfo ELSE Tells(p)
      BY <1>1 DEF Alert
    <2>2. told' \in Baselines /\ repeats' \in [Paths -> Nat]
      <3>1. CASE p = Info
        BY <2>1, <3>1 DEF TellsInfo, IdsInv, IdsTypeOK
      <3>2. CASE p # Info
        <4>1. p \in Paths /\ Tells(p)
          BY <2>1, <3>2 DEF IdsInv, IdsTypeOK
        <4>2. current[p] \in Entries(p)
          BY <4>1, EntryTypes DEF IdsInv, IdsTypeOK
        <4>3. told' \in Baselines
          BY <4>1, <4>2, BaselineUpdate DEF Tells, IdsInv, IdsTypeOK
        <4>4. repeats' \in [Paths -> Nat]
          BY <4>1 DEF Tells, IdsInv, IdsTypeOK
        <4> QED
          BY <4>3, <4>4
      <3> QED
        BY <3>1, <3>2
    <2>3. faults' \in crashes..MaxFaults
      BY <1>1, FaultTypes DEF Alert, IdsInv, IdsTypeOK
    <2>4. lines' \in 0..(MaxAlertLines + 1 + crashes)
      <3>1. pc = "report" /\ lines <= MaxAlertLines + crashes
        BY <1>1, IdsAssumption DEF Alert, IdsInv, LinesInv, IdsTypeOK
      <3> QED
        BY <1>1, <3>1, IdsAssumption DEF Alert, IdsInv, IdsTypeOK
    <2>5. pc' \in {"trim", "report"}
      BY <1>1 DEF Alert
    <2> QED
      BY <1>1, <2>1, <2>2, <2>3, <2>4, <2>5 DEF Alert, IdsInv, IdsTypeOK
  <1>2. CASE Trim
    BY <1>2, IdsAssumption DEF Trim, IdsInv, IdsTypeOK
  <1> QED
    BY <1>1, <1>2

\* Where a save goes on from, when it is over.
LEMMA SaveEndsType ==
    ASSUME IdsInv, SaveEnds
    PROVE  current' \in Baselines /\ pc' \in {"sleep", "report"}
  BY NothingIsBaseline DEF SaveEnds, Sleeps, IdsInv, IdsTypeOK

LEMMA SaveType ==
    ASSUME IdsInv, Open \/ Write \/ Sync \/ Rename \/ SyncDir
    PROVE  IdsTypeOK'
  <1> USE DEF diskVars, scanVars, alertVars, worldVars
  <1>1. /\ UNCHANGED <<worldVars, base, todo, findings, lines, told, repeats>>
        /\ base \in Baselines
    BY DEF Open, Write, Sync, Rename, SyncDir, IdsInv, IdsTypeOK, StepInv, Saving
  <1>2. CASE Fails
    <2>1. /\ faults' \in crashes..MaxFaults
          /\ current' \in Baselines /\ pc' \in {"sleep", "report"}
      BY <1>2, FaultTypes, SaveEndsType DEF Fails, IdsInv
    <2>2. temp' \in {Absent, "opened", "written", "synced"}
      BY <1>2 DEF Fails, IdsInv, IdsTypeOK
    <2> QED
      BY <1>1, <1>2, <2>1, <2>2 DEF Fails, IdsInv, IdsTypeOK
  <1>3. CASE ~Fails /\ (Open \/ Write \/ Sync)
    BY <1>1, <1>3 DEF Open, Write, Sync, IdsInv, IdsTypeOK
  <1>4. CASE ~Fails /\ Rename
    <2>1. /\ stored' = base /\ stored' \in reach'
          /\ reach' \subseteq reach \cup {base, NoBaseline}
      BY <1>4 DEF Rename, IdsInv, IdsTypeOK
    <2> QED
      BY <1>1, <1>4, <2>1 DEF Rename, IdsInv, IdsTypeOK
  <1>5. CASE ~Fails /\ SyncDir
    <2>1. stored = base
      BY <1>5 DEF SyncDir, IdsInv, SaveInv
    <2>2. current' \in Baselines /\ pc' \in {"sleep", "report"}
      BY <1>5, SaveEndsType DEF SyncDir
    <2>3. reach' = {base} /\ saved' = TRUE /\ UNCHANGED <<temp, stored, faults>>
      BY <1>5 DEF SyncDir
    <2> QED
      BY <1>1, <2>1, <2>2, <2>3 DEF IdsInv, IdsTypeOK
  <1> QED
    BY <1>2, <1>3, <1>4, <1>5

LEMMA NextType == IdsInv /\ [IdsNext]_vars => IdsTypeOK'
  BY WorldType, ScanType, AlertType, SaveType DEF IdsNext, Daemon

-----------------------------------------------------------------------------
(* The other parts of the invariant, one at a time.                         *)

LEMMA NextStep == IdsInv /\ [IdsNext]_vars => StepInv'
  <1> SUFFICES ASSUME IdsInv, [IdsNext]_vars
               PROVE  StepInv'
    OBVIOUS
  <1> USE DEF diskVars, scanVars, alertVars, worldVars, StepInv, Saving, Reporting
  <1>1. CASE Change \/ UNCHANGED vars
    BY <1>1 DEF Change, vars, IdsInv
  <1>2. CASE Crash \/ PowerCut
    BY <1>2 DEF Crash, PowerCut, Dies
  <1>3. CASE Load \/ Wake \/ Visit
    BY <1>3 DEF Load, Wake, Visit, IdsInv
  <1>4. CASE Scanned
    <2>1. current # NoBaseline
      BY NoBaselineAssumption DEF IdsInv, IdsTypeOK
    <2>2. Info \notin Findings(base, current)
      BY IdsAssumption DEF Findings, Paths
    <2> QED
      BY <1>4, <2>1, <2>2 DEF Scanned, Sleeps, IdsInv
  <1>5. CASE Alert
    BY <1>5 DEF Alert, IdsInv
  <1>6. CASE Trim
    BY <1>6 DEF Trim, IdsInv
  <1>7. CASE Reported
    <2>1. current # NoBaseline
      BY NoBaselineAssumption DEF IdsInv, IdsTypeOK
    <2> QED
      BY <1>7, <2>1 DEF Reported, Sleeps, IdsInv
  <1>8. CASE Open \/ Write \/ Sync \/ Rename \/ SyncDir
    <2>1. base # NoBaseline /\ base = current /\ findings \subseteq {Info}
      BY <1>8 DEF Open, Write, Sync, Rename, SyncDir, IdsInv
    <2>2. UNCHANGED <<base, findings>>
      BY <1>8 DEF Open, Write, Sync, Rename, SyncDir
    <2>3. \/ SaveEnds
          \/ pc' \in {"write", "sync", "rename", "syncdir"} /\ current' = current
      BY <1>8 DEF Open, Write, Sync, Rename, SyncDir, Fails
    <2> QED
      BY <2>1, <2>2, <2>3 DEF SaveEnds, Sleeps
  <1> QED
    BY <1>1, <1>2, <1>3, <1>4, <1>5, <1>6, <1>7, <1>8 DEF IdsNext, Daemon

LEMMA NextSave == IdsInv /\ [IdsNext]_vars => SaveInv'
  <1> SUFFICES ASSUME IdsInv, [IdsNext]_vars
               PROVE  SaveInv'
    OBVIOUS
  <1> USE DEF diskVars, scanVars, alertVars, worldVars, SaveInv
  <1>1. CASE Change \/ UNCHANGED vars
    BY <1>1 DEF Change, vars, IdsInv
  <1>2. CASE Crash
    BY <1>2 DEF Crash, Dies, IdsInv
  <1>3. CASE PowerCut
    <2>1. pc' = "load" /\ saved' = saved /\ stored' \in reach /\ reach' = {stored'}
      BY <1>3 DEF PowerCut, Dies
    <2> QED
      BY <2>1 DEF IdsInv
  <1>4. CASE Load \/ Wake \/ Visit \/ Scanned \/ Alert \/ Trim \/ Reported
    <2>1. UNCHANGED diskVars /\ pc' \notin {"rename", "syncdir"}
      BY <1>4 DEF Load, Wake, Visit, Scanned, Alert, Trim, Reported, Sleeps
    <2> QED
      BY <2>1 DEF IdsInv
  <1>5. CASE Fails /\ (Open \/ Write \/ Sync \/ Rename \/ SyncDir)
    BY <1>5 DEF Fails, SaveEnds, Sleeps, IdsInv
  <1>6. CASE ~Fails /\ (Open \/ Write \/ Sync)
    BY <1>6 DEF Open, Write, Sync, IdsInv
  <1>7. CASE ~Fails /\ Rename
    <2>1. base # NoBaseline
      BY <1>7 DEF Rename, IdsInv, StepInv, Saving
    <2>2. /\ stored' = base /\ base' = base /\ pc' = "syncdir"
          /\ reach' = reach \cup {base} /\ saved' = saved
      BY <1>7 DEF Rename, IdsInv
    <2> QED
      BY <2>1, <2>2 DEF IdsInv
  <1>8. CASE ~Fails /\ SyncDir
    <2>1. base # NoBaseline
      BY <1>8 DEF SyncDir, IdsInv, StepInv, Saving
    <2>2. reach' = {base} /\ pc' \in {"sleep", "report"}
      BY <1>8 DEF SyncDir, SaveEnds, Sleeps
    <2> QED
      BY <2>1, <2>2
  <1> QED
    BY <1>1, <1>2, <1>3, <1>4, <1>5, <1>6, <1>7, <1>8 DEF IdsNext, Daemon

LEMMA NextLines == IdsInv /\ [IdsNext]_vars => LinesInv'
  <1> SUFFICES ASSUME IdsInv, [IdsNext]_vars
               PROVE  LinesInv'
    OBVIOUS
  <1> USE DEF diskVars, scanVars, alertVars, worldVars, LinesInv
  <1>1. /\ lines \in Nat /\ crashes \in Nat /\ MaxAlertLines \in Nat
        /\ lines <= MaxAlertLines + crashes + (IF pc = "trim" THEN 1 ELSE 0)
    BY IdsAssumption DEF IdsInv, IdsTypeOK
  <1>2. CASE Change \/ UNCHANGED vars
    BY <1>1, <1>2 DEF Change, vars
  <1>3. CASE Crash \/ PowerCut
    BY <1>1, <1>3 DEF Crash, PowerCut, Dies
  <1>4. CASE Alert
    <2>1. pc = "report" /\ crashes' = crashes
      BY <1>4 DEF Alert
    <2>2. CASE lines' = lines
      BY <1>1, <1>4, <2>1, <2>2 DEF Alert
    <2>3. CASE lines' = lines + 1
      BY <1>1, <1>4, <2>1, <2>3 DEF Alert
    <2> QED
      BY <1>4, <2>2, <2>3 DEF Alert
  <1>5. CASE Trim
    BY <1>1, <1>5 DEF Trim
  <1>6. CASE Load \/ Wake \/ Visit \/ Scanned \/ Reported
             \/ Open \/ Write \/ Sync \/ Rename \/ SyncDir
    <2>1. pc # "trim" /\ lines' = lines /\ crashes' = crashes
      BY <1>6 DEF Load, Wake, Visit, Scanned, Reported, Open, Write, Sync,
         Rename, SyncDir
    <2> QED
      BY <1>1, <2>1
  <1> QED
    BY <1>2, <1>3, <1>4, <1>5, <1>6 DEF IdsNext, Daemon

\* A step of a save leaves what was alerted alone, or takes the baseline's name.
LEMMA SaveSteps ==
    ASSUME IdsInv, Open \/ Write \/ Sync \/ Rename \/ SyncDir
    PROVE  /\ base \in Baselines /\ base = current /\ base # NoBaseline
           /\ UNCHANGED <<base, findings, told, repeats, crashes>>
           /\ pc # "load" /\ ~Reporting
           /\ pc' # "load"
           /\ \/ UNCHANGED <<stored, announced>>
              \/ stored' = base
           /\ Reporting' => current' = current
  <1> USE DEF diskVars, scanVars, alertVars, worldVars
  <1>1. Saving /\ base \in Baselines /\ base = current /\ base # NoBaseline
    BY DEF Open, Write, Sync, Rename, SyncDir, IdsInv, IdsTypeOK, StepInv, Saving
  <1>2. pc # "load" /\ ~Reporting
    BY <1>1 DEF Saving, Reporting
  <1>3. UNCHANGED <<base, findings, told, repeats, crashes>>
    BY DEF Open, Write, Sync, Rename, SyncDir
  <1>4. UNCHANGED <<stored, announced>> \/ stored' = base
    BY DEF Open, Write, Sync, Rename, SyncDir, Fails
  <1>5. pc' # "load" /\ (Reporting' => current' = current)
    BY DEF Open, Write, Sync, Rename, SyncDir, Fails, SaveEnds, Sleeps, Reporting
  <1> QED
    BY <1>1, <1>2, <1>3, <1>4, <1>5

LEMMA NextReport == IdsInv /\ [IdsNext]_vars => ReportInv'
  <1> SUFFICES ASSUME IdsInv, [IdsNext]_vars, Reporting',
                      NEW p \in Paths, p \in Findings(base', current'),
                      p \notin findings'
               PROVE  <<p, current'[p]>> \in announced' /\ told'[p] = current'[p]
    BY DEF ReportInv, Findings
  <1> USE DEF diskVars, scanVars, alertVars, worldVars
  <1>1. CASE Change \/ Trim \/ UNCHANGED vars
    BY <1>1 DEF Change, Trim, vars, IdsInv, ReportInv, Reporting
  <1>2. CASE Crash \/ PowerCut \/ Load \/ Wake \/ Visit \/ Reported
    BY <1>2 DEF Crash, PowerCut, Dies, Load, Wake, Visit, Reported, Sleeps, Reporting
  <1>3. CASE Scanned
    BY <1>3 DEF Scanned, Sleeps, Reporting
  <1>4. CASE Alert
    <2>1. PICK q \in findings : /\ findings' = findings \ {q}
                                /\ IF q = Info THEN TellsInfo ELSE Tells(q)
      BY <1>4 DEF Alert
    <2>2. Reporting /\ base' = base /\ current' = current
      BY <1>4 DEF Alert, Reporting
    <2>3. q # Info
      BY <2>1, <2>2, SameAgrees DEF IdsInv, StepInv
    <2>4. q \in Paths /\ Tells(q)
      BY <2>1, <2>3 DEF IdsInv, IdsTypeOK
    <2>5. CASE p = q
      BY <2>2, <2>4, <2>5 DEF Tells, IdsInv, IdsTypeOK, Baselines
    <2>6. CASE p # q
      <3>1. <<p, current[p]>> \in announced /\ told[p] = current[p]
        BY <2>1, <2>2, <2>6 DEF IdsInv, ReportInv
      <3> QED
        BY <2>2, <2>4, <2>6, <3>1 DEF Tells, IdsInv, IdsTypeOK, Baselines
    <2> QED
      BY <2>5, <2>6
  <1>5. CASE Open \/ Write \/ Sync \/ Rename \/ SyncDir
    BY <1>5, SaveSteps, SameAgrees
  <1> QED
    BY <1>1, <1>2, <1>3, <1>4, <1>5 DEF IdsNext, Daemon

LEMMA NextAbsorb == IdsInv /\ [IdsNext]_vars => AbsorbInv'
  <1> SUFFICES ASSUME IdsInv, [IdsNext]_vars,
                      base' # NoBaseline, stored' # NoBaseline,
                      Info \notin findings', Info \notin announced',
                      NEW p \in Paths \ Large, base'[p] # stored'[p]
               PROVE  <<p, base'[p]>> \in announced'
    BY DEF AbsorbInv
  <1> USE DEF diskVars, scanVars, alertVars, worldVars
  <1>1. CASE UNCHANGED <<base, stored, findings, announced>>
    BY <1>1 DEF IdsInv, AbsorbInv
  <1>2. CASE Change \/ Trim \/ Wake \/ Visit \/ UNCHANGED vars
    BY <1>1, <1>2 DEF Change, Trim, Wake, Visit, vars
  <1>3. CASE Crash \/ PowerCut
    BY <1>3 DEF Crash, PowerCut, Dies
  <1>4. CASE Load
    BY <1>4 DEF Load
  <1>5. CASE Scanned
    <2>1. pc = "scan" /\ findings = {} /\ UNCHANGED <<stored, announced>>
      BY <1>5 DEF Scanned, IdsInv, StepInv
    <2>2. base # NoBaseline /\ base' = base
      BY <1>5 DEF Scanned
    <2> QED
      BY <2>1, <2>2 DEF IdsInv, AbsorbInv
  <1>6. CASE Alert
    <2>1. PICK q \in findings : /\ findings' = findings \ {q}
                                /\ IF q = Info THEN TellsInfo ELSE Tells(q)
      BY <1>6 DEF Alert
    <2>2. base' = base /\ stored' = stored
      BY <1>6 DEF Alert
    <2>3. CASE q = Info
      BY <2>1, <2>2, <2>3 DEF TellsInfo
    <2>4. CASE q # Info
      <3>1. announced \subseteq announced'
        BY <2>1, <2>4 DEF Tells
      <3> QED
        BY <2>1, <2>2, <2>4, <3>1 DEF IdsInv, AbsorbInv
    <2> QED
      BY <2>3, <2>4
  <1>7. CASE Reported
    <2>1. /\ findings = {} /\ base' = current /\ pc = "report"
          /\ UNCHANGED <<stored, announced>>
      BY <1>7 DEF Reported
    <2>2. base # NoBaseline /\ base \in Baselines /\ current \in Baselines
      BY <2>1 DEF IdsInv, IdsTypeOK, StepInv, Reporting
    <2>3. CASE p \in Findings(base, current)
      BY <2>1, <2>3 DEF IdsInv, ReportInv, Reporting
    <2>4. CASE p \notin Findings(base, current)
      <3>1. base[p] = current[p]
        BY <2>2, <2>4, AgreesMeansSame
      <3> QED
        BY <2>1, <2>2, <3>1 DEF IdsInv, AbsorbInv
    <2> QED
      BY <2>3, <2>4
  <1>8. CASE Open \/ Write \/ Sync \/ Rename \/ SyncDir
    BY <1>1, <1>8, SaveSteps
  <1> QED
    BY <1>2, <1>3, <1>4, <1>5, <1>6, <1>7, <1>8 DEF IdsNext, Daemon

LEMMA NextRepeat == IdsInv /\ [IdsNext]_vars => RepeatInv'
  <1> DEFINE Excused(p) == \/ pc = "load" /\ stored = NoBaseline
                           \/ base = NoBaseline /\ pc # "load"
                           \/ Info \in findings
                           \/ base # NoBaseline /\ p \notin Findings(told, base)
                           \/ Reporting /\ p \notin findings /\ told[p] = current[p]
  <1> SUFFICES ASSUME IdsInv, [IdsNext]_vars, NEW p \in Paths
               PROVE  /\ repeats'[p] <= crashes'
                      /\ repeats'[p] = crashes' => Excused(p)'
    BY DEF RepeatInv
  <1> USE DEF diskVars, scanVars, alertVars, worldVars
  <1>1. /\ repeats[p] \in Nat /\ crashes \in Nat /\ repeats[p] <= crashes
        /\ repeats[p] = crashes => Excused(p)
    BY DEF IdsInv, IdsTypeOK, RepeatInv
  <1>2. CASE Change \/ Trim \/ Wake \/ Visit \/ UNCHANGED vars
    <2>1. /\ UNCHANGED <<stored, base, findings, told, repeats, crashes>>
          /\ pc' = "load" <=> pc = "load"
          /\ Reporting => Reporting' /\ current' = current
      BY <1>2 DEF Change, Trim, Wake, Visit, vars, Reporting
    <2> QED
      BY <1>1, <2>1
  <1>3. CASE Crash \/ PowerCut
    <2>1. repeats' = repeats /\ crashes' = crashes + 1
      BY <1>3 DEF Crash, PowerCut, Dies
    <2> QED
      BY <1>1, <2>1
  <1>4. CASE Load
    <2>1. /\ pc = "load" /\ base = NoBaseline /\ findings = {} /\ ~Reporting
          /\ UNCHANGED <<stored, repeats, crashes>>
          /\ stored = NoBaseline => base' = NoBaseline /\ pc' = "scan"
      BY <1>4 DEF Load, IdsInv, StepInv, Reporting
    <2> QED
      BY <1>1, <2>1
  <1>5. CASE Scanned
    <2>1. /\ pc = "scan" /\ findings = {} /\ ~Reporting
          /\ UNCHANGED <<stored, told, repeats, crashes>>
          /\ base = NoBaseline => Info \in findings'
          /\ base # NoBaseline => base' = base
      BY <1>5 DEF Scanned, IdsInv, StepInv, Reporting
    <2> QED
      BY <1>1, <2>1
  <1>6. CASE Alert
    <2>1. PICK q \in findings : /\ findings' = findings \ {q}
                                /\ IF q = Info THEN TellsInfo ELSE Tells(q)
      BY <1>6 DEF Alert
    <2>2. /\ pc = "report" /\ Reporting /\ Reporting' /\ base # NoBaseline
          /\ UNCHANGED <<stored, base, current, crashes>>
      BY <1>6 DEF Alert, Reporting, IdsInv, StepInv
    <2>3. CASE q = Info
      <3>1. told' = current /\ base = current /\ repeats' = repeats
        BY <2>1, <2>3 DEF TellsInfo, IdsInv, StepInv
      <3> QED
        BY <1>1, <2>2, <3>1, SameAgrees
    <2>4. CASE q # Info
      <3>1. Tells(q) /\ q \in Paths /\ Info \notin findings
        BY <2>1, <2>4 DEF IdsInv, IdsTypeOK, StepInv
      <3>2. CASE p = q
        <4>1. /\ told'[p] = current[p]
              /\ repeats'[p] = repeats[p] + (IF told[p] = current[p] THEN 1 ELSE 0)
          BY <3>1, <3>2 DEF Tells, IdsInv, IdsTypeOK, Baselines
        <4>2. p \in findings /\ p \in Findings(base, current)
          BY <2>1, <2>2, <2>4, <3>2 DEF IdsInv, StepInv
        <4>3. told[p] = current[p] => p \in Findings(told, base)
          BY <4>2, AgreesHere, AgreesSymmetric
        <4>4. told[p] = current[p] => repeats[p] < crashes
          BY <1>1, <2>2, <3>1, <4>2, <4>3
        <4> QED
          BY <1>1, <2>1, <2>2, <3>2, <4>1, <4>4
      <3>3. CASE p # q
        <4>1. told'[p] = told[p] /\ repeats'[p] = repeats[p]
          BY <3>1, <3>3 DEF Tells, IdsInv, IdsTypeOK, Baselines
        <4>2. p \in Findings(told', base) <=> p \in Findings(told, base)
          BY <4>1, AgreesHere
        <4>3. p \notin findings => p \notin findings'
          BY <2>1
        <4> QED
          BY <1>1, <2>2, <3>1, <4>1, <4>2, <4>3
      <3> QED
        BY <3>2, <3>3
    <2> QED
      BY <2>3, <2>4
  <1>7. CASE Reported
    <2>1. /\ pc = "report" /\ Reporting /\ findings = {} /\ base # NoBaseline
          /\ base' = current /\ current # NoBaseline
          /\ UNCHANGED <<told, repeats, crashes>>
      BY <1>7, NoBaselineAssumption
         DEF Reported, Reporting, IdsInv, IdsTypeOK, StepInv
    <2>2. CASE told[p] = current[p]
      <3>1. p \notin Findings(told, current)
        BY <2>2, SameAgrees, AgreesHere
      <3> QED
        BY <1>1, <2>1, <3>1
    <2>3. CASE told[p] # current[p]
      <3>1. p \notin Findings(base, current)
        BY <2>1, <2>3 DEF IdsInv, ReportInv
      <3>2. repeats[p] = crashes => p \notin Findings(told, base)
        BY <1>1, <2>1, <2>3
      <3>3. repeats[p] = crashes => p \notin Findings(told, current)
        BY <3>1, <3>2, AgreesTransitive
      <3> QED
        BY <1>1, <2>1, <3>3
    <2> QED
      BY <2>2, <2>3
  <1>8. CASE Open \/ Write \/ Sync \/ Rename \/ SyncDir
    BY <1>1, <1>8, SaveSteps
  <1> QED
    BY <1>2, <1>3, <1>4, <1>5, <1>6, <1>7, <1>8 DEF IdsNext, Daemon

-----------------------------------------------------------------------------
(* The invariant and what follows from it.                                  *)

LEMMA InitIds == IdsInit => IdsInv
  <1> SUFFICES ASSUME IdsInit
               PROVE  IdsInv
    OBVIOUS
  <1>1. StepInv /\ SaveInv /\ ReportInv /\ AbsorbInv
    BY DEF IdsInit, StepInv, SaveInv, ReportInv, AbsorbInv, Reporting, Saving
  <1>2. LinesInv /\ RepeatInv
    BY IdsAssumption DEF IdsInit, LinesInv, RepeatInv
  <1> QED
    BY <1>1, <1>2, InitType DEF IdsInv

LEMMA NextIds == IdsInv /\ [IdsNext]_vars => IdsInv'
  BY NextType, NextStep, NextSave, NextLines, NextReport, NextAbsorb, NextRepeat
     DEF IdsInv

LEMMA IdsInvHolds == IdsSpec => []IdsInv
  BY InitIds, NextIds, PTL DEF IdsSpec

\* The variables keep their types, whatever fails and whenever power is cut:
\* the alert file stays within its bound but for a line for each crash.
THEOREM IdsTypeCorrect == IdsSpec => []IdsTypeOK
  <1>1. IdsInv => IdsTypeOK
    BY DEF IdsInv
  <1> QED
    BY <1>1, IdsInvHolds, PTL

\* Once a save has succeeded, neither a crash nor a power cut at any step of a
\* later one leaves the daemon without a baseline.
THEOREM BaselineIsKept == IdsSpec => []BaselineSurvives
  <1>1. IdsInv => BaselineSurvives
    BY DEF IdsInv, SaveInv, BaselineSurvives
  <1> QED
    BY <1>1, IdsInvHolds, PTL

\* A change is reported again at most once for each time the daemon died.
THEOREM RepeatsAreBounded == IdsSpec => []RepeatsBounded
  <1>1. IdsInv => RepeatsBounded
    BY DEF IdsInv, RepeatInv, RepeatsBounded
  <1> QED
    BY <1>1, IdsInvHolds, PTL

\* Only a baseline the daemon announces as fresh absorbs a difference that was
\* not alerted.
THEOREM NothingIsAbsorbed == IdsSpec => AbsorbsOnlyReported
  <1>1. ASSUME IdsInv, [IdsNext]_vars, stored' # stored, stored # NoBaseline,
               crashes' = crashes, Info \notin findings \cup announced,
               NEW p \in Paths \ Large, stored'[p] # stored[p]
        PROVE  <<p, stored'[p]>> \in announced
    <2> USE DEF diskVars, scanVars, alertVars, worldVars
    <2>1. ~(Crash \/ PowerCut)
      BY <1>1 DEF Crash, PowerCut, Dies, IdsInv, IdsTypeOK
    <2>2. ~(\/ Load \/ Wake \/ Visit \/ Scanned \/ Alert \/ Trim \/ Reported
            \/ Change \/ UNCHANGED vars)
      BY <1>1 DEF Load, Wake, Visit, Scanned, Alert, Trim, Reported, Change, vars
    <2>3. stored' = base /\ base # NoBaseline
      BY <1>1, <2>1, <2>2, SaveSteps DEF IdsNext, Daemon
    <2> QED
      BY <1>1, <2>3 DEF IdsInv, AbsorbInv
  <1>2. IdsInv /\ [IdsNext]_vars =>
          [stored' # stored /\ stored # NoBaseline /\ crashes' = crashes
             => \/ Info \in findings \cup announced
                \/ \A p \in Paths \ Large :
                     stored'[p] # stored[p] => <<p, stored'[p]>> \in announced]_vars
    BY <1>1
  <1> QED
    BY <1>2, IdsInvHolds, PTL DEF IdsSpec, AbsorbsOnlyReported
=============================================================================
