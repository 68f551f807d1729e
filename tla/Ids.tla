---------------------------------- MODULE Ids ----------------------------------
(***************************************************************************)
(* The intrusion detection daemon, src/tools/cmd/vakt-ids: it compares the  *)
(* files it watches with a baseline, alerts what differs, and saves what it *)
(* saw as the next baseline (src/tools/internal/durable).  The daemon may   *)
(* die anywhere and be started again, and power may be cut anywhere; the    *)
(* baseline is on disk, under the directory that is watched, and the alerts *)
(* are in memory, under /run.                                               *)
(*                                                                          *)
(* A file's data stands for its content and the time it was written; a      *)
(* change keeps the size, the case a hash is needed for.                    *)
(***************************************************************************)
EXTENDS Integers, FiniteSets

CONSTANTS
    Files,          \* the files that are watched
    Large,          \* those of them that are longer than maxHashBytes
    Temp,           \* baseline.json.tmp, in the watched directory as well
    Data, Modes,    \* what a file may hold, and its permissions
    Shipped,        \* what every file is at first
    Absent,         \* no such file
    SameSize,       \* what stands in for the hash of a large file
    Info,           \* the alert that a baseline was established
    NoBaseline,     \* no baseline in memory, or no usable file on disk
    MaxAlertLines,  \* maxAlertLines
    MaxChanges,     \* bound: changes of the watched files
    MaxFaults       \* bound: crashes, power cuts, unreadable files, failed writes

ASSUME IdsAssumption ==
    /\ Large \subseteq Files
    /\ Temp \notin Files
    /\ Info \notin Files \cup {Temp}
    /\ Shipped \in [data : Data, mode : Modes]
    /\ MaxAlertLines \in Nat \ {0}
    /\ MaxChanges \in Nat
    /\ MaxFaults \in Nat

VARIABLES
    tree,           \* the watched files
    temp,           \* the temporary file: Absent, "opened", "written" or "synced"
    stored,         \* what the baseline's path names
    reach,          \* what a power cut may leave there
    pc,             \* the next step of the daemon
    base,           \* the baseline in memory
    current,        \* what the scan under way has seen
    todo,           \* the paths it has not come to
    findings,       \* alerts that are still to be raised
    lines,          \* the length of the alert file
    changes, faults,
    announced,      \* history: alerts since the stored baseline took effect
    told,           \* history: the last state of each path that was alerted
    repeats,        \* history: how often it was alerted as it already had been
    crashes,        \* history: how often the daemon died
    saved           \* history: a save has succeeded

diskVars == <<temp, stored, reach, saved>>
scanVars == <<base, current, todo, findings>>
alertVars == <<lines, announced, told, repeats>>
worldVars == <<tree, changes, crashes>>
vars == <<diskVars, scanVars, alertVars, worldVars, pc, faults>>

-----------------------------------------------------------------------------
Paths == Files \cup {Temp}
Contents == [data : Data, mode : Modes] \cup {Absent}
Nothing == [p \in Paths |-> Absent]

\* Entry as scan records it: the hash stands for the size as well.
Entry(p, file) ==
    IF file = Absent THEN Absent
    ELSE [hash |-> IF p \in Large THEN SameSize ELSE file.data,
          mtime |-> file.data, mode |-> file.mode]

Leftover == [hash |-> SameSize, mtime |-> SameSize, mode |-> SameSize]

\* What a baseline may have of a path: a temporary file is only ever empty or
\* a whole baseline, and nothing tells it from another.
Entries(p) ==
    IF p = Temp THEN {Absent, Leftover} ELSE {Entry(p, file) : file \in Contents}
Baselines ==
    {b \in [Paths -> UNION {Entries(p) : p \in Paths}] :
        \A p \in Paths : b[p] \in Entries(p)}

ASSUME NoBaselineAssumption == NoBaseline \notin Baselines

\* What scan makes of a path: only the baseline itself is skipped.
Seen(p) ==
    IF p # Temp THEN Entry(p, tree[p])
    ELSE IF temp = Absent THEN Absent ELSE Leftover

FindingsByHash(old, new) ==
    {p \in Paths : \/ (old[p] = Absent) # (new[p] = Absent)
                   \/ /\ old[p] # Absent /\ new[p] # Absent
                      /\ old[p].hash # new[p].hash}

\* diff: ADDED, DELETED, MODIFIED and PERMISSIONS.
Findings(old, new) ==
    {p \in Paths : \/ (old[p] = Absent) # (new[p] = Absent)
                   \/ /\ old[p] # Absent /\ new[p] # Absent
                      /\ \/ old[p].hash # new[p].hash
                         \/ old[p].mode # new[p].mode}

\* Something goes wrong, within the bound.
Fault == faults < MaxFaults /\ faults' = faults + 1

-----------------------------------------------------------------------------
IdsInit ==
    /\ tree = [f \in Files |-> Shipped]
    /\ temp = Absent /\ stored = NoBaseline /\ reach = {NoBaseline} /\ saved = FALSE
    /\ pc = "load" /\ base = NoBaseline /\ current = Nothing
    /\ todo = {} /\ findings = {}
    /\ lines = 0 /\ announced = {} /\ told = Nothing
    /\ repeats = [p \in Paths |-> 0]
    /\ changes = 0 /\ crashes = 0 /\ faults = 0

\* A watched file is added, changed or removed.
Change ==
    /\ changes < MaxChanges
    /\ changes' = changes + 1
    /\ \E f \in Files, file \in Contents : tree' = [tree EXCEPT ![f] = file]
    /\ tree' # tree
    /\ UNCHANGED <<diskVars, scanVars, alertVars, crashes, pc, faults>>

\* The daemon dies, and vakt-init starts it again.
Dies ==
    /\ pc' = "load"
    /\ base' = NoBaseline /\ current' = Nothing /\ todo' = {} /\ findings' = {}
    /\ crashes' = crashes + 1

Crash ==
    /\ Fault
    /\ Dies
    /\ UNCHANGED <<diskVars, alertVars, tree, changes>>

\* A power cut takes /run with it, and anything not synced; of a save under
\* way the temporary file may be left.
PowerCut ==
    /\ Fault
    /\ Dies
    /\ stored' \in reach
    /\ reach' = {stored'}
    /\ temp' \in IF temp # Absent \/ Cardinality(reach) > 1
                 THEN {Absent, "written"} ELSE {Absent}
    /\ lines' = 0 /\ announced' = {}
    /\ UNCHANGED <<told, repeats, saved, tree, changes>>

-----------------------------------------------------------------------------
\* main: the stored baseline, or a fresh scan when there is none, and also
\* when it cannot be read.
Load ==
    /\ pc = "load"
    /\ \/ base' = stored /\ faults' = faults
       \/ stored # NoBaseline /\ base' = NoBaseline /\ Fault
    /\ IF base' = NoBaseline
       THEN pc' = "scan" /\ todo' = Paths
       ELSE pc' = "sleep" /\ todo' = {}
    /\ UNCHANGED <<diskVars, alertVars, worldVars, current, findings>>

\* The interval is over.
Wake ==
    /\ pc = "sleep"
    /\ pc' = "scan" /\ todo' = Paths
    /\ UNCHANGED <<diskVars, alertVars, worldVars, base, current, findings, faults>>

\* scan comes to the next path, in an order that is always the same; a file
\* that cannot be read is left out.
Visit ==
    /\ pc = "scan" /\ todo # {}
    /\ LET p == CHOOSE q \in todo : TRUE
       IN  /\ todo' = todo \ {p}
           /\ \/ current' = [current EXCEPT ![p] = Seen(p)] /\ faults' = faults
              \/ Seen(p) # Absent /\ current' = current /\ Fault
    /\ UNCHANGED <<diskVars, alertVars, worldVars, base, findings, pc>>

\* A scan is over and the daemon has nothing left to do.
Sleeps == pc' = "sleep" /\ current' = Nothing

ScannedSavesFirst ==
    /\ pc = "scan" /\ todo = {}
    /\ findings' = IF base = NoBaseline THEN {Info} ELSE Findings(base, current)
    /\ IF findings' = {} THEN Sleeps /\ base' = base
       ELSE pc' = "open" /\ base' = current /\ UNCHANGED current
    /\ UNCHANGED <<diskVars, alertVars, worldVars, todo, faults>>

\* The scan is over.  A fresh one is the baseline; a later one is compared.
Scanned ==
    /\ pc = "scan" /\ todo = {}
    /\ IF base = NoBaseline
       THEN pc' = "open" /\ base' = current /\ findings' = {Info} /\ UNCHANGED current
       ELSE /\ findings' = Findings(base, current)
            /\ IF findings' = {} THEN Sleeps ELSE pc' = "report" /\ UNCHANGED current
            /\ base' = base
    /\ UNCHANGED <<diskVars, alertVars, worldVars, todo, faults>>

\* p has been alerted as the scan saw it.
Tells(p) ==
    /\ announced' = announced \cup {<<p, current[p]>>}
    /\ told' = [told EXCEPT ![p] = current[p]]
    /\ repeats' = [repeats EXCEPT ![p] = @ + (IF told[p] = current[p] THEN 1 ELSE 0)]

\* A fresh baseline has been announced, all of it at once; that is part of the
\* history for as long as the baseline did not get to the disk.
TellsInfo ==
    /\ announced' = IF stored = base THEN announced ELSE announced \cup {Info}
    /\ told' = current
    /\ repeats' = repeats

AlertUntrimmed ==
    /\ pc = "report"
    /\ \E p \in findings :
        /\ findings' = findings \ {p}
        /\ IF p = Info THEN TellsInfo ELSE Tells(p)
    /\ lines' = lines + 1
    /\ UNCHANGED <<diskVars, worldVars, base, current, todo, pc, faults>>

\* alert: a line on stdout, one in the alert file, and the webhook, which may
\* fail; trimAlerts then finds the file too long or does nothing.
Alert ==
    /\ pc = "report"
    /\ \E p \in findings :
        /\ findings' = findings \ {p}
        /\ IF p = Info THEN TellsInfo ELSE Tells(p)
    /\ \/ lines' = lines + 1 /\ faults' = faults
       \/ lines' = lines /\ Fault
    /\ pc' = IF lines' > MaxAlertLines /\ lines' # lines THEN "trim" ELSE "report"
    /\ UNCHANGED <<diskVars, worldVars, base, current, todo>>

\* trimAlerts: os.WriteFile empties the file, and then writes what is kept.
Trim ==
    /\ \/ pc = "trim" /\ pc' = "rewrite" /\ lines' = 0
       \/ pc = "rewrite" /\ pc' = "report" /\ lines' = MaxAlertLines
    /\ UNCHANGED <<diskVars, scanVars, worldVars, announced, told, repeats, faults>>

ReportedOnly ==
    /\ pc = "report" /\ findings = {}
    /\ Sleeps
    /\ UNCHANGED <<diskVars, alertVars, worldVars, base, todo, findings, faults>>

\* Every finding was alerted: what the scan saw is the baseline from now on.
Reported ==
    /\ pc = "report" /\ findings = {}
    /\ IF base = current THEN Sleeps ELSE pc' = "open" /\ UNCHANGED current
    /\ base' = current
    /\ UNCHANGED <<diskVars, alertVars, worldVars, todo, findings, faults>>

-----------------------------------------------------------------------------
\* The save is over, and a failed one is only logged.  A fresh baseline is
\* announced after it.
SaveEnds ==
    IF findings = {} THEN Sleeps ELSE pc' = "report" /\ UNCHANGED current

\* WriteFile gives up at a step, with or without a temporary file to remove.
Fails ==
    /\ Fault
    /\ SaveEnds
    /\ temp' \in IF pc = "open" THEN {temp, Absent} ELSE {Absent}
    /\ UNCHANGED <<stored, reach, saved>>

Open ==
    /\ pc = "open"
    /\ \/ /\ temp' = "opened" /\ pc' = "write"
          /\ UNCHANGED <<stored, reach, saved, current, faults>>
       \/ Fails
    /\ UNCHANGED <<alertVars, worldVars, base, todo, findings>>

Write ==
    /\ pc = "write"
    /\ \/ /\ temp' = "written" /\ pc' = "sync"
          /\ UNCHANGED <<stored, reach, saved, current, faults>>
       \/ Fails
    /\ UNCHANGED <<alertVars, worldVars, base, todo, findings>>

SyncSkipped ==
    /\ pc = "sync" /\ pc' = "rename"
    /\ UNCHANGED <<diskVars, alertVars, worldVars, scanVars, faults>>

Sync ==
    /\ pc = "sync"
    /\ \/ /\ temp' = "synced" /\ pc' = "rename"
          /\ UNCHANGED <<stored, reach, saved, current, faults>>
       \/ Fails
    /\ UNCHANGED <<alertVars, worldVars, base, todo, findings>>

\* The temporary file takes the baseline's name, and a power cut may or may
\* not keep that; unsynced data need not be behind the name.
Rename ==
    /\ pc = "rename"
    /\ \/ /\ stored' = base
          /\ reach' = reach \cup {base}
                        \cup (IF temp = "synced" THEN {} ELSE {NoBaseline})
          /\ temp' = Absent
          /\ announced' = {}
          /\ pc' = "syncdir"
          /\ UNCHANGED <<saved, current, faults>>
       \/ Fails /\ UNCHANGED announced
    /\ UNCHANGED <<lines, told, repeats, worldVars, base, todo, findings>>

\* The directory is synced, which settles the name.
SyncDir ==
    /\ pc = "syncdir"
    /\ \/ /\ reach' = {base}
          /\ saved' = TRUE
          /\ SaveEnds
          /\ UNCHANGED <<temp, stored, faults>>
       \/ Fails
    /\ UNCHANGED <<alertVars, worldVars, base, todo, findings>>

-----------------------------------------------------------------------------
Daemon ==
    \/ Load \/ Wake \/ Visit
    \/ Scanned \/ Alert \/ Trim \/ Reported
    \/ Open \/ Write \/ Sync \/ Rename \/ SyncDir

IdsNext == Daemon \/ Change \/ Crash \/ PowerCut

IdsSpec == IdsInit /\ [][IdsNext]_vars

\* The daemon runs, and is started again when it dies.
FairIdsSpec == IdsSpec /\ WF_vars(Daemon)

-----------------------------------------------------------------------------
\* Every variable has its type; the alert file is one line too long while it
\* waits to be trimmed, and a crash then leaves it so until the next alert.
IdsTypeOK ==
    /\ tree \in [Files -> Contents]
    /\ temp \in {Absent, "opened", "written", "synced"}
    /\ stored \in reach
    /\ reach \subseteq Baselines \cup {NoBaseline}
    /\ saved \in BOOLEAN
    /\ pc \in {"load", "sleep", "scan", "report", "trim", "rewrite",
              "open", "write", "sync", "rename", "syncdir"}
    /\ base \in Baselines \cup {NoBaseline}
    /\ current \in Baselines
    /\ todo \subseteq Paths
    /\ findings \subseteq Paths \cup {Info}
    /\ told \in Baselines
    /\ repeats \in [Paths -> Nat]
    /\ crashes \in 0..MaxFaults
    /\ faults \in crashes..MaxFaults
    /\ lines \in 0..(MaxAlertLines + 1 + crashes)

\* Unless it announces a fresh baseline, or did and could not save it, the
\* daemon saves none that has a difference from the stored one it did not alert
\* since that one was saved: an alert may come twice, but what it needs to raise
\* it is not forgotten first (runScan, main.go:167-175).
AbsorbsOnlyReported ==
    [][stored' # stored /\ stored # NoBaseline /\ crashes' = crashes
        => \/ Info \in findings \cup announced
           \/ \A p \in Paths \ Large :
                stored'[p] # stored[p] => <<p, stored'[p]>> \in announced]_vars

\* Once a save has succeeded, no crash and no power cut leaves the daemon
\* without a baseline (saveBaseline, main.go:310-311: "a baseline lost to a
\* power cut is an IDS that cannot tell tampering from its own amnesia").
BaselineSurvives == saved => NoBaseline \notin reach

\* Once a save has succeeded, the daemon takes no fresh baseline any more, which
\* would absorb what it never reported (main.go:115-119).
NeverForgets == saved /\ pc = "scan" => base # NoBaseline

\* A change is alerted once, and again only when the daemon died before the
\* baseline that has it was on disk: once more for each time (runScan,
\* main.go:154-155, "each change is reported once rather than forever").
RepeatsBounded == \A p \in Paths : repeats[p] <= crashes

\* When the files stay as they are, the baseline comes to agree with them,
\* although scans and saves fail, the daemon dies, and it sees its own
\* temporary file (runScan).
Converges ==
    <>[](base # NoBaseline /\ \A p \in Files \ Large : base[p] = Seen(p))

\* A scan that reports nothing saw each large file with the size and the time
\* the baseline has of it (main.go:30-31, "tracked by size and mtime only").
LargeFilesTracked ==
    [][pc = "scan" /\ pc' = "sleep" => \A p \in Large : current[p] = base[p]]_vars

\* Once a baseline is there, nothing but watched files is ever alerted
\* (main.go:219-220, "skipping the baseline itself so writing state never looks
\* like tampering").
OwnStateIsSilent == Temp \notin findings
=============================================================================
