------------------------------- MODULE Packages -------------------------------
(***************************************************************************)
(* zrpkg (src/pkg-manager/src): a repository that publishes releases, the   *)
(* record of what is installed, the files under the install root, and runs  *)
(* of `zrpkg install` and `zrpkg remove`, any number of them at once since  *)
(* nothing locks the root and the panel starts one per press of a button.   *)
(*                                                                          *)
(* A release is a manifest together with the archive its signature is of.   *)
(* A file is a path below the root and holds what one release put there;    *)
(* directories, which are removed only when they are empty, are left out.   *)
(* A run that fails, is killed or loses power leaves what it had done: the   *)
(* record is replaced by a rename, never written half.                      *)
(***************************************************************************)
EXTENDS Naturals, FiniteSetsExt, SequencesExt

CONSTANTS
    NumPackages,    \* packages are numbered in the order of their names
    Releases,       \* everything the repository may ever publish
    Misfiled,       \* packages whose place another one's release may be in
    Requests,       \* the argument lists of `zrpkg install`
    Zrpkgs,         \* bound: runs at the same time
    MaxRuns,        \* bound: runs started
    MaxRounds,      \* MAX_RESOLUTION_ROUNDS
    RefusesDelete   \* whether a file may turn out not to be deletable

Names == 1..NumPackages
\* safe_relative and safe_target let through no path but those below the root
Paths == UNION {r.files : r \in Releases}
None == [name |-> 0, version |-> 0, needs |-> <<>>, files |-> {}]

\* what a file holds of which only a part was written
Fragment(r) == [None EXCEPT !.name = r.name]
Contents == Releases \cup {None} \cup {Fragment(r) : r \in Releases}

ASSUME PackagesAssumption ==
    /\ NumPackages \in Nat /\ MaxRuns \in Nat /\ MaxRounds \in Nat
    /\ \A r \in Releases : r.name \in Names /\ r.version \in Nat \ {0}
                           /\ r.needs \in Seq(Names)
    /\ Requests \subseteq Seq(Names)
    /\ RefusesDelete \in BOOLEAN

VARIABLES
    repo,       \* package -> the release in its place, None if there is none
    db,         \* package -> the release recorded as installed, or None
    files,      \* path -> the release it came from, in whole or in part, or None
    job,        \* what each run of zrpkg is doing
    runs,
    (* history *)
    clash,      \* packages two runs were unpacking or removing at once
    unguarded,  \* packages removed by force, or beside an install
    partial,    \* packages left with files missing or replaced
    loose,      \* packages with an install cut short, or a file left in place
    dropped     \* packages whose new release lacks a file of the old one

history == <<clash, unguarded, partial, loose, dropped>>
vars == <<repo, db, files, job, runs, history>>

\* known: the manifests fetched; path: the packages marked InProgress, each one
\* visited for the one before it; order: the ones that are Done
Idle == [at |-> "idle", roots |-> <<>>, known |-> [n \in Names |-> None],
         wanted |-> {}, rounds |-> 0, path |-> <<>>, order |-> <<>>,
         plan |-> <<>>, left |-> {}]

Init ==
    /\ repo \in [Names -> Releases \cup {None}]
    /\ \A n \in Names : repo[n] # None => repo[n].version = 1
                                          /\ (repo[n].name = n \/ n \in Misfiled)
    /\ db = [n \in Names |-> None]
    /\ files = [f \in Paths |-> None]
    /\ job = [z \in Zrpkgs |-> Idle]
    /\ runs = 0
    /\ clash = {} /\ unguarded = {} /\ partial = {} /\ loose = {} /\ dropped = {}

-----------------------------------------------------------------------------
(* Working out what to install.  Definitions the specification does not use, *)
(* such as VisitDependentFirst, are mistakes the properties must notice.     *)

NamesOf(known) == {n \in Names : known[n] # None}

\* undiscovered: every manifest known was reached from the roots
Undiscovered(roots, known) ==
    (Range(roots) \cup UNION {Range(known[n].needs) : n \in Names}) \ NamesOf(known)

CurrentInAnyVersion(r) == db[r.name] # None

AlreadyCurrent(r) == db[r.name] # None /\ db[r.name].version = r.version

\* check_signature: the signature in a manifest is of one archive, and that of
\* a release published since does not pass
Verified(r) == repo[r.name] = r

-----------------------------------------------------------------------------
(* The steps of a run.                                                      *)

At(z, label) == job[z].at = label
Busy == {z \in Zrpkgs : ~At(z, "idle")}
Installing(z) == job[z].at \in {"round", "fetch", "visit", "next", "unpack", "record"}
Removing(z) == job[z].at \in {"delete", "forget"}
Now(z) == Head(job[z].plan)

\* files of n are being written or deleted by z
WorkingOn(z, n) ==
    job[z].at \in {"unpack", "record", "delete", "forget"} /\ Now(z).name = n

Becomes(z, j) == job' = [job EXCEPT ![z] = j]

Clashes(z, n) ==
    clash' = IF \E y \in Zrpkgs \ {z} : WorkingOn(y, n) THEN clash \cup {n} ELSE clash

Install(z, roots) ==
    /\ At(z, "idle")
    /\ runs < MaxRuns
    /\ runs' = runs + 1
    /\ Becomes(z, [Idle EXCEPT !.at = "round", !.roots = roots])
    /\ unguarded' = unguarded \cup {Now(y).name : y \in {x \in Zrpkgs : Removing(x)}}
    /\ UNCHANGED <<repo, db, files, clash, partial, loose, dropped>>

\* collect_manifests: the head of its loop
Round(z) ==
    LET wanted == Undiscovered(job[z].roots, job[z].known)
    IN  /\ At(z, "round")
        /\ CASE job[z].rounds = MaxRounds -> Becomes(z, Idle)
             [] job[z].rounds # MaxRounds /\ wanted = {} ->
                  Becomes(z, [job[z] EXCEPT !.at = "visit"])
             [] OTHER ->
                  Becomes(z, [job[z] EXCEPT !.at = "fetch", !.wanted = wanted,
                                            !.rounds = @ + 1])
        /\ UNCHANGED <<repo, db, files, runs, history>>

FetchUnchecked(z) ==
    LET n == Min(job[z].wanted)
    IN  /\ At(z, "fetch")
        /\ IF repo[n] = None THEN Becomes(z, Idle)
           ELSE Becomes(z, [job[z] EXCEPT
                              !.at = IF job[z].wanted = {n} THEN "round" ELSE "fetch",
                              !.known = [@ EXCEPT ![n] = repo[n]],
                              !.wanted = @ \ {n}])
        /\ UNCHANGED <<repo, db, files, runs, history>>

\* fetch_manifest, which fails when the repository has no such package or
\* answers with the manifest of another
FetchManifest(z) ==
    LET n == Min(job[z].wanted)
    IN  /\ At(z, "fetch")
        /\ IF repo[n].name # n THEN Becomes(z, Idle)
           ELSE Becomes(z, [job[z] EXCEPT
                              !.at = IF job[z].wanted = {n} THEN "round" ELSE "fetch",
                              !.known = [@ EXCEPT ![n] = repo[n]],
                              !.wanted = @ \ {n}])
        /\ UNCHANGED <<repo, db, files, runs, history>>

\* The calls the innermost visit has to make, the loop over the roots when there
\* is none; the ones already Done return at once.
Calls(z) == IF job[z].path = <<>> THEN job[z].roots
            ELSE job[z].known[Last(job[z].path)].needs
ToVisit(z) == {i \in DOMAIN Calls(z) : Calls(z)[i] \notin Range(job[z].order)}

VisitDependentFirst(z) ==
    LET n == Calls(z)[Min(ToVisit(z))]
    IN  /\ At(z, "visit")
        /\ ToVisit(z) # {}
        /\ IF n \in Range(job[z].path) \/ job[z].known[n] = None
           THEN Becomes(z, Idle)
           ELSE Becomes(z, [job[z] EXCEPT !.path = Append(@, n), !.order = Append(@, n)])
        /\ UNCHANGED <<repo, db, files, runs, history>>

\* visit is entered: meeting a package InProgress is a cycle
Visit(z) ==
    LET n == Calls(z)[Min(ToVisit(z))]
    IN  /\ At(z, "visit")
        /\ ToVisit(z) # {}
        /\ IF n \in Range(job[z].path) \/ job[z].known[n] = None
           THEN Becomes(z, Idle)
           ELSE Becomes(z, [job[z] EXCEPT !.path = Append(@, n)])
        /\ UNCHANGED <<repo, db, files, runs, history>>

\* visit returns, everything its package needs being Done
Visited(z) ==
    /\ At(z, "visit")
    /\ ToVisit(z) = {}
    /\ job[z].path # <<>>
    /\ Becomes(z, [job[z] EXCEPT !.path = Front(@),
                                 !.order = Append(@, Last(job[z].path))])
    /\ UNCHANGED <<repo, db, files, runs, history>>

\* install_order returns
Order(z) ==
    /\ At(z, "visit")
    /\ ToVisit(z) = {}
    /\ job[z].path = <<>>
    /\ Becomes(z, [job[z] EXCEPT !.at = "next"])
    /\ UNCHANGED <<repo, db, files, runs, history>>

\* the filter takes out what is current, reading one record after another
Plan(z) ==
    LET r == job[z].known[Head(job[z].order)]
    IN  /\ At(z, "next")
        /\ job[z].order # <<>>
        /\ Becomes(z, [job[z] EXCEPT
                          !.order = Tail(@),
                          !.plan = IF AlreadyCurrent(r) THEN @ ELSE Append(@, r)])
        /\ UNCHANGED <<repo, db, files, runs, history>>

DownloadUnverified(z) ==
    /\ At(z, "next")
    /\ job[z].order = <<>>
    /\ job[z].plan # <<>>
    /\ Becomes(z, [job[z] EXCEPT !.at = "unpack", !.left = repo[Now(z).name].files])
    /\ Clashes(z, Now(z).name)
    /\ UNCHANGED <<repo, db, files, runs, unguarded, partial, loose, dropped>>

\* install_one up to the archive's first entry
Download(z) ==
    /\ At(z, "next")
    /\ job[z].order = <<>>
    /\ job[z].plan # <<>>
    /\ IF Verified(Now(z))
       THEN /\ Becomes(z, [job[z] EXCEPT !.at = "unpack", !.left = Now(z).files])
            /\ Clashes(z, Now(z).name)
       ELSE Becomes(z, Idle) /\ UNCHANGED clash
    /\ UNCHANGED <<repo, db, files, runs, unguarded, partial, loose, dropped>>

\* unpack_recording, an entry at a time, overwriting what is there
Unpack(z) ==
    /\ At(z, "unpack")
    /\ IF job[z].left = {}
       THEN Becomes(z, [job[z] EXCEPT !.at = "record"]) /\ UNCHANGED files
       ELSE LET f == CHOOSE g \in job[z].left : TRUE
            IN  /\ files' = [files EXCEPT ![f] = Now(z)]
                /\ Becomes(z, [job[z] EXCEPT !.left = @ \ {f}])
    /\ UNCHANGED <<repo, db, runs, history>>

\* Database::record.  Files only the release it replaces had are recorded no
\* longer.
Record(z) ==
    LET n == Now(z).name
    IN  /\ At(z, "record")
        /\ db' = [db EXCEPT ![n] = Now(z)]
        /\ Becomes(z, [job[z] EXCEPT !.at = "next", !.plan = Tail(@)])
        /\ partial' = partial \ {n}
        /\ dropped' = IF db[n].files \subseteq Now(z).files THEN dropped
                                                             ELSE dropped \cup {n}
        /\ UNCHANGED <<repo, files, runs, clash, unguarded, loose>>

Completes(z) ==
    /\ At(z, "next")
    /\ job[z].order = <<>>
    /\ job[z].plan = <<>>
    /\ Becomes(z, Idle)
    /\ UNCHANGED <<repo, db, files, runs, history>>

Dependents(n) == {p \in Names : n \in Range(db[p].needs)}

\* remove_package: what has to hold before anything is deleted
RemovePackage(z, n, force) ==
    /\ At(z, "idle")
    /\ runs < MaxRuns
    /\ db[n] # None
    /\ Dependents(n) = {} \/ force
    /\ runs' = runs + 1
    /\ Becomes(z, [Idle EXCEPT !.at = "delete", !.plan = <<db[n]>>,
                               !.left = db[n].files])
    /\ Clashes(z, n)
    /\ unguarded' = IF force \/ \E y \in Zrpkgs : Installing(y)
                    THEN unguarded \cup {n} ELSE unguarded
    /\ UNCHANGED <<repo, db, files, partial, loose, dropped>>

DeleteFirstOnly(z) ==
    /\ At(z, "delete")
    /\ job[z].left # {}
    /\ files' = [files EXCEPT ![CHOOSE f \in job[z].left : TRUE] = None]
    /\ Becomes(z, [job[z] EXCEPT !.left = {}, !.at = "forget"])
    /\ UNCHANGED <<repo, db, runs, history>>

\* the loop over the recorded paths: one that will not go is left in place
Delete(z) ==
    /\ At(z, "delete")
    /\ IF job[z].left = {}
       THEN Becomes(z, [job[z] EXCEPT !.at = "forget"]) /\ UNCHANGED <<files, loose>>
       ELSE LET f == CHOOSE g \in job[z].left : TRUE
            IN  /\ Becomes(z, [job[z] EXCEPT !.left = @ \ {f}])
                /\ \/ files' = [files EXCEPT ![f] = None] /\ UNCHANGED loose
                   \/ /\ RefusesDelete
                      /\ loose' = loose \cup {Now(z).name}
                      /\ UNCHANGED files
    /\ UNCHANGED <<repo, db, runs, clash, unguarded, partial, dropped>>

\* Database::forget
Forget(z) ==
    LET n == Now(z).name
    IN  /\ At(z, "forget")
        /\ db' = [db EXCEPT ![n] = None]
        /\ Becomes(z, Idle)
        /\ partial' = partial \ {n}
        /\ UNCHANGED <<repo, files, runs, clash, unguarded, loose, dropped>>

\* A download, a write or the process fails, or the power does.  The entry at hand
\* may be written in part, or what it replaces just be gone; files have been
\* touched from then, or from the first one deleted, on.
Interrupted(z) ==
    LET n == Now(z).name
        f == CHOOSE g \in job[z].left : TRUE
        touched == \/ job[z].at \in {"record", "forget"}
                   \/ /\ job[z].at \in {"unpack", "delete"}
                      /\ job[z].left # Now(z).files
                   \/ files' # files
    IN  /\ ~At(z, "idle")
        /\ Becomes(z, Idle)
        /\ \/ files' = files
           \/ /\ At(z, "unpack") /\ job[z].left # {}
              /\ \E c \in {None, Fragment(Now(z))} : files' = [files EXCEPT ![f] = c]
        /\ partial' = IF touched THEN partial \cup {n} ELSE partial
        /\ loose' = IF touched /\ Installing(z) THEN loose \cup {n} ELSE loose
        /\ UNCHANGED <<repo, db, runs, clash, unguarded, dropped>>

\* the repository publishes the next release of a package
Publish(r) ==
    /\ r.version = repo[r.name].version + 1
    /\ repo' = [repo EXCEPT ![r.name] = r]
    /\ UNCHANGED <<db, files, job, runs, history>>

Step(z) ==
    \/ Round(z) \/ FetchManifest(z) \/ Visit(z) \/ Visited(z) \/ Order(z)
    \/ Plan(z) \/ Download(z) \/ Unpack(z) \/ Record(z) \/ Completes(z)
    \/ Delete(z) \/ Forget(z)

Next ==
    \/ \E z \in Zrpkgs :
        \/ \E roots \in Requests : Install(z, roots)
        \/ \E n \in Names, force \in BOOLEAN : RemovePackage(z, n, force)
        \/ Step(z)
        \/ Interrupted(z)
    \/ \E r \in Releases : Publish(r)

Spec == Init /\ [][Next]_vars

-----------------------------------------------------------------------------
(* Properties.                                                              *)

Jobs ==
    [at : {"idle", "round", "fetch", "visit", "next", "unpack", "record",
           "delete", "forget"},
     roots : Requests \cup {<<>>},
     known : [Names -> Releases \cup {None}],
     wanted : SUBSET Names,
     rounds : 0..MaxRounds,
     path : Seq(Names), order : Seq(Names),
     plan : Seq(Releases),
     left : SUBSET Paths]

\* Every variable holds a value of its kind; in particular a manifest, a plan
\* and a record name the package they are kept for.
PackagesTypeOK ==
    /\ repo \in [Names -> Releases \cup {None}]
    /\ db \in [Names -> Releases \cup {None}]
    /\ files \in [Paths -> Contents]
    /\ job \in [Zrpkgs -> Jobs]
    /\ \A n \in Names : db[n] # None => db[n].name = n
    /\ \A z \in Zrpkgs, n \in Names :
          job[z].known[n] # None => job[z].known[n].name = n
    /\ runs \in 0..MaxRuns
    /\ clash \cup unguarded \cup partial \cup loose \cup dropped
           \subseteq Names

\* Whatever is installed has what it needs installed beside it, however
\* installs fail half way, run at the same time, or meet a repository that
\* changes under them.  Only removals that were forced, or that ran beside an
\* install, can break this.
DependenciesInstalled ==
    \A n \in Names : \A d \in Range(db[n].needs) : db[d] # None \/ d \in unguarded

\* A package comes after everything it needs.
Ordered(order, known) ==
    \A i \in DOMAIN order : \A d \in Range(known[order[i]].needs) :
        \E j \in 1..(i - 1) : order[j] = d

\* install_order returns everything that was looked up, once, and each package
\* after everything it needs.
OrderIsRight ==
    [][\A z \in Zrpkgs : Order(z) =>
         /\ Range(job[z].order) = NamesOf(job[z].known)
         /\ IsInjective(job[z].order)
         /\ Ordered(job[z].order, job[z].known)]_vars

InHand(n) == \E z \in Zrpkgs : WorkingOn(z, n)

\* paths that releases of different packages both ship: nothing looks for that,
\* and whoever comes last overwrites or deletes the other's file
Contested == {f \in Paths : \E r, s \in Releases :
                                r.name # s.name /\ f \in r.files \cap s.files}

\* The files of a recorded package are there and are those of the recorded
\* release, unless a run on it was cut short (until it is removed or installed
\* again), two runs worked on it at once or another package ships the file too.
RecordedIsThere ==
    \A n \in Names : \A f \in db[n].files \ Contested :
        files[f] = db[n] \/ InHand(n) \/ n \in partial \cup clash

\* Every file is one its package is recorded to have, so that a removal will
\* find it, unless an install of the package was cut short, a removal left it in
\* place, or a new release dropped it.
NothingLoose ==
    \A f \in Paths :
        files[f] # None =>
            LET n == files[f].name
            IN  f \in db[n].files \/ InHand(n) \/ n \in loose \cup dropped \cup clash

\* An install that says it is done has looked up everything it was asked for and
\* everything any of that needs, and has installed all of it, in the release it
\* looked up or, when another run did it meanwhile, a later one.
CompletedMeansInstalled ==
    [][\A z \in Zrpkgs : Completes(z) =>
         /\ Undiscovered(job[z].roots, job[z].known) = {}
         /\ \A n \in NamesOf(job[z].known) :
               db[n].version >= job[z].known[n].version \/ n \in unguarded \cup clash]_vars

-----------------------------------------------------------------------------
(* What the documents say and the code does not do.                         *)

\* README.md:326: `zrpkg remove` deletes exactly what was installed.  No
\* file is left of a package that is gone and that nothing ever interrupted.
RemovesWhatItInstalled ==
    \A f \in Paths :
        files[f] # None =>
            LET n == files[f].name
            IN  db[n] # None \/ InHand(n) \/ n \in loose \cup clash
=============================================================================
