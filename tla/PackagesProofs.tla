---------------------------- MODULE PackagesProofs ----------------------------
(***************************************************************************)
(* Proofs about Packages for every repository, number of runs and request. *)
(***************************************************************************)
EXTENDS Packages, WellFoundedInduction, TLAPS

Unpacking(z) == job[z].at \in {"unpack", "record"}
Working(z) == Unpacking(z) \/ Removing(z)

\* What a run keeps goes with how far it is.
JobOK(j) ==
    /\ j \in Jobs
    /\ \A n \in Names : j.known[n] # None => j.known[n].name = n
    /\ j.at = "fetch" => j.wanted # {}
    /\ j.at \in {"unpack", "record", "delete", "forget"} =>
          j.plan # <<>> /\ j.left \subseteq Head(j.plan).files
    /\ j.at \in {"record", "forget"} => j.left = {}
    /\ j.at \in {"unpack", "record"} => j.order = <<>>
    /\ j.at \in {"round", "fetch", "visit"} => j.plan = <<>>
    /\ j.at \in {"round", "fetch"} => j.order = <<>> /\ j.path = <<>>
    /\ Range(j.path) \cup Range(j.order) \subseteq NamesOf(j.known)

TypeInv == PackagesTypeOK /\ \A z \in Zrpkgs : JobOK(job[z])

-----------------------------------------------------------------------------

Has(d) == db[d] # None \/ d \in unguarded

\* Whoever removes a package while another run installs is in `unguarded`; if
\* it is not, nothing installed needs the package.
Guarded ==
    /\ \A y, z \in Zrpkgs : Removing(y) /\ Installing(z) => Now(y).name \in unguarded
    /\ \A y \in Zrpkgs : Removing(y) =>
          Now(y).name \in unguarded \/ Dependents(Now(y).name) = {}

\* A package Done comes after everything it needs.
Visiting(z) == job[z].at = "visit" => Ordered(job[z].order, job[z].known)

\* What is still to be planned needs what comes before it, is planned, or there.
Planning(z) ==
    job[z].at = "next" =>
        \A i \in DOMAIN job[z].order : \A d \in Range(job[z].known[job[z].order[i]].needs) :
            \/ \E j \in 1..(i - 1) : job[z].order[j] = d
            \/ \E k \in DOMAIN job[z].plan : job[z].plan[k].name = d
            \/ Has(d)

\* What is planned needs what comes before it or is there.
Planned(z) ==
    Installing(z) =>
        \A i \in DOMAIN job[z].plan : \A d \in Range(job[z].plan[i].needs) :
            (\E j \in 1..(i - 1) : job[z].plan[j].name = d) \/ Has(d)

DependencyInv ==
    /\ Guarded
    /\ DependenciesInstalled
    /\ \A z \in Zrpkgs : Visiting(z) /\ Planning(z) /\ Planned(z)

-----------------------------------------------------------------------------

\* Two runs never work on one package unnoticed.
ClashSeen ==
    \A y, z \in Zrpkgs, n \in Names :
        y # z /\ WorkingOn(y, n) /\ WorkingOn(z, n) => n \in clash

\* What is recorded, or about to be, is not newer than what is published, and
\* what is about to be recorded is not older than what it replaces.
NoDowngrade ==
    /\ \A n \in Names : db[n].version <= repo[n].version
    /\ \A z \in Zrpkgs : Unpacking(z) =>
          /\ Now(z).version <= repo[Now(z).name].version
          /\ db[Now(z).name].version <= Now(z).version \/ Now(z).name \in clash

\* A set that is closed under what its packages need.
ClosedUnder(S, known) == \A n \in S : Range(known[n].needs) \subseteq S

\* Everything looked up is reached from the roots, and so is what is asked next.
FromRoots(roots, known) ==
    \A S \in SUBSET Names :
        Range(roots) \subseteq S /\ ClosedUnder(S, known) => NamesOf(known) \subseteq S

AskedNext(roots, known, wanted) ==
    /\ wanted \subseteq Range(roots) \cup UNION {Range(known[n].needs) : n \in Names}
    /\ wanted \cap NamesOf(known) = {}

\* the manifests are all fetched
Searched(z) == job[z].at \in {"visit", "next", "unpack", "record"}

Reached(z) ==
    /\ Installing(z) => FromRoots(job[z].roots, job[z].known)
    /\ job[z].at = "fetch" => AskedNext(job[z].roots, job[z].known, job[z].wanted)
    /\ Searched(z) => Undiscovered(job[z].roots, job[z].known) = {}

AtLeast(n, v) == db[n].version >= v \/ n \in unguarded \cup clash

\* Everything looked up is still to be planned, is planned, or is there.
Accounted(z) ==
    job[z].at \in {"next", "unpack", "record"} =>
        \A n \in NamesOf(job[z].known) :
            \/ n \in Range(job[z].order)
            \/ \E k \in DOMAIN job[z].plan : job[z].plan[k] = job[z].known[n]
            \/ AtLeast(n, job[z].known[n].version)

CompletionInv ==
    /\ ClashSeen
    /\ NoDowngrade
    /\ \A z \in Zrpkgs : Reached(z) /\ Accounted(z)

-----------------------------------------------------------------------------

\* What is recorded of n is there.
Intact(n) == \A f \in db[n].files \ Contested : files[f] = db[n]

\* What a run has done to the files of the package it works on.
Unpacked(z) ==
    Unpacking(z) =>
        LET r == Now(z) IN
        r.name \notin clash =>
            /\ \A f \in r.files \ (job[z].left \cup Contested) : files[f] = r
            /\ job[z].at = "unpack" /\ job[z].left = r.files /\ r.name \notin partial =>
                  Intact(r.name)

Deleted(z) ==
    Removing(z) =>
        LET r == Now(z) IN
        r.name \notin clash =>
            /\ db[r.name] = r
            /\ job[z].at = "delete" /\ job[z].left = r.files /\ r.name \notin partial =>
                  Intact(r.name)

\* the files n left behind that nobody is excused for
From(n) == {f \in Paths : files[f] # None /\ files[f].name = n}
Excused(n) == n \in loose \cup dropped \cup clash

Swept(z) ==
    Working(z) =>
        LET r == Now(z) IN
        ~Excused(r.name) =>
            From(r.name) \subseteq IF Removing(z) THEN job[z].left
                                   ELSE db[r.name].files \cup (r.files \ job[z].left)

FilesInv ==
    /\ RecordedIsThere
    /\ NothingLoose
    /\ \A z \in Zrpkgs : Unpacked(z) /\ Deleted(z) /\ Swept(z)

-----------------------------------------------------------------------------
(* Lemmas about sequences and minima.                                       *)

\* A nonempty set of numbers has its least among its elements.
LEMMA MinOfNats ==
    ASSUME NEW S \in SUBSET Nat, S # {}
    PROVE  Min(S) \in S
<1>1. PICK x \in S : \A y \in S : ~(<<y, x>> \in OpToRel(<, Nat))
  BY NatLessThanWellFounded, WFMin
<1>2. \A y \in S : ~(y < x)
  BY <1>1 DEF OpToRel
<1>3. \E y \in S : \A w \in S : y =< w
  BY <1>2
<1> QED  BY <1>3 DEF Min

LEMMA RangeOfAppend ==
    ASSUME NEW S, NEW s \in Seq(S), NEW e \in S
    PROVE  Range(Append(s, e)) = Range(s) \cup {e}
<1>1. \A x \in Range(s) \cup {e} : x \in Range(Append(s, e))
  <2>1. \A i \in DOMAIN s : i \in DOMAIN Append(s, e) /\ Append(s, e)[i] = s[i]
    OBVIOUS
  <2>2. Len(s) + 1 \in DOMAIN Append(s, e) /\ Append(s, e)[Len(s) + 1] = e
    OBVIOUS
  <2> QED  BY <2>1, <2>2 DEF Range
<1>2. \A i \in DOMAIN Append(s, e) : Append(s, e)[i] \in Range(s) \cup {e}
  <2> SUFFICES ASSUME NEW i \in DOMAIN Append(s, e)
               PROVE  Append(s, e)[i] \in Range(s) \cup {e}
    OBVIOUS
  <2>1. i \in DOMAIN s \/ i = Len(s) + 1
    OBVIOUS
  <2> QED  BY <2>1 DEF Range
<1> QED  BY <1>1, <1>2 DEF Range

LEMMA RangeOfTail ==
    ASSUME NEW S, NEW s \in Seq(S), s # <<>>
    PROVE  /\ Head(s) \in Range(s) /\ Head(s) \in S /\ Tail(s) \in Seq(S)
           /\ Range(s) = {Head(s)} \cup Range(Tail(s))
<1>1. 1 \in DOMAIN s /\ Head(s) = s[1] /\ Head(s) \in S /\ Tail(s) \in Seq(S)
  OBVIOUS
<1>2. \A i \in DOMAIN Tail(s) : i + 1 \in DOMAIN s /\ Tail(s)[i] = s[i + 1]
  OBVIOUS
<1>3. \A i \in DOMAIN s : i = 1 \/ (i - 1 \in DOMAIN Tail(s) /\ Tail(s)[i - 1] = s[i])
  OBVIOUS
<1>4. Range(Tail(s)) \subseteq Range(s)
  BY <1>2 DEF Range
<1>5. Range(s) \subseteq {Head(s)} \cup Range(Tail(s))
  BY <1>1, <1>3 DEF Range
<1> QED  BY <1>1, <1>4, <1>5 DEF Range

LEMMA RangeOfFront ==
    ASSUME NEW S, NEW s \in Seq(S), s # <<>>
    PROVE  /\ Last(s) \in Range(s) /\ Last(s) \in S /\ Front(s) \in Seq(S)
           /\ Range(Front(s)) \subseteq Range(s)
<1>1. Len(s) \in DOMAIN s /\ Last(s) \in S
  BY DEF Last
<1>2. Front(s) \in Seq(S) /\ \A i \in DOMAIN Front(s) : i \in DOMAIN s /\ Front(s)[i] = s[i]
  BY DEF Front
<1> QED  BY <1>1, <1>2 DEF Range, Last

-----------------------------------------------------------------------------
(* Types.                                                                   *)

\* What a release and the absence of one are made of.
LEMMA ReleaseTyped ==
    /\ None.name = 0 /\ None.version = 0 /\ None.needs = <<>> /\ None.files = {}
    /\ None \notin Releases
    /\ \A r \in Releases : /\ r.name \in Names /\ r.version \in Nat /\ r.version # 0
                           /\ r.needs \in Seq(Names) /\ r.files \subseteq Paths
    /\ Names \subseteq Nat /\ 0 \notin Names
  BY PackagesAssumption DEF None, Names, Paths

\* Part of a file is one of the same package, and there.
LEMMA FragmentName == \A s \in Releases : Fragment(s).name = s.name /\ Fragment(s) # None
  BY PackagesAssumption, ReleaseTyped DEF Fragment, None, Names

LEMMA ContentsName == \A c \in Contents : c # None => c.name \in Names
  BY ReleaseTyped, FragmentName DEF Contents

\* A run that has not begun is in order.
LEMMA IdleOK == JobOK(Idle)
<1>1. Idle \in Jobs
  BY PackagesAssumption DEF Idle, Jobs
<1>2. Range(<<>>) = {}
  BY DEF Range
<1> QED  BY <1>1, <1>2 DEF Idle, JobOK

\* A step that leaves its run in order, and what it writes well typed, keeps TypeInv.
LEMMA TypeStep ==
    ASSUME TypeInv, NEW z \in Zrpkgs, NEW j, JobOK(j), job' = [job EXCEPT ![z] = j],
           repo' = repo,
           db' \in [Names -> Releases \cup {None}],
           \A n \in Names : db'[n] # None => db'[n].name = n,
           files' \in [Paths -> Contents],
           runs' \in 0..MaxRuns,
           (clash \cup unguarded \cup partial \cup loose \cup dropped)' \subseteq Names
    PROVE  TypeInv'
<1>1. job' \in [Zrpkgs -> Jobs] /\ \A y \in Zrpkgs : JobOK(job'[y])
  BY DEF TypeInv, PackagesTypeOK, JobOK
<1> QED  BY <1>1 DEF TypeInv, PackagesTypeOK, JobOK

LEMMA RoundJob ==
    ASSUME TypeInv, NEW z \in Zrpkgs, Round(z)
    PROVE  \E j : JobOK(j) /\ Becomes(z, j)
<1>1. JobOK(job[z]) /\ job[z].at = "round"
  BY DEF Round, At, TypeInv
<1>. DEFINE wanted == Undiscovered(job[z].roots, job[z].known)
           fetching == [job[z] EXCEPT !.at = "fetch", !.wanted = wanted, !.rounds = @ + 1]
           visiting == [job[z] EXCEPT !.at = "visit"]
<1>2. wanted \subseteq Names
  <2>1. Range(job[z].roots) \subseteq Names
    BY <1>1, PackagesAssumption DEF JobOK, Jobs, Range
  <2>2. \A n \in Names : Range(job[z].known[n].needs) \subseteq Names
    BY <1>1, ReleaseTyped DEF JobOK, Jobs, Range
  <2> QED  BY <2>1, <2>2 DEF Undiscovered
<1>3. JobOK(visiting)
  BY <1>1 DEF JobOK, Jobs
<1>4. ASSUME wanted # {}, job[z].rounds # MaxRounds  PROVE JobOK(fetching)
  <2>1. job[z].rounds + 1 \in 0..MaxRounds
    BY <1>1, <1>4, PackagesAssumption DEF JobOK, Jobs
  <2> HIDE DEF wanted
  <2> QED  BY <1>1, <1>2, <1>4, <2>1 DEF JobOK, Jobs
<1>5. \/ Becomes(z, Idle)
      \/ wanted = {} /\ Becomes(z, visiting)
      \/ wanted # {} /\ job[z].rounds # MaxRounds /\ Becomes(z, fetching)
  BY DEF Round
<1> QED  BY <1>3, <1>4, <1>5, IdleOK

LEMMA FetchJob ==
    ASSUME TypeInv, NEW z \in Zrpkgs, FetchManifest(z)
    PROVE  \E j : JobOK(j) /\ Becomes(z, j)
<1>. DEFINE n == Min(job[z].wanted)
           next == [job[z] EXCEPT
                      !.at = IF job[z].wanted = {n} THEN "round" ELSE "fetch",
                      !.known = [@ EXCEPT ![n] = repo[n]],
                      !.wanted = @ \ {n}]
<1>1. JobOK(job[z]) /\ job[z].at = "fetch" /\ repo \in [Names -> Releases \cup {None}]
  BY DEF FetchManifest, At, TypeInv, PackagesTypeOK
<1>2. n \in job[z].wanted /\ n \in Names
  BY <1>1, MinOfNats, ReleaseTyped DEF JobOK, Jobs
<1>3. ASSUME repo[n].name = n  PROVE JobOK(next)
  <2> HIDE DEF n
  <2>1. next \in Jobs
    BY <1>1, <1>2 DEF JobOK, Jobs
  <2>2. /\ next.known = [job[z].known EXCEPT ![n] = repo[n]]
        /\ next.path = job[z].path /\ next.order = job[z].order
        /\ next.plan = job[z].plan /\ next.wanted = job[z].wanted \ {n}
        /\ next.at = IF job[z].wanted = {n} THEN "round" ELSE "fetch"
    BY <1>1 DEF JobOK, Jobs
  <2> HIDE DEF next
  <2>3. job[z].order = <<>> /\ job[z].path = <<>> /\ job[z].plan = <<>> /\ Range(<<>>) = {}
    BY <1>1 DEF JobOK, Range
  <2>4. \A m \in Names : next.known[m] # None => next.known[m].name = m
    BY <1>1, <1>2, <1>3, <2>2 DEF JobOK, Jobs
  <2> QED  BY <1>1, <1>2, <2>1, <2>2, <2>3, <2>4 DEF JobOK
<1> QED  BY <1>3, IdleOK DEF FetchManifest

\* What is visited next is the name of a package.
LEMMA CallsTyped ==
    ASSUME TypeInv, NEW z \in Zrpkgs
    PROVE  /\ Calls(z) \in Seq(Names)
           /\ ToVisit(z) # {} => /\ Min(ToVisit(z)) \in ToVisit(z)
                                /\ Calls(z)[Min(ToVisit(z))] \in Names
<1>1. JobOK(job[z])
  BY DEF TypeInv
<1>2. Calls(z) \in Seq(Names)
  <2>1. CASE job[z].path = <<>>
    BY <1>1, <2>1, PackagesAssumption DEF JobOK, Jobs, Calls
  <2>2. CASE job[z].path # <<>>
    <3>1. job[z].path \in Seq(Names) /\ job[z].known \in [Names -> Releases \cup {None}]
      BY <1>1 DEF JobOK, Jobs
    <3>2. Last(job[z].path) \in Names
      BY <3>1, <2>2, RangeOfFront
    <3>3. job[z].known[Last(job[z].path)].needs \in Seq(Names)
      <4>1. None.needs \in Seq(Names)
        BY ReleaseTyped
      <4> QED  BY <3>1, <3>2, <4>1, ReleaseTyped
    <3> QED  BY <2>2, <3>3 DEF Calls
  <2> QED  BY <2>1, <2>2
<1>3. ToVisit(z) \subseteq DOMAIN Calls(z) /\ ToVisit(z) \subseteq Nat
  BY <1>2 DEF ToVisit
<1> QED  BY <1>2, <1>3, MinOfNats

LEMMA VisitJob ==
    ASSUME TypeInv, NEW z \in Zrpkgs, Visit(z)
    PROVE  \E j : JobOK(j) /\ Becomes(z, j)
<1>. DEFINE n == Calls(z)[Min(ToVisit(z))]
           next == [job[z] EXCEPT !.path = Append(@, n)]
<1>1. JobOK(job[z]) /\ job[z].at = "visit" /\ n \in Names
  BY CallsTyped DEF Visit, At, TypeInv
<1>2. ASSUME job[z].known[n] # None  PROVE JobOK(next)
  <2> HIDE DEF n
  <2>1. job[z].path \in Seq(Names)
    BY <1>1 DEF JobOK, Jobs
  <2>2. /\ Append(job[z].path, n) \in Seq(Names)
        /\ Range(Append(job[z].path, n)) = Range(job[z].path) \cup {n}
    BY <1>1, <2>1, RangeOfAppend
  <2>3. next \in Jobs
    BY <1>1, <2>2 DEF JobOK, Jobs
  <2>4. /\ next.known = job[z].known /\ next.order = job[z].order /\ next.at = "visit"
        /\ next.path = Append(job[z].path, n) /\ next.plan = job[z].plan
    BY <1>1 DEF JobOK, Jobs
  <2> HIDE DEF next
  <2> QED  BY <1>1, <1>2, <2>2, <2>3, <2>4 DEF JobOK, NamesOf
<1> QED  BY <1>2, IdleOK DEF Visit

LEMMA VisitedJob ==
    ASSUME TypeInv, NEW z \in Zrpkgs, Visited(z)
    PROVE  \E j : JobOK(j) /\ Becomes(z, j)
<1>. DEFINE next == [job[z] EXCEPT !.path = Front(@),
                                  !.order = Append(@, Last(job[z].path))]
<1>1. JobOK(job[z]) /\ job[z].at = "visit" /\ job[z].path # <<>>
  BY DEF Visited, At, TypeInv
<1>2. /\ Last(job[z].path) \in Range(job[z].path) /\ Last(job[z].path) \in Names
      /\ Front(job[z].path) \in Seq(Names)
      /\ Range(Front(job[z].path)) \subseteq Range(job[z].path)
      /\ Append(job[z].order, Last(job[z].path)) \in Seq(Names)
      /\ Range(Append(job[z].order, Last(job[z].path)))
            = Range(job[z].order) \cup {Last(job[z].path)}
  BY <1>1, RangeOfFront, RangeOfAppend DEF JobOK, Jobs
<1>3. next \in Jobs
  BY <1>1, <1>2 DEF JobOK, Jobs
<1>4. /\ next.known = job[z].known /\ next.plan = job[z].plan /\ next.at = "visit"
      /\ next.path = Front(job[z].path)
      /\ next.order = Append(job[z].order, Last(job[z].path))
  BY <1>1 DEF JobOK, Jobs
<1>5. JobOK(next)
  <2> HIDE DEF next
  <2> QED  BY <1>1, <1>2, <1>3, <1>4 DEF JobOK
<1> QED  BY <1>5 DEF Visited

LEMMA OrderJob ==
    ASSUME TypeInv, NEW z \in Zrpkgs, Order(z)
    PROVE  \E j : JobOK(j) /\ Becomes(z, j)
<1>1. JobOK([job[z] EXCEPT !.at = "next"])
  BY DEF Order, At, TypeInv, JobOK, Jobs
<1> QED  BY <1>1 DEF Order

LEMMA PlanJob ==
    ASSUME TypeInv, NEW z \in Zrpkgs, Plan(z)
    PROVE  \E j : JobOK(j) /\ Becomes(z, j)
<1>. DEFINE r == job[z].known[Head(job[z].order)]
           next == [job[z] EXCEPT
                      !.order = Tail(@),
                      !.plan = IF AlreadyCurrent(r) THEN @ ELSE Append(@, r)]
<1>1. JobOK(job[z]) /\ job[z].at = "next" /\ job[z].order # <<>>
  BY DEF Plan, At, TypeInv
<1>2. /\ Tail(job[z].order) \in Seq(Names) /\ Head(job[z].order) \in Names
      /\ Range(Tail(job[z].order)) \subseteq Range(job[z].order)
      /\ Head(job[z].order) \in Range(job[z].order)
  BY <1>1, RangeOfTail DEF JobOK, Jobs
<1>3. r \in Releases
  BY <1>1, <1>2 DEF JobOK, Jobs, NamesOf
<1> HIDE DEF r
<1>4. next \in Jobs
  <2>1. (IF AlreadyCurrent(r) THEN job[z].plan ELSE Append(job[z].plan, r)) \in Seq(Releases)
    BY <1>1, <1>3 DEF JobOK, Jobs
  <2> QED  BY <1>1, <1>2, <2>1 DEF JobOK, Jobs
<1>5. /\ next.known = job[z].known /\ next.path = job[z].path /\ next.at = "next"
      /\ next.order = Tail(job[z].order)
  BY <1>1 DEF JobOK, Jobs
<1>6. JobOK(next)
  <2> HIDE DEF next
  <2> QED  BY <1>1, <1>2, <1>4, <1>5 DEF JobOK
<1> QED  BY <1>6 DEF Plan, r

LEMMA DownloadJob ==
    ASSUME TypeInv, NEW z \in Zrpkgs, Download(z)
    PROVE  \E j : JobOK(j) /\ Becomes(z, j)
<1>. DEFINE next == [job[z] EXCEPT !.at = "unpack", !.left = Now(z).files]
<1>1. JobOK(job[z]) /\ job[z].at = "next" /\ job[z].order = <<>> /\ job[z].plan # <<>>
  BY DEF Download, At, TypeInv
<1>2. Now(z) \in Releases /\ Now(z).files \subseteq Paths
  BY <1>1, ReleaseTyped DEF JobOK, Jobs, Now
<1>3. next \in Jobs
  BY <1>1, <1>2 DEF JobOK, Jobs
<1>4. JobOK(next)
  BY <1>1, <1>3 DEF JobOK, Jobs, Now
<1> QED  BY <1>4, IdleOK DEF Download

\* An archive has a next entry, and a run works on one package, until it is done.
LEMMA WorkingTyped ==
    ASSUME TypeInv, NEW z \in Zrpkgs,
           job[z].at \in {"unpack", "record", "delete", "forget"}
    PROVE  /\ JobOK(job[z]) /\ job[z].plan # <<>>
           /\ Now(z) \in Releases /\ Now(z).name \in Names
           /\ job[z].left \subseteq Now(z).files /\ job[z].left \subseteq Paths
           /\ WorkingOn(z, Now(z).name)
<1>1. JobOK(job[z])
  BY DEF TypeInv
<1> QED  BY <1>1, ReleaseTyped DEF JobOK, Jobs, Now, WorkingOn

LEMMA UnpackJob ==
    ASSUME TypeInv, NEW z \in Zrpkgs, Unpack(z)
    PROVE  /\ \E j : JobOK(j) /\ Becomes(z, j)
           /\ files' \in [Paths -> Contents]
<1>. DEFINE f == CHOOSE g \in job[z].left : TRUE
           done == [job[z] EXCEPT !.at = "record"]
           next == [job[z] EXCEPT !.left = @ \ {f}]
<1>1. job[z].at = "unpack" /\ files \in [Paths -> Contents]
  BY DEF Unpack, At, TypeInv, PackagesTypeOK
<1>2. /\ JobOK(job[z]) /\ Now(z) \in Releases
      /\ job[z].left \subseteq Now(z).files /\ job[z].left \subseteq Paths
  BY <1>1, WorkingTyped
<1>3. job[z].left = {} => JobOK(done)
  BY <1>1, <1>2 DEF JobOK, Jobs
<1>4. job[z].left # {} => JobOK(next) /\ f \in Paths
  BY <1>1, <1>2 DEF JobOK, Jobs
<1>5. \/ job[z].left = {} /\ Becomes(z, done) /\ files' = files
      \/ job[z].left # {} /\ Becomes(z, next) /\ files' = [files EXCEPT ![f] = Now(z)]
  BY DEF Unpack
<1> HIDE DEF done, next, f
<1> QED  BY <1>1, <1>2, <1>3, <1>4, <1>5 DEF Contents

LEMMA RecordJob ==
    ASSUME TypeInv, NEW z \in Zrpkgs, Record(z)
    PROVE  \E j : JobOK(j) /\ Becomes(z, j)
<1>. DEFINE next == [job[z] EXCEPT !.at = "next", !.plan = Tail(@)]
<1>1. job[z].at = "record"
  BY DEF Record, At
<1>2. JobOK(job[z]) /\ job[z].plan # <<>>
  BY <1>1, WorkingTyped
<1>3. Tail(job[z].plan) \in Seq(Releases)
  BY <1>2 DEF JobOK, Jobs
<1>4. next \in Jobs
  BY <1>2, <1>3 DEF JobOK, Jobs
<1>5. /\ next.known = job[z].known /\ next.path = job[z].path /\ next.order = job[z].order
      /\ next.at = "next"
  BY <1>2 DEF JobOK, Jobs
<1>6. JobOK(next)
  <2> HIDE DEF next
  <2> QED  BY <1>2, <1>4, <1>5 DEF JobOK
<1> QED  BY <1>6 DEF Record

LEMMA RemoveJob ==
    ASSUME TypeInv, NEW z \in Zrpkgs, NEW n \in Names, NEW force \in BOOLEAN,
           RemovePackage(z, n, force)
    PROVE  \E j : JobOK(j) /\ Becomes(z, j)
<1>. DEFINE next == [Idle EXCEPT !.at = "delete", !.plan = <<db[n]>>,
                                !.left = db[n].files]
<1>1. db[n] \in Releases /\ db[n].files \subseteq Paths
  BY ReleaseTyped DEF RemovePackage, TypeInv, PackagesTypeOK
<1>2. JobOK(Idle)
  BY IdleOK
<1>3. next \in Jobs
  <2>1. Idle \in Jobs /\ <<db[n]>> \in Seq(Releases)
    BY <1>1, <1>2 DEF JobOK
  <2> QED  BY <1>1, <2>1 DEF Jobs
<1>4. /\ next.known = Idle.known /\ next.path = <<>> /\ next.order = <<>>
      /\ next.at = "delete" /\ next.plan = <<db[n]>> /\ next.left = db[n].files
  BY DEF Idle
<1>5. JobOK(next)
  <2>1. Idle.path = <<>> /\ Idle.order = <<>> /\ Head(<<db[n]>>) = db[n] /\ <<db[n]>> # <<>>
    BY DEF Idle
  <2> HIDE DEF next
  <2> QED  BY <1>2, <1>3, <1>4, <2>1 DEF JobOK
<1> QED  BY <1>5 DEF RemovePackage

LEMMA DeleteJob ==
    ASSUME TypeInv, NEW z \in Zrpkgs, Delete(z)
    PROVE  /\ \E j : JobOK(j) /\ Becomes(z, j)
           /\ files' \in [Paths -> Contents]
           /\ loose' \subseteq loose \cup Names
<1>. DEFINE f == CHOOSE g \in job[z].left : TRUE
           done == [job[z] EXCEPT !.at = "forget"]
           next == [job[z] EXCEPT !.left = @ \ {f}]
<1>1. job[z].at = "delete" /\ files \in [Paths -> Contents]
  BY DEF Delete, At, TypeInv, PackagesTypeOK
<1>2. /\ JobOK(job[z]) /\ Now(z) \in Releases /\ Now(z).name \in Names
      /\ job[z].left \subseteq Now(z).files /\ job[z].left \subseteq Paths
  BY <1>1, WorkingTyped
<1>3. job[z].left = {} => JobOK(done)
  BY <1>1, <1>2 DEF JobOK, Jobs
<1>4. job[z].left # {} => JobOK(next) /\ f \in Paths
  BY <1>1, <1>2 DEF JobOK, Jobs
<1>5. \/ job[z].left = {} /\ Becomes(z, done) /\ files' = files /\ loose' = loose
      \/ /\ job[z].left # {} /\ Becomes(z, next)
         /\ \/ files' = [files EXCEPT ![f] = None] /\ loose' = loose
            \/ files' = files /\ loose' = loose \cup {Now(z).name}
  BY DEF Delete
<1> HIDE DEF done, next, f
<1> QED  BY <1>1, <1>2, <1>3, <1>4, <1>5 DEF Contents

\* What a run breaks off leaves of the entry at hand: all of what was there, nothing,
\* or a part of what was to be.
LEMMA InterruptedFiles ==
    ASSUME TypeInv, NEW z \in Zrpkgs, Interrupted(z), files' # files
    PROVE  /\ job[z].at = "unpack"
           /\ \E f \in job[z].left, c \in {None, Fragment(Now(z))} :
                  files' = [files EXCEPT ![f] = c]
           /\ Now(z).name \in partial' /\ Now(z).name \in loose'
  BY DEF Interrupted, At, Installing

LEMMA InterruptedTyped ==
    ASSUME TypeInv, NEW z \in Zrpkgs, Interrupted(z)
    PROVE  files' \in [Paths -> Contents]
<1>1. files \in [Paths -> Contents]
  BY DEF TypeInv, PackagesTypeOK
<1>2. ASSUME files' # files  PROVE files' \in [Paths -> Contents]
  <2>1. PICK f \in job[z].left, c \in {None, Fragment(Now(z))} :
            files' = [files EXCEPT ![f] = c]
    BY <1>2, InterruptedFiles
  <2>2. job[z].left \subseteq Paths /\ Now(z) \in Releases
    BY <1>2, InterruptedFiles, WorkingTyped
  <2>3. c \in Contents
    BY <2>2 DEF Contents
  <2> QED  BY <1>1, <2>1, <2>2, <2>3
<1> QED  BY <1>1, <1>2

LEMMA InstallJob ==
    ASSUME TypeInv, NEW z \in Zrpkgs, NEW roots \in Requests, Install(z, roots)
    PROVE  \E j : JobOK(j) /\ Becomes(z, j)
<1>. DEFINE next == [Idle EXCEPT !.at = "round", !.roots = roots]
<1>1. JobOK(Idle)
  BY IdleOK
<1>2. next \in Jobs
  BY <1>1 DEF JobOK, Jobs
<1>3. /\ next.known = Idle.known /\ next.path = Idle.path /\ next.order = Idle.order
      /\ next.at = "round" /\ next.plan = Idle.plan
      /\ Idle.path = <<>> /\ Idle.order = <<>> /\ Idle.plan = <<>>
  BY DEF Idle
<1>4. JobOK(next)
  <2> HIDE DEF next
  <2> QED  BY <1>1, <1>2, <1>3 DEF JobOK
<1> QED  BY <1>4 DEF Install

HistoryOK == (clash \cup unguarded \cup partial \cup loose \cup dropped) \subseteq Names

\* The history variables hold names.
LEMMA HistoryTyped ==
    ASSUME TypeInv, [Next]_vars  PROVE HistoryOK'
<1>1. HistoryOK
  BY DEF TypeInv, PackagesTypeOK, HistoryOK
<1>2. \A y \in Zrpkgs : Removing(y) => Now(y).name \in Names
  BY WorkingTyped DEF Removing
<1>3. ASSUME NEW z \in Zrpkgs, NEW roots \in Requests, Install(z, roots)
      PROVE HistoryOK'
  BY <1>1, <1>2, <1>3 DEF Install, HistoryOK
<1>4. ASSUME NEW z \in Zrpkgs, NEW n \in Names, NEW force \in BOOLEAN,
             RemovePackage(z, n, force)
      PROVE HistoryOK'
  BY <1>1, <1>4 DEF RemovePackage, Clashes, HistoryOK
<1>5. ASSUME NEW z \in Zrpkgs, Step(z)  PROVE HistoryOK'
  <2>1. CASE Download(z)
    <3>1. job[z].at = "next" /\ job[z].plan # <<>> /\ JobOK(job[z])
      BY <2>1 DEF Download, At, TypeInv
    <3>2. Now(z).name \in Names
      BY <3>1, ReleaseTyped DEF Now, JobOK, Jobs
    <3> QED  BY <1>1, <2>1, <3>2 DEF Download, Clashes, HistoryOK
  <2>2. CASE Record(z)
    <3>1. Now(z).name \in Names
      BY <2>2, WorkingTyped DEF Record, At
    <3> QED  BY <1>1, <2>2, <3>1 DEF Record, HistoryOK
  <2>3. CASE Delete(z)
    BY <1>1, <2>3, DeleteJob DEF Delete, HistoryOK
  <2>4. CASE Forget(z)
    BY <1>1, <2>4 DEF Forget, HistoryOK
  <2>5. CASE Round(z) \/ FetchManifest(z) \/ Visit(z) \/ Visited(z) \/ Order(z)
             \/ Plan(z) \/ Unpack(z) \/ Completes(z)
    <3>1. UNCHANGED history
      BY <2>5 DEF Round, FetchManifest, Visit, Visited, Order, Plan, Unpack, Completes
    <3> QED  BY <1>1, <3>1 DEF history, HistoryOK
  <2> QED  BY <1>5, <2>1, <2>2, <2>3, <2>4, <2>5 DEF Step
<1>6. ASSUME NEW z \in Zrpkgs, Interrupted(z)  PROVE HistoryOK'
  <2>1. CASE job[z].at \in {"unpack", "record", "delete", "forget"}
    <3>1. Now(z).name \in Names
      BY <2>1, WorkingTyped
    <3> QED  BY <1>1, <1>6, <3>1 DEF Interrupted, HistoryOK
  <2>2. CASE job[z].at \notin {"unpack", "record", "delete", "forget"}
    <3>1. UNCHANGED <<clash, unguarded, partial, loose, dropped>>
      BY <1>6, <2>2 DEF Interrupted, At
    <3> QED  BY <1>1, <3>1 DEF HistoryOK
  <2> QED  BY <2>1, <2>2
<1>7. ASSUME NEW r \in Releases, Publish(r)  PROVE HistoryOK'
  BY <1>1, <1>7 DEF Publish, history, HistoryOK
<1>8. ASSUME UNCHANGED vars  PROVE HistoryOK'
  BY <1>1, <1>8 DEF vars, history, HistoryOK
<1> QED  BY <1>3, <1>4, <1>5, <1>6, <1>7, <1>8 DEF Next

\* What a step does to the state of one run and to the record.
LEMMA StepJob ==
    ASSUME TypeInv, NEW z \in Zrpkgs, Step(z)
    PROVE  \E j : JobOK(j) /\ Becomes(z, j)
<1>1. ASSUME Completes(z) \/ Forget(z)  PROVE Becomes(z, Idle)
  BY <1>1 DEF Completes, Forget
<1> QED  BY <1>1, IdleOK, RoundJob, FetchJob, VisitJob, VisitedJob, OrderJob, PlanJob,
            DownloadJob, UnpackJob, RecordJob, DeleteJob DEF Step

\* What a step of a run leaves of the records and files is well typed.
LEMMA StepShared ==
    ASSUME TypeInv, NEW z \in Zrpkgs, Step(z)
    PROVE  /\ repo' = repo /\ runs' = runs
           /\ files' \in [Paths -> Contents]
           /\ db' \in [Names -> Releases \cup {None}]
           /\ \A n \in Names : db'[n] # None => db'[n].name = n
<1>1. /\ files \in [Paths -> Contents] /\ db \in [Names -> Releases \cup {None}]
      /\ \A n \in Names : db[n] # None => db[n].name = n
  BY DEF TypeInv, PackagesTypeOK
<1>2. CASE Record(z)
  <2>1. Now(z) \in Releases /\ Now(z).name \in Names
    BY <1>2, WorkingTyped DEF Record, At
  <2>2. db' = [db EXCEPT ![Now(z).name] = Now(z)] /\ UNCHANGED <<repo, runs, files>>
    BY <1>2 DEF Record
  <2> QED  BY <1>1, <2>1, <2>2
<1>3. CASE Forget(z)
  <2>1. db' = [db EXCEPT ![Now(z).name] = None] /\ UNCHANGED <<repo, runs, files>>
    BY <1>3 DEF Forget
  <2> QED  BY <1>1, <2>1
<1>4. CASE Unpack(z)
  BY <1>1, <1>4, UnpackJob DEF Unpack
<1>5. CASE Delete(z)
  BY <1>1, <1>5, DeleteJob DEF Delete
<1>6. CASE Round(z) \/ FetchManifest(z) \/ Visit(z) \/ Visited(z) \/ Order(z)
           \/ Plan(z) \/ Download(z) \/ Completes(z)
  <2>1. UNCHANGED <<repo, db, files, runs>>
    BY <1>6 DEF Round, FetchManifest, Visit, Visited, Order, Plan, Download, Completes
  <2> QED  BY <1>1, <2>1
<1> QED  BY <1>2, <1>3, <1>4, <1>5, <1>6 DEF Step

\* No step leads out of TypeInv.
LEMMA TypeInvInductive ==
    ASSUME TypeInv, [Next]_vars  PROVE TypeInv'
<1>1. HistoryOK'
  BY HistoryTyped
<1>2. PackagesTypeOK /\ MaxRuns \in Nat /\ \A z \in Zrpkgs : JobOK(job[z])
  BY PackagesAssumption DEF TypeInv
<1>3. ASSUME NEW z \in Zrpkgs, NEW roots \in Requests, Install(z, roots)
      PROVE TypeInv'
  <2>1. UNCHANGED <<repo, db, files>> /\ runs' \in 0..MaxRuns
    BY <1>2, <1>3 DEF Install, PackagesTypeOK
  <2>2. PICK j : JobOK(j) /\ Becomes(z, j)
    BY <1>3, InstallJob
  <2> QED  BY <1>1, <1>2, <2>1, <2>2, TypeStep DEF Becomes, HistoryOK, PackagesTypeOK
<1>4. ASSUME NEW z \in Zrpkgs, NEW n \in Names, NEW force \in BOOLEAN,
             RemovePackage(z, n, force)
      PROVE TypeInv'
  <2>1. UNCHANGED <<repo, db, files>> /\ runs' \in 0..MaxRuns
    BY <1>2, <1>4 DEF RemovePackage, PackagesTypeOK
  <2>2. PICK j : JobOK(j) /\ Becomes(z, j)
    BY <1>4, RemoveJob
  <2> QED  BY <1>1, <1>2, <2>1, <2>2, TypeStep DEF Becomes, HistoryOK, PackagesTypeOK
<1>5. ASSUME NEW z \in Zrpkgs, Step(z)  PROVE TypeInv'
  <2>1. PICK j : JobOK(j) /\ Becomes(z, j)
    BY <1>5, StepJob
  <2> QED  BY <1>1, <1>2, <1>5, <2>1, StepShared, TypeStep
           DEF Becomes, HistoryOK, PackagesTypeOK
<1>6. ASSUME NEW z \in Zrpkgs, Interrupted(z)  PROVE TypeInv'
  <2>1. UNCHANGED <<repo, db, runs>> /\ Becomes(z, Idle)
    BY <1>6 DEF Interrupted
  <2>2. files' \in [Paths -> Contents]
    BY <1>6, InterruptedTyped
  <2> QED  BY <1>1, <1>2, <2>1, <2>2, IdleOK, TypeStep DEF Becomes, HistoryOK, PackagesTypeOK
<1>7. ASSUME NEW r \in Releases, Publish(r)  PROVE TypeInv'
  <2>1. /\ repo' = [repo EXCEPT ![r.name] = r]
        /\ UNCHANGED <<db, files, job, runs>>
    BY <1>7 DEF Publish
  <2> QED  BY <1>1, <1>2, <2>1 DEF TypeInv, PackagesTypeOK, HistoryOK
<1>8. ASSUME UNCHANGED vars  PROVE TypeInv'
  BY <1>1, <1>2, <1>8 DEF vars, TypeInv, PackagesTypeOK, HistoryOK
<1> QED  BY <1>3, <1>4, <1>5, <1>6, <1>7, <1>8 DEF Next

\* The system starts in TypeInv.
LEMMA TypeInvInit == Init => TypeInv
<1> SUFFICES ASSUME Init  PROVE TypeInv
  OBVIOUS
<1>1. job \in [Zrpkgs -> Jobs] /\ \A z \in Zrpkgs : JobOK(job[z])
  BY IdleOK DEF Init, JobOK
<1>2. runs \in 0..MaxRuns
  BY PackagesAssumption DEF Init
<1>3. db \in [Names -> Releases \cup {None}] /\ \A n \in Names : db[n] = None
  BY DEF Init
<1>4. files \in [Paths -> Contents]
  BY DEF Init, Contents
<1> QED  BY <1>1, <1>2, <1>3, <1>4 DEF Init, TypeInv, PackagesTypeOK, JobOK

\* TypeInv always holds.
LEMMA TypeInvAlways == Spec => []TypeInv
<1>1. TypeInv /\ [Next]_vars => TypeInv'
  BY TypeInvInductive
<1> QED  BY <1>1, TypeInvInit, PTL DEF Spec

\* The repository, the record, the files and every run of zrpkg hold values of
\* their kinds, a manifest or a record being the one of the package it is kept
\* for, whatever the repository answers with: fetch_manifest refuses a manifest
\* of another package, and unpack and remove only go by what was recorded.
THEOREM PackagesTypeCorrect == Spec => []PackagesTypeOK
<1>1. TypeInv => PackagesTypeOK
  BY DEF TypeInv
<1> QED  BY <1>1, TypeInvAlways, PTL

-----------------------------------------------------------------------------
(* What each action does, field by field.                                   *)

\* an action is of one run
LEMMA OthersKeep ==
    ASSUME TypeInv, NEW z \in Zrpkgs, NEW j, Becomes(z, j)
    PROVE  job'[z] = j /\ \A y \in Zrpkgs \ {z} : job'[y] = job[y]
  BY DEF TypeInv, PackagesTypeOK, Becomes

OnlyJob(z) ==
    /\ UNCHANGED <<repo, db, files, runs, history>>
    /\ \A y \in Zrpkgs \ {z} : job'[y] = job[y]

SameSearch(z) == /\ job'[z].roots = job[z].roots /\ job'[z].known = job[z].known
SameWalk(z) == /\ job'[z].path = job[z].path /\ job'[z].order = job[z].order
SamePlan(z) == /\ job'[z].plan = job[z].plan /\ job'[z].left = job[z].left

LEMMA RoundEffect ==
    ASSUME TypeInv, NEW z \in Zrpkgs, Round(z)
    PROVE  /\ OnlyJob(z) /\ job[z].at = "round"
           /\ \/ job'[z] = Idle
              \/ /\ SameSearch(z) /\ SameWalk(z) /\ SamePlan(z)
                 /\ \/ /\ job'[z].at = "visit"
                       /\ Undiscovered(job[z].roots, job[z].known) = {}
                    \/ /\ job'[z].at = "fetch"
                       /\ job'[z].wanted = Undiscovered(job[z].roots, job[z].known)
<1>. DEFINE wanted == Undiscovered(job[z].roots, job[z].known)
           visiting == [job[z] EXCEPT !.at = "visit"]
           fetching == [job[z] EXCEPT !.at = "fetch", !.wanted = wanted, !.rounds = @ + 1]
<1>1. Becomes(z, Idle) \/ (Becomes(z, visiting) /\ wanted = {}) \/ Becomes(z, fetching)
  BY DEF Round
<1>2. JobOK(job[z]) /\ job[z].at = "round" /\ UNCHANGED <<repo, db, files, runs, history>>
  BY DEF Round, At, TypeInv
<1>3. job'[z] = Idle \/ (job'[z] = visiting /\ wanted = {}) \/ job'[z] = fetching
  BY <1>1, OthersKeep
<1>4. OnlyJob(z)
  BY <1>1, <1>2, OthersKeep DEF OnlyJob
<1> HIDE DEF wanted
<1>5. CASE job'[z] = visiting /\ wanted = {}
  BY <1>2, <1>4, <1>5 DEF wanted, JobOK, Jobs, SameSearch, SameWalk, SamePlan
<1>6. CASE job'[z] = fetching
  BY <1>2, <1>4, <1>6 DEF wanted, JobOK, Jobs, SameSearch, SameWalk, SamePlan
<1> QED  BY <1>2, <1>3, <1>4, <1>5, <1>6

LEMMA FetchEffect ==
    ASSUME TypeInv, NEW z \in Zrpkgs, FetchManifest(z)
    PROVE  /\ OnlyJob(z) /\ job[z].at = "fetch"
           /\ \/ job'[z] = Idle
              \/ /\ job'[z].at \in {"round", "fetch"}
                 /\ job'[z].roots = job[z].roots /\ SameWalk(z) /\ SamePlan(z)
                 /\ \E n \in job[z].wanted :
                       /\ job'[z].wanted = job[z].wanted \ {n}
                       /\ job'[z].known = [job[z].known EXCEPT ![n] = repo[n]]
<1>. DEFINE n == Min(job[z].wanted)
           at == IF job[z].wanted = {n} THEN "round" ELSE "fetch"
           next == [job[z] EXCEPT !.at = at, !.known = [@ EXCEPT ![n] = repo[n]],
                                  !.wanted = @ \ {n}]
<1>1. Becomes(z, Idle) \/ Becomes(z, next)
  BY DEF FetchManifest
<1>2. JobOK(job[z]) /\ job[z].at = "fetch" /\ UNCHANGED <<repo, db, files, runs, history>>
  BY DEF FetchManifest, At, TypeInv
<1>3. n \in job[z].wanted /\ at \in {"round", "fetch"}
  BY <1>2, MinOfNats, ReleaseTyped DEF JobOK, Jobs
<1>4. job'[z] = Idle \/ job'[z] = next
  BY <1>1, OthersKeep
<1>5. OnlyJob(z)
  BY <1>1, <1>2, OthersKeep DEF OnlyJob
<1> HIDE DEF n, at
<1>6. CASE job'[z] = next
  <2>1. /\ next.at = at /\ next.roots = job[z].roots
        /\ next.path = job[z].path /\ next.order = job[z].order
        /\ next.plan = job[z].plan /\ next.left = job[z].left
        /\ next.wanted = job[z].wanted \ {n}
        /\ next.known = [job[z].known EXCEPT ![n] = repo[n]]
    BY <1>2 DEF JobOK, Jobs
  <2> HIDE DEF next
  <2> QED  BY <1>2, <1>3, <1>5, <1>6, <2>1 DEF SameWalk, SamePlan
<1> QED  BY <1>2, <1>4, <1>5, <1>6

LEMMA VisitEffect ==
    ASSUME TypeInv, NEW z \in Zrpkgs, Visit(z)
    PROVE  /\ OnlyJob(z) /\ job[z].at = "visit"
           /\ \/ job'[z] = Idle
              \/ /\ job'[z].at = "visit" /\ SameSearch(z) /\ SamePlan(z)
                 /\ job'[z].order = job[z].order
<1>. DEFINE n == Calls(z)[Min(ToVisit(z))]
           next == [job[z] EXCEPT !.path = Append(@, n)]
<1>1. Becomes(z, Idle) \/ Becomes(z, next)
  BY DEF Visit
<1>2. JobOK(job[z]) /\ job[z].at = "visit" /\ UNCHANGED <<repo, db, files, runs, history>>
  BY DEF Visit, At, TypeInv
<1>3. job'[z] = Idle \/ job'[z] = next
  BY <1>1, OthersKeep
<1>4. OnlyJob(z)
  BY <1>1, <1>2, OthersKeep DEF OnlyJob
<1> HIDE DEF n
<1>5. CASE job'[z] = next
  BY <1>2, <1>4, <1>5 DEF JobOK, Jobs, SameSearch, SamePlan
<1> QED  BY <1>2, <1>3, <1>4, <1>5

LEMMA VisitedEffect ==
    ASSUME TypeInv, NEW z \in Zrpkgs, Visited(z)
    PROVE  /\ OnlyJob(z) /\ job[z].at = "visit" /\ job[z].path # <<>>
           /\ job'[z].at = "visit" /\ SameSearch(z) /\ SamePlan(z)
           /\ job'[z].order = Append(job[z].order, Last(job[z].path))
<1>. DEFINE next == [job[z] EXCEPT !.path = Front(@),
                                  !.order = Append(@, Last(job[z].path))]
<1>1. Becomes(z, next)
  BY DEF Visited
<1>2. /\ JobOK(job[z]) /\ job[z].at = "visit" /\ job[z].path # <<>>
      /\ UNCHANGED <<repo, db, files, runs, history>>
  BY DEF Visited, At, TypeInv
<1>3. job'[z] = next /\ OnlyJob(z)
  BY <1>1, <1>2, OthersKeep DEF OnlyJob
<1> QED  BY <1>2, <1>3 DEF JobOK, Jobs, SameSearch, SamePlan

LEMMA OrderEffect ==
    ASSUME TypeInv, NEW z \in Zrpkgs, Order(z)
    PROVE  /\ OnlyJob(z) /\ job[z].at = "visit" /\ job[z].path = <<>>
           /\ job'[z].at = "next" /\ SameSearch(z) /\ SameWalk(z) /\ SamePlan(z)
<1>1. /\ JobOK(job[z]) /\ job[z].at = "visit" /\ job[z].path = <<>>
      /\ Becomes(z, [job[z] EXCEPT !.at = "next"])
      /\ UNCHANGED <<repo, db, files, runs, history>>
  BY DEF Order, At, TypeInv
<1>2. job'[z] = [job[z] EXCEPT !.at = "next"] /\ OnlyJob(z)
  BY <1>1, OthersKeep DEF OnlyJob
<1> QED  BY <1>1, <1>2 DEF JobOK, Jobs, SameSearch, SameWalk, SamePlan

LEMMA PlanEffect ==
    ASSUME TypeInv, NEW z \in Zrpkgs, Plan(z)
    PROVE  /\ OnlyJob(z) /\ job[z].at = "next" /\ job[z].order # <<>>
           /\ job'[z].at = "next" /\ SameSearch(z)
           /\ job'[z].order = Tail(job[z].order)
           /\ LET r == job[z].known[Head(job[z].order)]
              IN  job'[z].plan = IF AlreadyCurrent(r) THEN job[z].plan
                                 ELSE Append(job[z].plan, r)
<1>. DEFINE r == job[z].known[Head(job[z].order)]
           plan == IF AlreadyCurrent(r) THEN job[z].plan ELSE Append(job[z].plan, r)
           next == [job[z] EXCEPT !.order = Tail(@), !.plan = plan]
<1>1. Becomes(z, next)
  BY DEF Plan
<1>2. /\ JobOK(job[z]) /\ job[z].at = "next" /\ job[z].order # <<>>
      /\ UNCHANGED <<repo, db, files, runs, history>>
  BY DEF Plan, At, TypeInv
<1>3. job'[z] = next /\ OnlyJob(z)
  BY <1>1, <1>2, OthersKeep DEF OnlyJob
<1> HIDE DEF plan
<1>4. /\ job'[z].at = "next" /\ SameSearch(z) /\ job'[z].order = Tail(job[z].order)
      /\ job'[z].plan = plan
  BY <1>2, <1>3 DEF JobOK, Jobs, SameSearch
<1> QED  BY <1>2, <1>3, <1>4 DEF plan

LEMMA DownloadEffect ==
    ASSUME TypeInv, NEW z \in Zrpkgs, Download(z)
    PROVE  /\ job[z].at = "next" /\ job[z].order = <<>> /\ job[z].plan # <<>>
           /\ \A y \in Zrpkgs \ {z} : job'[y] = job[y]
           /\ UNCHANGED <<repo, db, files, runs, unguarded, partial, loose, dropped>>
           /\ \/ job'[z] = Idle /\ clash' = clash
              \/ /\ job'[z].at = "unpack" /\ SameSearch(z) /\ SameWalk(z)
                 /\ job'[z].plan = job[z].plan /\ job'[z].left = Now(z).files
                 /\ repo[Now(z).name] = Now(z)
                 /\ Clashes(z, Now(z).name)
<1>. DEFINE next == [job[z] EXCEPT !.at = "unpack", !.left = Now(z).files]
<1>1. /\ JobOK(job[z])
      /\ job[z].at = "next" /\ job[z].order = <<>> /\ job[z].plan # <<>>
      /\ UNCHANGED <<repo, db, files, runs, unguarded, partial, loose, dropped>>
  BY DEF Download, At, TypeInv
<1>2. \/ Becomes(z, Idle) /\ clash' = clash
      \/ Becomes(z, next) /\ repo[Now(z).name] = Now(z) /\ Clashes(z, Now(z).name)
  BY DEF Download, Verified
<1>3. /\ \/ job'[z] = Idle /\ clash' = clash
         \/ job'[z] = next /\ repo[Now(z).name] = Now(z) /\ Clashes(z, Now(z).name)
      /\ \A y \in Zrpkgs \ {z} : job'[y] = job[y]
  BY <1>2, OthersKeep
<1>4. CASE job'[z] = next /\ repo[Now(z).name] = Now(z) /\ Clashes(z, Now(z).name)
  <2>1. /\ next.at = "unpack" /\ next.left = Now(z).files
        /\ next.roots = job[z].roots /\ next.known = job[z].known
        /\ next.path = job[z].path /\ next.order = job[z].order
        /\ next.plan = job[z].plan
    BY <1>1 DEF JobOK, Jobs
  <2> HIDE DEF next
  <2> QED  BY <1>1, <1>3, <1>4, <2>1 DEF SameSearch, SameWalk
<1> HIDE DEF next
<1> QED  BY <1>1, <1>3, <1>4

LEMMA UnpackEffect ==
    ASSUME TypeInv, NEW z \in Zrpkgs, Unpack(z)
    PROVE  /\ job[z].at = "unpack" /\ UNCHANGED <<repo, db, runs, history>>
           /\ \A y \in Zrpkgs \ {z} : job'[y] = job[y]
           /\ SameSearch(z) /\ SameWalk(z) /\ job'[z].plan = job[z].plan
           /\ \/ /\ job[z].left = {} /\ job'[z].left = {}
                 /\ job'[z].at = "record" /\ files' = files
              \/ /\ job'[z].at = "unpack"
                 /\ \E f \in job[z].left : /\ job'[z].left = job[z].left \ {f}
                                           /\ files' = [files EXCEPT ![f] = Now(z)]
<1>. DEFINE f == CHOOSE g \in job[z].left : TRUE
           done == [job[z] EXCEPT !.at = "record"]
           next == [job[z] EXCEPT !.left = @ \ {f}]
<1>1. job[z].at = "unpack" /\ JobOK(job[z]) /\ UNCHANGED <<repo, db, runs, history>>
  BY DEF Unpack, At, TypeInv
<1>2. \/ job[z].left = {} /\ Becomes(z, done) /\ files' = files
      \/ job[z].left # {} /\ Becomes(z, next) /\ files' = [files EXCEPT ![f] = Now(z)]
  BY DEF Unpack
<1>3. /\ \/ job[z].left = {} /\ job'[z] = done /\ files' = files
         \/ job[z].left # {} /\ job'[z] = next /\ files' = [files EXCEPT ![f] = Now(z)]
      /\ \A y \in Zrpkgs \ {z} : job'[y] = job[y]
  BY <1>2, OthersKeep
<1>4. job[z].left # {} => f \in job[z].left
  OBVIOUS
<1>5. /\ done.at = "record" /\ done.left = job[z].left /\ done.plan = job[z].plan
      /\ done.roots = job[z].roots /\ done.known = job[z].known
      /\ done.path = job[z].path /\ done.order = job[z].order
  BY <1>1 DEF JobOK, Jobs
<1>6. /\ next.at = "unpack" /\ next.left = job[z].left \ {f} /\ next.plan = job[z].plan
      /\ next.roots = job[z].roots /\ next.known = job[z].known
      /\ next.path = job[z].path /\ next.order = job[z].order
  <2> HIDE DEF f
  <2> QED  BY <1>1 DEF JobOK, Jobs
<1> HIDE DEF f, done, next
<1> QED  BY <1>1, <1>3, <1>4, <1>5, <1>6 DEF SameSearch, SameWalk

LEMMA RecordEffect ==
    ASSUME TypeInv, NEW z \in Zrpkgs, Record(z)
    PROVE  /\ job[z].at = "record" /\ Now(z) \in Releases /\ Now(z).name \in Names
           /\ job[z].plan # <<>> /\ job[z].left = {} /\ job[z].order = <<>>
           /\ db' = [db EXCEPT ![Now(z).name] = Now(z)]
           /\ UNCHANGED <<repo, files, runs, clash, unguarded, loose>>
           /\ partial' = partial \ {Now(z).name}
           /\ dropped' = IF db[Now(z).name].files \subseteq Now(z).files THEN dropped
                         ELSE dropped \cup {Now(z).name}
           /\ \A y \in Zrpkgs \ {z} : job'[y] = job[y]
           /\ SameSearch(z) /\ SameWalk(z)
           /\ job'[z].at = "next" /\ job'[z].plan = Tail(job[z].plan)
<1>. DEFINE next == [job[z] EXCEPT !.at = "next", !.plan = Tail(@)]
<1>1. /\ job[z].at = "record" /\ Becomes(z, next)
      /\ db' = [db EXCEPT ![Now(z).name] = Now(z)]
      /\ UNCHANGED <<repo, files, runs, clash, unguarded, loose>>
      /\ partial' = partial \ {Now(z).name}
      /\ dropped' = IF db[Now(z).name].files \subseteq Now(z).files THEN dropped
                    ELSE dropped \cup {Now(z).name}
  BY DEF Record, At
<1>2. /\ JobOK(job[z]) /\ Now(z) \in Releases /\ Now(z).name \in Names
      /\ job[z].plan # <<>> /\ job[z].left = {} /\ job[z].order = <<>>
  BY <1>1, WorkingTyped DEF JobOK
<1>3. job'[z] = next /\ \A y \in Zrpkgs \ {z} : job'[y] = job[y]
  BY <1>1, OthersKeep
<1>4. /\ next.at = "next" /\ next.plan = Tail(job[z].plan)
      /\ next.roots = job[z].roots /\ next.known = job[z].known
      /\ next.path = job[z].path /\ next.order = job[z].order
  BY <1>2 DEF JobOK, Jobs
<1> HIDE DEF next
<1> QED  BY <1>1, <1>2, <1>3, <1>4 DEF SameSearch, SameWalk

LEMMA DeleteEffect ==
    ASSUME TypeInv, NEW z \in Zrpkgs, Delete(z)
    PROVE  /\ job[z].at = "delete"
           /\ UNCHANGED <<repo, db, runs, clash, unguarded, partial, dropped>>
           /\ \A y \in Zrpkgs \ {z} : job'[y] = job[y]
           /\ job'[z].plan = job[z].plan
           /\ \/ /\ job[z].left = {} /\ job'[z].left = {}
                 /\ job'[z].at = "forget" /\ UNCHANGED <<files, loose>>
              \/ /\ job'[z].at = "delete"
                 /\ \E f \in job[z].left :
                       /\ job'[z].left = job[z].left \ {f}
                       /\ \/ files' = [files EXCEPT ![f] = None] /\ loose' = loose
                          \/ files' = files /\ loose' = loose \cup {Now(z).name}
<1>. DEFINE f == CHOOSE g \in job[z].left : TRUE
           done == [job[z] EXCEPT !.at = "forget"]
           next == [job[z] EXCEPT !.left = @ \ {f}]
           Deletes == \/ files' = [files EXCEPT ![f] = None] /\ loose' = loose
                      \/ files' = files /\ loose' = loose \cup {Now(z).name}
<1>1. /\ job[z].at = "delete" /\ JobOK(job[z])
      /\ UNCHANGED <<repo, db, runs, clash, unguarded, partial, dropped>>
  BY DEF Delete, At, TypeInv
<1>2. \/ job[z].left = {} /\ Becomes(z, done) /\ UNCHANGED <<files, loose>>
      \/ job[z].left # {} /\ Becomes(z, next) /\ Deletes
  BY DEF Delete
<1>3. /\ \/ job[z].left = {} /\ job'[z] = done /\ UNCHANGED <<files, loose>>
         \/ job[z].left # {} /\ job'[z] = next /\ Deletes
      /\ \A y \in Zrpkgs \ {z} : job'[y] = job[y]
  BY <1>2, OthersKeep
<1>4. job[z].left # {} => f \in job[z].left
  OBVIOUS
<1>5. done.at = "forget" /\ done.left = job[z].left /\ done.plan = job[z].plan
  BY <1>1 DEF JobOK, Jobs
<1>6. next.at = "delete" /\ next.left = job[z].left \ {f} /\ next.plan = job[z].plan
  <2> HIDE DEF f
  <2> QED  BY <1>1 DEF JobOK, Jobs
<1> HIDE DEF f, done, next
<1> QED  BY <1>1, <1>3, <1>4, <1>5, <1>6

LEMMA ForgetEffect ==
    ASSUME TypeInv, NEW z \in Zrpkgs, Forget(z)
    PROVE  /\ job[z].at = "forget" /\ Now(z) \in Releases /\ Now(z).name \in Names
           /\ job[z].left = {}
           /\ db' = [db EXCEPT ![Now(z).name] = None]
           /\ UNCHANGED <<repo, files, runs, clash, unguarded, loose, dropped>>
           /\ partial' = partial \ {Now(z).name}
           /\ \A y \in Zrpkgs \ {z} : job'[y] = job[y]
           /\ job'[z] = Idle
<1>1. /\ job[z].at = "forget" /\ Becomes(z, Idle)
      /\ db' = [db EXCEPT ![Now(z).name] = None]
      /\ UNCHANGED <<repo, files, runs, clash, unguarded, loose, dropped>>
      /\ partial' = partial \ {Now(z).name}
  BY DEF Forget, At
<1>2. Now(z) \in Releases /\ Now(z).name \in Names /\ job[z].left = {}
  BY <1>1, WorkingTyped DEF JobOK
<1> QED  BY <1>1, <1>2, OthersKeep

LEMMA CompletesEffect ==
    ASSUME TypeInv, NEW z \in Zrpkgs, Completes(z)
    PROVE  /\ OnlyJob(z) /\ job[z].at = "next" /\ job[z].order = <<>> /\ job[z].plan = <<>>
           /\ job'[z] = Idle
  BY OthersKeep DEF Completes, At, OnlyJob

LEMMA InstallEffect ==
    ASSUME TypeInv, NEW z \in Zrpkgs, NEW roots \in Requests, Install(z, roots)
    PROVE  /\ job[z].at = "idle"
           /\ UNCHANGED <<repo, db, files, clash, partial, loose, dropped>>
           /\ unguarded' = unguarded \cup {Now(y).name : y \in {x \in Zrpkgs : Removing(x)}}
           /\ \A y \in Zrpkgs \ {z} : job'[y] = job[y]
           /\ job'[z] = [Idle EXCEPT !.at = "round", !.roots = roots]
  BY OthersKeep DEF Install, At

LEMMA RemoveEffect ==
    ASSUME TypeInv, NEW z \in Zrpkgs, NEW n \in Names, NEW force \in BOOLEAN,
           RemovePackage(z, n, force)
    PROVE  /\ job[z].at = "idle" /\ db[n] \in Releases /\ db[n].name = n
           /\ Dependents(n) = {} \/ force
           /\ UNCHANGED <<repo, db, files, partial, loose, dropped>>
           /\ Clashes(z, n)
           /\ unguarded' = IF force \/ \E y \in Zrpkgs : Installing(y)
                           THEN unguarded \cup {n} ELSE unguarded
           /\ \A y \in Zrpkgs \ {z} : job'[y] = job[y]
           /\ job'[z].at = "delete" /\ job'[z].plan = <<db[n]>> /\ Now(z)' = db[n]
           /\ job'[z].left = db[n].files
<1>. DEFINE next == [Idle EXCEPT !.at = "delete", !.plan = <<db[n]>>,
                                !.left = db[n].files]
<1>1. /\ job[z].at = "idle" /\ db[n] \in Releases /\ db[n].name = n
      /\ Dependents(n) = {} \/ force
      /\ UNCHANGED <<repo, db, files, partial, loose, dropped>>
      /\ Clashes(z, n)
      /\ unguarded' = IF force \/ \E y \in Zrpkgs : Installing(y)
                      THEN unguarded \cup {n} ELSE unguarded
      /\ Becomes(z, next)
  BY DEF RemovePackage, At, TypeInv, PackagesTypeOK
<1>2. next.at = "delete" /\ next.plan = <<db[n]>> /\ next.left = db[n].files
  BY DEF Idle
<1>3. job'[z] = next /\ \A y \in Zrpkgs \ {z} : job'[y] = job[y]
  BY <1>1, OthersKeep
<1> HIDE DEF next
<1> QED  BY <1>1, <1>2, <1>3 DEF Now

LEMMA InterruptedEffect ==
    ASSUME TypeInv, NEW z \in Zrpkgs, Interrupted(z)
    PROVE  /\ UNCHANGED <<repo, db, runs, clash, unguarded, dropped>>
           /\ \A y \in Zrpkgs \ {z} : job'[y] = job[y]
           /\ job'[z] = Idle
           /\ partial \subseteq partial' /\ loose \subseteq loose'
  BY OthersKeep DEF Interrupted

-----------------------------------------------------------------------------
(* What is installed has what it needs.                                     *)

\* Only Record and Forget change a record, and only the one of the package in hand.
LEMMA RecordChanges ==
    ASSUME TypeInv, [Next]_vars, NEW d \in Names, db'[d] # db[d]
    PROVE  \E z \in Zrpkgs : /\ Record(z) \/ Forget(z)
                             /\ Now(z).name = d
                             /\ db' = [db EXCEPT ![d] = IF Record(z) THEN Now(z) ELSE None]
<1>1. db \in [Names -> Releases \cup {None}]
  BY DEF TypeInv, PackagesTypeOK
<1>2. PICK z \in Zrpkgs : Record(z) \/ Forget(z)
  <2>1. ASSUME NEW z \in Zrpkgs, Step(z)  PROVE Record(z) \/ Forget(z)
    BY <2>1 DEF Step, Round, FetchManifest, Visit, Visited, Order, Plan, Download, Unpack,
                Completes, Delete
  <2> QED  BY <2>1 DEF Next, Install, RemovePackage, Interrupted, Publish, vars
<1>3. db' = [db EXCEPT ![Now(z).name] = IF Record(z) THEN Now(z) ELSE None]
  <2>1. CASE Record(z)
    BY <2>1 DEF Record
  <2>2. CASE Forget(z)
    <3>1. ~Record(z)
      BY <2>2 DEF Record, Forget, At
    <3> QED  BY <2>2, <3>1 DEF Forget
  <2> QED  BY <1>2, <2>1, <2>2
<1> QED  BY <1>1, <1>2, <1>3

\* A package once unguarded is so for good.
LEMMA UnguardedGrows ==
    ASSUME [Next]_vars  PROVE unguarded \subseteq unguarded'
<1>1. ASSUME NEW z \in Zrpkgs, Step(z)  PROVE unguarded' = unguarded
  BY <1>1 DEF Step, Round, FetchManifest, Visit, Visited, Order, Plan, Download, Unpack,
              Record, Completes, Delete, Forget, history
<1> QED  BY <1>1 DEF Next, Install, RemovePackage, Interrupted, Publish, vars, history

\* A removal that an install runs beside, or that was forced, is known to be unguarded.
LEMMA GuardedInductive ==
    ASSUME TypeInv, Guarded, [Next]_vars  PROVE Guarded'
<1>. DEFINE Safe(y) == /\ \A z \in Zrpkgs : Removing(y) /\ Installing(z) =>
                                               Now(y).name \in unguarded
                       /\ Removing(y) => \/ Now(y).name \in unguarded
                                         \/ Dependents(Now(y).name) = {}
<1>1. unguarded \subseteq unguarded'
  BY UnguardedGrows
<1>2. \A y \in Zrpkgs : Safe(y)
  BY DEF Guarded
<1>3. Guarded' <=> (\A y \in Zrpkgs : Safe(y))'
  BY DEF Guarded
<1> HIDE DEF Safe
\* nothing new is needed by what is installed unless a run installs
<1>4. \/ \E z \in Zrpkgs : Installing(z)
      \/ \A n \in Names : Dependents(n)' \subseteq Dependents(n)
  <2>1. SUFFICES ASSUME \A z \in Zrpkgs : ~Installing(z), NEW n \in Names, NEW p \in Names,
                        n \in Range(db'[p].needs)
                 PROVE  n \in Range(db[p].needs)
    BY DEF Dependents
  <2>2. ASSUME db'[p] # db[p]  PROVE FALSE
    <3>1. PICK z \in Zrpkgs : /\ Record(z) \/ Forget(z)
                              /\ Now(z).name = p
                              /\ db' = [db EXCEPT ![p] = IF Record(z) THEN Now(z) ELSE None]
      BY <2>2, RecordChanges
    <3>2. ~Record(z)
      BY <2>1 DEF Record, At, Installing
    <3>3. db'[p] = None
      BY <3>1, <3>2 DEF TypeInv, PackagesTypeOK
    <3> QED  BY <2>1, <3>3, ReleaseTyped DEF Range
  <2> QED  BY <2>1, <2>2
\* a run that goes on removing, or starts nothing
<1>5. ASSUME NEW z \in Zrpkgs, NEW j, Becomes(z, j),
             j.at \in {"delete", "forget"} => Removing(z) /\ Head(j.plan) = Now(z),
             j.at \in {"round", "fetch", "visit", "next", "unpack", "record"} => Installing(z)
      PROVE  Guarded'
  <2>1. job'[z] = j /\ \A y \in Zrpkgs \ {z} : job'[y] = job[y]
    BY <1>5, OthersKeep
  <2>2. \A y \in Zrpkgs : /\ Removing(y)' => Removing(y) /\ Now(y)' = Now(y)
                          /\ Installing(y)' => Installing(y)
    BY <1>5, <2>1 DEF Removing, Installing, Now
  <2>3. ASSUME NEW y \in Zrpkgs  PROVE Safe(y)'
    <3>1. CASE Removing(y)'
      <4>1. Now(y).name \in Names /\ Removing(y) /\ Now(y)' = Now(y)
        BY <2>2, <3>1, WorkingTyped DEF Removing
      <4>2. CASE Now(y).name \in unguarded
        BY <1>1, <4>1, <4>2 DEF Safe
      <4>3. CASE Now(y).name \notin unguarded
        <5>1. \A x \in Zrpkgs : ~Installing(x)
          BY <1>2, <4>1, <4>3 DEF Safe
        <5>2. Dependents(Now(y).name) = {}
          BY <1>2, <4>1, <4>3 DEF Safe
        <5>3. Dependents(Now(y).name)' = {}
          BY <1>4, <4>1, <5>1, <5>2 DEF Dependents
        <5> QED  BY <2>2, <4>1, <5>1, <5>3 DEF Safe
      <4> QED  BY <4>2, <4>3
    <3>2. CASE ~Removing(y)'
      BY <3>2 DEF Safe
    <3> QED  BY <3>1, <3>2
  <2> QED  BY <1>3, <2>3
<1>6. ASSUME NEW z \in Zrpkgs, NEW roots \in Requests, Install(z, roots)
      PROVE Guarded'
  <2>1. unguarded' = unguarded \cup {Now(y).name : y \in {x \in Zrpkgs : Removing(x)}}
    BY <1>6, InstallEffect
  <2>2. job'[z].at = "round" /\ \A y \in Zrpkgs \ {z} : job'[y] = job[y]
    BY <1>6, InstallEffect DEF Idle
  <2>3. ASSUME NEW y \in Zrpkgs, Removing(y)'  PROVE Now(y)'.name \in unguarded'
    <3>1. y # z /\ Removing(y) /\ Now(y)' = Now(y)
      BY <2>2, <2>3 DEF Removing, Now
    <3> QED  BY <2>1, <3>1
  <2> QED  BY <1>3, <2>3 DEF Safe
<1>7. ASSUME NEW z \in Zrpkgs, NEW n \in Names, NEW force \in BOOLEAN,
             RemovePackage(z, n, force)
      PROVE Guarded'
  <2>1. /\ db' = db /\ db[n].name = n
        /\ Dependents(n) = {} \/ force
        /\ unguarded' = IF force \/ \E y \in Zrpkgs : Installing(y)
                        THEN unguarded \cup {n} ELSE unguarded
    BY <1>7, RemoveEffect
  <2>2. /\ job'[z].at = "delete" /\ Now(z)' = db[n]
        /\ \A y \in Zrpkgs \ {z} : job'[y] = job[y]
    BY <1>7, RemoveEffect
  <2>3. Removing(z)' /\ ~Installing(z)' /\ Now(z)'.name = n
    BY <2>1, <2>2 DEF Removing, Installing, Now
  <2>4. \A y \in Zrpkgs \ {z} : /\ Removing(y)' <=> Removing(y)
                                /\ Installing(y)' <=> Installing(y)
                                /\ Now(y)' = Now(y)
    BY <2>2 DEF Removing, Installing, Now
  <2>5. Dependents(n)' = Dependents(n)
    BY <2>1 DEF Dependents
  <2>6. Safe(z)'
    <3>1. (\E y \in Zrpkgs : Installing(y)') => n \in unguarded'
      BY <2>1, <2>3, <2>4
    <3>2. n \in unguarded' \/ Dependents(n)' = {}
      BY <2>1, <2>5
    <3> QED  BY <2>3, <3>1, <3>2 DEF Safe
  <2>7. ASSUME NEW y \in Zrpkgs \ {z}  PROVE Safe(y)'
    <3>1. CASE Removing(y)
      <4>1. Now(y).name \in Names
        BY <3>1, WorkingTyped DEF Removing
      <4>2. Now(y)' = Now(y) /\ Removing(y)'
        BY <2>4, <3>1
      <4>3. Dependents(Now(y).name)' = Dependents(Now(y).name)
        BY <2>1, <4>2 DEF Dependents
      <4>4. \A x \in Zrpkgs : Installing(x)' => Installing(x)
        BY <2>3, <2>4
      <4> QED  BY <1>1, <1>2, <3>1, <4>2, <4>3, <4>4 DEF Safe
    <3>2. CASE ~Removing(y)
      BY <2>4, <3>2 DEF Safe
    <3> QED  BY <3>1, <3>2
  <2> QED  BY <1>3, <2>6, <2>7
<1>8. ASSUME NEW z \in Zrpkgs, Step(z)  PROVE Guarded'
  <2>1. PICK j : Becomes(z, j)
    BY <1>8, StepJob
  <2>2. j = job'[z] /\ Idle.at = "idle"
    BY <2>1, OthersKeep DEF Idle
  <2>3. CASE Delete(z)
    BY <1>5, <2>1, <2>2, <2>3, DeleteEffect DEF Removing, Now
  <2>4. CASE Forget(z)
    BY <1>5, <2>1, <2>2, <2>4, ForgetEffect
  <2>5. CASE Round(z) \/ FetchManifest(z) \/ Visit(z) \/ Visited(z) \/ Order(z)
             \/ Plan(z) \/ Download(z) \/ Unpack(z) \/ Record(z) \/ Completes(z)
    <3>1. Installing(z)
      BY <2>5 DEF Round, FetchManifest, Visit, Visited, Order, Plan, Download, Unpack,
                  Record, Completes, At, Installing
    <3>2. job'[z].at \notin {"delete", "forget"}
      BY <2>2, <2>5, RoundEffect, FetchEffect, VisitEffect, VisitedEffect, OrderEffect,
         PlanEffect, DownloadEffect, UnpackEffect, RecordEffect, CompletesEffect
    <3> QED  BY <1>5, <2>1, <2>2, <3>1, <3>2
  <2> QED  BY <1>8, <2>3, <2>4, <2>5 DEF Step
<1>9. ASSUME NEW z \in Zrpkgs, Interrupted(z)  PROVE Guarded'
  <2>1. Becomes(z, Idle) /\ Idle.at = "idle"
    BY <1>9 DEF Interrupted, Idle
  <2> QED  BY <1>5, <2>1
<1>10. ASSUME (\E r \in Releases : Publish(r)) \/ UNCHANGED vars  PROVE Guarded'
  BY <1>10 DEF Publish, vars, history, Guarded, Removing, Installing, Now, Dependents
<1> QED  BY <1>6, <1>7, <1>8, <1>9, <1>10 DEF Next

\* What is there stays there while a run installs, or its removal is in `unguarded`.
LEMMA HasIsStable ==
    ASSUME TypeInv, Guarded, [Next]_vars, NEW y \in Zrpkgs, Installing(y),
           NEW d \in Names, Has(d)
    PROVE  Has(d)'
<1>1. CASE d \in unguarded
  BY <1>1, UnguardedGrows DEF Has
<1>2. CASE db'[d] = db[d]
  BY <1>2, UnguardedGrows DEF Has
<1>3. CASE db'[d] # db[d]
  <2>1. PICK z \in Zrpkgs : /\ Record(z) \/ Forget(z)
                            /\ Now(z).name = d
                            /\ db' = [db EXCEPT ![d] = IF Record(z) THEN Now(z) ELSE None]
    BY <1>3, RecordChanges
  <2>2. CASE Record(z)
    <3>1. db'[d] = Now(z) /\ Now(z) \in Releases
      BY <2>1, <2>2, RecordEffect DEF TypeInv, PackagesTypeOK
    <3> QED  BY <3>1, ReleaseTyped DEF Has
  <2>3. CASE Forget(z)
    <3>1. Removing(z)
      BY <2>3 DEF Forget, At, Removing
    <3>2. d \in unguarded
      BY <2>1, <3>1 DEF Guarded
    <3> QED  BY <3>2, UnguardedGrows DEF Has
  <2> QED  BY <2>1, <2>2, <2>3
<1> QED  BY <1>1, <1>2, <1>3

\* The dependencies of what a run keeps are packages.
LEMMA NeedsTyped ==
    ASSUME TypeInv, NEW z \in Zrpkgs
    PROVE  /\ \A n \in Names : Range(job[z].known[n].needs) \subseteq Names
           /\ \A i \in DOMAIN job[z].order : job[z].order[i] \in Names
           /\ \A i \in DOMAIN job[z].plan : Range(job[z].plan[i].needs) \subseteq Names
<1>1. JobOK(job[z])
  BY DEF TypeInv
<1>2. /\ job[z].known \in [Names -> Releases \cup {None}]
      /\ job[z].plan \in Seq(Releases) /\ job[z].order \in Seq(Names)
  BY <1>1 DEF JobOK, Jobs
<1>3. \A r \in Releases \cup {None} : r.needs \in Seq(Names)
  <2>1. None.needs \in Seq(Names)
    BY ReleaseTyped
  <2> QED  BY <2>1, ReleaseTyped
<1>4. \A r \in Releases \cup {None} : Range(r.needs) \subseteq Names
  BY <1>3 DEF Range
<1> QED  BY <1>2, <1>4

Preparing(z) == Visiting(z) /\ Planning(z) /\ Planned(z)

\* Runs that do not move keep what they have prepared.
LEMMA OthersPrepared ==
    ASSUME TypeInv, Guarded, [Next]_vars, NEW y \in Zrpkgs, Preparing(y),
           job'[y] = job[y]
    PROVE  Preparing(y)'
<1>1. Visiting(y)'
  BY DEF Preparing, Visiting
<1>2. Planning(y)'
  <2> SUFFICES ASSUME job[y].at = "next", NEW i \in DOMAIN job[y].order,
                      NEW d \in Range(job[y].known[job[y].order[i]].needs)
               PROVE  \/ \E j \in 1..(i - 1) : job[y].order[j] = d
                      \/ \E k \in DOMAIN job[y].plan : job[y].plan[k].name = d
                      \/ Has(d)'
    BY DEF Planning
  <2>1. Installing(y) /\ d \in Names
    BY NeedsTyped DEF Installing
  <2>2. Has(d) => Has(d)'
    BY <2>1, HasIsStable
  <2> QED  BY <2>2 DEF Preparing, Planning
<1>3. Planned(y)'
  <2> SUFFICES ASSUME Installing(y), NEW i \in DOMAIN job[y].plan,
                      NEW d \in Range(job[y].plan[i].needs)
               PROVE  (\E j \in 1..(i - 1) : job[y].plan[j].name = d) \/ Has(d)'
    BY DEF Planned, Installing
  <2>1. d \in Names
    BY NeedsTyped
  <2>2. Has(d) => Has(d)'
    BY <2>1, HasIsStable
  <2> QED  BY <2>2 DEF Preparing, Planned
<1> QED  BY <1>1, <1>2, <1>3 DEF Preparing

\* A run that keeps its plan while it installs keeps its promise about it.
LEMMA PlanKept ==
    ASSUME TypeInv, Guarded, [Next]_vars, NEW z \in Zrpkgs, Planned(z),
           Installing(z), job'[z].plan = job[z].plan
    PROVE  Planned(z)'
<1> SUFFICES ASSUME NEW i \in DOMAIN job[z].plan, NEW d \in Range(job[z].plan[i].needs)
             PROVE  (\E j \in 1..(i - 1) : job[z].plan[j].name = d) \/ Has(d)'
  BY DEF Planned
<1>1. d \in Names
  BY NeedsTyped
<1>2. Has(d) => Has(d)'
  BY <1>1, HasIsStable
<1> QED  BY <1>2 DEF Planned

\* A run that does not install has nothing prepared.
LEMMA IdlePrepared ==
    ASSUME NEW z \in Zrpkgs, job'[z].at \in {"idle", "delete", "forget"}
    PROVE  Preparing(z)'
  BY DEF Preparing, Visiting, Planning, Planned, Installing

\* A package becomes Done after all it needs, none of which is still to be visited.
LEMMA VisitedPrepared ==
    ASSUME TypeInv, NEW z \in Zrpkgs, Visited(z), Preparing(z)
    PROVE  Preparing(z)'
<1>. DEFINE last == Last(job[z].path)
           known == job[z].known
           order == job[z].order
<1>1. /\ job[z].at = "visit" /\ job[z].path # <<>> /\ ToVisit(z) = {}
      /\ job'[z].at = "visit" /\ job'[z].known = known
      /\ job'[z].order = Append(order, last) /\ job'[z].plan = job[z].plan
  BY VisitedEffect DEF SameSearch, SamePlan, Visited
<1>2. /\ JobOK(job[z]) /\ job[z].plan = <<>> /\ order \in Seq(Names)
      /\ job[z].path \in Seq(Names) /\ known \in [Names -> Releases \cup {None}]
  BY <1>1 DEF TypeInv, JobOK, Jobs
<1>3. last \in Names
  BY <1>1, <1>2, RangeOfFront
<1>4. \A d \in Range(known[last].needs) : d \in Range(order)
  BY <1>1 DEF ToVisit, Calls, Range
<1>5. ASSUME NEW i \in DOMAIN Append(order, last),
             NEW d \in Range(known[Append(order, last)[i]].needs)
      PROVE  \E j \in 1..(i - 1) : Append(order, last)[j] = d
  <2>1. CASE i \in DOMAIN order
    <3>1. Append(order, last)[i] = order[i]
      BY <1>2, <1>3, <2>1
    <3>2. PICK j \in 1..(i - 1) : order[j] = d
      BY <1>1, <1>5, <2>1, <3>1 DEF Preparing, Visiting, Ordered
    <3>3. Append(order, last)[j] = order[j]
      BY <1>2, <1>3, <2>1, <3>2
    <3> QED  BY <3>2, <3>3
  <2>2. CASE i = Len(order) + 1
    <3>1. Append(order, last)[i] = last
      BY <1>2, <1>3, <2>2
    <3>2. PICK j \in DOMAIN order : order[j] = d
      BY <1>4, <1>5, <3>1 DEF Range
    <3>3. Append(order, last)[j] = d /\ j \in 1..(i - 1)
      BY <1>2, <1>3, <2>2, <3>2
    <3> QED  BY <3>3
  <2>3. i \in DOMAIN order \/ i = Len(order) + 1
    BY <1>2, <1>3
  <2> QED  BY <2>1, <2>2, <2>3
<1>6. Visiting(z)'
  <2>1. Ordered(Append(order, last), known)
    BY <1>5 DEF Ordered
  <2> HIDE DEF last, order, known
  <2> QED  BY <1>1, <2>1 DEF Visiting
<1> QED  BY <1>1, <1>2, <1>6 DEF Preparing, Planning, Planned

\* Moving the head of the order into the plan, or past it when it is current, loses
\* nothing that a later one needs.
LEMMA PlanPrepared ==
    ASSUME TypeInv, NEW z \in Zrpkgs, Plan(z), Preparing(z)
    PROVE  Preparing(z)'
<1>. DEFINE known == job[z].known
           order == job[z].order
           plan == job[z].plan
           n == Head(order)
           r == known[n]
<1>1. /\ job[z].at = "next" /\ order # <<>> /\ UNCHANGED <<db, unguarded>>
      /\ job'[z].at = "next" /\ job'[z].known = known
      /\ job'[z].order = Tail(order)
      /\ job'[z].plan = IF AlreadyCurrent(r) THEN plan ELSE Append(plan, r)
  BY PlanEffect DEF SameSearch, OnlyJob, history
<1>2. /\ JobOK(job[z]) /\ order \in Seq(Names) /\ plan \in Seq(Releases)
      /\ known \in [Names -> Releases \cup {None}]
  BY <1>1 DEF TypeInv, JobOK, Jobs
<1>3. /\ n \in Names /\ n \in Range(order)
  BY <1>1, <1>2, RangeOfTail
<1>4. r \in Releases /\ r.name = n
  BY <1>2, <1>3 DEF JobOK, NamesOf
<1>5. \A d : Has(d)' <=> Has(d)
  BY <1>1 DEF Has
<1>. DEFINE plan2 == IF AlreadyCurrent(r) THEN plan ELSE Append(plan, r)
<1>6. /\ \A k \in DOMAIN plan : k \in DOMAIN plan2 /\ plan2[k] = plan[k]
      /\ AlreadyCurrent(r) \/ (Len(plan) + 1 \in DOMAIN plan2 /\ plan2[Len(plan) + 1] = r)
      /\ \A k \in DOMAIN plan2 : k \in DOMAIN plan \/
                                 (~AlreadyCurrent(r) /\ k = Len(plan) + 1 /\ plan2[k] = r)
  BY <1>2, <1>4
<1>7. Has(n) \/ \E k \in DOMAIN plan2 : plan2[k].name = n
  <2>1. AlreadyCurrent(r) => Has(n)
    BY <1>4 DEF AlreadyCurrent, Has
  <2> QED  BY <1>4, <1>6, <2>1
<1>8. \A i \in DOMAIN order : \A d \in Range(known[order[i]].needs) :
            \/ \E j \in 1..(i - 1) : order[j] = d
            \/ \E k \in DOMAIN plan : plan[k].name = d
            \/ Has(d)
  BY <1>1 DEF Preparing, Planning
<1>9. /\ \A i \in DOMAIN Tail(order) : i + 1 \in DOMAIN order /\ Tail(order)[i] = order[i + 1]
      /\ order[1] = n /\ 1 \in DOMAIN order
  BY <1>1, <1>2
<1> HIDE DEF plan2, r, n
<1>10. ASSUME NEW i \in DOMAIN Tail(order), NEW d \in Range(known[Tail(order)[i]].needs)
       PROVE  \/ \E j \in 1..(i - 1) : Tail(order)[j] = d
              \/ \E k \in DOMAIN plan2 : plan2[k].name = d
              \/ Has(d)
  <2>1. i + 1 \in DOMAIN order /\ d \in Range(known[order[i + 1]].needs)
    BY <1>9, <1>10
  <2>2. CASE \E j \in 1..i : order[j] = d
    <3>1. PICK j \in 1..i : order[j] = d
      BY <2>2
    <3>2. CASE j = 1
      BY <1>7, <1>9, <3>1, <3>2
    <3>3. CASE j # 1
      <4>1. j - 1 \in 1..(i - 1) /\ j - 1 \in DOMAIN Tail(order) /\ j \in Nat
        BY <1>1, <1>2, <3>1, <3>3
      <4>2. Tail(order)[j - 1] = order[j]
        BY <1>1, <1>2, <4>1
      <4> QED  BY <3>1, <4>1, <4>2
    <3> QED  BY <3>2, <3>3
  <2>3. CASE \E k \in DOMAIN plan : plan[k].name = d
    BY <1>6, <2>3
  <2>4. i \in Nat /\ (i + 1) - 1 = i
    BY <1>1, <1>2
  <2>5. \/ \E j \in 1..i : order[j] = d
        \/ \E k \in DOMAIN plan : plan[k].name = d
        \/ Has(d)
    BY <1>8, <2>1, <2>4
  <2> QED  BY <2>2, <2>3, <2>5
<1>11. ASSUME NEW i \in DOMAIN plan2, NEW d \in Range(plan2[i].needs)
       PROVE  (\E j \in 1..(i - 1) : plan2[j].name = d) \/ Has(d)
  <2>1. CASE i \in DOMAIN plan
    <3>1. (\E j \in 1..(i - 1) : plan[j].name = d) \/ Has(d)
      BY <1>1, <1>6, <1>11, <2>1 DEF Preparing, Planned, Installing
    <3>2. \A j \in 1..(i - 1) : j \in DOMAIN plan
      BY <1>2, <2>1
    <3> QED  BY <1>6, <3>1, <3>2
  <2>2. CASE i = Len(plan) + 1 /\ plan2[i] = r
    <3>1. d \in Range(known[order[1]].needs)
      BY <1>9, <1>11, <2>2 DEF r
    <3>2. (\E k \in DOMAIN plan : plan[k].name = d) \/ Has(d)
      BY <1>8, <1>9, <3>1
    <3>3. \A k \in DOMAIN plan : k \in 1..(i - 1)
      BY <1>2, <2>2
    <3> QED  BY <1>6, <3>2, <3>3
  <2> QED  BY <1>6, <2>1, <2>2
<1>12. job'[z].plan = plan2
  BY <1>1 DEF plan2, r, n
<1>13. Planning(z)'
  BY <1>1, <1>5, <1>10, <1>12 DEF Planning
<1>14. Planned(z)'
  BY <1>5, <1>11, <1>12 DEF Planned
<1>15. Visiting(z)'
  BY <1>1 DEF Visiting
<1> QED  BY <1>13, <1>14, <1>15 DEF Preparing

\* What is recorded is there for the rest of the plan.
LEMMA RecordPrepared ==
    ASSUME TypeInv, Guarded, [Next]_vars, NEW z \in Zrpkgs, Record(z), Preparing(z)
    PROVE  Preparing(z)'
<1>. DEFINE plan == job[z].plan
<1>1. /\ job[z].at = "record" /\ plan # <<>> /\ job[z].order = <<>>
      /\ job'[z].at = "next" /\ job'[z].order = <<>> /\ job'[z].plan = Tail(plan)
      /\ Now(z) \in Releases /\ Now(z).name \in Names
      /\ db' = [db EXCEPT ![Now(z).name] = Now(z)]
  BY RecordEffect DEF SameWalk
<1>2. plan \in Seq(Releases) /\ Installing(z) /\ plan[1] = Now(z)
  BY <1>1 DEF TypeInv, JobOK, Jobs, Installing, Now
<1>3. \A n : n = plan[1].name => Has(n)'
  <2> SUFFICES ASSUME NEW n, n = Now(z).name  PROVE db'[n] # None
    BY <1>2 DEF Has
  <2>1. db \in [Names -> Releases \cup {None}]
    BY DEF TypeInv, PackagesTypeOK
  <2> QED  BY <1>1, <2>1, ReleaseTyped
<1>4. ASSUME NEW i \in DOMAIN Tail(plan), NEW d \in Range(Tail(plan)[i].needs)
      PROVE  (\E j \in 1..(i - 1) : Tail(plan)[j].name = d) \/ Has(d)'
  <2>1. /\ i + 1 \in DOMAIN plan /\ Tail(plan)[i] = plan[i + 1] /\ i \in Nat
        /\ (i + 1) - 1 = i
    BY <1>1, <1>2
  <2>2. (\E j \in 1..i : plan[j].name = d) \/ Has(d)
    BY <1>2, <1>4, <2>1 DEF Preparing, Planned
  <2>3. d \in Names
    BY <1>4, <2>1, NeedsTyped
  <2>4. CASE Has(d)
    BY <1>2, <2>3, <2>4, HasIsStable
  <2>5. ASSUME NEW j \in 1..i, plan[j].name = d
        PROVE  (\E k \in 1..(i - 1) : Tail(plan)[k].name = d) \/ Has(d)'
    <3>1. CASE j = 1
      BY <1>3, <2>5, <3>1
    <3>2. CASE j # 1
      <4>1. j \in Nat /\ j - 1 \in 1..(i - 1) /\ j - 1 \in 1..(Len(plan) - 1)
        BY <1>1, <1>2, <2>1, <2>5, <3>2
      <4>2. Tail(plan)[j - 1] = plan[(j - 1) + 1] /\ (j - 1) + 1 = j
        BY <1>1, <1>2, <4>1
      <4> QED  BY <2>5, <4>1, <4>2
    <3> QED  BY <3>1, <3>2
  <2> QED  BY <2>2, <2>4, <2>5
<1>5. Planned(z)'
  BY <1>1, <1>4 DEF Planned
<1> QED  BY <1>1, <1>5 DEF Preparing, Visiting, Planning

\* What is planned, in order, needs only what comes before it or is there.
LEMMA OrderPrepared ==
    ASSUME TypeInv, NEW z \in Zrpkgs, Order(z), Preparing(z)
    PROVE  Preparing(z)'
<1>1. /\ job[z].at = "visit" /\ job'[z].at = "next" /\ job'[z].known = job[z].known
      /\ job'[z].order = job[z].order /\ job'[z].plan = <<>>
  BY OrderEffect DEF SameSearch, SameWalk, SamePlan, TypeInv, JobOK
<1>2. Ordered(job'[z].order, job'[z].known)
  BY <1>1 DEF Preparing, Visiting
<1>3. Planning(z)'
  BY <1>2 DEF Planning, Ordered
<1>4. Planned(z)' /\ Visiting(z)'
  BY <1>1 DEF Planned, Visiting
<1> QED  BY <1>3, <1>4 DEF Preparing

\* Every step of a run keeps what it has prepared.
LEMMA StepPrepared ==
    ASSUME TypeInv, Guarded, [Next]_vars, NEW z \in Zrpkgs, Step(z), Preparing(z)
    PROVE  Preparing(z)'
<1>1. JobOK(job[z]) /\ Idle.at = "idle"
  BY DEF TypeInv, Idle
<1>2. CASE Round(z)
  <2>1. job'[z] = Idle \/ (job'[z].order = <<>> /\ job'[z].plan = <<>>
                           /\ job'[z].at \in {"visit", "fetch"})
    BY <1>1, <1>2, RoundEffect DEF SameWalk, SamePlan, JobOK
  <2> QED  BY <1>1, <2>1, IdlePrepared DEF Preparing, Visiting, Planning, Planned, Ordered
<1>3. CASE FetchManifest(z)
  <2>1. job'[z] = Idle \/ (job'[z].plan = <<>> /\ job'[z].at \in {"round", "fetch"})
    BY <1>1, <1>3, FetchEffect DEF SamePlan, JobOK
  <2> QED  BY <1>1, <2>1, IdlePrepared DEF Preparing, Visiting, Planning, Planned
<1>4. CASE Visit(z)
  <2>1. \/ job'[z] = Idle
        \/ /\ job[z].at = "visit" /\ job'[z].at = "visit" /\ job'[z].known = job[z].known
           /\ job'[z].order = job[z].order /\ job'[z].plan = <<>>
    BY <1>1, <1>4, VisitEffect DEF SameSearch, SamePlan, JobOK
  <2>2. CASE job'[z] # Idle
    <3>1. Visiting(z)'
      BY <2>1, <2>2 DEF Preparing, Visiting
    <3> QED  BY <2>1, <2>2, <3>1 DEF Preparing, Planning, Planned
  <2> QED  BY <1>1, <2>2, IdlePrepared
<1>5. CASE Download(z)
  <2>1. job'[z] = Idle \/ (job'[z].at = "unpack" /\ job'[z].plan = job[z].plan
                           /\ Installing(z))
    BY <1>5, DownloadEffect DEF Installing
  <2>2. Planned(z)
    BY DEF Preparing
  <2>3. CASE job'[z] # Idle
    <3>1. Planned(z)'
      BY <2>1, <2>2, <2>3, PlanKept
    <3> QED  BY <2>1, <2>3, <3>1 DEF Preparing, Visiting, Planning
  <2> QED  BY <1>1, <2>3, IdlePrepared
<1>6. CASE Unpack(z)
  <2>1. job'[z].at \in {"unpack", "record"} /\ job'[z].plan = job[z].plan /\ Installing(z)
    BY <1>6, UnpackEffect DEF Installing
  <2>2. Planned(z)'
    BY <2>1, PlanKept DEF Preparing
  <2> QED  BY <2>1, <2>2 DEF Preparing, Visiting, Planning
<1>7. CASE Completes(z) \/ Delete(z) \/ Forget(z)
  BY <1>1, <1>7, CompletesEffect, DeleteEffect, ForgetEffect, IdlePrepared
<1> QED  BY <1>2, <1>3, <1>4, <1>5, <1>6, <1>7, VisitedPrepared, OrderPrepared,
            PlanPrepared, RecordPrepared DEF Step

\* A run that starts, ends or fails has prepared nothing yet.
LEMMA StartPrepared ==
    ASSUME TypeInv, NEW z \in Zrpkgs, NEW roots \in Requests, Install(z, roots)
    PROVE  Preparing(z)'
<1>1. job'[z].at = "round" /\ job'[z].plan = <<>>
  BY InstallEffect DEF Idle
<1> QED  BY <1>1 DEF Preparing, Visiting, Planning, Planned

\* So does every step of the system, for every run.
LEMMA AllPrepared ==
    ASSUME TypeInv, Guarded, [Next]_vars, \A z \in Zrpkgs : Preparing(z)
    PROVE  \A z \in Zrpkgs : Preparing(z)'
<1>1. ASSUME NEW z \in Zrpkgs, \A y \in Zrpkgs \ {z} : job'[y] = job[y], Preparing(z)'
      PROVE  \A y \in Zrpkgs : Preparing(y)'
  BY <1>1, OthersPrepared
<1>2. ASSUME NEW z \in Zrpkgs, NEW roots \in Requests, Install(z, roots)
      PROVE  \A y \in Zrpkgs : Preparing(y)'
  BY <1>1, <1>2, StartPrepared, InstallEffect
<1>3. ASSUME NEW z \in Zrpkgs, NEW n \in Names, NEW force \in BOOLEAN,
             RemovePackage(z, n, force)
      PROVE  \A y \in Zrpkgs : Preparing(y)'
  <2>1. job'[z].at = "delete" /\ \A y \in Zrpkgs \ {z} : job'[y] = job[y]
    BY <1>3, RemoveEffect
  <2> QED  BY <1>1, <2>1, IdlePrepared
<1>4. ASSUME NEW z \in Zrpkgs, Step(z)  PROVE \A y \in Zrpkgs : Preparing(y)'
  <2>1. PICK j : Becomes(z, j)
    BY <1>4, StepJob
  <2> QED  BY <1>1, <1>4, <2>1, StepPrepared, OthersKeep
<1>5. ASSUME NEW z \in Zrpkgs, Interrupted(z)  PROVE \A y \in Zrpkgs : Preparing(y)'
  <2>1. job'[z].at = "idle" /\ \A y \in Zrpkgs \ {z} : job'[y] = job[y]
    BY <1>5, InterruptedEffect DEF Idle
  <2> QED  BY <1>1, <2>1, IdlePrepared
<1>6. ASSUME (\E r \in Releases : Publish(r)) \/ UNCHANGED vars
      PROVE  \A y \in Zrpkgs : Preparing(y)'
  <2>1. job' = job
    BY <1>6 DEF Publish, vars
  <2> QED  BY <2>1, OthersPrepared
<1> QED  BY <1>2, <1>3, <1>4, <1>5, <1>6 DEF Next

\* The first package planned has all it needs beside it when it is recorded; one
\* that is forgotten is needed by nothing, or in `unguarded`.
LEMMA DependenciesStay ==
    ASSUME TypeInv, Guarded, DependenciesInstalled, [Next]_vars,
           \A z \in Zrpkgs : Preparing(z)
    PROVE  DependenciesInstalled'
<1> SUFFICES ASSUME NEW n \in Names, NEW d \in Range(db'[n].needs)  PROVE Has(d)'
  BY DEF DependenciesInstalled, Has
<1>1. /\ db \in [Names -> Releases \cup {None}] /\ db' \in [Names -> Releases \cup {None}]
      /\ \A p \in Names : db[p] # None => db[p].name = p
  BY TypeInvInductive DEF TypeInv, PackagesTypeOK
<1>2. db'[n] \in Releases /\ d \in Names
  <2>1. db'[n] # None
    BY ReleaseTyped DEF Range
  <2>2. db'[n] \in Releases /\ db'[n].needs \in Seq(Names)
    BY <1>1, <2>1, ReleaseTyped
  <2> QED  BY <2>2 DEF Range
<1>3. CASE db'[n] # db[n]
  <2>1. PICK z \in Zrpkgs : /\ Record(z) \/ Forget(z)
                            /\ Now(z).name = n
                            /\ db' = [db EXCEPT ![n] = IF Record(z) THEN Now(z) ELSE None]
    BY <1>3, RecordChanges
  <2>2. Record(z) /\ db'[n] = Now(z)
    <3>1. db'[n] = IF Record(z) THEN Now(z) ELSE None
      BY <1>1, <2>1
    <3> QED  BY <1>2, <3>1, ReleaseTyped
  <2>3. /\ job[z].plan # <<>> /\ job[z].plan \in Seq(Releases) /\ Installing(z)
        /\ Now(z) = job[z].plan[1]
    <3>1. job[z].plan # <<>> /\ job[z].at = "record" /\ JobOK(job[z])
      BY <2>2, RecordEffect DEF TypeInv
    <3>2. job[z].plan \in Seq(Releases)
      BY <3>1 DEF JobOK, Jobs
    <3> QED  BY <3>1, <3>2 DEF Now, Installing
  <2>4. 1 \in DOMAIN job[z].plan /\ d \in Range(job[z].plan[1].needs) /\ 1..(1 - 1) = {}
    BY <2>2, <2>3
  <2>5. Has(d)
    BY <2>3, <2>4 DEF Preparing, Planned
  <2> QED  BY <1>2, <2>3, <2>5, HasIsStable
<1>4. CASE db'[n] = db[n]
  <2>1. Has(d)
    BY <1>4 DEF DependenciesInstalled, Has
  <2>2. CASE d \in unguarded \/ db'[d] = db[d]
    BY <2>1, <2>2, UnguardedGrows DEF Has
  <2>3. CASE d \notin unguarded /\ db'[d] # db[d]
    <3>1. PICK z \in Zrpkgs : /\ Record(z) \/ Forget(z)
                              /\ Now(z).name = d
                              /\ db' = [db EXCEPT ![d] = IF Record(z) THEN Now(z) ELSE None]
      BY <1>2, <2>3, RecordChanges
    <3>2. CASE Record(z)
      <4>1. db'[d] = Now(z) /\ Now(z) # None
        BY <1>1, <1>2, <3>1, <3>2, RecordEffect, ReleaseTyped
      <4> QED  BY <4>1 DEF Has
    <3>3. CASE Forget(z)
      <4>1. Removing(z)
        BY <3>3 DEF Forget, At, Removing
      <4>2. Dependents(d) = {}
        BY <2>3, <3>1, <4>1 DEF Guarded
      <4>3. n \in Dependents(d)
        BY <1>4 DEF Dependents
      <4> QED  BY <4>2, <4>3
    <3> QED  BY <3>1, <3>2, <3>3
  <2> QED  BY <2>2, <2>3
<1> QED  BY <1>3, <1>4

\* DependencyInv always holds.
LEMMA DependencyInvAlways == Spec => [](TypeInv /\ DependencyInv)
<1>1. Init => DependencyInv
  <2> SUFFICES ASSUME Init  PROVE DependencyInv
    OBVIOUS
  <2>1. \A z \in Zrpkgs : job[z].at = "idle"
    BY DEF Init, Idle
  <2>2. \A n \in Names : Range(db[n].needs) = {}
    BY ReleaseTyped DEF Init, Range
  <2> QED  BY <2>1, <2>2 DEF DependencyInv, Guarded, DependenciesInstalled, Visiting,
                             Planning, Planned, Removing, Installing
<1>2. TypeInv /\ DependencyInv /\ [Next]_vars => DependencyInv'
  BY GuardedInductive, DependenciesStay, AllPrepared DEF DependencyInv, Preparing
<1> QED  BY <1>1, <1>2, TypeInvInit, TypeInvInductive, PTL DEF Spec

\* Whatever is installed has what it needs installed beside it, for every
\* repository and every number of runs: an install records a package after what
\* it needs, and a removal that nobody forced and that met no install takes only
\* what nothing needs.
THEOREM DependenciesKept == Spec => []DependenciesInstalled
<1>1. DependencyInv => DependenciesInstalled
  BY DEF DependencyInv
<1> QED  BY <1>1, DependencyInvAlways, PTL

-----------------------------------------------------------------------------
(* An install that completes has installed what it looked up.               *)

\* Versions are numbers, 0 standing for no release.
LEMMA VersionsTyped ==
    ASSUME TypeInv
    PROVE  \A n \in Names : /\ db[n].version \in Nat /\ repo[n].version \in Nat
                            /\ \A z \in Zrpkgs : job[z].known[n].version \in Nat
<1>1. /\ db \in [Names -> Releases \cup {None}] /\ repo \in [Names -> Releases \cup {None}]
      /\ \A z \in Zrpkgs : job[z].known \in [Names -> Releases \cup {None}]
  BY DEF TypeInv, PackagesTypeOK, JobOK, Jobs
<1>2. \A r \in Releases \cup {None} : r.version \in Nat
  <2>1. None.version \in Nat
    BY ReleaseTyped
  <2> QED  BY <2>1, ReleaseTyped
<1> QED  BY <1>1, <1>2

\* A clash is remembered.
LEMMA ClashGrows ==
    ASSUME [Next]_vars  PROVE clash \subseteq clash'
<1>1. ASSUME NEW z \in Zrpkgs, Step(z)  PROVE clash \subseteq clash'
  BY <1>1 DEF Step, Round, FetchManifest, Visit, Visited, Order, Plan, Download, Unpack,
              Record, Completes, Delete, Forget, history, Clashes
<1> QED  BY <1>1 DEF Next, Install, RemovePackage, Interrupted, Publish, vars, history,
                     Clashes

Begins(z) == Download(z) \/ \E n \in Names, force \in BOOLEAN : RemovePackage(z, n, force)

\* A run works on one package from its first file to its record.
LEMMA WorkGoesOn ==
    ASSUME TypeInv, [Next]_vars, NEW z \in Zrpkgs, Working(z)'
    PROVE  \/ /\ Working(z) /\ Now(z)' = Now(z)
              /\ Removing(z)' <=> Removing(z)
           \/ ~Working(z) /\ Begins(z)
<1>1. ASSUME job'[z] = job[z]
      PROVE  Working(z) /\ Now(z)' = Now(z) /\ (Removing(z)' <=> Removing(z))
  BY <1>1 DEF Working, Unpacking, Removing, Now
<1>2. job'[z].at \in {"unpack", "record", "delete", "forget"}
  BY DEF Working, Unpacking, Removing
<1>3. Idle.at = "idle"
  BY DEF Idle
<1>4. ASSUME NEW y \in Zrpkgs, y # z, NEW j, Becomes(y, j)  PROVE job'[z] = job[z]
  BY <1>4, OthersKeep
<1>5. ASSUME NEW y \in Zrpkgs, NEW roots \in Requests, Install(y, roots)
      PROVE  job'[z] = job[z]
  <2>1. job'[y].at = "round"
    BY <1>5, InstallEffect DEF Idle
  <2> QED  BY <1>2, <1>5, <2>1, InstallEffect
<1>6. ASSUME NEW y \in Zrpkgs, Interrupted(y)  PROVE job'[z] = job[z]
  BY <1>2, <1>3, <1>6, InterruptedEffect
<1>7. ASSUME NEW n \in Names, NEW force \in BOOLEAN, RemovePackage(z, n, force)
      PROVE  ~Working(z) /\ Begins(z)
  BY <1>7, RemoveEffect DEF Begins, Working, Unpacking, Removing
<1>8. ASSUME Step(z)
      PROVE  \/ /\ Working(z) /\ Now(z)' = Now(z)
                /\ Removing(z)' <=> Removing(z)
             \/ ~Working(z) /\ Begins(z)
  <2>1. CASE Download(z)
    BY <2>1, DownloadEffect DEF Begins, Working, Unpacking, Removing
  <2>2. CASE Unpack(z)
    BY <2>2, UnpackEffect DEF Now, Working, Unpacking, Removing
  <2>3. CASE Delete(z)
    BY <2>3, DeleteEffect DEF Now, Working, Unpacking, Removing
  <2>4. CASE Round(z) \/ FetchManifest(z) \/ Visit(z) \/ Visited(z) \/ Order(z)
             \/ Plan(z) \/ Record(z) \/ Completes(z) \/ Forget(z)
    <3>1. job'[z].at \notin {"unpack", "record", "delete", "forget"}
      BY <1>3, <2>4, RoundEffect, FetchEffect, VisitEffect, VisitedEffect, OrderEffect,
         PlanEffect, RecordEffect, CompletesEffect, ForgetEffect
    <3> QED  BY <1>2, <3>1
  <2> QED  BY <1>8, <2>1, <2>2, <2>3, <2>4 DEF Step
<1>9. ASSUME NEW y \in Zrpkgs, y # z,
             Step(y) \/ \E n \in Names, force \in BOOLEAN : RemovePackage(y, n, force)
      PROVE  job'[z] = job[z]
  <2>1. PICK j : Becomes(y, j)
    BY <1>9, StepJob, RemoveJob
  <2> QED  BY <1>4, <1>9, <2>1
<1>10. ASSUME (\E r \in Releases : Publish(r)) \/ UNCHANGED vars  PROVE job'[z] = job[z]
  BY <1>10 DEF Publish, vars
<1> QED  BY <1>1, <1>5, <1>6, <1>7, <1>8, <1>9, <1>10 DEF Next

\* It looks for other runs at the same package when it begins.
LEMMA BeginsEffect ==
    ASSUME TypeInv, NEW z \in Zrpkgs, Begins(z), Working(z)'
    PROVE  /\ UNCHANGED <<repo, db, files, partial, loose, dropped>>
           /\ \A y \in Zrpkgs \ {z} : job'[y] = job[y]
           /\ \A n \in Names : n = Now(z)'.name => Clashes(z, n)
           /\ job'[z].left = Now(z)'.files
           /\ Unpacking(z)' => job'[z].at = "unpack" /\ repo[Now(z)'.name] = Now(z)'
           /\ Removing(z)' => job'[z].at = "delete" /\ db[Now(z)'.name] = Now(z)'
<1>1. CASE Download(z)
  <2>1. Now(z)' = Now(z) /\ job'[z].at = "unpack"
    BY <1>1, DownloadEffect DEF Now, Idle, Working, Unpacking, Removing
  <2> QED  BY <1>1, <2>1, DownloadEffect DEF Idle, Removing
<1>2. ASSUME NEW n \in Names, NEW force \in BOOLEAN, RemovePackage(z, n, force)
      PROVE  /\ UNCHANGED <<repo, db, files, partial, loose, dropped>>
             /\ \A y \in Zrpkgs \ {z} : job'[y] = job[y]
             /\ Clashes(z, n) /\ Now(z)' = db[n] /\ db[n].name = n
             /\ job'[z].left = Now(z)'.files
             /\ job'[z].at = "delete"
  BY <1>2, RemoveEffect
<1> QED  BY <1>1, <1>2 DEF Begins, Unpacking

\* A run that begins to work on a package another one works on is seen to.
LEMMA ClashSeenInductive ==
    ASSUME TypeInv, ClashSeen, [Next]_vars  PROVE ClashSeen'
<1>1. \A z \in Zrpkgs, n \in Names : WorkingOn(z, n) <=> Working(z) /\ Now(z).name = n
  BY DEF WorkingOn, Working, Unpacking, Removing
<1>2. \A z \in Zrpkgs, n \in Names : WorkingOn(z, n)' <=> Working(z)' /\ Now(z)'.name = n
  BY DEF WorkingOn, Working, Unpacking, Removing, Now
<1>3. ASSUME NEW y \in Zrpkgs, NEW z \in Zrpkgs, NEW n \in Names, y # z,
             WorkingOn(y, n)', WorkingOn(z, n)', ~Working(z)
      PROVE  n \in clash'
  <2>1. Clashes(z, n) /\ job'[y] = job[y]
    BY <1>2, <1>3, WorkGoesOn, BeginsEffect
  <2>2. WorkingOn(y, n)
    BY <1>3, <2>1 DEF WorkingOn, Now
  <2> QED  BY <1>3, <2>1, <2>2 DEF Clashes
<1>4. ASSUME NEW y \in Zrpkgs, NEW z \in Zrpkgs, NEW n \in Names, y # z,
             WorkingOn(y, n)', WorkingOn(z, n)', Working(y), Working(z)
      PROVE  n \in clash'
  <2>1. WorkingOn(y, n) /\ WorkingOn(z, n)
    BY <1>1, <1>2, <1>4, WorkGoesOn
  <2> QED  BY <1>4, <2>1, ClashGrows DEF ClashSeen
<1> QED  BY <1>3, <1>4 DEF ClashSeen

\* Only publishing changes the repository, to a higher version.
LEMMA RepoAges ==
    ASSUME TypeInv, [Next]_vars
    PROVE  \A n \in Names : repo[n].version <= repo'[n].version
<1>1. repo \in [Names -> Releases \cup {None}] /\ \A n \in Names : repo[n].version \in Nat
  BY VersionsTyped DEF TypeInv, PackagesTypeOK
<1>2. ASSUME NEW r \in Releases, Publish(r)
      PROVE  \A n \in Names : repo[n].version <= repo'[n].version
  <2>1. /\ repo' = [repo EXCEPT ![r.name] = r] /\ r.name \in Names
        /\ r.version = repo[r.name].version + 1
    BY <1>2, ReleaseTyped DEF Publish
  <2> SUFFICES ASSUME NEW n \in Names  PROVE repo[n].version <= repo'[n].version
    OBVIOUS
  <2>2. CASE n = r.name
    BY <1>1, <2>1, <2>2
  <2>3. CASE n # r.name
    BY <1>1, <2>1, <2>3
  <2> QED  BY <2>2, <2>3
<1>3. ASSUME repo' = repo  PROVE \A n \in Names : repo[n].version <= repo'[n].version
  BY <1>1, <1>3
<1>4. ASSUME NEW z \in Zrpkgs, Step(z)  PROVE repo' = repo
  BY <1>4, StepShared
<1> QED  BY <1>2, <1>3, <1>4 DEF Next, Install, RemovePackage, Interrupted, vars

\* A release is verified against the one published, and publishing only goes up.
LEMMA NoDowngradeInductive ==
    ASSUME TypeInv, ClashSeen, NoDowngrade, [Next]_vars  PROVE NoDowngrade'
<1>1. /\ db \in [Names -> Releases \cup {None}]
      /\ \A n \in Names : db[n].version \in Nat /\ repo[n].version \in Nat
      /\ \A n \in Names : repo'[n].version \in Nat
      /\ \A n \in Names : repo[n].version <= repo'[n].version
  <2>1. TypeInv'
    BY TypeInvInductive
  <2>2. repo' \in [Names -> Releases \cup {None}] /\ None.version \in Nat
    BY <2>1, ReleaseTyped DEF TypeInv, PackagesTypeOK
  <2>3. \A n \in Names : repo'[n].version \in Nat
    BY <2>2, ReleaseTyped
  <2> QED  BY <2>3, VersionsTyped, RepoAges DEF TypeInv, PackagesTypeOK
<1>2. ASSUME NEW n \in Names, db'[n] # db[n]
      PROVE  \/ db'[n] = None
             \/ \E z \in Zrpkgs : Record(z) /\ WorkingOn(z, n) /\ db'[n] = Now(z)
  <2>1. PICK z \in Zrpkgs : /\ Record(z) \/ Forget(z)
                            /\ Now(z).name = n
                            /\ db' = [db EXCEPT ![n] = IF Record(z) THEN Now(z) ELSE None]
    BY <1>2, RecordChanges
  <2>2. db'[n] = IF Record(z) THEN Now(z) ELSE None
    BY <1>1, <2>1
  <2>3. Record(z) => WorkingOn(z, n)
    BY <2>1 DEF Record, At, WorkingOn
  <2> QED  BY <2>2, <2>3
<1>3. ASSUME NEW n \in Names  PROVE db'[n].version <= repo'[n].version
  <2>1. CASE db'[n] = db[n]
    BY <1>1, <2>1 DEF NoDowngrade
  <2>2. CASE db'[n] = None
    BY <1>1, <2>2, ReleaseTyped
  <2>3. ASSUME NEW z \in Zrpkgs, Record(z), WorkingOn(z, n), db'[n] = Now(z)
        PROVE  db'[n].version <= repo'[n].version
    <3>1. Unpacking(z) /\ Now(z).name = n /\ Now(z).version \in Nat
      BY <2>3, WorkingTyped, ReleaseTyped DEF Record, At, Unpacking, WorkingOn
    <3> QED  BY <1>1, <2>3, <3>1 DEF NoDowngrade
  <2> QED  BY <1>2, <2>1, <2>2, <2>3
<1>4. ASSUME NEW z \in Zrpkgs, Unpacking(z)', NEW r, r = Now(z)'
      PROVE  /\ r.version <= repo'[r.name].version
             /\ db'[r.name].version <= r.version \/ r.name \in clash'
  <2>1. r \in Releases /\ r.name \in Names /\ r.version \in Nat /\ Working(z)'
    <3>1. TypeInv'
      BY TypeInvInductive
    <3>2. JobOK(job'[z]) /\ job'[z].at \in {"unpack", "record"}
      BY <1>4, <3>1 DEF TypeInv, Unpacking
    <3>3. job'[z].plan # <<>> /\ job'[z].plan \in Seq(Releases)
      BY <3>2 DEF JobOK, Jobs
    <3>4. r \in Releases
      BY <1>4, <3>3 DEF Now
    <3> QED  BY <1>4, <3>4, ReleaseTyped DEF Working
  <2>2. CASE Working(z) /\ Now(z)' = Now(z) /\ (Removing(z)' <=> Removing(z))
    <3>1. Unpacking(z) /\ Now(z) = r
      BY <1>4, <2>2 DEF Working, Unpacking, Removing
    <3>2. /\ r.version <= repo[r.name].version
          /\ db[r.name].version <= r.version \/ r.name \in clash
      BY <3>1 DEF NoDowngrade
    <3>3. CASE db'[r.name] = db[r.name]
      BY <1>1, <2>1, <3>2, <3>3, ClashGrows
    <3>4. CASE db'[r.name] = None
      <4>1. db'[r.name].version = 0
        BY <3>4, ReleaseTyped
      <4> QED  BY <1>1, <2>1, <3>2, <4>1
    <3>5. ASSUME NEW y \in Zrpkgs, Record(y), WorkingOn(y, r.name), db'[r.name] = Now(y)
          PROVE  db'[r.name].version <= r.version \/ r.name \in clash'
      <4>1. WorkingOn(z, r.name)
        BY <2>1, <3>1, WorkingTyped DEF Unpacking
      <4>2. CASE y = z
        BY <2>1, <3>1, <3>5, <4>2
      <4>3. CASE y # z
        BY <2>1, <3>5, <4>1, <4>3, ClashGrows DEF ClashSeen
      <4> QED  BY <4>2, <4>3
    <3> QED  BY <1>1, <1>2, <2>1, <3>2, <3>3, <3>4, <3>5
  <2>3. CASE Begins(z)
    <3>1. repo' = repo /\ db' = db /\ r = repo[r.name]
      BY <1>4, <2>1, <2>3, BeginsEffect
    <3> QED  BY <1>1, <2>1, <3>1 DEF NoDowngrade
  <2> QED  BY <2>1, <2>2, <2>3, WorkGoesOn
<1> QED  BY <1>3, <1>4 DEF NoDowngrade

\* One manifest more is still reached from the roots.
LEMMA FetchReached ==
    ASSUME NEW known \in [Names -> Releases \cup {None}], NEW wanted \in SUBSET Names,
           NEW roots, FromRoots(roots, known), AskedNext(roots, known, wanted),
           NEW n \in wanted, NEW r, NEW known2, known2 = [known EXCEPT ![n] = r]
    PROVE  FromRoots(roots, known2) /\ AskedNext(roots, known2, wanted \ {n})
<1>1. /\ known[n] = None /\ n \in Names /\ Range(None.needs) = {}
      /\ \A m \in Names \ {n} : known2[m] = known[m]
  BY ReleaseTyped DEF AskedNext, NamesOf, Range
<1>2. \A m \in Names : Range(known[m].needs) \subseteq Range(known2[m].needs)
  BY <1>1
<1>3. NamesOf(known2) \subseteq NamesOf(known) \cup {n}
  BY <1>1 DEF NamesOf
<1>4. wanted \subseteq Range(roots) \cup UNION {Range(known[m].needs) : m \in Names}
  BY DEF AskedNext
<1>5. AskedNext(roots, known2, wanted \ {n})
  <2>1. wanted \ {n} \subseteq Range(roots) \cup UNION {Range(known2[m].needs) : m \in Names}
    BY <1>2, <1>4
  <2>2. (wanted \ {n}) \cap NamesOf(known2) = {}
    BY <1>3 DEF AskedNext
  <2> QED  BY <2>1, <2>2 DEF AskedNext
<1>6. ASSUME NEW S \in SUBSET Names, Range(roots) \subseteq S, ClosedUnder(S, known2)
      PROVE  NamesOf(known2) \subseteq S
  <2>1. ClosedUnder(S, known)
    BY <1>2, <1>6 DEF ClosedUnder
  <2>2. NamesOf(known) \subseteq S
    BY <1>6, <2>1 DEF FromRoots
  <2>3. CASE n \in Range(roots)
    BY <1>3, <1>6, <2>2, <2>3
  <2>4. CASE n \notin Range(roots)
    <3>1. PICK m \in Names : n \in Range(known[m].needs)
      BY <1>4, <2>4
    <3>2. m \in NamesOf(known)
      BY <1>1, <3>1 DEF NamesOf
    <3>3. n \in S
      BY <2>1, <2>2, <3>1, <3>2 DEF ClosedUnder
    <3> QED  BY <1>3, <2>2, <3>3
  <2> QED  BY <2>3, <2>4
<1> QED  BY <1>5, <1>6 DEF FromRoots

\* A step of a run keeps to what can be reached from its roots.
LEMMA StepReached ==
    ASSUME TypeInv, NEW z \in Zrpkgs, Step(z), Reached(z)
    PROVE  Reached(z)'
<1>1. ASSUME SameSearch(z), Searched(z), job'[z].at # "fetch"  PROVE Reached(z)'
  BY <1>1 DEF Reached, SameSearch, Searched, Installing
<1>2. ASSUME job'[z].at \in {"idle", "delete", "forget"}  PROVE Reached(z)'
  BY <1>2 DEF Reached, Installing, Searched
<1>3. Idle.at = "idle"
  BY DEF Idle
<1>4. CASE Round(z)
  <2>1. CASE job'[z].at = "fetch"
    <3>1. /\ SameSearch(z) /\ Installing(z)
          /\ job'[z].wanted = Undiscovered(job[z].roots, job[z].known)
      BY <1>3, <1>4, <2>1, RoundEffect DEF Installing
    <3>2. AskedNext(job[z].roots, job[z].known, Undiscovered(job[z].roots, job[z].known))
      BY DEF AskedNext, Undiscovered
    <3> QED  BY <2>1, <3>1, <3>2 DEF Reached, SameSearch, Searched
  <2>2. CASE job'[z].at = "visit"
    <3>1. /\ SameSearch(z) /\ Installing(z)
          /\ Undiscovered(job[z].roots, job[z].known) = {}
      BY <1>3, <1>4, <2>2, RoundEffect DEF Installing
    <3> QED  BY <2>2, <3>1 DEF Reached, SameSearch
  <2> QED  BY <1>2, <1>3, <1>4, <2>1, <2>2, RoundEffect
<1>5. CASE Visit(z) \/ Visited(z) \/ Order(z)
  BY <1>1, <1>2, <1>3, <1>5, VisitEffect, VisitedEffect, OrderEffect DEF Searched
<1>6. CASE Plan(z) \/ Download(z)
  BY <1>1, <1>2, <1>3, <1>6, PlanEffect, DownloadEffect DEF Searched
<1>7. CASE Unpack(z) \/ Record(z)
  BY <1>1, <1>7, UnpackEffect, RecordEffect DEF Searched
<1>8. CASE Completes(z) \/ Delete(z) \/ Forget(z)
  BY <1>2, <1>3, <1>8, CompletesEffect, DeleteEffect, ForgetEffect
<1>9. CASE FetchManifest(z)
  <2>1. CASE job'[z] = Idle
    BY <1>2, <1>3, <2>1
  <2>2. CASE job'[z] # Idle
    <3>1. /\ job[z].at = "fetch" /\ job'[z].at \in {"round", "fetch"}
          /\ job'[z].roots = job[z].roots
      BY <1>9, <2>2, FetchEffect
    <3>2. PICK n \in job[z].wanted :
              /\ job'[z].wanted = job[z].wanted \ {n}
              /\ job'[z].known = [job[z].known EXCEPT ![n] = repo[n]]
      BY <1>9, <2>2, FetchEffect
    <3>3. job[z].known \in [Names -> Releases \cup {None}] /\ job[z].wanted \in SUBSET Names
      BY DEF TypeInv, JobOK, Jobs
    <3>4. /\ FromRoots(job[z].roots, job[z].known)
          /\ AskedNext(job[z].roots, job[z].known, job[z].wanted)
      BY <3>1 DEF Reached, Installing
    <3>5. /\ FromRoots(job[z].roots, job'[z].known)
          /\ AskedNext(job[z].roots, job'[z].known, job[z].wanted \ {n})
      BY <3>2, <3>3, <3>4, FetchReached
    <3> QED  BY <3>1, <3>2, <3>5 DEF Reached, Searched
  <2> QED  BY <2>1, <2>2
<1> QED  BY <1>4, <1>5, <1>6, <1>7, <1>8, <1>9 DEF Step

\* An install starts with its roots.
LEMMA InstallReached ==
    ASSUME TypeInv, NEW z \in Zrpkgs, NEW roots \in Requests, Install(z, roots)
    PROVE  Reached(z)'
<1>1. job'[z].at = "round" /\ job'[z].known = [n \in Names |-> None]
  BY InstallEffect DEF Idle
<1>2. NamesOf(job'[z].known) = {}
  BY <1>1 DEF NamesOf
<1> QED  BY <1>1, <1>2 DEF Reached, FromRoots, Searched

\* What is there in some release stays there in that one or a later one while a
\* run installs, unless its removal is in `unguarded` or runs got in each other's way.
LEMMA AtLeastIsStable ==
    ASSUME TypeInv, Guarded, ClashSeen, NoDowngrade, [Next]_vars,
           NEW z \in Zrpkgs, Installing(z),
           NEW n \in Names, NEW v \in Nat, AtLeast(n, v)
    PROVE  AtLeast(n, v)'
<1>1. CASE n \in unguarded \cup clash
  BY <1>1, UnguardedGrows, ClashGrows DEF AtLeast
<1>2. CASE db'[n] = db[n] /\ n \notin unguarded \cup clash
  BY <1>2 DEF AtLeast
<1>3. CASE db'[n] # db[n] /\ n \notin unguarded \cup clash
  <2>1. PICK y \in Zrpkgs : /\ Record(y) \/ Forget(y)
                            /\ Now(y).name = n
                            /\ db' = [db EXCEPT ![n] = IF Record(y) THEN Now(y) ELSE None]
    BY <1>3, RecordChanges
  <2>2. CASE Record(y)
    <3>1. db'[n] = Now(y) /\ Unpacking(y) /\ Now(y).version \in Nat /\ db[n].version \in Nat
      BY <2>1, <2>2, RecordEffect, ReleaseTyped, VersionsTyped
         DEF TypeInv, PackagesTypeOK, Unpacking
    <3>2. db[n].version <= Now(y).version
      BY <1>3, <2>1, <3>1 DEF NoDowngrade
    <3> QED  BY <1>3, <3>1, <3>2 DEF AtLeast
  <2>3. CASE Forget(y)
    <3>1. Removing(y)
      BY <2>3 DEF Forget, At, Removing
    <3> QED  BY <1>3, <2>1, <3>1 DEF Guarded
  <2> QED  BY <2>1, <2>2, <2>3
<1> QED  BY <1>1, <1>2, <1>3

\* Everything reached was visited when install_order returns.
LEMMA OrderAccounted ==
    ASSUME TypeInv, NEW z \in Zrpkgs, Order(z), Reached(z), Visiting(z)
    PROVE  NamesOf(job[z].known) \subseteq Range(job[z].order)
<1>. DEFINE S == Range(job[z].order)
<1>1. /\ job[z].at = "visit" /\ job[z].path = <<>> /\ ToVisit(z) = {}
      /\ JobOK(job[z])
  BY DEF Order, At, TypeInv
<1>2. S \in SUBSET Names
  BY <1>1 DEF JobOK, NamesOf
<1>3. Range(job[z].roots) \subseteq S
  <2>1. Calls(z) = job[z].roots
    BY <1>1 DEF Calls
  <2>2. \A i \in DOMAIN job[z].roots : job[z].roots[i] \in S
    BY <1>1, <2>1 DEF ToVisit
  <2> QED  BY <2>2 DEF Range
<1>4. ClosedUnder(S, job[z].known)
  <2> SUFFICES ASSUME NEW n \in S, NEW d \in Range(job[z].known[n].needs)
               PROVE  d \in S
    BY DEF ClosedUnder
  <2>1. PICK i \in DOMAIN job[z].order : job[z].order[i] = n
    BY DEF Range
  <2>2. PICK j \in 1..(i - 1) : job[z].order[j] = d
    BY <1>1, <2>1 DEF Visiting, Ordered
  <2>3. job[z].order \in Seq(Names)
    BY <1>1 DEF JobOK, Jobs
  <2>4. j \in DOMAIN job[z].order
    BY <2>1, <2>2, <2>3
  <2> QED  BY <2>2, <2>4 DEF Range
<1> QED  BY <1>1, <1>2, <1>3, <1>4 DEF Reached, FromRoots, Installing

\* The filter only takes out what is there in that release.
LEMMA PlanAccounted ==
    ASSUME TypeInv, NEW z \in Zrpkgs, Plan(z), Accounted(z)
    PROVE  Accounted(z)'
<1>. DEFINE known == job[z].known
           order == job[z].order
           plan == job[z].plan
           h == Head(order)
           plan2 == job'[z].plan
<1>1. /\ job[z].at = "next" /\ order # <<>> /\ UNCHANGED <<db, unguarded, clash>>
      /\ job'[z].at = "next" /\ job'[z].known = known /\ job'[z].order = Tail(order)
      /\ plan2 = IF AlreadyCurrent(known[h]) THEN plan ELSE Append(plan, known[h])
  BY PlanEffect DEF SameSearch, OnlyJob, history
<1>2. /\ JobOK(job[z]) /\ order \in Seq(Names) /\ plan \in Seq(Releases)
      /\ known \in [Names -> Releases \cup {None}]
  BY <1>1 DEF TypeInv, JobOK, Jobs
<1>3. h \in Range(order) /\ h \in Names /\ Range(order) = {h} \cup Range(Tail(order))
  BY <1>1, <1>2, RangeOfTail
<1>4. known[h] \in Releases /\ known[h].name = h
  BY <1>2, <1>3 DEF JobOK, NamesOf
<1>5. /\ \A k \in DOMAIN plan : k \in DOMAIN plan2 /\ plan2[k] = plan[k]
      /\ AlreadyCurrent(known[h]) \/ (Len(plan) + 1 \in DOMAIN plan2
                                      /\ plan2[Len(plan) + 1] = known[h])
  <2> HIDE DEF known, h, order
  <2>1. CASE AlreadyCurrent(known[h])
    BY <1>1, <2>1
  <2>2. CASE ~AlreadyCurrent(known[h])
    BY <1>1, <1>2, <1>4, <2>2
  <2> QED  BY <2>1, <2>2
<1>6. AlreadyCurrent(known[h]) => AtLeast(h, known[h].version)
  BY <1>3, <1>4, VersionsTyped DEF AlreadyCurrent, AtLeast
<1>7. \A n, v : AtLeast(n, v)' <=> AtLeast(n, v)
  BY <1>1 DEF AtLeast
<1>8. ASSUME NEW n \in NamesOf(known)
      PROVE  \/ n \in Range(Tail(order))
             \/ \E k \in DOMAIN plan2 : plan2[k] = known[n]
             \/ AtLeast(n, known[n].version)
  <2>1. \/ n \in Range(order)
        \/ \E k \in DOMAIN plan : plan[k] = known[n]
        \/ AtLeast(n, known[n].version)
    BY <1>1 DEF Accounted
  <2> HIDE DEF known, order, plan, h, plan2
  <2> QED  BY <1>3, <1>5, <1>6, <2>1
<1> QED  BY <1>1, <1>7, <1>8 DEF Accounted

\* What leaves the plan is recorded.
LEMMA RecordAccounted ==
    ASSUME TypeInv, Guarded, ClashSeen, NoDowngrade, [Next]_vars,
           NEW z \in Zrpkgs, Record(z), Accounted(z)
    PROVE  Accounted(z)'
<1>. DEFINE known == job[z].known
           plan == job[z].plan
<1>1. /\ job[z].at = "record" /\ plan # <<>> /\ job[z].order = <<>>
      /\ job'[z].known = known /\ job'[z].order = <<>> /\ job'[z].plan = Tail(plan)
      /\ Now(z) \in Releases /\ Now(z).name \in Names
      /\ db' = [db EXCEPT ![Now(z).name] = Now(z)]
  BY RecordEffect DEF SameWalk, SameSearch
<1>2. /\ JobOK(job[z]) /\ plan \in Seq(Releases) /\ plan[1] = Now(z) /\ Installing(z)
      /\ db \in [Names -> Releases \cup {None}]
  <2>1. JobOK(job[z]) /\ plan \in Seq(Releases)
    BY DEF TypeInv, JobOK, Jobs
  <2> QED  BY <1>1, <2>1 DEF TypeInv, PackagesTypeOK, Installing, Now
<1> SUFFICES ASSUME NEW n \in NamesOf(known)
             PROVE  \/ \E k \in DOMAIN Tail(plan) : Tail(plan)[k] = known[n]
                    \/ AtLeast(n, known[n].version)'
  BY <1>1 DEF Accounted
<1>3. n \in Names /\ known[n].name = n /\ known[n].version \in Nat
  BY <1>2, VersionsTyped DEF NamesOf, JobOK
<1>4. \/ \E k \in DOMAIN plan : plan[k] = known[n]
      \/ AtLeast(n, known[n].version)
  BY <1>1 DEF Accounted, Range
<1>5. CASE AtLeast(n, known[n].version)
  <2>1. ASSUME NEW v \in Nat, v = known[n].version  PROVE AtLeast(n, v)'
    BY <1>2, <1>3, <1>5, <2>1, AtLeastIsStable
  <2>2. job'[z].known = known
    BY <1>1
  <2> QED  BY <1>3, <2>1, <2>2 DEF AtLeast
<1>6. ASSUME NEW k \in DOMAIN plan, plan[k] = known[n]
      PROVE  \/ \E j \in DOMAIN Tail(plan) : Tail(plan)[j] = known[n]
             \/ AtLeast(n, known[n].version)'
  <2>1. CASE k = 1
    <3>1. db'[n] = known[n]
      BY <1>1, <1>2, <1>3, <1>6, <2>1
    <3> QED  BY <1>1, <1>3, <3>1 DEF AtLeast
  <2>2. CASE k # 1
    <3>1. k \in Nat /\ k - 1 \in 1..(Len(plan) - 1) /\ (k - 1) + 1 = k
      BY <1>1, <1>2, <2>2
    <3>2. k - 1 \in DOMAIN Tail(plan) /\ Tail(plan)[k - 1] = plan[k]
      BY <1>1, <1>2, <3>1
    <3> QED  BY <1>6, <3>2
  <2> QED  BY <2>1, <2>2
<1> QED  BY <1>4, <1>5, <1>6

\* A run that keeps what it looked up, ordered and planned.
LEMMA AccountKept ==
    ASSUME TypeInv, Guarded, ClashSeen, NoDowngrade, [Next]_vars,
           NEW z \in Zrpkgs, Accounted(z),
           job[z].at \in {"next", "unpack", "record"},
           job'[z].known = job[z].known, job'[z].order = job[z].order,
           job'[z].plan = job[z].plan
    PROVE  Accounted(z)'
<1> SUFFICES ASSUME NEW n \in NamesOf(job[z].known)
             PROVE  \/ n \in Range(job[z].order)
                    \/ \E k \in DOMAIN job[z].plan : job[z].plan[k] = job[z].known[n]
                    \/ AtLeast(n, job[z].known[n].version)'
  BY DEF Accounted
<1>1. n \in Names /\ job[z].known[n].version \in Nat
  BY VersionsTyped DEF NamesOf
<1>2. ASSUME AtLeast(n, job[z].known[n].version)
      PROVE  AtLeast(n, job[z].known[n].version)'
  <2>1. ASSUME NEW v \in Nat, v = job[z].known[n].version  PROVE AtLeast(n, v)'
    BY <1>1, <1>2, <2>1, AtLeastIsStable DEF Installing
  <2> QED  BY <1>1, <2>1 DEF AtLeast
<1> QED  BY <1>2 DEF Accounted

\* Every step of a run accounts for what it looked up.
LEMMA StepAccounted ==
    ASSUME TypeInv, Guarded, ClashSeen, NoDowngrade, [Next]_vars,
           NEW z \in Zrpkgs, Step(z), Reached(z), Visiting(z), Accounted(z)
    PROVE  Accounted(z)'
<1>1. ASSUME job'[z].at \notin {"next", "unpack", "record"}  PROVE Accounted(z)'
  BY <1>1 DEF Accounted
<1>2. Idle.at = "idle"
  BY DEF Idle
<1>3. CASE Round(z) \/ FetchManifest(z) \/ Visit(z) \/ Visited(z)
  BY <1>1, <1>2, <1>3, RoundEffect, FetchEffect, VisitEffect, VisitedEffect
<1>4. CASE Completes(z) \/ Delete(z) \/ Forget(z)
  BY <1>1, <1>2, <1>4, CompletesEffect, DeleteEffect, ForgetEffect
<1>5. CASE Order(z)
  BY <1>5, OrderAccounted, OrderEffect DEF Accounted, SameSearch, SameWalk
<1>6. CASE Download(z)
  <2>1. CASE job'[z] = Idle
    BY <1>1, <1>2, <2>1
  <2>2. CASE job'[z] # Idle
    BY <1>6, <2>2, DownloadEffect, AccountKept DEF SameSearch, SameWalk
  <2> QED  BY <2>1, <2>2
<1>7. CASE Unpack(z)
  BY <1>7, UnpackEffect, AccountKept DEF SameSearch, SameWalk
<1> QED  BY <1>3, <1>4, <1>5, <1>6, <1>7, PlanAccounted, RecordAccounted DEF Step

\* No step leads out of CompletionInv.
LEMMA CompletionInductive ==
    ASSUME TypeInv, DependencyInv, CompletionInv, [Next]_vars
    PROVE  CompletionInv'
<1>1. Guarded /\ ClashSeen /\ NoDowngrade /\ \A z \in Zrpkgs : Visiting(z)
  BY DEF DependencyInv, CompletionInv
<1>2. ASSUME NEW z \in Zrpkgs, job'[z] = job[z]  PROVE Reached(z)' /\ Accounted(z)'
  <2>1. Reached(z)'
    BY <1>2 DEF CompletionInv, Reached, Installing, Searched
  <2>2. CASE job[z].at \in {"next", "unpack", "record"}
    BY <1>1, <1>2, <2>1, <2>2, AccountKept DEF CompletionInv
  <2>3. CASE job[z].at \notin {"next", "unpack", "record"}
    BY <1>2, <2>1, <2>3 DEF Accounted
  <2> QED  BY <2>2, <2>3, <2>1
<1>3. ASSUME NEW z \in Zrpkgs, job'[z].at \in {"idle", "delete", "forget"}
      PROVE  Reached(z)' /\ Accounted(z)'
  BY <1>3 DEF Reached, Accounted, Installing, Searched
<1>4. ASSUME NEW z \in Zrpkgs, NEW roots \in Requests, Install(z, roots)
      PROVE  \A y \in Zrpkgs : Reached(y)' /\ Accounted(y)'
  <2>1. job'[z].at = "round" /\ \A y \in Zrpkgs \ {z} : job'[y] = job[y]
    BY <1>4, InstallEffect DEF Idle
  <2>2. Reached(z)' /\ Accounted(z)'
    BY <1>4, <2>1, InstallReached DEF Accounted
  <2> QED  BY <1>2, <2>1, <2>2
<1>5. ASSUME NEW z \in Zrpkgs, NEW n \in Names, NEW force \in BOOLEAN,
             RemovePackage(z, n, force)
      PROVE  \A y \in Zrpkgs : Reached(y)' /\ Accounted(y)'
  BY <1>2, <1>3, <1>5, RemoveEffect
<1>6. ASSUME NEW z \in Zrpkgs, Step(z)  PROVE \A y \in Zrpkgs : Reached(y)' /\ Accounted(y)'
  <2>1. PICK j : Becomes(z, j)
    BY <1>6, StepJob
  <2>2. Reached(z)' /\ Accounted(z)'
    BY <1>1, <1>6, StepReached, StepAccounted DEF CompletionInv
  <2> QED  BY <1>2, <2>1, <2>2, OthersKeep
<1>7. ASSUME NEW z \in Zrpkgs, Interrupted(z)
      PROVE  \A y \in Zrpkgs : Reached(y)' /\ Accounted(y)'
  <2>1. job'[z].at = "idle" /\ \A y \in Zrpkgs \ {z} : job'[y] = job[y]
    BY <1>7, InterruptedEffect DEF Idle
  <2> QED  BY <1>2, <1>3, <2>1
<1>8. ASSUME job' = job  PROVE \A y \in Zrpkgs : Reached(y)' /\ Accounted(y)'
  BY <1>2, <1>8
<1>9. \A y \in Zrpkgs : Reached(y)' /\ Accounted(y)'
  BY <1>4, <1>5, <1>6, <1>7, <1>8 DEF Next, Publish, vars
<1> QED  BY <1>1, <1>9, ClashSeenInductive, NoDowngradeInductive DEF CompletionInv

\* CompletionInv always holds.
LEMMA CompletionInvAlways == Spec => [](TypeInv /\ DependencyInv /\ CompletionInv)
<1>1. Init => CompletionInv
  <2> SUFFICES ASSUME Init  PROVE CompletionInv
    OBVIOUS
  <2>1. \A z \in Zrpkgs : job[z].at = "idle"
    BY DEF Init, Idle
  <2>2. \A n \in Names : db[n].version = 0 /\ repo[n].version \in Nat
    BY ReleaseTyped, VersionsTyped, TypeInvInit DEF Init
  <2> QED  BY <2>1, <2>2 DEF CompletionInv, ClashSeen, WorkingOn, NoDowngrade, Unpacking,
                             Reached, Accounted, Installing, Searched
<1>2. TypeInv /\ DependencyInv /\ CompletionInv /\ [Next]_vars => CompletionInv'
  BY CompletionInductive
<1> QED  BY <1>1, <1>2, DependencyInvAlways, PTL DEF Spec

\* An install that reports success has installed everything it looked up, at
\* least in the release it looked up, whatever other runs and the repository did
\* meanwhile: all that was fetched is visited, planned unless current, and
\* recorded, and no run that is alone with a package takes it back to an earlier
\* release.
THEOREM CompletedInstalls == Spec => CompletedMeansInstalled
<1>1. ASSUME TypeInv, CompletionInv, NEW z \in Zrpkgs, Completes(z)
      PROVE  Undiscovered(job[z].roots, job[z].known) = {}
  BY <1>1, CompletesEffect DEF CompletionInv, Reached, Searched
<1>2. ASSUME TypeInv, CompletionInv, NEW z \in Zrpkgs, Completes(z),
             NEW n \in NamesOf(job[z].known)
      PROVE  db[n].version >= job[z].known[n].version \/ n \in unguarded \cup clash
  <2>1. job[z].at = "next" /\ job[z].order = <<>> /\ job[z].plan = <<>>
    BY <1>2, CompletesEffect
  <2>2. AtLeast(n, job[z].known[n].version)
    BY <1>2, <2>1 DEF CompletionInv, Accounted, Range
  <2> QED  BY <2>2 DEF AtLeast
<1>. DEFINE Installed == \A z \in Zrpkgs : Completes(z) =>
         /\ Undiscovered(job[z].roots, job[z].known) = {}
         /\ \A n \in NamesOf(job[z].known) :
               db[n].version >= job[z].known[n].version \/ n \in unguarded \cup clash
<1>3. TypeInv /\ DependencyInv /\ CompletionInv => [Installed]_vars
  BY <1>1, <1>2
<1> QED  BY <1>3, CompletionInvAlways, PTL DEF CompletedMeansInstalled

-----------------------------------------------------------------------------
(* The order of the search.                                                 *)

\* Whatever is in progress is so once, and not Done; what is Done is so once.
Once(z) ==
    job[z].at = "visit" =>
        /\ IsInjective(job[z].path) /\ IsInjective(job[z].order)
        /\ Range(job[z].path) \cap Range(job[z].order) = {}

\* A new element leaves a sequence without repetitions.
LEMMA InjectiveAppend ==
    ASSUME NEW S, NEW s \in Seq(S), NEW e \in S, e \notin Range(s), IsInjective(s)
    PROVE  IsInjective(Append(s, e))
<1> SUFFICES ASSUME NEW i \in DOMAIN Append(s, e), NEW j \in DOMAIN Append(s, e),
                    Append(s, e)[i] = Append(s, e)[j]
             PROVE  i = j
  BY DEF IsInjective
<1>1. \A k \in DOMAIN Append(s, e) : \/ (k \in DOMAIN s /\ Append(s, e)[k] = s[k])
                                     \/ (k = Len(s) + 1 /\ Append(s, e)[k] = e)
  OBVIOUS
<1>2. \A k \in DOMAIN s : s[k] # e
  BY DEF Range
<1>3. \A k \in DOMAIN s : \A l \in DOMAIN s : s[k] = s[l] => k = l
  BY DEF IsInjective
<1> QED  BY <1>1, <1>2, <1>3

\* The last element of one is not among those before it.
LEMMA InjectiveFront ==
    ASSUME NEW S, NEW s \in Seq(S), s # <<>>, IsInjective(s)
    PROVE  IsInjective(Front(s)) /\ Last(s) \notin Range(Front(s))
<1>1. /\ Len(s) \in DOMAIN s /\ Last(s) = s[Len(s)]
  BY DEF Last
<1>2. \A i \in DOMAIN Front(s) : i \in DOMAIN s /\ Front(s)[i] = s[i] /\ i # Len(s)
  BY DEF Front
<1> QED  BY <1>1, <1>2 DEF IsInjective, Range

\* What visit does to the packages in progress and Done.
LEMMA VisitOnce ==
    ASSUME TypeInv, NEW z \in Zrpkgs, Visit(z), Once(z)
    PROVE  Once(z)'
<1>. DEFINE n == Calls(z)[Min(ToVisit(z))]
           next == [job[z] EXCEPT !.path = Append(@, n)]
<1>1. /\ JobOK(job[z]) /\ job[z].at = "visit" /\ n \in Names
      /\ Becomes(z, Idle) \/ (Becomes(z, next) /\ n \notin Range(job[z].path))
  BY CallsTyped DEF Visit, At, TypeInv
<1>2. n \notin Range(job[z].order)
  <2>1. ToVisit(z) \in SUBSET Nat /\ ToVisit(z) # {}
    BY CallsTyped DEF Visit, ToVisit
  <2> QED  BY <2>1, MinOfNats DEF ToVisit
<1>3. job[z].path \in Seq(Names)
  BY <1>1 DEF JobOK, Jobs
<1>4. CASE Becomes(z, Idle)
  BY <1>4, OthersKeep DEF Once, Idle
<1>5. CASE Becomes(z, next) /\ n \notin Range(job[z].path)
  <2>1. job'[z] = next
    BY <1>5, OthersKeep
  <2> HIDE DEF n
  <2>2. job'[z].path = Append(job[z].path, n) /\ job'[z].order = job[z].order
    BY <1>1, <2>1 DEF JobOK, Jobs
  <2>3. Range(job'[z].path) = Range(job[z].path) \cup {n}
    BY <1>1, <1>3, <2>2, RangeOfAppend
  <2>4. IsInjective(job'[z].path)
    BY <1>1, <1>3, <1>5, <2>2, InjectiveAppend DEF Once
  <2> QED  BY <1>1, <1>2, <2>2, <2>3, <2>4 DEF Once
<1> QED  BY <1>1, <1>4, <1>5

\* What its return does to them.
LEMMA VisitedOnce ==
    ASSUME TypeInv, NEW z \in Zrpkgs, Visited(z), Once(z)
    PROVE  Once(z)'
<1>. DEFINE last == Last(job[z].path)
<1>1. /\ JobOK(job[z]) /\ job[z].at = "visit" /\ job[z].path # <<>>
      /\ Becomes(z, [job[z] EXCEPT !.path = Front(@), !.order = Append(@, last)])
  BY DEF Visited, At, TypeInv
<1>2. job[z].path \in Seq(Names) /\ job[z].order \in Seq(Names)
  BY <1>1 DEF JobOK, Jobs
<1>3. job'[z] = [job[z] EXCEPT !.path = Front(@), !.order = Append(@, last)]
  BY <1>1, OthersKeep
<1>4. job'[z].path = Front(job[z].path) /\ job'[z].order = Append(job[z].order, last)
  BY <1>1, <1>3 DEF JobOK, Jobs
<1>5. /\ last \in Range(job[z].path) /\ last \in Names
      /\ Range(job'[z].path) \subseteq Range(job[z].path)
  BY <1>1, <1>2, <1>4, RangeOfFront
<1>6. IsInjective(job'[z].path) /\ last \notin Range(job'[z].path)
  BY <1>1, <1>2, <1>4, InjectiveFront DEF Once
<1>7. last \notin Range(job[z].order)
  BY <1>1, <1>5 DEF Once
<1>8. Range(job'[z].order) = Range(job[z].order) \cup {last}
  BY <1>2, <1>4, <1>5, RangeOfAppend
<1>9. IsInjective(job'[z].order)
  BY <1>1, <1>2, <1>4, <1>5, <1>7, InjectiveAppend DEF Once
<1> QED  BY <1>1, <1>5, <1>6, <1>8, <1>9 DEF Once

\* No step visits a package twice.
LEMMA OnceInductive ==
    ASSUME TypeInv, [Next]_vars, NEW z \in Zrpkgs, Once(z)
    PROVE  Once(z)'
<1>1. ASSUME job'[z] = job[z]  PROVE Once(z)'
  BY <1>1 DEF Once
<1>2. ASSUME job'[z].at # "visit"  PROVE Once(z)'
  BY <1>2 DEF Once
<1>3. Idle.at = "idle"
  BY DEF Idle
<1>4. CASE Round(z)
  <2>1. CASE job'[z].at = "visit"
    <3>1. SameWalk(z) /\ job[z].path = <<>> /\ job[z].order = <<>>
      BY <1>3, <1>4, <2>1, RoundEffect DEF TypeInv, JobOK
    <3> QED  BY <3>1 DEF Once, SameWalk, IsInjective, Range
  <2> QED  BY <1>2, <2>1
<1>5. CASE FetchManifest(z) \/ Order(z) \/ Plan(z) \/ Download(z) \/ Unpack(z)
  BY <1>2, <1>3, <1>5, FetchEffect, OrderEffect, PlanEffect, DownloadEffect, UnpackEffect
<1>6. CASE Record(z) \/ Completes(z) \/ Delete(z) \/ Forget(z)
  BY <1>2, <1>3, <1>6, RecordEffect, CompletesEffect, DeleteEffect, ForgetEffect
<1>7. CASE Step(z)
  BY <1>4, <1>5, <1>6, <1>7, VisitOnce, VisitedOnce DEF Step
<1>8. CASE Interrupted(z)
  BY <1>2, <1>3, <1>8, InterruptedEffect
<1>9. ASSUME NEW roots \in Requests, Install(z, roots)  PROVE Once(z)'
  <2>1. job'[z].at = "round"
    BY <1>9, InstallEffect DEF Idle
  <2> QED  BY <1>2, <2>1
<1>10. ASSUME NEW n \in Names, NEW force \in BOOLEAN, RemovePackage(z, n, force)
       PROVE  Once(z)'
  BY <1>2, <1>10, RemoveEffect
<1>11. ASSUME NEW y \in Zrpkgs \ {z}, \/ \E roots \in Requests : Install(y, roots)
                                      \/ \E n \in Names, force \in BOOLEAN :
                                            RemovePackage(y, n, force)
                                      \/ Step(y) \/ Interrupted(y)
       PROVE  Once(z)'
  <2>1. z \in Zrpkgs \ {y}
    OBVIOUS
  <2>2. ASSUME NEW roots \in Requests, Install(y, roots)  PROVE job'[z] = job[z]
    BY <2>1, <2>2, InstallEffect
  <2>3. ASSUME NEW n \in Names, NEW force \in BOOLEAN, RemovePackage(y, n, force)
        PROVE  job'[z] = job[z]
    BY <2>1, <2>3, RemoveEffect
  <2>4. CASE Interrupted(y)
    BY <1>1, <2>1, <2>4, InterruptedEffect
  <2>5. CASE Step(y)
    <3>1. PICK j : Becomes(y, j)
      BY <2>5, StepJob
    <3> QED  BY <1>1, <2>1, <3>1, OthersKeep
  <2> QED  BY <1>1, <1>11, <2>2, <2>3, <2>4, <2>5
<1>12. CASE UNCHANGED vars \/ \E r \in Releases : Publish(r)
  BY <1>1, <1>12 DEF vars, Publish
<1> QED  BY <1>7, <1>8, <1>9, <1>10, <1>11, <1>12 DEF Next

\* install_order, whatever the manifests say of each other and in whatever order
\* they are asked for, returns each of them once, after all that it needs; a
\* graph with a cycle is refused before it gets there.
THEOREM InstallOrderIsRight == Spec => OrderIsRight
<1>. DEFINE AllOnce == \A z \in Zrpkgs : Once(z)
           Right == \A z \in Zrpkgs : Order(z) =>
                       /\ Range(job[z].order) = NamesOf(job[z].known)
                       /\ IsInjective(job[z].order)
                       /\ Ordered(job[z].order, job[z].known)
<1>1. Init => AllOnce
  BY DEF Init, Idle, Once
<1>2. TypeInv /\ AllOnce /\ [Next]_vars => AllOnce'
  BY OnceInductive
<1>3. ASSUME TypeInv, DependencyInv, CompletionInv, AllOnce, NEW z \in Zrpkgs, Order(z)
      PROVE  /\ Range(job[z].order) = NamesOf(job[z].known)
             /\ IsInjective(job[z].order)
             /\ Ordered(job[z].order, job[z].known)
  <2>1. job[z].at = "visit"
    BY <1>3, OrderEffect
  <2>2. NamesOf(job[z].known) \subseteq Range(job[z].order)
    BY <1>3, OrderAccounted DEF CompletionInv, DependencyInv
  <2>3. Range(job[z].order) \subseteq NamesOf(job[z].known)
    BY <1>3 DEF TypeInv, JobOK
  <2> QED  BY <1>3, <2>1, <2>2, <2>3 DEF Once, DependencyInv, Visiting
<1>4. TypeInv /\ DependencyInv /\ CompletionInv /\ AllOnce => [Right]_vars
  BY <1>3
<1> HIDE DEF AllOnce, Right
<1>5. OrderIsRight <=> [][Right]_vars
  BY DEF OrderIsRight, Right
<1> QED  BY <1>1, <1>2, <1>4, <1>5, CompletionInvAlways, PTL DEF Spec

-----------------------------------------------------------------------------
(* What is recorded is there, and what is there is recorded.                *)

\* The package a run works on is in hand, and what is left are files of its release.
LEMMA WorkingIsInHand ==
    ASSUME TypeInv, NEW z \in Zrpkgs
    PROVE  /\ \A n \in Names : WorkingOn(z, n) <=> Working(z) /\ Now(z).name = n
           /\ Working(z) => /\ Now(z) \in Releases /\ Now(z).name \in Names
                            /\ job[z].left \subseteq Now(z).files
                            /\ InHand(Now(z).name)
  BY WorkingTyped DEF WorkingOn, Working, Unpacking, Removing, InHand

\* A file that is not contested is shipped by releases of one package.
LEMMA OnlyOwn ==
    ASSUME NEW r \in Releases, NEW s \in Releases, NEW f \in r.files \cap s.files,
           f \notin Contested
    PROVE  r.name = s.name
  BY ReleaseTyped DEF Contested

\* An excuse is remembered.
LEMMA ExcusesGrow ==
    ASSUME [Next]_vars, NEW n, Excused(n)  PROVE Excused(n)'
<1>1. ASSUME NEW z \in Zrpkgs, Step(z)  PROVE loose \subseteq loose' /\ dropped \subseteq dropped'
  BY <1>1 DEF Step, Round, FetchManifest, Visit, Visited, Order, Plan, Download, Unpack,
              Record, Completes, Delete, Forget, history
<1>2. loose \subseteq loose' /\ dropped \subseteq dropped'
  BY <1>1 DEF Next, Install, RemovePackage, Interrupted, Publish, vars, history
<1> QED  BY <1>2, ClashGrows DEF Excused

\* A package stops being partial when it is recorded or forgotten.
LEMMA PartialEnds ==
    ASSUME [Next]_vars, NEW n \in partial, n \notin partial'
    PROVE  \E y \in Zrpkgs : (Record(y) \/ Forget(y)) /\ Now(y).name = n
<1>1. ASSUME NEW z \in Zrpkgs, Step(z)
      PROVE  partial' = partial \/ ((Record(z) \/ Forget(z)) /\ Now(z).name = n)
  BY <1>1 DEF Step, Round, FetchManifest, Visit, Visited, Order, Plan, Download, Unpack,
              Record, Completes, Delete, Forget, history
<1> QED  BY <1>1 DEF Next, Install, RemovePackage, Interrupted, Publish, vars, history

\* A file changes only as one of those left to a run that works on its package, or
\* broke off at it.
LEMMA FileChanges ==
    ASSUME TypeInv, [Next]_vars, NEW f \in Paths, files'[f] # files[f]
    PROVE  \E y \in Zrpkgs :
              /\ Working(y) /\ f \in job[y].left /\ job'[y] # job[y]
              /\ \A x \in Zrpkgs \ {y} : job'[x] = job[x]
              /\ \/ Unpack(y) /\ Unpacking(y)' /\ Now(y)' = Now(y) /\ files'[f] = Now(y)
                 \/ Delete(y) /\ Removing(y)' /\ Now(y)' = Now(y) /\ files'[f] = None
                 \/ /\ Interrupted(y) /\ files'[f] \in {None, Fragment(Now(y))}
                    /\ Now(y).name \in partial' /\ Now(y).name \in loose'
<1>1. PICK y \in Zrpkgs : Unpack(y) \/ Delete(y) \/ Interrupted(y)
  <2>1. ASSUME NEW z \in Zrpkgs, Step(z)  PROVE Unpack(z) \/ Delete(z) \/ files' = files
    BY <2>1 DEF Step, Round, FetchManifest, Visit, Visited, Order, Plan, Download,
                Record, Completes, Forget
  <2> QED  BY <2>1 DEF Next, Install, RemovePackage, Publish, vars
<1>2. files \in [Paths -> Contents]
  BY DEF TypeInv, PackagesTypeOK
<1>3. CASE Unpack(y)
  <2>1. PICK g \in job[y].left : /\ job'[y].left = job[y].left \ {g}
                                 /\ files' = [files EXCEPT ![g] = Now(y)]
                                 /\ job'[y].at = "unpack"
    BY <1>3, UnpackEffect
  <2>2. g = f /\ files'[f] = Now(y)
    BY <1>2, <2>1
  <2>3. job[y].at = "unpack" /\ job'[y].plan = job[y].plan
    BY <1>3, UnpackEffect
  <2> QED  BY <1>3, <2>1, <2>2, <2>3, UnpackEffect DEF Working, Unpacking, Now
<1>4. CASE Delete(y)
  <2>1. PICK g \in job[y].left : /\ job'[y].left = job[y].left \ {g}
                                 /\ files' = [files EXCEPT ![g] = None]
                                 /\ job'[y].at = "delete"
    BY <1>4, DeleteEffect
  <2>2. g = f /\ files'[f] = None
    BY <1>2, <2>1
  <2>3. job[y].at = "delete" /\ job'[y].plan = job[y].plan
    BY <1>4, DeleteEffect
  <2> QED  BY <1>4, <2>1, <2>2, <2>3, DeleteEffect DEF Working, Removing, Now
<1>5. CASE Interrupted(y)
  <2>1. PICK g \in job[y].left, c \in {None, Fragment(Now(y))} :
            files' = [files EXCEPT ![g] = c]
    BY <1>5, InterruptedFiles
  <2>2. g = f /\ files'[f] = c
    BY <1>2, <2>1
  <2>3. job[y].at = "unpack" /\ Now(y).name \in partial' /\ Now(y).name \in loose'
    BY <1>5, InterruptedFiles
  <2>4. job'[y] # job[y] /\ \A x \in Zrpkgs \ {y} : job'[x] = job[x]
    BY <1>5, <2>3, InterruptedEffect DEF Idle
  <2> QED  BY <1>5, <2>1, <2>2, <2>3, <2>4 DEF Working, Unpacking
<1> QED  BY <1>1, <1>3, <1>4, <1>5

\* How the work on a package goes on.
LEMMA WorkMoves ==
    ASSUME TypeInv, [Next]_vars, NEW z \in Zrpkgs, Working(z)
    PROVE  \/ job'[z] = job[z]
           \/ Unpack(z) \/ Delete(z) \/ Record(z) \/ Forget(z) \/ Interrupted(z)
<1>1. ASSUME NEW y \in Zrpkgs, y # z, NEW j, Becomes(y, j)  PROVE job'[z] = job[z]
  BY <1>1, OthersKeep
<1>2. ASSUME NEW y \in Zrpkgs, NEW roots \in Requests, Install(y, roots)
      PROVE  job'[z] = job[z]
  BY <1>2, InstallEffect DEF Working, Unpacking, Removing
<1>3. ASSUME NEW y \in Zrpkgs, NEW n \in Names, NEW force \in BOOLEAN,
             RemovePackage(y, n, force)
      PROVE  job'[z] = job[z]
  BY <1>3, RemoveEffect DEF Working, Unpacking, Removing
<1>4. ASSUME NEW y \in Zrpkgs, y # z, Step(y)  PROVE job'[z] = job[z]
  BY <1>1, <1>4, StepJob
<1>5. ASSUME NEW y \in Zrpkgs, y # z, Interrupted(y)  PROVE job'[z] = job[z]
  BY <1>5, InterruptedEffect
<1>6. ASSUME Step(z)
      PROVE  Unpack(z) \/ Delete(z) \/ Record(z) \/ Forget(z)
  BY <1>6 DEF Step, Round, FetchManifest, Visit, Visited, Order, Plan, Download,
              Completes, At, Working, Unpacking, Removing
<1> QED  BY <1>2, <1>3, <1>4, <1>5, <1>6 DEF Next, Publish, vars

\* Nothing of a package changes while one run alone works on it and does not move.
LEMMA Alone ==
    ASSUME TypeInv, ClashSeen, [Next]_vars, NEW z \in Zrpkgs, Working(z),
           job'[z] = job[z], NEW n \in Names, n = Now(z).name, n \notin clash
    PROVE  /\ db'[n] = db[n]
           /\ n \in partial => n \in partial'
           /\ \A r \in Releases : r.name = n =>
                 \A f \in r.files \ Contested : files'[f] = files[f]
           /\ From(n)' \subseteq From(n)
<1>1. \A y \in Zrpkgs : Working(y) /\ Now(y).name = n => y = z
  BY WorkingIsInHand DEF ClashSeen
<1>2. \A y \in Zrpkgs : (Record(y) \/ Forget(y)) /\ Now(y).name = n => FALSE
  <2> SUFFICES ASSUME NEW y \in Zrpkgs, Record(y) \/ Forget(y), Now(y).name = n
               PROVE  FALSE
    OBVIOUS
  <2>1. y = z
    BY <1>1 DEF Record, Forget, At, Working, Unpacking, Removing
  <2> QED  BY <2>1, RecordEffect, ForgetEffect DEF Idle
<1>3. db'[n] = db[n]
  BY <1>2, RecordChanges
<1>4. n \in partial => n \in partial'
  BY <1>2, PartialEnds
<1>5. \A f \in Paths : files'[f] # files[f] =>
          \E s \in Releases : /\ s.name # n /\ f \in s.files
                              /\ files'[f] \in {s, None, Fragment(s)}
  <2> SUFFICES ASSUME NEW f \in Paths, files'[f] # files[f]
               PROVE  \E s \in Releases : /\ s.name # n /\ f \in s.files
                                          /\ files'[f] \in {s, None, Fragment(s)}
    OBVIOUS
  <2>1. PICK y \in Zrpkgs : /\ Working(y) /\ f \in job[y].left /\ job'[y] # job[y]
                            /\ files'[f] \in {Now(y), None, Fragment(Now(y))}
    BY FileChanges
  <2>2. y # z
    BY <2>1
  <2> QED  BY <1>1, <2>1, <2>2, WorkingIsInHand
<1>6. ASSUME NEW r \in Releases, r.name = n, NEW f \in r.files \ Contested
      PROVE  files'[f] = files[f]
  BY <1>5, <1>6, OnlyOwn, ReleaseTyped
<1>7. From(n)' \subseteq From(n)
  BY <1>5, FragmentName DEF From
<1> QED  BY <1>3, <1>4, <1>6, <1>7

\* A package nobody is at may be begun with, and is intact if it was.
LEMMA BeginsAlone ==
    ASSUME TypeInv, [Next]_vars, NEW z \in Zrpkgs, ~Working(z), Begins(z), Working(z)',
           NEW n \in Names, n = Now(z)'.name, n \notin clash'
    PROVE  /\ ~InHand(n) /\ n \notin clash
           /\ UNCHANGED <<db, files, partial, loose, dropped>>
<1>1. Clashes(z, n) /\ UNCHANGED <<db, files, partial, loose, dropped>>
  BY BeginsEffect
<1>2. ~WorkingOn(z, n)
  BY WorkingIsInHand
<1>3. ~InHand(n)
  BY <1>1, <1>2 DEF Clashes, InHand
<1> QED  BY <1>1, <1>3, ClashGrows

\* What is in hand after a step is a release, and what is left are files of it.
LEMMA WorkTyped ==
    ASSUME TypeInv, [Next]_vars, NEW z \in Zrpkgs, Working(z)', NEW r, r = Now(z)'
    PROVE  r \in Releases /\ r.name \in Names /\ job'[z].left \subseteq r.files
<1>1. JobOK(job'[z]) /\ job'[z].at \in {"unpack", "record", "delete", "forget"}
  BY TypeInvInductive DEF TypeInv, Working, Unpacking, Removing
<1>2. job'[z].plan # <<>> /\ job'[z].plan \in Seq(Releases)
  BY <1>1 DEF JobOK, Jobs
<1>3. r \in Releases
  BY <1>2 DEF Now
<1> QED  BY <1>1, <1>3, ReleaseTyped DEF JobOK, Now

\* Whoever works on a package did so before, or begins.
LEMMA WorkCases ==
    ASSUME TypeInv, [Next]_vars, NEW z \in Zrpkgs, Working(z)'
    PROVE  \/ /\ Working(z) /\ Now(z)' = Now(z) /\ (Removing(z)' <=> Removing(z))
              /\ job'[z] = job[z] \/ Unpack(z) \/ Delete(z)
           \/ ~Working(z) /\ Begins(z)
<1>1. CASE Record(z) \/ Forget(z) \/ Interrupted(z)
  <2>1. job'[z].at \in {"idle", "next"}
    BY <1>1, RecordEffect, ForgetEffect, InterruptedEffect DEF Idle
  <2> QED  BY <2>1 DEF Working, Unpacking, Removing
<1> QED  BY <1>1, WorkGoesOn, WorkMoves

\* What was unpacked stays, and what was recorded is untouched until then.
LEMMA UnpackedInductive ==
    ASSUME TypeInv, ClashSeen, RecordedIsThere, [Next]_vars, NEW z \in Zrpkgs, Unpacked(z)
    PROVE  Unpacked(z)'
<1> SUFFICES ASSUME Unpacking(z)', NEW r, r = Now(z)', r.name \notin clash'
             PROVE  /\ \A f \in r.files \ (job'[z].left \cup Contested) : files'[f] = r
                    /\ job'[z].at = "unpack" /\ job'[z].left = r.files
                       /\ r.name \notin partial' => Intact(r.name)'
  BY DEF Unpacked
<1>1. Working(z)' /\ ~Removing(z)'
  BY DEF Working, Unpacking, Removing
<1>2. r \in Releases /\ r.name \in Names /\ r.name \notin clash /\ r.files \subseteq Paths
  BY <1>1, WorkTyped, ClashGrows, ReleaseTyped
<1>3. CASE ~Working(z) /\ Begins(z)
  <2>1. job'[z].left = r.files
    BY <1>1, <1>3, BeginsEffect
  <2>2. ASSUME r.name \notin partial'  PROVE Intact(r.name)'
    <3>1. /\ ~InHand(r.name) /\ r.name \notin clash
          /\ UNCHANGED <<db, files, partial, loose, dropped>>
      BY <1>1, <1>2, <1>3, BeginsAlone
    <3>2. Intact(r.name)
      BY <1>2, <2>2, <3>1 DEF RecordedIsThere, Intact
    <3> QED  BY <3>1, <3>2 DEF Intact
  <2> QED  BY <2>1, <2>2
<1>4. CASE Working(z) /\ Now(z) = r /\ ~Removing(z) /\ job'[z] = job[z]
  <2>1. Unpacking(z)
    BY <1>4 DEF Working
  <2>2. /\ \A f \in r.files \ (job[z].left \cup Contested) : files[f] = r
        /\ job[z].at = "unpack" /\ job[z].left = r.files /\ r.name \notin partial =>
              Intact(r.name)
    BY <1>2, <1>4, <2>1 DEF Unpacked
  <2>3. /\ db'[r.name] = db[r.name] /\ (r.name \in partial => r.name \in partial')
        /\ \A s \in Releases : s.name = r.name =>
              \A f \in s.files \ Contested : files'[f] = files[f]
    BY <1>2, <1>4, Alone
  <2>4. Intact(r.name) => Intact(r.name)'
    <3>1. db[r.name] # None => db[r.name] \in Releases /\ db[r.name].name = r.name
      BY <1>2 DEF TypeInv, PackagesTypeOK
    <3> QED  BY <1>2, <2>3, <3>1, ReleaseTyped DEF Intact
  <2> QED  BY <1>2, <1>4, <2>2, <2>3, <2>4
<1>5. CASE Working(z) /\ Now(z) = r /\ Unpack(z)
  <2>1. /\ job[z].left \subseteq r.files /\ files \in [Paths -> Contents]
        /\ \A f \in r.files \ (job[z].left \cup Contested) : files[f] = r
    BY <1>2, <1>5, UnpackEffect, WorkingIsInHand
       DEF Unpacked, Unpacking, TypeInv, PackagesTypeOK
  <2>2. \/ job'[z].at = "record" /\ job'[z].left = job[z].left /\ files' = files
        \/ \E f \in job[z].left : /\ job'[z].left = job[z].left \ {f}
                                  /\ files' = [files EXCEPT ![f] = r]
    BY <1>5, UnpackEffect
  <2> QED  BY <1>2, <2>1, <2>2
<1>6. CASE Delete(z)
  BY <1>6, DeleteEffect DEF Unpacking
<1> QED  BY <1>1, <1>3, <1>4, <1>5, <1>6, WorkCases

\* The record stays until Forget, and its files until the first of them is deleted.
LEMMA DeletedInductive ==
    ASSUME TypeInv, ClashSeen, RecordedIsThere, [Next]_vars, NEW z \in Zrpkgs, Deleted(z)
    PROVE  Deleted(z)'
<1> SUFFICES ASSUME Removing(z)', NEW r, r = Now(z)', r.name \notin clash'
             PROVE  /\ db'[r.name] = r
                    /\ job'[z].at = "delete" /\ job'[z].left = r.files
                       /\ r.name \notin partial' => Intact(r.name)'
  BY DEF Deleted
<1>1. Working(z)'
  BY DEF Working
<1>2. r \in Releases /\ r.name \in Names /\ r.name \notin clash
  BY <1>1, WorkTyped, ClashGrows
<1>3. CASE ~Working(z) /\ Begins(z)
  <2>1. db'[r.name] = r
    BY <1>1, <1>3, BeginsEffect
  <2>2. ASSUME r.name \notin partial'  PROVE Intact(r.name)'
    <3>1. /\ ~InHand(r.name) /\ r.name \notin clash
          /\ UNCHANGED <<db, files, partial, loose, dropped>>
      BY <1>1, <1>2, <1>3, BeginsAlone
    <3>2. Intact(r.name)
      BY <1>2, <2>2, <3>1 DEF RecordedIsThere, Intact
    <3> QED  BY <3>1, <3>2 DEF Intact
  <2> QED  BY <2>1, <2>2
<1>4. CASE Working(z) /\ Now(z) = r /\ Removing(z) /\ job'[z] = job[z]
  <2>1. /\ db[r.name] = r
        /\ job[z].at = "delete" /\ job[z].left = r.files /\ r.name \notin partial =>
              Intact(r.name)
    BY <1>2, <1>4 DEF Deleted
  <2>2. /\ db'[r.name] = db[r.name] /\ (r.name \in partial => r.name \in partial')
        /\ \A f \in r.files \ Contested : files'[f] = files[f]
    BY <1>2, <1>4, Alone
  <2>3. Intact(r.name) => Intact(r.name)'
    BY <2>1, <2>2 DEF Intact
  <2> QED  BY <1>4, <2>1, <2>2, <2>3
<1>5. CASE Working(z) /\ Now(z) = r /\ Delete(z)
  <2>1. job[z].left \subseteq r.files /\ db[r.name] = r /\ db' = db
    BY <1>2, <1>5, DeleteEffect, WorkingIsInHand DEF Deleted, Removing
  <2>2. \/ job'[z].at = "forget"
        \/ \E f \in job[z].left : job'[z].left = job[z].left \ {f}
    BY <1>5, DeleteEffect
  <2> QED  BY <2>1, <2>2
<1>6. CASE Unpack(z)
  BY <1>6, UnpackEffect DEF Removing
<1> QED  BY <1>1, <1>3, <1>4, <1>5, <1>6, WorkCases

\* No file but those a run has still to delete, or has unpacked, or the record lists.
LEMMA SweptInductive ==
    ASSUME TypeInv, ClashSeen, NothingLoose, [Next]_vars, NEW z \in Zrpkgs,
           Deleted(z), Swept(z)
    PROVE  Swept(z)'
<1> SUFFICES ASSUME Working(z)', NEW r, r = Now(z)', ~Excused(r.name)'
             PROVE  From(r.name)' \subseteq
                        IF Removing(z)' THEN job'[z].left
                        ELSE db'[r.name].files \cup (r.files \ job'[z].left)
  BY DEF Swept
<1>1. /\ r \in Releases /\ r.name \in Names /\ ~Excused(r.name)
      /\ r.name \notin clash' /\ r.name \notin clash
  BY WorkTyped, ExcusesGrow DEF Excused
<1>2. CASE ~Working(z) /\ Begins(z)
  <2>1. ~InHand(r.name) /\ UNCHANGED <<db, files>>
    BY <1>1, <1>2, BeginsAlone
  <2>2. From(r.name) \subseteq db[r.name].files
    BY <1>1, <2>1 DEF NothingLoose, From, Excused
  <2>3. From(r.name)' = From(r.name)
    BY <2>1 DEF From
  <2>4. Removing(z)' => job'[z].left = db[r.name].files
    BY <1>2, BeginsEffect
  <2> QED  BY <2>1, <2>2, <2>3, <2>4
<1>3. CASE Working(z) /\ Now(z) = r /\ (Removing(z)' <=> Removing(z)) /\ job'[z] = job[z]
  BY <1>1, <1>3, Alone DEF Swept
<1>4. CASE Working(z) /\ Now(z) = r /\ Unpack(z)
  <2>1. /\ ~Removing(z) /\ ~Removing(z)' /\ db' = db
        /\ job[z].left \subseteq r.files /\ files \in [Paths -> Contents]
        /\ From(r.name) \subseteq db[r.name].files \cup (r.files \ job[z].left)
    BY <1>1, <1>4, UnpackEffect, WorkingIsInHand
       DEF Swept, Removing, TypeInv, PackagesTypeOK
  <2>2. CASE job'[z].left = job[z].left /\ files' = files
    BY <2>1, <2>2 DEF From
  <2>3. ASSUME NEW f \in job[z].left, job'[z].left = job[z].left \ {f},
               files' = [files EXCEPT ![f] = r]
        PROVE  From(r.name)' \subseteq db[r.name].files \cup (r.files \ job'[z].left)
    <3>1. From(r.name)' \subseteq From(r.name) \cup {f}
      BY <2>1, <2>3 DEF From
    <3> QED  BY <2>1, <2>3, <3>1
  <2> QED  BY <1>4, <2>1, <2>2, <2>3, UnpackEffect
<1>5. CASE Working(z) /\ Now(z) = r /\ Delete(z)
  <2>1. /\ Removing(z) /\ Removing(z)' /\ From(r.name) \subseteq job[z].left
        /\ files \in [Paths -> Contents]
    BY <1>1, <1>5, DeleteEffect DEF Swept, Removing, TypeInv, PackagesTypeOK
  <2>2. CASE job'[z].left = job[z].left /\ files' = files
    BY <2>1, <2>2 DEF From
  <2>3. ASSUME NEW f \in job[z].left, job'[z].left = job[z].left \ {f},
               files' = [files EXCEPT ![f] = None]
        PROVE  From(r.name)' \subseteq job'[z].left
    <3>1. From(r.name)' \subseteq From(r.name) \ {f}
      BY <2>1, <2>3 DEF From
    <3> QED  BY <2>1, <2>3, <3>1
  <2>4. loose' # loose \cup {r.name}
    BY <1>1 DEF Excused
  <2> QED  BY <1>5, <2>1, <2>2, <2>3, <2>4, DeleteEffect
<1> QED  BY <1>2, <1>3, <1>4, <1>5, WorkCases

\* A package leaves the last hand by being recorded, forgotten or abandoned.
LEMMA HandsLeave ==
    ASSUME TypeInv, [Next]_vars, NEW n \in Names, InHand(n), ~InHand(n)'
    PROVE  \E z \in Zrpkgs : /\ Working(z) /\ Now(z).name = n
                             /\ Record(z) \/ Forget(z) \/ Interrupted(z)
<1>1. PICK z \in Zrpkgs : WorkingOn(z, n)
  BY DEF InHand
<1>2. Working(z) /\ Now(z).name = n
  BY <1>1, WorkingIsInHand
<1>3. ~WorkingOn(z, n)'
  BY DEF InHand
<1>4. job'[z] # job[z]
  BY <1>1, <1>3 DEF WorkingOn, Now
<1>5. ~Unpack(z) /\ ~Delete(z)
  BY <1>1, <1>3, UnpackEffect, DeleteEffect DEF WorkingOn, Now
<1> QED  BY <1>2, <1>4, <1>5, WorkMoves

\* Whoever lets go of a package leaves its record and files in agreement, or partial.
LEMMA RecordedInductive ==
    ASSUME TypeInv, FilesInv, [Next]_vars  PROVE RecordedIsThere'
<1> SUFFICES ASSUME NEW n \in Names, ~InHand(n)', n \notin partial', n \notin clash'
             PROVE  Intact(n)'
  BY DEF RecordedIsThere, Intact
<1>1. n \notin clash
  BY ClashGrows
<1>2. /\ db \in [Names -> Releases \cup {None}] /\ None.files = {}
      /\ db[n] # None => db[n] \in Releases /\ db[n].name = n /\ db[n].files \subseteq Paths
  BY ReleaseTyped DEF TypeInv, PackagesTypeOK
\* a run that is done with the package
<1>3. ASSUME NEW z \in Zrpkgs, Record(z), Now(z).name = n  PROVE Intact(n)'
  <2>1. /\ db'[n] = Now(z) /\ files' = files /\ job[z].left = {} /\ Unpacking(z)
    BY <1>2, <1>3, RecordEffect DEF Unpacking
  <2>2. \A f \in Now(z).files \ Contested : files[f] = Now(z)
    BY <1>1, <1>3, <2>1 DEF FilesInv, Unpacked
  <2> QED  BY <2>1, <2>2 DEF Intact
<1>4. ASSUME NEW z \in Zrpkgs, Forget(z), Now(z).name = n  PROVE Intact(n)'
  <2>1. db'[n] = None
    BY <1>2, <1>4, ForgetEffect
  <2> QED  BY <1>2, <2>1 DEF Intact
<1>5. ASSUME NEW z \in Zrpkgs, Interrupted(z), Working(z), Now(z).name = n
      PROVE  Intact(n)'
  <2>1. UNCHANGED <<db, files>> /\ n \notin partial
    BY <1>5, InterruptedEffect, InterruptedFiles
  <2>2. job[z].at \in {"unpack", "delete"} /\ job[z].left = Now(z).files
    BY <1>5 DEF Interrupted, Working, Unpacking, Removing
  <2>3. Intact(n)
    BY <1>1, <1>5, <2>1, <2>2 DEF FilesInv, Unpacked, Deleted, Unpacking, Removing
  <2> QED  BY <2>1, <2>3 DEF Intact
\* nobody is at the package
<1>6. ASSUME ~InHand(n)  PROVE Intact(n)'
  <2>1. \A z \in Zrpkgs : ~(Working(z) /\ Now(z).name = n)
    BY <1>6, WorkingIsInHand DEF InHand
  <2>2. \A z \in Zrpkgs : ~((Record(z) \/ Forget(z)) /\ Now(z).name = n)
    BY <2>1 DEF Record, Forget, At, Working, Unpacking, Removing
  <2>3. db'[n] = db[n] /\ n \notin partial
    BY <2>2, RecordChanges, PartialEnds
  <2>4. Intact(n)
    BY <1>1, <1>6, <2>3 DEF FilesInv, RecordedIsThere, Intact
  <2>5. ASSUME NEW f \in db[n].files \ Contested  PROVE files'[f] = files[f]
    <3>1. db[n] \in Releases /\ db[n].name = n /\ f \in Paths
      BY <1>2, <2>5
    <3>2. ASSUME files'[f] # files[f]  PROVE FALSE
      <4>1. PICK y \in Zrpkgs : Working(y) /\ f \in job[y].left
        BY <3>1, <3>2, FileChanges
      <4>2. Now(y) \in Releases /\ f \in Now(y).files
        BY <4>1, WorkingIsInHand
      <4> QED  BY <2>1, <2>5, <3>1, <4>1, <4>2, OnlyOwn
    <3> QED  BY <3>2
  <2> QED  BY <2>3, <2>4, <2>5 DEF Intact
<1> QED  BY <1>3, <1>4, <1>5, <1>6, HandsLeave

\* ... and no file behind, or an excuse for it.
LEMMA LooseInductive ==
    ASSUME TypeInv, FilesInv, [Next]_vars  PROVE NothingLoose'
<1> SUFFICES ASSUME NEW f \in Paths, files'[f] # None, NEW n, n = files'[f].name,
                    ~InHand(n)', ~Excused(n)'
             PROVE  f \in db'[n].files
  BY DEF NothingLoose, Excused
<1>1. ~Excused(n) /\ n \notin clash
  BY ExcusesGrow DEF Excused
<1>2. files'[f] = files[f]
  <2>1. ASSUME files'[f] # files[f]  PROVE FALSE
    <3>1. PICK y \in Zrpkgs :
              /\ Working(y)
              /\ \/ Now(y)' = Now(y) /\ Unpacking(y)' /\ files'[f] = Now(y)
                 \/ files'[f] = Fragment(Now(y)) /\ Now(y).name \in loose'
      BY <2>1, FileChanges
    <3>2. CASE Now(y)' = Now(y) /\ Unpacking(y)' /\ files'[f] = Now(y)
      <4>1. InHand(n)'
        BY <3>1, <3>2, WorkingIsInHand DEF InHand, WorkingOn, Unpacking
      <4> QED  BY <4>1
    <3>3. CASE files'[f] = Fragment(Now(y)) /\ Now(y).name \in loose'
      <4>1. n \in loose'
        BY <3>1, <3>3, WorkingIsInHand, FragmentName
      <4> QED  BY <4>1 DEF Excused
    <3> QED  BY <3>1, <3>2, <3>3
  <2> QED  BY <2>1
<1>3. /\ db \in [Names -> Releases \cup {None}] /\ files \in [Paths -> Contents]
      /\ n \in Names /\ f \in From(n)
  BY <1>2, ContentsName DEF TypeInv, PackagesTypeOK, From
<1>4. f \in db[n].files \/ InHand(n)
  BY <1>1, <1>2 DEF FilesInv, NothingLoose, Excused
\* a run that is done with the package
<1>5. ASSUME NEW z \in Zrpkgs, Record(z), Now(z).name = n  PROVE f \in db'[n].files
  <2>1. /\ db'[n] = Now(z) /\ job[z].left = {} /\ Working(z) /\ ~Removing(z)
        /\ db[n].files \subseteq Now(z).files \/ n \in dropped'
    BY <1>3, <1>5, RecordEffect DEF Working, Unpacking, Removing
  <2>2. From(n) \subseteq db[n].files \cup Now(z).files
    BY <1>1, <1>5, <2>1 DEF FilesInv, Swept
  <2> QED  BY <1>3, <2>1, <2>2 DEF Excused
<1>6. ASSUME NEW z \in Zrpkgs, Forget(z), Now(z).name = n  PROVE FALSE
  <2>1. job[z].left = {} /\ Working(z) /\ Removing(z)
    BY <1>6, ForgetEffect DEF Working, Removing
  <2> QED  BY <1>1, <1>3, <1>6, <2>1 DEF FilesInv, Swept
<1>7. ASSUME NEW z \in Zrpkgs, Interrupted(z), Working(z), Now(z).name = n
      PROVE  f \in db'[n].files
  <2>1. db' = db
    BY <1>7, InterruptedEffect
  <2>2. CASE Removing(z)
    <3>1. job[z].left \subseteq Now(z).files /\ db[n] = Now(z)
      BY <1>1, <1>7, <2>2, WorkingIsInHand DEF FilesInv, Deleted
    <3>2. From(n) \subseteq job[z].left
      BY <1>1, <1>7, <2>2 DEF FilesInv, Swept
    <3> QED  BY <1>3, <2>1, <3>1, <3>2
  <2>3. CASE Unpacking(z)
    <3>1. job[z].left = Now(z).files
      <4>1. n \notin loose'
        BY DEF Excused
      <4> QED  BY <1>7, <2>3, <4>1 DEF Interrupted, Unpacking, Installing
    <3>2. From(n) \subseteq db[n].files \cup (Now(z).files \ job[z].left)
      BY <1>1, <1>7, <2>3 DEF FilesInv, Swept, Unpacking, Removing
    <3> QED  BY <1>3, <2>1, <3>1, <3>2
  <2> QED  BY <1>7, <2>2, <2>3 DEF Working
\* nobody is at the package
<1>8. CASE ~InHand(n)
  <2>1. \A z \in Zrpkgs : ~((Record(z) \/ Forget(z)) /\ Now(z).name = n)
    BY <1>3, <1>8, WorkingIsInHand DEF InHand, Record, Forget, At, Working, Unpacking, Removing
  <2>2. db'[n] = db[n]
    BY <1>3, <2>1, RecordChanges
  <2> QED  BY <1>4, <1>8, <2>2
<1> QED  BY <1>3, <1>5, <1>6, <1>7, <1>8, HandsLeave

\* FilesInv always holds.
LEMMA FilesInvAlways == Spec => [](TypeInv /\ CompletionInv /\ FilesInv)
<1>1. Init => FilesInv
  <2> SUFFICES ASSUME Init  PROVE FilesInv
    OBVIOUS
  <2>1. \A z \in Zrpkgs : job[z].at = "idle"
    BY DEF Init, Idle
  <2>2. /\ \A n \in Names : db[n].files = {}
        /\ \A f \in Paths : files[f] = None
    BY ReleaseTyped DEF Init
  <2> QED  BY <2>1, <2>2 DEF FilesInv, RecordedIsThere, NothingLoose, Unpacked, Deleted,
                             Swept, Working, Unpacking, Removing
<1>2. TypeInv /\ CompletionInv /\ FilesInv /\ [Next]_vars => FilesInv'
  BY RecordedInductive, LooseInductive, UnpackedInductive, DeletedInductive, SweptInductive
     DEF FilesInv, CompletionInv
<1>3. TypeInv /\ DependencyInv /\ CompletionInv => CompletionInv
  OBVIOUS
<1> QED  BY <1>1, <1>2, <1>3, CompletionInvAlways, PTL DEF Spec

\* The files of a recorded package are the ones its release holds, for every
\* repository and every number of runs that install, remove, overlap and break
\* off: only a run cut short, two runs at one package, or a path that two
\* packages ship make it otherwise, until the package is installed or removed.
THEOREM RecordedFilesAreThere == Spec => []RecordedIsThere
<1>1. FilesInv => RecordedIsThere
  BY DEF FilesInv
<1> QED  BY <1>1, FilesInvAlways, PTL

\* Every file is in the record of the package it came from, so that a removal
\* deletes all an install unpacked, unless the install was cut short, a file would
\* not go, or a newer release left it out.
THEOREM FilesAreRecorded == Spec => []NothingLoose
<1>1. FilesInv => NothingLoose
  BY DEF FilesInv
<1> QED  BY <1>1, FilesInvAlways, PTL

=============================================================================
