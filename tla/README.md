# A formal model of vakt-os

vakt-os is a small appliance system: a PID 1 written in Rust (`vakt-init`) that
boots, supervises two daemons and a text panel, and shuts the machine down; an
A/B updater for the system image (`vakt-update`, GRUB, and the boot counting in
`vakt-init`); a package manager (`zrpkg`); a network daemon (`vakt-net`); and a
set of Go tools, among them an intrusion detection daemon (`vakt-ids`) and the
server packages come from (`zrpkg-server`). This directory holds TLA+ models of the parts of it where the
difficulty lies in order and interleaving, the TLC instances that check them,
and theorems about them checked by TLAPS.

    tlc  -workers 2 -config MCSupervisor.cfg MCSupervisor.tla
    tlapm SupervisorProofs.tla

Paths below are relative to `src/`; `services.rs`, `shutdown.rs`, `notify.rs`,
`update.rs`, `mount.rs` and `main.rs` without a directory are in
`vakt-init/src/`.


## 1. The system

### Inventory

| Component | State it keeps | Operations | What is hard, and what makes it correct |
|---|---|---|---|
| **Service supervisor** `services.rs`, `notify.rs` | `Control`: phase, services boot waits for, pid table, ready set, status lines, revision, one mutex and one condition variable. Supervisor thread: child, state and restart count of each service, the revision it published. `/run/vakt/services` | start, reap, restart, give up, publish, stop; `note_ready`, `register`, `deregister`, `settle`, `wait_until_ready`, `request_stop`, `wait_until_stopped` | Three threads and the kernel interleave; a READY datagram may overtake the registration of its sender or outlive it. One process per service; no lost wake-up; down means down; the file catches up |
| **Boot and console** `main.rs` | where the main thread is, `FOREGROUND` | mount, splash, wait for readiness, `confirm`, alternate panel and shell | races the shutdown for the console. Nothing is started any more once the system goes down |
| **Shutdown** `shutdown.rs`, `mount.rs` | `UNDER_WAY`, `FOREGROUND` | `execute` from the signal thread and the socket thread | entered twice; a timeout races the answer; volume flushed only after daemons are gone, and it always gets there |
| **Updates** `vakt-update/src/main.rs`, `envblock.rs`, `update.rs`, `build.sh` (grub.cfg) | slot directory, boot environment, state file with the tries left | `apply`, GRUB's choice, `check_and_handle`, `confirm` | a power cut between any two writes and before any write is on the disk; the two slots are booted in any order, by GRUB's default and by hand. An image that does not come up is not tried for ever, a rollback sticks, a confirmed slot stays |
| **zrpkg** `pkg-manager/src` | package records, installed files, repository manifests | install, upgrade, remove, resolve, search | interrupted between unpacking and recording; files shared by packages; dependency order, cycles |
| **vakt-net** `vakt-net/src` | configuration in use, its stamp, the status file; behind it `wpa_supplicant`, a `udhcpc` per interface and the interfaces' addresses, which all outlive the daemon | load, connect (supplicant, carrier, static address or lease), monitor, back off, announce | the file is rewritten in place while it is read; addresses, clients and a supplicant of before are still there. The last configuration is used; no address of another network passes for a connection; boot always gets an answer |
| **vakt-ids** `tools/cmd/vakt-ids` | the baseline, on disk below the directory it watches and in memory; the alert file under `/run` | load, scan, diff, alert, trim, save the baseline | it dies or power is cut between the alert and the save; a file is unreadable in one scan; it sees its own temporary file. Nothing enters the baseline unreported, and little is reported twice |
| **zrpkg-server** `tools/cmd/zrpkg-server` | a token bucket per client address behind a mutex | limit, allow, evict, answer, shut down | the clock is read before the lock is taken; an evicted bucket comes back full. No client gets more than its quota in any period |
| **logfile** `logfile.rs` | current and rotated log of a service | create, write, rotate, drain | the log of a restarted daemon is truncated beside its predecessor's drain thread; bounded size |
| **durable files** `tools/internal/durable` | baseline, PIN, configuration | `WriteFile`: write aside, sync, rename, sync the directory; `WriteInPlace`: truncate and write | a crash leaves the old contents or the new, or, in place, a reader sees an empty file |
| **vakt-panel**, **vakt-audit**, **vakt-compositor**, **vakt-verify**, **vakt-backup**, build and deployment | little or none | user interface, reports, one signature check, scripts | not modelled, see section 6 |

### How the components meet

`vakt-init` forks the daemons and is told by them over a datagram socket that
they are ready; the panel reads the status file the supervisor renames into
place. The boot thread blocks in `wait_until_ready`, then calls `confirm`, which
is what closes the boot budget `vakt-update` opened and `check_and_handle`
spends. A signal or a `SHUTDOWN=` datagram enters `execute`, which takes the
console program's pid out of `FOREGROUND`, asks the supervisor to stop, waits,
flushes and unmounts the volume on which both slots of an update live.

`vakt-net` is one of the daemons: its READY is a datagram of the supervisor's, and
boot waits for it. The panel configures it by rewriting a file in place, since the
daemon's Landlock ruleset names that very file and a renamed one would be out of
its reach; the daemon polls the file's modification time. It starts
`wpa_supplicant` and `udhcpc` in the background, and these talk to it only through
the interface: a carrier, an address. `vakt-ids` keeps its baseline with
`durable.WriteFile` in a directory it watches itself. `zrpkg` fetches from
`zrpkg-server`.


## 2. The modules

| Module | Models | Builds on |
|---|---|---|
| `Supervisor` | the supervisor and everything behind its mutex | |
| `SupervisorProofs` | theorems about it: types, wake-ups, processes | `Supervisor` |
| `ServiceProofs` | theorems about what it says of services: restarts, failure, readiness, what boot waits for | `SupervisorProofs` |
| `Shutdown` | `execute`, the console loop and the volume, composed with the supervisor | `Supervisor` |
| `ShutdownProofs` | theorems about the composition | `Shutdown`, `SupervisorProofs` |
| `Update` | A/B updates across power cuts | |
| `UpdateProofs` | theorems about it: types, the budget, rollbacks and confirmations that last | `Update` |
| `Packages` | runs of `zrpkg` over one install root and one repository | |
| `PackagesProofs` | theorems about it: types, dependencies, completion, the order of an install, files | `Packages` |
| `RateLimit` | what a rate limit promises a client, without buckets | |
| `RepoServer` | `zrpkg-server`: requests, buckets, eviction, shutdown | instantiates `RateLimit` |
| `RepoServerProofs` | theorems about it: the quotas, and that it implements `RateLimit` | `RepoServer` |
| `Ids` | `vakt-ids` and `durable.WriteFile` across crashes and power cuts | |
| `IdsProofs` | theorems about it: types, the baseline, repeated alerts, what a save absorbs | `Ids` |
| `Net` | `vakt-net`, its configuration file and its helpers | |
| `NetProofs` | theorems about it: types, whose address is shown | `Net` |
| `MCSupervisor`, `MCShutdown`, `MCUpdate`, `MCPackages`, `MCRepoServer`, `MCIds`, `MCNet` | instances for TLC | |

Every module holds, beside the definitions its `Next` uses, a few variants of
them that it does not use (`SettleQuietly`, `RefilledUncapped`, `ScannedSavesFirst`, ...). Each is a
mistake someone could make in that code, and each property is known to be
violated when the variant takes the place of the original, so that no property
passes for want of anything to notice.

### Supervisor

*State.* The `Shared` record is `phase`, `awaiting`, `pids`, `ready`, `status`
and `revision`; the condition variable is the set `asleep` of threads blocked
on it, which `notify_all` empties. A `Managed` is `child`, `state` and
`restarts`. The control point of the supervisor thread is `pc`, the position in
its `for service in &mut self.services` is `at`, and `round` says which of
`start_all`, the loop and `stop_all` it is in. `published`, `seen`, `changed`
are the locals of `run`. `body` is the status text being composed and `file`
the contents after the rename. `boot` and `stopper` are the two threads blocked
in `wait_until_ready` and `wait_until_stopped`. Processes are numbered in the
order of their birth and have a `life`, an `owner` and a `line`, the number of
datagrams sent; `socket` is the queue of datagrams. `Names` is what a datagram may
have for `NAME=`.

*Actions.* One per critical section with the thread-local work beside it, or
per system call. `Spawn` and `Register` are two, as the child runs before its
pid is registered. `write_status` takes the mutex once per service, hence one
`Snapshot` per service and one `Publish` for the rename. `wait_tick` is
`TickCheck` (look, give up the lock) and `TickWoken`; a wake-up is leaving
`asleep`, by `notify_all` or by `TickTimeout`. `reap` is `ReapIdle`,
`ReapExited(stable)` with what `try_wait` and the crash window may say, and
`ReapError`, each followed by the settling or the restart the code goes on to.
`stop_all` is `Terminate`, `Collect` in a loop that ends when everybody is gone
or, at the end of a pass, when `GraceExpires` has happened, then `Kill` for who is left; `Mark` announces
it. `Deliver` is one datagram read by `watch_notifications`, which counts for the
service `Attributed` to it: by the kernel's pid if that is in the pid table, else by
its `NAME=`. `DaemonReports(p, name)` and `DaemonExits` are what a daemon, notifying
or not, may do at any time, under any name; `StrangerReports(name)` is any other
process that may write to the socket, which root and the group `vakt` may
(`notify.rs:83-105`), at most `MaxClaims` times.

*History.* `vouched` are the services whose name was believed of a process that does not run
for them, because its pid was not in the table. `ReadyWasReported` excuses these and
no others, so it says that what a registered process sends never counts for another service.

*Abstracted.* A status line is a number; times are absent, a timer may go off
whenever it is running; `exec`, privileges, environment and logs of a daemon.

### Shutdown

Adds `UNDER_WAY`, `FOREGROUND`, where each of the two threads is in `execute`
(`exec`), the console loop (`console`, the programs it has run) and the volume
(`volume`, `dirty`). `Enter` is the swap of `UNDER_WAY`; then
one action per numbered step of `execute`, `AskSupervisor` being the
supervisor's own `StopRequested`. A daemon or a program on the console may write
(`DiskWrite`) while it is alive. `others` says whether the volume is used by a process that
nobody waits for: a `zrpkg` of the panel, a job of the shell, `udhcpc` or
`wpa_supplicant` of `vakt-net`, which live on when the one that started them ends
(`OthersStart`, `OthersEnd`). Any of these makes a plain unmount fail with `EBUSY`
(`mount.rs:298-310`), and the volume is then detached and remains writable for it. The socket thread
reads no datagrams once it is inside `execute`. `reboot(2)` may be refused.

`dirty` is about what PID 1, the daemons and the programs on the console wrote, `others`'
own writes apart: nothing in the code undertakes to save those.
`CleanPowerOff` therefore has two parts. With the daemons stopped in time and the
main thread parked at the flush, what those wrote is on the disk when the power goes, and the
volume is not mounted; and if nobody else is left, it is unmounted.

### Update

`disk` is the persistent volume as the running system sees it and `reach` the
set of volumes a power cut may leave: every change adds to it, a sync or the
kernel's write-back reduces it to `disk`. A file that was never synced may come
back without its contents: the state file (`Torn`) and the two files of a slot
(`"torn"`), but not the boot environment, which `envblock::write` syncs before
its rename. `booted`, `mode` and `apply` are where GRUB, this boot and an
update are.

`Menu` is the entries of `grub.cfg` in their order and `DefaultEntry` its
`default`, which GRUB counts from 0. `Grub` boots the default: slot A, on the
screen or, once slot B is active, on the serial line (`build.sh:437`, `454`).
`Pick` is somebody at the menu who takes any entry, and the only way into slot B
there is. So a boot of slot B may come at any time, whatever the boot environment
says, and the properties are about any order of boots of the two slots; none of them
says that slot B is booted by itself, which `update_grub` shows it is not.

`MountPersistent` is the wait for the volume in `mount.rs`: `mounted`
says whether it was found, which it is when the image can find it (`Findable`),
or, with `SlowDisk`, perhaps not in time. A boot without it reads and writes
none of the update state. The kinds of image an update may bring differ in how far they get:
to readiness, without a daemon, to a panic after or before the decremented
budget was written back, not as far as `vakt-init`, or to a system that does
not find its volume. Slot B is also taken for failed when the volume came too
late for it.

### Packages

*State.* `repo` is what the repository publishes now, `db` the records below
`var/lib`, `files` the install root; a release is a manifest with the archive
it was signed for. Each run of `zrpkg` is a `job`: the requested names, the
manifests known so far, the rounds of `collect_manifests`, and the releases
still to be installed, with the entries left of the one in hand. Nothing locks
the root, and the panel starts a run per button press
(`vakt-panel/main.go:35-69`), hence several jobs.

*Actions.* An install is `Install`, `Round` and `FetchManifest` (one manifest a
step, in the order of the names), then the depth-first search of `resolve.rs`:
`Visit` enters a package, `Visited` returns from it, with the packages in progress on an
explicit `path`, and `Order` is `install_order` returning. `Plan` is the filter by
`already_current`, one record read a step; then for each release `Download`, one
`Unpack` per archive entry, and `Record`; `Completes` ends it. A removal is
`RemovePackage` (its checks), one `Delete` per path, and `Forget`. `Interrupted`
ends a job at any point, by an error, a kill or a power cut. Inside an archive entry, which is
written in place (`install.rs:326-331`), it leaves the file missing or in part
(`Fragment`), the first entry's as well, and counts as having touched the package. `Publish` replaces a
release in the repository at any time. The place of a package in `Misfiled` may hold
another one's release, which `fetch_manifest` refuses.

*History.* `clash`, `unguarded`, `partial`, `loose` and `dropped` remember why
a package may be in disarray. Each is an excuse in the properties, so
what they allow is exactly what is listed there; a package not excused must
be in order. A path that two packages ship (`Contested`) belongs to whoever comes last:
`set_overwrite` (`install.rs:313`) lets the second overwrite it and nothing looks for
it. The properties about files leave such paths to it.

*Abstracted.* Directories, checks of paths, signatures (an archive passes only
with the manifest of its own release), the temporary file behind a rename, and
what a power cut takes from files of runs that were over: neither the entries nor the
records (`db.rs:51-65` renames them into place) are synced.

### RateLimit and RepoServer

*RateLimit* is the promise of `-rate-limit` and `-rate-burst`: for every period
it counts the requests of a client let through in it, and lets one through only
if no period it falls into has used up a burst and `Rate` for each unit of its
length.

*RepoServer* is the code. `buckets`, `tokens` and `lastSeen` are the map behind
the mutex. A goroutine handling a request is a member of `Requests`: `Arrive` computes
`clientIP` and reads the clock, outside the lock; `Admit` and `Deny` are
`allow`, one critical section; `Answer` is the handler. `Wake` computes
`evictStale`'s cutoff and `Evict` applies it, with requests in between; between
reading the clock and taking the lock at most `MaxSkew` passes. `Refilled` is not
clamped from below, as in the code: a reading that comes late takes time back
from a bucket, which is then in debt. `Signal`, `Drained` and `Exit` are the two
goroutines of `main` at shutdown.

`Promise == INSTANCE RateLimit WITH Clients <- Addresses` and
`KeepsPromise == Promise!Spec` say that the server implements the promise. The
refinement mapping is the identity on a history variable, `admitted`, which
counts under the address a request really came from (`Origin`), not the one
`clientIP` made of it. `EvictionAssumption` is what `evictAfter`'s comment asks for: an idle
bucket is full again before it is forgotten; `-rate-limit` and `-rate-burst` can
be set so that it is not.

*Abstracted.* Tokens and times are whole numbers; what is served, the paths
that are refused, and logs.

### Ids

*State.* `tree` is the watched files, `temp` the temporary file of a save, which lies
beside the baseline and is scanned like anything else. `stored` is what the
baseline's path names and `reach` what a power cut may leave there, with
`NoBaseline` for a file that is missing or cannot be parsed. `base`, `current` and
`findings` are the daemon's, `lines` is the length of the alert file. Files are
small or longer than `maxHashBytes`; of the latter only the size is compared.

*Actions.* `Load` takes the stored baseline, or, whatever the error, none.
`Visit` scans one path, or misses it. `Scanned` establishes a baseline or
compares, `Alert` raises one finding, with `Trim` in its two steps when the
file is too long, and `Reported` goes on to the save. `Open`, `Write`, `Sync`,
`Rename` and `SyncDir` are `durable.WriteFile`, each of which may fail and then
removes the temporary file. `Crash` kills the daemon, `PowerCut` the machine:
it takes `/run`, and leaves any member of `reach`. `Change` is anyone changing
a watched file at any point of this.

*History.* `announced` and `repeats` relate alerts to the baselines that are
saved; `crashes` bounds repetition. `Info`, the alert for a fresh baseline,
exempts a save from `AbsorbsOnlyReported`, whether it is still to be raised or was
raised and the save that followed it failed: it is the one that absorbs everything.

*Abstracted.* One value stands for a file's content and its modification time, and
every change keeps the size; the files are scanned in one fixed order; a scan
finds one state of a file; webhook and alert file fail together or not at all.

### Net

*State.* `file` is the configuration as it is, with its mtime, and `fallback` the one
baked into the image, if there is one, which is used when `file` holds nothing
(`config.rs:104-113`); `panel` is where
`writeNetConfig` is between truncating and writing it; `granted` says whether the
ruleset sealed at the start names a file that existed. `cfg` and `stamp` are the locals of `main`'s loop,
`pc` its position in it. `supplicant`, `wpaPid` and `joined` are
`wpa_supplicant`, its pid file and its association. `old` is the network on which a
supplicant lives on that was told to end and did not within 300 ms, as the result of
the SIGTERM is ignored (`main.rs:581-594`); `outlived` remembers that there was one when
the present one was started. `client` and `addrs` are the
`udhcpc` and the addresses of each interface, `lost` the interfaces whose `udhcpc` died
and was not started again. `cable` and `air` are the world.

*Actions.* `Start` is everything up to the loop. An iteration is `ReadStamp`,
`FindConfig`, which reads a baked configuration at once since that one cannot change, then
`ReadConfig` or `UseCable` or `Unconfigured`, then the steps
of `connect`: `Connect` (interface and supplicant), `Join`
(`wait_for_carrier`), and `ConfigureStatic`, or `RequestLease` and `Lease`.
`Fails` is every error return of it: no interface or radio, a supplicant that will not start, no
carrier, an address the kernel refuses or a gateway it refuses once the address is
set, no `udhcpc`, no lease. `Monitor` and `Wait` are one poll each. The
panel may write between any two of them (`Truncate`, `Written`). `Associate`,
`Bind` and `Expire` are the helpers, with what `udhcpc`'s script does to the
addresses (`build.sh`); `OldEnds` is the supplicant of before, which does end; `Event` moves a cable or a network; `HelperDies` and
`DaemonDies` leave everything else of theirs behind.

*Abstracted.* An address is named after the network it belongs to; routes and
resolvers come and go with it and are left out, as is the list of networks in
range. Timeouts may happen at any time. Two writes of the file have different
modification times. A `udhcpc` that is told to end is taken to do so within the
300 ms the daemon gives it; of supplicants only one that is on its network outlives them, one at
a time, and its end leaves the pid file of the next one alone.


## 3. What is model-checked

Runs that pass:

| Run | Instance | Properties |
|---|---|---|
| `supervisor` | two notifying services, one respawned and one not, the processes of both naming the first one; a restart budget of 1, three processes, one datagram each, writes of the status file that may fail | `OneInstance`, `StoppedMeansDown`, `NoLostWakeup`, `AwaitedIsSupervised`, `ReadyWasReported`, `GivesUp` |
| `supervisor_live` | one service, two processes, a datagram of a process that is no daemon, fair threads | `StopCompletes`, `BootIsReleased`, `ZombiesAreReaped`, `ReadinessIsPublished` |
| `shutdown` | one daemon that never reports, one process, two console programs, processes they may leave behind, both requesters, fair threads | `OneSequence`, `DaemonsDownBeforeFlush`, `AtMostOneStray`, `CleanPowerOff`, `GoesDown` |
| `update` | two updates of any kind of image, three attempts, three power cuts anywhere, failing writes, a volume that may come too late, the default entry of the menu and any other picked by hand | `WithinBudget`, `RollBackSticks`, `DurableConfirmIsPermanent`, `TrialEnds` |
| `packages` | three packages with a second release of two of them, one that makes the chain too long, one that makes a cycle and one that may lie in another's place; a path two packages ship; two jobs at a time, three in all, interrupted anywhere; files that cannot be deleted | `DependenciesInstalled`, `RecordedIsThere`, `NothingLoose`, `CompletedMeansInstalled` |
| `server` | two requests at a time of one client, heard directly with and without a header, and through a trusted proxy; a burst of 2 at rate 1, eviction after 4, readings 1 late | `WithinQuota`, `KeepsPromise` |
| `ids` | a hashed and a large file, two changes, two faults of any kind, a fair daemon | `BaselineSurvives`, `RepeatsBounded`, `AbsorbsOnlyReported`, `Converges` |
| `net` | two wireless networks and a cable; four configurations (either network over DHCP, one with an address set by hand, one that is refused); an image with a configuration of its own and one without; one rewrite, one event, and one fault: a daemon or helper dies or will not start, or a supplicant outlives its SIGTERM; fair processes | `LeaseIsFromConfigured`, `ConfigTakesEffect`, `Announces`, `Recovers` |

Each also checks its module's type invariant, which in a module with bounded
loops and counters says that none of them runs past its end.

### Bounds, and why they are enough

- *Services.* The properties relate a service to its own processes, or a
  thread to the set of all services; two services with different options show
  both, and the shipped table has two. The theorems of section 4 lift
  the bound where it matters most.
- *`MaxRestarts` = 1 and three processes* (`MaxPid`): a service is started,
  restarted, and given up on, next to another that runs; a service that was
  stable gets its budget back. `Spawn` is not enabled once `MaxPid` processes were born; `SpawnFails`
  always is, so nothing hides behind the bound but longer histories of the same
  kind.
- *`MaxLine` = 1*: one datagram per process is all that `watch_notifications`
  pays attention to (see section 5).
- *`Names` = {1}, `MaxClaims` = 0* (`supervisor`): the first service's processes name
  themselves, the second's claim to be the first. That is the confusion of names there
  is to notice, and it covers claims of unregistered pids, as each process can speak
  before it is registered and after it was collected. A process that is no daemon speaks in
  `supervisor_live`. The theorems of section 4 are for all names and any number of claims.
- *`MaxPrograms` = 2*: the program on the console when the shutdown begins, and
  one after it; `AtMostOneStray` counts from a point where another is possible.
- *`others`* (`Shutdown`) is one flag, set and cleared any number of times: what matters to an
  unmount is whether there is anybody.
- *`MaxApplies` = 2, `MaxCuts` = 3*: an update of a slot that holds an older
  image, hit by a cut while it is staged, at a boot, and while rolling back.
  Power cycles of a machine that hangs are not counted among the cuts, nor boots
  that miss the volume (`SlowDisk`) or picks at the menu, of which there may be any number.
- *Two jobs at a time, three in all* (`Zrpkgs`, `MaxRuns`): an install and a
  removal beside each other on what a first install left. `MaxRounds` is 3
  instead of 32, so that a chain of three is too long. 2.4 million states; all
  invariants of section 4 were checked on them.
- *`MaxClock` = 5, `EvictAfter` = 4, `Burst` = 2, `MaxSkew` = 1*: the least
  numbers for which `EvictionAssumption` holds with nothing to spare and a
  bucket is forgotten and made again, with a request on its way to the lock in between. Section 4
  proves the same for all numbers.
- *`MaxChanges` = 2, `MaxFaults` = 2* (`Ids`): a change during the report of
  another; a failure and a crash, or a crash and a power cut, in one save.
  `MaxAlertLines` is 1 instead of 1000, so that trimming happens. A file that
  misses a scan is one fault, and comes back in the next. The inductive invariant of section 4
  was also checked with three faults (12 million states).
- *`MaxWrites` = 1, `MaxEvents` = 1, `MaxFaults` = 1* (`Net`): the file may say
  anything or be missing at first, so one rewrite is every change from one
  configuration to another, hit by a network that leaves or comes and by a death.
  0.9 million states. A file that is deleted is left out: nothing in the code does that.

`CHECK_DEADLOCK FALSE` in the supervisor and shutdown instances: both do stop,
when the system is down; and in those of `Packages`, which stop when no job is left
to start; and of `RepoServer`, whose process exits and whose clock ends. `Update`,
`Ids` and `Net` always have a next step, and are checked for it.

### Fairness

`FairSpec` of `Supervisor` assumes that the threads of PID 1 run, that its
two-second tick comes and that the grace period elapses. It assumes nothing of
daemons, which may never exit nor report, and leaves out both timeouts, so
`StopCompletes` and `BootIsReleased` are met by wake-ups alone; the code holds no
lock while it waits and each of its waits is bounded, which is what justifies
weak fairness of one whole thread. `FairShutdownSpec` assumes the same of the
supervisor while the power is on, and of the thread in `execute`; not
of the console program or the main thread, which need not cooperate in a
shutdown. `FairSpec` of `Update` assumes that a boot proceeds, by the default entry or by
one that is picked, and that someone turns a machine that hangs off and on; not that an
update is ever finished, nor that slot B is ever picked.
`FairIdsSpec` assumes that the daemon runs, and is started again when it died,
which is the supervisor's doing. `FairNetSpec` assumes that all processes run:
the daemon, the panel in the middle of a write, the helpers, and that a supplicant that was told to
end does in the end (`OldEnds`). A network in
range answers eventually (weak fairness of `Associate` and `Bind`), and not
always after the daemon's patience is over (strong fairness while it is joining
or polling, which it comes back to on each round of its back-off); without that
`Join` and `Lease` may time out for ever. `Recovers` assumes of the world, in `Reachable`, that the wanted
network stays in reach, and excuses one thing only, an interface whose `udhcpc` died
and was not replaced (`lost`): a daemon that never gets as far as starting one is
not excused. `Packages` and
`RepoServer` have safety properties only: a run of `zrpkg` may be killed and a
request dropped at any point.


## 4. What is proved

For every number of services, processes and datagrams, every set of notifying,
respawning and named services and every restart budget (`SupervisorAssumption`
says only that they are numbers and sets of services):

| Theorem | Statement |
|---|---|
| `TypeCorrect` | `Spec => []TypeOK` |
| `WakeupsAreNotLost` | `Spec => []NoLostWakeup` |
| `NeverTwoInstances` | `Spec => []OneInstance` |
| `StoppedIsDown` | `Spec => []StoppedMeansDown` |
| `RestartsAreBounded` | `Spec => []GivesUp` |
| `FailedForGood` | `Spec => FailedIsFinal` |
| `ReadinessWasReported` | `Spec => []ReadyWasReported` |
| `ShutdownImplementsSupervisor` | `ShutdownSpec => Spec` |
| `ShutdownTypeCorrect` | `ShutdownSpec => []ShutdownTypeOK /\ []TypeOK` |
| `OneSequenceOnly` | `ShutdownSpec => []OneSequence` |
| `FlushAfterDaemons` | `ShutdownSpec => []DaemonsDownBeforeFlush` |
| `OneStrayAtMost` | `ShutdownSpec => AtMostOneStray` |
| `EndsClean` | `ShutdownSpec => CleanPowerOff` |
| `AwaitedHaveProcesses` | `Spec => []AwaitedIsSupervised` |

`FailedIsFinal`, a service marked failed stays so, is proved without being
checked in a run of its own.

Of the package server, for every set of clients and requests and every rate,
burst, eviction age and lateness with `ServerAssumption` (their types) and
`EvictionAssumption` (the one `evictAfter`'s comment makes); of `vakt-ids`, for
every set of files, length of the alert file and number of changes and faults,
with `IdsAssumption` and `NoBaselineAssumption`, that "no baseline" is not a baseline:

| Theorem | Statement |
|---|---|
| `ServerTypeCorrect` | `ServerSpec => []ServerTypeOK` |
| `QuotasHold` | `ServerSpec => []WithinQuota` |
| `ServerImplementsRateLimit` | `ServerSpec => KeepsPromise` |
| `IdsTypeCorrect` | `IdsSpec => []IdsTypeOK` |
| `BaselineIsKept` | `IdsSpec => BaselineSurvives` |
| `RepeatsAreBounded` | `IdsSpec => []RepeatsBounded` |
| `NothingIsAbsorbed` | `IdsSpec => AbsorbsOnlyReported` |

Of A/B updates, for every budget of boots, any images and any number of updates and power cuts
(`UpdateAssumption`); of `vakt-net`, for any networks, configurations, edits, events and deaths
(`NetAssumption`: the names the model gives to networks, interfaces and texts are told apart):

| Theorem | Statement |
|---|---|
| `UpdateTypeCorrect` | `Spec => []TypeOK` |
| `BudgetIsKept` | `Spec => []WithinBudget` |
| `RollBackIsCarriedThrough` | `Spec => RollBackSticks` |
| `ConfirmIsPermanent` | `Spec => DurableConfirmIsPermanent` |
| `NetTypeCorrect` | `NetSpec => []NetTypeOK` |
| `LeasesAreConfigured` | `NetSpec => []LeaseIsFromConfigured` |

Of `zrpkg`, for every repository and whatever it publishes meanwhile, any requests and any
number of runs at once and in all (`PackagesAssumption` says that packages are numbered and
that a release names its own package and its needs):

| Theorem | Statement |
|---|---|
| `PackagesTypeCorrect` | `Spec => []PackagesTypeOK` |
| `DependenciesKept` | `Spec => []DependenciesInstalled` |
| `CompletedInstalls` | `Spec => CompletedMeansInstalled` |
| `InstallOrderIsRight` | `Spec => OrderIsRight` |
| `RecordedFilesAreThere` | `Spec => []RecordedIsThere` |
| `FilesAreRecorded` | `Spec => []NothingLoose` |

`OrderIsRight`, that `install_order` returns everything that was looked up, once, and each
package after all it needs, is proved without a run of its own too; TLC agrees with it on the
`packages` instance and finds it violated by `VisitDependentFirst`.

*The argument.* `TypeOK` and `NoLostWakeup` are inductive as they stand: of each
change that makes a wait pointless, one sees that it empties `asleep`.
`OneInstance` and `StoppedMeansDown` are not; they follow from `LifeInv`, which
says how the processes the kernel knows relate to the ones the supervisor holds:

- `RoundInv`: which control points belong to which of the three rounds, and that
  `Stopped` is announced last;
- `BornInv`: processes are born in order, and one that is being
  registered exists and runs for the service at hand;
- `HeldInv`: every process that exists is the child of the service it runs for,
  or is the one being registered; every child is a process that exists;
- `VacantInv`: `start` is only reached for a service without a child, which in
  the first round needs that all later services have none either;
- `DownInv`: the SIGKILL loop leaves none behind it, and none appears after.

Two processes of one service would both be its child, or one of them would be
starting while the service has a child, against `VacantInv`. After `Mark` no
service has a child, and nothing is being started, so by `HeldInv` no process
exists. TLC checked `LifeInv` on the `supervisor` instance before it was proved.

`GivesUp` and `FailedIsFinal` need, beside `LifeInv`, that `start` is only
reached within the budget (`BudgetInv`, which in the first round rests on nobody
having been restarted yet) and that a failed service neither holds a process
nor is having one started (`FailedInv`): then no exit of its own can relabel
it, nor `stop_all`. `ReadyWasReported` follows from `ReportInv`: the pid table
only names the service a process runs for, each datagram with a pid in the socket was sent by that
process, and a service recorded as ready was reported by a process of its own or is
`vouched`. `BudgetInv`, `FailedInv` and `ReportInv` were also checked on
the `supervisor` instance first.

`ShutdownImplementsSupervisor` carries these over to the composed system: each
step of it is a step of the supervisor or leaves the supervisor alone. With it,
`FlushAfterDaemons` needs only that an answer of `wait_until_stopped` is never taken
back, that "stopped" is only answered once the phase is `Stopped`, and that
`execute` gets past step 2 with an answer. `EndsClean` adds that no daemon or console program is left to
write after the flush, as a main thread that has parked has reaped its program (`EndInv`).
`Quiet(left)` says so, with `left` for whether somebody else may still be there to make the
unmount fail: it is preserved by each step for both values, since a process nobody waits for can only come of
one that is alive, and reboot(2) finds it. `OneStrayAtMost` counts the program
the console may be about to run among those it ran (`GivenWay`).

`AwaitedIsSupervised` rests on `AwaitedInv`: a service that boot waits for has a child,
or its turn in the present round is still to come or not over (`Coming`). What has
to be seen is that no turn ends with a service that is neither running nor withdrawn by
`settle`.

*The quotas.* A bucket does not say how much a client was let through; `LimitInv` relates
the two. The worth of a bucket is what it would have held at moment 0, had it been filled
ever since; what was let through in a period is paid for by what the worth lacks of a
burst at its beginning (`SpentInv`). A reading of the clock is at most `MaxSkew`
old when it is used (`ReadingInv`), no bucket owes more than it has earned since the server started
(`SolventInv`), and a client without a bucket has earned back all it was ever let through
for (`ForgottenInv`), which is where `EvictionAssumption` is used. The
refinement then needs only that a request is admitted when its bucket holds a
token, and so fits the quota of every period it falls into.

*The baseline.* `StepInv` says what the daemon has in memory at each of its steps.
`BaselineSurvives` needs that the temporary file is synced before the rename and
that, once a rename was synced, a power cut finds some baseline (`SaveInv`).
`AbsorbsOnlyReported` needs that what sets the baseline in memory apart from the stored one
was alerted (`AbsorbInv`), which holds from the report on because each finding that is no longer
to be raised was (`ReportInv`), and also after a save that failed. `RepeatsBounded` needs that
a path alerted once more than the daemon died is not found different from how it
was last told (`RepeatInv`), and `LinesInv` bounds the alert file.

*Updates.* `UpdateInv` says that an update only runs while the system is up and starts its
image from nothing used, and that a boot misses the volume only when its image cannot find it or counts as failed (`StageInv`); that while nothing goes wrong the slot is whole between updates and
every volume a power cycle may leave holds the same one (`SlotInv`); that boots used and boots left
add up to the budget while slot B is active and the power stays on (`CountInv`); and that with power cuts
they exceed it by no more than the cuts, and on a volume that a cut may bring back by one
boot more, whose decrement may not be on it yet (`CutInv`, with `Debt`). All of them hold for boots of either slot in any order. The two properties that something lasts name a number of updates;
for each there is a state predicate, `Sticks(k)` and `Settled(k)`, that holds when the rollback or the confirmed
volume is there, that every step preserves while no further update is applied, and that
excludes what must not follow. Both speak of all volumes in `reach`, since a power cut
may bring back any of them. A slot B that is picked after its rollback is started again, but with slot A
active; `RollBackSticks` says that nothing else starts it.

*Leases.* `LeaseIsFromConfigured` needs that `wpa_supplicant`, while the daemon connects
or watches, looks for the configured network or does not run (`RadioInv`), and that from
the request on the radio has no address but one of that network (`LeaseInv`): the request starts from none,
and `udhcpc` can only be answered by the network that is joined. A supplicant that outlived its SIGTERM
keeps the radio on its network, so both except that case (`outlived`), which `HelperInv` ties to there being an
`old` one; that an exception ends only while nothing is shown connected is `ConnectInv`. `HelperInv` keeps the addresses of an
interface to a lease and one set by hand. All of these invariants were checked by TLC before they were proved.

*Packages.* No property here is inductive: what is installed rests on what each run has
worked out so far, and other runs change records, files and the repository under it.
`TypeInv` adds to the types that nothing is planned before the search and that the search
only meets packages that were looked up. `DependencyInv` follows the needs of a package through a run:
while it is searched, the order so far has every package after its needs (`Visiting`); while
records are read, each need of what remains comes earlier, is planned, or is installed (`Planning`); while the plan is
carried out, each need of an entry is before it or installed (`Planned`). A removal is the only step that
takes an installed need away, and one that is not excused found nothing in need of the package
(`Guarded`), which stays so because no install runs beside it.

`CompletionInv` is about what an install reports when it is done. Each manifest known was reached from the names asked for
and each package in the search is needed by the one before it (`Reached`), so that the search meets all of them; from then on each is still
to be read, planned, or recorded in that release or a later one (`Accounted`). That a record never goes
back to an older release needs that nothing recorded or in hand is newer than what is published
(`NoDowngrade`), as an archive passes only with the manifest of its own release, and that two
runs at one package are noticed (`ClashSeen`). `OrderIsRight` adds that neither the order nor the path names a package
twice (`Once`); that the search takes the first package left to visit is the least element of a set of
numbers (`MinOfNats`, from the well-foundedness of the naturals).

`FilesInv` says of the run that works on a package what it has done to its files: what is no longer left
is in place (`Unpacked`); the record is still the one it deletes (`Deleted`); and no file of the package is
about but those it has still to delete, or has unpacked, or the record lists (`Swept`). A run that breaks off
inside an entry changes that one file of the package it works on, to nothing or to a fragment
(`InterruptedFiles`), and leaves the package excused. The two properties about files are
these three at the moment the run lets go, by recording, forgetting or breaking off. All of these were checked by TLC on the
`packages` instance before they were proved.

*Only model-checked* is liveness, which is out of the prover's reach: `StopCompletes`, `BootIsReleased`,
`ZombiesAreReaped`, `ReadinessIsPublished`, `GoesDown`, `TrialEnds`, `Converges`,
`ConfigTakesEffect`, `Announces` and `Recovers`.


## 5. Where the code and its documents disagree

Runs that TLC ends with a counterexample to what a comment or document says:

| Run | Claim | What happens |
|---|---|---|
| `status_file` | the status file follows readiness (`services.rs:435-438`) | a readiness recorded between the snapshot of `start_all` and the first read of the revision counts as published and never is |
| `update_grub` | with slot B active and its kernel there, GRUB boots slot B (`OS_UPDATES.md:110-111`, `build.sh:420-421`) | `set default=2` (`build.sh:437`) is the third `menuentry`, slot A's kernel on the serial console (`build.sh:454`); slot B is the fourth (`build.sh:459`), and is booted only if somebody picks it |
| `server_drain` | a signal lets running requests finish (`zrpkg-server/main.go:113-116`) | `ListenAndServe` returns as soon as `Shutdown` is called, and `main` exits without waiting for it (`main.go:131`) |
| `net_static` | an address in the configuration is used instead of DHCP (`config.rs:15-16`, `OPERATIONS.md:255`) | `connect` goes straight to `configure_static` (`main.rs:264`), and the `udhcpc` of an earlier DHCP configuration keeps running on the interface, whose next lease replaces the address |

Further configurations that TLC ends in the same way; run
them with `tlc -config <name>.cfg <module>`:

| Configuration | Claim | What happens |
|---|---|---|
| `MCStaleReady` (`MCSupervisor`) | a restarted daemon is not ready before it reported (`services.rs:176-177`) | a datagram of the dead one, read after its pid was deregistered, is believed by its `NAME=` |
| `MCConsoleRace` (`MCShutdown`) | the console session is ended first (`shutdown.rs:181-182`) | the console looks at `under_way`, `execute` finds `FOREGROUND` empty, the console starts its program: nobody is signalled |
| `MCStranger` (`MCSupervisor`) | a service cannot report for another, the sender being known by its credentials (`notify.rs:13-15`) | a pid that is not in the table, or not yet or no more, is believed by its `NAME=` (`services.rs:156-159`, `main.rs:441-446`) |
| `MCFiveCrashes` (`MCSupervisor`) | a service is not restarted after 5 crashes in 60 seconds (`OPERATIONS.md:166`) | `restarts > MAX_RESTARTS` (`services.rs:499-500`) restarts it after the fifth and gives up on the sixth |
| `MCLeftBehind` (`MCShutdown`) | with console and daemons down nothing uses the volume, and it is unmounted (`shutdown.rs:163-165`, `181-182`) | a process they left behind keeps it busy, and it is detached (`mount.rs:298-310`) |
| `MCUpdateTorn` (`MCUpdate`) | an update that is not whole is refused rather than activated (`OS_UPDATES.md:154-156`) | the new slot's files are not synced before the boot environment is: after a power cut slot B is active with empty files |
| `MCUpdateReady` (`MCUpdate`) | slot B is accepted for reaching readiness (`update.rs:2-3`) | `confirm` is called whatever `wait_until_ready` returned |
| `MCPackagesLoose` (`MCPackages`) | `zrpkg remove` deletes exactly what was installed (`README.md:326`) | an upgrade records the new release's paths over the old ones and leaves the files only the old one had; no removal finds them |
| `MCIdsLarge` (`MCIds`) | larger files are tracked by size and mtime (`vakt-ids/main.go:30-31`) | the comparison never looks at the mtime (`main.go:193`): a change that keeps the size is never reported |
| `MCIdsTemp` (`MCIds`) | the daemon's own files are not reported (`main.go:219-220`) | a temporary file left by a crash in a save is reported as added, then as deleted |
| `MCIdsForgets` (`MCIds`) | a change is reported against the stored baseline (`main.go:115-119`) | an error in reading an existing baseline makes a fresh one, which absorbs what changed since without naming it |
| `MCNetDrop` (`MCNet`) | a dropped link is noticed (`vakt-net/main.rs:402`) | only the address is looked at: one set by hand, or one whose `udhcpc` died, stays when the link goes |

Met on the way, and shown by no run of their own: status lines after the first
are dropped, having no `READY=1` (`vakt-init/main.rs:441`); without a readiness
socket "boot will not wait for daemons" (`main.rs:163-164`), but it does, for all of
`READY_TIMEOUT` (`main.rs:194`); the removal of the state file
in `confirm` is not synced, so a power cut brings the budget back
(`update.rs:122`; `DurableConfirmIsPermanent` says what holds);
between the boot environment and the state file slot B is active without a
budget (`vakt-update/src/main.rs:146`); an image that dies before its decrement
was written back, or before `vakt-init`, spends no boot however often it is picked, which is why
`WithinBudget` and `TrialEnds` speak of the other kinds (`Counted`); a graph of dependencies of exactly
`MAX_RESOLUTION_ROUNDS` levels is refused as deeper than that, the round that
would find nothing missing being counted too (`install.rs:197-209`);
`OPERATIONS.md:256-257` has `vakt-net` reconnect within a second of an edit, but
a connected daemon looks every `HEALTH_CHECK`, ten seconds; a pid file
that outlived its `wpa_supplicant` makes `vakt-net` signal whoever has that
number now.


## 6. What is not modelled, and the plan

Not planned: `vakt-panel`'s screens and its PIN (`auth.go`), `vakt-compositor`, `vakt-audit` and the
scripts, which keep no state of their own or are pure input and output;
`vakt-verify`, a signature check; `console.rs`, `privilege.rs`, `sysctl.rs`, one
system call after another; the rest of early boot in `mount.rs`; the wait for watched
directories and the option `--once` of `vakt-ids`; the routes and resolvers
`udhcpc`'s script sets. Process identifiers are never reused in the models.

Planned, in this order:

1. **Packages**: an abstract system of packages that are installed or not,
   implemented by runs that do not overlap.
2. **LogFile** (`logfile.rs`): bounds under rotation.
3. **Net** composed with `Supervisor` through its READY.
