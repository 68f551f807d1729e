-------------------------------- MODULE Update --------------------------------
(***************************************************************************)
(* A/B updates of the system image, across reboots and power cuts:          *)
(* vakt-update's apply (src/vakt-update/src/main.rs) staging slot B on the  *)
(* persistent volume, GRUB choosing the slot (the grub.cfg of src/build.sh),*)
(* vakt-init looking for the volume (src/vakt-init/src/mount.rs), and its   *)
(* check_and_handle and confirm (src/vakt-init/src/update.rs) spending and  *)
(* closing the boot budget.                                                 *)
(*                                                                          *)
(* The volume is ext4: a power cut keeps a prefix of the changes made since *)
(* the last sync, and a file written without fsync may come back without    *)
(* its contents.  `disk` is what the running system sees, `reach` the set   *)
(* of volumes a power cut may leave.                                        *)
(***************************************************************************)
EXTENDS Naturals, Sequences

CONSTANTS
    MaxTries,       \* MAX_BOOT_ATTEMPTS
    Images,         \* the kinds of image an update may bring
    MaxApplies,     \* bound: updates applied
    MaxCuts,        \* bound: power cuts while the system is not stuck
    WritesMayFail,  \* whether a write to the volume can fail
    SlowDisk        \* whether the volume may turn up after the last attempt

\* good     comes up
\* unready  runs, but a daemon never reports ready
\* late     panics during start-up, after the volume was written back
\* early    panics during start-up, before that
\* dead     does not get as far as vakt-init
\* nodisk   comes up without finding the persistent volume
Kinds == {"good", "unready", "late", "early", "dead", "nodisk"}

ASSUME UpdateAssumption ==
    /\ MaxTries \in Nat
    /\ Images \subseteq Kinds
    /\ MaxApplies \in Nat
    /\ MaxCuts \in Nat
    /\ WritesMayFail \in BOOLEAN /\ SlowDisk \in BOOLEAN

VARIABLES
    disk,       \* the volume as the running system sees it
    reach,      \* the volumes a power cut may leave
    mode,       \* how far this boot is
    booted,     \* the slot of the menu entry that was booted
    mounted,    \* this boot has the volume
    apply,      \* how far vakt-update apply is
    staged,     \* the image in the staging directory
    applies, cuts,
    confirmed,  \* history: this slot B was confirmed
    attempts,   \* history: unconfirmed boots of slot B since the last update
    failed      \* history: a write failed, an update stopped half way, or slot B
                \* did not get the volume in time

history == <<confirmed, attempts, failed>>
vars == <<disk, reach, mode, booted, mounted, apply, staged, applies, cuts, history>>

-----------------------------------------------------------------------------
Absent == MaxTries + 1      \* no state file
Torn == MaxTries + 2        \* a state file that does not parse
Tries == 0..Torn

\* A slot directory: which image it holds and which of its files are there.
\* "torn" is an image whose files lost their contents.
Slots == [image : Kinds \cup {"torn", "none"}, kernel : BOOLEAN, initrd : BOOLEAN]
NoSlot == [image |-> "none", kernel |-> FALSE, initrd |-> FALSE]
\* what unpack_safely leaves: every file of the bundle
WholeSlot(i) == [image |-> i, kernel |-> TRUE, initrd |-> TRUE]

Volumes == [env : {"A", "B"}, tries : Tries, slot : Slots]

\* The volume changes to `new`; until it is written back a power cut may
\* leave it as it was, as it is now, or as one of `damaged`.
Change(new, damaged) ==
    /\ disk' = new
    /\ reach' = reach \cup {new} \cup damaged

Flushed == reach' = {disk'}

\* a write that may fail, and is not tried again
Write(new, damaged) ==
    \/ Change(new, damaged) /\ UNCHANGED failed
    \/ /\ WritesMayFail
       /\ failed' = TRUE
       /\ UNCHANGED <<disk, reach>>

SaveTries(n) ==
    Write([disk EXCEPT !.tries = n], {[disk EXCEPT !.tries = Torn]})

Init ==
    /\ disk = [env |-> "A", tries |-> Absent, slot |-> NoSlot]
    /\ reach = {disk}
    /\ mode = "grub" /\ booted = "A" /\ mounted = FALSE
    /\ apply = "idle" /\ staged = "none"
    /\ applies = 0 /\ cuts = 0
    /\ confirmed = FALSE /\ attempts = 0 /\ failed = FALSE

-----------------------------------------------------------------------------
(* Booting.                                                                 *)

\* The menu entries of grub.cfg, in order: Vakt OS, its root recovery shell and
\* its serial console, all three with slot A's own kernel, then slot B.
Menu == <<"A", "A", "A", "B">>

\* `default`, which GRUB counts from 0
DefaultEntry == IF disk.env = "B" /\ disk.slot.kernel THEN 2 ELSE 0

\* A slot B without all its files, or with a kernel that does not run, goes no
\* further, be it in GRUB's menu or in a panic.
Boot(slot) ==
    /\ mode = "grub"
    /\ booted' = slot
    /\ mode' = IF slot = "B" /\ ( \/ ~disk.slot.kernel \/ ~disk.slot.initrd
                                   \/ disk.slot.image \in {"dead", "torn"} )
               THEN "stuck" ELSE "mounting"
    /\ mounted' = FALSE
    /\ UNCHANGED <<disk, reach, apply, staged, applies, cuts, history>>

\* nobody touches the menu before its timeout
Grub == Boot(Menu[DefaultEntry + 1])

\* somebody at the menu picks an entry, the only way into slot B there is
Pick == \E e \in DOMAIN Menu : Boot(Menu[e])

\* find_persistent_once, once the kernel knows the disk: an image without its
\* driver never does.
Findable == booted = "A" \/ disk.slot.image # "nodisk"

\* mount_persistent: within FIND_ATTEMPTS, or not at all
MountPersistent ==
    /\ mode = "mounting"
    /\ mode' = "early"
    /\ \/ mounted' = Findable /\ UNCHANGED failed
       \/ /\ SlowDisk
          /\ mounted' = FALSE
          /\ failed' = (failed \/ booted = "B")
    /\ UNCHANGED <<disk, reach, booted, apply, staged, applies, cuts, confirmed,
                   attempts>>

\* Variants the specification does not use are mistakes the properties must
\* notice: a budget that goes below zero, a spent one let through, a missing
\* file taken for a spent one.
OutcomeNeverRollsBack ==
    IF ~mounted \/ booted # "B" \/ disk.tries \in {Absent, Torn}
    THEN "not_applicable"
    ELSE "decrement"

OutcomeLetsSpentThrough ==
    IF ~mounted \/ booted # "B" \/ disk.tries \in {0, Absent, Torn}
    THEN "not_applicable"
    ELSE "decrement"

OutcomeWithoutState ==
    IF ~mounted \/ booted # "B"
    THEN "not_applicable"
    ELSE IF disk.tries \in {0, Absent, Torn} THEN "roll_back" ELSE "decrement"

\* update::next, on what load_tries_left returned
Outcome ==
    IF ~mounted \/ booted # "B" \/ disk.tries \in {Absent, Torn}
    THEN "not_applicable"
    ELSE IF disk.tries = 0 THEN "roll_back" ELSE "decrement"

\* history only; counting further would tell nothing apart
CountAttempt ==
    attempts' = IF booted = "B" /\ ~confirmed /\ attempts <= MaxTries + MaxCuts
                THEN attempts + 1 ELSE attempts

CheckGoesOnUncounted ==
    /\ mode = "early"
    /\ Outcome \in {"not_applicable", "decrement"}
    /\ mode' = "starting"
    /\ UNCHANGED <<disk, reach, failed>>
    /\ CountAttempt
    /\ UNCHANGED <<booted, mounted, apply, staged, applies, cuts, confirmed>>

\* check_and_handle when it lets this boot go on
CheckGoesOn ==
    /\ mode = "early"
    /\ Outcome \in {"not_applicable", "decrement"}
    /\ mode' = "starting"
    /\ IF Outcome = "decrement"
       THEN SaveTries(disk.tries - 1)
       ELSE UNCHANGED <<disk, reach, failed>>
    /\ CountAttempt
    /\ UNCHANGED <<booted, mounted, apply, staged, applies, cuts, confirmed>>

RollBackForgetsFirst ==
    /\ mode = "early"
    /\ Outcome = "roll_back"
    /\ mode' = "rollback"
    /\ Write([disk EXCEPT !.tries = Absent], {})
    /\ UNCHANGED <<booted, mounted, apply, staged, applies, cuts, confirmed,
                   attempts>>

\* check_and_handle when it rolls back: the bootenv, then the state file,
\* then sync, unmount, sync and reboot
RollBackEnv ==
    /\ mode = "early"
    /\ Outcome = "roll_back"
    /\ mode' = "rollback"
    /\ Write([disk EXCEPT !.env = "A"], {})
    /\ UNCHANGED <<booted, mounted, apply, staged, applies, cuts, confirmed,
                   attempts>>

RollBackForget ==
    /\ mode = "rollback"
    /\ mode' = "rolledback"
    /\ Write([disk EXCEPT !.tries = Absent], {})
    /\ UNCHANGED <<booted, mounted, apply, staged, applies, cuts, confirmed,
                   attempts>>

RollBackReboot ==
    /\ mode = "rolledback"
    /\ mode' = "grub"
    /\ UNCHANGED disk /\ Flushed
    /\ UNCHANGED <<booted, mounted, apply, staged, applies, cuts, history>>

Panic ==
    /\ mode = "starting"
    /\ booted = "B"
    /\ disk.slot.image \in {"late", "early"}
    /\ mode' = "stuck"
    /\ UNCHANGED disk
    /\ IF disk.slot.image = "late" THEN Flushed ELSE UNCHANGED reach
    /\ UNCHANGED <<booted, mounted, apply, staged, applies, cuts, history>>

\* main: wait_until_ready has returned, with whatever result, and confirm()
\* removes the state file if there is one
Confirm ==
    /\ mode = "starting"
    /\ booted = "B" => disk.slot.image \notin {"late", "early"}
    /\ mode' = "up"
    /\ IF booted = "B" /\ mounted /\ disk.tries # Absent
       THEN /\ Write([disk EXCEPT !.tries = Absent], {})
            /\ confirmed' = TRUE
       ELSE UNCHANGED <<disk, reach, confirmed, failed>>
    /\ UNCHANGED <<booted, mounted, apply, staged, applies, cuts, attempts>>

-----------------------------------------------------------------------------
(* vakt-update apply, on a system that is up.                               *)

\* The bundle was fetched, verified, unpacked and found to hold both files.
ApplyStages(i) ==
    /\ mode = "up"
    /\ mounted
    /\ apply = "idle"
    /\ applies < MaxApplies
    /\ applies' = applies + 1
    /\ staged' = i
    /\ apply' = "staged"
    /\ attempts' = 0
    /\ UNCHANGED <<disk, reach, mode, booted, mounted, cuts, confirmed, failed>>

\* remove_dir_all takes the old slot away a file at a time
RemoveFile(field) ==
    LET left == [disk.slot EXCEPT ![field] = FALSE]
    IN  /\ apply = "staged"
        /\ disk.slot[field]
        /\ Change([disk EXCEPT !.slot = IF left.kernel \/ left.initrd
                                        THEN left ELSE NoSlot], {})
        /\ UNCHANGED <<mode, booted, mounted, apply, staged, applies, cuts, history>>

\* the rename of the staging directory, whose files were never synced
RenameSlot ==
    /\ apply = "staged"
    /\ disk.slot = NoSlot
    /\ Change([disk EXCEPT !.slot = WholeSlot(staged)],
              {[disk EXCEPT !.slot = WholeSlot("torn")]})
    /\ apply' = "renamed"
    /\ UNCHANGED <<mode, booted, mounted, staged, applies, cuts, history>>

\* envblock::write syncs the file before the rename: never torn
WriteEnv ==
    /\ apply = "renamed"
    /\ Change([disk EXCEPT !.env = "B"],
              {[d EXCEPT !.env = "B"] : d \in {e \in reach : e.slot.image = "torn"}})
    /\ apply' = "activated"
    /\ confirmed' = FALSE
    /\ UNCHANGED <<mode, booted, mounted, staged, applies, cuts, attempts, failed>>

WriteState ==
    /\ apply = "activated"
    /\ SaveTries(MaxTries)
    /\ apply' = "idle"
    /\ UNCHANGED <<mode, booted, mounted, staged, applies, cuts, confirmed,
                   attempts>>

\* an error returned from any of these steps ends apply where it is
ApplyFails ==
    /\ WritesMayFail
    /\ apply # "idle"
    /\ apply' = "idle"
    /\ failed' = TRUE
    /\ UNCHANGED <<disk, reach, mode, booted, mounted, staged, applies, cuts,
                   confirmed,
                   attempts>>

-----------------------------------------------------------------------------
(* The power, and the kernel's write-back.                                  *)

WriteBack ==
    /\ mode \notin {"grub", "stuck"}
    /\ reach # {disk}
    /\ UNCHANGED disk /\ Flushed
    /\ UNCHANGED <<mode, booted, mounted, apply, staged, applies, cuts, history>>

\* An orderly reboot goes through shutdown::execute, which syncs.  One that
\* interrupts an update leaves what a power cut at that point may leave.
Reboot ==
    /\ mode = "up"
    /\ apply = "idle"
    /\ mode' = "grub"
    /\ UNCHANGED disk /\ Flushed
    /\ UNCHANGED <<booted, mounted, apply, staged, applies, cuts, history>>

LosePower ==
    /\ disk' \in reach
    /\ Flushed
    /\ mode' = "grub"
    /\ apply' = "idle"
    /\ UNCHANGED <<booted, mounted, staged, applies, history>>

PowerCut ==
    /\ mode # "stuck"
    /\ cuts < MaxCuts
    /\ cuts' = cuts + 1
    /\ LosePower

\* somebody turns a machine that hangs off and on again
PowerCycle ==
    /\ mode = "stuck"
    /\ UNCHANGED cuts
    /\ LosePower

BootNext == Grub \/ Pick \/ MountPersistent \/ CheckGoesOn \/ RollBackEnv \/ RollBackForget
            \/ RollBackReboot \/ Panic \/ Confirm

ApplyNext ==
    \/ \E i \in Images : ApplyStages(i)
    \/ \E f \in {"kernel", "initrd"} : RemoveFile(f)
    \/ RenameSlot \/ WriteEnv \/ WriteState \/ ApplyFails

Next == BootNext \/ ApplyNext \/ WriteBack \/ Reboot \/ PowerCut \/ PowerCycle

Spec == Init /\ [][Next]_vars

\* a boot goes on while it can, and a hung machine is turned off and on
FairSpec == Spec /\ WF_vars(BootNext) /\ WF_vars(PowerCycle)

-----------------------------------------------------------------------------
(* Properties.                                                              *)

\* Every variable holds a value of its kind.
TypeOK ==
    /\ disk \in Volumes
    /\ reach \subseteq Volumes
    /\ mode \in {"grub", "mounting", "early", "rollback", "rolledback", "starting",
                 "up", "stuck"}
    /\ booted \in {"A", "B"} /\ mounted \in BOOLEAN
    /\ apply \in {"idle", "staged", "renamed", "activated"}
    /\ staged \in Kinds \cup {"none"}
    /\ applies \in 0..MaxApplies
    /\ cuts \in 0..MaxCuts
    /\ confirmed \in BOOLEAN
    /\ attempts \in Nat
    /\ failed \in BOOLEAN

\* A rollback that has begun is carried through whatever power cuts hit it:
\* unless the volume refused a write or was not found in time, slot B is not
\* started again before another update is applied, but by somebody who picks it
\* although the boot environment names slot A again.
RollBackSticks ==
    \A k \in 0..MaxApplies :
        []((mode = "rollback" /\ applies = k)
           => [](applies = k /\ mode = "starting" /\ booted = "B"
                   => failed \/ disk.env = "A"))

\* Once the removal of the state file has reached the disk, a confirmed slot
\* B is not rolled back before another update is applied.
DurableConfirmIsPermanent ==
    \A k \in 0..MaxApplies :
        []((confirmed /\ mode = "up" /\ apply = "idle" /\ applies = k
              /\ \A d \in reach : d.tries = Absent)
           => [](applies = k => mode # "rollback"))

\* As long as the volume is there and takes every write, an image that gets as
\* far as the write-back of its decrement is started no more than
\* MAX_BOOT_ATTEMPTS times before it is confirmed or rolled back, however often
\* slot B is picked: boots used and boots left add up.  A power cut gives back
\* one boot at most.
Counted == {"good", "unready", "late", "none"}
Spared == cuts = 0 /\ ~failed
WithinBudget ==
    /\ Spared /\ disk.env = "B" /\ disk.slot.image \in Counted => attempts <= MaxTries
    /\ ~failed /\ ~confirmed /\ disk.slot.image \in Counted /\ disk.tries \in 0..MaxTries
         => attempts + disk.tries <= MaxTries + cuts

\* While the power stays on, an active slot B that never comes up is not tried
\* for ever, even by somebody who picks it on every boot: it is rolled back.
TrialEnds ==
    [](Spared /\ disk.slot.image \in Counted)
    => []<>(mode = "up" \/ booted = "A" \/ disk.env = "A")

-----------------------------------------------------------------------------
(* What the documents and comments say and the code does not do.            *)

\* OS_UPDATES.md:110-111, build.sh:420-421: left to itself, GRUB boots an active
\* slot B whose kernel is there.
ActiveSlotIsBooted ==
    [][Grub /\ disk.env = "B" /\ disk.slot.kernel => booted' = "B"]_vars

\* OS_UPDATES.md:154-156: an update that is not whole is refused rather than
\* activated; here, while no write fails.
ActivatedIsWhole ==
    disk.env = "B" /\ apply = "idle" /\ ~failed => disk.slot \in {WholeSlot(i) : i \in Images}

\* update.rs:1-3, OPERATIONS.md:344-345: slot B is accepted for having
\* reached readiness.
ConfirmedMeansReady ==
    [][mode = "starting" /\ disk.tries # Absent /\ disk'.tries = Absent
         => disk.slot.image # "unready"]_vars
=============================================================================
