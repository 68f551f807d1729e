----------------------------- MODULE UpdateProofs -----------------------------
(***************************************************************************)
(* What update.rs, vakt-update and grub.cfg keep between them, for every    *)
(* budget of boots, any images and any number of updates and power cuts.    *)
(***************************************************************************)
EXTENDS Update, TLAPS

-----------------------------------------------------------------------------
(* The invariant.                                                           *)

\* An update runs only while the system is up, and the last slot B it staged
\* has not been started;
\* a boot begins with a volume that is written back, and misses it only where the
\* image cannot find it or that counts as a failure; a rollback leaves none that
\* could be started again.
StageInv ==
    /\ disk \in reach
    /\ apply # "idle" => mode = "up" /\ attempts = 0 /\ staged \in Images
    /\ mode \in {"grub", "mounting", "early"} => reach = {disk}
    /\ mode = "early" /\ booted = "B" =>
         (mounted => Findable) /\ (Findable => mounted \/ failed)
    /\ mode \in {"rollback", "rolledback"} /\ ~failed => disk.env = "A"
    /\ mode = "rollback" /\ ~failed =>
         \A d \in reach : d.env = "A" \/ (d.tries = 0 /\ d.slot.image # "nodisk")

\* While nothing goes wrong, the slot is whole between updates; a boot leaves it as
\* it is, and a late panic leaves nothing to write back.
SlotInv ==
    /\ Spared /\ apply # "staged" =>
         disk.slot = NoSlot \/ \E i \in Kinds : disk.slot = WholeSlot(i)
    /\ mode # "up" => \A d \in reach : d.slot = disk.slot
    /\ mode = "stuck" /\ disk.slot.image \in Counted => reach = {disk}

\* ... and, while slot B is active, what is left of the budget and what was used
\* of it add up.
CountInv ==
    Spared /\ disk.slot.image \in Counted /\ disk.env = "B" =>
        /\ attempts <= MaxTries
        /\ apply = "idle" /\ ~confirmed =>
             disk.tries \in 0..MaxTries /\ attempts + disk.tries <= MaxTries

\* What is left on a volume and what was used of the budget: one boot more than
\* there were tries and power cuts, if the last decrement is not on it yet.
Debt(d, n) ==
    d.slot.image \in Counted /\ d.tries \in 0..MaxTries
    => attempts + d.tries <= MaxTries + cuts + n

CutInv ==
    ~failed /\ ~confirmed => Debt(disk, 0) /\ \A d \in reach : Debt(d, 1)

UpdateInv == TypeOK /\ StageInv /\ SlotInv /\ CountInv /\ CutInv

\* In the time between the k-th update and the next, once a rollback has begun:
\* whatever volume is found again names slot A or has no boots left.
Sticks(k) ==
    /\ applies >= k
    /\ applies = k /\ ~failed =>
        /\ apply = "idle"
        /\ \A d \in reach : d.env = "A" \/ (d.tries = 0 /\ d.slot.image # "nodisk")
        /\ mode = "starting" => booted = "A" \/ disk.env = "A"

\* ... and once a confirmation was written back: no volume has a budget.
Settled(k) ==
    /\ applies >= k
    /\ applies = k =>
        /\ apply = "idle"
        /\ \A d \in reach : d.tries = Absent
        /\ mode # "rollback"

-----------------------------------------------------------------------------
(* Types.                                                                   *)

LEMMA Constants ==
    /\ MaxTries \in Nat /\ Absent \in Nat /\ Torn \in Nat
    /\ Absent \in Tries /\ Torn \in Tries /\ MaxTries \in Tries
    /\ Absent \notin 0..MaxTries /\ Torn \notin 0..MaxTries
    /\ \A n \in Tries : n \in 0..MaxTries \/ n \in {Absent, Torn}
    /\ Images \subseteq Kinds /\ MaxApplies \in Nat /\ MaxCuts \in Nat
  BY UpdateAssumption DEF Absent, Torn, Tries

LEMMA SlotTypes ==
    /\ NoSlot \in Slots
    /\ WholeSlot("torn") \in Slots
    /\ \A i \in Kinds : WholeSlot(i) \in Slots
  BY DEF NoSlot, WholeSlot, Slots, Kinds

\* A volume with one of its fields replaced is a volume.
LEMMA VolumeTypes ==
    ASSUME NEW d \in Volumes
    PROVE  /\ d.env \in {"A", "B"} /\ d.tries \in Tries /\ d.slot \in Slots
           /\ \A e \in {"A", "B"} :
                /\ [d EXCEPT !.env = e] \in Volumes
                /\ [d EXCEPT !.env = e].env = e
                /\ [d EXCEPT !.env = e].tries = d.tries
                /\ [d EXCEPT !.env = e].slot = d.slot
           /\ \A n \in Tries :
                /\ [d EXCEPT !.tries = n] \in Volumes
                /\ [d EXCEPT !.tries = n].env = d.env
                /\ [d EXCEPT !.tries = n].tries = n
                /\ [d EXCEPT !.tries = n].slot = d.slot
           /\ \A s \in Slots :
                /\ [d EXCEPT !.slot = s] \in Volumes
                /\ [d EXCEPT !.slot = s].env = d.env
                /\ [d EXCEPT !.slot = s].tries = d.tries
                /\ [d EXCEPT !.slot = s].slot = s
  BY DEF Volumes

\* What a write of the number of tries may do.
LEMMA Saves ==
    ASSUME disk \in Volumes, reach \subseteq Volumes, failed \in BOOLEAN,
           NEW n \in Tries, SaveTries(n)
    PROVE  /\ disk' \in Volumes /\ reach' \subseteq Volumes /\ failed' \in BOOLEAN
           /\ disk'.env = disk.env /\ disk'.slot = disk.slot
           /\ disk'.tries = n \/ failed'
           /\ failed => failed'
           /\ reach \subseteq reach'
           /\ disk \in reach => disk' \in reach'
           /\ \A d \in reach' : d \in reach \/ (d.env = disk.env /\ d.slot = disk.slot)
  <1>1. /\ [disk EXCEPT !.tries = n] \in Volumes /\ [disk EXCEPT !.tries = Torn] \in Volumes
        /\ [disk EXCEPT !.tries = n].tries = n
        /\ [disk EXCEPT !.tries = n].env = disk.env /\ [disk EXCEPT !.tries = n].slot = disk.slot
        /\ [disk EXCEPT !.tries = Torn].env = disk.env
        /\ [disk EXCEPT !.tries = Torn].slot = disk.slot
    BY Constants DEF Volumes
  <1>2. \/ /\ disk' = [disk EXCEPT !.tries = n]
           /\ reach' = reach \cup {[disk EXCEPT !.tries = n], [disk EXCEPT !.tries = Torn]}
           /\ failed' = failed
        \/ failed' = TRUE /\ disk' = disk /\ reach' = reach
    BY DEF SaveTries, Write, Change
  <1> QED
    BY <1>1, <1>2

\* What check_and_handle decides on.
LEMMA Outcomes ==
    ASSUME disk \in Volumes
    PROVE  /\ Outcome = "decrement" =>
                /\ booted = "B" /\ disk.tries \in 1..MaxTries
                /\ disk.tries - 1 \in Tries /\ disk.tries - 1 \in 0..MaxTries
           /\ Outcome = "roll_back" => booted = "B" /\ disk.tries = 0 /\ mounted
           /\ booted = "B" /\ disk.tries \in 0..MaxTries /\ mounted =>
                Outcome \in {"decrement", "roll_back"}
  <1>1. disk.tries \in Tries
    BY VolumeTypes
  <1>2. CASE disk.tries \in {Absent, Torn}
    BY <1>2, Constants DEF Outcome
  <1>3. CASE disk.tries \in 0..MaxTries /\ disk.tries \notin {Absent, Torn}
    <2>1. disk.tries \in Nat /\ (disk.tries # 0 => disk.tries \in 1..MaxTries)
      BY <1>3, Constants
    <2>2. disk.tries # 0 => disk.tries - 1 \in 0..MaxTries
      BY <2>1, Constants
    <2>3. disk.tries # 0 => disk.tries - 1 \in Tries
      BY <2>2, Constants DEF Tries, Torn
    <2> QED
      BY <1>3, <2>1, <2>2, <2>3 DEF Outcome
  <1> QED
    BY <1>1, <1>2, <1>3, Constants

\* What a write that leaves nothing torn may do.
LEMMA Writes ==
    ASSUME failed \in BOOLEAN, NEW d, Write(d, {})
    PROVE  \/ disk' = d /\ reach' = reach \cup {d} /\ failed' = failed
           \/ disk' = disk /\ reach' = reach /\ failed' = TRUE
  BY DEF Write, Change

\* Whichever entry is booted, by default or by hand.
LEMMA Boots ==
    ASSUME Grub \/ Pick
    PROVE  /\ mode = "grub" /\ booted' \in {"A", "B"} /\ mode' \in {"mounting", "stuck"}
           /\ mounted' = FALSE
           /\ UNCHANGED <<disk, reach, apply, staged, applies, cuts, confirmed, attempts,
                           failed>>
  <1>1. DefaultEntry + 1 \in 1..4
    BY DEF DefaultEntry
  <1>2. DOMAIN Menu = 1..4 /\ \A e \in 1..4 : Menu[e] \in {"A", "B"}
    BY DEF Menu
  <1>3. PICK slot \in {"A", "B"} : Boot(slot)
    BY <1>1, <1>2 DEF Grub, Pick
  <1> QED
    BY <1>3 DEF Boot, history

LEMMA NextTypeOK == TypeOK /\ [Next]_vars => TypeOK'
  <1> SUFFICES ASSUME TypeOK, [Next]_vars
               PROVE  TypeOK'
    OBVIOUS
  <1> USE DEF history
  <1>1. CASE Grub \/ Pick \/ MountPersistent
    BY <1>1, Boots DEF MountPersistent, Findable, TypeOK
  <1>2. CASE CheckGoesOn
    <2>1. disk' \in Volumes /\ reach' \subseteq Volumes /\ failed' \in BOOLEAN
      <3>1. CASE Outcome = "decrement"
        <4>1. disk.tries - 1 \in Tries /\ SaveTries(disk.tries - 1)
          BY <1>2, <3>1, Outcomes DEF CheckGoesOn, CountAttempt, TypeOK
        <4> QED
          BY <4>1, Saves DEF TypeOK
      <3> QED
        BY <1>2, <3>1 DEF CheckGoesOn, CountAttempt, TypeOK
    <2>2. attempts' \in Nat
      BY <1>2 DEF CheckGoesOn, CountAttempt, TypeOK
    <2> QED
      BY <1>2, <2>1, <2>2 DEF CheckGoesOn, CountAttempt, TypeOK
  <1>3. CASE RollBackEnv
    <2>1. [disk EXCEPT !.env = "A"] \in Volumes
      BY VolumeTypes DEF TypeOK
    <2> QED
      BY <1>3, <2>1, Writes DEF RollBackEnv, TypeOK
  <1>4. CASE RollBackForget \/ Confirm
    <2>1. [disk EXCEPT !.tries = Absent] \in Volumes
      BY VolumeTypes, Constants DEF TypeOK
    <2>2. CASE UNCHANGED <<disk, reach, failed>>
      BY <1>4, <2>2 DEF RollBackForget, Confirm, TypeOK
    <2>3. CASE Write([disk EXCEPT !.tries = Absent], {})
      BY <1>4, <2>1, <2>3, Writes DEF RollBackForget, Confirm, TypeOK
    <2> QED
      BY <1>4, <2>2, <2>3 DEF RollBackForget, Confirm
  <1>5. CASE RollBackReboot \/ Panic \/ WriteBack \/ Reboot
    BY <1>5 DEF RollBackReboot, Panic, WriteBack, Reboot, Flushed, TypeOK
  <1>6. ASSUME NEW i \in Images, ApplyStages(i)
        PROVE  TypeOK'
    BY <1>6, Constants DEF ApplyStages, TypeOK
  <1>7. ASSUME NEW f \in {"kernel", "initrd"}, RemoveFile(f)
        PROVE  TypeOK'
    <2> DEFINE left == [disk.slot EXCEPT ![f] = FALSE]
    <2>1. left \in Slots
      <3>1. disk.slot \in Slots
        BY VolumeTypes DEF TypeOK
      <3>2. CASE f = "kernel"
        BY <3>1, <3>2 DEF Slots
      <3>3. CASE f = "initrd"
        BY <3>1, <3>3 DEF Slots
      <3> QED
        BY <3>2, <3>3
    <2>2. /\ [disk EXCEPT !.slot = left] \in Volumes
          /\ [disk EXCEPT !.slot = NoSlot] \in Volumes
      BY <2>1, VolumeTypes, SlotTypes DEF TypeOK
    <2>3. disk' \in Volumes /\ reach' \subseteq Volumes
      BY <1>7, <2>2 DEF RemoveFile, Change, TypeOK
    <2> QED
      BY <1>7, <2>3 DEF RemoveFile, TypeOK
  <1>8. CASE RenameSlot
    <2>1. WholeSlot(staged) \in Slots
      BY <1>8, SlotTypes DEF TypeOK, WholeSlot, Slots
    <2>2. /\ [disk EXCEPT !.slot = WholeSlot(staged)] \in Volumes
          /\ [disk EXCEPT !.slot = WholeSlot("torn")] \in Volumes
      BY <2>1, VolumeTypes, SlotTypes DEF TypeOK
    <2> QED
      BY <1>8, <2>2 DEF RenameSlot, Change, TypeOK
  <1>9. CASE WriteEnv
    <2>1. /\ [disk EXCEPT !.env = "B"] \in Volumes
          /\ \A d \in reach : [d EXCEPT !.env = "B"] \in Volumes
      BY VolumeTypes DEF TypeOK
    <2> QED
      BY <1>9, <2>1 DEF WriteEnv, Change, TypeOK
  <1>10. CASE WriteState
    BY <1>10, Saves, Constants DEF WriteState, TypeOK
  <1>11. CASE ApplyFails
    BY <1>11 DEF ApplyFails, TypeOK
  <1>12. CASE PowerCut \/ PowerCycle
    BY <1>12, Constants DEF PowerCut, PowerCycle, LosePower, Flushed, TypeOK
  <1>13. CASE UNCHANGED vars
    BY <1>13 DEF vars, TypeOK
  <1> QED
    BY <1>1, <1>2, <1>3, <1>4, <1>5, <1>6, <1>7, <1>8, <1>9, <1>10, <1>11, <1>12, <1>13
       DEF Next, BootNext, ApplyNext

-----------------------------------------------------------------------------
(* The boots that are used and the boots that are left.                     *)

LEMMA NextStage == TypeOK /\ StageInv /\ [Next]_vars => StageInv'
  <1> SUFFICES ASSUME TypeOK, StageInv, [Next]_vars
               PROVE  StageInv'
    OBVIOUS
  <1> USE DEF history
  <1>1. CASE Grub \/ Pick
    BY <1>1, Boots DEF StageInv, TypeOK
  <1>15. CASE MountPersistent
    BY <1>15 DEF MountPersistent, Findable, StageInv, TypeOK
  <1>2. CASE CheckGoesOn
    <2>1. apply = "idle" /\ disk' \in reach' /\ disk'.env = disk.env
      <3>1. CASE Outcome = "decrement"
        BY <1>2, <3>1, Outcomes, Saves DEF CheckGoesOn, CountAttempt, StageInv, TypeOK
      <3> QED
        BY <1>2, <3>1 DEF CheckGoesOn, CountAttempt, StageInv
    <2> QED
      BY <1>2, <2>1 DEF CheckGoesOn, CountAttempt, StageInv
  <1>3. CASE RollBackEnv
    <2>1. [disk EXCEPT !.env = "A"].env = "A"
      BY DEF TypeOK, Volumes
    <2>2. \/ disk'.env = "A" /\ reach' = reach \cup {disk'}
          \/ UNCHANGED <<disk, reach>> /\ failed'
      BY <1>3, <2>1, Writes DEF RollBackEnv, TypeOK
    <2>3. disk' \in reach' /\ (~failed' => disk'.env = "A")
      BY <2>2 DEF StageInv
    <2>5. reach = {disk} /\ disk.tries = 0 /\ disk.slot.image # "nodisk"
      <3>1. Outcome = "roll_back" /\ reach = {disk} /\ mode = "early"
        BY <1>3 DEF RollBackEnv, StageInv
      <3>2. booted = "B" /\ mounted /\ disk.tries = 0
        BY <3>1, Outcomes DEF TypeOK
      <3> QED
        BY <3>1, <3>2 DEF StageInv, Findable
    <2>6. ~failed' =>
            \A d \in reach' : d.env = "A" \/ (d.tries = 0 /\ d.slot.image # "nodisk")
      BY <2>2, <2>5
    <2>4. mode' = "rollback" /\ apply' = "idle"
      BY <1>3 DEF RollBackEnv, StageInv
    <2> QED
      BY <2>3, <2>4, <2>6 DEF StageInv
  <1>4. CASE RollBackForget
    <2>1. [disk EXCEPT !.tries = Absent].env = disk.env
      BY DEF TypeOK, Volumes
    <2>4. \/ /\ disk' = [disk EXCEPT !.tries = Absent]
             /\ reach' = reach \cup {[disk EXCEPT !.tries = Absent]}
             /\ failed' = failed
          \/ disk' = disk /\ reach' = reach /\ failed' = TRUE
      BY <1>4, Writes DEF RollBackForget, TypeOK
    <2>2. disk' \in reach' /\ disk'.env = disk.env /\ (~failed' => ~failed)
      BY <2>1, <2>4 DEF StageInv
    <2>3. mode = "rollback" /\ mode' = "rolledback" /\ apply' = apply
      BY <1>4 DEF RollBackForget
    <2> QED
      BY <2>2, <2>3 DEF StageInv
  <1>14. CASE Confirm
    <2>1. disk' \in reach'
      BY <1>14 DEF Confirm, Write, Change, StageInv
    <2>2. mode = "starting" /\ mode' = "up" /\ apply' = apply
      BY <1>14 DEF Confirm
    <2> QED
      BY <2>1, <2>2 DEF StageInv
  <1>5. CASE RollBackReboot \/ Panic \/ WriteBack \/ Reboot
    BY <1>5 DEF RollBackReboot, Panic, WriteBack, Reboot, Flushed, StageInv, Findable
  <1>6. ASSUME NEW i \in Images, ApplyStages(i)
        PROVE  StageInv'
    BY <1>6 DEF ApplyStages, StageInv
  <1>7. ASSUME NEW f \in {"kernel", "initrd"}, RemoveFile(f)
        PROVE  StageInv'
    BY <1>7 DEF RemoveFile, Change, StageInv
  <1>8. CASE RenameSlot
    BY <1>8 DEF RenameSlot, Change, StageInv
  <1>9. CASE WriteEnv
    BY <1>9 DEF WriteEnv, Change, StageInv
  <1>10. CASE WriteState
    BY <1>10, Saves, Constants DEF WriteState, StageInv, TypeOK
  <1>11. CASE ApplyFails
    BY <1>11 DEF ApplyFails, StageInv
  <1>12. CASE PowerCut \/ PowerCycle
    BY <1>12 DEF PowerCut, PowerCycle, LosePower, Flushed, StageInv
  <1>13. CASE UNCHANGED vars
    BY <1>13 DEF vars, StageInv, Findable
  <1> QED
    BY <1>1, <1>2, <1>3, <1>4, <1>5, <1>6, <1>7, <1>8, <1>9, <1>10, <1>11, <1>12, <1>13, <1>14,
       <1>15
       DEF Next, BootNext, ApplyNext

\* Once spared no more, never spared again.
LEMMA SparedBefore == TypeOK /\ [Next]_vars /\ Spared' => Spared
  <1> SUFFICES ASSUME TypeOK, [Next]_vars, ~Spared
               PROVE  ~Spared'
    OBVIOUS
  <1> USE DEF history, Spared
  <1>1. CASE CheckGoesOn
    <2>1. CASE Outcome = "decrement"
      BY <1>1, <2>1, Outcomes, Saves DEF CheckGoesOn, CountAttempt, TypeOK
    <2> QED
      BY <1>1, <2>1 DEF CheckGoesOn, CountAttempt
  <1>2. CASE RollBackEnv \/ RollBackForget \/ Confirm
    BY <1>2, Writes DEF RollBackEnv, RollBackForget, Confirm, Write, TypeOK
  <1>3. CASE WriteState
    BY <1>3, Saves, Constants DEF WriteState, TypeOK
  <1>4. CASE PowerCut
    BY <1>4 DEF PowerCut, LosePower, TypeOK
  <1>5. CASE ApplyNext /\ ~WriteState
    BY <1>5 DEF ApplyNext, ApplyStages, RemoveFile, RenameSlot, WriteEnv, ApplyFails
  <1>8. CASE Grub \/ Pick
    BY <1>8, Boots
  <1>6. CASE \/ RollBackReboot \/ Panic \/ WriteBack \/ Reboot
             \/ PowerCycle \/ UNCHANGED vars
    BY <1>6 DEF RollBackReboot, Panic, WriteBack, Reboot, PowerCycle, LosePower, vars
  <1>7. CASE MountPersistent
    BY <1>7 DEF MountPersistent, TypeOK
  <1> QED
    BY <1>1, <1>2, <1>3, <1>4, <1>5, <1>6, <1>7, <1>8 DEF Next, BootNext

LEMMA NextSlot == TypeOK /\ StageInv /\ SlotInv /\ [Next]_vars => SlotInv'
  <1> SUFFICES ASSUME TypeOK, StageInv, SlotInv, [Next]_vars
               PROVE  SlotInv'
    OBVIOUS
  <1>0. /\ Spared' => Spared
        /\ Spared /\ apply # "staged" =>
             disk.slot = NoSlot \/ \E i \in Kinds : disk.slot = WholeSlot(i)
        /\ mode # "up" => \A d \in reach : d.slot = disk.slot
        /\ mode = "stuck" /\ disk.slot.image \in Counted => reach = {disk}
    BY SparedBefore DEF SlotInv
  <1> USE DEF history
  <1>1. CASE Grub \/ Pick \/ MountPersistent
    BY <1>0, <1>1, Boots DEF MountPersistent, StageInv, SlotInv
  <1>2. CASE CheckGoesOn
    <2>1. disk'.slot = disk.slot /\ \A d \in reach' : d \in reach \/ d.slot = disk.slot
      <3>1. CASE Outcome = "decrement"
        BY <1>2, <3>1, Outcomes, Saves DEF CheckGoesOn, CountAttempt, TypeOK
      <3> QED
        BY <1>2, <3>1 DEF CheckGoesOn, CountAttempt
    <2> QED
      BY <1>0, <1>2, <2>1 DEF CheckGoesOn, CountAttempt, SlotInv
  <1>3. CASE RollBackEnv \/ RollBackForget \/ Confirm
    <2>1. /\ [disk EXCEPT !.env = "A"].slot = disk.slot
          /\ [disk EXCEPT !.tries = Absent].slot = disk.slot
      BY DEF TypeOK, Volumes
    <2>2. \/ UNCHANGED <<disk, reach>>
          \/ /\ disk'.slot = disk.slot
             /\ \A d \in reach' : d \in reach \/ d.slot = disk.slot
      BY <1>3, <2>1, Writes DEF RollBackEnv, RollBackForget, Confirm, TypeOK
    <2>3. mode \notin {"up", "stuck"} /\ mode' # "stuck" /\ apply' = apply
      BY <1>3 DEF RollBackEnv, RollBackForget, Confirm
    <2> QED
      BY <1>0, <2>2, <2>3 DEF SlotInv
  <1>4. CASE RollBackReboot \/ WriteBack \/ Reboot
    BY <1>0, <1>4 DEF RollBackReboot, WriteBack, Reboot, Flushed, SlotInv
  <1>5. CASE Panic
    BY <1>0, <1>5 DEF Panic, Flushed, SlotInv, Counted
  <1>6. CASE ApplyNext
    <2>1. mode' = "up" /\ mode = "up"
      BY <1>6 DEF ApplyNext, ApplyStages, RemoveFile, RenameSlot, WriteEnv, WriteState,
         ApplyFails, StageInv
    <2>2. Spared' /\ apply' # "staged" =>
            disk'.slot = NoSlot \/ \E i \in Kinds : disk'.slot = WholeSlot(i)
      <3>1. CASE RenameSlot
        <4>1. staged \in Kinds /\ disk'.slot = WholeSlot(staged)
          BY <3>1, Constants DEF RenameSlot, Change, StageInv, TypeOK, Volumes
        <4> QED
          BY <4>1
      <3>2. CASE WriteEnv \/ WriteState
        <4>1. disk'.slot = disk.slot
          BY <3>2, Saves, Constants DEF WriteEnv, Change, WriteState, TypeOK, Volumes
        <4> QED
          BY <1>0, <3>2, <4>1 DEF WriteEnv, WriteState
      <3>3. CASE ApplyFails
        BY <3>3 DEF ApplyFails, Spared
      <3> QED
        BY <1>0, <1>6, <3>1, <3>2, <3>3 DEF ApplyNext, ApplyStages, RemoveFile
    <2> QED
      BY <2>1, <2>2 DEF SlotInv
  <1>7. CASE PowerCut
    BY <1>7 DEF PowerCut, LosePower, Flushed, Spared, TypeOK, SlotInv
  <1>8. CASE PowerCycle
    BY <1>0, <1>8 DEF PowerCycle, LosePower, Flushed, StageInv, SlotInv
  <1>9. CASE UNCHANGED vars
    BY <1>0, <1>9 DEF vars, SlotInv
  <1> QED
    BY <1>1, <1>2, <1>3, <1>4, <1>5, <1>6, <1>7, <1>8, <1>9 DEF Next, BootNext

LEMMA NextCount == UpdateInv /\ [Next]_vars => CountInv'
  <1> SUFFICES ASSUME TypeOK, StageInv, SlotInv, CountInv, [Next]_vars,
                      Spared', disk'.slot.image \in Counted, disk'.env = "B"
               PROVE  CountInv'
    BY DEF UpdateInv, CountInv
  <1>0. /\ Spared
        /\ attempts \in Nat
        /\ MaxTries \in Nat
        /\ apply # "idle" => attempts = 0
    BY SparedBefore, Constants DEF TypeOK, StageInv
  <1> DEFINE Adds == apply = "idle" /\ ~confirmed =>
                       disk.tries \in 0..MaxTries /\ attempts + disk.tries <= MaxTries
  <1> HIDE DEF Adds
  <1>a. disk.slot.image \in Counted /\ disk.env = "B" => attempts <= MaxTries /\ Adds
    BY <1>0 DEF CountInv, Adds
  <1> SUFFICES attempts' <= MaxTries /\ Adds'
    BY DEF CountInv, Adds
  <1> USE DEF history
  <1>1. CASE UNCHANGED <<disk, confirmed, attempts>> /\ (apply' = "idle" => apply = "idle")
    BY <1>a, <1>1 DEF Adds
  <1>2. CASE CheckGoesOn
    <2>1. disk.slot = disk'.slot /\ disk'.env = disk.env
      <3>1. CASE Outcome = "decrement"
        BY <1>2, <3>1, Outcomes, Saves DEF CheckGoesOn, CountAttempt, TypeOK
      <3> QED
        BY <1>2, <3>1 DEF CheckGoesOn, CountAttempt
    <2>2. attempts <= MaxTries /\ Adds /\ apply = "idle" /\ apply' = "idle"
      BY <1>a, <1>2, <2>1 DEF CheckGoesOn, CountAttempt, StageInv
    <2>6. booted = "B" => mounted
      BY <1>0, <1>2, <2>1 DEF CheckGoesOn, CountAttempt, StageInv, Spared, Counted, Findable
    <2>3. CASE booted = "B" /\ ~confirmed
      <3>1. disk.tries \in 0..MaxTries /\ attempts + disk.tries <= MaxTries
        BY <1>2, <2>2, <2>3 DEF CheckGoesOn, CountAttempt, StageInv, Adds
      <3>2. Outcome = "decrement"
        BY <1>2, <2>2, <2>3, <2>6, <3>1, Outcomes DEF CheckGoesOn, CountAttempt, TypeOK
      <3>3. disk.tries - 1 \in 0..MaxTries /\ disk.tries - 1 \in Tries
        BY <3>2, Outcomes DEF TypeOK
      <3>4. disk'.tries = disk.tries - 1
        BY <1>2, <3>2, <3>3, Saves DEF CheckGoesOn, CountAttempt, TypeOK, Spared
      <3>5. attempts' = attempts + 1
        BY <1>0, <1>2, <2>2, <2>3, Constants DEF CheckGoesOn, CountAttempt
      <3> QED
        BY <1>0, <3>1, <3>3, <3>4, <3>5 DEF Adds
    <2>4. CASE booted = "B" /\ confirmed
      BY <1>2, <2>2, <2>4 DEF CheckGoesOn, CountAttempt, Adds
    <2>5. CASE booted # "B"
      <3>1. Outcome = "not_applicable"
        BY <2>5 DEF Outcome
      <3> QED
        BY <1>2, <2>2, <2>5, <3>1 DEF CheckGoesOn, CountAttempt, Adds
    <2> QED
      BY <2>3, <2>4, <2>5
  <1>3. CASE RollBackEnv \/ RollBackForget
    <2>1. /\ [disk EXCEPT !.env = "A"].env = "A"
          /\ [disk EXCEPT !.env = "A"].slot = disk.slot
          /\ [disk EXCEPT !.tries = Absent].env = disk.env
          /\ [disk EXCEPT !.tries = Absent].slot = disk.slot
      BY DEF TypeOK, Volumes
    <2>2. disk'.slot = disk.slot
      BY <1>3, <2>1, Writes DEF RollBackEnv, RollBackForget, TypeOK
    <2>3. disk'.env = "A"
      BY <1>3, <2>1, <1>0, Writes DEF RollBackEnv, RollBackForget, TypeOK, Spared, StageInv
    <2> QED
      BY <1>a, <1>3, <2>2, <2>3 DEF RollBackEnv, RollBackForget, Adds
  <1>4. CASE Confirm
    <2>1. /\ [disk EXCEPT !.tries = Absent].slot = disk.slot
          /\ [disk EXCEPT !.tries = Absent].env = disk.env
      BY DEF TypeOK, Volumes
    <2>2. CASE UNCHANGED <<disk, confirmed>>
      BY <1>1, <1>4, <2>2 DEF Confirm
    <2>3. CASE Write([disk EXCEPT !.tries = Absent], {}) /\ confirmed'
      <3>1. disk'.slot = disk.slot /\ disk'.env = disk.env
        BY <2>1, <2>3, Writes DEF TypeOK
      <3> QED
        BY <1>a, <1>4, <2>3, <3>1 DEF Confirm, Adds
    <2> QED
      BY <1>4, <2>2, <2>3 DEF Confirm
  <1>5. CASE \/ RollBackReboot \/ Panic \/ WriteBack \/ Reboot
             \/ Grub \/ Pick \/ MountPersistent
    BY <1>1, <1>5, Boots DEF RollBackReboot, Panic, WriteBack, Reboot, MountPersistent
  <1>6. ASSUME NEW i \in Images, ApplyStages(i)
        PROVE  attempts' <= MaxTries /\ Adds'
    BY <1>0, <1>6 DEF ApplyStages, Adds
  <1>7. CASE WriteState
    <2>1. disk'.tries = MaxTries /\ attempts' = 0
      BY <1>0, <1>7, Saves, Constants DEF WriteState, Spared, TypeOK
    <2> QED
      BY <1>0, <2>1 DEF Adds
  <1>8. CASE \/ \E f \in {"kernel", "initrd"} : RemoveFile(f)
             \/ RenameSlot \/ WriteEnv
    <2>1. apply' # "idle" /\ attempts' = 0
      BY <1>0, <1>8 DEF RemoveFile, RenameSlot, WriteEnv
    <2> QED
      BY <1>0, <2>1 DEF Adds
  <1>9. CASE ApplyFails
    BY <1>9 DEF ApplyFails, Spared
  <1>10. CASE PowerCut
    BY <1>10 DEF PowerCut, Spared, TypeOK
  <1>11. CASE PowerCycle
    <2>1. disk'.slot = disk.slot
      BY <1>0, <1>11 DEF PowerCycle, LosePower, SlotInv
    <2>2. disk' = disk
      BY <1>0, <1>11, <2>1 DEF PowerCycle, LosePower, SlotInv
    <2>3. apply = "idle"
      BY <1>11 DEF PowerCycle, StageInv
    <2> QED
      BY <1>1, <1>11, <2>2, <2>3 DEF PowerCycle, LosePower
  <1>12. CASE UNCHANGED vars
    BY <1>1, <1>12 DEF vars
  <1> QED
    BY <1>2, <1>3, <1>4, <1>5, <1>6, <1>7, <1>8, <1>9, <1>10, <1>11, <1>12
       DEF Next, BootNext, ApplyNext

\* What SaveTries leaves, volume by volume.
LEMMA SavedVolumes ==
    ASSUME disk \in Volumes, NEW n \in Tries, SaveTries(n), ~failed'
    PROVE  /\ disk'.tries = n /\ disk'.slot = disk.slot
           /\ \A d \in reach' : d \in reach \/ d = disk' \/ d.tries = Torn
  <1>1. /\ [disk EXCEPT !.tries = n].tries = n /\ [disk EXCEPT !.tries = n].slot = disk.slot
        /\ [disk EXCEPT !.tries = Torn].tries = Torn
    BY Constants DEF Volumes
  <1> QED
    BY <1>1 DEF SaveTries, Write, Change

LEMMA NextCut == UpdateInv /\ [Next]_vars => CutInv'
  <1> SUFFICES ASSUME TypeOK, StageInv, SlotInv, CutInv, [Next]_vars, ~failed', ~confirmed'
               PROVE  Debt(disk, 0)' /\ \A d \in reach' : Debt(d, 1)'
    BY DEF UpdateInv, CutInv
  <1>0. /\ attempts \in Nat /\ cuts \in Nat /\ MaxTries \in Nat
        /\ disk \in Volumes /\ disk \in reach
        /\ apply # "idle" => attempts = 0
    BY Constants DEF TypeOK, StageInv
  <1> USE DEF history
  <1>1. CASE attempts' = 0 /\ cuts' = cuts
    BY <1>0, <1>1 DEF Debt
  <1>2. CASE CheckGoesOn
    <2>1. ~failed /\ ~confirmed /\ mode = "early" /\ cuts' = cuts /\ reach = {disk}
      <3>1. CASE Outcome = "decrement"
        BY <1>0, <1>2, <3>1, Outcomes, Saves DEF CheckGoesOn, StageInv, TypeOK
      <3> QED
        BY <1>2, <3>1 DEF CheckGoesOn, StageInv
    <2>2. attempts' \in {attempts, attempts + 1} /\ (booted # "B" => attempts' = attempts)
      BY <1>2 DEF CheckGoesOn, CountAttempt
    <2>3. Debt(disk, 0)
      BY <2>1 DEF CutInv
    <2>4. CASE Outcome = "decrement"
      <3>1. disk.tries \in 1..MaxTries /\ disk.tries - 1 \in Tries
            /\ SaveTries(disk.tries - 1)
        BY <1>0, <1>2, <2>4, Outcomes DEF CheckGoesOn
      <3>2. /\ disk'.tries = disk.tries - 1 /\ disk'.slot = disk.slot
            /\ \A d \in reach' : d \in {disk, disk'} \/ d.tries = Torn
        BY <1>0, <2>1, <3>1, SavedVolumes
      <3>3. Debt(disk, 0)'
        BY <1>0, <2>1, <2>2, <2>3, <3>1, <3>2 DEF Debt
      <3>4. ASSUME NEW d \in reach'
            PROVE  Debt(d, 1)'
        BY <1>0, <2>1, <2>2, <2>3, <3>1, <3>2, <3>3, <3>4, Constants DEF Debt
      <3> QED
        BY <3>3, <3>4
    <2>5. CASE Outcome # "decrement"
      <3>1. disk' = disk /\ reach' = {disk}
        BY <1>2, <2>1, <2>5 DEF CheckGoesOn
      <3>2. booted # "B" \/ disk.slot.image \notin Counted \/ disk.tries \notin 0..MaxTries
        BY <1>0, <1>2, <2>1, <2>5, Outcomes
           DEF CheckGoesOn, StageInv, Findable, Counted
      <3> QED
        BY <1>0, <2>1, <2>2, <2>3, <3>1, <3>2 DEF Debt
    <2> QED
      BY <2>4, <2>5
  <1>3. CASE RollBackEnv \/ RollBackForget \/ (Confirm /\ UNCHANGED confirmed)
    <2>1. /\ [disk EXCEPT !.env = "A"].tries = disk.tries
          /\ [disk EXCEPT !.env = "A"].slot = disk.slot
          /\ [disk EXCEPT !.tries = Absent].tries = Absent
      BY <1>0 DEF Volumes
    <2>2. /\ ~failed /\ ~confirmed /\ attempts' = attempts /\ cuts' = cuts
          /\ \/ UNCHANGED <<disk, reach>>
             \/ /\ reach' = reach \cup {disk'}
                /\ \/ disk'.tries = disk.tries /\ disk'.slot = disk.slot
                   \/ disk'.tries = Absent
      BY <1>3, <2>1, Writes DEF RollBackEnv, RollBackForget, Confirm, TypeOK
    <2>3. Debt(disk, 0) /\ \A d \in reach : Debt(d, 1)
      BY <2>2 DEF CutInv
    <2> QED
      BY <1>0, <2>2, <2>3, Constants DEF Debt
  <1>4. CASE \/ Grub \/ Pick \/ MountPersistent \/ RollBackReboot \/ Panic \/ WriteBack
             \/ Reboot \/ UNCHANGED vars
    <2>1. /\ ~failed /\ ~confirmed /\ attempts' = attempts /\ cuts' = cuts
          /\ disk' = disk /\ reach' \subseteq reach \cup {disk}
      <3>1. CASE Grub \/ Pick
        <4>1. UNCHANGED <<disk, reach, cuts, confirmed, attempts, failed>>
          BY <3>1, Boots
        <4> QED
          BY <4>1
      <3>2. CASE MountPersistent
        BY <3>2 DEF MountPersistent, TypeOK
      <3> QED
        BY <1>4, <3>1, <3>2 DEF RollBackReboot, Panic, WriteBack, Reboot, Flushed, vars
    <2>2. Debt(disk, 0) /\ \A d \in reach : Debt(d, 1)
      BY <2>1 DEF CutInv
    <2> QED
      BY <1>0, <2>1, <2>2 DEF Debt
  <1>5. CASE PowerCut \/ PowerCycle
    <2>1. /\ ~failed /\ ~confirmed /\ attempts' = attempts
          /\ disk' \in reach /\ reach' = {disk'}
          /\ \/ cuts' = cuts + 1
             \/ cuts' = cuts /\ mode = "stuck"
      BY <1>5 DEF PowerCut, PowerCycle, LosePower, Flushed
    <2>2. Debt(disk, 0) /\ \A d \in reach : Debt(d, 1)
      BY <2>1 DEF CutInv
    <2>3. CASE cuts' = cuts + 1
      BY <1>0, <2>1, <2>2, <2>3 DEF Debt
    <2>4. CASE cuts' = cuts /\ mode = "stuck"
      <3>1. disk'.slot = disk.slot /\ (disk.slot.image \in Counted => disk' = disk)
        BY <2>1, <2>4 DEF SlotInv
      <3> QED
        BY <1>0, <2>1, <2>2, <2>4, <3>1 DEF Debt
    <2> QED
      BY <2>1, <2>3, <2>4
  <1>6. CASE ApplyNext
    <2>1. attempts' = 0 /\ cuts' = cuts
      BY <1>0, <1>6 DEF ApplyNext, ApplyStages, RemoveFile, RenameSlot, WriteEnv, WriteState,
         ApplyFails
    <2> QED
      BY <1>1, <2>1
  <1>7. CASE Confirm /\ ~UNCHANGED confirmed
    BY <1>7 DEF Confirm
  <1> QED
    BY <1>2, <1>3, <1>4, <1>5, <1>6, <1>7 DEF Next, BootNext

LEMMA InitUpdate == Init => UpdateInv
  <1> SUFFICES ASSUME Init
               PROVE  UpdateInv
    OBVIOUS
  <1>1. TypeOK
    <2>1. disk \in Volumes /\ reach \subseteq Volumes
      BY Constants, SlotTypes DEF Init, Volumes
    <2>2. applies \in 0..MaxApplies /\ cuts \in 0..MaxCuts /\ attempts \in Nat
      BY Constants DEF Init
    <2>3. confirmed \in BOOLEAN /\ failed \in BOOLEAN
      BY DEF Init
    <2>4. /\ mode = "grub" /\ booted = "A" /\ apply = "idle" /\ staged = "none"
          /\ mounted \in BOOLEAN
      BY DEF Init
    <2> QED
      BY <2>1, <2>2, <2>3, <2>4 DEF TypeOK
  <1>2. StageInv /\ SlotInv
    BY DEF Init, StageInv, SlotInv
  <1>3. CountInv /\ CutInv
    BY Constants DEF Init, CountInv, CutInv, Debt
  <1> QED
    BY <1>1, <1>2, <1>3 DEF UpdateInv

LEMMA UpdateInvariant == Spec => []UpdateInv
  <1>1. UpdateInv /\ [Next]_vars => UpdateInv'
    BY NextTypeOK, NextStage, NextSlot, NextCount, NextCut DEF UpdateInv
  <1> QED
    BY <1>1, InitUpdate, PTL DEF Spec

\* The volume, the slots and the boot environment are always well formed, and
\* the budget on the volume is one that was written, or none, or unreadable.
THEOREM UpdateTypeCorrect == Spec => []TypeOK
  <1>1. UpdateInv => TypeOK
    BY DEF UpdateInv
  <1> QED
    BY <1>1, UpdateInvariant, PTL

\* While slot B is active, an image that gets as far as the write-back of its
\* decrement is started at most MAX_BOOT_ATTEMPTS times before it is confirmed or
\* rolled back, for any budget and any number of updates before it; and any number
\* of power cuts gives back no more boots than there were cuts.
THEOREM BudgetIsKept == Spec => []WithinBudget
  <1>1. UpdateInv => WithinBudget
    <2> SUFFICES ASSUME UpdateInv
                 PROVE  WithinBudget
      OBVIOUS
    <2>1. attempts \in Nat /\ cuts \in Nat /\ MaxTries \in Nat
      BY Constants DEF UpdateInv, TypeOK
    <2> QED
      BY <2>1 DEF UpdateInv, CountInv, CutInv, Debt, WithinBudget
  <1> QED
    BY <1>1, UpdateInvariant, PTL

-----------------------------------------------------------------------------
(* Rollbacks and confirmations last.                                        *)

\* Only a new update changes how many there were.
LEMMA NextApplies ==
    ASSUME TypeOK, StageInv, [Next]_vars
    PROVE  \/ applies' = applies /\ (apply = "idle" => apply' = "idle")
           \/ applies' = applies + 1
  BY Boots DEF Next, BootNext, ApplyNext, MountPersistent, CheckGoesOn, CountAttempt, RollBackEnv,
     RollBackForget, RollBackReboot, Panic, Confirm, ApplyStages, RemoveFile, RenameSlot, WriteEnv,
     WriteState, ApplyFails, WriteBack, Reboot, PowerCut, PowerCycle, LosePower,
     vars, history

\* A step between updates.
LEMMA NoApply ==
    ASSUME TypeOK, StageInv, [Next]_vars, applies' = applies, apply = "idle"
    PROVE  \/ BootNext
           \/ WriteBack \/ Reboot \/ PowerCut \/ PowerCycle
           \/ UNCHANGED vars
  BY DEF Next, ApplyNext, ApplyStages, RemoveFile, RenameSlot, WriteEnv, WriteState,
     ApplyFails, TypeOK

LEMMA NextSticks ==
    ASSUME NEW k \in 0..MaxApplies, UpdateInv, Sticks(k), [Next]_vars
    PROVE  Sticks(k)'
  <1>0. TypeOK /\ StageInv /\ k \in Nat /\ applies \in Nat
    BY Constants DEF UpdateInv, TypeOK
  <1>1. applies' >= k
    BY <1>0, NextApplies DEF Sticks
  <1> SUFFICES ASSUME applies' = k, ~failed'
               PROVE  /\ apply' = "idle"
                      /\ \A d \in reach' :
                           d.env = "A" \/ (d.tries = 0 /\ d.slot.image # "nodisk")
                      /\ mode' = "starting" => booted' = "A" \/ disk'.env = "A"
    BY <1>1 DEF Sticks
  <1>2. applies = k /\ applies' = applies
    BY <1>0, NextApplies DEF Sticks
  <1> USE DEF history
  <1>3. ~failed
    BY <1>0, <1>2, Saves, Constants, Outcomes, Writes, Boots
       DEF Next, BootNext, ApplyNext, MountPersistent, CheckGoesOn, CountAttempt, RollBackEnv,
           RollBackForget, RollBackReboot, Panic, Confirm, ApplyStages, RemoveFile, RenameSlot, WriteEnv,
           WriteState, ApplyFails, WriteBack, Reboot, PowerCut, PowerCycle, LosePower,
           vars, TypeOK
  <1>4. /\ apply = "idle" /\ apply' = "idle"
        /\ \A d \in reach : d.env = "A" \/ (d.tries = 0 /\ d.slot.image # "nodisk")
        /\ mode = "starting" => booted = "A" \/ disk.env = "A"
        /\ disk \in reach
    BY <1>0, <1>2, <1>3, NextApplies DEF Sticks, StageInv
  <1>5. CASE Grub \/ Pick \/ MountPersistent
    BY <1>4, <1>5, Boots DEF MountPersistent
  <1>6. CASE CheckGoesOn
    <2>1. booted = "A" \/ disk.env = "A"
      <3>1. SUFFICES ASSUME booted = "B", disk.env # "A"
                     PROVE  FALSE
        BY <1>0, <3>1 DEF TypeOK
      <3>2. disk.tries = 0 /\ mounted
        BY <1>0, <1>3, <1>4, <1>6, <3>1 DEF CheckGoesOn, CountAttempt, StageInv, Findable
      <3>3. Outcome = "roll_back"
        BY <3>1, <3>2, Constants DEF Outcome, Absent, Torn
      <3> QED
        BY <1>6, <3>3 DEF CheckGoesOn, CountAttempt
    <2>2. CASE Outcome = "decrement"
      <3>1. /\ booted = "B" /\ disk.tries # 0 /\ disk.tries - 1 \in Tries
            /\ SaveTries(disk.tries - 1)
        BY <1>0, <1>6, <2>2, Outcomes DEF CheckGoesOn, CountAttempt, TypeOK
      <3>2. disk.env = "A"
        BY <2>1, <3>1
      <3>3. disk'.env = "A" /\ \A d \in reach' : d \in reach \/ d.env = "A"
        BY <1>0, <3>1, <3>2, Saves DEF TypeOK
      <3> QED
        BY <1>4, <1>6, <3>3 DEF CheckGoesOn, CountAttempt
    <2>3. CASE Outcome # "decrement"
      BY <1>4, <1>6, <2>1, <2>3 DEF CheckGoesOn, CountAttempt
    <2> QED
      BY <2>2, <2>3
  <1>7. CASE RollBackEnv
    <2>1. [disk EXCEPT !.env = "A"].env = "A"
      BY <1>0 DEF TypeOK, Volumes
    <2> QED
      BY <1>0, <1>4, <1>7, <2>1, Writes DEF RollBackEnv, TypeOK
  <1>8. CASE RollBackForget
    <2>1. [disk EXCEPT !.tries = Absent].env = "A"
      BY <1>0, <1>3, <1>8 DEF TypeOK, Volumes, StageInv, RollBackForget
    <2> QED
      BY <1>0, <1>4, <1>8, <2>1, Writes DEF RollBackForget, TypeOK
  <1>9. CASE Confirm
    <2>1. [disk EXCEPT !.tries = Absent].env = disk.env
      BY <1>0 DEF TypeOK, Volumes
    <2>2. mode = "starting" /\ mode' = "up" /\ UNCHANGED booted
      BY <1>9 DEF Confirm
    <2>3. CASE UNCHANGED <<disk, reach>>
      BY <1>4, <2>2, <2>3
    <2>4. CASE booted = "B" /\ Write([disk EXCEPT !.tries = Absent], {})
      BY <1>0, <1>4, <2>1, <2>2, <2>4, Writes DEF TypeOK
    <2> QED
      BY <1>9, <2>3, <2>4 DEF Confirm
  <1>10. CASE RollBackReboot \/ Panic \/ WriteBack \/ Reboot
    BY <1>4, <1>10 DEF RollBackReboot, Panic, WriteBack, Reboot, Flushed
  <1>11. CASE PowerCut \/ PowerCycle
    BY <1>4, <1>11 DEF PowerCut, PowerCycle, LosePower, Flushed
  <1>12. CASE UNCHANGED vars
    BY <1>4, <1>12 DEF vars
  <1> QED
    BY <1>0, <1>2, <1>4, <1>5, <1>6, <1>7, <1>8, <1>9, <1>10, <1>11, <1>12, NoApply
       DEF BootNext

LEMMA NextSettled ==
    ASSUME NEW k \in 0..MaxApplies, UpdateInv, Settled(k), [Next]_vars
    PROVE  Settled(k)'
  <1>0. TypeOK /\ StageInv /\ k \in Nat /\ applies \in Nat
    BY Constants DEF UpdateInv, TypeOK
  <1>1. applies' >= k
    BY <1>0, NextApplies DEF Settled
  <1> SUFFICES ASSUME applies' = k
               PROVE  /\ apply' = "idle"
                      /\ \A d \in reach' : d.tries = Absent
                      /\ mode' # "rollback"
    BY <1>1 DEF Settled
  <1>2. applies = k /\ applies' = applies
    BY <1>0, NextApplies DEF Settled
  <1> USE DEF history
  <1>3. /\ apply = "idle" /\ apply' = "idle"
        /\ \A d \in reach : d.tries = Absent
        /\ disk.tries = Absent /\ mode # "rollback"
    BY <1>0, <1>2, NextApplies DEF Settled, StageInv
  <1>4. Outcome = "not_applicable"
    BY <1>3 DEF Outcome
  <1>5. CASE Grub \/ Pick \/ MountPersistent \/ CheckGoesOn
    BY <1>3, <1>4, <1>5, Boots DEF MountPersistent, CheckGoesOn, CountAttempt
  <1>6. CASE RollBackEnv \/ RollBackForget
    BY <1>3, <1>4, <1>6 DEF RollBackEnv, RollBackForget
  <1>7. CASE Confirm
    BY <1>3, <1>7 DEF Confirm
  <1>8. CASE RollBackReboot \/ Panic \/ WriteBack \/ Reboot
    BY <1>3, <1>8 DEF RollBackReboot, Panic, WriteBack, Reboot, Flushed
  <1>9. CASE PowerCut \/ PowerCycle
    BY <1>3, <1>9 DEF PowerCut, PowerCycle, LosePower, Flushed
  <1>10. CASE UNCHANGED vars
    BY <1>3, <1>10 DEF vars
  <1> QED
    BY <1>0, <1>2, <1>3, <1>5, <1>6, <1>7, <1>8, <1>9, <1>10, NoApply DEF BootNext

\* A rollback that has begun is carried through, whatever power cuts hit it and
\* whatever else was in the way of writing back: unless the volume refused a write
\* or was not found in time, slot B is not started again before another update is
\* applied, but by somebody who picks it although slot A is the active one.
THEOREM RollBackIsCarriedThrough == Spec => RollBackSticks
  <1> SUFFICES ASSUME NEW k \in 0..MaxApplies
               PROVE  Spec => []((mode = "rollback" /\ applies = k)
                         => [](applies = k /\ mode = "starting" /\ booted = "B"
                                 => failed \/ disk.env = "A"))
    BY DEF RollBackSticks
  <1>1. UpdateInv /\ mode = "rollback" /\ applies = k => Sticks(k)
    BY Constants DEF UpdateInv, StageInv, Sticks
  <1>2. UpdateInv /\ Sticks(k) /\ [Next]_vars => Sticks(k)'
    BY NextSticks
  <1>3. Sticks(k) => (applies = k /\ mode = "starting" /\ booted = "B"
                        => failed \/ disk.env = "A")
    BY DEF Sticks
  <1> QED
    BY <1>1, <1>2, <1>3, UpdateInvariant, PTL DEF Spec

\* Once the removal of the state file has reached the disk, no power cut brings
\* a rollback of the confirmed slot before another update is applied.
THEOREM ConfirmIsPermanent == Spec => DurableConfirmIsPermanent
  <1> SUFFICES ASSUME NEW k \in 0..MaxApplies
               PROVE  Spec => []((confirmed /\ mode = "up" /\ apply = "idle" /\ applies = k
                                   /\ \A d \in reach : d.tries = Absent)
                         => [](applies = k => mode # "rollback"))
    BY DEF DurableConfirmIsPermanent
  <1>1. confirmed /\ mode = "up" /\ apply = "idle" /\ applies = k
          /\ (\A d \in reach : d.tries = Absent) => Settled(k)
    BY Constants DEF Settled
  <1>2. UpdateInv /\ Settled(k) /\ [Next]_vars => Settled(k)'
    BY NextSettled
  <1>3. Settled(k) => (applies = k => mode # "rollback")
    BY DEF Settled
  <1> QED
    BY <1>1, <1>2, <1>3, UpdateInvariant, PTL DEF Spec

=============================================================================
