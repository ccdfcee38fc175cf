---------------------------- MODULE BootControl ----------------------------
(***************************************************************************)
(* The A/B boot control of the appliance: boot/appliance.rs, the loader    *)
(* that drives it before the kernel starts (main.rs, efi_main), the boot   *)
(* path that confirms a boot, and the installer that stages an update into *)
(* the inactive slot and arms it (update.rs, apply_inspection).            *)
(*                                                                         *)
(* The control block is kept twice: in the UEFI variable echOSBootControl, *)
(* which the loader and the running kernel write, and in BOOTCTRL.BIN,     *)
(* which only the loader writes.  Power can fail between any two steps,    *)
(* a variable or file write can fail, and a file write can tear.           *)
(*                                                                         *)
(* Left out of the block: the boot flags, the stage, the rollback reason,  *)
(* the panic count and the slot generations, which are reported and never  *)
(* read back by the code modelled here.                                    *)
(***************************************************************************)
EXTENDS Naturals, FiniteSets

CONSTANTS
  DEFAULT_BOOT_ATTEMPTS,
  MaxEpoch        \* the largest value of the saturating boot_epoch counter

ASSUME BootAssumption == DEFAULT_BOOT_ATTEMPTS \in Nat \ {0} /\ MaxEpoch \in Nat \ {0}

VARIABLES
  variable,       \* echOSBootControl, or NoBlock
  file,           \* BOOTCTRL.BIN, or NoBlock when it is missing or torn
  pc,             \* how far this boot has come
  loader,         \* the block the loader has computed for this boot
  shadow,         \* BOOT_CONTROL_SHADOW
  runtime,        \* the kernel has UEFI runtime services in this boot
  late,           \* a snapshot the main thread has taken but not yet persisted
  image,          \* what each system partition holds
  step, target,   \* the installer: position in apply_inspection, its slot
  stable,         \* history: the slot of the last boot whose success was saved
  trials,         \* history: boots of the armed slot since it was armed
  strayed,        \* history: the stable slot itself ran out of attempts
  lapsed          \* history: a variable write was lost or runtime was missing

loaderVars == <<file, loader>>
kernelVars == <<shadow, runtime, late>>
installVars == <<image, step, target>>
history == <<stable, trials, strayed, lapsed>>
vars == <<variable, pc, loaderVars, kernelVars, installVars, history>>

SystemSlots == {"SystemA", "SystemB"}
SlotId == SystemSlots \cup {"None"}
NoBlock == [active |-> "None", pending |-> "None", attempts |-> 0, epoch |-> 0]

\* BootControlBlock::validate accepts it.
Valid(b) == b # NoBlock

Block(active, pending, attempts, epoch) ==
  [active |-> active, pending |-> pending, attempts |-> attempts, epoch |-> epoch]

\* BootControlBlock::new
Default == Block("SystemA", "None", DEFAULT_BOOT_ATTEMPTS, 0)

inactive_pair(slot) == IF slot = "SystemA" THEN "SystemB" ELSE "SystemA"

-----------------------------------------------------------------------------
(* Operations on a block *)

rollback_to_stable(b) ==
  [b EXCEPT !.active = inactive_pair(b.pending), !.pending = "None",
            !.attempts = DEFAULT_BOOT_ATTEMPTS]

\* The first lines of begin_boot: an armed slot becomes the active one.
Chosen(b) ==
  [b EXCEPT !.active = CASE b.pending # "None" -> b.pending
                         [] b.pending = "None" /\ b.active = "None" -> "SystemA"
                         [] OTHER -> b.active,
            !.epoch = IF b.epoch < MaxEpoch THEN b.epoch + 1 ELSE MaxEpoch]

\* An attempt is not paid for.
begin_boot_free(b) == IF b.attempts = 0 THEN rollback_to_stable(Chosen(b)) ELSE Chosen(b)

\* The armed slot runs out of attempts and stays the active one.
begin_boot_keeps(b) ==
  IF b.attempts = 0
  THEN [Chosen(b) EXCEPT !.pending = "None", !.attempts = DEFAULT_BOOT_ATTEMPTS]
  ELSE [Chosen(b) EXCEPT !.attempts = @ - 1]

begin_boot(b) ==
  IF b.attempts = 0 THEN rollback_to_stable(Chosen(b))
  ELSE [Chosen(b) EXCEPT !.attempts = @ - 1]

stage_update(b, slot) == [b EXCEPT !.pending = slot, !.attempts = DEFAULT_BOOT_ATTEMPTS]

mark_boot_success(b) ==
  [b EXCEPT !.attempts = DEFAULT_BOOT_ATTEMPTS,
            !.active = IF b.pending # "None" THEN b.pending ELSE @,
            !.pending = "None"]

\* The file is preferred at equal epochs.
merge_seed_file(f, v) ==
  CASE Valid(f) /\ Valid(v) -> IF v.epoch > f.epoch THEN v ELSE f
    [] Valid(f) /\ ~Valid(v) -> f
    [] ~Valid(f) /\ Valid(v) -> v
    [] OTHER -> Default

merge_seed(f, v) ==
  CASE Valid(f) /\ Valid(v) -> IF v.epoch >= f.epoch THEN v ELSE f
    [] Valid(f) /\ ~Valid(v) -> f
    [] ~Valid(f) /\ Valid(v) -> v
    [] OTHER -> Default

-----------------------------------------------------------------------------
(* The loader *)

Init ==
  /\ variable = NoBlock /\ file \in {NoBlock, Default} /\ loader = NoBlock
  /\ pc = "off" /\ shadow = Default /\ runtime = FALSE /\ late = NoBlock
  /\ image = [s \in SystemSlots |-> IF s = "SystemA" THEN "good" ELSE "empty"]
  /\ step = "idle" /\ target = "None"
  /\ stable = "SystemA" /\ trials = 0 /\ strayed = FALSE /\ lapsed = FALSE

\* efi_main: the two seeds are read and merged, and begin_boot charges an attempt.
PowerOn ==
  /\ pc = "off"
  /\ LET seed == merge_seed(file, variable) IN
     /\ loader' = begin_boot(seed)
     /\ strayed' = (strayed \/ (seed.attempts = 0 /\ seed.pending = "None" /\ seed.active = stable))
  /\ pc' = "sync_variable"
  /\ UNCHANGED <<variable, file, kernelVars, installVars, stable, trials, lapsed>>

\* sync_boot_control_seed, first half forgotten.
SyncNothing ==
  /\ pc = "sync_variable" /\ pc' = "sync_file"
  /\ UNCHANGED <<variable, loaderVars, kernelVars, installVars, history>>

\* sync_boot_control_seed: the variable is set, or reports an error.
SyncVariable ==
  /\ pc = "sync_variable" /\ pc' = "sync_file"
  /\ \/ variable' = loader /\ UNCHANGED lapsed
     \/ lapsed' = TRUE /\ UNCHANGED variable
  /\ UNCHANGED <<loaderVars, kernelVars, installVars, stable, trials, strayed>>

\* sync_boot_control_seed: the file is rewritten in place; it cannot be opened,
\* or is written in part, and the boot goes on.
SyncFile ==
  /\ pc = "sync_file" /\ pc' = "kernel"
  /\ file' \in {file, loader, NoBlock}
  /\ UNCHANGED <<variable, loader, kernelVars, installVars, history>>

-----------------------------------------------------------------------------
(* The kernel *)

\* persist_shadow: without runtime services nothing is written.
persist_shadow(b) ==
  \/ /\ runtime /\ variable' = b /\ UNCHANGED lapsed
     /\ stable' = IF pc = "done" THEN b.active ELSE stable
     /\ trials' = IF pc = "done" THEN 0 ELSE trials
  \/ lapsed' = TRUE /\ UNCHANGED <<variable, stable, trials>>

\* load_persisted().unwrap_or_default(), init_shadow, and the snapshot of
\* publish_stage(BootControlLoaded); without verified runtime services the
\* shadow keeps the value it was compiled with.
KernelInit ==
  /\ pc = "kernel" /\ pc' = "up"
  /\ \/ /\ runtime' = TRUE
        /\ shadow' = IF Valid(variable) THEN variable ELSE Default
        /\ late' = shadow' /\ UNCHANGED lapsed
     \/ runtime' = FALSE /\ shadow' = Default /\ lapsed' = TRUE /\ UNCHANGED late
  /\ trials' = IF lapsed' \/ loader.pending = "None" THEN 0 ELSE trials + 1
  /\ UNCHANGED <<variable, loaderVars, installVars, stable, strayed>>

\* The main thread persists the snapshot it took under the lock.
PersistSnapshot ==
  /\ pc \in {"up", "done"} /\ late # NoBlock
  /\ persist_shadow(late) /\ late' = NoBlock
  /\ UNCHANGED <<pc, loaderVars, shadow, runtime, installVars, strayed>>

\* The boot path reaches mark_boot_success: the slot it runs from works.  The
\* later call of the desktop session finds BOOT_SUCCESS_PUBLISHED set.
MarkBootSuccess ==
  /\ pc = "up" /\ late = NoBlock /\ image[shadow.active] = "good"
  /\ shadow' = mark_boot_success(shadow) /\ late' = shadow'
  /\ pc' = "done"
  /\ UNCHANGED <<variable, loaderVars, runtime, installVars, history>>

\* publish_stage(DisplayReady, DesktopReady, AppBasketReady) from the compositor.
\* The publications before mark_boot_success save the block KernelInit saved.
PublishStage ==
  /\ pc = "done" /\ late = NoBlock /\ late' = shadow
  /\ UNCHANGED <<variable, pc, loaderVars, shadow, runtime, installVars, history>>

PowerLost ==
  /\ pc' = "off" /\ loader' = NoBlock /\ shadow' = Default /\ runtime' = FALSE
  /\ late' = NoBlock /\ step' = "idle" /\ target' = "None"

\* record_panic, after the other CPUs were stopped; the machine is restarted.
Panic ==
  /\ pc \in {"up", "done"} /\ persist_shadow(shadow) /\ PowerLost
  /\ UNCHANGED <<file, image, strayed>>

PowerLoss ==
  /\ pc # "off" /\ PowerLost
  /\ UNCHANGED <<variable, file, image, stable, trials, strayed, lapsed>>

-----------------------------------------------------------------------------
(* The installer: apply_inspection, on behalf of a shell or desktop request *)

\* The slot is the one the loader did not find active, before the trial.
StartUpdateStale ==
  /\ pc = "done" /\ step = "idle" /\ late = NoBlock
  /\ target' = inactive_pair(file.active)
  /\ \/ step' = "write" /\ image' = [image EXCEPT ![target'] = "torn"]
     \/ step' = "arm" /\ UNCHANGED image
  /\ UNCHANGED <<variable, pc, loaderVars, kernelVars, history>>

\* plan_update and the first write: a platform image overwrites the partition,
\* a plan of service bundles adds files to it.  The shell and the desktop, which
\* send the requests, start after mark_boot_success has been persisted.
StartUpdate ==
  /\ pc = "done" /\ step = "idle" /\ late = NoBlock
  /\ target' = inactive_pair(shadow.active)
  /\ \/ step' = "write" /\ image' = [image EXCEPT ![target'] = "torn"]
     \/ step' = "arm" /\ UNCHANGED image
  /\ UNCHANGED <<variable, pc, loaderVars, kernelVars, history>>

\* stage_platform_image: the image is complete, whatever it is worth, or a
\* write failed and apply_inspection returns early.
StagePlatformImage ==
  /\ step = "write"
  /\ \/ /\ \E content \in {"good", "bad"} : image' = [image EXCEPT ![target] = content]
        /\ step' = "arm" /\ UNCHANGED target
     \/ step' = "idle" /\ target' = "None" /\ UNCHANGED image
  /\ UNCHANGED <<variable, pc, loaderVars, kernelVars, history>>

\* begin_update: the shadow changes under the lock ...
BeginUpdate ==
  /\ step = "arm" /\ step' = "persist"
  /\ shadow' = stage_update(shadow, target)
  /\ UNCHANGED <<variable, pc, loaderVars, runtime, late, image, target, history>>

\* ... and is persisted after it is released.
PersistUpdate ==
  /\ step = "persist" /\ step' = "idle" /\ target' = "None"
  /\ persist_shadow(shadow)
  /\ UNCHANGED <<pc, loaderVars, kernelVars, image, strayed>>

Boot == PowerOn \/ SyncVariable \/ SyncFile \/ KernelInit \/ PersistSnapshot \/ MarkBootSuccess

Install == StartUpdate \/ StagePlatformImage \/ BeginUpdate \/ PersistUpdate

Next == Boot \/ PublishStage \/ Panic \/ PowerLoss \/ Install

\* A machine that is off is switched on, and a boot runs until it is confirmed
\* or fails: a slot that does not work ends in a panic.
Doomed == Panic /\ image[shadow.active] # "good"

Spec == Init /\ [][Next]_vars /\ WF_vars(Boot \/ Doomed)

-----------------------------------------------------------------------------
(* Properties *)

Blocks == [active : SystemSlots, pending : SlotId, attempts : 0..DEFAULT_BOOT_ATTEMPTS,
           epoch : 0..MaxEpoch]
AnyBlock == Blocks \cup {NoBlock}

\* The control blocks in the variable, the file, the loader and the kernel name
\* a system slot and never more attempts than DEFAULT_BOOT_ATTEMPTS.
TypeOK ==
  /\ variable \in AnyBlock /\ file \in AnyBlock /\ loader \in AnyBlock
  /\ late \in AnyBlock /\ shadow \in Blocks
  /\ pc \in {"off", "sync_variable", "sync_file", "kernel", "up", "done"}
  /\ image \in [SystemSlots -> {"good", "bad", "torn", "empty"}]
  /\ step \in {"idle", "write", "arm", "persist"} /\ target \in SlotId
  /\ stable \in SystemSlots /\ trials \in Nat

\* merge_seed: as long as the variable could be written, a boot starts from what
\* the last one left in it, a confirmation or an armed update included, and not
\* from the copy in BOOTCTRL.BIN, which the running kernel never updates.
LastSaveWins == ~lapsed /\ Valid(variable) => merge_seed(file, variable) = variable

\* begin_boot: a slot that is armed and never confirmed is booted no more than
\* DEFAULT_BOOT_ATTEMPTS times, wherever its boots are cut short.
TrialsBounded == trials <= DEFAULT_BOOT_ATTEMPTS

\* The kernel mounts the partition of the slot the loader chose, from the first
\* access to the last, although it reads the choice back from the variable.
RunsWhatWasChosen == ~lapsed /\ pc \in {"up", "done"} => shadow.active = loader.active

\* plan_update keeps the installer away from the slot that last booted well,
\* so there is always a complete image to return to.
StableStaysWhole == ~lapsed => image[stable] = "good"

\* rollback_to_stable: when an armed slot has used up its attempts, the loader
\* returns to the slot that was confirmed last.
GivesUpToStable ==
  [][ ~lapsed /\ pc = "off" /\ merge_seed(file, variable).pending # "None" /\ loader'.pending = "None"
        => loader'.active \in {stable, "None"} ]_vars

\* Attempts may run out with no slot armed, by three interrupted boots in a row;
\* the loader then too returns to the slot that was confirmed last.
RollsBackToStable ==
  [][ ~lapsed /\ pc = "off" /\ merge_seed(file, variable).attempts = 0
        => loader'.active \in {stable, "None"} ]_vars

\* A boot that would have gone well ends before it is confirmed.
CutShort ==
  /\ pc \notin {"off", "done"} /\ pc' = "off"
  /\ pc = "up" => image[shadow.active] = "good"

\* Once boots are no longer cut short, the machine comes up again and again on a
\* slot that works, bad updates and half-written images notwithstanding.
ComesUp == (<>[][~CutShort]_vars) => []<>(pc = "done" \/ strayed \/ lapsed)

=============================================================================
