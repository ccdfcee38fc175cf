------------------------ MODULE BootControl_proofs ------------------------
(***************************************************************************)
(* Proofs about BootControl, for every number of boot attempts and every   *)
(* width of the boot epoch.                                                *)
(***************************************************************************)
EXTENDS BootControl, TLAPS

D == DEFAULT_BOOT_ATTEMPTS

\* A block whose armed slot is the one beside the stable slot, with enough
\* attempts spent to account for the boots it was given.
Fair(b, used) ==
  b.pending # "None" => b.pending = inactive_pair(stable) /\ used + b.attempts <= D

\* A block of a boot whose success has been saved.
Confirmed(b) ==
  /\ b.active = stable /\ b.epoch = loader.epoch /\ b.attempts = D
  /\ b.pending \in {"None", inactive_pair(stable)}

\* The state of a confirmed boot, before and after its success reaches the variable.
Unsaved ==
  /\ variable = loader /\ late = shadow /\ step = "idle"
  /\ shadow.pending = "None" /\ shadow.attempts = D
Saved ==
  /\ trials = 0 /\ Confirmed(variable) /\ Confirmed(shadow)
  /\ late = NoBlock \/ Confirmed(late)
  /\ Valid(variable)

Early == pc \in {"off", "sync_variable"}
Entering == pc \in {"sync_file", "kernel"}

\* The inductive invariant of a machine that has not lost a variable write.
Sound ==
  /\ image[stable] = "good"
  /\ Valid(file) => IF Valid(variable) THEN file.epoch <= variable.epoch ELSE file = Default
  /\ Fair(variable, IF Entering THEN trials + 1 ELSE trials)
  /\ pc = "off" => loader = NoBlock
  /\ pc = "sync_variable" => loader = begin_boot(merge_seed(file, variable))
  /\ ~Early => Valid(loader) /\ (loader.pending # "None" => loader.active = loader.pending)
  /\ Entering => variable = loader
  /\ pc = "up" => variable = loader /\ shadow = loader /\ late \in {NoBlock, loader}
  /\ pc = "done" =>
       /\ shadow.active = loader.active /\ shadow.epoch = loader.epoch
       /\ image[shadow.active] = "good" /\ (Unsaved \/ Saved)
  /\ pc # "done" => step = "idle"
  /\ pc \notin {"up", "done"} => late = NoBlock
  /\ step # "idle" => Saved /\ target = inactive_pair(stable)

Inv == TypeOK /\ TrialsBounded /\ (~lapsed => Sound)

-----------------------------------------------------------------------------
(* Lemmas about the operations on a block *)

\* begin_boot of a valid block is a valid block that is not older, and runs the
\* armed slot if it keeps one.
LEMMA BeginBoot ==
  ASSUME NEW b \in Blocks
  PROVE  LET r == begin_boot(b) IN
         /\ r \in Blocks /\ r.epoch >= b.epoch
         /\ r.pending # "None" => /\ r.active = r.pending /\ r.pending = b.pending
                                  /\ r.attempts = b.attempts - 1 /\ b.attempts > 0
         /\ b.pending # "None" /\ r.pending = "None" =>
              r.active = inactive_pair(b.pending)
  <1> USE BootAssumption DEF BootAssumption
  <1> DEFINE c == Chosen(b)
             a == CASE b.pending # "None" -> b.pending
                    [] b.pending = "None" /\ b.active = "None" -> "SystemA"
                    [] OTHER -> b.active
             e == IF b.epoch < MaxEpoch THEN b.epoch + 1 ELSE MaxEpoch
  <1>1. /\ b = [active |-> b.active, pending |-> b.pending, attempts |-> b.attempts,
                epoch |-> b.epoch]
        /\ b.active \in SystemSlots /\ b.pending \in SlotId
        /\ b.attempts \in 0..D /\ b.epoch \in 0..MaxEpoch
    BY DEF Blocks, D
  <1>2. a \in SystemSlots /\ (b.pending # "None" => a = b.pending)
    BY <1>1 DEF SlotId, SystemSlots
  <1>3. e \in 0..MaxEpoch /\ e >= b.epoch
    BY <1>1
  <1>4. c = [b EXCEPT !.active = a, !.epoch = e]
    BY DEF Chosen
  <1> HIDE DEF a, e, c
  <1>5. c = [active |-> a, pending |-> b.pending, attempts |-> b.attempts, epoch |-> e]
    BY <1>1, <1>4
  <1>6. CASE b.attempts = 0
    <2>1. begin_boot(b) = [active |-> inactive_pair(b.pending), pending |-> "None",
                           attempts |-> D, epoch |-> e]
      <3>1. begin_boot(b) = rollback_to_stable(c)
        BY <1>6 DEF begin_boot, c
      <3> QED BY <3>1, <1>5 DEF rollback_to_stable, D
    <2>2. inactive_pair(b.pending) \in SystemSlots /\ D \in 0..D
      BY DEF inactive_pair, SystemSlots, D
    <2> QED BY <2>1, <2>2, <1>3, <1>1 DEF Blocks, SlotId, D
  <1>7. CASE b.attempts # 0
    <2>1. begin_boot(b) = [active |-> a, pending |-> b.pending,
                           attempts |-> b.attempts - 1, epoch |-> e]
      BY <1>5, <1>7 DEF begin_boot, c
    <2>2. b.attempts - 1 \in 0..D /\ b.attempts > 0
      BY <1>1, <1>7 DEF D
    <2> QED BY <2>1, <2>2, <1>1, <1>2, <1>3 DEF Blocks, D
  <1> QED BY <1>6, <1>7

\* What BootControlBlock::new makes is a block.
LEMMA DefaultBlock == Default \in Blocks
  BY BootAssumption DEF BootAssumption, Default, Block, Blocks, SlotId, SystemSlots

\* A stored block is valid exactly when it is one.
LEMMA ValidBlock ==
  ASSUME NEW b \in AnyBlock
  PROVE  Valid(b) <=> b \in Blocks
  BY DEF AnyBlock, Blocks, NoBlock, SystemSlots, Valid

\* merge_seed always yields a valid block: one of the two copies, or the default.
LEMMA MergeSeed ==
  ASSUME NEW f \in AnyBlock, NEW v \in AnyBlock
  PROVE  /\ merge_seed(f, v) \in Blocks
         /\ Valid(v) /\ (Valid(f) => f.epoch <= v.epoch) => merge_seed(f, v) = v
         /\ ~Valid(v) /\ (Valid(f) => f = Default) => merge_seed(f, v) = Default
  <1>1. (Valid(f) => f \in Blocks) /\ (Valid(v) => v \in Blocks)
    BY ValidBlock
  <1>2. Valid(f) /\ Valid(v) => f.epoch \in Nat /\ v.epoch \in Nat
    BY <1>1, BootAssumption DEF BootAssumption, Blocks
  <1>3. Valid(f) /\ Valid(v) => merge_seed(f, v) = IF v.epoch >= f.epoch THEN v ELSE f
    BY DEF merge_seed
  <1>4. Valid(f) /\ ~Valid(v) => merge_seed(f, v) = f
    BY DEF merge_seed
  <1>5. ~Valid(f) /\ Valid(v) => merge_seed(f, v) = v
    BY DEF merge_seed
  <1>6. ~Valid(f) /\ ~Valid(v) => merge_seed(f, v) = Default
    BY DEF merge_seed
  <1> QED BY <1>1, <1>2, <1>3, <1>4, <1>5, <1>6, DefaultBlock

\* The two system slots are each other's pair.
LEMMA InactivePair ==
  ASSUME NEW s \in SystemSlots
  PROVE  inactive_pair(s) \in SystemSlots /\ inactive_pair(s) # s
         /\ inactive_pair(inactive_pair(s)) = s
  BY DEF SystemSlots, inactive_pair

\* What the kernel does to a block keeps it one.
LEMMA KernelBlocks ==
  ASSUME NEW b \in Blocks, NEW s \in SlotId
  PROVE  mark_boot_success(b) \in Blocks /\ stage_update(b, s) \in Blocks
  <1>1. D \in 0..D
    BY BootAssumption DEF BootAssumption, D
  <1>2. mark_boot_success(b) \in Blocks
    BY <1>1 DEF Blocks, SlotId, mark_boot_success, D
  <1>3. stage_update(b, s) \in Blocks
    BY <1>1 DEF Blocks, stage_update, D
  <1> QED BY <1>2, <1>3

-----------------------------------------------------------------------------
(* Types *)

LEMMA TypeInit == Init => TypeOK
  BY DefaultBlock DEF Init, TypeOK, AnyBlock, SystemSlots, SlotId

\* A persist writes a block or leaves the variable alone.
LEMMA TypePersist ==
  ASSUME TypeOK, NEW b \in Blocks, persist_shadow(b)
  PROVE  variable' \in AnyBlock /\ stable' \in SystemSlots /\ trials' \in Nat
  BY DEF TypeOK, persist_shadow, AnyBlock, Blocks

LEMMA TypeStep == TypeOK /\ [Next]_vars => TypeOK'
  <1> SUFFICES ASSUME TypeOK, [Next]_vars PROVE TypeOK'
    OBVIOUS
  <1> USE DEF TypeOK
  <1>1. CASE PowerOn
    BY <1>1, MergeSeed, BeginBoot DEF PowerOn, AnyBlock, kernelVars, installVars
  <1>2. CASE SyncVariable
    BY <1>2 DEF SyncVariable, loaderVars, kernelVars, installVars
  <1>3. CASE SyncFile
    BY <1>3 DEF SyncFile, kernelVars, installVars, history, AnyBlock
  <1>4. CASE KernelInit
    <2>1. shadow' \in Blocks /\ late' \in AnyBlock
      BY <1>4, DefaultBlock, ValidBlock DEF KernelInit, AnyBlock
    <2> QED BY <1>4, <2>1 DEF KernelInit, loaderVars, installVars
  <1>5. CASE PersistSnapshot
    <2>1. late \in Blocks
      BY <1>5 DEF PersistSnapshot, AnyBlock
    <2> QED BY <1>5, <2>1, TypePersist DEF PersistSnapshot, loaderVars, installVars, AnyBlock
  <1>6. CASE MarkBootSuccess
    BY <1>6, KernelBlocks DEF MarkBootSuccess, loaderVars, installVars, history, AnyBlock, SlotId
  <1>7. CASE PublishStage
    BY <1>7 DEF PublishStage, loaderVars, installVars, history, AnyBlock
  <1>8. CASE Panic
    BY <1>8, TypePersist, DefaultBlock DEF Panic, PowerLost, AnyBlock, SlotId
  <1>9. CASE PowerLoss
    BY <1>9, DefaultBlock DEF PowerLoss, PowerLost, AnyBlock, SlotId
  <1>10. CASE StartUpdate
    <2>1. target' \in SystemSlots
      BY <1>10, InactivePair DEF StartUpdate, Blocks
    <2> QED BY <1>10, <2>1 DEF StartUpdate, loaderVars, kernelVars, history, SlotId
  <1>11. CASE StagePlatformImage
    BY <1>11 DEF StagePlatformImage, loaderVars, kernelVars, history, SlotId
  <1>12. CASE BeginUpdate
    BY <1>12, KernelBlocks DEF BeginUpdate, loaderVars, history
  <1>13. CASE PersistUpdate
    BY <1>13, TypePersist DEF PersistUpdate, loaderVars, kernelVars, SlotId
  <1>14. CASE UNCHANGED vars
    BY <1>14 DEF vars, loaderVars, kernelVars, installVars, history
  <1> QED
    BY <1>1, <1>2, <1>3, <1>4, <1>5, <1>6, <1>7, <1>8, <1>9, <1>10, <1>11, <1>12, <1>13, <1>14
    DEF Next, Boot, Install

-----------------------------------------------------------------------------
(* The inductive invariant *)

LEMMA InitInv == Init => Inv
  <1> SUFFICES ASSUME Init PROVE Inv
    OBVIOUS
  <1>1. TypeOK
    BY TypeInit
  <1>2. TrialsBounded
    BY BootAssumption DEF BootAssumption, Init, TrialsBounded
  <1>3. Sound
    BY DEF Init, Sound, Fair, Early, Entering, Valid, NoBlock, SystemSlots
  <1> QED BY <1>1, <1>2, <1>3 DEF Inv

\* A boot is counted against an armed slot only after its attempt has been paid for.
LEMMA TrialsStep == Inv /\ [Next]_vars => TrialsBounded'
  <1> SUFFICES ASSUME Inv, [Next]_vars PROVE TrialsBounded'
    OBVIOUS
  <1> USE DEF Inv, TrialsBounded
  <1>0. 0 <= D /\ trials \in Nat
    BY BootAssumption DEF BootAssumption, D, TypeOK
  <1>1. CASE KernelInit
    <2>1. trials' = 0 \/ (~lapsed /\ loader.pending # "None" /\ trials' = trials + 1)
      BY <1>1 DEF KernelInit
    <2>2. CASE ~lapsed /\ loader.pending # "None" /\ trials' = trials + 1
      <3>1. variable = loader /\ Fair(variable, trials + 1)
        BY <1>1, <2>2 DEF Sound, Entering, KernelInit
      <3>2. loader \in Blocks
        BY <2>2 DEF TypeOK, AnyBlock, NoBlock
      <3>3. loader.attempts \in Nat
        BY <3>2, BootAssumption DEF BootAssumption, Blocks
      <3> QED BY <1>0, <2>2, <3>1, <3>3, BootAssumption DEF BootAssumption, Fair, D
    <2> QED BY <1>0, <2>1, <2>2 DEF D
  <1>2. CASE Next /\ ~KernelInit
    <2>1. trials' = trials \/ trials' = 0
      BY <1>2 DEF Next, Boot, Install, PowerOn, SyncVariable, SyncFile, PersistSnapshot,
         MarkBootSuccess, PublishStage, Panic, PowerLoss, StartUpdate, StagePlatformImage,
         BeginUpdate, PersistUpdate, persist_shadow, history
    <2> QED BY <1>0, <2>1 DEF D
  <1>3. CASE UNCHANGED vars
    BY <1>3 DEF vars, history
  <1> QED BY <1>1, <1>2, <1>3

\* A lost write is never forgotten.
LEMMA LapsedStays == [Next]_vars /\ ~lapsed' => ~lapsed
  BY DEF Next, Boot, Install, PowerOn, SyncVariable, SyncFile, KernelInit, PersistSnapshot,
     MarkBootSuccess, PublishStage, Panic, PowerLoss, StartUpdate, StagePlatformImage,
     BeginUpdate, PersistUpdate, persist_shadow, vars, history

\* What a boot finds when it reads the two copies back.
LEMMA Seed ==
  ASSUME TypeOK, Sound
  PROVE  LET seed == merge_seed(file, variable) IN
         /\ seed \in Blocks
         /\ Valid(variable) => seed = variable
         /\ ~Valid(variable) => seed = Default
         /\ Fair(seed, IF Entering THEN trials + 1 ELSE trials)
  <1>1. variable \in AnyBlock /\ file \in AnyBlock
    BY DEF TypeOK
  <1>2. (Valid(variable) => merge_seed(file, variable) = variable)
        /\ (~Valid(variable) => merge_seed(file, variable) = Default)
    BY <1>1, MergeSeed DEF Sound
  <1>3. Default.pending = "None"
    BY DEF Default, Block
  <1> QED BY <1>1, <1>2, <1>3, MergeSeed DEF Sound, Fair

LEMMA SoundPowerOn ==
  ASSUME TypeOK, Sound, PowerOn
  PROVE  Sound'
  <1>1. merge_seed(file, variable)' = merge_seed(file, variable)
    BY DEF PowerOn
  <1> QED BY <1>1 DEF PowerOn, Sound, Fair, Early, Entering, Saved, Confirmed,
             kernelVars, installVars, history

LEMMA SoundSyncVariable ==
  ASSUME TypeOK, Sound, SyncVariable, ~lapsed'
  PROVE  Sound'
  <1> DEFINE seed == merge_seed(file, variable)
  <1>1. variable' = loader /\ loader = begin_boot(seed) /\ UNCHANGED loaderVars
        /\ ~Entering /\ pc' = "sync_file" /\ Entering'
    BY DEF SyncVariable, Sound, Entering
  <1>2. /\ seed \in Blocks /\ Fair(seed, trials)
        /\ Valid(variable) => seed = variable
        /\ ~Valid(variable) => seed = Default
    BY <1>1, Seed
  <1> HIDE DEF seed
  <1>3. /\ loader \in Blocks /\ loader.epoch >= seed.epoch
        /\ loader.pending # "None" => /\ loader.active = loader.pending /\ loader.pending = seed.pending
                                      /\ loader.attempts = seed.attempts - 1 /\ seed.attempts > 0
    BY <1>1, <1>2, BeginBoot
  <1>4. loader \in AnyBlock /\ Valid(loader)
    BY <1>3, ValidBlock DEF AnyBlock
  <1>5. Valid(file) => file.epoch <= loader.epoch
    <2> SUFFICES ASSUME Valid(file) PROVE file.epoch <= loader.epoch
      OBVIOUS
    <2>1. file.epoch <= seed.epoch
      <3>1. CASE Valid(variable)
        BY <3>1, <1>2 DEF Sound
      <3>2. CASE ~Valid(variable)
        <4>1. file = Default /\ seed = Default
          BY <3>2, <1>2 DEF Sound
        <4> QED BY <4>1 DEF Default, Block
      <3> QED BY <3>1, <3>2
    <2>2. file \in Blocks
      BY ValidBlock DEF TypeOK
    <2>3. file.epoch \in Nat /\ seed.epoch \in Nat /\ loader.epoch \in Nat
      BY <1>2, <1>3, <2>2, BootAssumption DEF BootAssumption, Blocks
    <2> QED BY <1>3, <2>1, <2>3
  <1>6. Fair(loader, trials + 1)
    <2>1. seed.attempts \in Nat /\ trials \in Nat
      BY <1>2, BootAssumption DEF BootAssumption, Blocks, TypeOK
    <2> QED BY <1>2, <1>3, <2>1 DEF Fair
  <1> QED
    BY <1>1, <1>3, <1>4, <1>5, <1>6 DEF SyncVariable, Sound, Fair, Early, Entering, Saved,
       Confirmed, loaderVars, kernelVars, installVars

LEMMA SoundSyncFile ==
  ASSUME TypeOK, Sound, SyncFile
  PROVE  Sound'
  <1>1. Valid(file') => file'.epoch <= variable.epoch
    <2>1. variable = loader /\ Valid(loader) /\ variable \in Blocks
      BY ValidBlock DEF SyncFile, Sound, Entering, Early, TypeOK
    <2>2. variable.epoch \in Nat
      BY <2>1, BootAssumption DEF BootAssumption, Blocks
    <2>3. file' \in {file, loader, NoBlock}
      BY DEF SyncFile
    <2>4. Valid(file) => file.epoch <= variable.epoch
      BY <2>1 DEF Sound
    <2> QED BY <2>1, <2>2, <2>3, <2>4 DEF Valid
  <1> QED
    BY <1>1 DEF SyncFile, Sound, Fair, Early, Entering, Saved, Confirmed,
       kernelVars, installVars, history

LEMMA SoundKernelInit ==
  ASSUME TypeOK, Sound, KernelInit, ~lapsed'
  PROVE  Sound'
  <1>1. variable = loader /\ Valid(loader) /\ shadow' = variable /\ late' = variable
    BY DEF KernelInit, Sound, Entering, Early
  <1>2. Fair(variable, trials + 1) /\ variable \in Blocks
    BY <1>1, ValidBlock DEF KernelInit, Sound, Entering, TypeOK
  <1>3. Fair(variable, trials)' /\ stable' = stable
    <2>1. loader.pending # "None" => trials' = trials + 1
      BY DEF KernelInit
    <2> QED BY <1>1, <1>2, <2>1 DEF KernelInit, Fair
  <1> QED
    BY <1>1, <1>3 DEF KernelInit, Sound, Fair, Early, Entering, Saved, Confirmed,
       loaderVars, installVars

LEMMA SoundMarkBootSuccess ==
  ASSUME TypeOK, Sound, MarkBootSuccess
  PROVE  Sound'
  <1>1. shadow \in Blocks /\ loader \in Blocks /\ shadow = loader /\ variable = loader
    BY ValidBlock DEF MarkBootSuccess, Sound, Early, TypeOK
  <1>2. /\ shadow'.active = loader.active /\ shadow'.epoch = loader.epoch
        /\ shadow'.pending = "None" /\ shadow'.attempts = D
    BY <1>1 DEF MarkBootSuccess, mark_boot_success, Blocks, Sound, Early, D
  <1>3. Unsaved'
    BY <1>1, <1>2 DEF MarkBootSuccess, Sound, Unsaved, loaderVars, installVars
  <1> QED
    BY <1>1, <1>2, <1>3 DEF MarkBootSuccess, Sound, Fair, Early, Entering,
       loaderVars, installVars, history

\* Once a boot is confirmed, every copy the kernel may still persist names the
\* slot it runs from, with full attempts.
LEMMA DoneBlock ==
  ASSUME TypeOK, Sound, pc = "done", NEW b \in {shadow, late}, b # NoBlock
  PROVE  /\ image[b.active] = "good" /\ b.active = shadow.active
         /\ b.epoch = loader.epoch /\ b.attempts = D
         /\ b.pending \in {"None", inactive_pair(b.active)}
         /\ Valid(variable) /\ variable.epoch = loader.epoch
         /\ Valid(file) => file.epoch <= b.epoch
  <1>1. Unsaved \/ Saved
    BY DEF Sound
  <1>2. Valid(variable) /\ variable.epoch = loader.epoch
    BY <1>1 DEF Unsaved, Saved, Confirmed, Sound, Early
  <1>3. CASE Unsaved
    BY <1>2, <1>3 DEF Unsaved, Sound
  <1>4. CASE Saved
    BY <1>2, <1>4 DEF Saved, Confirmed, Sound
  <1> QED BY <1>1, <1>3, <1>4

\* The shadow always is a block.
LEMMA ShadowBlock ==
  ASSUME TypeOK
  PROVE  shadow # NoBlock /\ shadow \in AnyBlock
  BY DEF TypeOK, Blocks, NoBlock, SystemSlots, AnyBlock

\* What a confirmed boot persists accounts for every boot of the armed slot.
LEMMA FairConfirmed ==
  ASSUME NEW b \in Blocks, b.attempts = D, b.pending \in {"None", inactive_pair(b.active)}
  PROVE  b.pending # "None" => b.pending = inactive_pair(b.active) /\ 0 + b.attempts <= D
  BY BootAssumption DEF BootAssumption, D

\* A snapshot reaches the variable: before the confirmation it is what the
\* variable holds, after it it is the confirmation.
LEMMA SoundPersistSnapshot ==
  ASSUME TypeOK, Sound, PersistSnapshot, ~lapsed'
  PROVE  Sound'
  <1>1. variable' = late /\ late' = NoBlock /\ late \in Blocks /\ Valid(late) /\ late # NoBlock
    BY ValidBlock DEF PersistSnapshot, persist_shadow, TypeOK, AnyBlock, Valid
  <1>2. CASE pc = "up"
    <2>1. variable' = variable /\ UNCHANGED <<stable, trials>>
      BY <1>1, <1>2 DEF PersistSnapshot, persist_shadow, Sound, Valid
    <2> QED BY <1>1, <1>2, <2>1 DEF PersistSnapshot, Sound, Fair, Early, Entering,
               loaderVars, installVars
  <1>3. CASE pc = "done"
    <2>1. stable' = late.active /\ trials' = 0 /\ step' = step /\ target' = target
          /\ UNCHANGED <<pc, file, loader, shadow, image>>
      BY <1>1, <1>3 DEF PersistSnapshot, persist_shadow, loaderVars, installVars
    <2>2. Saved'
      BY <1>1, <1>3, <2>1, DoneBlock, ShadowBlock DEF Saved, Confirmed, TypeOK, Valid
    <2>3. Fair(variable, trials)'
      BY <1>1, <1>3, <2>1, DoneBlock, FairConfirmed DEF Fair
    <2>4. image[late.active] = "good" /\ (Valid(file) => file.epoch <= late.epoch)
      BY <1>1, <1>3, DoneBlock
    <2>5. step # "idle" => Saved /\ late.active = stable
      BY <1>1, <1>3, DoneBlock DEF Sound, Saved, Confirmed
    <2> QED BY <1>1, <1>3, <2>1, <2>2, <2>3, <2>4, <2>5 DEF Sound, Early, Entering, Valid
  <1> QED BY <1>2, <1>3 DEF PersistSnapshot

LEMMA SoundPublishStage ==
  ASSUME TypeOK, Sound, PublishStage
  PROVE  Sound'
  <1>1. Saved
    BY ShadowBlock DEF PublishStage, Sound, Unsaved
  <1>2. Saved'
    BY <1>1 DEF Saved, Confirmed, PublishStage, loaderVars, history
  <1> QED BY <1>1, <1>2 DEF PublishStage, Sound, Fair, Early, Entering, loaderVars, installVars, history

\* A panic persists the shadow and restarts the machine.
LEMMA SoundPanic ==
  ASSUME TypeOK, Sound, Panic, ~lapsed'
  PROVE  Sound'
  <1>1. variable' = shadow /\ pc' = "off" /\ late' = NoBlock /\ step' = "idle" /\ loader' = NoBlock
        /\ UNCHANGED <<file, image>>
    BY DEF Panic, persist_shadow, PowerLost
  <1>2. CASE pc = "up"
    <2>1. variable' = variable /\ UNCHANGED <<stable, trials>>
      BY <1>1, <1>2 DEF Panic, persist_shadow, Sound
    <2> QED BY <1>1, <1>2, <2>1 DEF Sound, Fair, Early, Entering
  <1>3. CASE pc = "done"
    <2>1. stable' = shadow.active /\ trials' = 0
      BY <1>3 DEF Panic, persist_shadow
    <2>2. shadow \in Blocks /\ Valid(variable')
      BY <1>1, ShadowBlock DEF TypeOK, Valid
    <2>3. Fair(variable, trials)'
      BY <1>1, <1>3, <2>1, <2>2, DoneBlock, ShadowBlock, FairConfirmed DEF Fair
    <2> QED BY <1>1, <1>3, <2>1, <2>2, <2>3, DoneBlock, ShadowBlock DEF Sound, Early, Entering
  <1> QED BY <1>2, <1>3 DEF Panic

LEMMA SoundPowerLoss ==
  ASSUME TypeOK, Sound, PowerLoss
  PROVE  Sound'
  <1>1. Fair(variable, trials)
    <2>1. CASE Entering
      <3>1. variable \in AnyBlock /\ trials \in Nat /\ Fair(variable, trials + 1)
        BY <2>1 DEF Sound, TypeOK
      <3>2. variable.attempts \in Nat
        BY <3>1, BootAssumption DEF BootAssumption, AnyBlock, Blocks, NoBlock
      <3> QED BY <3>1, <3>2, BootAssumption DEF BootAssumption, Fair, D
    <2> QED BY <2>1 DEF Sound
  <1> QED BY <1>1 DEF PowerLoss, PowerLost, Sound, Fair, Early, Entering

LEMMA SoundStartUpdate ==
  ASSUME TypeOK, Sound, StartUpdate
  PROVE  Sound'
  <1>1. Saved /\ shadow.active = stable
    BY ShadowBlock DEF StartUpdate, Sound, Unsaved, Saved, Confirmed
  <1>2. target' = inactive_pair(stable) /\ image'[stable] = image[stable]
    BY <1>1, InactivePair DEF StartUpdate, TypeOK
  <1>3. Saved'
    BY <1>1 DEF Saved, Confirmed, StartUpdate, loaderVars, kernelVars, history
  <1> QED
    BY <1>1, <1>2, <1>3 DEF StartUpdate, Sound, Fair, Early, Entering, loaderVars, kernelVars, history

LEMMA SoundStagePlatformImage ==
  ASSUME TypeOK, Sound, StagePlatformImage
  PROVE  Sound'
  <1>1. Saved /\ shadow.active = stable /\ target = inactive_pair(stable) /\ pc = "done"
    BY DEF StagePlatformImage, Sound, Saved, Confirmed
  <1>2. image'[stable] = image[stable]
    BY <1>1, InactivePair DEF StagePlatformImage, TypeOK
  <1>3. Saved'
    BY <1>1 DEF Saved, Confirmed, StagePlatformImage, loaderVars, kernelVars, history
  <1> QED
    BY <1>1, <1>2, <1>3 DEF StagePlatformImage, Sound, Fair, Early, Entering,
       loaderVars, kernelVars, history

LEMMA SoundBeginUpdate ==
  ASSUME TypeOK, Sound, BeginUpdate
  PROVE  Sound'
  <1>1. Saved /\ target = inactive_pair(stable) /\ pc = "done" /\ shadow \in Blocks
    BY DEF BeginUpdate, Sound, TypeOK
  <1>2. /\ shadow'.active = shadow.active /\ shadow'.epoch = shadow.epoch
        /\ shadow'.pending = target /\ shadow'.attempts = D
    BY <1>1 DEF BeginUpdate, stage_update, Blocks, D
  <1>3. Saved'
    BY <1>1, <1>2 DEF Saved, Confirmed, BeginUpdate, loaderVars, history
  <1> QED
    BY <1>1, <1>2, <1>3 DEF BeginUpdate, Sound, Fair, Early, Entering, loaderVars, history

LEMMA SoundPersistUpdate ==
  ASSUME TypeOK, Sound, PersistUpdate, ~lapsed'
  PROVE  Sound'
  <1>1. Saved /\ pc = "done" /\ shadow \in Blocks /\ shadow.active = stable
    BY DEF PersistUpdate, Sound, TypeOK, Saved, Confirmed
  <1>2. /\ variable' = shadow /\ stable' = stable /\ trials' = 0 /\ step' = "idle"
        /\ UNCHANGED <<pc, file, loader, shadow, late, image>>
    BY <1>1 DEF PersistUpdate, persist_shadow, loaderVars, kernelVars
  <1>3. Saved'
    BY <1>1, <1>2, ShadowBlock DEF Saved, Confirmed, Valid
  <1>4. Fair(variable, trials)'
    BY <1>1, <1>2, DoneBlock, ShadowBlock, FairConfirmed DEF Fair
  <1>5. Valid(variable)' /\ (Valid(file)' => (file.epoch <= variable.epoch)')
    BY <1>1, <1>2, DoneBlock, ShadowBlock DEF Valid
  <1> QED
    BY <1>1, <1>2, <1>3, <1>4, <1>5 DEF Sound, Early, Entering

LEMMA NextInv == Inv /\ [Next]_vars => Inv'
  <1> SUFFICES ASSUME Inv, [Next]_vars PROVE Inv'
    OBVIOUS
  <1>1. TypeOK' /\ TrialsBounded'
    BY TypeStep, TrialsStep DEF Inv
  <1>2. ASSUME ~lapsed' PROVE Sound'
    <2>1. TypeOK /\ Sound
      BY <1>2, LapsedStays DEF Inv
    <2>2. CASE UNCHANGED vars
      BY <2>1, <2>2 DEF vars, Sound, Fair, Early, Entering, Unsaved, Saved, Confirmed,
         loaderVars, kernelVars, installVars, history
    <2> QED
      BY <1>2, <2>1, <2>2, SoundPowerOn, SoundSyncVariable, SoundSyncFile, SoundKernelInit,
         SoundPersistSnapshot, SoundMarkBootSuccess, SoundPublishStage, SoundPanic,
         SoundPowerLoss, SoundStartUpdate, SoundStagePlatformImage, SoundBeginUpdate,
         SoundPersistUpdate DEF Next, Boot, Install
  <1> QED BY <1>1, <1>2 DEF Inv

\* The inductive invariant holds throughout.
THEOREM Invariant == Spec => []Inv
  BY InitInv, NextInv, PTL DEF Spec

-----------------------------------------------------------------------------
(* What follows *)

\* No block the loader or the kernel holds or stores names an unknown slot or
\* carries more attempts than DEFAULT_BOOT_ATTEMPTS.
THEOREM BlocksWellFormed == Spec => []TypeOK
  <1>1. Inv => TypeOK
    BY DEF Inv
  <1> QED BY <1>1, Invariant, PTL

\* An armed slot that is never confirmed is booted at most DEFAULT_BOOT_ATTEMPTS
\* times, however its boots are cut short.
THEOREM BoundedTrials == Spec => []TrialsBounded
  <1>1. Inv => TrialsBounded
    BY DEF Inv
  <1> QED BY <1>1, Invariant, PTL

\* The copy in BOOTCTRL.BIN never takes the place of what the kernel saved last.
THEOREM FileNeverOverrides == Spec => []LastSaveWins
  <1>1. Inv => LastSaveWins
    BY Seed DEF Inv, LastSaveWins
  <1> QED BY <1>1, Invariant, PTL

\* The kernel runs from the slot the loader chose.
THEOREM ChoiceReachesKernel == Spec => []RunsWhatWasChosen
  <1>1. Inv => RunsWhatWasChosen
    BY DEF Inv, Sound, RunsWhatWasChosen
  <1> QED BY <1>1, Invariant, PTL

\* The installer never touches the slot that was confirmed last.
THEOREM StableWhole == Spec => []StableStaysWhole
  <1>1. Inv => StableStaysWhole
    BY DEF Inv, Sound, StableStaysWhole
  <1> QED BY <1>1, Invariant, PTL

\* An armed slot that has used up its attempts gives way to the slot that was
\* confirmed last.
THEOREM ReturnsToStable == Spec => GivesUpToStable
  <1> DEFINE Lost == merge_seed(file, variable).pending # "None" /\ loader'.pending = "None"
  <1>1. ASSUME Inv, [Next]_vars, ~lapsed, pc = "off", Lost
        PROVE  loader'.active \in {stable, "None"}
    <2> DEFINE seed == merge_seed(file, variable)
    <2>1. CASE PowerOn
      <3>1. loader' = begin_boot(seed) /\ seed \in Blocks /\ Fair(seed, trials)
        BY <1>1, <2>1, Seed DEF PowerOn, Inv, Entering
      <3>2. loader'.active = inactive_pair(seed.pending)
        BY <1>1, <3>1, BeginBoot
      <3>3. seed.pending = inactive_pair(stable) /\ stable \in SystemSlots
        BY <1>1, <3>1 DEF Fair, Inv, TypeOK
      <3> QED BY <3>2, <3>3, InactivePair
    <2>2. CASE ~PowerOn
      <3>1. loader = NoBlock /\ step = "idle"
        BY <1>1 DEF Inv, Sound
      <3>2. loader' = loader
        BY <1>1, <2>2, <3>1 DEF Next, Boot, Install, SyncVariable, SyncFile, KernelInit,
           PersistSnapshot, MarkBootSuccess, PublishStage, Panic, PowerLoss, StartUpdate,
           StagePlatformImage, BeginUpdate, PersistUpdate, vars, loaderVars
      <3> QED BY <3>1, <3>2 DEF NoBlock
    <2> QED BY <2>1, <2>2
  <1>2. Inv /\ [Next]_vars => [~lapsed /\ pc = "off" /\ Lost => loader'.active \in {stable, "None"}]_vars
    BY <1>1
  <1> QED BY <1>2, Invariant, PTL DEF Spec, GivesUpToStable

===========================================================================
