----------------------------- MODULE Rcu_proofs -----------------------------
(***************************************************************************)
(* Proofs about RCU on a machine with at most two CPUs, for any number of  *)
(* writers and changes of the list.  While one CPU is in a lookup the      *)
(* other one runs the writers and the softirq alone: the grace period of a *)
(* node the lookup refers to starts after the lookup, and its readers are  *)
(* counted while the lookup lasts.                                         *)
(***************************************************************************)
EXTENDS Rcu, TLAPS

RcuSteps == {"idle", "locked", "walking", "epoch", "publish", "load", "compare", "scan",
             "mark", "true", "false", "store"}

WordTypes ==
  /\ RCU_EPOCH \in Nat /\ current_gp \in Nat /\ completed_gp \in Nat
  /\ RCU_READER_COUNT \in [RcuCpus -> Nat]

HandlerTypes ==
  /\ rcuStep \in [RcuCpus -> RcuSteps]
  /\ gp \in [RcuCpus -> Nat] /\ scan \in [RcuCpus -> Nat]
  /\ writer \in [RcuCpus -> Writers \cup {NoWriter}]
  /\ stage \in [Writers -> {"off", "running", "asleep"}]

NodeTypes ==
  /\ linked \in Nat /\ linked <= MaxSwaps /\ freed \in SUBSET Nat
  /\ ref \in [RcuCpus -> Nat]
  /\ retired \in [Writers -> Nat] /\ before \in [Writers -> SUBSET RcuCpus]

RcuTypes == WordTypes /\ HandlerTypes /\ NodeTypes

\* A CPU that is in a lookup is counted once, and no grace period has a number that
\* has not been handed out.
Counted ==
  /\ \A c \in RcuCpus : RCU_READER_COUNT[c] = IF rcuStep[c] \in {"locked", "walking"} THEN 1 ELSE 0
  /\ current_gp <= RCU_EPOCH /\ completed_gp <= RCU_EPOCH
  /\ \A c \in RcuCpus : gp[c] <= RCU_EPOCH

\* A writer that runs is on one CPU.
OneCpuEach ==
  \A c \in RcuCpus : writer[c] # NoWriter =>
    /\ stage[writer[c]] = "running"
    /\ \A d \in RcuCpus : writer[d] = writer[c] => d = c

\* The nodes that have been unlinked come before the one that is linked.
Nodes ==
  /\ \A n \in freed : n < linked
  /\ \A w \in Writers : IF stage[w] = "off" THEN retired[w] = NoRef ELSE retired[w] < linked
  /\ \A c \in RcuCpus : IF rcuStep[c] = "walking" THEN ref[c] <= linked ELSE ref[c] = NoRef

\* CPU c does not take a grace period for ended that has to wait for the lookup on d.
Waits(c, d) ==
  /\ rcuStep[c] \notin {"true", "mark", "store"}
  /\ rcuStep[c] \notin {"epoch", "publish"} => completed_gp < current_gp
  /\ rcuStep[c] \in {"publish", "compare"} => completed_gp < gp[c]
  /\ rcuStep[c] = "scan" => scan[c] <= d

\* A lookup that refers to an unlinked node is older than the grace period of that node,
\* which the other CPU waits for.
Protected ==
  \A d \in RcuCpus, w \in Writers : rcuStep[d] = "walking" /\ retired[w] = ref[d] =>
    d \in before[w] /\ \A c \in RcuCpus \ {d} : Waits(c, d)

RcuIInv == RcuTypes /\ Counted /\ OneCpuEach /\ Nodes /\ Protected /\ NoReaderOfFreed

-----------------------------------------------------------------------------
(* What a step of CPU c has to see to. *)

\* With two CPUs there is one other than c.
LEMMA OneOther ==
  ASSUME cpu_count <= 2, NEW c \in RcuCpus, NEW d \in RcuCpus, NEW e \in RcuCpus, d # c, e # c
  PROVE  d = e
BY RcuAssumption DEF RcuCpus

\* A step of c that is no part of a lookup leaves the lookup on the other CPU protected
\* if c goes on waiting for it.
LEMMA StaysProtected ==
  ASSUME cpu_count <= 2, RcuTypes, Protected, NEW c \in RcuCpus,
         UNCHANGED <<ref, retired, before>>,
         rcuStep[c] # "walking", rcuStep'[c] # "walking",
         \A d \in RcuCpus \ {c} : rcuStep'[d] = rcuStep[d],
         \A d \in RcuCpus \ {c} : rcuStep[d] = "walking" /\ Waits(c, d) => Waits(c, d)'
  PROVE  Protected'
<1> SUFFICES ASSUME NEW d \in RcuCpus, NEW w \in Writers, rcuStep'[d] = "walking", retired'[w] = ref'[d]
             PROVE  d \in before'[w] /\ \A e \in RcuCpus \ {d} : Waits(e, d)'
  BY DEF Protected
<1>1. d # c /\ rcuStep[d] = "walking" /\ retired[w] = ref[d] OBVIOUS
<1>2. d \in before[w] /\ Waits(c, d) BY <1>1 DEF Protected
<1>3. Waits(c, d)' BY <1>1, <1>2
<1>4. \A e \in RcuCpus \ {d} : e = c BY <1>1, OneOther
<1> QED BY <1>2, <1>3, <1>4, Zenon

\* The lists of nodes and lookups are left alone.
LEMMA SameNodes ==
  ASSUME RcuTypes, Nodes, NoReaderOfFreed, NEW c \in RcuCpus,
         UNCHANGED <<linked, freed, ref, retired>>,
         rcuStep[c] # "walking", rcuStep'[c] # "walking",
         \A d \in RcuCpus \ {c} : rcuStep'[d] = rcuStep[d],
         \A w \in Writers : stage'[w] = "off" <=> stage[w] = "off"
  PROVE  Nodes' /\ NoReaderOfFreed'
<1>1. NoReaderOfFreed' BY DEF NoReaderOfFreed
<1>2. \A d \in RcuCpus : rcuStep'[d] = "walking" <=> rcuStep[d] = "walking" OBVIOUS
<1> QED BY <1>1, <1>2, Zenon DEF Nodes

\* The current writers are left alone.
LEMMA SameWriters ==
  ASSUME OneCpuEach, UNCHANGED <<writer, stage>>
  PROVE  OneCpuEach'
BY Zenon DEF OneCpuEach

\* c steps on to s, and is not in a lookup before or afterwards.
LEMMA Steps ==
  ASSUME RcuTypes, NEW c \in RcuCpus, NEW s \in RcuSteps, at(c, s)
  PROVE  /\ rcuStep' \in [RcuCpus -> RcuSteps] /\ rcuStep'[c] = s
         /\ \A d \in RcuCpus \ {c} : rcuStep'[d] = rcuStep[d]
BY DEF at, RcuTypes, HandlerTypes

-----------------------------------------------------------------------------
(* The lookup *)

LEMMA ReadLockStep ==
  ASSUME cpu_count <= 2, RcuIInv, NEW c \in RcuCpus, ReadLock(c)
  PROVE  RcuIInv'
<1> USE DEF RcuIInv
<1>1. rcuStep' \in [RcuCpus -> RcuSteps] /\ rcuStep'[c] = "locked"
      /\ \A d \in RcuCpus \ {c} : rcuStep'[d] = rcuStep[d]
  BY Steps DEF ReadLock, RcuSteps
<1>2. RcuTypes'
  <2>1. WordTypes' BY DEF ReadLock, RcuTypes, WordTypes, rcuWords
  <2>2. HandlerTypes' BY <1>1, Zenon DEF ReadLock, RcuTypes, HandlerTypes
  <2>3. NodeTypes' BY Zenon DEF ReadLock, RcuTypes, NodeTypes
  <2> QED BY <2>1, <2>2, <2>3 DEF RcuTypes
<1>3. Counted' BY <1>1 DEF ReadLock, Counted, rcuWords, RcuTypes, WordTypes
<1>4. OneCpuEach' BY SameWriters DEF ReadLock
<1>5. Nodes' /\ NoReaderOfFreed' BY <1>1, SameNodes DEF ReadLock
<1>6. Protected' BY <1>1, StaysProtected DEF ReadLock, Waits, rcuWords
<1> QED BY <1>2, <1>3, <1>4, <1>5, <1>6

LEMMA WalkStep ==
  ASSUME cpu_count <= 2, RcuIInv, NEW c \in RcuCpus, Walk(c)
  PROVE  RcuIInv'
<1> USE DEF RcuIInv
<1>1. rcuStep' \in [RcuCpus -> RcuSteps] /\ rcuStep'[c] = "walking"
      /\ \A d \in RcuCpus \ {c} : rcuStep'[d] = rcuStep[d]
  BY Steps DEF Walk, RcuSteps
<1>2. RcuTypes'
  <2>1. WordTypes' BY Zenon DEF Walk, RcuTypes, WordTypes, rcuWords
  <2>2. HandlerTypes' BY <1>1, Zenon DEF Walk, RcuTypes, HandlerTypes
  <2>3. NodeTypes' BY DEF Walk, RcuTypes, NodeTypes
  <2> QED BY <2>1, <2>2, <2>3 DEF RcuTypes
<1>3. Counted' BY <1>1 DEF Walk, Counted, rcuWords, RcuTypes, WordTypes
<1>4. OneCpuEach' BY SameWriters DEF Walk
<1>5. ref'[c] = linked /\ (\A d \in RcuCpus \ {c} : ref'[d] = ref[d]) /\ UNCHANGED <<linked, freed, stage, retired, before>>
  BY DEF Walk, RcuTypes, NodeTypes
<1>6. linked \in Nat /\ NoRef \in Nat /\ linked # NoRef /\ \A w \in Writers : retired[w] # linked
  BY RcuAssumption DEF RcuTypes, NodeTypes, NoRef, Nodes
<1>7. Nodes' BY <1>1, <1>5, <1>6 DEF Nodes, NoRef
<1>8. NoReaderOfFreed' BY <1>5, <1>6 DEF NoReaderOfFreed, Nodes
<1>9. Protected'
  <2> SUFFICES ASSUME NEW d \in RcuCpus, NEW w \in Writers, rcuStep'[d] = "walking", retired'[w] = ref'[d]
               PROVE  d \in before'[w] /\ \A e \in RcuCpus \ {d} : Waits(e, d)'
    BY DEF Protected
  <2>1. d # c BY <1>5, <1>6
  <2>2. rcuStep[d] = "walking" /\ retired[w] = ref[d] BY <1>1, <1>5, <2>1
  <2>3. d \in before[w] /\ Waits(c, d) BY <2>1, <2>2 DEF Protected
  <2>4. Waits(c, d)' BY <1>1, <2>3 DEF Waits, Walk, rcuWords
  <2>5. \A e \in RcuCpus \ {d} : e = c BY <2>1, OneOther
  <2> QED BY <1>5, <2>3, <2>4, <2>5, Zenon
<1> QED BY <1>2, <1>3, <1>4, <1>7, <1>8, <1>9

LEMMA ReadUnlockStep ==
  ASSUME cpu_count <= 2, RcuIInv, NEW c \in RcuCpus, ReadUnlock(c)
  PROVE  RcuIInv'
<1> USE DEF RcuIInv
<1>1. rcuStep' \in [RcuCpus -> RcuSteps] /\ rcuStep'[c] = "idle"
      /\ \A d \in RcuCpus \ {c} : rcuStep'[d] = rcuStep[d]
  BY Steps DEF ReadUnlock, RcuSteps
<1>2. ref'[c] = NoRef /\ (\A d \in RcuCpus \ {c} : ref'[d] = ref[d])
      /\ ref' \in [RcuCpus -> Nat] /\ UNCHANGED <<linked, freed, stage, retired>>
  BY RcuAssumption DEF ReadUnlock, RcuTypes, NodeTypes, NoRef
<1>3. RCU_READER_COUNT'[c] = 0 /\ (\A d \in RcuCpus \ {c} : RCU_READER_COUNT'[d] = RCU_READER_COUNT[d])
      /\ RCU_READER_COUNT' \in [RcuCpus -> Nat]
  BY DEF ReadUnlock, RcuTypes, WordTypes, Counted
<1>4. before' \in [Writers -> SUBSET RcuCpus]
      /\ \A w \in Writers, d \in RcuCpus \ {c} : d \in before[w] => d \in before'[w]
  BY DEF ReadUnlock, RcuTypes, NodeTypes
<1>5. RcuTypes'
  <2>1. WordTypes' BY <1>3 DEF ReadUnlock, RcuTypes, WordTypes, rcuWords
  <2>2. HandlerTypes' BY <1>1, Zenon DEF ReadUnlock, RcuTypes, HandlerTypes
  <2>3. NodeTypes' BY <1>2, <1>4 DEF RcuTypes, NodeTypes
  <2> QED BY <2>1, <2>2, <2>3 DEF RcuTypes
<1>6. Counted' BY <1>1, <1>3 DEF ReadUnlock, Counted, rcuWords
<1>7. OneCpuEach' BY SameWriters DEF ReadUnlock
<1>8. Nodes' BY <1>1, <1>2 DEF Nodes
<1>9. NoRef \notin freed BY RcuAssumption DEF Nodes, NoRef, RcuTypes, NodeTypes
<1>10. NoReaderOfFreed' BY <1>2, <1>9 DEF NoReaderOfFreed
<1>11. Protected'
  <2> SUFFICES ASSUME NEW d \in RcuCpus, NEW w \in Writers, rcuStep'[d] = "walking", retired'[w] = ref'[d]
               PROVE  d \in before'[w] /\ \A e \in RcuCpus \ {d} : Waits(e, d)'
    BY DEF Protected
  <2>1. d # c /\ rcuStep[d] = "walking" /\ retired[w] = ref[d] BY <1>1, <1>2
  <2>2. d \in before[w] /\ Waits(c, d) BY <2>1 DEF Protected
  <2>3. Waits(c, d)' BY <1>1, <2>2 DEF Waits, ReadUnlock, rcuWords
  <2>4. \A e \in RcuCpus \ {d} : e = c BY <2>1, OneOther
  <2> QED BY <1>4, <2>1, <2>2, <2>3, <2>4, Zenon
<1> QED BY <1>5, <1>6, <1>7, <1>8, <1>10, <1>11

-----------------------------------------------------------------------------
(* The writers and the softirq *)

\* The writer's node is the newest one unlinked; the lookups that refer to it have begun.
LEMMA UnlinkStep ==
  ASSUME cpu_count <= 2, RcuIInv, NEW c \in RcuCpus, NEW w \in Writers, Unlink(c, w)
  PROVE  RcuIInv'
<1> USE DEF RcuIInv
<1>1. rcuStep' \in [RcuCpus -> RcuSteps] /\ rcuStep'[c] = "epoch"
      /\ \A d \in RcuCpus \ {c} : rcuStep'[d] = rcuStep[d]
  BY Steps DEF Unlink, RcuSteps
<1>2. /\ rcuStep[c] = "idle" /\ stage[w] = "off" /\ linked' = linked + 1 /\ linked + 1 <= MaxSwaps
      /\ UNCHANGED <<RCU_EPOCH, current_gp, completed_gp, RCU_READER_COUNT, freed, ref, gp, scan>>
  BY RcuAssumption DEF Unlink, rcuWords, RcuTypes, NodeTypes
<1>3. retired'[w] = linked /\ (\A v \in Writers \ {w} : retired'[v] = retired[v]) /\ retired' \in [Writers -> Nat]
  BY DEF Unlink, RcuTypes, NodeTypes
<1>4. /\ before' \in [Writers -> SUBSET RcuCpus]
      /\ before'[w] = {d \in RcuCpus : rcuStep[d] = "walking"}
      /\ \A v \in Writers \ {w} : before'[v] = before[v]
  BY DEF Unlink, RcuTypes, NodeTypes
<1>5. /\ writer' \in [RcuCpus -> Writers \cup {NoWriter}] /\ stage' \in [Writers -> {"off", "running", "asleep"}]
      /\ writer'[c] = w /\ \A d \in RcuCpus \ {c} : writer'[d] = writer[d]
      /\ stage'[w] = "running" /\ \A v \in Writers \ {w} : stage'[v] = stage[v]
  BY DEF Unlink, RcuTypes, HandlerTypes
<1>6. RcuTypes'
  <2>1. WordTypes' BY <1>2, Zenon DEF RcuTypes, WordTypes
  <2>2. HandlerTypes' BY <1>1, <1>2, <1>5, Zenon DEF RcuTypes, HandlerTypes
  <2>3. NodeTypes' BY <1>2, <1>3, <1>4 DEF RcuTypes, NodeTypes
  <2> QED BY <2>1, <2>2, <2>3 DEF RcuTypes
<1>7. Counted' BY <1>1, <1>2 DEF Counted
<1>8. OneCpuEach' BY <1>2, <1>5, RcuAssumption DEF OneCpuEach
<1>9. Nodes' BY <1>1, <1>2, <1>3, <1>5 DEF Nodes, RcuTypes, NodeTypes, NoRef
<1>10. NoReaderOfFreed' BY <1>2 DEF NoReaderOfFreed
<1>11. Protected'
  <2> SUFFICES ASSUME NEW d \in RcuCpus, NEW v \in Writers, rcuStep'[d] = "walking", retired'[v] = ref'[d]
               PROVE  d \in before'[v] /\ \A e \in RcuCpus \ {d} : Waits(e, d)'
    BY DEF Protected
  <2>1. d # c /\ rcuStep[d] = "walking" BY <1>1
  <2>2. d \in before'[v]
    <3>1. CASE v = w BY <1>4, <2>1, <3>1
    <3>2. CASE v # w BY <1>2, <1>3, <1>4, <2>1, <3>2 DEF Protected
    <3> QED BY <3>1, <3>2
  <2>3. Waits(c, d)' BY <1>1 DEF Waits
  <2>4. \A e \in RcuCpus \ {d} : e = c BY <2>1, OneOther
  <2> QED BY <2>2, <2>3, <2>4, Zenon
<1> QED BY <1>6, <1>7, <1>8, <1>9, <1>10, <1>11

\* A step of a handler on c that neither links, unlinks nor frees a node.
LEMMA HandlerStep ==
  ASSUME cpu_count <= 2, RcuIInv, NEW c \in RcuCpus, NEW s \in RcuSteps \ {"locked", "walking"},
         rcuStep[c] \notin {"locked", "walking"}, at(c, s),
         UNCHANGED <<linked, freed, ref, retired, before>>,
         WordTypes', HandlerTypes', OneCpuEach',
         \A d \in RcuCpus : RCU_READER_COUNT'[d] = RCU_READER_COUNT[d],
         current_gp' <= RCU_EPOCH', completed_gp' <= RCU_EPOCH', \A d \in RcuCpus : gp'[d] <= RCU_EPOCH',
         \A w \in Writers : stage'[w] = "off" <=> stage[w] = "off",
         \A d \in RcuCpus \ {c} : rcuStep[d] = "walking" /\ Waits(c, d) => Waits(c, d)'
  PROVE  RcuIInv'
<1> USE DEF RcuIInv
<1>1. rcuStep' \in [RcuCpus -> RcuSteps] /\ rcuStep'[c] = s
      /\ \A d \in RcuCpus \ {c} : rcuStep'[d] = rcuStep[d]
  BY Steps
<1>2. RcuTypes'
  <2>1. NodeTypes' BY Zenon DEF RcuTypes, NodeTypes
  <2> QED BY <2>1 DEF RcuTypes
<1>3. Counted' BY <1>1 DEF Counted
<1>4. Nodes' /\ NoReaderOfFreed' BY <1>1, SameNodes
<1>5. Protected' BY <1>1, StaysProtected
<1> QED BY <1>2, <1>3, <1>4, <1>5

\* The same for a step that leaves the words and the writers alone and takes n for gp
\* and m for scan.
LEMMA LocalStep ==
  ASSUME cpu_count <= 2, RcuIInv, NEW c \in RcuCpus, NEW s \in RcuSteps \ {"locked", "walking"},
         rcuStep[c] \notin {"locked", "walking"}, at(c, s),
         NEW n \in Nat, n <= RCU_EPOCH, NEW m \in Nat,
         gp' = [gp EXCEPT ![c] = n], scan' = [scan EXCEPT ![c] = m],
         UNCHANGED <<rcuWords, RCU_READER_COUNT, linked, freed, ref, writer, stage, retired, before>>,
         \A d \in RcuCpus \ {c} : rcuStep[d] = "walking" /\ Waits(c, d) => Waits(c, d)'
  PROVE  RcuIInv'
<1> USE DEF RcuIInv
<1>1. WordTypes' BY Zenon DEF RcuTypes, WordTypes, rcuWords
<1>2. gp' \in [RcuCpus -> Nat] /\ scan' \in [RcuCpus -> Nat] BY DEF RcuTypes, HandlerTypes
<1>3. rcuStep' \in [RcuCpus -> RcuSteps] BY Steps
<1>4. HandlerTypes' BY <1>2, <1>3, Zenon DEF RcuTypes, HandlerTypes
<1>5. current_gp' <= RCU_EPOCH' /\ completed_gp' <= RCU_EPOCH' BY DEF Counted, rcuWords
<1>6. \A d \in RcuCpus : gp'[d] <= RCU_EPOCH' BY DEF Counted, rcuWords, RcuTypes, HandlerTypes
<1>7. OneCpuEach' BY SameWriters
<1> QED BY <1>1, <1>4, <1>5, <1>6, <1>7, HandlerStep

LEMMA NextEpochStep ==
  ASSUME cpu_count <= 2, RcuIInv, NEW c \in RcuCpus, NextEpoch(c)
  PROVE  RcuIInv'
<1> USE DEF RcuIInv
<1>1. RCU_EPOCH' = RCU_EPOCH + 1 /\ UNCHANGED <<current_gp, completed_gp, RCU_READER_COUNT>> BY DEF NextEpoch
<1>2. RCU_EPOCH \in Nat BY DEF RcuTypes, WordTypes
<1>3. WordTypes' BY <1>1 DEF RcuTypes, WordTypes
<1>4. rcuStep' \in [RcuCpus -> RcuSteps] /\ rcuStep'[c] = "publish" BY Steps DEF NextEpoch, RcuSteps
<1>5. gp' \in [RcuCpus -> Nat] /\ gp'[c] = RCU_EPOCH + 1 /\ \A d \in RcuCpus \ {c} : gp'[d] = gp[d]
  BY <1>2 DEF NextEpoch, RcuTypes, HandlerTypes
<1>6. HandlerTypes' BY <1>4, <1>5, Zenon DEF NextEpoch, RcuTypes, HandlerTypes
<1>7. current_gp' <= RCU_EPOCH' /\ completed_gp' <= RCU_EPOCH'
  BY <1>1 DEF Counted, RcuTypes, WordTypes
<1>8. \A d \in RcuCpus : gp'[d] <= RCU_EPOCH' BY <1>1, <1>2, <1>5 DEF Counted, RcuTypes, HandlerTypes
<1>9. OneCpuEach' BY SameWriters DEF NextEpoch
<1>10. ASSUME NEW d \in RcuCpus \ {c} PROVE Waits(c, d)'
  BY <1>1, <1>4, <1>5 DEF Waits, Counted, RcuTypes, WordTypes
<1> QED BY <1>1, <1>3, <1>6, <1>7, <1>8, <1>9, <1>10, HandlerStep DEF NextEpoch, RcuSteps

LEMMA PublishGpStep ==
  ASSUME cpu_count <= 2, RcuIInv, NEW c \in RcuCpus, PublishGp(c)
  PROVE  RcuIInv'
<1> USE DEF RcuIInv
<1>1. current_gp' = gp[c] /\ UNCHANGED <<RCU_EPOCH, completed_gp, RCU_READER_COUNT, gp, scan, writer, stage>>
  BY DEF PublishGp
<1>2. WordTypes' BY <1>1 DEF RcuTypes, WordTypes, HandlerTypes
<1>3. rcuStep' \in [RcuCpus -> RcuSteps] /\ rcuStep'[c] = "load" BY Steps DEF PublishGp, RcuSteps
<1>4. HandlerTypes' BY <1>1, <1>3, Zenon DEF RcuTypes, HandlerTypes
<1>5. current_gp' <= RCU_EPOCH' /\ completed_gp' <= RCU_EPOCH' /\ \A d \in RcuCpus : gp'[d] <= RCU_EPOCH'
  BY <1>1 DEF Counted
<1>6. OneCpuEach' BY <1>1, SameWriters
<1>7. ASSUME NEW d \in RcuCpus \ {c}, Waits(c, d) PROVE Waits(c, d)'
  BY <1>1, <1>3, <1>7 DEF Waits, PublishGp
<1> QED BY <1>1, <1>2, <1>4, <1>5, <1>6, <1>7, HandlerStep DEF PublishGp, RcuSteps

\* The steps of grace_period_completed. c has not passed the CPU of the lookup when it
\* finds a reader.
LEMMA LoadCurrentStep ==
  ASSUME cpu_count <= 2, RcuIInv, NEW c \in RcuCpus, LoadCurrent(c)
  PROVE  RcuIInv'
<1> USE DEF RcuIInv
<1>1. /\ rcuStep[c] = "load" /\ at(c, "compare")
      /\ gp' = [gp EXCEPT ![c] = current_gp] /\ scan' = [scan EXCEPT ![c] = scan[c]]
      /\ UNCHANGED <<rcuWords, RCU_READER_COUNT, linked, freed, ref, writer, stage, retired, before>>
  BY DEF LoadCurrent, RcuTypes, HandlerTypes
<1>2. current_gp \in Nat /\ current_gp <= RCU_EPOCH /\ scan[c] \in Nat BY DEF RcuTypes, WordTypes, HandlerTypes, Counted
<1>3. rcuStep'[c] = "compare" BY <1>1, Steps DEF RcuSteps
<1>4. ASSUME NEW d \in RcuCpus \ {c}, Waits(c, d) PROVE Waits(c, d)'
  BY <1>1, <1>3, <1>4 DEF Waits, rcuWords, RcuTypes, HandlerTypes
<1> QED BY <1>1, <1>2, <1>4, LocalStep, Zenon DEF RcuSteps

LEMMA LoadCompletedStep ==
  ASSUME cpu_count <= 2, RcuIInv, NEW c \in RcuCpus, LoadCompleted(c)
  PROVE  RcuIInv'
<1> USE DEF RcuIInv
<1> DEFINE s == IF gp[c] <= completed_gp THEN "true" ELSE "scan"
<1>1. /\ rcuStep[c] = "compare" /\ at(c, s)
      /\ gp' = [gp EXCEPT ![c] = gp[c]] /\ scan' = [scan EXCEPT ![c] = 0]
      /\ UNCHANGED <<rcuWords, RCU_READER_COUNT, linked, freed, ref, writer, stage, retired, before>>
  BY DEF LoadCompleted, RcuTypes, HandlerTypes
<1>2. gp[c] \in Nat /\ gp[c] <= RCU_EPOCH /\ s \in RcuSteps \ {"locked", "walking"}
  BY DEF RcuTypes, HandlerTypes, Counted, RcuSteps
<1>3. rcuStep'[c] = s BY <1>1, <1>2, Steps
<1>4. ASSUME NEW d \in RcuCpus \ {c}, Waits(c, d) PROVE Waits(c, d)'
  <2>1. completed_gp < gp[c] BY <1>1, <1>4 DEF Waits
  <2>2. rcuStep'[c] = "scan" BY <1>3, <2>1 DEF RcuTypes, WordTypes, HandlerTypes
  <2>3. scan'[c] = 0 /\ 0 <= d BY <1>1, RcuAssumption DEF RcuTypes, HandlerTypes, RcuCpus
  <2> QED BY <1>1, <1>4, <2>2, <2>3 DEF Waits, rcuWords
<1> QED BY <1>1, <1>2, <1>4, LocalStep, Zenon

LEMMA ScanReadersStep ==
  ASSUME cpu_count <= 2, RcuIInv, NEW c \in RcuCpus, ScanReaders(c)
  PROVE  RcuIInv'
<1> USE DEF RcuIInv
<1> DEFINE s == IF RCU_READER_COUNT[scan[c]] > 0 THEN "false"
                ELSE IF scan[c] + 1 < cpu_count THEN "scan" ELSE "mark"
           m == IF scan[c] + 1 < cpu_count THEN scan[c] + 1 ELSE 0
<1>1. /\ rcuStep[c] = "scan" /\ at(c, s)
      /\ gp' = [gp EXCEPT ![c] = gp[c]] /\ scan' = [scan EXCEPT ![c] = m]
      /\ UNCHANGED <<rcuWords, RCU_READER_COUNT, linked, freed, ref, writer, stage, retired, before>>
  BY DEF ScanReaders, RcuTypes, HandlerTypes
<1>2. gp[c] \in Nat /\ gp[c] <= RCU_EPOCH /\ m \in Nat
  BY DEF RcuTypes, HandlerTypes, Counted
<1>3. s \in {"false", "scan", "mark"} OBVIOUS
<1>4. s \in RcuSteps \ {"locked", "walking"} BY <1>3 DEF RcuSteps
<1>5. rcuStep'[c] = s BY <1>1, <1>4, Steps
<1>6. ASSUME NEW d \in RcuCpus \ {c}, rcuStep[d] = "walking", Waits(c, d) PROVE Waits(c, d)'
  <2>1. scan[c] <= d /\ completed_gp < current_gp BY <1>1, <1>6 DEF Waits
  <2>2. CASE RCU_READER_COUNT[scan[c]] > 0
    <3>1. rcuStep'[c] = "false" BY <1>5, <2>2
    <3> QED BY <1>1, <2>1, <3>1 DEF Waits, rcuWords
  <2>3. CASE ~ (RCU_READER_COUNT[scan[c]] > 0)
    <3>1. RCU_READER_COUNT[d] = 1 BY <1>6 DEF Counted
    <3>2. scan[c] \in Nat /\ scan[c] # d BY <2>3, <3>1 DEF RcuTypes, HandlerTypes
    <3>3. scan[c] + 1 <= d /\ scan[c] + 1 < cpu_count BY <2>1, <3>2, RcuAssumption DEF RcuCpus
    <3>4. rcuStep'[c] = "scan" BY <1>5, <2>3, <3>3
    <3>5. scan'[c] = scan[c] + 1 BY <1>1, <3>3 DEF RcuTypes, HandlerTypes
    <3> QED BY <1>1, <2>1, <3>3, <3>4, <3>5 DEF Waits, rcuWords
  <2> QED BY <2>2, <2>3
<1> HIDE DEF s, m
<1> QED BY <1>1, <1>2, <1>4, <1>6, LocalStep, Zenon

\* A step that stores the number of a grace period as completed. The other CPU is in no
\* lookup that has to be waited for.
LEMMA CompletesStep ==
  ASSUME cpu_count <= 2, RcuIInv, NEW c \in RcuCpus, MarkCompleted(c) \/ StoreCompleted(c)
  PROVE  RcuIInv'
<1> USE DEF RcuIInv
<1>1. /\ rcuStep[c] \in {"mark", "store"} /\ completed_gp' = gp[c]
      /\ UNCHANGED <<RCU_EPOCH, current_gp, RCU_READER_COUNT, linked, freed, ref, scan, writer, stage, retired, before>>
  BY DEF MarkCompleted, StoreCompleted
<1>2. PICK s \in {"true", "idle"} : at(c, s) BY DEF MarkCompleted, StoreCompleted
<1>3. s \in RcuSteps \ {"locked", "walking"} BY DEF RcuSteps
<1>4. gp' \in [RcuCpus -> Nat] /\ \A d \in RcuCpus : gp'[d] <= RCU_EPOCH
  BY DEF MarkCompleted, StoreCompleted, RcuTypes, WordTypes, HandlerTypes, Counted
<1>5. WordTypes' BY <1>1 DEF RcuTypes, WordTypes, HandlerTypes
<1>6. rcuStep' \in [RcuCpus -> RcuSteps] BY <1>2, <1>3, Steps
<1>7. HandlerTypes' BY <1>1, <1>4, <1>6, Zenon DEF RcuTypes, HandlerTypes
<1>8. current_gp' <= RCU_EPOCH' /\ completed_gp' <= RCU_EPOCH' /\ \A d \in RcuCpus : gp'[d] <= RCU_EPOCH'
  BY <1>1, <1>4, SMTT(30) DEF Counted
<1>9. OneCpuEach' BY <1>1, SameWriters
<1>10. \A d \in RcuCpus : ~ Waits(c, d) BY <1>1 DEF Waits
<1> QED BY <1>1, <1>2, <1>3, <1>5, <1>7, <1>8, <1>9, <1>10, HandlerStep

LEMMA ReloadCurrentStep ==
  ASSUME cpu_count <= 2, RcuIInv, NEW c \in RcuCpus, ReloadCurrent(c)
  PROVE  RcuIInv'
<1> USE DEF RcuIInv
<1>1. /\ rcuStep[c] = "true" /\ at(c, "store")
      /\ gp' = [gp EXCEPT ![c] = current_gp] /\ scan' = [scan EXCEPT ![c] = scan[c]]
      /\ UNCHANGED <<rcuWords, RCU_READER_COUNT, linked, freed, ref, writer, stage, retired, before>>
  BY DEF ReloadCurrent, RcuTypes, HandlerTypes
<1>2. current_gp \in Nat /\ current_gp <= RCU_EPOCH /\ scan[c] \in Nat BY DEF RcuTypes, WordTypes, HandlerTypes, Counted
<1>3. rcuStep'[c] = "store" BY <1>1, Steps DEF RcuSteps
<1>4. ASSUME NEW d \in RcuCpus \ {c}, Waits(c, d) PROVE Waits(c, d)'
  BY <1>1, <1>3, <1>4 DEF Waits, rcuWords, RcuTypes, HandlerTypes
<1> QED BY <1>1, <1>2, <1>4, LocalStep, Zenon DEF RcuSteps

LEMMA SoftirqStep ==
  ASSUME cpu_count <= 2, RcuIInv, NEW c \in RcuCpus, Softirq(c)
  PROVE  RcuIInv'
<1> USE DEF RcuIInv
<1>1. /\ rcuStep[c] = "idle" /\ at(c, "load")
      /\ gp' = [gp EXCEPT ![c] = gp[c]] /\ scan' = [scan EXCEPT ![c] = scan[c]]
      /\ UNCHANGED <<rcuWords, RCU_READER_COUNT, linked, freed, ref, writer, stage, retired, before>>
  BY DEF Softirq, RcuTypes, HandlerTypes
<1>2. gp[c] \in Nat /\ gp[c] <= RCU_EPOCH /\ scan[c] \in Nat BY DEF RcuTypes, WordTypes, HandlerTypes, Counted
<1>3. rcuStep'[c] = "load" BY <1>1, Steps DEF RcuSteps
<1>4. ASSUME NEW d \in RcuCpus \ {c}, Waits(c, d) PROVE Waits(c, d)'
  BY <1>1, <1>3, <1>4 DEF Waits, rcuWords, RcuTypes, HandlerTypes
<1> QED BY <1>1, <1>2, <1>4, LocalStep, Zenon DEF RcuSteps

LEMMA NothingEndedStep ==
  ASSUME cpu_count <= 2, RcuIInv, NEW c \in RcuCpus, NothingEnded(c)
  PROVE  RcuIInv'
<1> USE DEF RcuIInv
<1>1. /\ rcuStep[c] = "false" /\ at(c, "idle")
      /\ gp' = [gp EXCEPT ![c] = 0] /\ scan' = [scan EXCEPT ![c] = 0]
      /\ UNCHANGED <<rcuWords, RCU_READER_COUNT, linked, freed, ref, writer, stage, retired, before>>
  BY DEF NothingEnded, RcuTypes, HandlerTypes
<1>2. 0 \in Nat /\ 0 <= RCU_EPOCH /\ 0 \in Nat BY DEF RcuTypes, WordTypes, HandlerTypes, Counted
<1>3. rcuStep'[c] = "idle" BY <1>1, Steps DEF RcuSteps
<1>4. ASSUME NEW d \in RcuCpus \ {c}, Waits(c, d) PROVE Waits(c, d)'
  BY <1>1, <1>3, <1>4 DEF Waits, rcuWords, RcuTypes, HandlerTypes
<1> QED BY <1>1, <1>2, <1>4, LocalStep, Zenon DEF RcuSteps

\* The writer on c leaves it.
LEMMA Leaves ==
  ASSUME RcuIInv, NEW c \in RcuCpus, writer[c] # NoWriter, NEW t \in {"off", "asleep"},
         rcuReturn(c, writer[c], t)
  PROVE  /\ writer[c] \in Writers /\ stage[writer[c]] = "running"
         /\ HandlerTypes' /\ OneCpuEach'
         /\ rcuStep'[c] = "idle" /\ \A d \in RcuCpus \ {c} : rcuStep'[d] = rcuStep[d]
         /\ gp'[c] = 0 /\ \A d \in RcuCpus \ {c} : gp'[d] = gp[d]
         /\ stage'[writer[c]] = t /\ \A v \in Writers \ {writer[c]} : stage'[v] = stage[v]
<1> USE DEF RcuIInv
<1> DEFINE w == writer[c]
<1>1. w \in Writers /\ stage[w] = "running" BY DEF RcuTypes, HandlerTypes, OneCpuEach
<1>2. rcuStep' \in [RcuCpus -> RcuSteps] /\ rcuStep'[c] = "idle"
      /\ \A d \in RcuCpus \ {c} : rcuStep'[d] = rcuStep[d]
  BY Steps DEF rcuReturn, RcuSteps
<1>3. /\ gp' \in [RcuCpus -> Nat] /\ gp'[c] = 0 /\ \A d \in RcuCpus \ {c} : gp'[d] = gp[d]
      /\ scan' \in [RcuCpus -> Nat]
  BY DEF rcuReturn, RcuTypes, HandlerTypes
<1>4. /\ writer' \in [RcuCpus -> Writers \cup {NoWriter}]
      /\ writer'[c] = NoWriter /\ \A d \in RcuCpus \ {c} : writer'[d] = writer[d]
  BY DEF rcuReturn, RcuTypes, HandlerTypes
<1>5. /\ stage' \in [Writers -> {"off", "running", "asleep"}]
      /\ stage'[w] = t /\ \A v \in Writers \ {w} : stage'[v] = stage[v]
  BY <1>1 DEF rcuReturn, RcuTypes, HandlerTypes
<1>6. HandlerTypes' BY <1>2, <1>3, <1>4, <1>5, Zenon DEF HandlerTypes
<1>7. OneCpuEach' BY <1>4, <1>5 DEF OneCpuEach, RcuTypes, HandlerTypes
<1> QED BY <1>1, <1>2, <1>3, <1>5, <1>6, <1>7

LEMMA SleepTickStep ==
  ASSUME cpu_count <= 2, RcuIInv, NEW c \in RcuCpus, SleepTick(c)
  PROVE  RcuIInv'
<1> USE DEF RcuIInv
<1>1. /\ rcuStep[c] = "false" /\ writer[c] # NoWriter /\ rcuReturn(c, writer[c], "asleep")
      /\ UNCHANGED <<RCU_EPOCH, current_gp, completed_gp, linked, freed, ref, retired, before>>
  BY DEF SleepTick, rcuWords
<1>2. RCU_READER_COUNT[c] = 0 BY <1>1 DEF Counted
<1>3. RCU_READER_COUNT' = RCU_READER_COUNT BY <1>2 DEF SleepTick, RcuTypes, WordTypes
<1>4. WordTypes' BY <1>1, <1>3, Zenon DEF RcuTypes, WordTypes
<1>5. /\ HandlerTypes' /\ OneCpuEach' /\ rcuStep'[c] = "idle"
      /\ gp'[c] = 0 /\ \A d \in RcuCpus \ {c} : gp'[d] = gp[d]
      /\ \A w \in Writers : stage'[w] = "off" <=> stage[w] = "off"
  BY <1>1, Leaves
<1>6. current_gp' <= RCU_EPOCH' /\ completed_gp' <= RCU_EPOCH' /\ \A d \in RcuCpus : gp'[d] <= RCU_EPOCH'
  BY <1>1, <1>5 DEF Counted, RcuTypes, WordTypes
<1>7. ASSUME NEW d \in RcuCpus \ {c}, Waits(c, d) PROVE Waits(c, d)'
  BY <1>1, <1>5, <1>7 DEF Waits
<1>8. at(c, "idle") BY <1>1, SMTT(30) DEF rcuReturn
<1> QED BY <1>1, <1>3, <1>4, <1>5, <1>6, <1>7, <1>8, HandlerStep DEF RcuSteps

LEMMA WakeUpStep ==
  ASSUME cpu_count <= 2, RcuIInv, NEW c \in RcuCpus, NEW w \in Writers, WakeUp(c, w)
  PROVE  RcuIInv'
<1> USE DEF RcuIInv
<1>1. /\ rcuStep[c] = "idle" /\ stage[w] = "asleep" /\ at(c, "load")
      /\ UNCHANGED <<RCU_EPOCH, current_gp, completed_gp, RCU_READER_COUNT, linked, freed, ref, gp, scan, retired, before>>
  BY DEF WakeUp, rcuWords
<1>2. WordTypes' BY <1>1, Zenon DEF RcuTypes, WordTypes
<1>3. rcuStep' \in [RcuCpus -> RcuSteps] /\ rcuStep'[c] = "load" BY <1>1, Steps DEF RcuSteps
<1>4. /\ writer' \in [RcuCpus -> Writers \cup {NoWriter}] /\ stage' \in [Writers -> {"off", "running", "asleep"}]
      /\ writer'[c] = w /\ \A d \in RcuCpus \ {c} : writer'[d] = writer[d]
      /\ stage'[w] = "running" /\ \A v \in Writers \ {w} : stage'[v] = stage[v]
  BY DEF WakeUp, RcuTypes, HandlerTypes
<1>5. HandlerTypes' BY <1>1, <1>3, <1>4, Zenon DEF RcuTypes, HandlerTypes
<1>6. OneCpuEach' BY <1>1, <1>4 DEF OneCpuEach
<1>7. current_gp' <= RCU_EPOCH' /\ completed_gp' <= RCU_EPOCH' /\ \A d \in RcuCpus : gp'[d] <= RCU_EPOCH'
  BY <1>1 DEF Counted
<1>8. ASSUME NEW d \in RcuCpus \ {c}, Waits(c, d) PROVE Waits(c, d)'
  BY <1>1, <1>3, <1>8 DEF Waits
<1>9. \A v \in Writers : stage'[v] = "off" <=> stage[v] = "off" BY <1>1, <1>4
<1> QED BY <1>1, <1>2, <1>5, <1>6, <1>7, <1>8, <1>9, HandlerStep DEF RcuSteps

\* A node is freed when no lookup that refers to it is left: c found no reader, or the
\* lookups older than the grace period have ended.
LEMMA ReclaimStep ==
  ASSUME cpu_count <= 2, RcuIInv, NEW c \in RcuCpus, GraceEnded(c) \/ Timeout(c)
  PROVE  RcuIInv'
<1> USE DEF RcuIInv
<1> DEFINE w == writer[c]
<1>1. /\ rcuStep[c] \in {"true", "false"} /\ w # NoWriter /\ Reclaim(c)
      /\ rcuStep[c] = "true" \/ before[w] = {}
  BY DEF GraceEnded, Timeout
<1>2. /\ freed' = freed \cup {retired[w]} /\ rcuReturn(c, w, "off")
      /\ UNCHANGED <<RCU_EPOCH, current_gp, completed_gp, RCU_READER_COUNT, linked, ref>>
  BY <1>1 DEF Reclaim, rcuWords
<1>3. /\ w \in Writers /\ stage[w] = "running" /\ HandlerTypes' /\ OneCpuEach'
      /\ rcuStep'[c] = "idle" /\ \A d \in RcuCpus \ {c} : rcuStep'[d] = rcuStep[d]
      /\ gp'[c] = 0 /\ \A d \in RcuCpus \ {c} : gp'[d] = gp[d]
      /\ stage'[w] = "off" /\ \A v \in Writers \ {w} : stage'[v] = stage[v]
  BY <1>1, <1>2, Leaves
<1> HIDE DEF w
<1>4. NoRef \in Nat /\ linked < NoRef BY RcuAssumption DEF NoRef, RcuTypes, NodeTypes
<1>5. /\ retired' \in [Writers -> Nat] /\ retired'[w] = NoRef /\ \A v \in Writers \ {w} : retired'[v] = retired[v]
      /\ before' \in [Writers -> SUBSET RcuCpus] /\ \A v \in Writers \ {w} : before'[v] = before[v]
  BY <1>1, <1>3, <1>4 DEF Reclaim, RcuTypes, NodeTypes, w
<1>6. retired[w] \in Nat /\ retired[w] < linked BY <1>3 DEF Nodes, RcuTypes, NodeTypes
<1>7. RcuTypes'
  <2>1. WordTypes' BY <1>2, Zenon DEF RcuTypes, WordTypes
  <2>2. NodeTypes' BY <1>2, <1>5, <1>6, Zenon DEF RcuTypes, NodeTypes
  <2> QED BY <1>3, <2>1, <2>2 DEF RcuTypes
<1>8. Counted' BY <1>1, <1>2, <1>3 DEF Counted, RcuTypes, WordTypes
<1>9. Nodes' BY <1>1, <1>2, <1>3, <1>5, <1>6 DEF Nodes
<1>10. ASSUME NEW d \in RcuCpus PROVE ref[d] # retired[w]
  <2>1. CASE rcuStep[d] = "walking"
    <3>1. d # c BY <1>1, <2>1
    <3> QED BY <1>1, <1>3, <2>1, <3>1 DEF Protected, Waits
  <2>2. CASE rcuStep[d] # "walking"
    <3>1. ref[d] = NoRef BY <2>2 DEF Nodes
    <3> QED BY <1>4, <1>6, <3>1 DEF RcuTypes, NodeTypes
  <2> QED BY <2>1, <2>2
<1>11. NoReaderOfFreed' BY <1>2, <1>10 DEF NoReaderOfFreed
<1>12. Protected'
  <2> SUFFICES ASSUME NEW d \in RcuCpus, NEW v \in Writers, rcuStep'[d] = "walking", retired'[v] = ref'[d]
               PROVE  d \in before'[v] /\ \A e \in RcuCpus \ {d} : Waits(e, d)'
    BY DEF Protected
  <2>1. d # c /\ rcuStep[d] = "walking" /\ ref'[d] = ref[d] BY <1>2, <1>3
  <2>2. ref[d] \in Nat /\ ref[d] <= linked BY <2>1 DEF Nodes, RcuTypes, NodeTypes
  <2>3. v # w BY <1>4, <1>5, <2>1, <2>2 DEF RcuTypes, NodeTypes
  <2>4. d \in before[v] /\ Waits(c, d) BY <1>5, <2>1, <2>3 DEF Protected
  <2>5. Waits(c, d)' BY <1>1, <1>2, <1>3, <2>4 DEF Waits
  <2>6. \A e \in RcuCpus \ {d} : e = c BY <2>1, OneOther
  <2> QED BY <1>5, <2>3, <2>4, <2>5, <2>6, Zenon
<1> QED BY <1>3, <1>7, <1>8, <1>9, <1>11, <1>12

-----------------------------------------------------------------------------
LEMMA RcuInitIInv == RcuInit => RcuIInv
<1> SUFFICES ASSUME RcuInit PROVE RcuIInv OBVIOUS
<1> USE RcuAssumption DEF RcuInit
<1>1. WordTypes BY DEF WordTypes
<1>2. HandlerTypes BY DEF HandlerTypes, RcuSteps
<1>3. NodeTypes BY DEF NodeTypes, NoRef
<1>4. Counted BY DEF Counted
<1>5. OneCpuEach BY DEF OneCpuEach
<1>6. Nodes BY DEF Nodes
<1>7. Protected BY DEF Protected
<1>8. NoReaderOfFreed BY DEF NoReaderOfFreed
<1> QED BY <1>1, <1>2, <1>3, <1>4, <1>5, <1>6, <1>7, <1>8 DEF RcuIInv, RcuTypes

LEMMA RcuNextIInv ==
  ASSUME cpu_count <= 2
  PROVE  RcuIInv /\ [RcuNext]_rcuVars => RcuIInv'
<1> SUFFICES ASSUME RcuIInv, [RcuNext]_rcuVars PROVE RcuIInv' OBVIOUS
<1>1. ASSUME NEW c \in RcuCpus, ReadLock(c) \/ Walk(c) \/ ReadUnlock(c) PROVE RcuIInv'
  BY <1>1, ReadLockStep, WalkStep, ReadUnlockStep, Zenon
<1>2. ASSUME NEW c \in RcuCpus, NextEpoch(c) \/ PublishGp(c) PROVE RcuIInv'
  BY <1>2, NextEpochStep, PublishGpStep, Zenon
<1>3. ASSUME NEW c \in RcuCpus, LoadCurrent(c) \/ LoadCompleted(c) \/ ScanReaders(c) \/ MarkCompleted(c)
      PROVE  RcuIInv'
  BY <1>3, LoadCurrentStep, LoadCompletedStep, ScanReadersStep, CompletesStep, Zenon
<1>4. ASSUME NEW c \in RcuCpus, SleepTick(c) \/ GraceEnded(c) \/ Timeout(c) PROVE RcuIInv'
  BY <1>4, SleepTickStep, ReclaimStep, Zenon
<1>5. ASSUME NEW c \in RcuCpus, Softirq(c) \/ ReloadCurrent(c) \/ StoreCompleted(c) \/ NothingEnded(c)
      PROVE  RcuIInv'
  BY <1>5, SoftirqStep, ReloadCurrentStep, CompletesStep, NothingEndedStep, Zenon
<1>6. ASSUME NEW c \in RcuCpus, NEW w \in Writers, Unlink(c, w) \/ WakeUp(c, w) PROVE RcuIInv'
  BY <1>6, UnlinkStep, WakeUpStep, Zenon
<1>7. CASE RcuNext BY <1>1, <1>2, <1>3, <1>4, <1>5, <1>6, <1>7, Zenon DEF RcuNext, Running
<1>8. CASE UNCHANGED rcuVars
  BY <1>8, Zenon DEF rcuVars, rcuWords, RcuIInv, RcuTypes, WordTypes, HandlerTypes, NodeTypes, Counted,
     OneCpuEach, Nodes, Protected, Waits, NoReaderOfFreed
<1> QED BY <1>7, <1>8

\* On at most two CPUs, with any number of writers and of changes of the list, no lookup
\* refers to a node that reclaim_retired has freed: the softirq's second look at
\* current_gp takes a third CPU to do harm.
THEOREM NoUseAfterFree ==
  ASSUME cpu_count <= 2
  PROVE  RcuSpec => []NoReaderOfFreed
<1>1. RcuSpec => []RcuIInv BY RcuInitIInv, RcuNextIInv, PTL DEF RcuSpec
<1>2. RcuIInv => NoReaderOfFreed BY DEF RcuIInv
<1> QED BY <1>1, <1>2, PTL
=============================================================================
