-------------------------------- MODULE Rcu --------------------------------
(***************************************************************************)
(* Read-copy-update (rcu.rs) as the lookup of memory areas uses it         *)
(* (memory/cils.rs): a page fault walks the area list without a lock, a    *)
(* change of the list unlinks nodes, waits in synchronize_rcu() and frees  *)
(* them, and on every timer tick the RCU softirq looks for an ended grace  *)
(* period.                                                                 *)
(*                                                                         *)
(* A page fault, a system call and a softirq run with interrupts off, so a *)
(* CPU is in one of them at a time; a writer leaves its CPU only in        *)
(* sleep(1).  Every load and store of a shared word is a step.  The list   *)
(* is the node it links last: unlinking node n links n + 1.                *)
(***************************************************************************)
EXTENDS Naturals

CONSTANTS
  cpu_count,    \* get_cpu_count()
  Writers,      \* tasks that change the list
  NoWriter,
  MaxSwaps      \* bound: changes of the list

ASSUME RcuAssumption ==
  cpu_count \in Nat /\ NoWriter \notin Writers /\ MaxSwaps \in Nat

\* The CPUs, in the order of the scan.
RcuCpus == 0 .. cpu_count - 1

VARIABLES
  RCU_EPOCH, current_gp, completed_gp,
  RCU_READER_COUNT,
  linked,     \* the node a walk that starts now meets
  freed,      \* the nodes given back to the heap
  rcuStep,    \* rcuStep[c]: where CPU c is in the handler it runs
  ref,        \* the node the lookup on c refers to; MaxSwaps + 1 for none
  gp, scan,   \* locals of grace_period_completed on c
  writer,     \* the writer that runs on c
  stage,      \* stage[w]: "off", "running" or "asleep"
  retired,    \* the node w has unlinked
  before      \* the CPUs with a lookup older than w's grace period, that still runs

rcuWords == <<RCU_EPOCH, current_gp, completed_gp>>
rcuVars == <<rcuWords, RCU_READER_COUNT, linked, freed, rcuStep, ref, gp, scan, writer, stage, retired, before>>

NoRef == MaxSwaps + 1

RcuInit ==
  /\ RCU_EPOCH = 0 /\ current_gp = 0 /\ completed_gp = 0
  /\ RCU_READER_COUNT = [c \in RcuCpus |-> 0]
  /\ linked = 0 /\ freed = {}
  /\ rcuStep = [c \in RcuCpus |-> "idle"] /\ ref = [c \in RcuCpus |-> NoRef]
  /\ gp = [c \in RcuCpus |-> 0] /\ scan = [c \in RcuCpus |-> 0]
  /\ writer = [c \in RcuCpus |-> NoWriter]
  /\ stage = [w \in Writers |-> "off"] /\ retired = [w \in Writers |-> NoRef]
  /\ before = [w \in Writers |-> {}]

at(c, s) == rcuStep' = [rcuStep EXCEPT ![c] = s]

-----------------------------------------------------------------------------
(* find_vma_cils *)

\* RcuReadLock::new counts the reader in.
ReadLock(c) ==
  /\ rcuStep[c] = "idle" /\ at(c, "locked")
  /\ RCU_READER_COUNT' = [RCU_READER_COUNT EXCEPT ![c] = @ + 1]
  /\ UNCHANGED <<rcuWords, linked, freed, ref, gp, scan, writer, stage, retired, before>>

\* The walk takes up a reference from the list.
Walk(c) ==
  /\ rcuStep[c] = "locked" /\ at(c, "walking")
  /\ ref' = [ref EXCEPT ![c] = linked]
  /\ UNCHANGED <<rcuWords, RCU_READER_COUNT, linked, freed, gp, scan, writer, stage, retired, before>>

\* The lookup ends: the reference is gone and RcuReadLock::drop counts the reader out.
ReadUnlock(c) ==
  /\ rcuStep[c] = "walking" /\ at(c, "idle")
  /\ ref' = [ref EXCEPT ![c] = NoRef]
  /\ RCU_READER_COUNT' = [RCU_READER_COUNT EXCEPT ![c] = @ - 1]
  /\ before' = [w \in Writers |-> before[w] \ {c}]
  /\ UNCHANGED <<rcuWords, linked, freed, gp, scan, writer, stage, retired>>

-----------------------------------------------------------------------------
(* with_address_space_mut, reclaim_retired and synchronize_rcu *)

\* Under the address-space lock the writer unlinks a node; the lock is free again
\* when the grace period starts.
Unlink(c, w) ==
  /\ rcuStep[c] = "idle" /\ stage[w] = "off" /\ linked < MaxSwaps
  /\ at(c, "epoch")
  /\ linked' = linked + 1 /\ retired' = [retired EXCEPT ![w] = linked]
  /\ before' = [before EXCEPT ![w] = {d \in RcuCpus : rcuStep[d] = "walking"}]
  /\ writer' = [writer EXCEPT ![c] = w] /\ stage' = [stage EXCEPT ![w] = "running"]
  /\ UNCHANGED <<rcuWords, RCU_READER_COUNT, freed, ref, gp, scan>>

\* start_grace_period takes the next number ...
NextEpoch(c) ==
  /\ rcuStep[c] = "epoch" /\ at(c, "publish")
  /\ RCU_EPOCH' = RCU_EPOCH + 1 /\ gp' = [gp EXCEPT ![c] = RCU_EPOCH + 1]
  /\ UNCHANGED <<current_gp, completed_gp, RCU_READER_COUNT, linked, freed, ref, scan, writer, stage,
                 retired, before>>

\* ... and publishes it.
PublishGp(c) ==
  /\ rcuStep[c] = "publish" /\ at(c, "load")
  /\ current_gp' = gp[c]
  /\ UNCHANGED <<RCU_EPOCH, completed_gp, RCU_READER_COUNT, linked, freed, ref, gp, scan, writer, stage,
                 retired, before>>

-----------------------------------------------------------------------------
(* grace_period_completed, for the writer or the softirq that runs on c *)

LoadCurrent(c) ==
  /\ rcuStep[c] = "load" /\ at(c, "compare")
  /\ gp' = [gp EXCEPT ![c] = current_gp]
  /\ UNCHANGED <<rcuWords, RCU_READER_COUNT, linked, freed, ref, scan, writer, stage, retired, before>>

LoadCompleted(c) ==
  /\ rcuStep[c] = "compare"
  /\ at(c, IF gp[c] <= completed_gp THEN "true" ELSE "scan")
  /\ scan' = [scan EXCEPT ![c] = 0]
  /\ UNCHANGED <<rcuWords, RCU_READER_COUNT, linked, freed, ref, gp, writer, stage, retired, before>>

\* The scan stops one CPU early.
ScanReadersShort(c) ==
  /\ rcuStep[c] = "scan"
  /\ scan' = [scan EXCEPT ![c] = IF @ + 2 < cpu_count THEN @ + 1 ELSE 0]
  /\ at(c, IF RCU_READER_COUNT[scan[c]] > 0 THEN "false"
           ELSE IF scan[c] + 2 < cpu_count THEN "scan" ELSE "mark")
  /\ UNCHANGED <<rcuWords, RCU_READER_COUNT, linked, freed, ref, gp, writer, stage, retired, before>>

ScanReaders(c) ==
  /\ rcuStep[c] = "scan"
  /\ scan' = [scan EXCEPT ![c] = IF @ + 1 < cpu_count THEN @ + 1 ELSE 0]
  /\ at(c, IF RCU_READER_COUNT[scan[c]] > 0 THEN "false"
           ELSE IF scan[c] + 1 < cpu_count THEN "scan" ELSE "mark")
  /\ UNCHANGED <<rcuWords, RCU_READER_COUNT, linked, freed, ref, gp, writer, stage, retired, before>>

MarkCompleted(c) ==
  /\ rcuStep[c] = "mark" /\ at(c, "true")
  /\ completed_gp' = gp[c]
  /\ UNCHANGED <<RCU_EPOCH, current_gp, RCU_READER_COUNT, linked, freed, ref, gp, scan, writer, stage,
                 retired, before>>

-----------------------------------------------------------------------------
(* The loop of synchronize_rcu *)

rcuReturn(c, w, s) ==
  /\ at(c, "idle") /\ gp' = [gp EXCEPT ![c] = 0] /\ scan' = [scan EXCEPT ![c] = 0]
  /\ writer' = [writer EXCEPT ![c] = NoWriter] /\ stage' = [stage EXCEPT ![w] = s]

\* The readers are not done: sleep(1).  schedule() reports a quiescent state of this CPU.
SleepTick(c) ==
  /\ rcuStep[c] = "false" /\ writer[c] # NoWriter
  /\ rcuReturn(c, writer[c], "asleep")
  /\ RCU_READER_COUNT' = [RCU_READER_COUNT EXCEPT ![c] = 0]
  /\ UNCHANGED <<rcuWords, linked, freed, ref, retired, before>>

WakeUp(c, w) ==
  /\ rcuStep[c] = "idle" /\ stage[w] = "asleep"
  /\ at(c, "load")
  /\ writer' = [writer EXCEPT ![c] = w] /\ stage' = [stage EXCEPT ![w] = "running"]
  /\ UNCHANGED <<rcuWords, RCU_READER_COUNT, linked, freed, ref, gp, scan, retired, before>>

\* synchronize_rcu has returned and reclaim_retired frees the node.
Reclaim(c) ==
  /\ freed' = freed \cup {retired[writer[c]]}
  /\ retired' = [retired EXCEPT ![writer[c]] = NoRef] /\ before' = [before EXCEPT ![writer[c]] = {}]
  /\ rcuReturn(c, writer[c], "off")
  /\ UNCHANGED <<rcuWords, RCU_READER_COUNT, linked, ref>>

GraceEnded(c) == rcuStep[c] = "true" /\ writer[c] # NoWriter /\ Reclaim(c)

\* The loop has no timeout.
TimeoutNever(c) == FALSE /\ Reclaim(c)

\* After 1000 ticks the loop gives up.  A lookup is over within that time: the ones
\* that ran when the grace period started have ended.
Timeout(c) == rcuStep[c] = "false" /\ writer[c] # NoWriter /\ before[writer[c]] = {} /\ Reclaim(c)

-----------------------------------------------------------------------------
(* The RCU softirq: process_callbacks *)

Softirq(c) ==
  /\ rcuStep[c] = "idle" /\ at(c, "load")
  /\ UNCHANGED <<rcuWords, RCU_READER_COUNT, linked, freed, ref, gp, scan, writer, stage, retired, before>>

\* A grace period has ended: the number is loaded again ...
ReloadCurrent(c) ==
  /\ rcuStep[c] = "true" /\ writer[c] = NoWriter /\ at(c, "store")
  /\ gp' = [gp EXCEPT ![c] = current_gp]
  /\ UNCHANGED <<rcuWords, RCU_READER_COUNT, linked, freed, ref, scan, writer, stage, retired, before>>

\* ... and stored as completed.
StoreCompleted(c) ==
  /\ rcuStep[c] = "store" /\ at(c, "idle")
  /\ completed_gp' = gp[c] /\ gp' = [gp EXCEPT ![c] = 0]
  /\ UNCHANGED <<RCU_EPOCH, current_gp, RCU_READER_COUNT, linked, freed, ref, scan, writer, stage, retired,
                 before>>

NothingEnded(c) ==
  /\ rcuStep[c] = "false" /\ writer[c] = NoWriter /\ at(c, "idle")
  /\ gp' = [gp EXCEPT ![c] = 0] /\ scan' = [scan EXCEPT ![c] = 0]
  /\ UNCHANGED <<rcuWords, RCU_READER_COUNT, linked, freed, ref, writer, stage, retired, before>>

-----------------------------------------------------------------------------
\* The steps of a handler that has started.
Running(c) ==
  \/ Walk(c) \/ ReadUnlock(c)
  \/ NextEpoch(c) \/ PublishGp(c)
  \/ LoadCurrent(c) \/ LoadCompleted(c) \/ ScanReaders(c) \/ MarkCompleted(c)
  \/ SleepTick(c) \/ GraceEnded(c) \/ Timeout(c)
  \/ ReloadCurrent(c) \/ StoreCompleted(c) \/ NothingEnded(c)

RcuNext == \E c \in RcuCpus :
  \/ ReadLock(c) \/ Softirq(c) \/ Running(c)
  \/ \E w \in Writers : Unlink(c, w) \/ WakeUp(c, w)

\* A handler with interrupts off goes on; a writer whose tick has come is run again by
\* a CPU that keeps finishing its handlers; time passes in the loop.
RcuFairness ==
  /\ \A c \in RcuCpus : WF_rcuVars(Running(c))
  /\ \A w \in Writers :
       /\ SF_rcuVars(\E c \in RcuCpus : WakeUp(c, w))
       /\ SF_rcuVars(\E c \in RcuCpus : writer[c] = w /\ Timeout(c))

RcuSpec == RcuInit /\ [][RcuNext]_rcuVars /\ RcuFairness

-----------------------------------------------------------------------------
\* "Writers wait for a grace period before freeing any unlinked node, guaranteeing that
\* no reader can be accessing it" (memory/cils.rs): a lookup never refers to a node that
\* reclaim_retired has freed.
NoReaderOfFreed == \A c \in RcuCpus : ref[c] \notin freed

\* synchronize_rcu returns even if lookups on other CPUs overlap for ever, so that the
\* unlinked node is freed and the system call ends.
ReclaimEnds == \A w \in Writers : [](stage[w] # "off" => <>(stage[w] = "off"))

=============================================================================
