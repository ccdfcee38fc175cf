-------------------------- MODULE FrameOwnership --------------------------
(***************************************************************************)
(* Typed ownership of physical frames: the FRAME_TABLE of                  *)
(* memory/frame_ownership/mod.rs, the per-CPU reference cache of           *)
(* memory/frame_ownership/refcache.rs, and the handlers of memory/mod.rs   *)
(* that take and drop references: lazy faults, copy-on-write faults, fork, *)
(* munmap and the teardown of an address space.                            *)
(*                                                                         *)
(* Every address space has one private writable page, of one kind.  A step *)
(* ends where the code releases FRAME_TABLE or returns.  The pinned zero   *)
(* page is never counted here: its count starts at u32::MAX / 2.           *)
(***************************************************************************)
EXTENDS Integers, FiniteSets, SequencesExt

CONSTANTS
  Cpus,          \* CPU slots
  Frames,        \* the frames of the user pool
  Spaces,        \* address spaces
  Zero,          \* ZERO_PAGE_PFN
  None,          \* no mapping, no frame
  Kinds,         \* the VmaKinds the page may have
  Slots,         \* slots of a CPU's delta cache, 0 .. REFCACHE_SIZE - 1
  cache_slot,    \* the slot of each frame
  REVIEW_QUEUE_SIZE,
  MaxLive,       \* bound, by kind: address spaces at once
  MaxForks,      \* bound, by kind: calls of fork
  MaxEpoch,      \* bound, by kind: value of REFCACHE_GLOBAL_EPOCH
  MaxRefs        \* bound: references counted for one frame

ASSUME FrameAssumption ==
  /\ Kinds \subseteq {"Anonymous", "Image", "File"}
  /\ cache_slot \in [Frames -> Slots]
  /\ Zero \notin Frames /\ None \notin Frames \union {Zero}

VARIABLES
  kind,          \* kind of the page's VMA, the same in every space
  region,        \* the VMA of a space: none, plain or cow
  live,          \* spaces that exist
  pte,           \* what a space maps
  writable,      \* spaces whose mapping is writable
  op,            \* the handler a space is in: [at, new, old, rc]
  entries,       \* FRAME_TABLE: [flags, ref] of a frame
  freed,         \* how often a frame is on the allocator's free lists
  forks,
  cache,         \* REFCACHE_CPU[c].cache
  review,        \* REFCACHE_CPU[c].review, [phys, added] in order
  epoch,         \* REFCACHE_CPU[c].epoch
  gepoch,        \* REFCACHE_GLOBAL_EPOCH
  tick,          \* where a CPU is in its tick: [at, i]
  drainList      \* DRAIN_LIST

spaceVars == <<kind, region, live, pte, writable, forks>>
cpuVars == <<cache, review, epoch>>
tickVars == <<gepoch, tick, drainList>>
vars == <<spaceVars, op, entries, freed, cpuVars, tickVars>>

Untracked == [flags |-> "NONE", ref |-> 0]
Idle == [at |-> "idle", new |-> None, old |-> None, rc |-> FALSE]

---------------------------------------------------------------------------
(* FrameTable: what an operation makes of one entry.                       *)

init_unique(e) ==
  IF e.flags = "NONE" THEN [flags |-> "UNIQUE", ref |-> 0] ELSE e

refcache_init(e) ==
  IF e.flags = "NONE" THEN [flags |-> "REFCACHE", ref |-> 0] ELSE e

share(e) ==
  CASE e.flags \in {"UNIQUE", "NONE"} -> [flags |-> "SHARED", ref |-> 1]
    [] e.flags = "SHARED"             -> [e EXCEPT !.ref = @ + 1]
    [] e.flags = "ZOMBIE"             -> [flags |-> "SHARED", ref |-> 2]
    [] OTHER                          -> e

\* The count unshare returns, and the entry it leaves.
remaining(e) == IF e.flags = "SHARED" /\ e.ref > 1 THEN e.ref - 1 ELSE 0

unshare(e) ==
  CASE e.flags = "SHARED" /\ e.ref > 1 -> [e EXCEPT !.ref = @ - 1]
    [] e.flags = "REFCACHE"            -> e
    [] OTHER                           -> Untracked

CanUpgrade(e) == e.flags = "SHARED" /\ e.ref <= 1

try_upgrade_unique(e) ==
  IF e.ref = 1 THEN [flags |-> "UNIQUE", ref |-> 0] ELSE Untracked

mark_zombie(e) == IF e.flags = "NONE" THEN e ELSE [e EXCEPT !.flags = "ZOMBIE"]

Max0(n) == IF n > 0 THEN n ELSE 0

\* The delta that turns a UNIQUE entry into a REFCACHE one is lost.
addLosesFirst(e, delta) ==
  [flags |-> "REFCACHE",
   ref   |-> CASE e.flags = "UNIQUE"               -> 0
               [] e.flags \in {"REFCACHE", "SHARED"} -> Max0(e.ref + delta)
               [] OTHER                            -> Max0(delta)]

refcache_global_add(e, delta) ==
  [flags |-> "REFCACHE",
   ref   |-> CASE e.flags = "UNIQUE"               -> IF delta > 0 THEN 1 ELSE 0
               [] e.flags \in {"REFCACHE", "SHARED"} -> Max0(e.ref + delta)
               [] OTHER                            -> Max0(delta)]

CanRemove(e) == e.flags \in {"REFCACHE", "SHARED"} /\ e.ref = 0

---------------------------------------------------------------------------
(* The per-CPU reference cache.                                            *)

\* refcache_flush_delta of one cached delta, and the review it may start.
Flush(c, d) ==
  LET e == refcache_global_add(entries[d.phys], d.delta) IN
  IF d.phys = None \/ d.delta = 0
    THEN UNCHANGED <<entries, review>>
    ELSE /\ entries' = [entries EXCEPT ![d.phys] = e]
         /\ review' =
              IF e.ref = 0 /\ Len(review[c]) < REVIEW_QUEUE_SIZE
                THEN [review EXCEPT ![c] =
                        Append(@, [phys |-> d.phys, added |-> epoch[c]])]
                ELSE review

\* inc and dec: count in the slot, evicting the delta of another frame.
Count(c, f, by) ==
  LET s == cache_slot[f]
      d == cache[c][s]
  IN /\ tick[c].at = "idle"
     /\ IF d.phys = f
          THEN /\ cache' = [cache EXCEPT ![c][s].delta = @ + by]
               /\ UNCHANGED <<entries, review>>
          ELSE /\ Flush(c, d)
               /\ cache' = [cache EXCEPT ![c][s] = [phys |-> f, delta |-> by]]
     /\ UNCHANGED epoch

RemoveReview(q, i) == IF i = Len(q) THEN Front(q) ELSE [Front(q) EXCEPT ![i] = Last(q)]

\* Tick, first half: flush() empties the slots one after the other.
FlushSlot(c) ==
  LET s == tick[c].i IN
  /\ tick[c].at \in {"idle", "flush"}
  /\ tick[c].at = "idle" => gepoch < MaxEpoch[kind]
  /\ Flush(c, cache[c][s])
  /\ cache' = [cache EXCEPT ![c][s].delta = 0]
  /\ tick' = [tick EXCEPT ![c] =
       IF s + 1 \in Slots THEN [at |-> "flush", i |-> s + 1] ELSE [at |-> "load", i |-> 0]]
  /\ UNCHANGED <<spaceVars, op, freed, epoch, gepoch, drainList>>

\* The global epoch advances by a load and a store.
LoadEpoch(c) ==
  /\ tick[c].at = "load"
  /\ epoch' = [epoch EXCEPT ![c] = gepoch]
  /\ tick' = [tick EXCEPT ![c].at = "store"]
  /\ UNCHANGED <<spaceVars, op, entries, freed, cache, review, gepoch, drainList>>

StoreEpoch(c) ==
  /\ tick[c].at = "store"
  /\ gepoch' = epoch[c] + 1
  /\ tick' = [tick EXCEPT ![c] = [at |-> "review", i |-> 1]]
  /\ UNCHANGED <<spaceVars, op, entries, freed, cpuVars, drainList>>

\* Tick, second half: one entry of the review queue, or the end of the queue.
Review(c) ==
  LET i == tick[c].i
      e == review[c][i]
      young == epoch[c] - e.added \in {0, 1}
  IN /\ tick[c].at = "review"
     /\ IF i > Len(review[c])
          THEN /\ tick' = [tick EXCEPT ![c] = [at |-> "idle", i |-> 0]]
               /\ UNCHANGED <<entries, review, drainList>>
          ELSE IF young
          THEN /\ tick' = [tick EXCEPT ![c].i = @ + 1]
               /\ UNCHANGED <<entries, review, drainList>>
          ELSE /\ review' = [review EXCEPT ![c] = RemoveReview(@, i)]
               /\ IF CanRemove(entries[e.phys])
                    THEN /\ entries' = [entries EXCEPT ![e.phys] = Untracked]
                         /\ drainList' = Append(drainList, e.phys)
                    ELSE UNCHANGED <<entries, drainList>>
               /\ UNCHANGED tick
     /\ UNCHANGED <<spaceVars, op, freed, cache, epoch, gepoch>>

\* drain that copies the list instead of taking it.
drainCopies ==
  /\ drainList # <<>>
  /\ freed' = [f \in Frames |-> freed[f] + Cardinality({i \in DOMAIN drainList : drainList[i] = f})]
  /\ UNCHANGED <<spaceVars, op, entries, cpuVars, gepoch, tick, drainList>>

\* The idle loop returns the drained frames to the allocator.
drain ==
  /\ drainList # <<>>
  /\ freed' = [f \in Frames |-> freed[f] + Cardinality({i \in DOMAIN drainList : drainList[i] = f})]
  /\ drainList' = <<>>
  /\ UNCHANGED <<spaceVars, op, entries, cpuVars, gepoch, tick>>

---------------------------------------------------------------------------
(* The handlers of an address space.                                       *)

Total(f) ==
  entries[f].ref + MapThenSumSet(LAMBDA c :
    LET d == cache[c][cache_slot[f]] IN IF d.phys = f THEN d.delta ELSE 0, Cpus)

\* allocate_user_frame
Allocate(f) ==
  /\ freed[f] > 0
  /\ Total(f) < MaxRefs
  /\ freed' = [freed EXCEPT ![f] = @ - 1]
  /\ entries' = [entries EXCEPT ![f] = init_unique(@)]

At(s, step) == s \in live /\ op[s].at = step

\* A program is loaded into a fresh address space.
Spawn(s) ==
  /\ s \notin live /\ Cardinality(live) < MaxLive[kind]
  /\ live' = live \union {s}
  /\ region' = [region EXCEPT ![s] = IF kind = "File" THEN "cow" ELSE "plain"]
  /\ UNCHANGED <<kind, pte, writable, forks, op, entries, freed, cpuVars, tickVars>>

\* Lazy fault: the zero page where it will do, else a frame to fill.
Fault(s) ==
  /\ At(s, "idle") /\ region[s] # "none" /\ pte[s] = None
  /\ IF kind = "Anonymous" /\ region[s] = "cow"
       THEN /\ pte' = [pte EXCEPT ![s] = Zero]
            /\ UNCHANGED <<op, entries, freed>>
       ELSE \E f \in Frames :
              /\ Allocate(f)
              /\ op' = [op EXCEPT ![s] = [Idle EXCEPT !.at = "fill", !.new = f]]
              /\ UNCHANGED pte
  /\ UNCHANGED <<kind, region, live, writable, forks, cpuVars, tickVars>>

\* map_to_with_table_flags, then leak_as_shared.
FaultMap(s) ==
  /\ At(s, "fill")
  /\ pte' = [pte EXCEPT ![s] = op[s].new]
  /\ writable' = IF region[s] = "cow" THEN writable \ {s} ELSE writable \union {s}
  /\ entries' = [entries EXCEPT ![op[s].new] = share(@)]
  /\ op' = [op EXCEPT ![s] = Idle]
  /\ UNCHANGED <<kind, region, live, forks, freed, cpuVars, tickVars>>

\* No frame for a page table: UniqueFrame::drop.
FaultFail(s) ==
  /\ At(s, "fill")
  /\ entries' = [entries EXCEPT ![op[s].new] = mark_zombie(@)]
  /\ freed' = [freed EXCEPT ![op[s].new] = @ + 1]
  /\ op' = [op EXCEPT ![s] = Idle]
  /\ UNCHANGED <<spaceVars, cpuVars, tickVars>>

\* handle_cow_fault, the only reference: the page becomes writable.
CowUpgrade(s) ==
  /\ At(s, "idle") /\ region[s] = "cow" /\ pte[s] \in Frames /\ s \notin writable
  /\ kind # "File" /\ CanUpgrade(entries[pte[s]])
  /\ entries' = [entries EXCEPT ![pte[s]] = try_upgrade_unique(@)]
  /\ writable' = writable \union {s}
  /\ UNCHANGED <<kind, region, live, pte, forks, op, freed, cpuVars, tickVars>>

\* handle_cow_fault, else: a copy in a new frame ...
CowCopy(s) ==
  /\ At(s, "idle") /\ region[s] = "cow" /\ pte[s] # None /\ s \notin writable
  /\ \/ kind = "File"
     \/ pte[s] = Zero
     \/ pte[s] \in Frames /\ ~CanUpgrade(entries[pte[s]])
  /\ \E f \in Frames :
       /\ Allocate(f)
       /\ op' = [op EXCEPT ![s] = [Idle EXCEPT !.at = "copy", !.new = f]]
  /\ UNCHANGED <<spaceVars, cpuVars, tickVars>>

IsRefcache(f) == f # Zero /\ entries[f].flags = "REFCACHE"

\* ... is mapped in place of the old one, whose flags are read ...
CowRemap(s) ==
  /\ At(s, "copy")
  /\ pte' = [pte EXCEPT ![s] = op[s].new]
  /\ writable' = writable \union {s}
  /\ op' = [op EXCEPT ![s].at = "drop", ![s].old = pte[s], ![s].rc = IsRefcache(pte[s])]
  /\ UNCHANGED <<kind, region, live, forks, entries, freed, cpuVars, tickVars>>

\* The entry of f loses a reference; the frame is freed when that was the last.
Release(f) ==
  /\ entries' = [entries EXCEPT ![f] = unshare(@)]
  /\ freed' = [freed EXCEPT ![f] = @ + IF remaining(entries[f]) = 0 THEN 1 ELSE 0]

\* ... which is dropped unless it is REFCACHE ...
CowDrop(s) ==
  /\ At(s, "drop")
  /\ IF op[s].rc \/ op[s].old = Zero THEN UNCHANGED <<entries, freed>> ELSE Release(op[s].old)
  /\ op' = [op EXCEPT ![s].at = "init"]
  /\ UNCHANGED <<spaceVars, cpuVars, tickVars>>

\* ... and into_shared_refcache counts the new one on this CPU, between the
\* refcache_init of its own and that of SharedRefCacheFrame::from_phys.
CowInit(s) ==
  /\ At(s, "init") \/ At(s, "reinit")
  /\ entries' = [entries EXCEPT ![op[s].new] = refcache_init(@)]
  /\ op' = [op EXCEPT ![s] = IF @.at = "init" THEN [@ EXCEPT !.at = "inc"] ELSE Idle]
  /\ UNCHANGED <<spaceVars, freed, cpuVars, tickVars>>

CowInc(s, c) ==
  /\ At(s, "inc")
  /\ Count(c, op[s].new, 1)
  /\ op' = [op EXCEPT ![s].at = "reinit"]
  /\ UNCHANGED <<spaceVars, freed, tickVars>>

\* fork: only copy-on-write regions are mapped in the child; the regions of
\* the child, not those of the parent, become copy-on-write.
Fork(p, t) ==
  LET shared == region[p] = "cow" /\ pte[p] # None IN
  /\ At(p, "idle") /\ t \notin live /\ Cardinality(live) < MaxLive[kind]
  /\ forks < MaxForks[kind]
  /\ forks' = forks + 1
  /\ live' = live \union {t}
  /\ region' = [region EXCEPT ![t] = IF region[p] = "none" THEN "none" ELSE "cow"]
  /\ IF shared
       THEN /\ pte' = [pte EXCEPT ![t] = pte[p]]
            /\ writable' = writable \ {p, t}
            /\ entries' = IF pte[p] = Zero THEN entries
                          ELSE [entries EXCEPT ![pte[p]] = share(@)]
       ELSE UNCHANGED <<pte, writable, entries>>
  /\ UNCHANGED <<kind, op, freed, cpuVars, tickVars>>

\* unmap_user_range: a frame whose count reads 0 is passed over.
Unmap(s) ==
  LET f == pte[s] IN
  /\ At(s, "idle") /\ f # None
  /\ pte' = [pte EXCEPT ![s] = None]
  /\ region' = [region EXCEPT ![s] = "none"]
  /\ writable' = writable \ {s}
  /\ IF f = Zero \/ entries[f].ref = 0
       THEN UNCHANGED op
       ELSE op' = [op EXCEPT ![s] = [Idle EXCEPT !.at = "flags", !.old = f]]
  /\ UNCHANGED <<kind, live, forks, entries, freed, cpuVars, tickVars>>

\* exit: free_user_page_tables drops the reference of every present entry.
Exit(s) ==
  LET f == pte[s] IN
  /\ At(s, "idle")
  /\ pte' = [pte EXCEPT ![s] = None]
  /\ region' = [region EXCEPT ![s] = "none"]
  /\ writable' = writable \ {s}
  /\ IF f \in Frames
       THEN op' = [op EXCEPT ![s] = [Idle EXCEPT !.at = "flags", !.old = f, !.new = Zero]]
            /\ UNCHANGED live
       ELSE live' = live \ {s} /\ UNCHANGED op
  /\ UNCHANGED <<kind, forks, entries, freed, cpuVars, tickVars>>

\* dec_frame_ref reads the flags under one lock and acts under another.
DecFlags(s) ==
  /\ At(s, "flags")
  /\ op' = [op EXCEPT ![s].at = "dec", ![s].rc = IsRefcache(op[s].old)]
  /\ UNCHANGED <<spaceVars, entries, freed, cpuVars, tickVars>>

dec_frame_ref(s, c) ==
  /\ At(s, "dec")
  /\ IF op[s].rc
       THEN Count(c, op[s].old, -1) /\ UNCHANGED freed
       ELSE Release(op[s].old) /\ UNCHANGED cpuVars
  /\ live' = IF op[s].new = Zero THEN live \ {s} ELSE live
  /\ op' = [op EXCEPT ![s] = Idle]
  /\ UNCHANGED <<kind, region, pte, writable, forks, tickVars>>

---------------------------------------------------------------------------
Init ==
  /\ kind \in Kinds
  /\ region = [s \in Spaces |-> "none"]
  /\ live = {}
  /\ pte = [s \in Spaces |-> None]
  /\ writable = {}
  /\ op = [s \in Spaces |-> Idle]
  /\ entries = [f \in Frames |-> Untracked]
  /\ freed = [f \in Frames |-> 1]
  /\ forks = 0
  /\ cache = [c \in Cpus |-> [i \in Slots |-> [phys |-> None, delta |-> 0]]]
  /\ review = [c \in Cpus |-> <<>>]
  /\ epoch = [c \in Cpus |-> 0]
  /\ gepoch = 0
  /\ tick = [c \in Cpus |-> [at |-> "idle", i |-> 0]]
  /\ drainList = <<>>

Next ==
  \/ \E s \in Spaces :
       \/ Spawn(s) \/ Fault(s) \/ FaultMap(s) \/ FaultFail(s)
       \/ CowUpgrade(s) \/ CowCopy(s) \/ CowRemap(s) \/ CowDrop(s) \/ CowInit(s)
       \/ Unmap(s) \/ Exit(s) \/ DecFlags(s)
       \/ \E c \in Cpus : CowInc(s, c) \/ dec_frame_ref(s, c)
       \/ \E t \in Spaces : Fork(s, t)
  \/ \E c \in Cpus : FlushSlot(c) \/ LoadEpoch(c) \/ StoreEpoch(c) \/ Review(c)
  \/ drain

Spec == Init /\ [][Next]_vars

---------------------------------------------------------------------------
Mapped(f) == Cardinality({s \in Spaces : pte[s] = f})

\* A handler that still has to count or to release f.
Held(f) == \E s \in Spaces : f \in {op[s].new, op[s].old}

(* A frame on the allocator's free lists is there once, nothing maps it, and *)
(* no handler or drain list is about to use or free it: what unshare, the    *)
(* review queue and drain free together is freed exactly once.               *)
FreeFramesUnused ==
  \A f \in Frames : freed[f] > 0 =>
    /\ freed[f] = 1
    /\ Mapped(f) = 0
    /\ ~Contains(drainList, f)
    /\ \A s \in Spaces : op[s].new # f

(* The deferred count never runs short: the table's count and the deltas of  *)
(* all CPUs' caches together cover the page-table entries of a REFCACHE      *)
(* frame, whatever was evicted, flushed or is still cached.                  *)
CountsCover ==
  \A f \in Frames : entries[f].flags = "REFCACHE" /\ ~Held(f) => Mapped(f) <= Total(f)

===========================================================================
