------------------------------- MODULE VmaMap -------------------------------
(***************************************************************************)
(* The list of memory areas of an address space (memory/vma.rs) and the    *)
(* lookup without a lock that page faults make in it (memory/cils.rs).     *)
(*                                                                         *)
(* Changes hold the address-space lock exclusively, so the interval locks  *)
(* of the list never meet a second writer, and what a change is to store   *)
(* is known when it starts; a lookup sees the stores one by one.  A list   *)
(* that was built by insert links its nodes at level 0 only: the levels    *)
(* above it, which swap_interval never links, are left out.  A node is not *)
(* reused while a lookup runs: that is the concern of module Rcu.          *)
(***************************************************************************)
EXTENDS Integers, FiniteSets, SequencesExt

CONSTANTS
  Pages,       \* 0 .. n: page numbers; an area is a range of them
  Attrs,       \* flags and kind of an area
  NoArea,
  Lookups,     \* the page faults that may run at once
  MaxChanges   \* bound: changes of the list

ASSUME VmaAssumption ==
  /\ Pages = 0 .. Cardinality(Pages) - 1 /\ NoArea \notin Attrs /\ MaxChanges \in Nat

VARIABLES
  area,       \* area[n]: the range [start, end) and the attributes of node n
  next,       \* next[n]: next[0] of node n; next[0] is the sentinel's
  stores,     \* the stores to next that the running change has still to do
  retired,    \* VmaMap::retired
  changes,
  RCU_EPOCH,  \* the grace period begun last
  look,       \* look[r]: the state of a lookup
  meant,      \* the attributes every page is meant to have
  goal        \* and the ones it gets from the running change

vmaVars == <<area, next, stores, retired, changes, RCU_EPOCH, look, meant, goal>>

Sentinel == 0
Null == -1
NoLook == [at |-> "none", addr |-> 0, node |-> Sentinel, epoch |-> 0, answer |-> NoArea, seen |-> {}]

VmaInit ==
  /\ area = <<>> /\ next = [n \in {Sentinel} |-> Null] /\ stores = <<>> /\ retired = {}
  /\ changes = 0 /\ RCU_EPOCH = 0
  /\ look = [r \in Lookups |-> NoLook]
  /\ meant = [a \in Pages |-> NoArea] /\ goal = meant

Area(s, e, k) == [start |-> s, end |-> e, attr |-> k]

\* The nodes a walk from n meets, n included.
From(links, n) ==
  LET walk[m \in DOMAIN links] == IF links[m] = Null THEN <<m>> ELSE <<m>> \o walk[links[m]]
  IN  walk[n]

-----------------------------------------------------------------------------
(* lock_interval *)

Overlaps(n, s, e) == n # Sentinel /\ area[n].start < e /\ area[n].end > s

\* An area that ends where the interval starts is not passed.
PredShort(s, e) ==
  LET all == From(next, Sentinel)
      before == {i \in DOMAIN all : all[i] = Sentinel \/ area[all[i]].end < s}
      hit == {i \in DOMAIN all : Overlaps(all[i], s, e)}
      p == CHOOSE i \in before : \A j \in before : j <= i
  IN  all[IF Cardinality(hit) <= 1 THEN p ELSE p + Cardinality(hit) - 1]

\* get_pred_succ_concurrent: the last node before [s, e) when at most one area overlaps
\* it; phase 2 of the search goes on to the last overlapping node but one.
Pred(s, e) ==
  LET all == From(next, Sentinel)
      before == {i \in DOMAIN all : all[i] = Sentinel \/ area[all[i]].end <= s}
      hit == {i \in DOMAIN all : Overlaps(all[i], s, e)}
      p == CHOOSE i \in before : \A j \in before : j <= i
  IN  all[IF Cardinality(hit) <= 1 THEN p ELSE p + Cardinality(hit) - 1]

\* IntervalGuard::locked: the predecessor, and the nodes after it that start before e.
lock_interval(s, e) ==
  SelectSeq(From(next, Pred(s, e)), LAMBDA n : n = Pred(s, e) \/ area[n].start < e)

Holds(nodes, a) == \E n \in nodes : a \in area[n].start .. area[n].end - 1

\* The node after the locked ones.
After(locked) == next[Last(locked)]

-----------------------------------------------------------------------------
\* The address-space lock is free.
Unlocked == stores = <<>> /\ changes < MaxChanges

\* A change begins: it takes the lock, makes its nodes and has its stores to do.
Change(made, links, todo, gone, effect) ==
  /\ changes' = changes + 1
  /\ area' = area \o made
  /\ next' = [n \in DOMAIN next \cup (Len(area) + 1 .. Len(area) + Len(made)) |->
                IF n \in DOMAIN next THEN next[n] ELSE links[n - Len(area)]]
  /\ stores' = todo /\ retired' = retired \cup gone
  /\ goal' = effect
  /\ UNCHANGED <<RCU_EPOCH, look, meant>>

CanMerge(a, b) == a.end = b.start /\ a.attr = b.attr

HasOverlap(locked, s, e) == \E i \in 2 .. Len(locked) : Overlaps(locked[i], s, e)

\* The merged node takes over both areas before it is linked to what follows.
MergeCuts(anchor, m, second, rest) == [link |-> Null, todo |-> << <<anchor, m>>, <<m, rest>> >>]

\* The merged node m goes in for the first of two adjacent areas, linked to the second
\* one; then the second is unlinked.
Merge(anchor, m, second, rest) == [link |-> second, todo |-> << <<anchor, m>>, <<m, rest>> >>]

\* VmaMap::insert, which merges the new area with its predecessor or else its successor.
InsertArea(s, e, k) ==
  LET locked == lock_interval(s, e)
      p == locked[1]
      q == After(locked)
      n == Len(area) + 1
      m == n + 1
      new == Area(s, e, k)
      anchor == CHOOSE x \in ToSet(From(next, Sentinel)) : next[x] = p
      withPred == p # Sentinel /\ CanMerge(area[p], new)
      withSucc == ~withPred /\ q # Null /\ CanMerge(new, area[q])
      inPred == Merge(anchor, m, n, q)
      inSucc == Merge(p, m, q, next[q])
      link == << <<p, n>> >>
      effect == [a \in Pages |-> IF a \in s .. e - 1 THEN k ELSE meant[a]]
  IN  /\ Unlocked /\ ~HasOverlap(locked, s, e)
      /\ CASE withPred -> Change(<<new, Area(area[p].start, e, k)>>, <<q, inPred.link>>,
                                 link \o inPred.todo, {p, n}, effect)
           [] withSucc -> Change(<<new, Area(s, area[q].end, k)>>, <<q, inSucc.link>>,
                                 link \o inSucc.todo, {n, q}, effect)
           [] OTHER -> Change(<<new>>, <<q>>, link, {}, effect)

\* VmaMap::remove: whole areas go, also where they reach beyond [s, e).
RemoveAreas(s, e) ==
  LET locked == lock_interval(s, e)
      gone == ToSet(Tail(locked))
  IN  /\ Unlocked /\ Len(locked) > 1
      /\ Change(<<>>, <<>>, << <<locked[1], After(locked)>> >>, gone,
                [a \in Pages |-> IF Holds(gone, a) THEN NoArea ELSE meant[a]])

Pieces(a, s, e, k) ==
     (IF a.start < s THEN <<Area(a.start, s, a.attr)>> ELSE <<>>)
  \o <<Area(IF a.start < s THEN s ELSE a.start, IF a.end > e THEN e ELSE a.end, k)>>
  \o (IF a.end > e THEN <<Area(e, a.end, a.attr)>> ELSE <<>>)

\* VmaMap::update_flags cuts the locked areas at s and e.
UpdateFlags(s, e, k) ==
  LET locked == lock_interval(s, e)
      made == FlattenSeq([i \in 1 .. Len(locked) - 1 |-> Pieces(area[locked[i + 1]], s, e, k)])
      gone == ToSet(Tail(locked))
      n == Len(area)
  IN  /\ Unlocked /\ Len(locked) > 1
      /\ Change(made, [i \in DOMAIN made |-> IF i < Len(made) THEN n + i + 1 ELSE After(locked)],
                << <<locked[1], n + 1>> >>, gone,
                [a \in Pages |-> IF Holds(gone, a) /\ a \in s .. e - 1 THEN k ELSE meant[a]])

\* The next store of the change.  After the last one the lock is released, and if nodes
\* were retired reclaim_retired starts a grace period.
Store ==
  /\ stores # <<>>
  /\ next' = [next EXCEPT ![stores[1][1]] = stores[1][2]]
  /\ stores' = Tail(stores)
  /\ IF Len(stores) = 1 /\ retired # {}
     THEN RCU_EPOCH' = RCU_EPOCH + 1 /\ retired' = {}
     ELSE UNCHANGED <<RCU_EPOCH, retired>>
  /\ look' = [r \in Lookups |->
                IF look[r].at = "walk"
                THEN [look[r] EXCEPT !.seen = @ \cup {goal[look[r].addr]}]
                ELSE look[r]]
  /\ meant' = goal
  /\ UNCHANGED <<area, changes, goal>>

-----------------------------------------------------------------------------
(* find_vma_cils *)

\* The lookup notes the epoch and stands on the sentinel.
StartLookup(r, addr) ==
  /\ look[r].at \in {"none", "done"}
  /\ look' = [look EXCEPT ![r] = [at |-> "walk", addr |-> addr, node |-> Sentinel, epoch |-> RCU_EPOCH,
                                  answer |-> NoArea, seen |-> {meant[addr]}]]
  /\ UNCHANGED <<area, next, stores, retired, changes, RCU_EPOCH, meant, goal>>

\* It goes on while the next area starts at or before the address, and answers with the
\* area it has come to if that holds the address and no grace period has started.
WalkOn(r) ==
  LET x == look[r].node
      y == next[x]
      found == x # Sentinel /\ area[x].end > look[r].addr /\ RCU_EPOCH = look[r].epoch
  IN  /\ look[r].at = "walk"
      /\ look' = [look EXCEPT ![r] =
           IF y # Null /\ area[y].start <= @.addr THEN [@ EXCEPT !.node = y]
           ELSE [@ EXCEPT !.at = "done", !.node = Sentinel,
                          !.answer = IF found THEN area[x].attr ELSE NoArea]]
      /\ UNCHANGED <<area, next, stores, retired, changes, RCU_EPOCH, meant, goal>>

-----------------------------------------------------------------------------
VmaNext ==
  \/ \E s, e \in Pages : s < e /\
       \/ RemoveAreas(s, e)
       \/ \E k \in Attrs : InsertArea(s, e, k) \/ UpdateFlags(s, e, k)
  \/ Store
  \/ \E r \in Lookups : WalkOn(r) \/ \E addr \in Pages : StartLookup(r, addr)

VmaSpec == VmaInit /\ [][VmaNext]_vmaVars

-----------------------------------------------------------------------------
Listed == Tail(From(next, Sentinel))

\* The attributes VmaMap::find answers for a page: those of the last area that starts at
\* or before it, if the page is in it.
MappedAt(addr) ==
  LET met == {i \in DOMAIN Listed : area[Listed[i]].start <= addr}
      last == area[Listed[CHOOSE i \in met : \A j \in met : j <= i]]
  IN  IF met = {} \/ last.end <= addr THEN NoArea ELSE last.attr

\* Whenever no change is under way the areas are in order and apart, and every page has
\* the attributes that the changes so far gave it: merging, cutting and removing areas
\* neither loses nor alters the pages around them.
ListKeepsPages == stores = <<>> =>
  /\ \A i \in 1 .. Len(Listed) - 1 : area[Listed[i]].end <= area[Listed[i + 1]].start
  /\ \A a \in Pages : MappedAt(a) = meant[a]

\* A lookup without a lock answers with what was mapped at some moment while it ran; a
\* change takes effect with its first store.  It may miss an area only if a grace
\* period started meanwhile; the page fault then looks again under the lock.
LookupsAnswer == \A r \in Lookups :
  look[r].at = "done" =>
    look[r].answer \in look[r].seen \/ (look[r].answer = NoArea /\ RCU_EPOCH # look[r].epoch)

\* "Returns an IntervalGuard holding the locked predecessor and all locked overlapping
\* nodes": no area that overlaps the interval is left out, so that a removal leaves none.
LocksAllOverlapping == stores = <<>> => \A s, e \in Pages : s < e =>
  \A n \in ToSet(Listed) : Overlaps(n, s, e) => n \in ToSet(Tail(lock_interval(s, e)))

=============================================================================
