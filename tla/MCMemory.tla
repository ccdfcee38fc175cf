----------------------------- MODULE MCMemory -----------------------------
(***************************************************************************)
(* The frames of a process's pages and the areas of its address space.  A  *)
(* behaviour is about the one that part names; the other stands still.     *)
(***************************************************************************)
EXTENDS FrameOwnership, VmaMap

CONSTANTS c1, c2, f1, f2, s1, s2

VARIABLE part

MCCpus == {c1, c2}
MCFrames == {f1, f2}
Pair == {s1, s2}
OneSlot == {0}
Collide == [f \in MCFrames |-> 0]
Live == [k \in Kinds |-> IF k = "File" THEN 1 ELSE 2]
Forks == [k \in Kinds |-> IF k = "File" THEN 0 ELSE 1]
Epochs == [k \in Kinds |-> IF k = "File" THEN 4 ELSE 3]
MCPages == 0..3

Symmetric == Permutations(MCCpus) \union Permutations(MCFrames) \union Permutations(Pair)

MCInit ==
  /\ part \in {"frames", "areas"} /\ Init /\ VmaInit
  /\ part = "areas" => kind = "File"

MCNext ==
  /\ UNCHANGED part
  /\ \/ part = "frames" /\ Next /\ UNCHANGED vmaVars
     \/ part = "areas" /\ VmaNext /\ UNCHANGED vars

MCSpec == MCInit /\ [][MCNext]_<<part, vars, vmaVars>>
===========================================================================
