------------------------- MODULE MCFrameOwnership -------------------------
(* An address space, its child and its grandchild share an image page.     *)
EXTENDS FrameOwnership

CONSTANTS c1, c2, f1, f2, s1, s2, s3

MCCpus == {c1, c2}
MCFrames == {f1, f2}
Family == {s1, s2, s3}
OneSlot == {0}
Collide == [f \in MCFrames |-> 0]
Live == [k \in Kinds |-> 3]
Forks == [k \in Kinds |-> 2]
Epochs == [k \in Kinds |-> 0]

Symmetric == Permutations(MCCpus) \union Permutations(MCFrames) \union Permutations(Family)
===========================================================================
