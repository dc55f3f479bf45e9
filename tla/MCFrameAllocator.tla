-------------------------- MODULE MCFrameAllocator --------------------------
(* Small memory maps for FrameAllocator.                                   *)
EXTENDS FrameAllocator, TLC

(* Two usable regions with a hole between them.                            *)
TwoRegions == (1 .. 5) \cup (7 .. 9)

Symmetry == Permutations(Process)
=============================================================================
