------------------------ MODULE MCUpdateCoordinator ------------------------
(* Instances of UpdateCoordinator for TLC. *)
EXTENDS UpdateCoordinator, TLC

CONSTANTS w1, w2

MCWorker  == {w1, w2}
OneSource == {1}
TwoSources == {1, 2}
FirstOnly == {1}
SecondOnly == {2}
NoSource == {}

Symmetry == Permutations(Worker)
=============================================================================
