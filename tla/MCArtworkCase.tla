--------------------------- MODULE MCArtworkCase ---------------------------
(* Instances of ArtworkCase small enough for TLC. *)
EXTENDS ArtworkCaseQueue, TLC

CONSTANTS w1, w2, c1, c2, k1, k2

Good   == [ppi |-> "ok",  color |-> "WARNING",      extendable |-> TRUE]
LowRes == [ppi |-> "low", color |-> "WARNING",      extendable |-> TRUE]
Busy   == [ppi |-> "ok",  color |-> "PASS",         extendable |-> FALSE]
OddMode== [ppi |-> "ok",  color |-> "NEEDS_REVIEW", extendable |-> FALSE]

GoodOnly     == {Good}
GoodAndBusy  == {Good, Busy}
GoodLowOdd   == {Good, LowRes, OddMode}

WorkerSymmetry == Permutations(Worker)
=============================================================================
