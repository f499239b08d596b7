--------------------------- MODULE MCCuckooFilter ---------------------------
(* Instances of CuckooFilter for TLC. *)
EXTENDS CuckooFilter, TLC

CONSTANTS x1, x2, x3

\* Two fingerprints, whose alternate buckets differ in one bit and in two.
MCHashes == [first : 0 .. 3, fp : {1}, mask : {1}] \cup [first : 0 .. 3, fp : {2}, mask : {3}]

ItemSymmetry == Permutations(Items)
=============================================================================
