------------------------------ MODULE MCVacuum ------------------------------
(* Small instances of VacuumManager for TLC. *)
EXTENDS VacuumManager, TLC

CONSTANTS k1, d1, s1

OneBlob == {k1}
TwoBlobs == {k1, d1}
NoBlob == {}
OneDir == {{s1}}
NoDir == {}

Symmetric == Permutations(Caller) \cup Permutations(Controller) \cup Permutations(Worker)
=============================================================================
