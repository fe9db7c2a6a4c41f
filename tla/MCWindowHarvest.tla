-------------------------- MODULE MCWindowHarvest --------------------------
EXTENDS WindowHarvest

CONSTANTS r1, r2

MCIds == {r1, r2}
MCContents == 0..MaxNow
OneId == {r1}
IdSymmetry == Permutations(MCIds)

NoBackfills == {}
LateBackfill == {[start |-> 0, end |-> 1]}
=============================================================================
