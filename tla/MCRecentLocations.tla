------------------------- MODULE MCRecentLocations -------------------------
EXTENDS RecentLocations, TLC
MCSymmetry == Permutations(Code) \cup Permutations(Task)
=============================================================================
