------------------------------ MODULE MCAccount ------------------------------
EXTENDS Account, TLC
MCSymmetry == Permutations(Call) \cup Permutations(Device) \cup Permutations(Token)
=============================================================================
