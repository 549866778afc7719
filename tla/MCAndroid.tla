------------------------------ MODULE MCAndroid ------------------------------
EXTENDS Android, TLC

MCSymmetry == Permutations(ReqId)
=============================================================================
