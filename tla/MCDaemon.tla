------------------------------ MODULE MCDaemon ------------------------------
EXTENDS Daemon, TLC
MCSymmetry == Permutations(ReqId)
=============================================================================
