------------------------------ MODULE MCService ------------------------------
EXTENDS SystemService
=============================================================================
