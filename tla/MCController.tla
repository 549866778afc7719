---------------------------- MODULE MCController ----------------------------
EXTENDS Controller
=============================================================================
