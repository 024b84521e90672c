---------------------------- MODULE MCSharedRing ----------------------------
EXTENDS SharedRing
=============================================================================
