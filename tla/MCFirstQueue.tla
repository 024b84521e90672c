---------------------------- MODULE MCFirstQueue ----------------------------
EXTENDS FirstQueue
=============================================================================
