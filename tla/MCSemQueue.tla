---------------------------- MODULE MCSemQueue ----------------------------
EXTENDS SemQueue
=============================================================================
