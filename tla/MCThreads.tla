---------------------------- MODULE MCThreads ----------------------------
EXTENDS Threads
=============================================================================
