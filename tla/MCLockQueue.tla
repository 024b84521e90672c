---------------------------- MODULE MCLockQueue ----------------------------
EXTENDS LockQueue
=============================================================================
