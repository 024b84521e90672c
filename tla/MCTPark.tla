---------------------------- MODULE MCTPark ----------------------------
EXTENDS TPark
=============================================================================
