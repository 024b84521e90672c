---------------------------- MODULE MCRacyQueue ----------------------------
EXTENDS RacyQueue
=============================================================================
