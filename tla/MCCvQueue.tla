---------------------------- MODULE MCCvQueue ----------------------------
EXTENDS CvQueue
=============================================================================
