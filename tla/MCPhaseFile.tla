---------------------------- MODULE MCPhaseFile ----------------------------
EXTENDS PhaseFile
=============================================================================
