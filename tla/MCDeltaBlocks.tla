---------------------------- MODULE MCDeltaBlocks ----------------------------
EXTENDS DeltaBlocks
==============================================================================
