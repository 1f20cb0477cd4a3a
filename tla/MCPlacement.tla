---------------------------- MODULE MCPlacement -----------------------------
EXTENDS Placement

CONSTANTS crash, c1, e1, e2
=============================================================================
