----------------------------- MODULE MCRollup ------------------------------
EXTENDS Rollup

CONSTANTS sched, rant, brand

\* The demo posts are Reddit's.
Reddit == [brand |-> brand, platform |-> "reddit"]
All == [brand |-> brand, platform |-> "ALL"]

MCScopes == <<Reddit, All>>
MCCovered == {Reddit, All}

\* A quiet hour, and a busy one most of whose posts are negative.
MCDraws == {[relevant |-> 1, negative |-> 0], [relevant |-> 4, negative |-> 3]}
=============================================================================
