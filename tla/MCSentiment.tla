---------------------------- MODULE MCSentiment ----------------------------
EXTENDS Sentiment, TLC

CONSTANTS cron, sched, blurb, rant, praise, search, reddit, all

Symmetry == Permutations(Workers)

MCPlatform == search :> reddit
=============================================================================
