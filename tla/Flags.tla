------------------------------- MODULE Flags --------------------------------
(***************************************************************************)
(* The feature flag risk_eval_enabled and the cache BetService reads it    *)
(* through.  Every ConfigService has a cache of its own: a PUT clears the  *)
(* one of the config routes, which only their GETs read and which is left  *)
(* out here, so BetService learns of a change when its entry expires.      *)
(***************************************************************************)
EXTENDS Integers

CONSTANTS Ttl   \* CACHE_TTL_MS, in ticks

ASSUME FlagsAssumption == Ttl \in Nat \ {0}

VARIABLES
  flag,     \* the feature_flags row: enabled, or not
  cache     \* the cached value and the time until it expires

flagVars == <<flag, cache>>

NoEntry == [value |-> FALSE, left |-> 0]

FlagTypeOK ==
  /\ flag \in BOOLEAN
  /\ cache \in [value: BOOLEAN, left: 0..Ttl]

FlagInit ==
  /\ flag \in BOOLEAN
  /\ cache = NoEntry

\* Mutant of Hit: an entry never expires.
HitForEver == cache # NoEntry

Hit == cache.left > 0

Entry(v) == [value |-> v, left |-> Ttl]

\* upsertFlag, called by the config routes on their own ConfigService.
Put ==
  /\ flag' \in BOOLEAN
  /\ UNCHANGED cache

Wane == cache' = [cache EXCEPT !.left = IF @ = 0 THEN 0 ELSE @ - 1]
=============================================================================
