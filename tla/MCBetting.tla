----------------------------- MODULE MCBetting -----------------------------
(***************************************************************************)
(* Two users and two calls in flight.  Everything ann bets is undisputed:  *)
(* an instant game that pays and one that does not, which her funds cover  *)
(* one of at a time until one is won.  Bob's bet is settled for different  *)
(* payouts and voided by operators who do not know of each other.          *)
(***************************************************************************)
EXTENDS Betting, TLC

CONSTANTS ann, bob, crash, table, fight, c1, c2

MCBettorOf == crash :> ann @@ table :> ann @@ fight :> bob
MCStake == crash :> 2 @@ table :> 1 @@ fight :> 2
MCFunds == ann :> 2 @@ bob :> 3
MCOutcome == crash :> 4 @@ table :> 0 @@ fight :> 0
MCSettlements == crash :> {4} @@ table :> {0} @@ fight :> {0, 3}
=============================================================================
