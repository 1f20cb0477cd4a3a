----------------------------- MODULE MCGateway -----------------------------
(***************************************************************************)
(* One user, two calls in flight and two bets: one on an instant game,     *)
(* whose client waits for its answers, and one whose client retries while  *)
(* an attempt is running.  The funds cover one of them at a time.          *)
(***************************************************************************)
EXTENDS Gateway, TLC

CONSTANTS ann, waits, hasty, c1, c2

MCBettorOf == waits :> ann @@ hasty :> ann
MCStake == waits :> 2 @@ hasty :> 1
MCFunds == ann :> 2
MCOutcome == waits :> 3 @@ hasty :> 0
MCSettlements == waits :> {} @@ hasty :> {0}
=============================================================================
