CONSTANTS
  ann = ann
  waits = waits
  hasty = hasty
  c1 = c1
  c2 = c2
  Users = {ann}
  Bets = {waits, hasty}
  Calls = {c1, c2}
  BettorOf <- MCBettorOf
  Stake <- MCStake
  Funds <- MCFunds
  Instant = {waits}
  Outcome <- MCOutcome
  Settlements <- MCSettlements
  Voidable = {}
  Patient = {waits}
SPECIFICATION GatewaySpec
INVARIANT
  StoredAnswerHolds
