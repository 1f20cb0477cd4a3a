CONSTANTS
  ann = ann
  bob = bob
  crash = crash
  table = table
  fight = fight
  c1 = c1
  c2 = c2
  Users = {ann, bob}
  Bets = {crash, table, fight}
  Calls = {c1, c2}
  BettorOf <- MCBettorOf
  Stake <- MCStake
  Funds <- MCFunds
  Instant = {crash}
  Outcome <- MCOutcome
  Settlements <- MCSettlements
  Voidable = {fight}
SPECIFICATION Spec
INVARIANTS
  TypeOK
  ReservedIsOutstanding
  MoneyBehindStatus
  PaidAsRecorded
  SuccessIsDurable
PROPERTIES
  FinalStatus
