------------------------------ MODULE Betting ------------------------------
(***************************************************************************)
(* BetService: placing, settling and voiding bets.  A placement reserves   *)
(* the stake, inserts the bet row and, for an instant game, settles it; a  *)
(* settlement or a void reads the bet, credits the wallet and updates the  *)
(* bet row.  Every one of these is a statement or transaction of its own:  *)
(* nothing spans the wallet and the bets table, so calls interleave        *)
(* between them and a failed call leaves behind what it did.               *)
(*                                                                         *)
(* A wallet call is one step, which module Wallet justifies: it implements *)
(* the indivisible posts of module Ledger.  A Bet stands for one client    *)
(* idempotency key of POST /bets/place: the key is UNIQUE in bets, so at   *)
(* most one row ever has it.  A client that retries repeats its payload.   *)
(***************************************************************************)
EXTENDS WalletOps, FiniteSetsExt

CONSTANTS
  Users, Bets,
  Calls,           \* the requests in flight at once
  BettorOf,        \* BettorOf[b]: the user who places b
  Stake,           \* Stake[b]: its amount
  Funds,           \* Funds[u]: what u has available at the start
  Instant,         \* the bets placed in a session of a crash or slots game
  Outcome,         \* Outcome[b]: computeGameOutcome's payout for such a bet
  Settlements,     \* Settlements[b]: the payouts operators may settle b with
  Voidable         \* the bets operators may void

ASSUME BettingAssumption ==
  /\ Bets # {}
  /\ BettorOf \in [Bets -> Users]
  /\ Stake \in [Bets -> Nat]
  /\ Funds \in [Users -> Nat]
  /\ Instant \subseteq Bets /\ Voidable \subseteq Bets
  /\ Outcome \in [Bets -> Nat]
  /\ Settlements \in [Bets -> SUBSET Nat]

VARIABLES
  account,    \* account[u]: u's committed wallet_accounts row
  posted,     \* the committed wallet_transactions rows of bets
  bet,        \* bet[b]: b's row of the bets table
  pc, job, reply   \* of each call: next step, parameters, HTTP status

dbVars == <<account, posted, bet>>
callVars == <<pc, job, reply>>
vars == <<account, posted, bet, pc, job, reply>>

\* The wallet keys of a bet: reserve_<key>, settle_win_<id>, settle_loss_<id>
\* and void_<id>.
Kinds == {"reserve", "settle_win", "settle_loss", "void"}
Posting == [kind: Kinds, bet: Bets, amount: Nat]
Status == {"none", "accepted", "settled", "voided"}
Job == [op: {"none", "place", "settle", "void"}, bet: Bets, payout: Nat]
Steps ==
  {"idle", "find", "admit", "reserve", "create", "read", "credit", "mark",
   "balance", "done"}
HttpStatus == {0, 200, 202, 402, 403, 404, 409, 422, 500}

TypeOK ==
  /\ account \in [Users -> WalletAccount]
  /\ posted \subseteq Posting
  /\ bet \in [Bets -> [status: Status, payout: Nat]]
  /\ pc \in [Calls -> Steps]
  /\ job \in [Calls -> Job]
  /\ reply \in [Calls -> HttpStatus]

NoJob == [op |-> "none", bet |-> CHOOSE b \in Bets : TRUE, payout |-> 0]

Init ==
  /\ account = [u \in Users |-> [balance |-> Funds[u], reserved |-> 0]]
  /\ posted = {}
  /\ bet = [b \in Bets |-> [status |-> "none", payout |-> 0]]
  /\ pc = [c \in Calls |-> "idle"]
  /\ job = [c \in Calls |-> NoJob]
  /\ reply = [c \in Calls |-> 0]

IsPosted(kind, b) == \E p \in posted : p.kind = kind /\ p.bet = b

\* Mutant of RequestOf: a win credits the profit, the payout less the stake.
RequestPaysProfit(kind, b, payout) ==
  CASE kind = "reserve" ->
         [type |-> "bet_reserve", amount |-> Stake[b], releaseReserved |-> 0]
    [] kind = "settle_win" ->
         [type |-> "bet_win", amount |-> Release(payout, Stake[b]),
          releaseReserved |-> Stake[b]]
    [] kind = "settle_loss" ->
         [type |-> "bet_release", amount |-> 0, releaseReserved |-> Stake[b]]
    [] kind = "void" ->
         [type |-> "adjustment", amount |-> Stake[b], releaseReserved |-> Stake[b]]

\* The wallet request behind each key.
RequestOf(kind, b, payout) ==
  CASE kind = "reserve" ->
         [type |-> "bet_reserve", amount |-> Stake[b], releaseReserved |-> 0]
    [] kind = "settle_win" ->
         [type |-> "bet_win", amount |-> payout, releaseReserved |-> Stake[b]]
    [] kind = "settle_loss" ->
         [type |-> "bet_release", amount |-> 0, releaseReserved |-> Stake[b]]
    [] kind = "void" ->
         [type |-> "adjustment", amount |-> Stake[b], releaseReserved |-> Stake[b]]

\* Mutant of WalletCall: the key is not looked up.
WalletCallRepeats(kind, b, payout) ==
  LET r == RequestOf(kind, b, payout) IN
  /\ Covered(account[BettorOf[b]], r)
  /\ account' = [account EXCEPT ![BettorOf[b]] = NewAccount(@, r)]
  /\ posted' = posted \cup {[kind |-> kind, bet |-> b, amount |-> r.amount]}

\* A wallet call that succeeds: a key already in the ledger changes nothing
\* and returns the row posted before, whatever amount was asked this time.
WalletCall(kind, b, payout) ==
  LET r == RequestOf(kind, b, payout) IN
  \/ IsPosted(kind, b) /\ UNCHANGED <<account, posted>>
  \/ /\ ~IsPosted(kind, b)
     /\ Covered(account[BettorOf[b]], r)
     /\ account' = [account EXCEPT ![BettorOf[b]] = NewAccount(@, r)]
     /\ posted' = posted \cup {[kind |-> kind, bet |-> b, amount |-> r.amount]}

Goto(c, step) == pc' = [pc EXCEPT ![c] = step] /\ UNCHANGED <<job, reply>>

Start(c, step, j) ==
  /\ pc[c] = "idle"
  /\ pc' = [pc EXCEPT ![c] = step]
  /\ job' = [job EXCEPT ![c] = j]
  /\ UNCHANGED reply

\* The handler ends: its response is on its way to the client.
End(c, code) ==
  /\ pc' = [pc EXCEPT ![c] = "done"]
  /\ reply' = [reply EXCEPT ![c] = code]
  /\ UNCHANGED job

-----------------------------------------------------------------------------
\* Mutants of FindExisting (the key is not looked up in bets), ReadBet (the
\* row is updated without the wallet), Mark (no WHERE status = 'accepted')
\* and MarkConflict (a lost race reported as success).
FindNothing(c) ==
  /\ pc[c] = "find"
  /\ Goto(c, "admit")
  /\ UNCHANGED dbVars

ReadBetSkipsWallet(c) ==
  LET status == bet[job[c].bet].status IN
  /\ pc[c] = "read"
  /\ CASE status = "accepted" -> Goto(c, "mark")
       [] status = "none"     -> End(c, 404)
       [] OTHER               -> End(c, 403)
  /\ UNCHANGED dbVars

MarkAnyStatus(c) ==
  LET j == job[c] IN
  /\ pc[c] = "mark"
  /\ bet' = [bet EXCEPT ![j.bet] =
       [status  |-> IF j.op = "void" THEN "voided" ELSE "settled",
        payout  |-> j.payout]]
  /\ End(c, 200)
  /\ UNCHANGED <<account, posted>>

MarkConflictSucceeds(c) ==
  /\ pc[c] = "mark"
  /\ bet[job[c].bet].status # "accepted"
  /\ End(c, 200)
  /\ UNCHANGED dbVars

-----------------------------------------------------------------------------
\* placeBet, a first attempt or a retry.
Place(c, b) ==
  /\ Start(c, "find", [op |-> "place", bet |-> b, payout |-> 0])
  /\ UNCHANGED dbVars

\* Step 1.  An existing bet is returned as it stands: nothing that a failed
\* attempt left undone is resumed.
FindExisting(c) ==
  /\ pc[c] = "find"
  /\ Goto(c, IF bet[job[c].bet].status = "none" THEN "admit" ELSE "balance")
  /\ UNCHANGED dbVars

\* Steps 2 to 5: account status, KYC, limit, game session, risk score.  All
\* of it is state that others change, so any attempt may pass or not.
Admit(c) ==
  /\ pc[c] = "admit"
  /\ Goto(c, "reserve")
  /\ UNCHANGED dbVars

Reject(c) ==
  /\ pc[c] = "admit"
  /\ \E code \in {403, 404, 422} : End(c, code)
  /\ UNCHANGED dbVars

\* Step 6, with the client's key in place of the bet id, which does not
\* exist yet.
Reserve(c) ==
  /\ pc[c] = "reserve"
  /\ WalletCall("reserve", job[c].bet, 0)
  /\ Goto(c, "create")
  /\ UNCHANGED bet

InsufficientFunds(c) ==
  LET b == job[c].bet IN
  /\ pc[c] = "reserve"
  /\ ~IsPosted("reserve", b)
  /\ ~Covered(account[BettorOf[b]], RequestOf("reserve", b, 0))
  /\ End(c, 402)
  /\ UNCHANGED dbVars

\* Steps 7 and 8: INSERT INTO bets; an instant game goes on to settle.
CreateBet(c) ==
  LET b == job[c].bet IN
  /\ pc[c] = "create"
  /\ bet[b].status = "none"
  /\ bet' = [bet EXCEPT ![b].status = "accepted"]
  /\ IF b \in Instant
       THEN /\ pc' = [pc EXCEPT ![c] = "read"]
            /\ job' = [job EXCEPT ![c].payout = Outcome[b]]
            /\ UNCHANGED reply
       ELSE Goto(c, "balance")
  /\ UNCHANGED <<account, posted>>

\* 23505 on bets.idempotency_key: another attempt created the bet.
CreateConflict(c) ==
  /\ pc[c] = "create"
  /\ bet[job[c].bet].status # "none"
  /\ End(c, 409)
  /\ UNCHANGED dbVars

\* The wallet balance is read for the answer, and the read may Fail.
ReadBalance(c) ==
  /\ pc[c] = "balance"
  /\ End(c, 202)
  /\ UNCHANGED dbVars

-----------------------------------------------------------------------------
\* POST /bets/:betId/settle and /void, by an operator or the game engine.
Settle(c, b, payout) ==
  /\ payout \in Settlements[b]
  /\ Start(c, "read", [op |-> "settle", bet |-> b, payout |-> payout])
  /\ UNCHANGED dbVars

Void(c, b) ==
  /\ b \in Voidable
  /\ Start(c, "read", [op |-> "void", bet |-> b, payout |-> 0])
  /\ UNCHANGED dbVars

\* findById and the status checks: no lock, no transaction.
ReadBet(c) ==
  LET status == bet[job[c].bet].status IN
  /\ pc[c] = "read"
  /\ CASE status = "accepted" -> Goto(c, "credit")
       [] status = "none"     -> End(c, 404)
       [] status = "voided"   -> End(c, 403)
       [] status = "settled"  -> End(c, IF job[c].op = "void" THEN 403 ELSE 409)
  /\ UNCHANGED dbVars

CreditKind(j) ==
  IF j.op = "void" THEN "void"
  ELSE IF j.payout > 0 THEN "settle_win" ELSE "settle_loss"

\* settleBetWin, settleBetLoss or voidBetReserve.
Credit(c) ==
  /\ pc[c] = "credit"
  /\ WalletCall(CreditKind(job[c]), job[c].bet, job[c].payout)
  /\ Goto(c, "mark")
  /\ UNCHANGED bet

\* UPDATE bets ... WHERE status = 'accepted'.
Mark(c) ==
  LET j == job[c] IN
  /\ pc[c] = "mark"
  /\ bet[j.bet].status = "accepted"
  /\ bet' = [bet EXCEPT ![j.bet] =
       [status  |-> IF j.op = "void" THEN "voided" ELSE "settled",
        payout  |-> j.payout]]
  /\ IF j.op = "place" THEN Goto(c, "balance") ELSE End(c, 200)
  /\ UNCHANGED <<account, posted>>

\* The UPDATE matched no row: a plain Error, after the wallet was credited.
MarkConflict(c) ==
  /\ pc[c] = "mark"
  /\ bet[job[c].bet].status # "accepted"
  /\ End(c, 500)
  /\ UNCHANGED dbVars

-----------------------------------------------------------------------------
\* An error or a crash between any two statements; a wallet call that failed
\* without or after its commit; an answer that never arrives.
Fail(c) ==
  /\ pc[c] \notin {"idle", "done"}
  /\ End(c, 500)
  /\ UNCHANGED dbVars

\* The client has its answer; the request's locals are gone.
Deliver(c) ==
  /\ pc[c] = "done"
  /\ pc' = [pc EXCEPT ![c] = "idle"]
  /\ job' = [job EXCEPT ![c] = NoJob]
  /\ reply' = [reply EXCEPT ![c] = 0]
  /\ UNCHANGED dbVars

Step(c) ==
  \/ FindExisting(c) \/ Admit(c) \/ Reject(c)
  \/ Reserve(c) \/ InsufficientFunds(c)
  \/ CreateBet(c) \/ CreateConflict(c) \/ ReadBalance(c)
  \/ ReadBet(c) \/ Credit(c) \/ Mark(c) \/ MarkConflict(c)

Operator(c) ==
  \E b \in Bets : Void(c, b) \/ \E p \in Settlements[b] : Settle(c, b, p)

Next ==
  \E c \in Calls :
    \/ \E b \in Bets : Place(c, b)
    \/ Operator(c) \/ Step(c) \/ Fail(c) \/ Deliver(c)

Spec == Init /\ [][Next]_vars

-----------------------------------------------------------------------------
Resolutions == {"settle_win", "settle_loss", "void"}

\* What may be asked of a bet once it is placed.  Operators who do not
\* contradict each other ask for one thing, as often as they like.
Asked(b) ==
  {[kind |-> IF p > 0 THEN "settle_win" ELSE "settle_loss", payout |-> p] :
     p \in Settlements[b] \cup (IF b \in Instant THEN {Outcome[b]} ELSE {})}
  \cup (IF b \in Voidable THEN {[kind |-> "void", payout |-> 0]} ELSE {})

Undisputed(b) == \A x, y \in Asked(b) : x = y

BetsOf(u) == {b \in Bets : BettorOf[b] = u}

Resolved(b) == \E kind \in Resolutions : IsPosted(kind, b)

\* What a user has reserved is the stakes of the bets that are reserved and
\* not resolved, at every moment of every interleaving of retries, failed
\* attempts and repeated settlements, as long as nobody asks for two
\* different resolutions of one of the user's bets.
ReservedIsOutstanding ==
  \A u \in Users : (\A b \in BetsOf(u) : Undisputed(b)) =>
    account[u].reserved =
      MapThenSumSet(LAMBDA b : Stake[b],
                    {b \in BetsOf(u) : IsPosted("reserve", b) /\ ~Resolved(b)})

\* The bets table never runs ahead of the money: a row exists only when its
\* stake was reserved, and says settled or voided only when the wallet has
\* the movement that says so, even for bets two operators fight over.
MoneyBehindStatus ==
  \A b \in Bets :
    /\ bet[b].status # "none" => IsPosted("reserve", b)
    /\ bet[b].status = "settled" =>
         IsPosted(IF bet[b].payout > 0 THEN "settle_win" ELSE "settle_loss", b)
    /\ bet[b].status = "voided" => IsPosted("void", b)

\* An undisputed bet that says it was settled for a payout was paid exactly
\* that, once, and nothing else was done with its stake.
PaidAsRecorded ==
  \A b \in Bets : Undisputed(b) /\ bet[b].status = "settled" =>
    {<<p.kind, p.amount>> : p \in {q \in posted : q.bet = b /\ q.kind # "reserve"}}
      = {IF bet[b].payout > 0 THEN <<"settle_win", bet[b].payout>>
                              ELSE <<"settle_loss", 0>>}

\* What a caller is told has happened is in the database when the answer
\* leaves and stays there: a placed bet is a row with its stake reserved,
\* and the operator who got a 200 is the one whose resolution the row
\* carries, whoever else was settling or voiding it at the time.
SuccessIsDurable ==
  \A c \in Calls :
    LET row == bet[job[c].bet] IN
    /\ reply[c] = 202 => row.status # "none" /\ IsPosted("reserve", job[c].bet)
    /\ reply[c] = 200 =>
         row = [status |-> IF job[c].op = "void" THEN "voided" ELSE "settled",
                payout |-> job[c].payout]

\* A settled or voided bet never changes again.
FinalStatus ==
  [][\A b \in Bets : bet[b].status \in {"settled", "voided"} => bet'[b] = bet[b]]_vars

\* "concurrent double-executions are impossible" (README of the platform
\* API): a bet's stake is won, lost or given back, and only one of these.
OneResolution ==
  \A b \in Bets : Cardinality({p \in posted : p.bet = b /\ p.kind \in Resolutions}) <= 1
=============================================================================
