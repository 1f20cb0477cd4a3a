--------------------------- MODULE BettingProofs ---------------------------
(***************************************************************************)
(* For every set of users, bets, calls and operators' requests: the bets   *)
(* table never runs ahead of the wallet, a success a caller was told of    *)
(* stays true, a resolved bet never changes, a user's reserve is the       *)
(* stakes of the open bets, and a balance the sum of what was posted.      *)
(***************************************************************************)
EXTENDS Betting, FiniteSetTheorems, TLAPS

\* What a call knows from what it has done, and others cannot take from it.
CallFacts(c) ==
  /\ pc[c] # "done" => reply[c] = 0
  /\ pc[c] \in {"find", "admit", "reserve", "create"} => job[c].op = "place"
  /\ pc[c] = "create" => IsPosted("reserve", job[c].bet)
  /\ pc[c] \in {"credit", "mark", "balance"} => bet[job[c].bet].status # "none"
  /\ pc[c] = "mark" => IsPosted(CreditKind(job[c]), job[c].bet)

Told(c) ==
  LET row == bet[job[c].bet] IN
  /\ reply[c] = 202 => row.status # "none" /\ IsPosted("reserve", job[c].bet)
  /\ reply[c] = 200 =>
       row = [status |-> IF job[c].op = "void" THEN "voided" ELSE "settled",
              payout |-> job[c].payout]

IInv ==
  /\ TypeOK
  /\ MoneyBehindStatus
  /\ \A c \in Calls : CallFacts(c) /\ Told(c)

\* The direction of every step: movements are only added, a row that exists
\* stays, and a resolved one stays as it is.
Forward ==
  /\ posted \subseteq posted'
  /\ \A b \in Bets :
       /\ bet[b].status # "none" => bet'[b].status # "none"
       /\ bet[b].status \in {"settled", "voided"} => bet'[b] = bet[b]

-----------------------------------------------------------------------------
\* The initial state, and what it is to be a call without a job.
LEMMA NoJobType == NoJob \in Job /\ NoJob.op = "none"
  BY BettingAssumption DEF NoJob, Job

\* Initially nothing is posted, no bet exists and no call has an answer.
LEMMA InitInv == Init => IInv
<1> SUFFICES ASSUME Init PROVE IInv
  OBVIOUS
<1>1. TypeOK
  BY BettingAssumption, NoJobType
  DEF Init, TypeOK, WalletAccount, Posting, Status, Steps, HttpStatus
<1>2. MoneyBehindStatus
  BY DEF Init, MoneyBehindStatus
<1>3. \A c \in Calls : CallFacts(c) /\ Told(c)
  BY DEF Init, CallFacts, Told
<1> QED
  BY <1>1, <1>2, <1>3 DEF IInv

\* The request behind every wallet key of a bet is one the wallet serves.
LEMMA RequestType ==
  ASSUME NEW kind \in Kinds, NEW b \in Bets, NEW p \in Nat
  PROVE  /\ RequestOf(kind, b, p).type \in TxType
         /\ RequestOf(kind, b, p).amount \in Nat
         /\ RequestOf(kind, b, p).releaseReserved \in Nat
  BY BettingAssumption
  DEF Kinds, RequestOf, TxType, DebitTypes, CreditTypes

\* A wallet call keeps balances and reserves natural numbers and only adds
\* to what is posted; afterwards its key is posted.
LEMMA WalletCallEffect ==
  ASSUME TypeOK, NEW kind \in Kinds, NEW b \in Bets, NEW p \in Nat,
         WalletCall(kind, b, p)
  PROVE  /\ account' \in [Users -> WalletAccount]
         /\ posted' \subseteq Posting
         /\ posted \subseteq posted'
         /\ IsPosted(kind, b)'
<1> DEFINE r == RequestOf(kind, b, p)
           u == BettorOf[b]
<1>1. CASE IsPosted(kind, b) /\ UNCHANGED <<account, posted>>
  BY <1>1 DEF TypeOK, IsPosted
<1>2. CASE /\ Covered(account[u], r)
           /\ account' = [account EXCEPT ![u] = NewAccount(@, r)]
           /\ posted' = posted \cup {[kind |-> kind, bet |-> b, amount |-> r.amount]}
  <2>1. u \in Users /\ account[u] \in WalletAccount
    BY BettingAssumption DEF TypeOK
  <2>2. /\ account[u].balance \in Nat /\ account[u].reserved \in Nat
        /\ r.amount \in Nat /\ r.releaseReserved \in Nat /\ r.type \in TxType
    BY <2>1, RequestType DEF WalletAccount
  <2> HIDE DEF r, u
  <2>3. account[u].balance + SignedAmount(r) \in Nat
    BY <1>2, <2>2 DEF SignedAmount, Covered
  <2>4. NewReserved(account[u], r) \in Nat
    BY <2>2 DEF NewReserved, Release
  <2>5. NewAccount(account[u], r) \in WalletAccount
    BY <2>3, <2>4 DEF NewAccount, WalletAccount
  <2>6. account' \in [Users -> WalletAccount]
    BY <1>2, <2>1, <2>5 DEF TypeOK
  <2>7. [kind |-> kind, bet |-> b, amount |-> r.amount] \in Posting
    BY <2>2 DEF Posting
  <2>8. posted' \subseteq Posting /\ posted \subseteq posted' /\ IsPosted(kind, b)'
    BY <1>2, <2>7 DEF TypeOK, IsPosted
  <2> QED
    BY <2>6, <2>8
<1> QED
  BY <1>1, <1>2 DEF WalletCall

\* How the status checks of a settlement or a void turn out.
LEMMA ReadBetEnds ==
  ASSUME TypeOK, NEW c \in Calls, ReadBet(c)
  PROVE  /\ pc[c] = "read" /\ UNCHANGED dbVars
         /\ \/ bet[job[c].bet].status = "accepted" /\ Goto(c, "credit")
            \/ /\ bet[job[c].bet].status # "accepted"
               /\ \E code \in {403, 404, 409} : End(c, code)
<1>1. bet[job[c].bet].status \in {"none", "accepted", "settled", "voided"}
  BY DEF TypeOK, Job, Status
<1>2. pc[c] = "read" /\ UNCHANGED dbVars
  BY DEF ReadBet
<1>3. CASE bet[job[c].bet].status = "accepted"
  BY <1>2, <1>3 DEF ReadBet
<1>4. CASE bet[job[c].bet].status = "none"
  <2>1. End(c, 404)
    BY <1>4 DEF ReadBet
  <2> QED
    BY <1>2, <1>4, <2>1
<1>5. CASE bet[job[c].bet].status = "voided"
  <2>1. End(c, 403)
    BY <1>5 DEF ReadBet
  <2> QED
    BY <1>2, <1>5, <2>1
<1>6. CASE bet[job[c].bet].status = "settled"
  <2>1. End(c, IF job[c].op = "void" THEN 403 ELSE 409)
    BY <1>6 DEF ReadBet
  <2>2. (IF job[c].op = "void" THEN 403 ELSE 409) \in {403, 404, 409}
    OBVIOUS
  <2> QED
    BY <1>2, <1>6, <2>1, <2>2
<1> QED
  BY <1>1, <1>3, <1>4, <1>5, <1>6

\* A posted movement stays posted.
LEMMA PostedStays ==
  ASSUME posted \subseteq posted', NEW kind, NEW b, IsPosted(kind, b)
  PROVE  IsPosted(kind, b)'
  BY DEF IsPosted

-----------------------------------------------------------------------------
\* Statements that only move their own call leave the rest of IInv alone.
LEMMA LocalStep ==
  ASSUME IInv, UNCHANGED dbVars, NEW c \in Calls,
         pc' \in [Calls -> Steps], job' \in [Calls -> Job],
         reply' \in [Calls -> HttpStatus],
         \A d \in Calls \ {c} :
           pc'[d] = pc[d] /\ job'[d] = job[d] /\ reply'[d] = reply[d],
         CallFacts(c)', Told(c)'
  PROVE  IInv' /\ Forward
<1>1. TypeOK'
  BY DEF IInv, TypeOK, dbVars
<1>2. MoneyBehindStatus'
  BY DEF IInv, MoneyBehindStatus, IsPosted, dbVars
<1>3. ASSUME NEW d \in Calls \ {c} PROVE CallFacts(d)' /\ Told(d)'
  BY <1>3 DEF IInv, CallFacts, Told, IsPosted, CreditKind, dbVars
<1> QED
  BY <1>1, <1>2, <1>3 DEF IInv, Forward, dbVars

\* A step of the bets table or of the wallet keeps what the other calls
\* know, because it only goes forward.
LEMMA OtherCall ==
  ASSUME IInv, Forward, NEW d \in Calls,
         pc'[d] = pc[d], job'[d] = job[d], reply'[d] = reply[d]
  PROVE  CallFacts(d)' /\ Told(d)'
<1>1. job[d].bet \in Bets
  BY DEF IInv, TypeOK, Job
<1>2. CallFacts(d) /\ Told(d)
  BY DEF IInv
<1>3. CallFacts(d)'
  BY <1>1, <1>2, PostedStays DEF CallFacts, Forward, CreditKind
<1>4. Told(d)'
  BY <1>1, <1>2, PostedStays DEF Told, Forward
<1> QED
  BY <1>3, <1>4

-----------------------------------------------------------------------------
\* Receiving a request, for a placement, a settlement or a void.
LEMMA StartInv ==
  ASSUME IInv, NEW c \in Calls, NEW step \in {"find", "read"}, NEW j \in Job,
         Start(c, step, j), UNCHANGED dbVars,
         step = "find" => j.op = "place"
  PROVE  IInv' /\ Forward
<1>1. /\ pc' \in [Calls -> Steps] /\ job' \in [Calls -> Job]
      /\ reply' \in [Calls -> HttpStatus]
  BY DEF IInv, TypeOK, Start, Steps
<1>2. \A d \in Calls \ {c} :
        pc'[d] = pc[d] /\ job'[d] = job[d] /\ reply'[d] = reply[d]
  BY DEF IInv, TypeOK, Start
<1>3. pc'[c] = step /\ reply'[c] = 0 /\ job'[c] = j
  BY DEF IInv, TypeOK, Start, CallFacts
<1>4. CallFacts(c)' /\ Told(c)'
  BY <1>3 DEF CallFacts, Told
<1> QED
  BY <1>1, <1>2, <1>4, LocalStep

\* Moving to a statement whose premise the call has established.
LEMMA GotoInv ==
  ASSUME IInv, UNCHANGED dbVars, NEW c \in Calls,
         pc[c] # "done",
         NEW step \in {"admit", "reserve", "read", "credit", "balance"},
         Goto(c, step),
         step \in {"credit", "balance"} => bet[job[c].bet].status # "none",
         step \in {"admit", "reserve"} => job[c].op = "place"
  PROVE  IInv' /\ Forward
<1>1. /\ pc' \in [Calls -> Steps] /\ job' \in [Calls -> Job]
      /\ reply' \in [Calls -> HttpStatus]
  BY DEF IInv, TypeOK, Goto, Steps
<1>2. \A d \in Calls \ {c} :
        pc'[d] = pc[d] /\ job'[d] = job[d] /\ reply'[d] = reply[d]
  BY DEF IInv, TypeOK, Goto
<1>3. pc'[c] = step /\ job'[c] = job[c] /\ reply'[c] = 0
  BY DEF IInv, TypeOK, Goto, CallFacts
<1>4. CallFacts(c)' /\ Told(c)'
  BY <1>3 DEF CallFacts, Told, dbVars
<1> QED
  BY <1>1, <1>2, <1>4, LocalStep

\* Every end of a handler that claims no success needs no premise; a 202
\* needs the row.
LEMMA EndInv ==
  ASSUME IInv, UNCHANGED dbVars, NEW c \in Calls,
         NEW code \in HttpStatus \ {200}, End(c, code),
         code = 202 => bet[job[c].bet].status # "none"
  PROVE  IInv' /\ Forward
<1>1. /\ pc' \in [Calls -> Steps] /\ job' \in [Calls -> Job]
      /\ reply' \in [Calls -> HttpStatus]
  BY DEF IInv, TypeOK, End, Steps
<1>2. \A d \in Calls \ {c} :
        pc'[d] = pc[d] /\ job'[d] = job[d] /\ reply'[d] = reply[d]
  BY DEF IInv, TypeOK, End
<1>3. pc'[c] = "done" /\ job'[c] = job[c] /\ reply'[c] = code
  BY DEF IInv, TypeOK, End
<1>4. code = 202 => IsPosted("reserve", job[c].bet)
  BY DEF IInv, TypeOK, Job, MoneyBehindStatus
<1>5. CallFacts(c)' /\ Told(c)'
  BY <1>3, <1>4 DEF CallFacts, Told, IsPosted, dbVars
<1> QED
  BY <1>1, <1>2, <1>5, LocalStep

LEMMA DeliverInv ==
  ASSUME IInv, NEW c \in Calls, Deliver(c)
  PROVE  IInv' /\ Forward
<1>1. /\ pc' \in [Calls -> Steps] /\ job' \in [Calls -> Job]
      /\ reply' \in [Calls -> HttpStatus]
  BY NoJobType DEF IInv, TypeOK, Deliver, Steps, HttpStatus
<1>2. \A d \in Calls \ {c} :
        pc'[d] = pc[d] /\ job'[d] = job[d] /\ reply'[d] = reply[d]
  BY DEF IInv, TypeOK, Deliver
<1>3. pc'[c] = "idle" /\ reply'[c] = 0
  BY DEF IInv, TypeOK, Deliver
<1>4. CallFacts(c)' /\ Told(c)'
  BY <1>3 DEF CallFacts, Told
<1> QED
  BY <1>1, <1>2, <1>4, LocalStep DEF Deliver

-----------------------------------------------------------------------------
\* A successful wallet call of c, which then moves on to the statement that
\* updates the bets table.
LEMMA WalletStep ==
  ASSUME IInv, NEW c \in Calls, NEW kind \in Kinds, NEW p \in Nat,
         WalletCall(kind, job[c].bet, p), UNCHANGED bet,
         pc[c] # "done",
         NEW step \in {"create", "mark"}, Goto(c, step),
         step = "create" => kind = "reserve" /\ job[c].op = "place",
         step = "mark" => /\ kind = CreditKind(job[c])
                          /\ bet[job[c].bet].status # "none"
  PROVE  IInv' /\ Forward
<1>1. job[c].bet \in Bets
  BY DEF IInv, TypeOK, Job
<1>2. /\ account' \in [Users -> WalletAccount] /\ posted' \subseteq Posting
      /\ posted \subseteq posted' /\ IsPosted(kind, job[c].bet)'
  <2>1. TypeOK
    BY DEF IInv
  <2>2. \A b \in Bets : b = job[c].bet => WalletCall(kind, b, p)
    OBVIOUS
  <2>3. PICK b \in Bets : b = job[c].bet
    BY <1>1
  <2>4. IsPosted(kind, b)' /\ account' \in [Users -> WalletAccount]
        /\ posted' \subseteq Posting /\ posted \subseteq posted'
    BY <2>1, <2>2, <2>3, WalletCallEffect
  <2>5. job'[c] = job[c]
    BY DEF Goto
  <2> QED
    BY <2>3, <2>4, <2>5 DEF IsPosted
<1>3. TypeOK'
  BY <1>2 DEF IInv, TypeOK, Goto, Steps
<1>4. Forward
  BY <1>2 DEF Forward
<1>5. MoneyBehindStatus'
  BY <1>2, PostedStays DEF IInv, MoneyBehindStatus
<1>6. ASSUME NEW d \in Calls \ {c} PROVE CallFacts(d)' /\ Told(d)'
  <2>1. pc'[d] = pc[d] /\ job'[d] = job[d] /\ reply'[d] = reply[d]
    BY DEF IInv, TypeOK, Goto
  <2> QED
    BY <1>4, <2>1, OtherCall
<1>7. pc'[c] = step /\ job'[c] = job[c] /\ reply'[c] = 0
  BY DEF IInv, TypeOK, Goto, CallFacts
<1>8. CallFacts(c)' /\ Told(c)'
  BY <1>2, <1>7 DEF CallFacts, Told, CreditKind, IsPosted
<1> QED
  BY <1>3, <1>4, <1>5, <1>6, <1>8 DEF IInv

LEMMA CreateBetInv ==
  ASSUME IInv, NEW c \in Calls, CreateBet(c)
  PROVE  IInv' /\ Forward
<1> DEFINE b == job[c].bet
<1>1. b \in Bets /\ IsPosted("reserve", b) /\ reply[c] = 0
  BY DEF IInv, TypeOK, Job, CallFacts, CreateBet
<1>2. /\ bet' = [bet EXCEPT ![b].status = "accepted"]
      /\ bet[b].status = "none" /\ UNCHANGED <<account, posted>>
  BY DEF CreateBet
<1>3. bet'[b].status = "accepted"
      /\ \A e \in Bets \ {b} : bet'[e] = bet[e]
  BY <1>1, <1>2 DEF IInv, TypeOK
<1>4. /\ pc' \in [Calls -> Steps] /\ job' \in [Calls -> Job]
      /\ reply' = reply /\ pc'[c] \in {"read", "balance"}
      /\ job'[c].bet = b
      /\ \A d \in Calls \ {c} : pc'[d] = pc[d] /\ job'[d] = job[d]
  <2>1. CASE b \in Instant
    <3>1. Outcome[b] \in Nat
      BY <1>1, BettingAssumption
    <3>2. job' = [job EXCEPT ![c].payout = Outcome[b]] /\ reply' = reply
          /\ pc' = [pc EXCEPT ![c] = "read"]
      BY <2>1 DEF CreateBet
    <3> QED
      BY <3>1, <3>2 DEF IInv, TypeOK, Steps, Job
  <2>2. CASE b \notin Instant
    BY <2>2 DEF CreateBet, Goto, IInv, TypeOK, Steps
  <2> QED
    BY <2>1, <2>2
<1>5. TypeOK'
  BY <1>1, <1>2, <1>4 DEF IInv, TypeOK, Status
<1>6. Forward
  BY <1>1, <1>2, <1>3 DEF Forward
<1>7. MoneyBehindStatus'
  BY <1>1, <1>2, <1>3 DEF IInv, MoneyBehindStatus, IsPosted
<1>8. \A d \in Calls \ {c} : CallFacts(d)' /\ Told(d)'
  BY <1>4, <1>6, OtherCall
<1>9. CallFacts(c)' /\ Told(c)'
  BY <1>1, <1>3, <1>4 DEF CallFacts, Told
<1> QED
  BY <1>5, <1>6, <1>7, <1>8, <1>9 DEF IInv

LEMMA MarkInv ==
  ASSUME IInv, NEW c \in Calls, Mark(c)
  PROVE  IInv' /\ Forward
<1> DEFINE j == job[c]
           b == j.bet
           row == [status |-> IF j.op = "void" THEN "voided" ELSE "settled",
                   payout |-> j.payout]
<1>1. b \in Bets /\ j \in Job /\ IsPosted(CreditKind(j), b) /\ reply[c] = 0
  BY DEF IInv, TypeOK, Job, CallFacts, Mark
<1>2. bet' = [bet EXCEPT ![b] = row] /\ bet[b].status = "accepted"
      /\ UNCHANGED <<account, posted>>
  BY DEF Mark
<1>3. bet'[b] = row /\ \A e \in Bets \ {b} : bet'[e] = bet[e]
  BY <1>1, <1>2 DEF IInv, TypeOK
<1>4. /\ pc' \in [Calls -> Steps] /\ job' = job
      /\ reply' \in [Calls -> HttpStatus]
      /\ \/ pc'[c] = "balance" /\ reply'[c] = 0
         \/ pc'[c] = "done" /\ reply'[c] = 200
      /\ \A d \in Calls \ {c} : pc'[d] = pc[d] /\ reply'[d] = reply[d]
  BY <1>1 DEF Mark, Goto, End, IInv, TypeOK, Steps, HttpStatus
<1>5. TypeOK'
  BY <1>1, <1>2, <1>4 DEF IInv, TypeOK, Status, Job
<1>6. Forward
  BY <1>1, <1>2, <1>3 DEF Forward
<1>7. MoneyBehindStatus'
  <2>1. IsPosted("reserve", b)
    BY <1>1, <1>2 DEF IInv, MoneyBehindStatus
  <2>2. bet'[b].status = "settled" =>
          IsPosted(IF bet'[b].payout > 0 THEN "settle_win" ELSE "settle_loss", b)
    BY <1>1, <1>3 DEF CreditKind
  <2>3. bet'[b].status = "voided" => IsPosted("void", b)
    BY <1>1, <1>3 DEF CreditKind
  <2> QED
    BY <1>2, <1>3, <2>1, <2>2, <2>3 DEF IInv, MoneyBehindStatus, IsPosted
<1>8. \A d \in Calls \ {c} : CallFacts(d)' /\ Told(d)'
  BY <1>4, <1>6, OtherCall
<1>9. CallFacts(c)' /\ Told(c)'
  BY <1>3, <1>4 DEF CallFacts, Told
<1> QED
  BY <1>5, <1>6, <1>7, <1>8, <1>9 DEF IInv

-----------------------------------------------------------------------------
\* Every statement of a handler keeps IInv and goes forward.
LEMMA StepInv ==
  ASSUME IInv, NEW c \in Calls, Step(c)
  PROVE  IInv' /\ Forward
<1>0. job[c].bet \in Bets /\ job[c] \in Job /\ job[c].payout \in Nat
  BY DEF IInv, TypeOK, Job
<1>1. CASE FindExisting(c)
  BY <1>1, GotoInv DEF FindExisting, IInv, CallFacts
<1>2. CASE Admit(c)
  BY <1>2, GotoInv DEF Admit, IInv, CallFacts
<1>3. CASE Reject(c)
  <2>1. PICK code \in {403, 404, 422} : End(c, code)
    BY <1>3 DEF Reject
  <2>2. UNCHANGED dbVars /\ code \in HttpStatus \ {200} /\ code # 202
    BY <1>3 DEF Reject, HttpStatus
  <2> QED
    BY <2>1, <2>2, EndInv
<1>4. CASE Reserve(c)
  BY <1>4, WalletStep DEF Reserve, Kinds, IInv, CallFacts
<1>5. CASE InsufficientFunds(c)
  BY <1>5, EndInv DEF InsufficientFunds, HttpStatus
<1>6. CASE CreateBet(c)
  BY <1>6, CreateBetInv
<1>7. CASE CreateConflict(c)
  BY <1>7, EndInv DEF CreateConflict, HttpStatus
<1>8. CASE ReadBalance(c)
  BY <1>8, EndInv DEF ReadBalance, HttpStatus, IInv, CallFacts
<1>9. CASE ReadBet(c)
  <2>1. bet[job[c].bet].status \in Status
    BY <1>0 DEF IInv, TypeOK
  <2>2. CASE bet[job[c].bet].status = "accepted"
    <3>1. Goto(c, "credit") /\ UNCHANGED dbVars /\ pc[c] # "done"
      BY <1>9, <2>2 DEF ReadBet
    <3> QED
      BY <2>2, <3>1, GotoInv
  <2>3. CASE bet[job[c].bet].status # "accepted"
    <3>1. PICK code \in {404, 403, 409} : End(c, code)
      BY <1>9, <2>3, ReadBetEnds DEF IInv
    <3>2. UNCHANGED dbVars /\ code \in HttpStatus \ {200} /\ code # 202
      BY <1>9 DEF ReadBet, HttpStatus
    <3> QED
      BY <3>1, <3>2, EndInv
  <2> QED
    BY <2>2, <2>3
<1>10. CASE Credit(c)
  <2>1. CreditKind(job[c]) \in Kinds
    BY DEF CreditKind, Kinds
  <2>2. bet[job[c].bet].status # "none"
    BY <1>10 DEF IInv, CallFacts, Credit
  <2> QED
    BY <1>0, <1>10, <2>1, <2>2, WalletStep DEF Credit
<1>11. CASE Mark(c)
  BY <1>11, MarkInv
<1>12. CASE MarkConflict(c)
  BY <1>12, EndInv DEF MarkConflict, HttpStatus
<1> QED
  BY <1>1, <1>2, <1>3, <1>4, <1>5, <1>6, <1>7, <1>8, <1>9, <1>10, <1>11, <1>12
  DEF Step

\* IInv is inductive, and no step goes back.
LEMMA NextInv ==
  ASSUME IInv, [Next]_vars
  PROVE  IInv' /\ Forward
<1>1. CASE UNCHANGED vars
  <2>1. IInv'
    BY <1>1 DEF vars, IInv, TypeOK, MoneyBehindStatus, CallFacts, Told,
       IsPosted, CreditKind
  <2> QED
    BY <1>1, <2>1 DEF vars, Forward
<1>2. CASE Next
  <2>1. PICK c \in Calls :
          \/ \E b \in Bets : Place(c, b)
          \/ Operator(c) \/ Step(c) \/ Fail(c) \/ Deliver(c)
    BY <1>2 DEF Next
  <2>2. ASSUME NEW b \in Bets, Place(c, b) PROVE IInv' /\ Forward
    <3>1. [op |-> "place", bet |-> b, payout |-> 0] \in Job
      BY DEF Job
    <3> QED
      BY <2>2, <3>1, StartInv DEF Place
  <2>3. CASE Operator(c)
    <3>1. PICK b \in Bets : Void(c, b) \/ \E p \in Settlements[b] : Settle(c, b, p)
      BY <2>3 DEF Operator
    <3>2. CASE Void(c, b)
      <4>1. [op |-> "void", bet |-> b, payout |-> 0] \in Job
        BY DEF Job
      <4> QED
        BY <3>2, <4>1, StartInv DEF Void
    <3>3. ASSUME NEW p \in Settlements[b], Settle(c, b, p) PROVE IInv' /\ Forward
      <4>1. [op |-> "settle", bet |-> b, payout |-> p] \in Job
        BY BettingAssumption DEF Job
      <4> QED
        BY <3>3, <4>1, StartInv DEF Settle
    <3> QED
      BY <3>1, <3>2, <3>3
  <2>4. CASE Step(c)
    BY <2>4, StepInv
  <2>5. CASE Fail(c)
    BY <2>5, EndInv DEF Fail, HttpStatus
  <2>6. CASE Deliver(c)
    BY <2>6, DeliverInv
  <2> QED
    BY <2>1, <2>2, <2>3, <2>4, <2>5, <2>6
<1> QED
  BY <1>1, <1>2

LEMMA Invariance == Spec => []IInv
<1>1. IInv /\ [Next]_vars => IInv'
  BY NextInv
<1> QED
  BY InitInv, <1>1, PTL DEF Spec

-----------------------------------------------------------------------------
\* What is paid and what is recorded both come from what was asked.
AskOf(j) == [kind |-> CreditKind(j), payout |-> j.payout]

AskedOnly ==
  \A c \in Calls : pc[c] \in {"read", "credit", "mark"} =>
    AskOf(job[c]) \in Asked(job[c].bet)

PostedAsAsked ==
  \A q \in posted : q.kind # "reserve" =>
    \E x \in Asked(q.bet) :
      q.kind = x.kind /\ q.amount = RequestOf(x.kind, q.bet, x.payout).amount

SettledAsAsked ==
  \A b \in Bets : bet[b].status = "settled" =>
    [kind |-> IF bet[b].payout > 0 THEN "settle_win" ELSE "settle_loss",
     payout |-> bet[b].payout] \in Asked(b)

PayInv == AskedOnly /\ PostedAsAsked /\ SettledAsAsked

\* A step of a call leaves the other calls where they are.
LEMMA OthersStay ==
  ASSUME TypeOK, NEW c \in Calls,
         \/ \E b \in Bets : Place(c, b)
         \/ Operator(c) \/ Step(c) \/ Fail(c) \/ Deliver(c)
  PROVE  \A d \in Calls \ {c} :
           pc'[d] = pc[d] /\ job'[d] = job[d] /\ reply'[d] = reply[d]
<1>1. ASSUME NEW s \in Steps, NEW j, Start(c, s, j)
      PROVE  \A d \in Calls \ {c} :
               pc'[d] = pc[d] /\ job'[d] = job[d] /\ reply'[d] = reply[d]
  BY <1>1 DEF Start, TypeOK
<1>2. ASSUME NEW s, Goto(c, s)
      PROVE  \A d \in Calls \ {c} :
               pc'[d] = pc[d] /\ job'[d] = job[d] /\ reply'[d] = reply[d]
  BY <1>2 DEF Goto, TypeOK
<1>3. ASSUME NEW code, End(c, code)
      PROVE  \A d \in Calls \ {c} :
               pc'[d] = pc[d] /\ job'[d] = job[d] /\ reply'[d] = reply[d]
  BY <1>3 DEF End, TypeOK
<1>4. CASE \E b \in Bets : Place(c, b)
  BY <1>4, <1>1 DEF Place, Steps
<1>5. CASE Operator(c)
  BY <1>5, <1>1 DEF Operator, Void, Settle, Steps
<1>6. CASE CreateBet(c)
  BY <1>6, <1>2 DEF CreateBet, TypeOK
<1>7. CASE FindExisting(c) \/ Admit(c) \/ Reserve(c) \/ Credit(c)
  BY <1>7, <1>2 DEF FindExisting, Admit, Reserve, Credit
<1>8. CASE ReadBet(c) \/ Mark(c)
  <2>1. (\E s : Goto(c, s)) \/ (\E code : End(c, code))
    <3>1. CASE Mark(c)
      BY <3>1 DEF Mark
    <3>2. CASE ReadBet(c)
      BY <3>2, ReadBetEnds
    <3> QED
      BY <1>8, <3>1, <3>2
  <2> QED
    BY <2>1, <1>2, <1>3
<1>9. CASE \/ Reject(c) \/ InsufficientFunds(c) \/ CreateConflict(c)
           \/ ReadBalance(c) \/ MarkConflict(c) \/ Fail(c)
  <2>1. \E code : End(c, code)
    BY <1>9 DEF Reject, InsufficientFunds, CreateConflict, ReadBalance,
                MarkConflict, Fail
  <2> QED
    BY <2>1, <1>3
<1>10. CASE Deliver(c)
  BY <1>10 DEF Deliver, TypeOK
<1> QED
  BY <1>4, <1>5, <1>6, <1>7, <1>8, <1>9, <1>10 DEF Step

\* Requests enter with what they ask, and an instant game with its outcome.
LEMMA AskedStep ==
  ASSUME IInv, AskedOnly, NEW c \in Calls,
         \/ \E b \in Bets : Place(c, b)
         \/ Operator(c) \/ Step(c) \/ Fail(c) \/ Deliver(c)
  PROVE  AskedOnly'
<1>1. \A d \in Calls \ {c} : pc'[d] = pc[d] /\ job'[d] = job[d]
  BY OthersStay DEF IInv
<1>2. SUFFICES ASSUME pc'[c] \in {"read", "credit", "mark"}
               PROVE  AskOf(job'[c]) \in Asked(job'[c].bet)
  BY <1>1 DEF AskedOnly, AskOf, CreditKind, Asked
<1>3. ASSUME NEW b \in Bets, Void(c, b)
      PROVE  AskOf(job'[c]) \in Asked(job'[c].bet)
  <2>1. job'[c] = [op |-> "void", bet |-> b, payout |-> 0]
    BY <1>3 DEF Void, Start, IInv, TypeOK
  <2>2. AskOf(job'[c]) = [kind |-> "void", payout |-> 0] /\ b \in Voidable
    BY <1>3, <2>1 DEF AskOf, CreditKind, Void
  <2> QED
    BY <2>1, <2>2 DEF Asked
<1>4. ASSUME NEW b \in Bets, NEW p \in Settlements[b], Settle(c, b, p)
      PROVE  AskOf(job'[c]) \in Asked(job'[c].bet)
  <2>1. job'[c] = [op |-> "settle", bet |-> b, payout |-> p]
    BY <1>4 DEF Settle, Start, IInv, TypeOK
  <2>2. AskOf(job'[c]) =
          [kind |-> IF p > 0 THEN "settle_win" ELSE "settle_loss", payout |-> p]
    BY <2>1 DEF AskOf, CreditKind
  <2> QED
    BY <2>1, <2>2 DEF Asked
<1>5. CASE CreateBet(c)
  <2>1. PICK b \in Bets : b = job[c].bet
    BY DEF IInv, TypeOK, Job
  <2>2. b \in Instant
    BY <1>2, <1>5, <2>1 DEF CreateBet, Goto, IInv, TypeOK
  <2>3. job' = [job EXCEPT ![c].payout = Outcome[b]]
    BY <1>5, <2>1, <2>2 DEF CreateBet
  <2>4. job'[c].op = job[c].op /\ job'[c].bet = b /\ job'[c].payout = Outcome[b]
    BY <2>1, <2>3 DEF IInv, TypeOK, Job
  <2>5. job[c].op = "place"
    BY <1>5 DEF CreateBet, IInv, CallFacts
  <2>6. AskOf(job'[c]) =
          [kind |-> IF Outcome[b] > 0 THEN "settle_win" ELSE "settle_loss",
           payout |-> Outcome[b]]
    BY <2>4, <2>5 DEF AskOf, CreditKind
  <2> QED
    BY <2>2, <2>4, <2>6 DEF Asked
<1>6. CASE ReadBet(c) \/ Credit(c)
  <2>1. pc[c] \in {"read", "credit"}
    BY <1>6 DEF ReadBet, Credit
  <2>2. job' = job
    <3>1. CASE Credit(c)
      BY <3>1 DEF Credit, Goto
    <3>2. CASE ReadBet(c)
      BY <3>2, ReadBetEnds DEF Goto, End, IInv
    <3> QED
      BY <1>6, <3>1, <3>2
  <2> QED
    BY <2>1, <2>2 DEF AskedOnly
<1>7. CASE \/ \E b \in Bets : Place(c, b)
           \/ FindExisting(c) \/ Admit(c) \/ Reject(c) \/ Reserve(c)
           \/ InsufficientFunds(c) \/ CreateConflict(c) \/ ReadBalance(c)
           \/ Mark(c) \/ MarkConflict(c) \/ Fail(c) \/ Deliver(c)
  <2>1. pc'[c] \notin {"read", "credit", "mark"}
    BY <1>7 DEF Place, Start, FindExisting, Admit, Reject, Reserve,
         InsufficientFunds, CreateConflict, ReadBalance, Mark, MarkConflict, Fail,
         Deliver, Goto, End, IInv, TypeOK
  <2> QED
    BY <1>2, <2>1
<1> QED
  BY <1>3, <1>4, <1>5, <1>6, <1>7 DEF Operator, Step

\* The wallet is asked for what the call was asked for, and what it posts
\* says so.
LEMMA PostedStep ==
  ASSUME IInv, AskedOnly, PostedAsAsked, NEW c \in Calls, Reserve(c) \/ Credit(c)
  PROVE  PostedAsAsked'
<1>1. PICK b \in Bets : b = job[c].bet
  BY DEF IInv, TypeOK, Job
<1>2. \A x : Asked(x)' = Asked(x)
  BY DEF Asked
<1>3. CASE posted' = posted
  BY <1>2, <1>3 DEF PostedAsAsked, RequestOf
<1>4. CASE Reserve(c) /\ posted' # posted
  <2>1. \A q \in posted' : q \in posted \/ q.kind = "reserve"
    BY <1>1, <1>4 DEF Reserve, WalletCall
  <2> QED
    BY <2>1 DEF PostedAsAsked, RequestOf, Asked
<1>5. CASE Credit(c) /\ posted' # posted
  <2> DEFINE x == AskOf(job[c])
             q == [kind |-> x.kind, bet |-> b,
                   amount |-> RequestOf(x.kind, b, x.payout).amount]
  <2>1. x \in Asked(b)
    BY <1>1, <1>5 DEF AskedOnly, Credit
  <2>2. posted' = posted \cup {q}
    BY <1>1, <1>5 DEF Credit, WalletCall, AskOf
  <2>3. q.bet = b /\ q.kind = x.kind
        /\ q.amount = RequestOf(x.kind, b, x.payout).amount
    OBVIOUS
  <2> HIDE DEF x, q
  <2> QED
    BY <2>1, <2>2, <2>3 DEF PostedAsAsked, RequestOf, Asked
<1> QED
  BY <1>3, <1>4, <1>5

\* A bet is settled with what its call asked the wallet for.
LEMMA SettledStep ==
  ASSUME IInv, AskedOnly, SettledAsAsked, NEW c \in Calls, CreateBet(c) \/ Mark(c)
  PROVE  SettledAsAsked'
<1>1. PICK b \in Bets : b = job[c].bet
  BY DEF IInv, TypeOK, Job
<1>2. \A d \in Bets \ {b} : bet'[d] = bet[d]
  BY <1>1 DEF CreateBet, Mark, IInv, TypeOK
<1>3. SUFFICES ASSUME bet'[b].status = "settled"
               PROVE  [kind |-> IF bet'[b].payout > 0 THEN "settle_win"
                                                      ELSE "settle_loss",
                       payout |-> bet'[b].payout] \in Asked(b)
  BY <1>2 DEF SettledAsAsked, Asked
<1>4. CASE CreateBet(c)
  BY <1>1, <1>3, <1>4 DEF CreateBet, IInv, TypeOK
<1>5. CASE Mark(c)
  <2>1. /\ bet'[b].payout = job[c].payout /\ job[c].op # "void"
        /\ pc[c] = "mark"
    BY <1>1, <1>3, <1>5 DEF Mark, IInv, TypeOK
  <2>2. AskOf(job[c]) \in Asked(b)
    BY <1>1, <2>1 DEF AskedOnly
  <2> QED
    BY <2>1, <2>2 DEF AskOf, CreditKind
<1> QED
  BY <1>4, <1>5

LEMMA PayStep == IInv /\ PayInv /\ [Next]_vars => PayInv'
<1> SUFFICES ASSUME IInv, PayInv, [Next]_vars
             PROVE  PayInv'
  OBVIOUS
<1>1. CASE UNCHANGED vars
  BY <1>1 DEF vars, PayInv, AskedOnly, PostedAsAsked, SettledAsAsked, AskOf,
              CreditKind, Asked, RequestOf
<1>2. ASSUME NEW c \in Calls,
             \/ \E b \in Bets : Place(c, b)
             \/ Operator(c) \/ Step(c) \/ Fail(c) \/ Deliver(c)
      PROVE  PayInv'
  <2>1. AskedOnly'
    BY <1>2, AskedStep DEF PayInv
  <2>2. CASE Reserve(c) \/ Credit(c)
    <3>1. bet' = bet
      BY <2>2 DEF Reserve, Credit
    <3>2. SettledAsAsked'
      BY <3>1 DEF PayInv, SettledAsAsked, Asked
    <3> QED
      BY <2>1, <2>2, <3>2, PostedStep DEF PayInv
  <2>3. CASE CreateBet(c) \/ Mark(c)
    <3>1. posted' = posted
      BY <2>3 DEF CreateBet, Mark
    <3>2. PostedAsAsked'
      BY <3>1 DEF PayInv, PostedAsAsked, Asked, RequestOf
    <3> QED
      BY <2>1, <2>3, <3>2, SettledStep DEF PayInv
  <2>4. CASE ~(Reserve(c) \/ Credit(c) \/ CreateBet(c) \/ Mark(c))
    <3>1. UNCHANGED dbVars
      BY <1>2, <2>4 DEF Place, Operator, Void, Settle, Step, FindExisting, Admit,
           Reject, InsufficientFunds, CreateConflict, ReadBalance, ReadBet,
           MarkConflict, Fail, Deliver
    <3>2. PostedAsAsked' /\ SettledAsAsked'
      BY <3>1 DEF dbVars, PayInv, PostedAsAsked, SettledAsAsked, Asked, RequestOf
    <3> QED
      BY <2>1, <3>2 DEF PayInv
  <2> QED
    BY <2>2, <2>3, <2>4
<1> QED
  BY <1>1, <1>2 DEF Next

LEMMA PayInvariance == Spec => []PayInv
<1>1. Init => PayInv
  BY DEF Init, PayInv, AskedOnly, PostedAsAsked, SettledAsAsked
<1> QED
  BY <1>1, PayStep, Invariance, PTL DEF Spec

\* When only one thing was ever asked of a bet, what was posted for it and
\* what its row says are that thing.
LEMMA PaidWhatWasAsked ==
  ASSUME IInv, PayInv, NEW b \in Bets, Undisputed(b), bet[b].status = "settled"
  PROVE  {<<p.kind, p.amount>> : p \in {q \in posted : q.bet = b /\ q.kind # "reserve"}}
           = {IF bet[b].payout > 0 THEN <<"settle_win", bet[b].payout>>
                                   ELSE <<"settle_loss", 0>>}
<1> DEFINE x == [kind |-> IF bet[b].payout > 0 THEN "settle_win" ELSE "settle_loss",
                 payout |-> bet[b].payout]
           own == {q \in posted : q.bet = b /\ q.kind # "reserve"}
           pair == IF bet[b].payout > 0 THEN <<"settle_win", bet[b].payout>>
                                        ELSE <<"settle_loss", 0>>
<1>1. \A y \in Asked(b) : y = x
  BY DEF PayInv, SettledAsAsked, Undisputed
<1>2. pair = <<x.kind, RequestOf(x.kind, b, x.payout).amount>>
  BY DEF RequestOf
<1>3. \A q \in own : <<q.kind, q.amount>> = pair
  <2> SUFFICES ASSUME NEW q \in own
               PROVE  <<q.kind, q.amount>> = pair
    OBVIOUS
  <2>1. PICK y \in Asked(b) :
          q.kind = y.kind /\ q.amount = RequestOf(y.kind, b, y.payout).amount
    BY DEF PayInv, PostedAsAsked
  <2> QED
    BY <1>1, <1>2, <2>1
<1>4. own # {}
  BY DEF IInv, MoneyBehindStatus, IsPosted
<1> HIDE DEF own, pair
<1>5. {<<p.kind, p.amount>> : p \in own} = {pair}
  BY <1>3, <1>4
<1> QED
  BY <1>5 DEF own, pair

-----------------------------------------------------------------------------
(***************************************************************************)
(* Sums.  The recursive function behind MapThenSumSet is reasoned about    *)
(* through a smallest set on which a claim would fail.                     *)
(***************************************************************************)
\* A family of subsets of a finite set has one that contains no other: what
\* an induction over a finite set comes down to.
LEMMA SmallestSubset ==
  ASSUME NEW S, IsFiniteSet(S), NEW F, F \subseteq SUBSET S, F # {}
  PROVE  \E T \in F : \A U \in F : U \subseteq T => U = T
<1> DEFINE Smaller == StrictSubsetOrdering(S)
<1>1. IsWellFoundedOn(Smaller, FiniteSubsetsOf(S))
  BY FS_StrictSubsetOrderingWellFounded
<1>2. FiniteSubsetsOf(S) = SUBSET S
  BY FS_FiniteSubsetsOfFinite
<1> HIDE DEF Smaller
<1>3. PICK T \in F : \A U \in F : <<U, T>> \notin Smaller
  BY <1>1, <1>2, WFMin
<1>4. \A U \in F : U \subseteq T => U = T
  <2> SUFFICES ASSUME NEW U \in F, U \subseteq T, U # T
               PROVE  FALSE
    OBVIOUS
  <2>1. <<U, T>> \in Smaller
    BY DEF Smaller, StrictSubsetOrdering
  <2> QED
    BY <1>3, <2>1
<1> QED
  BY <1>4


\* The sum of f over S, and the function that computes it: f at one element
\* of the set, and the sum over the others.
Total(f, S) == MapThenSumSet(LAMBDA x : f[x], S)

Pick(s) == CHOOSE x \in s : TRUE
IsTotal(g, f, S) ==
  g = [s \in SUBSET S |-> IF s = {} THEN 0 ELSE f[Pick(s)] + g[s \ {Pick(s)}]]

LEMMA TotalDef ==
  ASSUME NEW f, NEW S
  PROVE  Total(f, S) = (CHOOSE g : IsTotal(g, f, S))[S]
BY DEF Total, MapThenSumSet, MapThenFoldSet, IsTotal, Pick

\* Two such functions agree wherever both are defined.
LEMMA TotalUnique ==
  ASSUME NEW f, NEW S, NEW T, NEW g, NEW h, IsTotal(g, f, S), IsTotal(h, f, T),
         NEW U, IsFiniteSet(U), U \subseteq S, U \subseteq T
  PROVE  g[U] = h[U]
<1> DEFINE F == {V \in SUBSET U : g[V] # h[V]}
<1> SUFFICES ASSUME F # {} PROVE FALSE
  OBVIOUS
<1>1. PICK V \in F : \A W \in F : W \subseteq V => W = V
  <2>1. F \subseteq SUBSET U
    OBVIOUS
  <2> HIDE DEF F
  <2> QED
    BY <2>1, SmallestSubset
<1>2. V \in SUBSET S /\ V \in SUBSET T /\ V \in SUBSET U
  OBVIOUS
<1>3. /\ g[V] = IF V = {} THEN 0 ELSE f[Pick(V)] + g[V \ {Pick(V)}]
      /\ h[V] = IF V = {} THEN 0 ELSE f[Pick(V)] + h[V \ {Pick(V)}]
  BY <1>2 DEF IsTotal
<1>4. V # {}
  BY <1>3
<1>5. Pick(V) \in V
  BY <1>4 DEF Pick
<1>6. V \ {Pick(V)} \notin F
  BY <1>1, <1>5
<1>7. g[V \ {Pick(V)}] = h[V \ {Pick(V)}]
  BY <1>2, <1>6
<1> QED
  BY <1>3, <1>4, <1>7

LEMMA TotalExists ==
  ASSUME NEW f, NEW S, IsFiniteSet(S)
  PROVE  \E g : IsTotal(g, f, S)
<1> DEFINE F == {T \in SUBSET S : ~\E g : IsTotal(g, f, T)}
<1> SUFFICES ASSUME F # {} PROVE FALSE
  OBVIOUS
<1>1. PICK T \in F : \A U \in F : U \subseteq T => U = T
  <2>1. F \subseteq SUBSET S
    OBVIOUS
  <2> HIDE DEF F
  <2> QED
    BY <2>1, SmallestSubset
<1>2. IsFiniteSet(T) /\ \A U \in SUBSET T : IsFiniteSet(U)
  BY FS_Subset
<1> DEFINE G(U) == CHOOSE g : IsTotal(g, f, U)
           Sum(s) == G(s)[s]
           v(s) == IF s = {} THEN 0 ELSE f[Pick(s)] + Sum(s \ {Pick(s)})
           g0 == [s \in SUBSET T |-> v(s)]
<1>3. \A U \in SUBSET T : U # T => IsTotal(G(U), f, U)
  BY <1>1
<1>4. \A s \in SUBSET T : s # {} => Pick(s) \in s
  BY DEF Pick
<1>5. \A s \in SUBSET T : s # T => Sum(s) = v(s)
  <2> SUFFICES ASSUME NEW s \in SUBSET T, s # T
               PROVE  Sum(s) = v(s)
    OBVIOUS
  <2>1. IsTotal(G(s), f, s)
    BY <1>3
  <2>2. G(s)[s] = IF s = {} THEN 0 ELSE f[Pick(s)] + G(s)[s \ {Pick(s)}]
    <3> HIDE DEF G
    <3> QED
      BY <2>1 DEF IsTotal
  <2>3. CASE s = {}
    BY <2>2, <2>3
  <2>4. CASE s # {}
    <3> DEFINE u == s \ {Pick(s)}
    <3>1. u \in SUBSET T /\ u # T /\ u \subseteq s /\ IsFiniteSet(u)
      BY <1>2, <1>4, <2>4
    <3>2. IsTotal(G(u), f, u)
      BY <1>3, <3>1
    <3>3. G(s)[u] = G(u)[u]
      <4> HIDE DEF G, u
      <4> QED
        BY <2>1, <3>1, <3>2, TotalUnique
    <3> HIDE DEF G
    <3> QED
      BY <2>2, <2>4, <3>3
  <2> QED
    BY <2>3, <2>4
<1>6. IsTotal(g0, f, T)
  <2>0. ASSUME NEW s \in SUBSET T
        PROVE  v(s) = IF s = {} THEN 0
                      ELSE f[Pick(s)] + g0[s \ {Pick(s)}]
    <3>1. CASE s = {}
      BY <3>1
    <3>2. CASE s # {}
      <4> DEFINE u == s \ {Pick(s)}
      <4>1. u \in SUBSET T /\ u # T
        BY <1>4, <3>2
      <4>2. g0[u] = v(u)
        BY <4>1
      <4>3. Sum(u) = v(u)
        BY <1>5, <4>1
      <4> HIDE DEF Sum, g0
      <4> QED
        BY <3>2, <4>2, <4>3
    <3> QED
      BY <3>1, <3>2
  <2>1. [s \in SUBSET T |-> v(s)] =
        [s \in SUBSET T |-> IF s = {} THEN 0
                            ELSE f[Pick(s)] + g0[s \ {Pick(s)}]]
    <3> HIDE DEF v, g0
    <3> QED
      BY <2>0
  <2> QED
    BY <2>1 DEF IsTotal
<1> QED
  BY <1>1, <1>6

\* The sum over a finite set: nothing, or one of its elements and the others.
LEMMA TotalFacts ==
  ASSUME NEW f, NEW S, IsFiniteSet(S)
  PROVE  Total(f, S) = IF S = {} THEN 0 ELSE f[Pick(S)] + Total(f, S \ {Pick(S)})
<1> DEFINE g == CHOOSE g : IsTotal(g, f, S)
           U == S \ {Pick(S)}
           h == CHOOSE h : IsTotal(h, f, U)
<1>1. IsTotal(g, f, S) /\ Total(f, S) = g[S]
  BY TotalExists, TotalDef
<1>2. IsFiniteSet(U) /\ U \subseteq S
  BY FS_Subset
<1>3. IsTotal(h, f, U) /\ Total(f, U) = h[U]
  <2> HIDE DEF U
  <2> QED
    BY <1>2, TotalExists, TotalDef
<1>4. g[S] = IF S = {} THEN 0 ELSE f[Pick(S)] + g[U]
  <2> HIDE DEF g
  <2> QED
    BY <1>1 DEF IsTotal
<1>5. g[U] = h[U]
  <2> HIDE DEF g, h, U
  <2> QED
    BY <1>1, <1>2, <1>3, TotalUnique
<1> QED
  BY <1>1, <1>3, <1>4, <1>5

\* A sum of integers is an integer, and one of naturals a natural.
LEMMA TotalType ==
  ASSUME NEW D \in {Nat, Int}, NEW f, NEW S, IsFiniteSet(S),
         \A x \in S : f[x] \in D
  PROVE  Total(f, S) \in D
<1> DEFINE F == {T \in SUBSET S : Total(f, T) \notin D}
<1> SUFFICES ASSUME F # {} PROVE FALSE
  OBVIOUS
<1>1. PICK T \in F : \A U \in F : U \subseteq T => U = T
  <2>1. F \subseteq SUBSET S
    OBVIOUS
  <2> HIDE DEF F
  <2> QED
    BY <2>1, SmallestSubset
<1>2. T \subseteq S /\ IsFiniteSet(T)
  BY FS_Subset
<1>3. Total(f, T) =
        IF T = {} THEN 0 ELSE f[Pick(T)] + Total(f, T \ {Pick(T)})
  BY <1>2, TotalFacts
<1>4. T # {}
  BY <1>3
<1>5. Pick(T) \in T
  BY <1>4 DEF Pick
<1>6. f[Pick(T)] \in D
  BY <1>2, <1>5
<1>7. Total(f, T \ {Pick(T)}) \in D
  BY <1>1, <1>5
<1>8. Total(f, T) \in D
  BY <1>3, <1>4, <1>6, <1>7
<1> QED
  BY <1>8

\* Any element may be taken out of the sum.
LEMMA TotalRemove ==
  ASSUME NEW f, NEW S, IsFiniteSet(S), \A x \in S : f[x] \in Int, NEW b \in S
  PROVE  Total(f, S) = f[b] + Total(f, S \ {b})
<1> DEFINE Bad(T) == \E x \in T : Total(f, T) # f[x] + Total(f, T \ {x})
           F == {T \in SUBSET S : Bad(T)}
<1>0. \A T \in SUBSET S : /\ IsFiniteSet(T) /\ Total(f, T) \in Int
                          /\ \A x \in T : f[x] \in Int
  BY FS_Subset, TotalType
<1>1. F = {}
  <2> SUFFICES ASSUME F # {} PROVE FALSE
    OBVIOUS
  <2>1. PICK T \in F : \A U \in F : U \subseteq T => U = T
    <3>1. F \subseteq SUBSET S
      OBVIOUS
    <3> HIDE DEF F
    <3> QED
      BY <3>1, SmallestSubset
  <2>2. PICK x \in T : Total(f, T) # f[x] + Total(f, T \ {x})
    BY <2>1
  <2> DEFINE c == Pick(T)
             U == T \ {c}
             V == T \ {x}
             W == (T \ {c}) \ {x}
  <2>3. c \in T /\ Total(f, T) = f[c] + Total(f, U)
    BY <1>0, <2>2, TotalFacts DEF Pick
  <2>4. x # c
    BY <2>2, <2>3
  <2>5. U \in SUBSET S /\ V \in SUBSET S /\ W \in SUBSET S
    OBVIOUS
  <2>6. W = V \ {c} /\ x \in U /\ c \in V
    BY <2>3, <2>4
  <2>7. ~Bad(U) /\ ~Bad(V)
    <3>1. U \notin F /\ V \notin F
      BY <2>1, <2>2, <2>3
    <3> HIDE DEF Bad, U, V
    <3> QED
      BY <2>5, <3>1
  <2>8. Total(f, U) = f[x] + Total(f, W) /\ Total(f, V) = f[c] + Total(f, W)
    <3> HIDE DEF V
    <3> QED
      BY <2>6, <2>7
  <2>9. /\ Total(f, T) \in Int /\ Total(f, U) \in Int /\ Total(f, V) \in Int
        /\ Total(f, W) \in Int
    BY <1>0, <2>5
  <2>10. f[x] \in Int /\ f[c] \in Int
    BY <1>0, <2>3
  <2>11. Total(f, T) = f[x] + Total(f, V)
    <3> HIDE DEF U, V, W, c
    <3> QED
      BY <2>3, <2>8, <2>9, <2>10
  <2> QED
    BY <2>2, <2>11
<1> QED
  BY <1>0, <1>1

\* One element more in the sum.
LEMMA TotalAdd ==
  ASSUME NEW f, NEW S, IsFiniteSet(S), NEW b, b \notin S,
         \A x \in S \cup {b} : f[x] \in Int
  PROVE  Total(f, S \cup {b}) = Total(f, S) + f[b]
<1>1. IsFiniteSet(S \cup {b}) /\ (S \cup {b}) \ {b} = S
  BY FS_AddElement
<1>2. Total(f, S \cup {b}) = f[b] + Total(f, S)
  <2> DEFINE U == S \cup {b}
  <2>1. Total(f, U) = f[b] + Total(f, U \ {b})
    BY <1>1, TotalRemove
  <2> QED
    BY <1>1, <2>1
<1>3. Total(f, S) \in Int
  BY TotalType
<1> QED
  BY <1>2, <1>3

-----------------------------------------------------------------------------
\* The bets whose stake is held: reserved, and not yet won, lost or voided.
Outstanding(u) == {b \in BetsOf(u) : IsPosted("reserve", b) /\ ~Resolved(b)}

\* Finitely many movements are posted at any time, only a reserved bet is
\* resolved, and what is held is what is outstanding.
Held(u) ==
  (\A b \in BetsOf(u) : Undisputed(b)) => account[u].reserved = Total(Stake, Outstanding(u))

HeldInv ==
  /\ IsFiniteSet(posted)
  /\ \A b \in Bets : Resolved(b) => IsPosted("reserve", b)
  /\ \A u \in Users : Held(u)

LEMMA HeldIsOutstanding == (\A u \in Users : Held(u)) <=> ReservedIsOutstanding
  BY DEF Held, Outstanding, Total, ReservedIsOutstanding

\* So the outstanding bets are finitely many, however many bets there are.
LEMMA OutstandingFinite ==
  ASSUME IsFiniteSet(posted), NEW u
  PROVE  IsFiniteSet(Outstanding(u)) /\ Outstanding(u) \subseteq Bets
<1> DEFINE betOf == [q \in posted |-> q.bet]
           betsPosted == {betOf[q] : q \in posted}
<1>1. IsFiniteSet(betsPosted)
  <2>1. betOf \in Surjection(posted, betsPosted)
    BY DEF Surjection
  <2> QED
    BY <2>1, FS_Surjection
<1>2. Outstanding(u) \subseteq betsPosted
  BY DEF Outstanding, IsPosted
<1> HIDE DEF betsPosted
<1>3. IsFiniteSet(Outstanding(u))
  BY <1>1, <1>2, FS_Subset
<1> QED
  BY <1>3 DEF Outstanding, BetsOf

\* What a new movement adds to what is posted.
LEMMA AddPosting ==
  ASSUME NEW kind, NEW b, NEW amount,
         posted' = posted \cup {[kind |-> kind, bet |-> b, amount |-> amount]}
  PROVE  \A k, d : IsPosted(k, d)' <=> IsPosted(k, d) \/ (k = kind /\ d = b)
<1> DEFINE q == [kind |-> kind, bet |-> b, amount |-> amount]
<1>1. q.kind = kind /\ q.bet = b /\ posted' = posted \cup {q}
  OBVIOUS
<1> HIDE DEF q
<1> QED
  BY <1>1 DEF IsPosted

\* A fresh reserve holds the stake of a bet that was not outstanding.
LEMMA ReserveHolds ==
  ASSUME IInv, HeldInv, NEW b \in Bets, ~IsPosted("reserve", b),
         account' = [account EXCEPT ![BettorOf[b]] =
                       NewAccount(@, RequestOf("reserve", b, 0))],
         posted' = posted \cup {[kind |-> "reserve", bet |-> b,
                                 amount |-> RequestOf("reserve", b, 0).amount]}
  PROVE  HeldInv'
<1> DEFINE v == BettorOf[b]
<1>1. v \in Users /\ account \in [Users -> WalletAccount] /\ Stake[b] \in Nat
  BY BettingAssumption DEF IInv, TypeOK
<1>2. /\ account'[v].reserved = account[v].reserved + Stake[b]
      /\ \A u \in Users \ {v} : account'[u] = account[u]
  BY <1>1 DEF NewAccount, NewReserved, RequestOf
<1>3. IsFiniteSet(posted')
  BY FS_AddElement DEF HeldInv
<1>4. \A k, d : IsPosted(k, d)' <=> IsPosted(k, d) \/ (k = "reserve" /\ d = b)
  BY AddPosting DEF Kinds
<1>5. \A d : Resolved(d)' <=> Resolved(d)
  BY <1>4 DEF Resolved, Resolutions
<1>6. ~Resolved(b)
  BY DEF HeldInv
<1>7. \A d \in Bets : Resolved(d)' => IsPosted("reserve", d)'
  BY <1>4, <1>5 DEF HeldInv
<1>8. ASSUME NEW u \in Users PROVE Held(u)'
  <2>1. CASE u = v
    <3>1. b \notin Outstanding(v) /\ Outstanding(v)' = Outstanding(v) \cup {b}
      BY <1>4, <1>5, <1>6 DEF Outstanding, BetsOf
    <3>2. IsFiniteSet(Outstanding(v)) /\ Outstanding(v) \subseteq Bets
      BY OutstandingFinite DEF HeldInv
    <3>3. Total(Stake, Outstanding(v)') = Total(Stake, Outstanding(v)) + Stake[b]
      BY <3>1, <3>2, TotalAdd, BettingAssumption
    <3>4. ASSUME \A d \in BetsOf(v) : Undisputed(d)
          PROVE  account'[v].reserved = Total(Stake, Outstanding(v)')
      <4>1. account[v].reserved = Total(Stake, Outstanding(v))
        BY <1>1, <3>4 DEF HeldInv, Held
      <4> QED
        BY <1>1, <1>2, <3>3, <4>1
    <3>5. (\A d \in BetsOf(v) : Undisputed(d))' <=> (\A d \in BetsOf(v) : Undisputed(d))
      BY DEF BetsOf, Undisputed, Asked
    <3> QED
      BY <2>1, <3>4, <3>5 DEF Held
  <2>2. CASE u # v
    <3>1. Outstanding(u)' = Outstanding(u)
      BY <1>4, <1>5, <2>2 DEF Outstanding, BetsOf
    <3>2. account'[u] = account[u]
      BY <1>2, <2>2
    <3>3. (\A d \in BetsOf(u) : Undisputed(d))' <=> (\A d \in BetsOf(u) : Undisputed(d))
      BY DEF BetsOf, Undisputed, Asked
    <3> QED
      BY <3>1, <3>2, <3>3 DEF HeldInv, Held
  <2> QED
    BY <2>1, <2>2
<1> QED
  BY <1>3, <1>7, <1>8 DEF HeldInv

\* A fresh resolution of an undisputed bet releases the stake of a bet that
\* was outstanding, so the release is never cut off at zero.
LEMMA CreditReleases ==
  ASSUME IInv, PayInv, HeldInv, NEW b \in Bets, NEW p \in Nat,
         NEW kind \in Resolutions,
         IsPosted("reserve", b), ~IsPosted(kind, b),
         \E x \in Asked(b) : x.kind = kind,
         account' = [account EXCEPT ![BettorOf[b]] =
                       NewAccount(@, RequestOf(kind, b, p))],
         posted' = posted \cup {[kind |-> kind, bet |-> b,
                                 amount |-> RequestOf(kind, b, p).amount]}
  PROVE  HeldInv'
<1> DEFINE v == BettorOf[b]
<1>1. v \in Users /\ account \in [Users -> WalletAccount] /\ Stake[b] \in Nat
  BY BettingAssumption DEF IInv, TypeOK
<1>2. /\ account'[v].reserved = Release(account[v].reserved, Stake[b])
      /\ \A u \in Users \ {v} : account'[u] = account[u]
  <2>1. /\ RequestOf(kind, b, p).type \in {"bet_win", "bet_release", "adjustment"}
        /\ RequestOf(kind, b, p).releaseReserved = Stake[b]
    BY DEF RequestOf, Resolutions
  <2>2. NewAccount(account[v], RequestOf(kind, b, p)).reserved
          = Release(account[v].reserved, Stake[b])
    BY <2>1 DEF NewAccount, NewReserved
  <2> QED
    BY <1>1, <2>2
<1>3. IsFiniteSet(posted')
  BY FS_AddElement DEF HeldInv
<1>4. \A k, d : IsPosted(k, d)' <=> IsPosted(k, d) \/ (k = kind /\ d = b)
  BY AddPosting
<1>5. \A d : /\ Resolved(d)' <=> Resolved(d) \/ d = b
             /\ IsPosted("reserve", d)' <=> IsPosted("reserve", d)
  BY <1>4 DEF Resolved, Resolutions
<1>6. \A d \in Bets : Resolved(d)' => IsPosted("reserve", d)'
  BY <1>5 DEF HeldInv
<1>7. ASSUME NEW u \in Users PROVE Held(u)'
  <2>0. (\A d \in BetsOf(u) : Undisputed(d))' <=> (\A d \in BetsOf(u) : Undisputed(d))
    BY DEF BetsOf, Undisputed, Asked
  <2>1. CASE u = v
    <3> SUFFICES ASSUME \A d \in BetsOf(v) : Undisputed(d)
                 PROVE  account'[v].reserved = Total(Stake, Outstanding(v)')
      BY <2>0, <2>1 DEF Held
    <3>1. ~Resolved(b)
      <4> SUFFICES ASSUME NEW k \in Resolutions, IsPosted(k, b)
                   PROVE  FALSE
        BY DEF Resolved
      <4>1. PICK x \in Asked(b) : x.kind = k
        BY DEF PayInv, PostedAsAsked, IsPosted, Resolutions
      <4>2. Undisputed(b)
        BY DEF BetsOf
      <4> QED
        BY <4>1, <4>2 DEF Undisputed
    <3>2. /\ b \in Outstanding(v) /\ Outstanding(v)' = Outstanding(v) \ {b}
      BY <1>5, <3>1 DEF Outstanding, BetsOf
    <3>3. IsFiniteSet(Outstanding(v)) /\ Outstanding(v) \subseteq Bets
      BY OutstandingFinite DEF HeldInv
    <3>4. /\ Total(Stake, Outstanding(v)) =
               Stake[b] + Total(Stake, Outstanding(v) \ {b})
          /\ Total(Stake, Outstanding(v) \ {b}) \in Nat
      <4>1. \A d \in Outstanding(v) : Stake[d] \in Nat /\ Stake[d] \in Int
        BY <3>3, BettingAssumption
      <4>2. IsFiniteSet(Outstanding(v) \ {b})
        BY <3>3, FS_Subset
      <4>3. Total(Stake, Outstanding(v) \ {b}) \in Nat
        BY <4>1, <4>2, TotalType
      <4> QED
        BY <3>2, <3>3, <4>1, <4>3, TotalRemove
    <3>5. account[v].reserved = Total(Stake, Outstanding(v))
      BY <1>1 DEF HeldInv, Held
    <3> QED
      BY <1>1, <1>2, <3>2, <3>4, <3>5 DEF Release
  <2>2. CASE u # v
    <3>1. Outstanding(u)' = Outstanding(u)
      BY <1>5, <2>2 DEF Outstanding, BetsOf
    <3>2. account'[u] = account[u]
      BY <1>2, <2>2
    <3> QED
      BY <2>0, <3>1, <3>2 DEF HeldInv, Held
  <2> QED
    BY <2>1, <2>2
<1> QED
  BY <1>3, <1>6, <1>7 DEF HeldInv

\* All other steps leave the money where it is.
LEMMA MoneyStays ==
  ASSUME NEW c \in Calls, ~(Reserve(c) \/ Credit(c)),
         \/ \E b \in Bets : Place(c, b)
         \/ Operator(c) \/ Step(c) \/ Fail(c) \/ Deliver(c)
  PROVE  UNCHANGED <<account, posted>>
<1>1. CASE \E b \in Bets : Place(c, b)
  BY <1>1 DEF Place, dbVars
<1>2. CASE Operator(c)
  BY <1>2 DEF Operator, Void, Settle, dbVars
<1>3. CASE Step(c)
  BY <1>3 DEF Step, FindExisting, Admit, Reject, InsufficientFunds, CreateBet,
     CreateConflict, ReadBalance, ReadBet, Mark, MarkConflict, dbVars
<1>4. CASE Fail(c) \/ Deliver(c)
  BY <1>4 DEF Fail, Deliver, dbVars
<1> QED
  BY <1>1, <1>2, <1>3, <1>4

LEMMA HeldStep == IInv /\ PayInv /\ HeldInv /\ [Next]_vars => HeldInv'
<1> SUFFICES ASSUME IInv, PayInv, HeldInv, [Next]_vars
             PROVE  HeldInv'
  OBVIOUS
<1>1. CASE UNCHANGED <<account, posted>>
  <2>1. \A k, d : IsPosted(k, d)' <=> IsPosted(k, d)
    BY <1>1 DEF IsPosted
  <2>2. \A d : Resolved(d)' <=> Resolved(d)
    BY <2>1 DEF Resolved
  <2>3. ASSUME NEW u \in Users PROVE Held(u)'
    <3>1. Outstanding(u)' = Outstanding(u)
      BY <2>1, <2>2 DEF Outstanding, BetsOf
    <3>2. (\A d \in BetsOf(u) : Undisputed(d))' <=> (\A d \in BetsOf(u) : Undisputed(d))
      BY DEF BetsOf, Undisputed, Asked
    <3> QED
      BY <1>1, <3>1, <3>2 DEF HeldInv, Held
  <2> QED
    BY <1>1, <2>1, <2>2, <2>3 DEF HeldInv
<1>2. ASSUME NEW c \in Calls, Reserve(c)
      PROVE  HeldInv'
  <2>1. PICK b \in Bets : b = job[c].bet
    BY DEF IInv, TypeOK, Job
  <2>2. WalletCall("reserve", b, 0)
    BY <1>2, <2>1 DEF Reserve
  <2>3. CASE ~IsPosted("reserve", b)
    BY <2>2, <2>3, ReserveHolds DEF WalletCall
  <2> QED
    BY <1>1, <2>2, <2>3 DEF WalletCall
<1>3. ASSUME NEW c \in Calls, Credit(c)
      PROVE  HeldInv'
  <2>1. PICK b \in Bets : b = job[c].bet
    BY DEF IInv, TypeOK, Job
  <2> DEFINE kind == CreditKind(job[c])
             p == job[c].payout
  <2>2. WalletCall(kind, b, p) /\ pc[c] = "credit"
    BY <1>3, <2>1 DEF Credit
  <2>3. p \in Nat /\ kind \in Resolutions
    BY DEF IInv, TypeOK, Job, CreditKind, Resolutions
  <2>4. IsPosted("reserve", b)
    BY <2>1, <2>2 DEF IInv, CallFacts, MoneyBehindStatus
  <2>5. \E x \in Asked(b) : x.kind = kind
    BY <2>1, <2>2 DEF PayInv, AskedOnly, AskOf
  <2> HIDE DEF kind, p
  <2>6. CASE ~IsPosted(kind, b)
    BY <2>2, <2>3, <2>4, <2>5, <2>6, CreditReleases DEF WalletCall
  <2> QED
    BY <1>1, <2>2, <2>6 DEF WalletCall
<1>4. CASE UNCHANGED vars
  BY <1>1, <1>4 DEF vars
<1>5. ASSUME NEW c \in Calls,
             \/ \E b \in Bets : Place(c, b)
             \/ Operator(c) \/ Step(c) \/ Fail(c) \/ Deliver(c)
      PROVE  HeldInv'
  <2>1. CASE ~(Reserve(c) \/ Credit(c))
    <3>1. UNCHANGED <<account, posted>>
      BY <1>5, <2>1, MoneyStays
    <3> QED
      BY <1>1, <3>1
  <2> QED
    BY <1>2, <1>3, <2>1
<1> QED
  BY <1>4, <1>5 DEF Next

\* Only the two wallet calls move money, each under a key of its own bet.
LEMMA MoneyMoves ==
  ASSUME IInv, [Next]_vars
  PROVE  \/ UNCHANGED <<account, posted>>
         \/ \E kind \in Kinds, b \in Bets, p \in Nat : WalletCall(kind, b, p)
<1>1. CASE UNCHANGED vars
  BY <1>1 DEF vars
<1>2. ASSUME NEW c \in Calls,
             \/ \E b \in Bets : Place(c, b)
             \/ Operator(c) \/ Step(c) \/ Fail(c) \/ Deliver(c)
      PROVE  \/ UNCHANGED <<account, posted>>
             \/ \E kind \in Kinds, b \in Bets, p \in Nat : WalletCall(kind, b, p)
  <2>1. CASE ~(Reserve(c) \/ Credit(c))
    BY <1>2, <2>1, MoneyStays
  <2>2. CASE Reserve(c) \/ Credit(c)
    <3>1. PICK b \in Bets : b = job[c].bet
      BY DEF IInv, TypeOK, Job
    <3>2. CreditKind(job[c]) \in Kinds /\ "reserve" \in Kinds
          /\ job[c].payout \in Nat /\ 0 \in Nat
      BY DEF CreditKind, Kinds, IInv, TypeOK, Job
    <3>3. \/ WalletCall("reserve", b, 0)
          \/ WalletCall(CreditKind(job[c]), b, job[c].payout)
      BY <2>2, <3>1 DEF Reserve, Credit
    <3> QED
      BY <3>2, <3>3
  <2> QED
    BY <2>1, <2>2
<1> QED
  BY <1>1, <1>2 DEF Next

-----------------------------------------------------------------------------
\* What a posted movement did to the available balance.
Movement == [q \in Posting |-> IF q.kind = "reserve" THEN -q.amount ELSE q.amount]

MovementsOf(u) == {q \in posted : BettorOf[q.bet] = u}

\* Every balance is what its user began with and the posted movements, and
\* nothing else: no interleaving of placements, retries, settlements and
\* voids, no failure between two statements and no dispute between operators
\* makes money appear or vanish (debit and credit of walletService, one row
\* per key).
BalanceIsExplained ==
  \A u \in Users : account[u].balance = Funds[u] + Total(Movement, MovementsOf(u))

BalanceInv == IsFiniteSet(posted) /\ BalanceIsExplained

LEMMA MovementType ==
  ASSUME TypeOK, IsFiniteSet(posted), NEW u
  PROVE  /\ IsFiniteSet(MovementsOf(u))
         /\ \A q \in MovementsOf(u) : Movement[q] \in Int
<1>1. IsFiniteSet(MovementsOf(u))
  BY FS_Subset DEF MovementsOf
<1>2. \A q \in Posting : q.amount \in Int
  BY DEF Posting
<1> QED
  BY <1>1, <1>2 DEF MovementsOf, Movement, TypeOK

\* A wallet call moves the balance by what it posts.
LEMMA CallExplained ==
  ASSUME TypeOK, BalanceInv, NEW kind \in Kinds, NEW b \in Bets, NEW p \in Nat,
         WalletCall(kind, b, p)
  PROVE  BalanceInv'
<1> DEFINE r == RequestOf(kind, b, p)
           v == BettorOf[b]
           q == [kind |-> kind, bet |-> b, amount |-> r.amount]
<1>1. CASE UNCHANGED <<account, posted>>
  BY <1>1 DEF BalanceInv, BalanceIsExplained, MovementsOf
<1>2. CASE /\ ~IsPosted(kind, b)
           /\ account' = [account EXCEPT ![v] = NewAccount(@, r)]
           /\ posted' = posted \cup {q}
  <2>1. /\ v \in Users /\ account \in [Users -> WalletAccount]
        /\ r.type \in TxType /\ r.amount \in Nat
        /\ Funds \in [Users -> Nat]
    BY RequestType, BettingAssumption DEF TypeOK
  <2>2. q \in Posting /\ q.bet = b /\ q.kind = kind /\ q.amount = r.amount
    BY <2>1 DEF Posting
  <2>3. q \notin posted
    BY <1>2, <2>2 DEF IsPosted
  <2>4. r.type = IF kind = "reserve" THEN "bet_reserve"
                 ELSE IF kind = "settle_win" THEN "bet_win"
                 ELSE IF kind = "settle_loss" THEN "bet_release" ELSE "adjustment"
    BY DEF RequestOf, Kinds
  <2>5. Movement[q] = SignedAmount(r)
    BY <2>2, <2>4 DEF Movement, SignedAmount, DebitTypes, Kinds
  <2>6. IsFiniteSet(posted')
    BY <1>2, FS_AddElement DEF BalanceInv
  <2> HIDE DEF q, r
  <2>7. account'[v].balance = account[v].balance + SignedAmount(r)
        /\ \A u \in Users \ {v} : account'[u] = account[u]
    BY <1>2, <2>1 DEF NewAccount
  <2>8. ASSUME NEW u \in Users
        PROVE  account'[u].balance = Funds[u] + Total(Movement, MovementsOf(u)')
    <3>1. account[u].balance = Funds[u] + Total(Movement, MovementsOf(u))
      BY DEF BalanceInv, BalanceIsExplained
    <3>2. CASE u = v
      <4>1. MovementsOf(u)' = MovementsOf(u) \cup {q} /\ q \notin MovementsOf(u)
        BY <1>2, <2>2, <2>3, <3>2 DEF MovementsOf
      <4>2. /\ IsFiniteSet(MovementsOf(u))
            /\ \A x \in MovementsOf(u) \cup {q} : Movement[x] \in Int
        BY <2>1, <2>2, <2>5, MovementType DEF BalanceInv, SignedAmount
      <4>3. Total(Movement, MovementsOf(u)) \in Int
        BY <4>2, TotalType
      <4>4. Total(Movement, MovementsOf(u)') =
              Total(Movement, MovementsOf(u)) + Movement[q]
        BY <4>1, <4>2, TotalAdd
      <4>5. Movement[q] \in Int /\ Funds[u] \in Int
        BY <2>1, <4>2
      <4> QED
        BY <2>5, <2>7, <3>1, <3>2, <4>3, <4>4, <4>5
    <3>3. CASE u # v
      <4>1. MovementsOf(u)' = MovementsOf(u)
        BY <1>2, <2>2, <3>3 DEF MovementsOf
      <4> QED
        BY <2>7, <3>1, <3>3, <4>1
    <3> QED
      BY <3>2, <3>3
  <2> QED
    BY <2>6, <2>8 DEF BalanceInv, BalanceIsExplained
<1> QED
  BY <1>1, <1>2 DEF WalletCall

LEMMA BalanceStep == IInv /\ BalanceInv /\ [Next]_vars => BalanceInv'
<1> SUFFICES ASSUME IInv, BalanceInv, [Next]_vars
             PROVE  BalanceInv'
  OBVIOUS
<1>1. CASE UNCHANGED <<account, posted>>
  BY <1>1 DEF BalanceInv, BalanceIsExplained, MovementsOf
<1>2. CASE \E kind \in Kinds, b \in Bets, p \in Nat : WalletCall(kind, b, p)
  BY <1>2, CallExplained DEF IInv
<1> QED
  BY <1>1, <1>2, MoneyMoves

-----------------------------------------------------------------------------
\* The types of the betting state; in particular no balance and no reserve
\* is ever negative.
THEOREM TypeCorrect == Spec => []TypeOK
<1>1. IInv => TypeOK
  BY DEF IInv
<1> QED
  BY Invariance, <1>1, PTL

\* The bets table never runs ahead of the money (BetService reserves before
\* it creates, and credits before it settles or voids).
THEOREM MoneyCorrect == Spec => []MoneyBehindStatus
<1>1. IInv => MoneyBehindStatus
  BY DEF IInv
<1> QED
  BY Invariance, <1>1, PTL

\* An undisputed bet is paid what its row records, once, by whoever settles
\* it and however often (settleBet credits before it updates the row, and the
\* wallet's keys are derived from the bet).
THEOREM PaidCorrect == Spec => []PaidAsRecorded
<1>1. IInv /\ PayInv => PaidAsRecorded
  BY PaidWhatWasAsked DEF PaidAsRecorded
<1> QED
  BY Invariance, PayInvariance, <1>1, PTL

\* What a user has reserved is the stakes of the bets that are reserved and
\* not resolved, however many bets, retries and repeated settlements there
\* are (reserveBetFunds and the three releases, each under a key of the bet).
THEOREM ReservedCorrect == Spec => []ReservedIsOutstanding
<1>1. Init => HeldInv
  <2> SUFFICES ASSUME Init PROVE HeldInv
    OBVIOUS
  <2>1. IsFiniteSet(posted) /\ \A k, d : ~IsPosted(k, d)
    BY FS_EmptySet DEF Init, IsPosted
  <2>2. \A d : ~Resolved(d)
    BY <2>1 DEF Resolved
  <2>3. ASSUME NEW u \in Users PROVE Held(u)
    <3>1. Outstanding(u) = {}
      BY <2>1 DEF Outstanding
    <3>2. account[u].reserved = 0
      BY DEF Init
    <3>3. Total(Stake, {}) = 0
      BY FS_EmptySet, TotalFacts
    <3> QED
      BY <3>1, <3>2, <3>3 DEF Held
  <2> QED
    BY <2>1, <2>2, <2>3 DEF HeldInv
<1>2. Spec => []HeldInv
  BY <1>1, HeldStep, Invariance, PayInvariance, PTL DEF Spec
<1>3. HeldInv => ReservedIsOutstanding
  BY HeldIsOutstanding DEF HeldInv
<1> QED
  BY <1>2, <1>3, PTL

\* Every balance is explained by the posted movements of its user's bets,
\* even where operators contradict each other and the reserve is not.
THEOREM BalanceCorrect == Spec => []BalanceIsExplained
<1>1. Init => BalanceInv
  <2> SUFFICES ASSUME Init, NEW u \in Users
               PROVE  account[u].balance = Funds[u] + Total(Movement, MovementsOf(u))
    BY FS_EmptySet DEF Init, BalanceInv, BalanceIsExplained
  <2>1. MovementsOf(u) = {}
    BY DEF Init, MovementsOf
  <2>2. Total(Movement, {}) = 0
    BY FS_EmptySet, TotalFacts
  <2>3. account[u].balance = Funds[u] /\ Funds[u] \in Nat
    BY BettingAssumption DEF Init
  <2> QED
    BY <2>1, <2>2, <2>3
<1>2. Spec => []BalanceInv
  BY <1>1, BalanceStep, Invariance, PTL DEF Spec
<1>3. BalanceInv => BalanceIsExplained
  BY DEF BalanceInv
<1> QED
  BY <1>2, <1>3, PTL

\* What a caller was told has happened is in the database.
THEOREM SuccessCorrect == Spec => []SuccessIsDurable
<1>1. IInv => SuccessIsDurable
  BY DEF IInv, Told, SuccessIsDurable
<1> QED
  BY Invariance, <1>1, PTL

\* A settled or voided bet never changes: the WHERE clause of the two
\* UPDATEs decides every race between settlements and voids.
THEOREM FinalCorrect == Spec => FinalStatus
<1>1. IInv /\ [Next]_vars =>
        [\A b \in Bets : bet[b].status \in {"settled", "voided"} => bet'[b] = bet[b]]_vars
  <2> SUFFICES ASSUME IInv, [Next]_vars
               PROVE  \A b \in Bets : bet[b].status \in {"settled", "voided"} => bet'[b] = bet[b]
    OBVIOUS
  <2> QED
    BY NextInv DEF Forward
<1> QED
  BY Invariance, <1>1, PTL DEF Spec, FinalStatus
=============================================================================
