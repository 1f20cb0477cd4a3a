--------------------------- MODULE GatewayProofs ---------------------------
(***************************************************************************)
(* For every number of bets, clients and calls: a client that waits for an *)
(* answer before it retries is never told, by a handler or by a stored     *)
(* answer, that a bet it has placed was refused.                           *)
(*                                                                         *)
(* The argument is that such a client's attempts come one after another:   *)
(* between the lookup in bets and the answer nobody else creates its bet,  *)
(* and while a refusal is kept no attempt is under way.                    *)
(***************************************************************************)
EXTENDS Gateway, BettingProofs

Placing(c, b) == job[c].op = "place" /\ job[c].bet = b

\* Who runs a placement, and who is left to settle an instant game's bet.
Roles ==
  \A c \in Calls :
    /\ pc[c] # "idle" => job[c].op # "none"
    /\ pc[c] = "done" => reply[c] # 0
    /\ pc[c] = "balance" => job[c].op = "place"
    /\ job[c].op = "place" => reply[c] # 200
    /\ job[c].op \in {"settle", "void"} => job[c].bet \notin Patient \cap Instant

OneAttempt ==
  \A b \in Patient : \A c, d \in Calls : Placing(c, b) /\ Placing(d, b) => c = d

\* What an attempt knows of its bet, as long as it is the only one.
Attempt(c, b) ==
  /\ pc[c] \in {"admit", "reserve", "create"} => bet[b].status = "none"
  /\ pc[c] \in {"read", "credit", "mark"} =>
       b \in Instant /\ bet[b].status = "accepted"
  /\ reply[c] \notin {0, 202, 500} => bet[b].status = "none"

Attempts == \A b \in Patient : \A c \in Calls : Placing(c, b) => Attempt(c, b)

RefusedIsQuiet == \A b \in Patient : RefusalOf(b) => ~InFlight(b)

\* An acceptance, kept or ever told, is of a bet that exists.
AcceptedExists ==
  \A b \in Bets : stored[b].code = 202 \/ b \in accepted => bet[b].status # "none"

GInv ==
  /\ GatewayTypeOK
  /\ Roles
  /\ OneAttempt
  /\ Attempts
  /\ RefusedIsQuiet
  /\ RefusalIsTrue
  /\ AcceptedExists
  /\ AcceptedStaysAccepted
-----------------------------------------------------------------------------
\* Every step of the gateway is a step of the handlers or leaves them alone.
LEMMA GatewayRefines == [GatewayNext]_allVars => [Next]_vars
BY DEF GatewayNext, allVars, Replay, LookupFails, Receive, Expire, Respond,
       RespondOperator, Next

LEMMA GatewayBetting == GatewaySpec => []IInv
<1>1. GatewayInit => IInv
  BY InitInv DEF GatewayInit
<1>2. IInv /\ [GatewayNext]_allVars => IInv'
  BY NextInv, GatewayRefines
<1> QED
  BY <1>1, <1>2, PTL DEF GatewaySpec

-----------------------------------------------------------------------------
\* The statements of the handlers, seen from the gateway.
Handler(c) == Operator(c) \/ Step(c) \/ Fail(c)

LEMMA HandlerNext ==
  ASSUME IInv, NEW c \in Calls, Handler(c)
  PROVE  /\ IInv' /\ Forward
         /\ \A d \in Calls \ {c} :
              pc'[d] = pc[d] /\ job'[d] = job[d] /\ reply'[d] = reply[d]
<1>1. Next
  BY DEF Next, Handler
<1>2. TypeOK
  BY DEF IInv
<1> QED
  BY <1>1, <1>2, NextInv, OthersStay DEF Handler

\* What became of the call's own request, and of its bet.
LEMMA OwnStep ==
  ASSUME IInv, NEW c \in Calls, Step(c) \/ Fail(c)
  PROVE  /\ job'[c].op = job[c].op /\ job'[c].bet = job[c].bet
         /\ pc[c] \notin {"idle", "done"}
         /\ \/ pc'[c] \notin {"idle", "done"} /\ reply'[c] = 0
            \/ pc'[c] = "done" /\ reply'[c] \notin {0, 200}
            \/ pc'[c] = "done" /\ reply'[c] = 200 /\ job[c].op # "place"
<1>1. /\ pc \in [Calls -> Steps] /\ job \in [Calls -> Job]
      /\ reply \in [Calls -> HttpStatus]
      /\ bet[job[c].bet].status \in {"none", "accepted", "settled", "voided"}
  BY DEF IInv, TypeOK, Job, Status
<1>2. pc[c] # "done" => reply[c] = 0
  BY DEF IInv, CallFacts
<1>3. CASE CreateBet(c)
  BY <1>1, <1>2, <1>3 DEF CreateBet, Goto, Job
<1>4. CASE ReadBet(c)
  <2>1. /\ pc[c] = "read"
        /\ Goto(c, "credit") \/ \E code \in {403, 404, 409} : End(c, code)
    BY <1>4, ReadBetEnds DEF IInv
  <2> QED
    BY <1>1, <1>2, <2>1 DEF Goto, End
<1>5. CASE Mark(c)
  BY <1>1, <1>2, <1>5 DEF Mark, Goto, End
<1>6. CASE FindExisting(c) \/ Admit(c) \/ Reserve(c) \/ Credit(c)
  BY <1>1, <1>2, <1>6 DEF FindExisting, Admit, Reserve, Credit, Goto
<1>7. CASE \/ Reject(c) \/ InsufficientFunds(c) \/ CreateConflict(c)
           \/ ReadBalance(c) \/ MarkConflict(c) \/ Fail(c)
  <2>1. pc[c] \notin {"idle", "done"}
    BY <1>7 DEF Reject, InsufficientFunds, CreateConflict, ReadBalance,
                MarkConflict, Fail
  <2>2. PICK code \in {202, 402, 403, 404, 409, 422, 500} : End(c, code)
    BY <1>7 DEF Reject, InsufficientFunds, CreateConflict, ReadBalance,
                MarkConflict, Fail
  <2> QED
    BY <1>1, <2>1, <2>2 DEF End
<1> QED
  BY <1>3, <1>4, <1>5, <1>6, <1>7 DEF Step

LEMMA OperatorStep ==
  ASSUME IInv, NEW c \in Calls, Operator(c)
  PROVE  /\ pc'[c] = "read" /\ job'[c].op \in {"settle", "void"}
         /\ reply'[c] = 0 /\ job'[c].bet \notin Patient \cap Instant
<1>1. pc \in [Calls -> Steps] /\ job \in [Calls -> Job] /\ reply'[c] = reply[c]
      /\ pc[c] = "idle"
  BY DEF IInv, TypeOK, Operator, Void, Settle, Start
<1>2. reply[c] = 0
  BY <1>1 DEF IInv, CallFacts
<1>3. PICK b \in Bets : Void(c, b) \/ \E p \in Settlements[b] : Settle(c, b, p)
  BY DEF Operator
<1>4. CASE Void(c, b)
  BY <1>1, <1>2, <1>4, GatewayAssumption DEF Void, Start
<1>5. CASE \E p \in Settlements[b] : Settle(c, b, p)
  BY <1>1, <1>2, <1>5, GatewayAssumption DEF Settle, Start
<1> QED
  BY <1>3, <1>4, <1>5

\* A row is created by a placement of its bet and resolved when it is open.
LEMMA BetChanges ==
  ASSUME IInv, NEW c \in Calls, Handler(c), NEW b \in Bets, bet'[b] # bet[b]
  PROVE  /\ job[c].bet = b
         /\ \/ pc[c] = "create" /\ bet[b].status = "none" /\ job[c].op = "place"
            \/ pc[c] = "mark" /\ bet[b].status = "accepted"
<1>1. CreateBet(c) \/ Mark(c)
  BY DEF Handler, Operator, Void, Settle, Step, Fail, FindExisting, Admit, Reject,
         Reserve, InsufficientFunds, CreateConflict, ReadBalance, ReadBet, Credit,
         MarkConflict, dbVars
<1>2. job[c].bet = b
  BY <1>1 DEF CreateBet, Mark, IInv, TypeOK
<1>3. CASE CreateBet(c)
  BY <1>2, <1>3 DEF CreateBet, IInv, CallFacts
<1>4. CASE Mark(c)
  BY <1>2, <1>4 DEF Mark
<1> QED
  BY <1>1, <1>2, <1>3, <1>4

\* The answers a placement can end with.
LEMMA RolesStep ==
  ASSUME IInv, Roles, NEW c \in Calls, Handler(c)
  PROVE  Roles'
<1> DEFINE Role(d) ==
      /\ pc[d] # "idle" => job[d].op # "none"
      /\ pc[d] = "done" => reply[d] # 0
      /\ pc[d] = "balance" => job[d].op = "place"
      /\ job[d].op = "place" => reply[d] # 200
      /\ job[d].op \in {"settle", "void"} => job[d].bet \notin Patient \cap Instant
<1>1. \A d \in Calls : Role(d)
  BY DEF Roles
<1>2. \A d \in Calls \ {c} : Role(d)'
  BY <1>1, HandlerNext
<1>3. CASE Operator(c)
  BY <1>2, <1>3, OperatorStep DEF Roles
<1>4. CASE Step(c) \/ Fail(c)
  <2>1. pc'[c] = "balance" => job[c].op = "place"
    <3>1. /\ pc \in [Calls -> Steps]
          /\ bet[job[c].bet].status \in {"none", "accepted", "settled", "voided"}
      BY DEF IInv, TypeOK, Job, Status
    <3>2. SUFFICES ASSUME pc'[c] = "balance"
                   PROVE  job[c].op = "place"
      OBVIOUS
    <3>3. FindExisting(c) \/ CreateBet(c) \/ Mark(c)
      BY <1>4, <3>1, <3>2 DEF Step, Fail, Admit, Reject, Reserve, InsufficientFunds,
           CreateConflict, ReadBalance, ReadBet, Credit, MarkConflict, Goto, End
    <3> QED
      BY <3>1, <3>2, <3>3
      DEF FindExisting, CreateBet, Mark, Goto, End, IInv, CallFacts
  <2>2. Role(c)'
    BY <1>1, <1>4, <2>1, OwnStep
  <2> QED
    BY <1>2, <2>2 DEF Roles
<1> QED
  BY <1>3, <1>4 DEF Handler

\* What the only attempt knows stays true while it goes on.
LEMMA OwnAttempt ==
  ASSUME IInv, Roles, NEW c \in Calls, NEW b \in Patient, Step(c) \/ Fail(c),
         Placing(c, b), Attempt(c, b)
  PROVE  Attempt(c, b)'
<1>1. /\ pc[c] \notin {"idle", "done"} /\ job[c].op = "place" /\ job[c].bet = b
      /\ b \in Bets /\ reply[c] = 0
      /\ pc \in [Calls -> Steps] /\ reply \in [Calls -> HttpStatus]
      /\ bet \in [Bets -> [status: Status, payout: Nat]]
  BY OwnStep, GatewayAssumption DEF IInv, CallFacts, TypeOK, Placing
<1>2. CASE FindExisting(c) \/ Admit(c) \/ Reserve(c)
  BY <1>1, <1>2 DEF FindExisting, Admit, Reserve, Goto, dbVars, Attempt
<1>3. CASE Reject(c) \/ InsufficientFunds(c) \/ CreateConflict(c)
  BY <1>1, <1>3
  DEF Reject, InsufficientFunds, CreateConflict, End, dbVars, Attempt
<1>4. CASE ReadBalance(c) \/ MarkConflict(c) \/ Fail(c)
  <2>1. PICK code \in {202, 500} : End(c, code)
    BY <1>4 DEF ReadBalance, MarkConflict, Fail
  <2> QED
    BY <1>1, <2>1 DEF End, Attempt
<1>5. CASE CreateBet(c)
  <2>1. bet'[b].status = "accepted" /\ reply'[c] = 0
        /\ \/ pc'[c] = "read" /\ b \in Instant
           \/ pc'[c] = "balance"
    BY <1>1, <1>5 DEF CreateBet, Goto
  <2> QED
    BY <2>1 DEF Attempt
<1>6. CASE ReadBet(c)
  <2>1. bet[b].status = "accepted" /\ b \in Instant
    BY <1>1, <1>6 DEF ReadBet, Attempt
  <2>2. pc'[c] = "credit" /\ bet' = bet /\ reply'[c] = 0
    BY <1>1, <1>6, <2>1 DEF ReadBet, Goto, dbVars
  <2> QED
    BY <2>1, <2>2 DEF Attempt
<1>7. CASE Credit(c)
  <2>1. bet[b].status = "accepted" /\ b \in Instant
    BY <1>1, <1>7 DEF Credit, Attempt
  <2>2. pc'[c] = "mark" /\ bet' = bet /\ reply'[c] = 0
    BY <1>1, <1>7 DEF Credit, Goto
  <2> QED
    BY <2>1, <2>2 DEF Attempt
<1>8. CASE Mark(c)
  <2>1. pc'[c] = "balance" /\ reply'[c] = 0
    BY <1>1, <1>8 DEF Mark, Goto
  <2> QED
    BY <2>1 DEF Attempt
<1> QED
  BY <1>2, <1>3, <1>4, <1>5, <1>6, <1>7, <1>8 DEF Step
LEMMA AttemptsStep ==
  ASSUME IInv, Roles, OneAttempt, Attempts, NEW c \in Calls, Handler(c)
  PROVE  OneAttempt' /\ Attempts' /\ \A b \in Bets : InFlight(b)' => InFlight(b)
<1>1. \A d \in Calls, b \in Bets : Placing(d, b)' => Placing(d, b)
  <2>1. \A d \in Calls \ {c}, b \in Bets : Placing(d, b)' => Placing(d, b)
    BY HandlerNext DEF Placing
  <2>2. \A b \in Bets : Placing(c, b)' => Placing(c, b)
    BY OwnStep, OperatorStep DEF Handler, Placing
  <2> QED
    BY <2>1, <2>2
<1>2. Patient \subseteq Bets
  BY GatewayAssumption
<1>3. OneAttempt'
  BY <1>1, <1>2 DEF OneAttempt
<1>4. ASSUME NEW b \in Patient, NEW d \in Calls, Placing(d, b)'
      PROVE  Attempt(d, b)'
  <2>1. Placing(d, b) /\ Attempt(d, b) /\ b \in Bets
    BY <1>1, <1>2, <1>4 DEF Attempts
  <2>2. CASE d = c
    <3>1. Step(c) \/ Fail(c)
      BY <1>4, <2>2, OperatorStep DEF Handler, Placing
    <3> QED
      BY <2>1, <2>2, <3>1, OwnAttempt
  <2>3. CASE d # c
    <3>1. pc'[d] = pc[d] /\ reply'[d] = reply[d]
      BY <2>3, HandlerNext
    <3>2. CASE bet'[b] = bet[b]
      BY <2>1, <3>1, <3>2 DEF Attempt
    <3>3. CASE bet'[b] # bet[b]
      <4>1. /\ job[c].bet = b
            /\ \/ pc[c] = "create" /\ bet[b].status = "none" /\ job[c].op = "place"
               \/ pc[c] = "mark" /\ bet[b].status = "accepted"
        BY <2>1, <3>3, BetChanges
      <4>2. job[c].op # "place"
        BY <2>1, <2>3, <4>1 DEF OneAttempt, Placing
      <4>3. bet[b].status = "accepted" /\ b \notin Instant
        <5>1. job[c].op \in {"none", "place", "settle", "void"}
          BY DEF IInv, TypeOK, Job
        <5> QED
          BY <4>1, <4>2, <5>1 DEF Roles
      <4> QED
        BY <2>1, <3>1, <4>3 DEF Attempt
    <3> QED
      BY <3>2, <3>3
  <2> QED
    BY <2>2, <2>3
<1>5. Attempts'
  BY <1>4 DEF Attempts
<1> QED
  BY <1>1, <1>3, <1>5 DEF InFlight, Placing

LEMMA HandlerInv ==
  ASSUME IInv, GInv, NEW c \in Calls, Handler(c), UNCHANGED gatewayVars
  PROVE  GInv'
<1>1. GatewayTypeOK' /\ \A b \in Bets : RefusalOf(b)' = RefusalOf(b)
  BY DEF GInv, GatewayTypeOK, gatewayVars, RefusalOf
<1>2. Roles' /\ OneAttempt' /\ Attempts'
  BY RolesStep, AttemptsStep DEF GInv
<1>3. Patient \subseteq Bets
  BY GatewayAssumption
<1>4. RefusedIsQuiet'
  BY <1>1, <1>3, AttemptsStep DEF GInv, RefusedIsQuiet
<1>5. RefusalIsTrue'
  <2> SUFFICES ASSUME NEW b \in Patient, RefusalOf(b)
               PROVE  bet'[b].status = "none"
    BY <1>1, <1>3 DEF RefusalIsTrue
  <2>1. b \in Bets /\ ~InFlight(b) /\ bet[b].status = "none"
    BY <1>3 DEF GInv, RefusedIsQuiet, RefusalIsTrue
  <2>2. bet'[b] = bet[b]
    BY <2>1, BetChanges DEF InFlight
  <2> QED
    BY <2>1, <2>2
<1>6. AcceptedExists' /\ AcceptedStaysAccepted'
  BY HandlerNext
  DEF GInv, AcceptedExists, AcceptedStaysAccepted, gatewayVars, Forward
<1> QED
  BY <1>1, <1>2, <1>4, <1>5, <1>6 DEF GInv
-----------------------------------------------------------------------------
\* A client that waits begins an attempt when no other is under way, and no
\* refusal is kept.
LEMMA ReceiveInv ==
  ASSUME IInv, GInv, NEW c \in Calls, NEW b \in Bets, Receive(c, b)
  PROVE  GInv'
<1>1. /\ pc[c] = "idle" /\ reply[c] = 0
      /\ UNCHANGED <<bet, reply, stored, told, accepted>>
      /\ pc'[c] = "find" /\ job'[c] = [op |-> "place", bet |-> b, payout |-> 0]
      /\ \A d \in Calls \ {c} : pc'[d] = pc[d] /\ job'[d] = job[d]
  BY DEF Receive, Place, Start, IInv, TypeOK, CallFacts, dbVars, gatewayVars
<1>2. /\ b \in Patient => \A d \in Calls : ~Placing(d, b)
      /\ ~stored[b].fresh
  BY DEF Receive, Guarded, InFlight, Placing
<1>3. GatewayTypeOK' /\ RefusalIsTrue' /\ AcceptedExists' /\ AcceptedStaysAccepted'
  BY <1>1 DEF GInv, GatewayTypeOK, RefusalIsTrue, RefusalOf, AcceptedExists,
              AcceptedStaysAccepted
<1>4. Roles'
  BY <1>1 DEF GInv, Roles
<1>5. OneAttempt'
  BY <1>1, <1>2 DEF GInv, OneAttempt, Placing
<1>6. Attempts'
  BY <1>1, <1>2 DEF GInv, Attempts, Attempt, Placing
<1>7. RefusedIsQuiet'
  <2> SUFFICES ASSUME NEW e \in Patient, RefusalOf(e)
               PROVE  ~InFlight(e)'
    BY <1>1 DEF RefusedIsQuiet, RefusalOf
  <2>1. e # b /\ ~InFlight(e)
    BY <1>2 DEF RefusalOf, GInv, RefusedIsQuiet
  <2> QED
    BY <1>1, <2>1 DEF InFlight
<1> QED
  BY <1>3, <1>4, <1>5, <1>6, <1>7 DEF GInv

\* When the answer has left, the attempt is over.
LEMMA AnsweredInv ==
  ASSUME IInv, GInv, NEW c \in Calls, Deliver(c)
  PROVE  /\ Roles' /\ OneAttempt' /\ Attempts'
         /\ \A b \in Bets : InFlight(b)' => InFlight(b)
         /\ \A b \in Patient : Placing(c, b) => ~InFlight(b)'
<1>1. /\ UNCHANGED bet /\ pc'[c] = "idle" /\ job'[c].op = "none" /\ reply'[c] = 0
      /\ \A d \in Calls \ {c} :
           pc'[d] = pc[d] /\ job'[d] = job[d] /\ reply'[d] = reply[d]
  BY NoJobType DEF Deliver, IInv, TypeOK, dbVars
<1>2. Roles'
  BY <1>1 DEF GInv, Roles
<1>3. \A d \in Calls : \A b : Placing(d, b)' => d # c /\ Placing(d, b)
  BY <1>1 DEF Placing
<1>4. OneAttempt'
  BY <1>3 DEF GInv, OneAttempt
<1>5. Attempts'
  BY <1>1, <1>3 DEF GInv, Attempts, Attempt
<1>6. \A b \in Patient : Placing(c, b) => ~InFlight(b)'
  BY <1>3 DEF GInv, OneAttempt, InFlight, Placing
<1>7. \A b \in Bets : InFlight(b)' => InFlight(b)
  BY <1>3 DEF InFlight, Placing
<1> QED
  BY <1>2, <1>4, <1>5, <1>6, <1>7

LEMMA RespondOperatorInv ==
  ASSUME IInv, GInv, NEW c \in Calls, RespondOperator(c)
  PROVE  GInv'
<1>1. Deliver(c) /\ UNCHANGED <<bet, stored, told, accepted>>
  BY DEF RespondOperator, Deliver, gatewayVars, dbVars
<1>2. GatewayTypeOK' /\ RefusalIsTrue' /\ AcceptedExists' /\ AcceptedStaysAccepted'
  BY <1>1 DEF GInv, GatewayTypeOK, RefusalIsTrue, RefusalOf, AcceptedExists,
              AcceptedStaysAccepted
<1>3. RefusedIsQuiet'
  BY <1>1, AnsweredInv, GatewayAssumption DEF GInv, RefusedIsQuiet, RefusalOf
<1> QED
  BY <1>1, <1>2, <1>3, AnsweredInv DEF GInv

\* What is stored is the answer of the only attempt, so it is true.
LEMMA RespondInv ==
  ASSUME IInv, GInv, NEW c \in Calls, Respond(c)
  PROVE  GInv'
<1>1. PICK b \in Bets : b = job[c].bet
  BY DEF IInv, TypeOK, Job
<1>2. PICK code \in HttpStatus : code = reply[c]
  BY DEF IInv, TypeOK
<1>3. /\ Deliver(c) /\ UNCHANGED bet /\ Placing(c, b)
      /\ Tell(b, code)
      /\ \/ Kept(code) /\ Store(b, code)
         \/ UNCHANGED stored
  BY <1>1, <1>2 DEF Respond, Deliver, dbVars, Placing
<1>4. \A e \in Bets \ {b} : stored'[e] = stored[e] /\ told'[e] = told[e]
  BY <1>3 DEF Tell, Store, GInv, GatewayTypeOK
<1>5. /\ told'[b] = code
      /\ \/ stored'[b] = stored[b]
         \/ /\ stored'[b] = [code |-> code, fresh |-> TRUE]
            /\ code >= 200 /\ code < 500
  <2>1. told'[b] = code
    BY <1>3 DEF Tell, GInv, GatewayTypeOK
  <2>2. CASE UNCHANGED stored
    BY <2>1, <2>2
  <2>3. CASE Kept(code) /\ Store(b, code)
    <3>1. stored'[b] = IF stored[b].code # 0 THEN stored[b]
                       ELSE [code |-> code, fresh |-> TRUE]
      BY <2>3 DEF Store, GInv, GatewayTypeOK
    <3> QED
      BY <2>1, <2>3, <3>1 DEF Kept
  <2> QED
    BY <1>3, <2>1, <2>2, <2>3
<1>6. code # 200
  BY <1>2, <1>3 DEF GInv, Roles, Placing
<1>7. GatewayTypeOK'
  <2>1. told' \in [Bets -> HttpStatus] /\ accepted' \subseteq Bets
    BY <1>3 DEF Tell, GInv, GatewayTypeOK
  <2>2. stored' \in [Bets -> [code: {0, 202, 402, 403, 404, 409, 422}, fresh: BOOLEAN]]
    <3> DEFINE Record == [code: {0, 202, 402, 403, 404, 409, 422}, fresh: BOOLEAN]
    <3>1. Kept(code) => [code |-> code, fresh |-> TRUE] \in Record
      BY <1>6 DEF Kept, HttpStatus
    <3>2. stored \in [Bets -> Record]
      BY DEF GInv, GatewayTypeOK
    <3> HIDE DEF Record
    <3>3. stored' \in [Bets -> Record]
      BY <1>3, <3>1, <3>2 DEF Store
    <3> QED
      BY <3>3 DEF Record
  <2> QED
    BY <2>1, <2>2 DEF GatewayTypeOK
<1>8. code = 202 => bet[b].status # "none"
  BY <1>1, <1>2 DEF IInv, Told
<1>9. AcceptedExists'
  BY <1>3, <1>4, <1>5, <1>8 DEF Tell, GInv, AcceptedExists
<1>10. RefusalIsTrue'
  <2> SUFFICES ASSUME NEW e \in Patient, RefusalOf(e)'
               PROVE  bet[e].status = "none"
    BY <1>3 DEF RefusalIsTrue
  <2>1. e \in Bets
    BY GatewayAssumption
  <2>2. CASE RefusalOf(e)
    BY <2>2 DEF GInv, RefusalIsTrue
  <2>3. CASE ~RefusalOf(e)
    <3>1. e = b /\ code \notin {0, 202, 500}
      BY <1>4, <1>5, <2>1, <2>3 DEF RefusalOf
    <3> QED
      BY <1>2, <1>3, <3>1 DEF GInv, Attempts, Attempt
  <2> QED
    BY <2>2, <2>3
<1>11. RefusedIsQuiet'
  <2> SUFFICES ASSUME NEW e \in Patient, RefusalOf(e)'
               PROVE  ~InFlight(e)'
    BY DEF RefusedIsQuiet
  <2>1. e \in Bets
    BY GatewayAssumption
  <2>2. CASE e = b
    BY <1>3, <2>2, AnsweredInv
  <2>3. CASE e # b
    <3>1. RefusalOf(e)
      BY <1>4, <2>1, <2>3 DEF RefusalOf
    <3> QED
      BY <1>3, <2>1, <3>1, AnsweredInv DEF GInv, RefusedIsQuiet
  <2> QED
    BY <2>2, <2>3
<1>12. b \in Patient /\ b \in accepted => code \in {202, 500}
  <2>1. b \in accepted => bet[b].status # "none"
    BY DEF GInv, AcceptedExists
  <2>2. pc[c] = "done" /\ Placing(c, b)
    BY <1>3 DEF Deliver
  <2> QED
    BY <1>2, <2>1, <2>2 DEF GInv, Roles, Attempts, Attempt
<1>13. AcceptedStaysAccepted'
  BY <1>3, <1>4, <1>5, <1>12, GatewayAssumption DEF Tell, GInv, AcceptedStaysAccepted
<1> QED
  BY <1>3, <1>7, <1>9, <1>10, <1>11, <1>13, AnsweredInv DEF GInv

\* Repeating an answer, failing to look for one and letting one expire touch
\* no bet and no call.
LEMMA StoreOnlyInv ==
  ASSUME IInv, GInv, NEW b \in Bets, Replay(b) \/ LookupFails(b) \/ Expire(b)
  PROVE  GInv'
<1>1. UNCHANGED <<bet, pc, job, reply>>
  BY DEF Replay, LookupFails, Expire, vars
<1>2. Roles' /\ OneAttempt' /\ Attempts'
  BY <1>1 DEF GInv, Roles, OneAttempt, Attempts, Attempt, Placing
<1>3. GatewayTypeOK'
  <2>1. /\ stored \in [Bets -> [code: {0, 202, 402, 403, 404, 409, 422},
                               fresh: BOOLEAN]]
        /\ told \in [Bets -> HttpStatus] /\ accepted \subseteq Bets
    BY DEF GInv, GatewayTypeOK
  <2>2. CASE Replay(b) \/ LookupFails(b)
    <3>1. stored[b].code \in HttpStatus /\ 500 \in HttpStatus
      BY <2>1 DEF HttpStatus
    <3> QED
      BY <2>1, <2>2, <3>1 DEF Replay, LookupFails, Tell, GatewayTypeOK
  <2>3. CASE Expire(b)
    <3> DEFINE Record == [code: {0, 202, 402, 403, 404, 409, 422}, fresh: BOOLEAN]
               expired == [code |-> stored[b].code, fresh |-> FALSE]
    <3>1. expired \in Record
      <4>1. stored[b].code \in {0, 202, 402, 403, 404, 409, 422}
        BY <2>1
      <4> QED
        BY <4>1
    <3>2. /\ stored' = [stored EXCEPT ![b] = expired]
          /\ told' = told /\ accepted' = accepted
      BY <2>3 DEF Expire
    <3>3. stored \in [Bets -> Record]
      BY <2>1
    <3> HIDE DEF Record, expired
    <3>4. stored' \in [Bets -> Record]
      BY <3>1, <3>2, <3>3
    <3> QED
      BY <2>1, <3>2, <3>4 DEF GatewayTypeOK, Record
  <2> QED
    BY <2>2, <2>3
<1>4. \A e \in Bets : /\ stored'[e].code = stored[e].code
                      /\ stored'[e].fresh => stored[e].fresh
  BY DEF Replay, LookupFails, Expire, GInv, GatewayTypeOK
<1>5. \A e \in Bets :
        /\ \/ told'[e] = told[e]
           \/ told'[e] = 500
           \/ told'[e] = stored[e].code /\ stored[e].fresh
        /\ e \in accepted' => e \in accepted \/ stored[e].code = 202
  BY DEF Replay, LookupFails, Expire, Tell, Guarded, GInv, GatewayTypeOK
<1>6. RefusalIsTrue' /\ RefusedIsQuiet'
  BY <1>1, <1>4, GatewayAssumption
  DEF GInv, RefusalIsTrue, RefusedIsQuiet, RefusalOf, InFlight
<1>7. AcceptedExists'
  BY <1>1, <1>4, <1>5 DEF GInv, AcceptedExists
<1>8. AcceptedStaysAccepted'
  <2> SUFFICES ASSUME NEW e \in Patient, e \in accepted'
               PROVE  told'[e] \in {202, 500}
    BY DEF AcceptedStaysAccepted
  <2>1. e \in Bets /\ bet[e].status # "none"
    BY <1>1, <1>7, GatewayAssumption DEF AcceptedExists
  <2>2. stored[e].fresh => stored[e].code = 202
    BY <2>1 DEF GInv, RefusalIsTrue, RefusalOf
  <2>3. CASE e \in accepted
    BY <1>5, <2>1, <2>2, <2>3 DEF GInv, AcceptedStaysAccepted
  <2>4. CASE e \notin accepted
    BY <2>1, <2>4 DEF Replay, LookupFails, Expire, Tell, GInv, GatewayTypeOK
  <2> QED
    BY <2>3, <2>4
<1> QED
  BY <1>2, <1>3, <1>6, <1>7, <1>8 DEF GInv

LEMMA GatewayStep == IInv /\ GInv /\ [GatewayNext]_allVars => GInv'
<1> SUFFICES ASSUME IInv, GInv, [GatewayNext]_allVars
             PROVE  GInv'
  OBVIOUS
<1>1. CASE UNCHANGED allVars
  BY <1>1 DEF allVars, vars, GInv, GatewayTypeOK, Roles, OneAttempt, Attempts,
              Attempt, Placing, RefusedIsQuiet, RefusalIsTrue, RefusalOf,
              InFlight, AcceptedExists, AcceptedStaysAccepted
<1>2. ASSUME NEW c \in Calls, Operator(c) \/ Step(c) \/ Fail(c), UNCHANGED gatewayVars
      PROVE  GInv'
  BY <1>2, HandlerInv DEF Handler
<1> QED
  BY <1>1, <1>2, StoreOnlyInv, ReceiveInv, RespondInv, RespondOperatorInv
  DEF GatewayNext

LEMMA GatewayInitInv == GatewayInit => GInv
<1> SUFFICES ASSUME GatewayInit PROVE GInv
  OBVIOUS
<1>1. GatewayTypeOK
  BY DEF GatewayInit, GatewayTypeOK, NoRecord, HttpStatus
<1>2. Roles /\ OneAttempt /\ Attempts
  BY NoJobType DEF GatewayInit, Init, Roles, OneAttempt, Attempts, Placing
<1>3. RefusedIsQuiet /\ RefusalIsTrue /\ AcceptedExists /\ AcceptedStaysAccepted
  BY GatewayAssumption DEF GatewayInit, RefusedIsQuiet, RefusalIsTrue, RefusalOf,
     NoRecord, AcceptedExists, AcceptedStaysAccepted
<1> QED
  BY <1>1, <1>2, <1>3 DEF GInv

LEMMA GatewayInvariance == GatewaySpec => [](IInv /\ GInv)
<1>1. GatewaySpec => []IInv
  BY GatewayBetting
<1> QED
  BY <1>1, GatewayInitInv, GatewayStep, PTL DEF GatewaySpec
-----------------------------------------------------------------------------
\* The gateway implements the handlers: the guard, the stored answers and
\* their expiry add nothing to what happens to bets and wallets, so every
\* theorem of BettingProofs holds behind it (preHandler and onSend of
\* middleware/idempotency only decide whether placeBet runs).
THEOREM GatewayImplementsBetting == GatewaySpec => Spec
<1>1. GatewayInit => Init
  BY DEF GatewayInit
<1> QED
  BY <1>1, GatewayRefines, PTL DEF GatewaySpec, Spec

\* The kept answers are answers of a placement below 500, the given ones
\* statuses of the routes (the onSend hook in middleware/idempotency).
THEOREM GatewayTypeCorrect == GatewaySpec => []GatewayTypeOK
<1>1. GInv => GatewayTypeOK
  BY DEF GInv
<1> QED
  BY <1>1, GatewayInvariance, PTL

\* A refusal that will be repeated to a client that waits for its answers is
\* true, whatever attempts failed half way and whatever could not be stored.
THEOREM RefusalCorrect == GatewaySpec => []RefusalIsTrue
<1>1. GInv => RefusalIsTrue
  BY DEF GInv
<1> QED
  BY <1>1, GatewayInvariance, PTL

\* Once a client that waits was told that its bet is placed, no answer ever
\* refuses it: not one from the store, and not one of a handler that runs
\* again after the answer was lost or has expired.
THEOREM AcceptedCorrect == GatewaySpec => []AcceptedStaysAccepted
<1>1. GInv => AcceptedStaysAccepted
  BY DEF GInv
<1> QED
  BY <1>1, GatewayInvariance, PTL
=============================================================================
