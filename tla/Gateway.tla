------------------------------ MODULE Gateway ------------------------------
(***************************************************************************)
(* POST /bets/place as a client sees it: idempotencyGuard and the onSend   *)
(* hook around the handlers of module Betting.  The guard looks for an     *)
(* answer stored under the client's key before the handler runs; the hook  *)
(* stores the answer after it ran.  Nothing is stored while it runs, so    *)
(* the guard lets a second attempt in while the first is under way.        *)
(***************************************************************************)
EXTENDS Betting

CONSTANT
  Patient     \* the bets whose client waits for an answer before it retries

\* An instant game's bet is settled by its own placement; an operator who
\* settles it in between turns the answer to the placement into a refusal.
ASSUME GatewayAssumption ==
  /\ Patient \subseteq Bets
  /\ \A b \in Patient \cap Instant : Settlements[b] = {} /\ b \notin Voidable

VARIABLES
  stored,     \* stored[b]: the idempotency_keys row of b's key
  told,       \* told[b]: the last answer to an attempt to place b
  accepted    \* history, read by no guard: the bets ever answered with 202

gatewayVars == <<stored, told, accepted>>
allVars == <<vars, stored, told, accepted>>

NoRecord == [code |-> 0, fresh |-> FALSE]

\* A 5xx is never stored: the client must be able to try again.
GatewayTypeOK ==
  /\ stored \in [Bets -> [code: {0, 202, 402, 403, 404, 409, 422}, fresh: BOOLEAN]]
  /\ told \in [Bets -> HttpStatus]
  /\ accepted \subseteq Bets

GatewayInit ==
  /\ Init
  /\ stored = [b \in Bets |-> NoRecord]
  /\ told = [b \in Bets |-> 0]
  /\ accepted = {}

-----------------------------------------------------------------------------
\* Mutants of Kept (any answer is stored) and Guarded (an expired record is
\* still replayed).
KeptAlways(code) == TRUE
GuardedForever(b) == stored[b].code # 0

\* The statuses the hook stores.
Kept(code) == code >= 200 /\ code < 500

\* expires_at > NOW(): an expired record is as good as none to the guard.
Guarded(b) == stored[b].fresh

\* The client of b gets an answer.
Tell(b, code) ==
  /\ told' = [told EXCEPT ![b] = code]
  /\ accepted' = accepted \cup {e \in {b} : code = 202}

InFlight(b) == \E c \in Calls : job[c].op = "place" /\ job[c].bet = b

\* The guard finds nothing: the handler runs.
Receive(c, b) ==
  /\ b \in Patient => ~InFlight(b)
  /\ ~Guarded(b)
  /\ Place(c, b)
  /\ UNCHANGED gatewayVars

\* The guard finds an answer and repeats it.
Replay(b) ==
  /\ b \in Patient => ~InFlight(b)
  /\ Guarded(b)
  /\ Tell(b, stored[b].code)
  /\ UNCHANGED <<vars, stored>>

\* The guard's query fails.  Nothing catches the error, so the request ends
\* with 500 before the handler, and there is nothing for the hook to store.
LookupFails(b) ==
  /\ b \in Patient => ~InFlight(b)
  /\ Tell(b, 500)
  /\ UNCHANGED <<vars, stored>>

\* INSERT ... ON CONFLICT (key, service) DO NOTHING: the first answer stays,
\* even after it has expired, for nothing deletes it.
Store(b, code) ==
  stored' = [stored EXCEPT ![b] =
    IF @.code # 0 THEN @ ELSE [code |-> code, fresh |-> TRUE]]

\* The onSend hook, then the answer; a store that fails is ignored.
Respond(c) ==
  LET b == job[c].bet IN
  /\ job[c].op = "place"
  /\ Deliver(c)
  /\ Tell(b, reply[c])
  /\ \/ Kept(reply[c]) /\ Store(b, reply[c])
     \/ UNCHANGED stored

\* Settle and void have no guard.
RespondOperator(c) ==
  /\ job[c].op # "place"
  /\ Deliver(c)
  /\ UNCHANGED gatewayVars

\* ttlHours go by.
Expire(b) ==
  /\ stored[b].fresh
  /\ stored' = [stored EXCEPT ![b] = [code |-> @.code, fresh |-> FALSE]]
  /\ UNCHANGED <<vars, told, accepted>>

GatewayNext ==
  \/ \E b \in Bets :
       \/ Replay(b) \/ LookupFails(b) \/ Expire(b)
       \/ \E c \in Calls : Receive(c, b)
  \/ \E c \in Calls :
       \/ Respond(c) \/ RespondOperator(c)
       \/ (Operator(c) \/ Step(c) \/ Fail(c)) /\ UNCHANGED gatewayVars

GatewaySpec == GatewayInit /\ [][GatewayNext]_allVars

-----------------------------------------------------------------------------
\* For a client that waits for its answers, a refusal that will be repeated
\* is true: while it is kept, no bet exists under the key, whatever attempts
\* failed half way before it and whatever answers could not be stored.
RefusalOf(b) == stored[b].fresh /\ stored[b].code # 202

RefusalIsTrue == \A b \in Patient : RefusalOf(b) => bet[b].status = "none"

\* A client that waits and was ever told that its bet is placed is told
\* nothing else for good: each later answer is the same, or a 500 that says
\* nothing of the bet, however many attempts, failed lookups, lost stores and
\* expiries lie between, so no refusal follows an acceptance.
AcceptedStaysAccepted == \A b \in Patient \cap accepted : told[b] \in {202, 500}

\* "Returns cached result if the key was already processed -- safe for client
\* retries" (README of the platform API), for every client: an answer that
\* is repeated is the answer that holds.
StoredAnswerHolds == \A b \in Bets : RefusalOf(b) => bet[b].status = "none"
=============================================================================
