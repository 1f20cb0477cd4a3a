----------------------------- MODULE Placement ------------------------------
(***************************************************************************)
(* The gates a bet passes before money moves: steps 4 and 5 of             *)
(* BetService.placeBet, composed with the services they ask.  What comes   *)
(* after them, the reservation and the bet's row, is the module Betting.   *)
(***************************************************************************)
EXTENDS GameSessions, Flags, Risk

CONSTANTS
  Calls       \* placements of one user, each over and over

VARIABLES
  call        \* the placements

vars == <<sessionVars, flagVars, riskVars, call>>

Idle == [pc |-> "idle"]

\* No evaluation is under way that read the profile before it was blocked.
BlockedForGood ==
  /\ Blocks(profile)
  /\ \A e \in Evaluations :
       evals[e].pc \in {"score", "write"} => Blocks(evals[e].base)

\* game: the session; known: its seed had been revealed when the call began;
\* blocked: its user was blocked for good by then; risk: what was read of
\* the flag; by: the evaluation it waits for; score: what that said.
Placing ==
  [pc: {"session", "close", "flag", "cache", "risk", "wait", "accept"},
   game: Games, known: BOOLEAN, blocked: BOOLEAN, risk: BOOLEAN,
   by: SUBSET Evaluations, score: Scores]

TypeOK ==
  /\ SessionTypeOK /\ FlagTypeOK /\ RiskTypeOK
  /\ call \in [Calls -> {Idle} \cup Placing]

Init ==
  /\ SessionInit /\ FlagInit /\ RiskInit
  /\ call = [c \in Calls |-> Idle]

Goto(c, pc) == call' = [call EXCEPT ![c].pc = pc]
Refuse(c) == call' = [call EXCEPT ![c] = Idle]

-----------------------------------------------------------------------------
\* A bet that names no session begins at the second gate.
Place(c) ==
  /\ call[c] = Idle
  /\ \E g \in Games, pc \in {"session", "flag"} :
       call' = [call EXCEPT ![c] =
         [pc |-> pc, game |-> g, known |-> pc = "session" /\ g \in revealed,
          blocked |-> BlockedForGood, risk |-> FALSE, by |-> {}, score |-> 0]]
  /\ UNCHANGED <<sessionVars, flagVars, riskVars>>

\* validateActiveSession: no such session, or not active any more.
SessionRefused(c) ==
  /\ call[c].pc = "session"
  /\ ~Active(call[c].game)
  /\ Refuse(c)
  /\ UNCHANGED <<sessionVars, flagVars, riskVars>>

\* Expired: it is closed, and the call refused.
SessionExpired(c) ==
  /\ call[c].pc = "session"
  /\ Active(call[c].game) /\ Expired(call[c].game)
  /\ Goto(c, "close")
  /\ UNCHANGED <<sessionVars, flagVars, riskVars>>

CloseExpired(c) ==
  /\ call[c].pc = "close"
  /\ CloseRow(call[c].game) \/ UNCHANGED session
  /\ Refuse(c)
  /\ UNCHANGED <<beats, revealed, flagVars, riskVars>>

SessionValid(c) ==
  /\ call[c].pc = "session"
  /\ Active(call[c].game) /\ ~Expired(call[c].game)
  /\ Goto(c, "flag")
  /\ UNCHANGED <<sessionVars, flagVars, riskVars>>

-----------------------------------------------------------------------------
\* isEnabled: from the cache, or read and then cached.
ReadFlag(c) ==
  /\ call[c].pc = "flag"
  /\ IF Hit
       THEN call' = [call EXCEPT ![c].risk = cache.value, ![c].pc = "risk"]
       ELSE call' = [call EXCEPT ![c].risk = flag, ![c].pc = "cache"]
  /\ UNCHANGED <<sessionVars, flagVars, riskVars>>

CacheFlag(c) ==
  /\ call[c].pc = "cache"
  /\ cache' = Entry(call[c].risk)
  /\ Goto(c, "risk")
  /\ UNCHANGED <<sessionVars, flag, riskVars>>

Unrated(c) ==
  /\ call[c].pc = "risk"
  /\ ~call[c].risk
  /\ Goto(c, "accept")
  /\ UNCHANGED <<sessionVars, flagVars, riskVars>>

\* breaker.fire.
Fire(c) ==
  /\ call[c].pc = "risk"
  /\ call[c].risk
  /\ Passes
  /\ \E e \in Evaluations :
       /\ Start(e)
       /\ call' = [call EXCEPT ![c].by = {e}, ![c].pc = "wait"]
  /\ Admit
  /\ UNCHANGED <<sessionVars, flagVars, profile>>

\* Mutant of Fallback: fail open.
FallbackAllows(c) ==
  call' = [call EXCEPT ![c].score = MaxScore, ![c].by = {}, ![c].pc = "accept"]

\* { decision: 'reject', riskScore: 100 }
Fallback(c) == Refuse(c)

ShortCircuit(c) ==
  /\ call[c].pc = "risk"
  /\ call[c].risk
  /\ ~Passes
  /\ Fallback(c)
  /\ UNCHANGED <<sessionVars, flagVars, riskVars>>

\* The evaluation answers in time.
Rated(c) ==
  /\ call[c].pc = "wait"
  /\ \E e \in call[c].by :
       /\ RateBet(e)
       /\ IF Blocks(evals'[e].score)
            THEN Refuse(c)
            ELSE call' = [call EXCEPT ![c].score = evals'[e].score,
                                      ![c].by = {}, ![c].pc = "accept"]
  /\ Heal
  /\ UNCHANGED <<sessionVars, flagVars, profile>>

\* It fails.
Failed(c) ==
  /\ call[c].pc = "wait"
  /\ \E e \in call[c].by : Abort(e)
  /\ Fallback(c)
  /\ Trip
  /\ UNCHANGED <<sessionVars, flagVars, profile>>

\* It takes too long, and goes on.
TimedOut(c) ==
  /\ call[c].pc = "wait"
  /\ Fallback(c)
  /\ Trip
  /\ UNCHANGED <<sessionVars, flagVars, profile, evals>>

\* The bet goes on to the wallet, or a query of the call fails.
End(c) ==
  /\ call[c].pc # "idle"
  /\ call[c].pc # "wait"
  /\ Refuse(c)
  /\ UNCHANGED <<sessionVars, flagVars, riskVars>>

\* An evaluation without a caller ends as it likes.
Awaited(e) == \E c \in Calls : call[c] # Idle /\ e \in call[c].by

RateAlone(e) ==
  /\ ~Awaited(e)
  /\ Abort(e) \/ RateBet(e) \/ RateOther(e)
  /\ UNCHANGED <<profile, breaker>>

-----------------------------------------------------------------------------
Step(c) ==
  \/ SessionRefused(c) \/ SessionExpired(c) \/ CloseExpired(c)
  \/ SessionValid(c) \/ ReadFlag(c) \/ CacheFlag(c) \/ Unrated(c)
  \/ Fire(c) \/ ShortCircuit(c) \/ Rated(c) \/ Failed(c) \/ TimedOut(c) \/ End(c)

RiskNext == Reset \/ \E e \in Evaluations : Unattended(e) \/ RateAlone(e)

Tick ==
  /\ Age
  /\ Wane
  /\ UNCHANGED <<beats, revealed, flag, riskVars, call>>

Next ==
  \/ \E c \in Calls : Place(c) \/ Step(c)
  \/ SessionNext /\ UNCHANGED <<flagVars, riskVars, call>>
  \/ Put /\ UNCHANGED <<sessionVars, riskVars, call>>
  \/ RiskNext /\ UNCHANGED <<sessionVars, flagVars, call>>
  \/ Tick

Spec == Init /\ [][Next]_vars

\* Time passes, and a query that was sent is answered or fails.
FairSpec ==
  /\ Spec
  /\ WF_vars(Tick)
  /\ \A c \in Calls : WF_vars(Step(c))

-----------------------------------------------------------------------------
\* "Reveal server seed after session closes" (GameSessionService): a
\* placement that begins after the seed was handed out never gets past the
\* session gate, whatever heartbeats, closes and other placements were on
\* their way.
NoBetAfterReveal ==
  \A c \in Calls :
    call[c].pc \in {"flag", "cache", "risk", "wait", "accept"} => ~call[c].known

\* "A risk service outage never silently passes unscored bets through"
\* (README): timeouts, failures and an open breaker refuse the bet, so one
\* that is accepted with the flag read as on has a score below the limit.
FailClosed ==
  \A c \in Calls : call[c].pc = "accept" /\ call[c].risk => ~Blocks(call[c].score)

\* Once an account is blocked and no evaluation that read its profile before
\* is under way, no rated bet of it is accepted any more, although every
\* evaluation writes the profile blindly, some of them late.
BlockedIsRefused ==
  \A c \in Calls : call[c].pc = "accept" /\ call[c].risk => ~call[c].blocked

\* A change of the flag reaches the placements although no write clears
\* their cache and a placement may cache what it read before the change:
\* when the flag is left alone, in the end none acts on another value.
FlagReachesBets ==
  \A v \in BOOLEAN :
    <>[](flag = v) =>
      <>[](\A c \in Calls : call[c].pc \in {"risk", "wait"} => call[c].risk = v)
=============================================================================
