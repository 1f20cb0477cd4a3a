-------------------------- MODULE PlacementProofs ---------------------------
(***************************************************************************)
(* The session gate and the risk gate of a placement, proved for every     *)
(* number of sessions, placements and evaluations in flight.               *)
(*                                                                         *)
(* The seed: a closed row is never written again, and a seed is handed out *)
(* of a closed row only.  The score: an evaluation that starts from a      *)
(* blocked score ends in one, so once the row and all that may overwrite   *)
(* it are blocked, they stay so.  The flag: what is out of date about it   *)
(* runs out.                                                               *)
(***************************************************************************)
EXTENDS Placement, TLAPS

RevealedIsClosed == \A g \in revealed : session[g].status = "closed"

KnownIsRevealed ==
  \A c \in Calls : call[c] # Idle /\ call[c].known => call[c].game \in revealed

ScoreCarriesOn ==
  \A e \in Evaluations :
    evals[e].pc = "write" /\ Blocks(evals[e].base) => Blocks(evals[e].score)

BlockedStays == \A c \in Calls : call[c] # Idle /\ call[c].blocked => BlockedForGood

IInv ==
  /\ TypeOK
  /\ RevealedIsClosed
  /\ KnownIsRevealed
  /\ ScoreCarriesOn
  /\ BlockedStays
  /\ NoBetAfterReveal
  /\ FailClosed
  /\ BlockedIsRefused

-----------------------------------------------------------------------------
LEMMA InitInv == Init => IInv
<1> SUFFICES ASSUME Init PROVE IInv
  OBVIOUS
<1> USE DEF Init, SessionInit, FlagInit, RiskInit
<1>1. SessionTypeOK
  BY GameSessionsAssumption DEF SessionTypeOK
<1>2. FlagTypeOK
  BY FlagsAssumption DEF FlagTypeOK, NoEntry
<1>3. RiskTypeOK
  BY RiskAssumption DEF RiskTypeOK, Evaluation, Scores, Free
<1>4. TypeOK
  BY <1>1, <1>2, <1>3 DEF TypeOK
<1>5. \A c \in Calls : call[c] = Idle
  OBVIOUS
<1>6. ScoreCarriesOn
  BY DEF ScoreCarriesOn, Free
<1> QED
  BY <1>4, <1>5, <1>6 DEF IInv, RevealedIsClosed, KnownIsRevealed, BlockedStays,
       NoBetAfterReveal, FailClosed, BlockedIsRefused, Idle

\* A rating is a score, and a blocked one when it starts from a blocked one.
LEMMA ScoreFacts ==
  ASSUME NEW base \in Scores, NEW raise \in Raises
  PROVE  /\ Score(base, raise) \in Scores
         /\ Blocks(base) => Blocks(Score(base, raise))
BY RiskAssumption DEF Score, Scores, Blocks

LEMMA PlacingType ==
  ASSUME TypeOK, NEW c \in Calls, call[c].pc # "idle"
  PROVE  call[c] \in Placing
BY DEF TypeOK, Idle

-----------------------------------------------------------------------------
\* What a step may do to the evaluations.
LEMMA RateFacts ==
  ASSUME RiskTypeOK, ScoreCarriesOn, NEW e \in Evaluations,
         RateBet(e) \/ RateOther(e)
  PROVE  /\ evals' \in [Evaluations -> Evaluation]
         /\ evals[e].pc = "score" /\ evals'[e].pc = "write"
         /\ evals'[e].base = evals[e].base
         /\ evals'[e].score \in Scores
         /\ Blocks(evals[e].base) => Blocks(evals'[e].score)
         /\ \A x \in Evaluations : x # e => evals'[x] = evals[x]
<1>1. PICK score \in Scores :
        /\ Rate(e, score)
        /\ Blocks(evals[e].base) => Blocks(score)
  <2>1. ASSUME evals[e].pc = "score" PROVE evals[e].base \in Scores
    BY <2>1 DEF RiskTypeOK, Evaluation
  <2>2. CASE RateBet(e)
    <3>1. PICK raise \in Raises : Rate(e, Score(evals[e].base, raise))
      BY <2>2 DEF RateBet
    <3> QED
      BY <3>1, <2>1, ScoreFacts DEF Rate
  <2>3. CASE RateOther(e)
    BY <2>1, <2>3 DEF RateOther, Rate
  <2> QED
    BY <2>2, <2>3
<1>2. evals[e] \in [pc: {"score"}, base: Scores]
  BY <1>1 DEF Rate, RiskTypeOK, Evaluation
<1>3. evals' = [evals EXCEPT ![e] =
                  [pc |-> "write", base |-> evals[e].base, score |-> score]]
  BY <1>1 DEF Rate
<1>4. [pc |-> "write", base |-> evals[e].base, score |-> score] \in Evaluation
  BY <1>2 DEF Evaluation
<1> QED
  BY <1>1, <1>2, <1>3, <1>4 DEF RiskTypeOK, Rate

\* The disjuncts of Next that touch the evaluations or the profile.
RiskQuiet == UNCHANGED <<profile, evals>>

RiskMoves(e) ==
  \/ Start(e) /\ UNCHANGED profile
  \/ LoadProfile(e)
  \/ WriteProfile(e)
  \/ Abort(e) /\ UNCHANGED profile
  \/ (RateBet(e) \/ RateOther(e)) /\ UNCHANGED profile

LEMMA RiskSteps ==
  ASSUME TypeOK, [Next]_vars
  PROVE  \/ RiskQuiet
         \/ \E e \in Evaluations : RiskMoves(e)
<1> USE DEF RiskQuiet, riskVars
<1>1. CASE UNCHANGED vars
  BY <1>1 DEF vars
<1>2. ASSUME NEW c \in Calls, Place(c) PROVE RiskQuiet
  BY <1>2 DEF Place
<1>3. ASSUME NEW c \in Calls, Step(c)
      PROVE  RiskQuiet \/ \E e \in Evaluations : RiskMoves(e)
  <2>1. CASE Fire(c)
    BY <2>1 DEF Fire, RiskMoves
  <2>2. ASSUME Rated(c) \/ Failed(c)
        PROVE  \E e \in Evaluations : RiskMoves(e)
    <3>1. call[c] \in Placing
      BY <2>2, PlacingType DEF Rated, Failed
    <3> QED
      BY <2>2, <3>1 DEF Rated, Failed, RiskMoves, Placing
  <2>3. CASE TimedOut(c)
    BY <2>3 DEF TimedOut
  <2> QED
    BY <1>3, <2>1, <2>2, <2>3 DEF Step, SessionRefused, SessionExpired,
         CloseExpired, SessionValid, ReadFlag, CacheFlag, Unrated, ShortCircuit,
         End
<1>4. CASE SessionNext /\ UNCHANGED <<flagVars, riskVars, call>>
  BY <1>4
<1>5. CASE Put /\ UNCHANGED <<sessionVars, riskVars, call>>
  BY <1>5
<1>6. CASE RiskNext /\ UNCHANGED <<sessionVars, flagVars, call>>
  BY <1>6 DEF RiskNext, Reset, Unattended, RateAlone, RiskMoves
<1>7. CASE Tick
  BY <1>7 DEF Tick
<1> QED
  BY <1>1, <1>2, <1>3, <1>4, <1>5, <1>6, <1>7 DEF Next

LEMMA RiskType ==
  ASSUME IInv, [Next]_vars
  PROVE  /\ profile' \in Scores
         /\ evals' \in [Evaluations -> Evaluation]
         /\ ScoreCarriesOn'
         /\ BlockedForGood => BlockedForGood'
<1> USE DEF IInv, TypeOK
<1>1. CASE RiskQuiet
  BY <1>1 DEF RiskQuiet, RiskTypeOK, ScoreCarriesOn, BlockedForGood
<1>2. ASSUME NEW e \in Evaluations, RiskMoves(e)
      PROVE  /\ profile' \in Scores
             /\ evals' \in [Evaluations -> Evaluation]
             /\ ScoreCarriesOn'
             /\ BlockedForGood => BlockedForGood'
  <2> USE DEF RiskTypeOK
  <2>1. CASE Start(e) /\ UNCHANGED profile
    BY <2>1 DEF Start, Evaluation, ScoreCarriesOn, BlockedForGood
  <2>2. CASE LoadProfile(e)
    BY <2>2 DEF LoadProfile, Evaluation, ScoreCarriesOn, BlockedForGood
  <2>3. CASE WriteProfile(e)
    <3>1. evals[e] \in [pc: {"write"}, base: Scores, score: Scores]
      BY <2>3 DEF WriteProfile, Evaluation
    <3>2. evals' = [evals EXCEPT ![e] = Free] /\ Free \in Evaluation
      BY <2>3 DEF WriteProfile, Evaluation, Free
    <3>3. profile' \in Scores
      BY <2>3, <3>1 DEF WriteProfile
    <3>4. ScoreCarriesOn'
      BY <3>2 DEF ScoreCarriesOn, Free
    <3>5. BlockedForGood => BlockedForGood'
      BY <2>3, <3>2 DEF WriteProfile, BlockedForGood, ScoreCarriesOn, Free
    <3> QED
      BY <3>2, <3>3, <3>4, <3>5
  <2>4. CASE Abort(e) /\ UNCHANGED profile
    BY <2>4 DEF Abort, Evaluation, Free, ScoreCarriesOn, BlockedForGood
  <2>5. CASE (RateBet(e) \/ RateOther(e)) /\ UNCHANGED profile
    <3>1. /\ evals' \in [Evaluations -> Evaluation]
          /\ evals[e].pc = "score" /\ evals'[e].pc = "write"
          /\ evals'[e].base = evals[e].base
          /\ evals'[e].score \in Scores
          /\ Blocks(evals[e].base) => Blocks(evals'[e].score)
          /\ \A x \in Evaluations : x # e => evals'[x] = evals[x]
      BY <2>5, RateFacts
    <3>2. ScoreCarriesOn'
      BY <3>1 DEF ScoreCarriesOn
    <3>3. BlockedForGood => BlockedForGood'
      BY <2>5, <3>1 DEF BlockedForGood
    <3> QED
      BY <2>5, <3>1, <3>2, <3>3
  <2> QED
    BY <1>2, <2>1, <2>2, <2>3, <2>4, <2>5 DEF RiskMoves
<1> QED
  BY <1>1, <1>2, RiskSteps

-----------------------------------------------------------------------------
\* What a step of a placement does to it: it ends, or goes on unchanged but
\* for where it is, what it read of the flag and how it was rated.
Continues(c) ==
  /\ call'[c] \in Placing
  /\ call'[c].game = call[c].game
  /\ call'[c].known = call[c].known
  /\ call'[c].blocked = call[c].blocked
  /\ call'[c].pc # "session"
  /\ call[c].pc = "session" => call'[c].pc = "close" \/ Active(call[c].game)
  /\ call'[c].pc = "close" => call[c].pc = "session"
  /\ call[c].pc # "close"
  /\ call'[c].pc = "accept" /\ call'[c].risk =>
       ~Blocks(call'[c].score) /\ ~call[c].blocked

\* The two assignments: to the place, and to what the call knows as well.
Knows(c, risk, by, score, pc) ==
  /\ call' = [call EXCEPT ![c] = call'[c]]
  /\ call'[c] \in Placing
  /\ call'[c].pc = pc /\ call'[c].risk = risk
  /\ call'[c].by = by /\ call'[c].score = score
  /\ call'[c].game = call[c].game
  /\ call'[c].known = call[c].known
  /\ call'[c].blocked = call[c].blocked

Places == {"session", "close", "flag", "cache", "risk", "wait", "accept"}

LEMMA GotoFacts ==
  ASSUME TypeOK, NEW c \in Calls, call[c] \in Placing, NEW pc \in Places,
         Goto(c, pc)
  PROVE  Knows(c, call[c].risk, call[c].by, call[c].score, pc)
BY DEF TypeOK, Goto, Placing, Places, Knows

LEMMA RefuseFacts ==
  ASSUME TypeOK, NEW c \in Calls, Refuse(c)
  PROVE  call' = [call EXCEPT ![c] = call'[c]] /\ call'[c] = Idle
BY DEF TypeOK, Refuse

LEMMA StepFacts ==
  ASSUME IInv, NEW c \in Calls, Step(c)
  PROVE  /\ call[c] \in Placing
         /\ call' = [call EXCEPT ![c] = call'[c]]
         /\ call'[c] = Idle \/ Continues(c)
<1> USE DEF IInv
<1>1. call[c] \in Placing
  BY PlacingType DEF Step, SessionRefused, SessionExpired, CloseExpired,
       SessionValid, ReadFlag, CacheFlag, Unrated, Fire, ShortCircuit, Rated,
       Failed, TimedOut, End
<1>2. CASE Refuse(c)
  BY <1>1, <1>2, RefuseFacts
<1>3. ASSUME NEW pc \in {"close", "flag", "risk", "accept"}, Goto(c, pc),
             call[c].pc # "close",
             call[c].pc = "session" /\ pc # "close" => Active(call[c].game),
             pc = "close" => call[c].pc = "session",
             pc = "accept" => ~call[c].risk
      PROVE  call' = [call EXCEPT ![c] = call'[c]] /\ Continues(c)
  <2>1. Knows(c, call[c].risk, call[c].by, call[c].score, pc)
    BY <1>1, <1>3, GotoFacts DEF Places
  <2> QED
    BY <1>3, <2>1 DEF Knows, Continues
<1>4. CASE SessionExpired(c)
  BY <1>1, <1>3, <1>4 DEF SessionExpired
<1>5. CASE SessionValid(c)
  BY <1>1, <1>3, <1>5 DEF SessionValid
<1>6. CASE CacheFlag(c)
  BY <1>1, <1>3, <1>6 DEF CacheFlag
<1>7. CASE Unrated(c)
  BY <1>1, <1>3, <1>7 DEF Unrated
<1>8. CASE ReadFlag(c)
  <2>1. PICK risk \in BOOLEAN, pc \in {"risk", "cache"} :
          call' = [call EXCEPT ![c].risk = risk, ![c].pc = pc]
    BY <1>8 DEF ReadFlag, TypeOK, FlagTypeOK
  <2>2. Knows(c, risk, call[c].by, call[c].score, pc)
    BY <1>1, <2>1 DEF TypeOK, Placing, Knows
  <2> QED
    BY <1>1, <1>8, <2>2 DEF Knows, Continues, ReadFlag
<1>9. CASE Fire(c)
  <2>1. PICK e \in Evaluations :
          call' = [call EXCEPT ![c].by = {e}, ![c].pc = "wait"]
    BY <1>9 DEF Fire
  <2>2. Knows(c, call[c].risk, {e}, call[c].score, "wait")
    BY <1>1, <2>1 DEF TypeOK, Placing, Knows
  <2> QED
    BY <1>1, <1>9, <2>2 DEF Knows, Continues, Fire
<1>10. CASE Rated(c) /\ ~Refuse(c)
  <2>1. PICK e \in call[c].by :
          /\ RateBet(e)
          /\ ~Blocks(evals'[e].score)
          /\ call' = [call EXCEPT ![c].score = evals'[e].score,
                                  ![c].by = {}, ![c].pc = "accept"]
    BY <1>10 DEF Rated
  <2>2. e \in Evaluations
    BY <1>1 DEF Placing
  <2>3. /\ evals[e].pc = "score"
        /\ evals'[e].score \in Scores
        /\ Blocks(evals[e].base) => Blocks(evals'[e].score)
    BY <2>1, <2>2, RateFacts DEF TypeOK
  <2>4. Knows(c, call[c].risk, {}, evals'[e].score, "accept")
    BY <1>1, <2>1, <2>3 DEF TypeOK, Placing, Knows
  <2>5. ~call[c].blocked
    BY <1>1, <1>10, <2>1, <2>2, <2>3 DEF BlockedStays, BlockedForGood, Rated, Idle
  <2> QED
    BY <1>1, <1>10, <2>1, <2>4, <2>5 DEF Knows, Continues, Rated
<1>11. Step(c) => \/ Refuse(c) \/ SessionExpired(c) \/ SessionValid(c)
                  \/ CacheFlag(c) \/ Unrated(c) \/ ReadFlag(c) \/ Fire(c)
                  \/ Rated(c) /\ ~Refuse(c)
  BY DEF Step, SessionRefused, CloseExpired, ShortCircuit, Failed, TimedOut, End,
       Fallback
<1> QED
  BY <1>1, <1>2, <1>4, <1>5, <1>6, <1>7, <1>8, <1>9, <1>10, <1>11

-----------------------------------------------------------------------------
\* The sessions: a closed row stays closed, and only such a one is revealed.
SessionsStep ==
  /\ SessionTypeOK'
  /\ RevealedIsClosed'
  /\ revealed \subseteq revealed'

LEMMA RowType ==
  ASSUME SessionTypeOK, NEW g \in Games,
         \/ session' = [session EXCEPT ![g] =
                          [status |-> "active", left |-> Lifetime]]
         \/ session' = [session EXCEPT ![g].left = Lifetime]
         \/ session' = [session EXCEPT ![g].status = "closed"]
  PROVE  session' \in [Games -> [status: {"none", "active", "closed"},
                                 left: 0..Lifetime]]
BY GameSessionsAssumption DEF SessionTypeOK

LEMMA CloseRowFacts ==
  ASSUME SessionTypeOK, RevealedIsClosed, NEW g \in Games, CloseRow(g),
         UNCHANGED <<beats, revealed>>
  PROVE  SessionsStep
<1> USE DEF SessionTypeOK, RevealedIsClosed, SessionsStep
<1>1. CASE Active(g)
  BY <1>1, RowType DEF CloseRow
<1>2. CASE ~Active(g)
  BY <1>2 DEF CloseRow
<1> QED
  BY <1>1, <1>2

LEMMA SessionNextFacts ==
  ASSUME SessionTypeOK, RevealedIsClosed, SessionNext
  PROVE  SessionsStep
<1> USE DEF SessionTypeOK, RevealedIsClosed, SessionsStep
<1>1. PICK g \in Games :
        Create(g) \/ Heartbeat(g) \/ Prolong(g) \/ Close(g) \/ Reveal(g)
  BY DEF SessionNext
<1>2. CASE Create(g)
  BY <1>2, RowType DEF Create
<1>3. CASE Heartbeat(g) \/ Reveal(g)
  BY <1>3 DEF Heartbeat, Reveal
<1>4. CASE Prolong(g)
  <2>1. CASE Active(g) /\ session' = [session EXCEPT ![g].left = Lifetime]
    BY <1>4, <2>1, RowType DEF Prolong, Active
  <2>2. CASE UNCHANGED session
    BY <1>4, <2>2 DEF Prolong
  <2> QED
    BY <1>4, <2>1, <2>2 DEF Prolong
<1>5. CASE Close(g)
  BY <1>5, CloseRowFacts DEF Close
<1> QED
  BY <1>1, <1>2, <1>3, <1>4, <1>5

LEMMA AgeFacts ==
  ASSUME SessionTypeOK, RevealedIsClosed, Age, UNCHANGED <<beats, revealed>>
  PROVE  SessionsStep
<1> USE DEF SessionTypeOK
<1>1. ASSUME NEW g \in Games
      PROVE  /\ session'[g] \in [status: {"none", "active", "closed"},
                                  left: 0..Lifetime]
             /\ session'[g].status = session[g].status
  BY GameSessionsAssumption DEF Age
<1>2. session' \in [Games -> [status: {"none", "active", "closed"},
                              left: 0..Lifetime]]
  BY <1>1 DEF Age
<1> QED
  BY <1>1, <1>2 DEF SessionsStep, RevealedIsClosed

\* The whole step, seen from the sessions, the flag and the breaker.
LEMMA SessionsAlways ==
  ASSUME IInv, [Next]_vars
  PROVE  SessionsStep /\ FlagTypeOK' /\
         breaker' \in {"closed", "open", "halfOpen", "probing"}
<1> USE DEF IInv, TypeOK, sessionVars, flagVars, riskVars
<1>q. UNCHANGED sessionVars => SessionsStep
  BY DEF SessionTypeOK, RevealedIsClosed, SessionsStep
<1>f. UNCHANGED flagVars => FlagTypeOK'
  BY DEF FlagTypeOK
<1>r. UNCHANGED breaker => breaker' \in {"closed", "open", "halfOpen", "probing"}
  BY DEF RiskTypeOK
<1>1. CASE UNCHANGED vars
  BY <1>1, <1>q, <1>f, <1>r DEF vars
<1>2. ASSUME NEW c \in Calls, Place(c)
      PROVE  UNCHANGED <<sessionVars, flagVars, breaker>>
  BY <1>2 DEF Place
<1>3. ASSUME NEW c \in Calls, Step(c)
      PROVE  SessionsStep /\ FlagTypeOK' /\
             breaker' \in {"closed", "open", "halfOpen", "probing"}
  <2>0. call[c] \in Placing
    BY <1>3, StepFacts
  <2>1. CASE CloseExpired(c)
    BY <2>0, <2>1, <1>q, <1>f, <1>r, CloseRowFacts DEF CloseExpired, Placing
  <2>2. CASE CacheFlag(c)
    <3>1. Entry(call[c].risk) \in [value: BOOLEAN, left: 0..Ttl]
      BY <2>0, FlagsAssumption DEF Entry, Placing
    <3> QED
      BY <2>2, <3>1, <1>q, <1>r DEF CacheFlag, FlagTypeOK
  <2>3. CASE Fire(c) \/ Rated(c) \/ Failed(c) \/ TimedOut(c)
    <3>1. breaker' \in {"closed", "open", "halfOpen", "probing"}
      BY <2>3 DEF Fire, Rated, Failed, TimedOut, Admit, Heal, Trip, RiskTypeOK
    <3> QED
      BY <2>3, <3>1, <1>q, <1>f DEF Fire, Rated, Failed, TimedOut
  <2> QED
    BY <1>3, <2>1, <2>2, <2>3, <1>q, <1>f, <1>r DEF Step, SessionRefused,
         SessionExpired, SessionValid, ReadFlag, Unrated, ShortCircuit, End
<1>4. CASE SessionNext /\ UNCHANGED <<flagVars, riskVars, call>>
  BY <1>4, <1>f, <1>r, SessionNextFacts
<1>5. CASE Put /\ UNCHANGED <<sessionVars, riskVars, call>>
  BY <1>5, <1>q, <1>r DEF Put, FlagTypeOK
<1>6. CASE RiskNext /\ UNCHANGED <<sessionVars, flagVars, call>>
  <2>1. UNCHANGED breaker \/ breaker' = "halfOpen"
    BY <1>6 DEF RiskNext, Reset, Unattended, RateAlone, LoadProfile, WriteProfile
  <2> QED
    BY <1>6, <2>1, <1>q, <1>f, <1>r
<1>7. CASE Tick
  <2>1. cache' \in [value: BOOLEAN, left: 0..Ttl]
    BY <1>7, FlagsAssumption DEF Tick, Wane, FlagTypeOK
  <2> QED
    BY <1>7, <2>1, <1>r, AgeFacts DEF Tick, FlagTypeOK
<1> QED
  BY <1>1, <1>2, <1>3, <1>4, <1>5, <1>6, <1>7, <1>q, <1>f, <1>r DEF Next

-----------------------------------------------------------------------------
\* What a step may do to the placements.
LEMMA CallSteps ==
  ASSUME IInv, [Next]_vars
  PROVE  \/ UNCHANGED call
         \/ \E c \in Calls : Place(c) \/ Step(c)
BY DEF Next, vars, Tick, sessionVars, flagVars, riskVars

LEMMA PlaceFacts ==
  ASSUME IInv, NEW c \in Calls, Place(c)
  PROVE  /\ call' = [call EXCEPT ![c] = call'[c]]
         /\ call'[c] \in Placing
         /\ call'[c].known => call'[c].pc = "session" /\ call'[c].game \in revealed
         /\ call'[c].blocked => BlockedForGood
         /\ call'[c].pc \in {"session", "flag"}
<1>1. PICK g \in Games, pc \in {"session", "flag"} :
        call' = [call EXCEPT ![c] =
          [pc |-> pc, game |-> g, known |-> pc = "session" /\ g \in revealed,
           blocked |-> BlockedForGood, risk |-> FALSE, by |-> {}, score |-> 0]]
  BY DEF Place
<1>2. BlockedForGood \in BOOLEAN /\ (pc = "session" /\ g \in revealed) \in BOOLEAN
  BY DEF BlockedForGood
<1>3. 0 \in Scores
  BY RiskAssumption DEF Scores
<1> QED
  BY <1>1, <1>2, <1>3 DEF IInv, TypeOK, Placing

LEMMA CallInv ==
  ASSUME IInv, [Next]_vars
  PROVE  /\ call' \in [Calls -> {Idle} \cup Placing]
         /\ KnownIsRevealed' /\ BlockedStays'
         /\ NoBetAfterReveal' /\ FailClosed' /\ BlockedIsRefused'
<1>1. revealed \subseteq revealed' /\ (BlockedForGood => BlockedForGood')
  BY SessionsAlways, RiskType DEF SessionsStep
<1>2. CASE UNCHANGED call
  BY <1>1, <1>2 DEF IInv, TypeOK, KnownIsRevealed, BlockedStays,
       NoBetAfterReveal, FailClosed, BlockedIsRefused
<1>3. ASSUME NEW c \in Calls, Place(c) \/ Step(c)
      PROVE  /\ call' \in [Calls -> {Idle} \cup Placing]
             /\ KnownIsRevealed' /\ BlockedStays'
             /\ NoBetAfterReveal' /\ FailClosed' /\ BlockedIsRefused'
  <2>1. call' = [call EXCEPT ![c] = call'[c]]
    BY <1>3, PlaceFacts, StepFacts
  <2>2. call'[c] = Idle \/ call'[c] \in Placing
    BY <1>3, PlaceFacts, StepFacts DEF Continues
  <2>3. call' \in [Calls -> {Idle} \cup Placing]
    BY <2>1, <2>2 DEF IInv, TypeOK
  <2>4. \A x \in Calls : x # c => call'[x] = call[x]
    BY <2>1 DEF IInv, TypeOK
  <2>5. call'[c] # Idle =>
          /\ call'[c].known => call'[c].game \in revealed
          /\ call'[c].blocked => BlockedForGood
    BY <1>3, PlaceFacts, StepFacts
    DEF Continues, IInv, KnownIsRevealed, BlockedStays, Placing, Idle
  <2>6. call'[c].pc \in {"flag", "cache", "risk", "wait", "accept"} =>
          ~call'[c].known
    <3>1. CASE Place(c)
      BY <3>1, PlaceFacts
    <3>2. CASE Step(c)
      BY <3>2, StepFacts DEF Continues, IInv, KnownIsRevealed, RevealedIsClosed,
           NoBetAfterReveal, Placing, Idle, Active, TypeOK, SessionTypeOK
    <3> QED
      BY <1>3, <3>1, <3>2
  <2>7. call'[c].pc = "accept" /\ call'[c].risk =>
          ~Blocks(call'[c].score) /\ ~call'[c].blocked
    BY <1>3, PlaceFacts, StepFacts DEF Continues, Idle
  <2>8. KnownIsRevealed' /\ BlockedStays'
    BY <1>1, <2>4, <2>5 DEF IInv, KnownIsRevealed, BlockedStays
  <2>9. NoBetAfterReveal' /\ FailClosed' /\ BlockedIsRefused'
    BY <2>4, <2>6, <2>7 DEF IInv, NoBetAfterReveal, FailClosed, BlockedIsRefused
  <2> QED
    BY <2>3, <2>8, <2>9
<1> QED
  BY <1>2, <1>3, CallSteps

LEMMA Inductive == IInv /\ [Next]_vars => IInv'
<1> SUFFICES ASSUME IInv, [Next]_vars PROVE IInv'
  OBVIOUS
<1>1. TypeOK'
  BY SessionsAlways, RiskType, CallInv DEF TypeOK, RiskTypeOK, SessionsStep
<1> QED
  BY <1>1, SessionsAlways, RiskType, CallInv DEF IInv, SessionsStep

LEMMA Inductively == Spec => []IInv
BY InitInv, Inductive, PTL DEF Spec

-----------------------------------------------------------------------------
\* The state of the gates keeps its types, the score its range: a rating
\* never leaves 0..MaxScore whatever the rules add.
THEOREM TypeCorrect == Spec => []TypeOK
BY Inductively, PTL DEF IInv

\* No placement that begins after the server seed was handed out passes the
\* session gate (GameSessionService.validateActiveSession, revealServerSeed).
THEOREM RevealCorrect == Spec => []NoBetAfterReveal
BY Inductively, PTL DEF IInv

\* A bet accepted with the evaluation on was rated, below the limit.
THEOREM FailClosedCorrect == Spec => []FailClosed
BY Inductively, PTL DEF IInv

\* A block holds against every late and blind write of the profile.
THEOREM BlockedCorrect == Spec => []BlockedIsRefused
BY Inductively, PTL DEF IInv
-----------------------------------------------------------------------------
(***************************************************************************)
(* How a change of the flag spreads, without the fairness that drives it:  *)
(* what is out of date hides in three places, which empty one after the    *)
(* other and do not fill again while the flag is left alone.               *)
(***************************************************************************)

\* Placements that read the row before the change and have not cached it yet.
StaleReads == {c \in Calls : call[c].pc = "cache" /\ call[c].risk # flag}

StaleCache == Hit /\ cache.value # flag

\* Placements that act on another value than the flag's.
StaleCalls ==
  {c \in Calls : call[c].pc \in {"risk", "wait"} /\ call[c].risk # flag}

\* While the flag is left alone: no placement reads an old value; once none is
\* about to cache one, a stale entry is not renewed and only runs out; once
\* there is no such entry either, no placement begins to act on an old value
\* (ConfigService.isEnabled).
NewsSpreads ==
  [][flag' = flag =>
       /\ StaleReads' \subseteq StaleReads
       /\ StaleReads = {} /\ StaleCache' =>
            StaleCache /\ (cache' = cache \/ cache'.left < cache.left)
       /\ StaleReads = {} /\ ~StaleCache => StaleCalls' \subseteq StaleCalls]_vars

\* A step other than the two of isEnabled leaves a placement's value as it is
\* when it goes on to act on it.
Untouched(c) ==
  call'[c].pc \in {"cache", "risk", "wait"} =>
    /\ call'[c].risk = call[c].risk
    /\ call'[c].pc = "cache" => call[c].pc = "cache"
    /\ call'[c].pc \in {"risk", "wait"} => call[c].pc \in {"risk", "wait"}

LEMMA OtherSteps ==
  ASSUME TypeOK, NEW c \in Calls, Place(c) \/ Step(c),
         ~ReadFlag(c), ~CacheFlag(c)
  PROVE  /\ \A x \in Calls : Untouched(x)
         /\ UNCHANGED flagVars
<1> USE DEF Untouched
<1>1. call \in [Calls -> {Idle} \cup Placing]
  BY DEF TypeOK
<1>2. \A x \in Calls : call'[x] = call[x] => Untouched(x)
  OBVIOUS
<1>3. UNCHANGED flagVars
  BY DEF Step, Place, SessionRefused, SessionExpired, CloseExpired,
     SessionValid, Unrated, Fire, ShortCircuit, Rated, Failed, TimedOut, End
<1>4. CASE Place(c)
  <2>1. PICK g \in Games, pc \in {"session", "flag"} :
          call' = [call EXCEPT ![c] =
            [pc |-> pc, game |-> g, known |-> pc = "session" /\ g \in revealed,
             blocked |-> BlockedForGood, risk |-> FALSE, by |-> {}, score |-> 0]]
    BY <1>4 DEF Place
  <2>2. call'[c].pc = pc /\ \A x \in Calls : x # c => call'[x] = call[x]
    BY <1>1, <2>1
  <2> QED
    BY <1>2, <1>3, <2>2
<1>5. ASSUME Refuse(c) PROVE \A x \in Calls : Untouched(x)
  BY <1>1, <1>5 DEF Refuse, Idle
<1>6. CASE SessionExpired(c) \/ SessionValid(c) \/ Unrated(c)
  <2>1. PICK to \in {"close", "flag", "accept"} : Goto(c, to)
    BY <1>6 DEF SessionExpired, SessionValid, Unrated
  <2>2. call[c] \in Placing
    BY <1>6, PlacingType DEF SessionExpired, SessionValid, Unrated
  <2>3. call' = [call EXCEPT ![c].pc = to]
    BY <2>1 DEF Goto
  <2>4. call'[c].pc = to /\ \A x \in Calls : x # c => call'[x] = call[x]
    BY <1>1, <2>2, <2>3 DEF Placing
  <2> QED
    BY <1>2, <1>3, <2>4
<1>7. CASE Fire(c)
  <2>1. PICK e \in Evaluations :
          call' = [call EXCEPT ![c].by = {e}, ![c].pc = "wait"]
    BY <1>7 DEF Fire
  <2>2. call[c] \in Placing /\ call[c].pc = "risk"
    BY <1>7, PlacingType DEF Fire
  <2> QED
    BY <1>1, <2>1, <2>2 DEF Placing
<1>8. CASE Rated(c)
  <2>1. ASSUME NEW s, call' = [call EXCEPT ![c].score = s,
                                           ![c].by = {}, ![c].pc = "accept"]
        PROVE  \A x \in Calls : Untouched(x)
    <3>1. call[c] \in Placing
      BY <1>8, PlacingType DEF Rated
    <3> QED
      BY <1>1, <2>1, <3>1 DEF Placing
  <2> QED
    BY <1>5, <1>8, <2>1 DEF Rated
<1> QED
  BY <1>3, <1>4, <1>5, <1>6, <1>7, <1>8
  DEF Step, SessionRefused, CloseExpired, ShortCircuit, Fallback, Failed,
      TimedOut, End

LEMMA NewsStep ==
  ASSUME TypeOK, [Next]_vars, flag' = flag
  PROVE  /\ StaleReads' \subseteq StaleReads
         /\ StaleReads = {} /\ StaleCache' =>
              StaleCache /\ (cache' = cache \/ cache'.left < cache.left)
         /\ StaleReads = {} /\ ~StaleCache => StaleCalls' \subseteq StaleCalls
<1> DEFINE Spreads ==
      /\ StaleReads' \subseteq StaleReads
      /\ StaleReads = {} /\ StaleCache' =>
           StaleCache /\ (cache' = cache \/ cache'.left < cache.left)
      /\ StaleReads = {} /\ ~StaleCache => StaleCalls' \subseteq StaleCalls
<1> SUFFICES Spreads
  OBVIOUS
<1> USE DEF StaleReads, StaleCache, StaleCalls, Hit
<1>1. /\ call \in [Calls -> {Idle} \cup Placing]
      /\ cache \in [value: BOOLEAN, left: 0..Ttl]
      /\ flag \in BOOLEAN
  BY DEF TypeOK, FlagTypeOK
<1>2. CASE UNCHANGED <<call, cache>>
  BY <1>2
<1>3. ASSUME NEW c \in Calls, ReadFlag(c) PROVE Spreads
  <2>1. call[c] \in Placing
    BY <1>3, PlacingType DEF ReadFlag
  <2>2. cache' = cache
    BY <1>3 DEF ReadFlag, flagVars
  <2>3. CASE Hit
    <3>1. call' = [call EXCEPT ![c].risk = cache.value, ![c].pc = "risk"]
      BY <1>3, <2>3 DEF ReadFlag
    <3> QED
      BY <1>1, <2>1, <2>2, <2>3, <3>1 DEF Placing
  <2>4. CASE ~Hit
    <3>1. call' = [call EXCEPT ![c].risk = flag, ![c].pc = "cache"]
      BY <1>3, <2>4 DEF ReadFlag
    <3> QED
      BY <1>1, <2>1, <2>2, <3>1 DEF Placing
  <2> QED
    BY <2>3, <2>4
<1>4. ASSUME NEW c \in Calls, CacheFlag(c) PROVE Spreads
  <2>1. call[c] \in Placing /\ call[c].pc = "cache"
    BY <1>4, PlacingType DEF CacheFlag
  <2>2. call' = [call EXCEPT ![c].pc = "risk"]
    BY <1>4 DEF CacheFlag, Goto
  <2>3. cache' = [value |-> call[c].risk, left |-> Ttl]
    BY <1>4 DEF CacheFlag, Entry
  <2>4. call[c].risk # flag => StaleReads # {}
    BY <2>1
  <2> QED
    BY <1>1, <2>1, <2>2, <2>3, <2>4 DEF Placing
<1>5. ASSUME NEW c \in Calls, Place(c) \/ Step(c), ~ReadFlag(c), ~CacheFlag(c)
      PROVE  Spreads
  BY <1>5, OtherSteps DEF Untouched, flagVars
<1>6. CASE Tick
  <2>1. call' = call /\ cache' = [cache EXCEPT !.left = IF @ = 0 THEN 0 ELSE @ - 1]
    BY <1>6 DEF Tick, Wane
  <2>2. /\ cache'.value = cache.value
        /\ cache'.left = IF cache.left = 0 THEN 0 ELSE cache.left - 1
    BY <1>1, <2>1
  <2>3. cache.left \in 0..Ttl /\ Ttl \in Nat
    BY <1>1, FlagsAssumption
  <2> QED
    BY <2>1, <2>2, <2>3
<1>7. CASE Put /\ UNCHANGED <<sessionVars, riskVars, call>>
  BY <1>2, <1>7 DEF Put
<1> HIDE DEF Spreads
<1> QED
  BY <1>2, <1>3, <1>4, <1>5, <1>6, <1>7 DEF Next, vars, flagVars

\* A change of the flag spreads, whatever number of placements is under way.
THEOREM NewsSpreadsCorrect == Spec => NewsSpreads
<1>1. TypeOK /\ [Next]_vars =>
        [flag' = flag =>
           /\ StaleReads' \subseteq StaleReads
           /\ StaleReads = {} /\ StaleCache' =>
                StaleCache /\ (cache' = cache \/ cache'.left < cache.left)
           /\ StaleReads = {} /\ ~StaleCache =>
                StaleCalls' \subseteq StaleCalls]_vars
  BY NewsStep
<1> QED
  BY <1>1, TypeCorrect, PTL DEF Spec, NewsSpreads
=============================================================================
