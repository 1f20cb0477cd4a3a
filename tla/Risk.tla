-------------------------------- MODULE Risk --------------------------------
(***************************************************************************)
(* RiskService for one user: evaluations that start from the stored score  *)
(* and write the new one without being waited for, and the circuit breaker *)
(* BetService calls them through.  An evaluation that timed out goes on    *)
(* and writes all the same.  The tier follows from the score.              *)
(***************************************************************************)
EXTENDS Integers

CONSTANTS
  Evaluations,  \* those in flight at a time (bound)
  Raises,       \* what the rules can add to a score
  RejectAt,     \* 80
  MaxScore      \* 100

ASSUME RiskAssumption ==
  /\ Raises \subseteq Nat
  /\ RejectAt \in Nat \ {0} /\ MaxScore \in Nat /\ RejectAt <= MaxScore

VARIABLES
  profile,      \* the risk_score of the user_risk_profiles row
  evals,        \* the evaluations
  breaker       \* BetService's breaker

riskVars == <<profile, evals, breaker>>

Scores == 0..MaxScore
Free == [pc |-> "free"]

Evaluation ==
  [pc: {"free", "load"}] \cup [pc: {"score"}, base: Scores]
  \cup [pc: {"write"}, base: Scores, score: Scores]

RiskTypeOK ==
  /\ profile \in Scores
  /\ evals \in [Evaluations -> Evaluation]
  /\ breaker \in {"closed", "open", "halfOpen", "probing"}

RiskInit ==
  /\ profile = 0
  /\ evals = [e \in Evaluations |-> Free]
  /\ breaker = "closed"

Blocks(score) == score >= RejectAt

\* Mutant of Score: the score is not clamped.
ScoreUnclamped(base, raise) == base + raise

\* Mutant of Score: an evaluation that finds nothing starts anew.
ScoreForgets(base, raise) ==
  IF raise = 0 THEN 0
  ELSE IF base + raise > MaxScore THEN MaxScore ELSE base + raise

\* The rules for a bet; a blocked account is at the maximum.
Score(base, raise) ==
  IF Blocks(base) \/ base + raise > MaxScore THEN MaxScore ELSE base + raise

Start(e) ==
  /\ evals[e] = Free
  /\ evals' = [evals EXCEPT ![e] = [pc |-> "load"]]

LoadProfile(e) ==
  /\ evals[e].pc = "load"
  /\ evals' = [evals EXCEPT ![e] = [pc |-> "score", base |-> profile]]
  /\ UNCHANGED <<profile, breaker>>

\* The evaluation is through: its profile is being written.
Rate(e, score) ==
  /\ evals[e].pc = "score"
  /\ evals' = [evals EXCEPT ![e] =
       [pc |-> "write", base |-> @.base, score |-> score]]

\* An evaluation of a bet; that of a login or a withdrawal keeps the score.
RateBet(e) == \E raise \in Raises : Rate(e, Score(evals[e].base, raise))
RateOther(e) == Rate(e, evals[e].base)

\* upsertProfile writes what was computed, whatever is there; it may fail.
WriteProfile(e) ==
  /\ evals[e].pc = "write"
  /\ profile' \in {evals[e].score, profile}
  /\ evals' = [evals EXCEPT ![e] = Free]
  /\ UNCHANGED breaker

\* A query of the evaluation fails.
Abort(e) ==
  /\ evals[e].pc \in {"load", "score"}
  /\ evals' = [evals EXCEPT ![e] = Free]

\* opossum: a call is let through, or at once given to the fallback.
Passes == breaker \in {"closed", "halfOpen"}
Admit == breaker' = IF breaker = "halfOpen" THEN "probing" ELSE breaker

\* A failed call opens the breaker when the recent ones failed too often,
\* and always when it is half open; there a success closes it.
HalfOpen == breaker \in {"halfOpen", "probing"}
Trip == breaker' \in IF breaker = "closed" THEN {"closed", "open"} ELSE {"open"}
Heal == breaker' = IF HalfOpen THEN "closed" ELSE breaker

\* resetTimeout.
Reset ==
  /\ breaker = "open"
  /\ breaker' = "halfOpen"
  /\ UNCHANGED <<profile, evals>>

\* POST /risk/evaluate and the evaluations nobody waits for any more.
Unattended(e) ==
  \/ Start(e) /\ UNCHANGED <<profile, breaker>>
  \/ LoadProfile(e)
  \/ WriteProfile(e)
=============================================================================
