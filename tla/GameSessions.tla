---------------------------- MODULE GameSessions ----------------------------
(***************************************************************************)
(* GameSessionService over the game_sessions rows of one user: create,     *)
(* heartbeat, close and the reveal of the server seed.  A heartbeat and    *)
(* the validation of a placement read the row and then write it with       *)
(* another statement; between the two anything may happen to it.           *)
(* expireStale has no caller and is left out.                              *)
(***************************************************************************)
EXTENDS Integers

CONSTANTS
  Games,      \* the session ids
  Lifetime    \* 30 minutes, in ticks

ASSUME GameSessionsAssumption == Lifetime \in Nat \ {0}

VARIABLES
  session,    \* the rows: status, and the time until expires_at
  beats,      \* sessions with a heartbeat between its check and its UPDATE
  revealed    \* sessions whose server seed was handed out

sessionVars == <<session, beats, revealed>>

SessionTypeOK ==
  /\ session \in [Games -> [status: {"none", "active", "closed"},
                            left: 0..Lifetime]]
  /\ beats \subseteq Games
  /\ revealed \subseteq Games

SessionInit ==
  /\ session = [g \in Games |-> [status |-> "none", left |-> 0]]
  /\ beats = {}
  /\ revealed = {}

Active(g) == session[g].status = "active"
Expired(g) == session[g].left = 0

\* A repeated creation finds the row by its idempotency key, or fails on it.
Create(g) ==
  /\ session[g].status = "none"
  /\ session' = [session EXCEPT ![g] = [status |-> "active", left |-> Lifetime]]
  /\ UNCHANGED <<beats, revealed>>

\* The status is looked at and the time is not.
Heartbeat(g) ==
  /\ Active(g)
  /\ beats' = beats \cup {g}
  /\ UNCHANGED <<session, revealed>>

\* Mutant of Prolong: the UPDATE brings back what was closed meanwhile.
Revive(g) ==
  /\ g \in beats
  /\ beats' = beats \ {g}
  /\ session' = [session EXCEPT ![g] = [status |-> "active", left |-> Lifetime]]
  /\ UNCHANGED revealed

\* UPDATE ... WHERE status = 'active'; also the end of a heartbeat that fails.
Prolong(g) ==
  /\ g \in beats
  /\ beats' = beats \ {g}
  /\ \/ Active(g) /\ session' = [session EXCEPT ![g].left = Lifetime]
     \/ UNCHANGED session
  /\ UNCHANGED revealed

\* The UPDATE of close: nothing happens to a row that is not active.
CloseRow(g) ==
  session' = IF Active(g) THEN [session EXCEPT ![g].status = "closed"]
                          ELSE session

Close(g) ==
  /\ Active(g)
  /\ CloseRow(g)
  /\ UNCHANGED <<beats, revealed>>

Reveal(g) ==
  /\ session[g].status = "closed"
  /\ revealed' = revealed \cup {g}
  /\ UNCHANGED <<session, beats>>

SessionNext ==
  \E g \in Games :
    Create(g) \/ Heartbeat(g) \/ Prolong(g) \/ Close(g) \/ Reveal(g)

\* Time passes.
Age ==
  session' = [g \in Games |->
    [session[g] EXCEPT !.left = IF @ = 0 THEN 0 ELSE @ - 1]]
=============================================================================
