--------------------------- MODULE SessionsProofs ---------------------------
(***************************************************************************)
(* The rotation of refresh tokens, logout and registration, proved for     *)
(* every number of users, sessions, calls and clients of the pool.         *)
(*                                                                         *)
(* What carries the argument: a call between LockSession and Rotate holds  *)
(* the row lock, and nobody writes a row that is locked, so the row it     *)
(* checks is the one it marks used.  From then on it is the only call that *)
(* may insert a successor of that session, until it does or fails.         *)
(***************************************************************************)
EXTENDS Sessions, FiniteSetTheorems, TLAPS

\* The operations a call can be in at each step.
Fits(step, op) ==
  \/ step = "idle" /\ op = "none"
  \/ step = "connect" /\ op \in {"register", "refresh"}
  \/ step \in {"create", "wallet", "risk", "commit"} /\ op = "register"
  \/ step = "find" /\ op = "login"
  \/ step \in {"lock", "check", "user"} /\ op = "refresh"
  \/ step \in {"profile", "insert"} /\ op \in {"login", "register", "refresh"}
  \/ step \in {"client", "revoke"} /\ op = "revoke"

\* What a registration has inserted when it gets to a step.
PartsAt(step) ==
  IF step = "wallet" THEN {"user"}
  ELSE IF step = "risk" THEN {"user", "wallet"}
  ELSE IF step \in {"commit", "profile", "insert"} THEN Parts
  ELSE {}

\* A call that has used a session up and has not inserted its successor.
Rotated(c) ==
  pc[c] \in {"user", "profile", "insert"} /\ job[c].op = "refresh"

JobFacts ==
  \A c \in Calls :
    /\ Fits(pc[c], job[c].op)
    /\ job[c].op \in {"refresh", "revoke"} =>
         job[c].of \in SessionIds /\ Exists(job[c].of)
    /\ job[c].op \in {"none", "login", "register"} => job[c].of = NoSession

Registered ==
  \A c \in Calls :
    job[c].op = "register" => PartsAt(pc[c]) \subseteq account[job[c].user]

CheckedIsCurrent ==
  \A c \in Calls : pc[c] = "check" =>
    lock[job[c].of] = c /\ seen[c] = session[job[c].of]

RowFacts ==
  \A s \in SessionIds :
    /\ ~Exists(s) => session[s] = NoRow
    /\ session[s].from # NoSession => session[session[s].from].used

OneRotation ==
  /\ \A c \in Calls : Rotated(c) =>
       /\ session[job[c].of].used
       /\ \A s \in SessionIds : session[s].from # job[c].of
  /\ \A c, d \in Calls :
       Rotated(c) /\ Rotated(d) /\ job[c].of = job[d].of => c = d

IInv ==
  /\ TypeOK
  /\ JobFacts
  /\ Registered
  /\ CheckedIsCurrent
  /\ RowFacts
  /\ OneRotation
  /\ OneSuccessor
  /\ RegisterIsComplete

-----------------------------------------------------------------------------
LEMMA InitInv == Init => IInv
<1> SUFFICES ASSUME Init PROVE IInv
  OBVIOUS
<1> USE SessionsAssumption DEF Init
<1>1. NoRow \in Row /\ [NoRow EXCEPT !.by = "register"] \in Row /\ NoJob \in Job
  BY DEF NoRow, NoJob, Row, Job, Ops
<1>2. Cardinality(holds) <= PoolSize
  BY FS_EmptySet
<1>3. TypeOK
  BY <1>1, <1>2 DEF TypeOK, Parts, Steps
<1>4. JobFacts /\ Registered /\ CheckedIsCurrent
  BY DEF JobFacts, Registered, CheckedIsCurrent, Fits, PartsAt, NoJob
<1>5. RowFacts /\ OneSuccessor /\ RegisterIsComplete
  BY DEF RowFacts, OneSuccessor, RegisterIsComplete, Exists, NoRow
<1>6. OneRotation
  BY DEF OneRotation, Rotated
<1>7. QED
  BY <1>3, <1>4, <1>5, <1>6 DEF IInv

\* Giving a client back, and taking one while one is free.
LEMMA PoolBound ==
  ASSUME TypeOK, NEW c \in Calls
  PROVE  /\ holds \ {c} \subseteq Calls
         /\ Cardinality(holds \ {c}) <= PoolSize
         /\ ClientFree => Cardinality(holds \cup {c}) <= PoolSize
<1>1. IsFiniteSet(holds)
  BY SessionsAssumption, FS_Subset DEF TypeOK
<1>2. Cardinality(holds) \in Nat /\ PoolSize \in Nat
  BY <1>1, FS_CardinalityType, SessionsAssumption
<1>3. Cardinality(holds \ {c}) \in Nat /\ Cardinality(holds \ {c}) <= Cardinality(holds)
  BY <1>1, FS_Subset, FS_CardinalityType
<1>4. Cardinality(holds \cup {c}) <= Cardinality(holds) + 1
  <2>1. Cardinality(holds \cup {c}) =
          IF c \in holds THEN Cardinality(holds) ELSE Cardinality(holds) + 1
    BY <1>1, FS_AddElement
  <2>2. QED
    BY <1>2, <2>1
<1>5. Cardinality(holds \cup {c}) \in Nat
  BY <1>1, FS_AddElement, FS_CardinalityType
<1>6. QED
  BY <1>2, <1>3, <1>4, <1>5 DEF ClientFree, TypeOK

-----------------------------------------------------------------------------
\* A call ends, with an answer or an error, and writes nothing.
LEMMA EndInv ==
  ASSUME IInv, NEW c \in Calls, End(c), UNCHANGED <<account, session>>
  PROVE  IInv'
<1> USE SessionsAssumption DEF End, Goto
<1>1. TypeOK'
  <2>1. NoRow \in Row /\ NoJob \in Job /\ "idle" \in Steps
    BY DEF NoRow, NoJob, Row, Job, Ops, Steps
  <2>2. lock' \in [SessionIds -> Calls \cup {NoCall}]
    BY DEF IInv, TypeOK
  <2>3. QED
    BY <2>1, <2>2, PoolBound DEF IInv, TypeOK
<1>2. /\ pc'[c] = "idle" /\ job'[c] = NoJob
      /\ \A d \in Calls \ {c} :
           pc'[d] = pc[d] /\ job'[d] = job[d] /\ seen'[d] = seen[d]
      /\ \A d \in Calls \ {c}, s \in SessionIds : lock[s] = d => lock'[s] = d
  BY DEF IInv, TypeOK
<1>3. JobFacts'
  BY <1>2 DEF IInv, JobFacts, Fits, NoJob, Exists
<1>4. Registered'
  BY <1>2 DEF IInv, Registered, PartsAt, NoJob
<1>5. CheckedIsCurrent'
  BY <1>2 DEF IInv, CheckedIsCurrent, JobFacts, Fits
<1>6. RowFacts' /\ OneSuccessor' /\ RegisterIsComplete'
  BY DEF IInv, RowFacts, OneSuccessor, RegisterIsComplete, Exists
<1>7. OneRotation'
  BY <1>2 DEF IInv, OneRotation, Rotated
<1>8. QED
  BY <1>1, <1>3, <1>4, <1>5, <1>6, <1>7 DEF IInv

\* A call goes on to a step that fits its operation, before or after the
\* check: nothing else is at stake.
LEMMA MoveInv ==
  ASSUME IInv, NEW c \in Calls, NEW step \in Steps, Goto(c, step),
         UNCHANGED <<account, session, lock, job, seen>>,
         \/ holds' \in {holds, holds \ {c}}
         \/ holds' = holds \cup {c} /\ ClientFree,
         step # "check",
         Fits(step, job[c].op),
         job[c].op = "register" => PartsAt(step) \subseteq account[job[c].user],
         Rotated(c)' => Rotated(c)
  PROVE  IInv'
<1> USE DEF Goto
<1>1. TypeOK'
  BY PoolBound DEF IInv, TypeOK
<1>2. pc'[c] = step /\ \A d \in Calls \ {c} : pc'[d] = pc[d]
  BY DEF IInv, TypeOK
<1>3. JobFacts'
  BY <1>2 DEF IInv, JobFacts, Exists
<1>4. Registered' /\ CheckedIsCurrent'
  BY <1>2 DEF IInv, Registered, CheckedIsCurrent
<1>5. RowFacts' /\ OneSuccessor' /\ RegisterIsComplete'
  BY DEF IInv, RowFacts, OneSuccessor, RegisterIsComplete, Exists
<1>6. OneRotation'
  BY <1>2 DEF IInv, OneRotation, Rotated
<1>7. QED
  BY <1>1, <1>3, <1>4, <1>5, <1>6 DEF IInv

\* A new request.  A refresh or a logout is of a session that exists.
LEMMA BeginInv ==
  ASSUME IInv, NEW c \in Calls, NEW step \in {"connect", "find", "client"},
         NEW j \in Job, Begin(c, step, j),
         Fits(step, j.op),
         j.op \in {"refresh", "revoke"} => j.of \in SessionIds /\ Exists(j.of),
         j.op \in {"login", "register"} => j.of = NoSession
  PROVE  IInv'
<1> USE DEF Begin, Goto
<1>1. TypeOK'
  BY DEF IInv, TypeOK, Steps
<1>2. /\ pc'[c] = step /\ job'[c] = j
      /\ \A d \in Calls \ {c} : pc'[d] = pc[d] /\ job'[d] = job[d]
  BY DEF IInv, TypeOK
<1>3. JobFacts'
  BY <1>2 DEF IInv, JobFacts, Fits, Exists
<1>4. Registered' /\ CheckedIsCurrent'
  BY <1>2 DEF IInv, Registered, CheckedIsCurrent, PartsAt
<1>5. RowFacts' /\ OneSuccessor' /\ RegisterIsComplete'
  BY DEF IInv, RowFacts, OneSuccessor, RegisterIsComplete, Exists
<1>6. OneRotation'
  BY <1>2 DEF IInv, OneRotation, Rotated
<1>7. QED
  BY <1>1, <1>3, <1>4, <1>5, <1>6 DEF IInv

\* The rows of a registration: they are never taken away again.
LEMMA ProvisionInv ==
  ASSUME IInv, NEW c \in Calls,
         NEW step \in {"create", "wallet", "risk"}, NEW part \in Parts,
         NEW next \in {"wallet", "risk", "commit"},
         Provision(c, step, part, next),
         PartsAt(next) \subseteq PartsAt(step) \cup {part}
  PROVE  IInv'
<1> USE DEF Provision, Goto
<1>1. job[c].op = "register" /\ job[c].user \in Users
  BY DEF IInv, JobFacts, Fits, TypeOK, Job
<1>2. /\ account' \in [Users -> SUBSET Parts]
      /\ \A u \in Users : account[u] \subseteq account'[u]
      /\ part \in account'[job[c].user]
  BY <1>1 DEF IInv, TypeOK
<1>3. TypeOK'
  BY <1>2 DEF IInv, TypeOK, Steps
<1>4. pc'[c] = next /\ \A d \in Calls \ {c} : pc'[d] = pc[d]
  BY DEF IInv, TypeOK
<1>5. JobFacts'
  BY <1>1, <1>4 DEF IInv, JobFacts, Fits, Exists
<1>6. Registered'
  <2> SUFFICES ASSUME NEW d \in Calls, job[d].op = "register"
               PROVE  PartsAt(pc'[d]) \subseteq account'[job[d].user]
    BY DEF Registered
  <2>1. PartsAt(pc[d]) \subseteq account'[job[d].user]
    BY <1>2 DEF IInv, Registered, TypeOK, Job
  <2>2. QED
    BY <1>2, <1>4, <2>1
<1>7. CheckedIsCurrent'
  BY <1>4 DEF IInv, CheckedIsCurrent
<1>8. RowFacts' /\ OneSuccessor'
  BY DEF IInv, RowFacts, OneSuccessor, Exists
<1>9. RegisterIsComplete'
  BY <1>2 DEF IInv, RegisterIsComplete, TypeOK, Row
<1>10. OneRotation'
  BY <1>1, <1>4 DEF IInv, OneRotation, Rotated
<1>11. QED
  BY <1>3, <1>5, <1>6, <1>7, <1>8, <1>9, <1>10 DEF IInv

-----------------------------------------------------------------------------
\* The row is read under its lock.
LEMMA LockSessionInv ==
  ASSUME IInv, NEW c \in Calls, LockSession(c)
  PROVE  IInv'
<1> USE DEF LockSession, Goto
<1>1. job[c].op = "refresh" /\ job[c].of \in SessionIds
  BY DEF IInv, JobFacts, Fits
<1>2. /\ pc'[c] = "check" /\ seen'[c] = session[job[c].of]
      /\ lock'[job[c].of] = c
      /\ \A d \in Calls \ {c} : pc'[d] = pc[d] /\ seen'[d] = seen[d]
      /\ \A s \in SessionIds : lock[s] # NoCall => lock'[s] = lock[s]
  BY <1>1 DEF IInv, TypeOK
<1>3. TypeOK'
  BY <1>1 DEF IInv, TypeOK, Steps
<1>4. JobFacts'
  BY <1>1, <1>2 DEF IInv, JobFacts, Fits, Exists
<1>5. Registered'
  BY <1>1, <1>2 DEF IInv, Registered
<1>6. CheckedIsCurrent'
  BY <1>2, SessionsAssumption DEF IInv, CheckedIsCurrent, JobFacts, Fits
<1>7. RowFacts' /\ OneSuccessor' /\ RegisterIsComplete'
  BY DEF IInv, RowFacts, OneSuccessor, RegisterIsComplete, Exists
<1>8. OneRotation'
  BY <1>2 DEF IInv, OneRotation, Rotated
<1>9. QED
  BY <1>3, <1>4, <1>5, <1>6, <1>7, <1>8 DEF IInv

\* The session is used up: it was not before, so it has no successor, and
\* no other call is about to insert one.
LEMMA RotateInv ==
  ASSUME IInv, NEW c \in Calls, Rotate(c)
  PROVE  IInv'
<1> DEFINE of == job[c].of
<1> USE DEF Rotate, Goto
<1>1. job[c].op = "refresh" /\ of \in SessionIds /\ Exists(of)
  BY DEF IInv, JobFacts, Fits
<1>2. lock[of] = c /\ seen[c] = session[of] /\ ~session[of].used
  BY DEF IInv, CheckedIsCurrent, Valid
<1>3. /\ session' \in [SessionIds -> Row]
      /\ session'[of].used
      /\ \A s \in SessionIds :
           /\ session'[s].by = session[s].by
           /\ session'[s].from = session[s].from
           /\ session'[s].owner = session[s].owner
           /\ session[s].used => session'[s].used
           /\ s # of => session'[s] = session[s]
  BY <1>1 DEF IInv, TypeOK, Row
<1>4. pc'[c] = "user" /\ \A d \in Calls \ {c} : pc'[d] = pc[d]
  BY DEF IInv, TypeOK
<1>5. TypeOK'
  BY <1>3 DEF IInv, TypeOK, Steps
<1>6. JobFacts'
  BY <1>1, <1>3, <1>4 DEF IInv, JobFacts, Fits, Exists
<1>7. Registered'
  BY <1>1, <1>4 DEF IInv, Registered
<1>8. CheckedIsCurrent'
  <2> SUFFICES ASSUME NEW d \in Calls, pc'[d] = "check"
               PROVE  lock'[job[d].of] = d /\ seen[d] = session'[job[d].of]
    BY DEF CheckedIsCurrent
  <2>1. d # c /\ pc[d] = "check"
    BY <1>4
  <2>2. lock[job[d].of] = d /\ seen[d] = session[job[d].of] /\ job[d].of \in SessionIds
    BY <2>1 DEF IInv, CheckedIsCurrent, JobFacts, Fits
  <2>3. job[d].of # of
    BY <1>2, <2>1, <2>2
  <2>4. QED
    BY <1>3, <2>2, <2>3 DEF IInv, TypeOK
<1>9. RowFacts'
  <2>1. \A s \in SessionIds : ~Exists(s)' => session'[s] = NoRow
    BY <1>1, <1>3 DEF IInv, RowFacts, Exists
  <2>2. \A s \in SessionIds : session[s].from # NoSession =>
          session[s].from \in SessionIds /\ session[session[s].from].used
    BY DEF IInv, RowFacts, TypeOK, Row
  <2>3. \A s \in SessionIds : session'[s].from # NoSession =>
          session'[session'[s].from].used
    BY <1>3, <2>2
  <2>4. QED
    BY <2>1, <2>3 DEF RowFacts
<1>10. OneSuccessor'
  BY <1>3 DEF IInv, OneSuccessor
<1>11. RegisterIsComplete'
  BY <1>3 DEF IInv, RegisterIsComplete
<1>12. OneRotation'
  <2>1. \A d \in Calls \ {c} : Rotated(d) => job[d].of # of
    BY <1>2 DEF IInv, OneRotation
  <2>2. \A s \in SessionIds : session[s].from # of
    BY <1>1, <1>2, SessionsAssumption DEF IInv, RowFacts
  <2>3. \A d \in Calls : Rotated(d)' => d = c \/ Rotated(d)
    BY <1>4 DEF Rotated
  <2>4. \A d \in Calls : Rotated(d) => job[d].of \in SessionIds
    BY DEF IInv, JobFacts, Rotated
  <2>5. QED
    BY <1>1, <1>3, <2>1, <2>2, <2>3, <2>4 DEF IInv, OneRotation
<1>13. QED
  BY <1>5, <1>6, <1>7, <1>8, <1>9, <1>10, <1>11, <1>12 DEF IInv

\* The new row takes an unused id: a refresh inserts the one successor of
\* the session it used up, a registration has made all of the account.
LEMMA InsertSessionInv ==
  ASSUME IInv, NEW c \in Calls, InsertSession(c)
  PROVE  IInv'
<1> DEFINE new == [owner |-> job[c].user, by |-> job[c].op, from |-> job[c].of,
                   used |-> FALSE, revoked |-> FALSE]
<1> USE SessionsAssumption DEF InsertSession, End, Goto
<1>1. Fresh \in SessionIds /\ ~Exists(Fresh) /\ session[Fresh] = NoRow
  BY DEF Fresh, Unused, IInv, RowFacts
<1>2. /\ job[c] \in Job /\ new \in Row
      /\ job[c].op \in {"login", "register", "refresh"}
  BY DEF IInv, TypeOK, JobFacts, Fits, Job, Row
<1>3. /\ session' \in [SessionIds -> Row]
      /\ session'[Fresh] = new
      /\ \A s \in SessionIds \ {Fresh} : session'[s] = session[s]
  BY <1>1, <1>2 DEF IInv, TypeOK
<1>4. /\ pc'[c] = "idle" /\ job'[c] = NoJob
      /\ \A d \in Calls \ {c} :
           pc'[d] = pc[d] /\ job'[d] = job[d] /\ seen'[d] = seen[d]
      /\ \A d \in Calls \ {c}, s \in SessionIds : lock[s] = d => lock'[s] = d
  BY DEF IInv, TypeOK
<1>5. \A s \in SessionIds : Exists(s) => s # Fresh
  BY <1>1
<1>6. TypeOK'
  <2>1. NoRow \in Row /\ NoJob \in Job /\ "idle" \in Steps
    BY DEF NoRow, NoJob, Row, Job, Ops, Steps
  <2>2. lock' \in [SessionIds -> Calls \cup {NoCall}]
    BY DEF IInv, TypeOK
  <2>3. QED
    BY <1>3, <2>1, <2>2, PoolBound DEF IInv, TypeOK
<1>7. \A s \in SessionIds : Exists(s) => Exists(s)'
  BY <1>3, <1>5 DEF Exists
<1>8. JobFacts'
  BY <1>4, <1>7 DEF IInv, JobFacts, Fits, NoJob
<1>9. Registered'
  BY <1>4 DEF IInv, Registered, PartsAt, NoJob
<1>10. CheckedIsCurrent'
  <2> SUFFICES ASSUME NEW d \in Calls, pc'[d] = "check"
               PROVE  lock'[job'[d].of] = d /\ seen'[d] = session'[job'[d].of]
    BY DEF CheckedIsCurrent
  <2>1. d # c /\ pc[d] = "check"
    BY <1>4
  <2>2. /\ lock[job[d].of] = d /\ seen[d] = session[job[d].of]
        /\ job[d].of \in SessionIds /\ Exists(job[d].of)
    BY <2>1 DEF IInv, CheckedIsCurrent, JobFacts, Fits
  <2>3. QED
    BY <1>3, <1>4, <1>5, <2>1, <2>2
<1>11. RowFacts'
  <2>1. \A s \in SessionIds : session[s].used => s # Fresh
    BY <1>1 DEF NoRow
  <2>2. job[c].of # NoSession => Rotated(c) /\ job[c].of \in SessionIds
    BY <1>2 DEF IInv, JobFacts, Rotated
  <2>3. job[c].of # NoSession => session[job[c].of].used
    BY <2>2 DEF IInv, OneRotation
  <2>4. \A s \in SessionIds : session[s].from # NoSession =>
          session[s].from \in SessionIds /\ session[session[s].from].used
    BY DEF IInv, RowFacts, TypeOK, Row
  <2>5. \A s \in SessionIds : session'[s].from # NoSession =>
          session'[session'[s].from].used
    BY <1>3, <2>1, <2>2, <2>3, <2>4
  <2>6. \A s \in SessionIds : ~Exists(s)' => session'[s] = NoRow
    BY <1>2, <1>3 DEF IInv, RowFacts, Exists
  <2>7. QED
    BY <2>5, <2>6 DEF RowFacts
<1>12. OneSuccessor'
  <2>1. job[c].of # NoSession => \A s \in SessionIds : session[s].from # job[c].of
    BY <1>2 DEF IInv, JobFacts, OneRotation, Rotated
  <2>2. QED
    BY <1>3, <2>1 DEF IInv, OneSuccessor
<1>13. RegisterIsComplete'
  <2>1. job[c].op = "register" => account[job[c].user] = Parts
    BY <1>2 DEF IInv, Registered, PartsAt, TypeOK, Job
  <2>2. QED
    BY <1>3, <2>1 DEF IInv, RegisterIsComplete
<1>14. OneRotation'
  <2>1. \A d \in Calls : Rotated(d)' => d # c /\ Rotated(d) /\ job'[d] = job[d]
    BY <1>4 DEF Rotated
  <2>2. \A d \in Calls : Rotated(d) => job[d].of \in SessionIds /\ Exists(job[d].of)
    BY DEF IInv, JobFacts, Rotated
  <2>3. \A d \in Calls \ {c} : Rotated(d) => job[c].of # job[d].of
    <3> SUFFICES ASSUME NEW d \in Calls \ {c}, Rotated(d), job[c].of = job[d].of
                 PROVE  FALSE
      OBVIOUS
    <3>1. Rotated(c)
      BY <1>2, <2>2 DEF IInv, JobFacts, Rotated
    <3>2. QED
      BY <3>1 DEF IInv, OneRotation
  <2>4. QED
    BY <1>3, <1>5, <2>1, <2>2, <2>3 DEF IInv, OneRotation
<1>15. QED
  BY <1>6, <1>8, <1>9, <1>10, <1>11, <1>12, <1>13, <1>14 DEF IInv

\* Revoking a row leaves the rest of it as it is.
LEMMA RevokedRow ==
  ASSUME NEW r \in Row
  PROVE  LET revoked == [r EXCEPT !.revoked = TRUE]
         IN  /\ revoked \in Row
             /\ revoked.by = r.by /\ revoked.from = r.from
             /\ revoked.owner = r.owner /\ (r.used => revoked.used)
<1> DEFINE revoked == [r EXCEPT !.revoked = TRUE]
<1>1. revoked \in Row
  BY DEF Row
<1>2. revoked.by = r.by /\ revoked.from = r.from /\ revoked.owner = r.owner
  BY DEF Row
<1>3. r.used => revoked.used
  BY Zenon DEF Row
<1>4. QED
  BY <1>1, <1>2, <1>3

\* A logout writes a row that nobody holds locked, and only its revoked_at.
LEMMA RevokeSessionInv ==
  ASSUME IInv, NEW c \in Calls, RevokeSession(c)
  PROVE  IInv'
<1> DEFINE of == job[c].of
<1> USE SessionsAssumption DEF RevokeSession, End, Goto
<1>1. job[c].op = "revoke" /\ of \in SessionIds /\ Exists(of)
  BY DEF IInv, JobFacts, Fits
<1>2. /\ session' \in [SessionIds -> Row]
      /\ \A s \in SessionIds :
           /\ session'[s].by = session[s].by
           /\ session'[s].from = session[s].from
           /\ session'[s].owner = session[s].owner
           /\ session[s].used => session'[s].used
           /\ s # of => session'[s] = session[s]
  <2>1. /\ session'[of] = [session[of] EXCEPT !.revoked = TRUE]
        /\ \A s \in SessionIds : s # of => session'[s] = session[s]
        /\ session \in [SessionIds -> Row]
    BY <1>1 DEF IInv, TypeOK
  <2>2. /\ session'[of] \in Row
        /\ session'[of].by = session[of].by
        /\ session'[of].from = session[of].from
        /\ session'[of].owner = session[of].owner
        /\ session[of].used => session'[of].used
    BY <1>1, <2>1, RevokedRow
  <2>3. session' \in [SessionIds -> Row]
    BY <1>1, <2>1, <2>2
  <2>4. QED
    BY <2>1, <2>2, <2>3
<1>3. /\ pc'[c] = "idle" /\ job'[c] = NoJob
      /\ \A d \in Calls \ {c} :
           pc'[d] = pc[d] /\ job'[d] = job[d] /\ seen'[d] = seen[d]
      /\ \A d \in Calls \ {c}, s \in SessionIds : lock[s] = d => lock'[s] = d
  BY DEF IInv, TypeOK
<1>4. TypeOK'
  <2>1. NoRow \in Row /\ NoJob \in Job /\ "idle" \in Steps
    BY DEF NoRow, NoJob, Row, Job, Ops, Steps
  <2>2. lock' \in [SessionIds -> Calls \cup {NoCall}]
    BY DEF IInv, TypeOK
  <2>3. QED
    BY <1>2, <2>1, <2>2, PoolBound DEF IInv, TypeOK
<1>5. JobFacts'
  BY <1>2, <1>3 DEF IInv, JobFacts, Fits, NoJob, Exists
<1>6. Registered'
  <2>1. \A d \in Calls : job'[d].op = "register" =>
          d # c /\ job'[d] = job[d] /\ pc'[d] = pc[d]
    BY <1>3 DEF NoJob
  <2>2. QED
    BY <2>1 DEF IInv, Registered
<1>7. CheckedIsCurrent'
  <2> SUFFICES ASSUME NEW d \in Calls, pc'[d] = "check"
               PROVE  lock'[job'[d].of] = d /\ seen'[d] = session'[job'[d].of]
    BY DEF CheckedIsCurrent
  <2>1. d # c /\ pc[d] = "check"
    BY <1>3
  <2>2. /\ lock[job[d].of] = d /\ seen[d] = session[job[d].of]
        /\ job[d].of \in SessionIds
    BY <2>1 DEF IInv, CheckedIsCurrent, JobFacts, Fits
  <2>3. QED
    BY <1>2, <1>3, <2>1, <2>2
<1>8. RowFacts'
  <2>1. \A s \in SessionIds : ~Exists(s)' => session'[s] = NoRow
    BY <1>1, <1>2 DEF IInv, RowFacts, Exists
  <2>2. \A s \in SessionIds : session[s].from # NoSession =>
          session[s].from \in SessionIds /\ session[session[s].from].used
    BY DEF IInv, RowFacts, TypeOK, Row
  <2>3. \A s \in SessionIds : session'[s].from # NoSession =>
          session'[session'[s].from].used
    <3> SUFFICES ASSUME NEW s \in SessionIds, session'[s].from # NoSession
                 PROVE  session'[session'[s].from].used
      OBVIOUS
    <3>1. session'[s].from = session[s].from
      BY <1>2
    <3>2. session[s].from \in SessionIds /\ session[session[s].from].used
      BY <2>2, <3>1
    <3>3. session'[session[s].from].used
      BY <1>2, <3>2
    <3>4. QED
      BY <3>1, <3>3
  <2>4. QED
    BY <2>1, <2>3 DEF RowFacts
<1>9. OneSuccessor' /\ RegisterIsComplete'
  BY <1>2 DEF IInv, OneSuccessor, RegisterIsComplete
<1>10. OneRotation'
  <2>1. \A d \in Calls : Rotated(d)' => d # c /\ Rotated(d) /\ job'[d] = job[d]
    BY <1>3 DEF Rotated
  <2>2. \A d \in Calls : Rotated(d) => job[d].of \in SessionIds
    BY DEF IInv, JobFacts, Rotated
  <2>3. QED
    BY <1>2, <2>1, <2>2 DEF IInv, OneRotation
<1>11. QED
  BY <1>4, <1>5, <1>6, <1>7, <1>8, <1>9, <1>10 DEF IInv

-----------------------------------------------------------------------------
LEMMA RequestInv ==
  ASSUME IInv, NEW c \in Calls,
         Login(c) \/ Register(c) \/ Refresh(c) \/ Revoke(c)
  PROVE  IInv'
<1> USE DEF NoJob, Job, Ops, Fits
<1>1. CASE Login(c)
  <2>1. PICK u \in Users : Begin(c, "find", [NoJob EXCEPT !.op = "login", !.user = u])
    BY <1>1 DEF Login
  <2>2. QED
    BY <2>1, BeginInv
<1>2. CASE Register(c)
  <2>1. PICK u \in Users : Begin(c, "connect", [NoJob EXCEPT !.op = "register", !.user = u])
    BY <1>2 DEF Register
  <2>2. QED
    BY <2>1, BeginInv
<1>3. CASE Refresh(c)
  <2>1. PICK s \in SessionIds : Exists(s) /\
          Begin(c, "connect", [op |-> "refresh", user |-> session[s].owner, of |-> s])
    BY <1>3 DEF Refresh
  <2>2. session[s].owner \in Users
    BY DEF IInv, TypeOK, Row
  <2>3. QED
    BY <2>1, <2>2, BeginInv
<1>4. CASE Revoke(c)
  <2>1. PICK s \in SessionIds : Exists(s) /\
          Begin(c, "client", [op |-> "revoke", user |-> session[s].owner, of |-> s])
    BY <1>4 DEF Revoke
  <2>2. session[s].owner \in Users
    BY DEF IInv, TypeOK, Row
  <2>3. QED
    BY <2>1, <2>2, BeginInv
<1>5. QED
  BY <1>1, <1>2, <1>3, <1>4

LEMMA StepInv ==
  ASSUME IInv, NEW c \in Calls, Step(c)
  PROVE  IInv'
<1>1. CASE Connect(c)
  <2>1. job[c].op \in {"register", "refresh"}
    BY <1>1 DEF Connect, IInv, JobFacts, Fits
  <2>2. CASE job[c].op = "register"
    <3>1. Goto(c, "create") /\ "create" \in Steps
      BY <1>1, <2>2 DEF Connect, Steps
    <3>2. ~Rotated(c)'
      BY <1>1, <2>2 DEF Connect, Rotated
    <3>3. QED
      BY <1>1, <2>2, <3>1, <3>2, MoveInv DEF Connect, Fits, PartsAt
  <2>3. CASE job[c].op = "refresh"
    <3>1. Goto(c, "lock") /\ "lock" \in Steps
      BY <1>1, <2>3 DEF Connect, Steps
    <3>2. ~Rotated(c)'
      BY <3>1 DEF Goto, Rotated, IInv, TypeOK
    <3>3. QED
      BY <1>1, <2>3, <3>1, <3>2, MoveInv DEF Connect, Fits, PartsAt
  <2>4. QED
    BY <2>1, <2>2, <2>3
<1>2. CASE CreateUser(c)
  BY <1>2, ProvisionInv DEF CreateUser, PartsAt, Parts
<1>3. CASE CreateWallet(c)
  BY <1>3, ProvisionInv DEF CreateWallet, PartsAt, Parts
<1>4. CASE AddProfile(c)
  BY <1>4, ProvisionInv DEF AddProfile, PartsAt, Parts
<1>5. CASE CommitNothing(c)
  <2>1. job[c].op = "register" /\ Parts \subseteq account[job[c].user]
    BY <1>5 DEF CommitNothing, IInv, JobFacts, Fits, Registered, PartsAt
  <2>2. QED
    BY <1>5, <2>1, MoveInv DEF CommitNothing, Fits, PartsAt, Rotated, Steps, Goto
<1>6. CASE EmailTaken(c) \/ LoginRefused(c) \/ RefreshRefused(c)
  BY <1>6, EndInv DEF EmailTaken, LoginRefused, RefreshRefused
<1>7. CASE FindUser(c)
  <2>1. job[c].op = "login"
    BY <1>7 DEF FindUser, IInv, JobFacts, Fits
  <2>2. QED
    BY <1>7, <2>1, MoveInv DEF FindUser, Fits, PartsAt, Rotated, Steps, Goto
<1>8. CASE LockSession(c)
  BY <1>8, LockSessionInv
<1>9. CASE Rotate(c)
  BY <1>9, RotateInv
<1>10. CASE ReadUser(c)
  <2>1. job[c].op = "refresh" /\ Rotated(c)
    BY <1>10 DEF ReadUser, IInv, JobFacts, Fits, Rotated
  <2>2. QED
    BY <1>10, <2>1, MoveInv DEF ReadUser, Fits, Steps
<1>11. CASE ReadProfile(c)
  <2>1. /\ job[c].op \in {"login", "register", "refresh"}
        /\ job[c].op = "register" => Parts \subseteq account[job[c].user]
        /\ Rotated(c)' => Rotated(c)
    BY <1>11 DEF ReadProfile, IInv, JobFacts, Fits, Registered, PartsAt, Rotated
  <2>2. QED
    BY <1>11, <2>1, MoveInv DEF ReadProfile, Fits, PartsAt, Steps
<1>12. CASE InsertSession(c)
  BY <1>12, InsertSessionInv
<1>13. CASE RevokeClient(c)
  <2>1. job[c].op = "revoke"
    BY <1>13 DEF RevokeClient, IInv, JobFacts, Fits
  <2>2. QED
    BY <1>13, <2>1, MoveInv DEF RevokeClient, Fits, PartsAt, Rotated, Steps, Goto
<1>14. CASE RevokeSession(c)
  BY <1>14, RevokeSessionInv
<1>15. QED
  BY <1>1, <1>2, <1>3, <1>4, <1>5, <1>6, <1>7, <1>8, <1>9, <1>10, <1>11,
     <1>12, <1>13, <1>14 DEF Step

LEMMA NextInv == IInv /\ [Next]_vars => IInv'
<1> SUFFICES ASSUME IInv, [Next]_vars PROVE IInv'
  OBVIOUS
<1>1. CASE UNCHANGED vars
  BY <1>1 DEF IInv, TypeOK, JobFacts, Registered, CheckedIsCurrent, RowFacts,
       OneRotation, Rotated, OneSuccessor, RegisterIsComplete, Exists, vars
<1>2. ASSUME NEW c \in Calls,
             Login(c) \/ Register(c) \/ Refresh(c) \/ Revoke(c)
      PROVE  IInv'
  BY <1>2, RequestInv
<1>3. ASSUME NEW c \in Calls, Step(c) PROVE IInv'
  BY <1>3, StepInv
<1>4. ASSUME NEW c \in Calls, ConnectionTimeout(c) \/ Fail(c) PROVE IInv'
  BY <1>4, EndInv DEF ConnectionTimeout, Fail
<1>5. QED
  BY <1>1, <1>2, <1>3, <1>4 DEF Next

LEMMA Invariance == Spec => []IInv
BY InitInv, NextInv, PTL DEF Spec

-----------------------------------------------------------------------------
\* The types of AuthService's state; the pool never gives out more clients
\* than it has, whoever holds one and asks for another.
THEOREM TypeCorrect == Spec => []TypeOK
<1>1. IInv => TypeOK
  BY DEF IInv
<1>2. QED
  BY <1>1, Invariance, PTL

\* Single-use rotation: whatever refreshes race, and fail where they may,
\* one refresh token leads to at most one new session (AuthService.refresh).
THEOREM OneSuccessorCorrect == Spec => []OneSuccessor
<1>1. IInv => OneSuccessor
  BY DEF IInv
<1>2. QED
  BY <1>1, Invariance, PTL

\* Tokens that a registration hands out belong to a user with a wallet and a
\* risk profile, although its transaction covers none of the three INSERTs.
THEOREM RegisterCorrect == Spec => []RegisterIsComplete
<1>1. IInv => RegisterIsComplete
  BY DEF IInv
<1>2. QED
  BY <1>1, Invariance, PTL

\* Of a revoked session no refresh token is accepted: the row lock keeps the
\* logout out between the check of revoked_at and the UPDATE of used_at.
THEOREM RevokedCorrect == Spec => RevokedIsRefused
<1> DEFINE Kept == \A s \in SessionIds : session[s].revoked => session'[s].used = session[s].used
<1>1. IInv /\ [Next]_vars => Kept \/ UNCHANGED vars
  <2> SUFFICES ASSUME IInv, Next PROVE Kept
    OBVIOUS
  <2>1. CASE UNCHANGED session
    BY <2>1
  <2>2. ASSUME NEW c \in Calls, Rotate(c) PROVE Kept
    <3>1. job[c].of \in SessionIds /\ ~session[job[c].of].revoked
      BY <2>2 DEF Rotate, Valid, IInv, JobFacts, Fits, CheckedIsCurrent
    <3>2. \A s \in SessionIds : s # job[c].of => session'[s] = session[s]
      BY <2>2, <3>1 DEF Rotate, IInv, TypeOK
    <3>3. QED
      BY <3>1, <3>2
  <2>3. ASSUME NEW c \in Calls, InsertSession(c) PROVE Kept
    <3>1. Fresh \in SessionIds /\ ~session[Fresh].revoked
      BY <2>3 DEF InsertSession, Fresh, Unused, IInv, RowFacts, NoRow
    <3>2. \A s \in SessionIds : s # Fresh => session'[s] = session[s]
      BY <2>3, <3>1 DEF InsertSession, IInv, TypeOK
    <3>3. QED
      BY <3>1, <3>2
  <2>4. ASSUME NEW c \in Calls, RevokeSession(c) PROVE Kept
    BY <2>4 DEF RevokeSession, IInv, TypeOK, Row
  <2>5. ASSUME NEW c \in Calls, Step(c) PROVE Kept
    BY <2>1, <2>2, <2>3, <2>4, <2>5
    DEF Step, Connect, CreateUser, EmailTaken, CreateWallet, AddProfile,
        CommitNothing, FindUser, LoginRefused, LockSession, RefreshRefused,
        ReadUser, ReadProfile, RevokeClient, Provision
  <2>6. QED
    BY <2>1, <2>5 DEF Next, Login, Register, Refresh, Revoke, Begin,
         ConnectionTimeout, Fail
<1>2. QED
  BY <1>1, Invariance, PTL DEF Spec, RevokedIsRefused

-----------------------------------------------------------------------------
(***************************************************************************)
(* What PoolRecovers rests on besides fairness and the pool's timer: no    *)
(* client and no row lock is left behind, and whoever holds a row lock     *)
(* needs neither another one nor a client to go on.                        *)
(***************************************************************************)
Holding(c) ==
  \/ pc[c] \in {"create", "wallet", "risk", "commit", "lock", "check", "user",
                "revoke"}
  \/ pc[c] \in {"profile", "insert"} /\ job[c].op = "register"

\* A client is out of the pool exactly while a registration is between its
\* connect and its answer, a refresh between its connect and its reading of
\* the user, or a logout between its connect and its UPDATE: no error path
\* and no timeout keeps one (release() in finally).
ClientsInUse == holds = {c \in Calls : Holding(c)}

\* A row lock is held by a refresh that compares the token's hash, which
\* ends in a COMMIT or a ROLLBACK on the client it has.
LocksInUse ==
  \A s \in SessionIds : lock[s] # NoCall =>
    lock[s] \in holds /\ pc[lock[s]] = "check" /\ job[lock[s]].of = s

ResourcesInUse == ClientsInUse /\ LocksInUse

\* A step in which c keeps what it holds and goes to another statement.
LEMMA KeepsResources ==
  ASSUME IInv, ResourcesInUse, NEW c \in Calls,
         UNCHANGED <<holds, lock>>,
         \A d \in Calls \ {c} : pc'[d] = pc[d] /\ job'[d] = job[d],
         pc[c] # "check", Holding(c)' <=> Holding(c)
  PROVE  ResourcesInUse'
<1>1. \A d \in Calls : Holding(d)' <=> Holding(d)
  BY DEF Holding
<1>2. ClientsInUse'
  BY <1>1 DEF ResourcesInUse, ClientsInUse
<1>3. LocksInUse'
  BY DEF ResourcesInUse, LocksInUse, IInv, TypeOK
<1> QED
  BY <1>2, <1>3 DEF ResourcesInUse

LEMMA EndReleases ==
  ASSUME IInv, ResourcesInUse, NEW c \in Calls, End(c)
  PROVE  ResourcesInUse'
<1>1. /\ pc'[c] = "idle" /\ holds' = holds \ {c}
      /\ \A d \in Calls \ {c} : pc'[d] = pc[d] /\ job'[d] = job[d]
      /\ \A s \in SessionIds : lock'[s] = IF lock[s] = c THEN NoCall ELSE lock[s]
  BY DEF End, Goto, IInv, TypeOK
<1>2. /\ ~Holding(c)'
      /\ \A d \in Calls \ {c} : Holding(d)' <=> Holding(d)
  BY <1>1 DEF Holding
<1>3. ClientsInUse'
  BY <1>1, <1>2 DEF ResourcesInUse, ClientsInUse
<1>4. LocksInUse'
  BY <1>1 DEF ResourcesInUse, LocksInUse, IInv, TypeOK
<1> QED
  BY <1>3, <1>4 DEF ResourcesInUse

LEMMA ResourceStep == IInv /\ ResourcesInUse /\ [Next]_vars => ResourcesInUse'
<1> SUFFICES ASSUME IInv, ResourcesInUse, [Next]_vars PROVE ResourcesInUse'
  OBVIOUS
<1>1. CASE UNCHANGED vars
  BY <1>1 DEF vars, ResourcesInUse, ClientsInUse, LocksInUse, Holding
<1>2. ASSUME NEW c \in Calls, NEW step \in {"find", "connect", "client"}, NEW j,
             Begin(c, step, j)
      PROVE  ResourcesInUse'
  <2>1. /\ UNCHANGED <<holds, lock>> /\ pc[c] = "idle" /\ pc'[c] = step
        /\ \A d \in Calls \ {c} : pc'[d] = pc[d] /\ job'[d] = job[d]
    BY <1>2 DEF Begin, Goto, IInv, TypeOK
  <2> QED
    BY <2>1, KeepsResources DEF Holding
<1>3. ASSUME NEW c \in Calls, End(c)
      PROVE  ResourcesInUse'
  BY <1>3, EndReleases
<1>4. ASSUME NEW c \in Calls, Connect(c) \/ RevokeClient(c)
      PROVE  ResourcesInUse'
  <2>1. /\ UNCHANGED <<job, lock>> /\ holds' = holds \cup {c}
        /\ pc[c] \in {"connect", "client"}
        /\ pc'[c] \in {"create", "lock", "revoke"}
        /\ \A d \in Calls \ {c} : pc'[d] = pc[d]
    BY <1>4 DEF Connect, RevokeClient, Goto, IInv, TypeOK
  <2>2. Holding(c)' /\ \A d \in Calls \ {c} : Holding(d)' <=> Holding(d)
    BY <2>1 DEF Holding
  <2>3. ClientsInUse'
    BY <2>1, <2>2 DEF ResourcesInUse, ClientsInUse
  <2>4. LocksInUse'
    BY <2>1 DEF ResourcesInUse, LocksInUse, IInv, TypeOK
  <2> QED
    BY <2>3, <2>4 DEF ResourcesInUse
<1>5. ASSUME NEW c \in Calls,
             \/ CreateUser(c) \/ CreateWallet(c) \/ AddProfile(c)
             \/ CommitNothing(c) \/ FindUser(c) \/ ReadProfile(c)
      PROVE  ResourcesInUse'
  <2>1. /\ UNCHANGED <<holds, lock, job>>
        /\ \A d \in Calls \ {c} : pc'[d] = pc[d]
        /\ \/ pc[c] = "create" /\ pc'[c] = "wallet"
           \/ pc[c] = "wallet" /\ pc'[c] = "risk"
           \/ pc[c] = "risk" /\ pc'[c] = "commit"
           \/ pc[c] = "commit" /\ pc'[c] = "profile"
           \/ pc[c] = "find" /\ pc'[c] = "profile"
           \/ pc[c] = "profile" /\ pc'[c] = "insert"
    BY <1>5 DEF CreateUser, CreateWallet, AddProfile, Provision, CommitNothing,
       FindUser, ReadProfile, Goto, IInv, TypeOK
  <2>2. Fits(pc[c], job[c].op)
    BY DEF IInv, JobFacts
  <2> QED
    BY <2>1, <2>2, KeepsResources DEF Holding, Fits
<1>6. ASSUME NEW c \in Calls, LockSession(c)
      PROVE  ResourcesInUse'
  <2>1. /\ UNCHANGED <<holds, job>> /\ pc[c] = "lock" /\ pc'[c] = "check"
        /\ \A d \in Calls \ {c} : pc'[d] = pc[d]
        /\ lock' = [lock EXCEPT ![job[c].of] = c]
    BY <1>6 DEF LockSession, Goto, IInv, TypeOK
  <2>2. \A d \in Calls : Holding(d)' <=> Holding(d)
    BY <2>1 DEF Holding
  <2>3. ClientsInUse' /\ c \in holds
    BY <2>1, <2>2 DEF ResourcesInUse, ClientsInUse, Holding
  <2>4. LocksInUse'
    BY <2>1, <2>3 DEF ResourcesInUse, LocksInUse, IInv, TypeOK
  <2> QED
    BY <2>3, <2>4 DEF ResourcesInUse
<1>7. ASSUME NEW c \in Calls, Rotate(c)
      PROVE  ResourcesInUse'
  <2>1. /\ UNCHANGED <<holds, job>> /\ pc[c] = "check" /\ pc'[c] = "user"
        /\ \A d \in Calls \ {c} : pc'[d] = pc[d]
        /\ lock' = [lock EXCEPT ![job[c].of] = NoCall]
    BY <1>7 DEF Rotate, Goto, IInv, TypeOK
  <2>2. \A d \in Calls : Holding(d)' <=> Holding(d)
    BY <2>1 DEF Holding
  <2>3. ClientsInUse'
    BY <2>1, <2>2 DEF ResourcesInUse, ClientsInUse
  <2>4. LocksInUse'
    BY <2>1 DEF ResourcesInUse, LocksInUse, IInv, TypeOK
  <2> QED
    BY <2>3, <2>4 DEF ResourcesInUse
<1>8. ASSUME NEW c \in Calls, ReadUser(c)
      PROVE  ResourcesInUse'
  <2>1. /\ UNCHANGED <<lock, job>> /\ holds' = holds \ {c}
        /\ pc[c] = "user" /\ pc'[c] = "profile" /\ job[c].op = "refresh"
        /\ \A d \in Calls \ {c} : pc'[d] = pc[d]
    BY <1>8 DEF ReadUser, Goto, IInv, TypeOK, JobFacts, Fits
  <2>2. ~Holding(c)' /\ \A d \in Calls \ {c} : Holding(d)' <=> Holding(d)
    BY <2>1 DEF Holding
  <2>3. ClientsInUse'
    BY <2>1, <2>2 DEF ResourcesInUse, ClientsInUse
  <2>4. LocksInUse'
    BY <2>1 DEF ResourcesInUse, LocksInUse, IInv, TypeOK
  <2> QED
    BY <2>3, <2>4 DEF ResourcesInUse
<1> QED
  BY <1>1, <1>2, <1>3, <1>4, <1>5, <1>6, <1>7, <1>8
  DEF Next, Login, Register, Refresh, Revoke, ConnectionTimeout, Fail, Step,
      EmailTaken, LoginRefused, RefreshRefused, InsertSession, RevokeSession

\* No client and no row lock outlives the statements it is needed for,
\* whatever fails, is refused or times out.
THEOREM ResourcesCorrect == Spec => []ResourcesInUse
<1>1. Init => ResourcesInUse
  BY DEF Init, ResourcesInUse, ClientsInUse, LocksInUse, Holding
<1> QED
  BY <1>1, ResourceStep, Invariance, PTL DEF Spec

\* Waits for row locks do not chain and do not cross the pool: who is in the
\* way of a refresh or a logout waits neither for a lock nor for a client.
\* So the only waits that can close a circle are those for the pool, which
\* connectionTimeoutMillis ends.
LockWaitsEnd ==
  \A c \in Calls : pc[c] \in {"lock", "revoke"} /\ lock[job[c].of] # NoCall =>
    \E d \in Calls \ {c} : /\ lock[job[c].of] = d /\ d \in holds
                           /\ pc[d] \notin {"lock", "revoke"} /\ ~Asking(d)

\* No refresh or logout waits in a circle of row locks (AuthService).
THEOREM LockWaitsEndCorrect == Spec => []LockWaitsEnd
<1>1. IInv /\ ResourcesInUse => LockWaitsEnd
  <2> SUFFICES ASSUME IInv, ResourcesInUse, NEW c \in Calls,
                      pc[c] \in {"lock", "revoke"}, lock[job[c].of] # NoCall
               PROVE  \E d \in Calls \ {c} :
                        /\ lock[job[c].of] = d /\ d \in holds
                        /\ pc[d] \notin {"lock", "revoke"} /\ ~Asking(d)
    BY DEF LockWaitsEnd
  <2>1. job[c].of \in SessionIds
    BY DEF IInv, JobFacts, Fits
  <2>2. lock[job[c].of] \in Calls /\ lock[job[c].of] \in holds
        /\ pc[lock[job[c].of]] = "check"
    BY <2>1 DEF ResourcesInUse, LocksInUse, IInv, TypeOK
  <2> QED
    BY <2>2 DEF Asking
<1> QED
  BY <1>1, ResourcesCorrect, Invariance, PTL
=============================================================================
