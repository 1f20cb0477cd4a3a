------------------------------ MODULE Sessions ------------------------------
(***************************************************************************)
(* AuthService: registration, login, the rotation of refresh tokens and    *)
(* logout, with the pool of database clients they run on.                  *)
(*                                                                         *)
(* register and refresh take a client and open a transaction on it.        *)
(* register keeps it until it answers; refresh, which does not await the   *)
(* promise of issueTokens that it returns, until it has read the user.     *)
(* The repositories and issueTokens do not use that client: each of their  *)
(* queries takes another one from the pool, and commits on its own.  So    *)
(* nothing they wrote is rolled back, and a pool whose clients are all     *)
(* held by such calls serves none of them: they wait until one has waited  *)
(* connectionTimeoutMillis.                                                *)
(***************************************************************************)
EXTENDS Integers, FiniteSets

CONSTANTS
  Users,        \* the people who register
  Member,       \* the one who has registered before
  SessionIds,   \* the session ids that can be drawn
  First,        \* the session Member has
  NoSession, NoCall,  \* stand where there is no session, no call
  Calls,        \* requests in flight at once
  PoolSize      \* max of the pool

ASSUME SessionsAssumption ==
  /\ Member \in Users
  /\ First \in SessionIds
  /\ NoSession \notin SessionIds
  /\ NoCall \notin Calls
  /\ PoolSize \in Nat \ {0}
  /\ IsFiniteSet(Calls)

VARIABLES
  account,   \* account[u]: which of u's rows exist
  session,   \* session[s]: the sessions row
  lock,      \* lock[s]: the call that holds its row lock
  holds,     \* the calls that hold a client
  pc, job,   \* of each call: next step, parameters
  seen       \* the sessions row it read

vars == <<account, session, lock, holds, pc, job, seen>>

Parts == {"user", "wallet", "profile"}
Ops == {"none", "login", "register", "refresh", "revoke"}
Job == [op: Ops, user: Users, of: SessionIds \cup {NoSession}]
NoJob == [op |-> "none", user |-> Member, of |-> NoSession]

\* used stands for used_at, revoked for revoked_at; by and from tell which
\* operation inserted the row, for which old session.
Row == [owner: Users, by: Ops, from: SessionIds \cup {NoSession},
        used: BOOLEAN, revoked: BOOLEAN]
NoRow == [owner |-> Member, by |-> "none", from |-> NoSession,
          used |-> FALSE, revoked |-> FALSE]

Steps == {"idle", "connect", "create", "wallet", "risk", "commit", "find",
          "lock", "check", "user", "profile", "insert", "client", "revoke"}

TypeOK ==
  /\ account \in [Users -> SUBSET Parts]
  /\ session \in [SessionIds -> Row]
  /\ lock \in [SessionIds -> Calls \cup {NoCall}]
  /\ holds \subseteq Calls /\ Cardinality(holds) <= PoolSize
  /\ pc \in [Calls -> Steps]
  /\ job \in [Calls -> Job]
  /\ seen \in [Calls -> Row]

Init ==
  /\ account = [u \in Users |-> IF u = Member THEN Parts ELSE {}]
  /\ session = [s \in SessionIds |->
       IF s = First THEN [NoRow EXCEPT !.by = "register"] ELSE NoRow]
  /\ lock = [s \in SessionIds |-> NoCall]
  /\ holds = {}
  /\ pc = [c \in Calls |-> "idle"]
  /\ job = [c \in Calls |-> NoJob]
  /\ seen = [c \in Calls |-> NoRow]

Exists(s) == session[s].by # "none"

Goto(c, step) == pc' = [pc EXCEPT ![c] = step]

\* The response, or the error: ROLLBACK and release, in finally.  A refresh
\* that is already in issueTokens has nothing to release any more.
End(c) ==
  /\ Goto(c, "idle")
  /\ job' = [job EXCEPT ![c] = NoJob]
  /\ holds' = holds \ {c}
  /\ lock' = [s \in SessionIds |-> IF lock[s] = c THEN NoCall ELSE lock[s]]
  /\ seen' = [seen EXCEPT ![c] = NoRow]

\* A client is free: pool.query takes it, runs one statement, returns it.
ClientFree == Cardinality(holds) < PoolSize

\* A call that asks the pool for a client, be it its second.
Asking(c) == pc[c] \in {"connect", "create", "wallet", "risk", "find", "user",
                        "profile", "insert", "client"}

-----------------------------------------------------------------------------
\* Mutants of LockSession (a SELECT that takes no lock), Valid (used_at is not
\* looked at), ConnectionTimeout (no connectionTimeoutMillis), Connect
\* (no max) and AddProfile (forgotten).
LockSessionPlain(c) ==
  /\ pc[c] = "lock"
  /\ seen' = [seen EXCEPT ![c] = session[job[c].of]]
  /\ Goto(c, "check")
  /\ UNCHANGED <<account, session, lock, holds, job>>

ValidWhenUsed(row) == row.by # "none" /\ ~row.revoked

WaitForEver(c) == FALSE /\ UNCHANGED vars

ConnectUnbounded(c) ==
  /\ pc[c] = "connect"
  /\ holds' = holds \cup {c}
  /\ Goto(c, IF job[c].op = "register" THEN "create" ELSE "lock")
  /\ UNCHANGED <<account, session, lock, job, seen>>

SkipProfile(c) ==
  /\ pc[c] = "risk"
  /\ ClientFree
  /\ Goto(c, "commit")
  /\ UNCHANGED <<account, session, lock, holds, job, seen>>

-----------------------------------------------------------------------------
Unused == {s \in SessionIds : ~Exists(s)}

\* Every session id that a call in flight may draw is still there to draw.
IdsLeft ==
  Cardinality(Unused) >
    Cardinality({c \in Calls : job[c].op \notin {"none", "revoke"}})

Begin(c, step, j) ==
  /\ pc[c] = "idle"
  /\ j.op = "revoke" \/ IdsLeft
  /\ Goto(c, step)
  /\ job' = [job EXCEPT ![c] = j]
  /\ UNCHANGED <<account, session, lock, holds, seen>>

Login(c) == \E u \in Users : Begin(c, "find", [NoJob EXCEPT !.op = "login", !.user = u])
Register(c) ==
  \E u \in Users : Begin(c, "connect", [NoJob EXCEPT !.op = "register", !.user = u])
Refresh(c) ==
  \E s \in SessionIds : Exists(s) /\
    Begin(c, "connect", [op |-> "refresh", user |-> session[s].owner, of |-> s])
Revoke(c) ==
  \E s \in SessionIds : Exists(s) /\
    Begin(c, "client", [op |-> "revoke", user |-> session[s].owner, of |-> s])

\* pool.connect and BEGIN.
Connect(c) ==
  /\ pc[c] = "connect"
  /\ ClientFree
  /\ holds' = holds \cup {c}
  /\ Goto(c, IF job[c].op = "register" THEN "create" ELSE "lock")
  /\ UNCHANGED <<account, session, lock, job, seen>>

\* Nobody returned a client for connectionTimeoutMillis.
ConnectionTimeout(c) ==
  /\ Asking(c)
  /\ ~ClientFree
  /\ End(c)
  /\ UNCHANGED <<account, session>>

-----------------------------------------------------------------------------
\* register.  The three INSERTs run outside of the transaction.
Provision(c, step, part, next) ==
  /\ pc[c] = step
  /\ ClientFree
  /\ account' = [account EXCEPT ![job[c].user] = @ \cup {part}]
  /\ Goto(c, next)
  /\ UNCHANGED <<session, lock, holds, job, seen>>

CreateUser(c) ==
  /\ account[job[c].user] = {}
  /\ Provision(c, "create", "user", "wallet")

\* 23505: the email is taken, be it by an attempt that got no further.
EmailTaken(c) ==
  /\ pc[c] = "create"
  /\ ClientFree
  /\ account[job[c].user] # {}
  /\ End(c)
  /\ UNCHANGED <<account, session>>

CreateWallet(c) == Provision(c, "wallet", "wallet", "risk")

AddProfile(c) == Provision(c, "risk", "profile", "commit")

\* COMMIT of a transaction that wrote nothing.
CommitNothing(c) ==
  /\ pc[c] = "commit"
  /\ Goto(c, "profile")
  /\ UNCHANGED <<account, session, lock, holds, job, seen>>

-----------------------------------------------------------------------------
\* login: findByEmail, the password and the account's status.
FindUser(c) ==
  /\ pc[c] = "find"
  /\ ClientFree
  /\ "user" \in account[job[c].user]
  /\ Goto(c, "profile")
  /\ UNCHANGED <<account, session, lock, holds, job, seen>>

LoginRefused(c) ==
  /\ pc[c] = "find"
  /\ ClientFree
  /\ End(c)
  /\ UNCHANGED <<account, session>>

-----------------------------------------------------------------------------
\* refresh.  SELECT ... FOR UPDATE waits for the row lock, then sees the row
\* as it was committed last.
LockSession(c) ==
  /\ pc[c] = "lock"
  /\ lock[job[c].of] = NoCall
  /\ lock' = [lock EXCEPT ![job[c].of] = c]
  /\ seen' = [seen EXCEPT ![c] = session[job[c].of]]
  /\ Goto(c, "check")
  /\ UNCHANGED <<account, session, holds, job>>

Valid(row) == row.by # "none" /\ ~row.revoked /\ ~row.used

\* 401: the row is not valid, or is expired, or holds another token's hash.
RefreshRefused(c) ==
  /\ pc[c] = "check"
  /\ End(c)
  /\ UNCHANGED <<account, session>>

\* The token is accepted: a step of its own, for the hash is compared, and
\* the used_at is written, after the row was read.
Rotate(c) ==
  /\ pc[c] = "check"
  /\ Valid(seen[c])
  /\ session' = [session EXCEPT ![job[c].of].used = TRUE]
  /\ lock' = [lock EXCEPT ![job[c].of] = NoCall]
  /\ Goto(c, "user")
  /\ UNCHANGED <<account, holds, job, seen>>

\* findById, after the COMMIT.  refresh returns the pending issueTokens, so
\* its finally releases the client before a query of issueTokens has a result.
ReadUser(c) ==
  /\ pc[c] = "user"
  /\ ClientFree
  /\ holds' = holds \ {c}
  /\ Goto(c, "profile")
  /\ UNCHANGED <<account, session, lock, job, seen>>

-----------------------------------------------------------------------------
\* issueTokens: read the risk profile, sign, hash, INSERT INTO sessions.
ReadProfile(c) ==
  /\ pc[c] = "profile"
  /\ ClientFree
  /\ Goto(c, "insert")
  /\ UNCHANGED <<account, session, lock, holds, job, seen>>

\* uuidv4: which one is drawn makes no difference.
Fresh == CHOOSE s \in Unused : TRUE

\* By IdsLeft there is an unused id whenever a call gets here.
InsertSession(c) ==
  /\ pc[c] = "insert"
  /\ ClientFree
  /\ Unused # {}
  /\ session' = [session EXCEPT ![Fresh] =
       [owner |-> job[c].user, by |-> job[c].op, from |-> job[c].of,
        used |-> FALSE, revoked |-> FALSE]]
  /\ End(c)
  /\ UNCHANGED account

-----------------------------------------------------------------------------
\* revoke: the UPDATE keeps its client while it waits for the row lock.
RevokeClient(c) ==
  /\ pc[c] = "client"
  /\ ClientFree
  /\ holds' = holds \cup {c}
  /\ Goto(c, "revoke")
  /\ UNCHANGED <<account, session, lock, job, seen>>

RevokeSession(c) ==
  /\ pc[c] = "revoke"
  /\ lock[job[c].of] = NoCall
  /\ session' = [session EXCEPT ![job[c].of].revoked = TRUE]
  /\ End(c)
  /\ UNCHANGED account

\* Any error, or a crash, between two statements.
Fail(c) ==
  /\ pc[c] # "idle"
  /\ End(c)
  /\ UNCHANGED <<account, session>>

Step(c) ==
  \/ Connect(c)
  \/ CreateUser(c) \/ EmailTaken(c) \/ CreateWallet(c) \/ AddProfile(c)
  \/ CommitNothing(c)
  \/ FindUser(c) \/ LoginRefused(c)
  \/ LockSession(c) \/ RefreshRefused(c) \/ Rotate(c) \/ ReadUser(c)
  \/ ReadProfile(c) \/ InsertSession(c)
  \/ RevokeClient(c) \/ RevokeSession(c)

Next ==
  \E c \in Calls :
    \/ Login(c) \/ Register(c) \/ Refresh(c) \/ Revoke(c)
    \/ Step(c) \/ ConnectionTimeout(c) \/ Fail(c)

Spec == Init /\ [][Next]_vars

\* A call goes on whenever it can and the pool's timer goes off.
FairSpec ==
  Spec /\ \A c \in Calls : WF_vars(Step(c) \/ ConnectionTimeout(c))

-----------------------------------------------------------------------------
\* "Single-use rotation" (README): however many refreshes with one token are
\* in flight, at most one session comes out of it.
OneSuccessor ==
  \A s, t \in SessionIds :
    session[s].from # NoSession /\ session[s].from = session[t].from => s = t

\* "revoked_at is checked on every token refresh" (README): once a logout
\* is through, the session's token is not accepted any more, although the
\* check and the acceptance are two statements.
RevokedIsRefused ==
  [][\A s \in SessionIds : session[s].revoked => session'[s].used = session[s].used]_vars

\* Who got tokens from a registration has a wallet and a risk profile.
RegisterIsComplete ==
  \A s \in SessionIds : session[s].by = "register" => account[session[s].owner] = Parts

\* Calls that hold a client and wait for a second one do not block the pool
\* for good.
PoolRecovers == []<>ClientFree
=============================================================================
