------------------------------- MODULE Wallet -------------------------------
(***************************************************************************)
(* WalletRepository.debit and WalletRepository.credit as the database      *)
(* transactions they are.  Each worker is one in-flight call; any number   *)
(* of calls with the same key may run at once or one after the other (a    *)
(* client that retries, a duplicated delivery).                            *)
(*                                                                         *)
(* Both operations are one SERIALIZABLE transaction of four statements:    *)
(* look the key up, lock the wallet row, insert the ledger row, update the *)
(* wallet row.  Uncommitted writes are invisible to the other workers, so  *)
(* the two writes are one step; the snapshot, the row lock and the commit  *)
(* are steps of their own.  The snapshot is taken by the first statement.  *)
(* A FOR UPDATE on a row that another transaction changed after the        *)
(* snapshot is PostgreSQL's "could not serialize access" (40001), which    *)
(* nothing retries.                                                        *)
(***************************************************************************)
EXTENDS WalletRequests

CONSTANTS
  Workers,    \* concurrent calls of debit/credit
  Free        \* the holder of a row lock nobody holds

ASSUME WorkerAssumption == Free \notin Workers

VARIABLES
  account, ledger, told,   \* as in Ledger: the committed database
  lock,       \* lock[u]: the worker holding the row lock of u's wallet
  pc,         \* pc[w]: the statement worker w executes next
  call,       \* call[w]: the key of the call w serves
  snap,       \* snap[w]: how many ledger rows of the user its snapshot has
  row         \* row[w]: the wallet row it read under the lock

L == INSTANCE Ledger

dbVars == <<account, ledger>>
vars == <<account, ledger, told, lock, pc, call, snap, row>>

Steps == {"idle", "lookup", "lock", "check", "commit", "reply"}

TypeOK ==
  /\ account \in [Users -> WalletAccount]
  /\ ledger \in [Users -> Seq(Entry)]
  /\ told \in [key: Keys, answer: L!Answers] \cup {L!Nothing}
  /\ lock \in [Users -> Workers \cup {Free}]
  /\ pc \in [Workers -> Steps]
  /\ call \in [Workers -> Keys \cup {NoKey}]
  /\ snap \in [Workers -> Nat]
  /\ row \in [Workers -> WalletAccount]
  /\ \A w \in Workers : pc[w] # "idle" => call[w] \in Keys

Init ==
  /\ L!Init
  /\ lock = [u \in Users |-> Free]
  /\ pc = [w \in Workers |-> "idle"]
  /\ call = [w \in Workers |-> NoKey]
  /\ snap = [w \in Workers |-> 0]
  /\ row = [w \in Workers |-> EmptyAccount]

\* Mutant of Posted: neither the lookup nor the UNIQUE constraint.
NeverPosted(k) == FALSE

Posted(k) == L!Posted(k)
Owner(w) == User(call[w])
Rows(w) == Len(ledger[Owner(w)])

Goto(w, step) == pc' = [pc EXCEPT ![w] = step]

\* The call ends: its locals are gone, its row lock is released, and its
\* caller has an answer.
Finish(w, answer) ==
  /\ told' = [key |-> call[w], answer |-> answer]
  /\ lock' = [u \in Users |-> IF lock[u] = w THEN Free ELSE lock[u]]
  /\ Goto(w, "idle")
  /\ call' = [call EXCEPT ![w] = NoKey]
  /\ snap' = [snap EXCEPT ![w] = 0]
  /\ row' = [row EXCEPT ![w] = EmptyAccount]

-----------------------------------------------------------------------------
\* Mutants: plausible bugs, each put in place of the definition it resembles
\* to see the properties catch it.

\* LockRow in READ COMMITTED: the key looked up before the wait is stale.
LockRowReadCommitted(w) ==
  /\ pc[w] = "lock"
  /\ Owner(w) \in Opened
  /\ lock[Owner(w)] = Free
  /\ lock' = [lock EXCEPT ![Owner(w)] = w]
  /\ row' = [row EXCEPT ![w] = account[Owner(w)]]
  /\ Goto(w, "check")
  /\ UNCHANGED <<dbVars, told, call, snap>>

\* A plain SELECT in place of SELECT ... FOR UPDATE.
LockRowUnlocked(w) ==
  /\ pc[w] = "lock"
  /\ Owner(w) \in Opened
  /\ row' = [row EXCEPT ![w] = account[Owner(w)]]
  /\ Goto(w, "check")
  /\ UNCHANGED <<dbVars, told, lock, call, snap>>

\* withTransaction without the ROLLBACK: the connection keeps its lock.
InsufficientFundsHoldsLock(w) ==
  /\ pc[w] = "check"
  /\ ~Covered(row[w], Request[call[w]])
  /\ told' = [key |-> call[w], answer |-> "refused"]
  /\ Goto(w, "idle")
  /\ UNCHANGED <<dbVars, lock, call, snap, row>>

\* An error swallowed: the caller takes a rolled back call for a success.
FailSilently(w) ==
  /\ pc[w] # "idle"
  /\ Finish(w, "ok")
  /\ UNCHANGED dbVars

-----------------------------------------------------------------------------
\* pool.connect and BEGIN ISOLATION LEVEL SERIALIZABLE: no snapshot yet.
Begin(w, k) ==
  /\ pc[w] = "idle"
  /\ Goto(w, "lookup")
  /\ call' = [call EXCEPT ![w] = k]
  /\ UNCHANGED <<dbVars, told, lock, snap, row>>

\* SELECT ... WHERE idempotency_key = $1: takes the snapshot, and a key
\* found there ends the transaction with the row posted before.
LookUp(w) ==
  /\ pc[w] = "lookup"
  /\ Goto(w, IF Posted(call[w]) THEN "reply" ELSE "lock")
  /\ snap' = [snap EXCEPT ![w] = Rows(w)]
  /\ UNCHANGED <<dbVars, told, lock, call, row>>

WalletNotFound(w) ==
  /\ pc[w] = "lock"
  /\ Owner(w) \notin Opened
  /\ Finish(w, "missing")
  /\ UNCHANGED dbVars

\* SELECT ... FOR UPDATE: waits for the row lock, and takes it when the row
\* is still the one of the snapshot.
LockRow(w) ==
  /\ pc[w] = "lock"
  /\ Owner(w) \in Opened
  /\ lock[Owner(w)] = Free
  /\ snap[w] = Rows(w)
  /\ lock' = [lock EXCEPT ![Owner(w)] = w]
  /\ row' = [row EXCEPT ![w] = account[Owner(w)]]
  /\ Goto(w, "check")
  /\ UNCHANGED <<dbVars, told, call, snap>>

\* The row was updated by a transaction that committed after the snapshot.
SerializationFailure(w) ==
  /\ pc[w] = "lock"
  /\ snap[w] # Rows(w)
  /\ Finish(w, "failed")
  /\ UNCHANGED dbVars

InsufficientFunds(w) ==
  /\ pc[w] = "check"
  /\ ~Covered(row[w], Request[call[w]])
  /\ Finish(w, "refused")
  /\ UNCHANGED dbVars

\* INSERT INTO wallet_transactions, under its UNIQUE constraint, and UPDATE
\* wallet_accounts: both pending until the commit.
Write(w) ==
  /\ pc[w] = "check"
  /\ Covered(row[w], Request[call[w]])
  /\ ~Posted(call[w])
  /\ Goto(w, "commit")
  /\ UNCHANGED <<dbVars, told, lock, call, snap, row>>

Commit(w) ==
  LET u == Owner(w) IN
  /\ pc[w] = "commit"
  /\ account' = [account EXCEPT ![u] = NewAccount(row[w], Request[call[w]])]
  /\ ledger' = [ledger EXCEPT ![u] = Append(@, NewEntry(row[w], call[w]))]
  /\ lock' = [lock EXCEPT ![u] = Free]
  /\ Goto(w, "reply")
  /\ UNCHANGED <<told, call, snap, row>>

Reply(w) ==
  /\ pc[w] = "reply"
  /\ Finish(w, "ok")
  /\ UNCHANGED dbVars

\* An error or a crash anywhere in the call: statement_timeout, a lost
\* connection, a serialization failure the lock did not cause, the process
\* killed.  The transaction rolls back unless its commit was already
\* applied: then only the acknowledgement is lost.
Fail(w) ==
  /\ pc[w] # "idle"
  /\ Finish(w, "failed")
  /\ UNCHANGED dbVars

Step(w) ==
  \/ LookUp(w)
  \/ WalletNotFound(w)
  \/ LockRow(w)
  \/ SerializationFailure(w)
  \/ InsufficientFunds(w)
  \/ Write(w)
  \/ Commit(w)
  \/ Reply(w)

Next ==
  \E w \in Workers :
    \/ \E k \in Keys : Begin(w, k)
    \/ Step(w)
    \/ Fail(w)

Spec == Init /\ [][Next]_vars

\* The driver sends the next statement when the last one answered, and
\* PostgreSQL queues the waiters of a row lock: a step that is possible
\* again and again is taken.  Nothing is assumed of clients or failures.
FairSpec == Spec /\ \A w \in Workers : SF_vars(Step(w))

-----------------------------------------------------------------------------
\* The balance a user sees is the sum of the ledger, stated row by row:
\* each row's balance_after is the previous row's plus its amount, and the
\* wallet's balance is the last row's.  A lost update between two
\* concurrent debits or credits breaks the chain.
BalanceBefore(rows, i) == IF i = 1 THEN 0 ELSE rows[i - 1].balance_after

LedgerExplainsBalance ==
  \A u \in Users :
    /\ \A i \in DOMAIN ledger[u] :
         ledger[u][i].balance_after =
           BalanceBefore(ledger[u], i) + ledger[u][i].amount
    /\ account[u].balance = BalanceBefore(ledger[u], Len(ledger[u]) + 1)

\* No key is in the ledger twice, whatever was retried, duplicated or
\* interrupted: a deposit is credited once and a debit taken once.
PostedOnce ==
  \A u, v \in Users : \A i \in DOMAIN ledger[u], j \in DOMAIN ledger[v] :
    ledger[u][i].key = ledger[v][j].key => u = v /\ i = j

\* From the row lock to the commit, what a call read before it locked is
\* still true: the row it computes from is the committed one and its key is
\* not in the ledger.  So the UNIQUE constraint on the key is never what
\* stops a duplicate: the loser of a race got a 40001 before.
LockedReadIsCurrent ==
  \A w \in Workers : pc[w] \in {"check", "commit"} =>
    /\ row[w] = account[Owner(w)]
    /\ ~Posted(call[w])

\* The wallet is the abstract ledger: everything a transaction does besides
\* its commit and its answer is invisible.
ImplementsLedger == L!Spec

\* Every call ends and gives its row lock back, so one call cannot keep the
\* others of the same wallet waiting.
EveryCallEnds ==
  \A w \in Workers : pc[w] # "idle" ~> pc[w] = "idle"
=============================================================================
