---------------------------- MODULE WalletProofs ----------------------------
(***************************************************************************)
(* For every set of users, keys, requests and concurrent calls: the        *)
(* wallet's safety invariants hold and the wallet implements the abstract  *)
(* Ledger.                                                                 *)
(***************************************************************************)
EXTENDS Wallet, TLAPS

\* A ledger row stands under the user its key belongs to.
RowsOfOwner ==
  \A u \in Users : \A i \in DOMAIN ledger[u] : User(ledger[u][i].key) = u

\* What a call between its locking read and its commit holds and knows.
Locked(w) == pc[w] \in {"check", "commit"}

LocksHeld ==
  \A w \in Workers : Locked(w) => lock[Owner(w)] = w /\ Owner(w) \in Opened

\* The snapshot of a call that waits for the lock: as long as no row was
\* added since, its key is still absent.
SnapshotInv ==
  \A w \in Workers : pc[w] = "lock" /\ snap[w] = Rows(w) => ~Posted(call[w])

CommitCovered ==
  \A w \in Workers : pc[w] = "commit" => Covered(row[w], Request[call[w]])

ReplyPosted == \A w \in Workers : pc[w] = "reply" => Posted(call[w])

\* The snapshot never counts rows that are not there.
SnapshotPast == \A w \in Workers : pc[w] = "lock" => snap[w] <= Rows(w)

IInv ==
  /\ TypeOK
  /\ RowsOfOwner
  /\ LocksHeld
  /\ LockedReadIsCurrent
  /\ SnapshotInv
  /\ SnapshotPast
  /\ CommitCovered
  /\ ReplyPosted
  /\ LedgerExplainsBalance
  /\ PostedOnce

-----------------------------------------------------------------------------
\* One covered mutation of a well-formed wallet is a well-formed wallet
\* (balance and reserve stay natural numbers), and moves the balance by the
\* signed amount its ledger row records.
LEMMA NewAccountType ==
  ASSUME NEW a \in WalletAccount, NEW r \in RequestType, Covered(a, r)
  PROVE  /\ NewAccount(a, r) \in WalletAccount
         /\ SignedAmount(r) \in Int
         /\ NewAccount(a, r).balance = a.balance + SignedAmount(r)
<1>1. /\ a.balance \in Nat /\ a.reserved \in Nat
      /\ r.amount \in Nat /\ r.releaseReserved \in Nat
  BY DEF WalletAccount, RequestType
<1>2. SignedAmount(r) \in Int /\ a.balance + SignedAmount(r) \in Nat
  BY <1>1 DEF SignedAmount, Covered
<1>3. Release(a.reserved, r.releaseReserved) \in Nat
  BY <1>1 DEF Release
<1>4. NewReserved(a, r) \in Nat
  BY <1>1, <1>3 DEF NewReserved
<1>5. QED
  BY <1>2, <1>4 DEF NewAccount, WalletAccount

LEMMA EntryType ==
  ASSUME NEW a \in WalletAccount, NEW k \in Keys, Covered(a, Request[k])
  PROVE  /\ NewEntry(a, k) \in Entry
         /\ NewEntry(a, k).key = k
         /\ NewEntry(a, k).amount = SignedAmount(Request[k])
         /\ NewEntry(a, k).balance_after = NewAccount(a, Request[k]).balance
<1>1. Request[k] \in RequestType
  BY WalletAssumption
<1>2. NewAccount(a, Request[k]) \in WalletAccount
      /\ SignedAmount(Request[k]) \in Int
  BY <1>1, NewAccountType
<1>3. QED
  BY <1>2 DEF NewEntry, Entry, WalletAccount

\* Without a change of the ledger no key becomes posted or unposted.
LEMMA PostedFrame ==
  ASSUME NEW k, UNCHANGED ledger
  PROVE  Posted(k)' <=> Posted(k)
BY DEF Posted, L!Posted

\* A step that leaves the database alone keeps what the database says of
\* itself.
LEMMA DatabaseFrame ==
  ASSUME IInv, UNCHANGED dbVars
  PROVE  RowsOfOwner' /\ LedgerExplainsBalance' /\ PostedOnce'
BY DEF IInv, dbVars, RowsOfOwner, LedgerExplainsBalance, BalanceBefore,
       PostedOnce

LEMMA InitInv == Init => IInv
<1> SUFFICES ASSUME Init PROVE IInv
  OBVIOUS
<1> USE DEF Init, L!Init
<1>1. EmptyAccount \in WalletAccount /\ L!EmptyAccount = EmptyAccount
  BY DEF EmptyAccount, WalletAccount, L!EmptyAccount
<1>2. TypeOK
  BY <1>1 DEF TypeOK, Steps, L!Nothing
<1>3. \A u \in Users : DOMAIN ledger[u] = {} /\ Len(ledger[u]) = 0
  <2> TAKE u \in Users
  <2>1. ledger[u] = <<>>
    OBVIOUS
  <2>2. QED
    BY <2>1
<1>4. RowsOfOwner /\ PostedOnce
  BY <1>3 DEF RowsOfOwner, PostedOnce
<1>5. LedgerExplainsBalance
  <2> SUFFICES ASSUME NEW u \in Users
               PROVE  account[u].balance =
                        BalanceBefore(ledger[u], Len(ledger[u]) + 1)
    BY <1>3 DEF LedgerExplainsBalance
  <2>1. account[u] = EmptyAccount
    BY <1>1
  <2>2. BalanceBefore(ledger[u], Len(ledger[u]) + 1) = 0
    BY <1>3 DEF BalanceBefore
  <2>3. EmptyAccount.balance = 0
    BY DEF EmptyAccount
  <2>4. QED
    BY <2>1, <2>2, <2>3
<1>6. QED
  BY <1>2, <1>4, <1>5
     DEF IInv, LocksHeld, Locked, LockedReadIsCurrent, SnapshotInv,
         SnapshotPast, CommitCovered, ReplyPosted

\* A call that ends without a commit leaves every other call as it was: the
\* only lock it gives back is its own.
LEMMA FinishInv ==
  ASSUME IInv, NEW w \in Workers, pc[w] # "idle",
         NEW a \in L!Answers, Finish(w, a), UNCHANGED dbVars
  PROVE  IInv'
<1> USE DEF Finish, Goto, dbVars
<1>1. EmptyAccount \in WalletAccount
  BY DEF EmptyAccount, WalletAccount
<1>2. TypeOK'
  BY <1>1 DEF IInv, TypeOK, Steps
<1>3. \A v \in Workers :
        pc'[v] # "idle" => /\ v # w
                           /\ pc'[v] = pc[v] /\ call'[v] = call[v]
                           /\ snap'[v] = snap[v] /\ row'[v] = row[v]
  BY DEF IInv, TypeOK
<1>4. \A v \in Workers : Locked(v)' => Locked(v) /\ v # w
  BY <1>3 DEF Locked
<1>5. \A v \in Workers : pc'[v] # "idle" =>
        Owner(v)' = Owner(v) /\ Owner(v) \in Users /\ Rows(v)' = Rows(v)
  BY <1>3, WalletAssumption DEF Owner, Rows, User, IInv, TypeOK, RequestType
<1>6. LocksHeld'
  BY <1>3, <1>4, <1>5 DEF IInv, LocksHeld, Locked
<1>7. LockedReadIsCurrent' /\ SnapshotInv' /\ SnapshotPast'
      /\ CommitCovered' /\ ReplyPosted'
  BY <1>3, <1>5, PostedFrame
     DEF IInv, LockedReadIsCurrent, SnapshotInv, SnapshotPast,
         CommitCovered, ReplyPosted
<1>8. QED
  BY <1>2, <1>6, <1>7, DatabaseFrame DEF IInv

\* The steps of a call before its commit: they change only what the call
\* itself knows and holds.
LEMMA BeginInv ==
  ASSUME IInv, NEW w \in Workers, NEW k \in Keys, Begin(w, k)
  PROVE  IInv'
<1> USE DEF Begin, Goto, dbVars
<1>1. TypeOK'
  BY DEF IInv, TypeOK, Steps
<1>2. \A v \in Workers : v # w => pc'[v] = pc[v] /\ call'[v] = call[v]
  BY DEF IInv, TypeOK
<1>3. pc'[w] = "lookup"
  BY DEF IInv, TypeOK
<1>4. LocksHeld' /\ LockedReadIsCurrent' /\ SnapshotInv' /\ SnapshotPast'
      /\ CommitCovered' /\ ReplyPosted'
  BY <1>2, <1>3, PostedFrame
     DEF IInv, LocksHeld, Locked, LockedReadIsCurrent, SnapshotInv,
         SnapshotPast, CommitCovered, ReplyPosted, Owner, Rows
<1>5. QED
  BY <1>1, <1>4, DatabaseFrame DEF IInv

LEMMA LookUpInv ==
  ASSUME IInv, NEW w \in Workers, LookUp(w)
  PROVE  IInv'
<1> USE DEF LookUp, Goto, dbVars
<1>1. call[w] \in Keys /\ Owner(w) \in Users /\ Rows(w) \in Nat
  BY WalletAssumption DEF IInv, TypeOK, Owner, User, RequestType, Rows
<1>2. TypeOK'
  BY <1>1 DEF IInv, TypeOK, Steps
<1>3. \A v \in Workers : v # w =>
        pc'[v] = pc[v] /\ snap'[v] = snap[v]
  BY DEF IInv, TypeOK
<1>4. /\ pc'[w] = IF Posted(call[w]) THEN "reply" ELSE "lock"
      /\ snap'[w] = Rows(w)
  BY DEF IInv, TypeOK
<1>5. LocksHeld' /\ LockedReadIsCurrent' /\ SnapshotInv' /\ SnapshotPast'
      /\ CommitCovered' /\ ReplyPosted'
  BY <1>1, <1>3, <1>4, PostedFrame
     DEF IInv, LocksHeld, Locked, LockedReadIsCurrent, SnapshotInv,
         SnapshotPast, CommitCovered, ReplyPosted, Owner, Rows
<1>6. QED
  BY <1>2, <1>5, DatabaseFrame DEF IInv

\* The locking read: the snapshot still counts every row of the user, so the
\* key looked up in it is absent now, and the lock keeps it so.
LEMMA LockRowInv ==
  ASSUME IInv, NEW w \in Workers, LockRow(w)
  PROVE  IInv'
<1> USE DEF LockRow, Goto, dbVars
<1>1. call[w] \in Keys /\ Owner(w) \in Users
  BY WalletAssumption DEF IInv, TypeOK, Owner, User, RequestType
<1>2. TypeOK'
  BY <1>1 DEF IInv, TypeOK, Steps
<1>3. \A v \in Workers : v # w => pc'[v] = pc[v] /\ row'[v] = row[v]
  BY DEF IInv, TypeOK
<1>4. pc'[w] = "check" /\ row'[w] = account[Owner(w)] /\ ~Posted(call[w])
  BY DEF IInv, TypeOK, SnapshotInv
<1>5. \A v \in Workers : v # w /\ Locked(v) => Owner(v) # Owner(w)
  BY WorkerAssumption DEF IInv, LocksHeld
<1>6. LocksHeld'
  <2> SUFFICES ASSUME NEW v \in Workers, Locked(v)'
               PROVE  lock'[Owner(v)] = v /\ Owner(v) \in Opened
    BY DEF LocksHeld, Owner
  <2>1. CASE v = w
    BY <2>1, <1>1 DEF IInv, TypeOK
  <2>2. CASE v # w
    BY <2>2, <1>3, <1>5 DEF IInv, TypeOK, LocksHeld, Locked
  <2>3. QED
    BY <2>1, <2>2
<1>7. LockedReadIsCurrent' /\ SnapshotInv' /\ SnapshotPast'
      /\ CommitCovered' /\ ReplyPosted'
  BY <1>3, <1>4, PostedFrame
     DEF IInv, LockedReadIsCurrent, SnapshotInv,
         SnapshotPast, CommitCovered, ReplyPosted, Owner, Rows
<1>8. QED
  BY <1>2, <1>6, <1>7, DatabaseFrame DEF IInv

LEMMA WriteInv ==
  ASSUME IInv, NEW w \in Workers, Write(w)
  PROVE  IInv'
<1> USE DEF Write, Goto, dbVars
<1>1. TypeOK'
  BY DEF IInv, TypeOK, Steps
<1>2. \A v \in Workers : v # w => pc'[v] = pc[v]
  BY DEF IInv, TypeOK
<1>3. pc'[w] = "commit"
  BY DEF IInv, TypeOK
<1>4. \A v \in Workers : Locked(v)' => Locked(v)
  BY <1>2, <1>3 DEF Locked
<1>5. LocksHeld' /\ LockedReadIsCurrent' /\ SnapshotInv' /\ SnapshotPast'
      /\ CommitCovered' /\ ReplyPosted'
  BY <1>2, <1>3, <1>4, PostedFrame
     DEF IInv, LocksHeld, Locked, LockedReadIsCurrent, SnapshotInv,
         SnapshotPast, CommitCovered, ReplyPosted, Owner, Rows
<1>6. QED
  BY <1>1, <1>5, DatabaseFrame DEF IInv

\* The commit is where everything meets: the rows it appends to are the ones
\* the call read under its lock, no other call holds that lock, and a call
\* that still waits for it has a snapshot without the new row.
LEMMA CommitInv ==
  ASSUME IInv, NEW w \in Workers, Commit(w)
  PROVE  IInv'
<1> DEFINE u == Owner(w)
           k == call[w]
           e == NewEntry(row[w], k)
           n == Len(ledger[u])
<1> USE DEF Goto
<1>1. /\ k \in Keys /\ u \in Users /\ Request[k] \in RequestType
      /\ row[w] \in WalletAccount /\ ledger[u] \in Seq(Entry) /\ n \in Nat
  BY WalletAssumption
     DEF IInv, TypeOK, Owner, User, RequestType, Commit
<1>2. /\ row[w] = account[u] /\ ~Posted(k) /\ lock[u] = w
      /\ Covered(row[w], Request[k])
  BY DEF IInv, LocksHeld, Locked, LockedReadIsCurrent, CommitCovered, Commit
<1>3. /\ e \in Entry /\ e.key = k
      /\ e.amount = SignedAmount(Request[k]) /\ e.amount \in Int
      /\ NewAccount(row[w], Request[k]) \in WalletAccount
      /\ e.balance_after = NewAccount(row[w], Request[k]).balance
      /\ e.balance_after = account[u].balance + e.amount
  BY <1>1, <1>2, NewAccountType, EntryType
<1>4. /\ account' = [account EXCEPT ![u] = NewAccount(row[w], Request[k])]
      /\ ledger' = [ledger EXCEPT ![u] = Append(ledger[u], e)]
      /\ lock' = [lock EXCEPT ![u] = Free]
      /\ pc' = [pc EXCEPT ![w] = "reply"] /\ pc[w] = "commit"
      /\ UNCHANGED <<told, call, snap, row>>
  BY DEF Commit
<1>5. /\ ledger'[u] = Append(ledger[u], e)
      /\ Len(ledger'[u]) = n + 1 /\ DOMAIN ledger'[u] = 1..(n + 1)
      /\ DOMAIN ledger[u] = 1..n
      /\ ledger'[u][n + 1] = e
      /\ \A i \in 1..n : ledger'[u][i] = ledger[u][i]
  BY <1>1, <1>3, <1>4 DEF IInv, TypeOK
<1>6. \A v \in Users : v # u => ledger'[v] = ledger[v] /\ account'[v] = account[v]
  BY <1>4 DEF IInv, TypeOK
<1>7. account'[u] = NewAccount(row[w], Request[k])
  BY <1>1, <1>4 DEF IInv, TypeOK
<1>8. TypeOK'
  <2>1. Append(ledger[u], e) \in Seq(Entry)
    BY <1>1, <1>3
  <2>2. ledger' \in [Users -> Seq(Entry)]
    BY <1>4, <2>1 DEF IInv, TypeOK
  <2>3. account' \in [Users -> WalletAccount]
    BY <1>3, <1>4 DEF IInv, TypeOK
  <2>4. lock' \in [Users -> Workers \cup {Free}] /\ pc' \in [Workers -> Steps]
    BY <1>4 DEF IInv, TypeOK, Steps
  <2>5. \A v \in Workers : pc'[v] # "idle" => call'[v] \in Keys
    BY <1>1, <1>4 DEF IInv, TypeOK
  <2>6. QED
    BY <2>2, <2>3, <2>4, <2>5, <1>4 DEF IInv, TypeOK
<1>9. ASSUME NEW j PROVE Posted(j)' <=> Posted(j) \/ j = k
  <2>1. CASE j = k
    BY <2>1, <1>1, <1>3, <1>5 DEF Posted, L!Posted
  <2>2. CASE j # k
    <3>1. ASSUME Posted(j)' PROVE Posted(j)
      <4>1. PICK x \in Users : \E i \in DOMAIN ledger'[x] : ledger'[x][i].key = j
        BY <3>1 DEF Posted, L!Posted
      <4>2. PICK i \in DOMAIN ledger'[x] : ledger'[x][i].key = j
        BY <4>1
      <4>3. CASE x # u
        BY <4>2, <4>3, <1>6 DEF Posted, L!Posted
      <4>4. CASE x = u
        <5>1. i \in 1..n
          BY <4>2, <4>4, <2>2, <1>1, <1>3, <1>5
        <5>2. QED
          BY <4>2, <4>4, <5>1, <1>5 DEF Posted, L!Posted
      <4>5. QED
        BY <4>3, <4>4
    <3>2. Posted(j) => Posted(j)'
      BY <1>1, <1>5, <1>6 DEF Posted, L!Posted
    <3>3. QED
      BY <2>2, <3>1, <3>2
  <2>3. QED
    BY <2>1, <2>2
<1>10. \A v \in Workers : v # w => pc'[v] = pc[v]
  BY <1>4 DEF IInv, TypeOK
<1>11. pc'[w] = "reply"
  BY <1>4 DEF IInv, TypeOK
<1>12. ASSUME NEW v \in Workers, pc[v] # "idle"
       PROVE  Owner(v)' = Owner(v) /\ Owner(v) \in Users
  BY <1>4, <1>12, WalletAssumption
     DEF Owner, User, IInv, TypeOK, RequestType
<1>13. ASSUME NEW v \in Workers, v # w, Locked(v)
       PROVE  Owner(v) # u /\ call[v] # k
  BY <1>2, <1>13 DEF IInv, LocksHeld, Owner
<1>14. LocksHeld'
  <2> SUFFICES ASSUME NEW v \in Workers, Locked(v)'
               PROVE  lock'[Owner(v)'] = v /\ Owner(v)' \in Opened
    BY DEF LocksHeld
  <2>1. v # w /\ Locked(v)
    BY <1>10, <1>11 DEF Locked
  <2>2. Owner(v) # u /\ Owner(v)' = Owner(v) /\ Owner(v) \in Users
    BY <2>1, <1>12, <1>13 DEF Locked
  <2>3. QED
    BY <2>1, <2>2, <1>4 DEF IInv, TypeOK, LocksHeld
<1>15. LockedReadIsCurrent'
  <2> SUFFICES ASSUME NEW v \in Workers, Locked(v)'
               PROVE  row'[v] = account'[Owner(v)'] /\ ~Posted(call[v])'
    BY <1>4 DEF LockedReadIsCurrent, Locked, Posted
  <2>1. v # w /\ Locked(v)
    BY <1>10, <1>11 DEF Locked
  <2>2. /\ Owner(v) # u /\ call[v] # k
        /\ Owner(v)' = Owner(v) /\ Owner(v) \in Users
    BY <2>1, <1>12, <1>13 DEF Locked
  <2>3. row[v] = account[Owner(v)] /\ ~Posted(call[v])
    BY <2>1 DEF IInv, LockedReadIsCurrent, Locked
  <2>4. ~Posted(call[v])'
    BY <2>2, <2>3, <1>4, <1>9
  <2>5. QED
    BY <2>2, <2>3, <2>4, <1>4, <1>6
<1>16. ASSUME NEW v \in Workers, pc'[v] = "lock"
       PROVE  /\ snap'[v] <= Rows(v)'
              /\ snap'[v] = Rows(v)' => ~Posted(call[v])'
  <2>1. v # w /\ pc[v] = "lock"
    BY <1>10, <1>11, <1>16
  <2>2. /\ Owner(v)' = Owner(v) /\ Owner(v) \in Users
        /\ snap[v] <= Rows(v) /\ snap[v] \in Nat
        /\ snap[v] = Rows(v) => ~Posted(call[v])
    BY <2>1, <1>12 DEF IInv, SnapshotPast, SnapshotInv, TypeOK
  <2>3. CASE Owner(v) = u
    <3>1. Rows(v) = n /\ Rows(v)' = n + 1
      BY <2>2, <2>3, <1>5 DEF Rows
    <3>2. QED
      BY <2>2, <3>1, <1>1, <1>4
  <2>4. CASE Owner(v) # u
    <3>1. Rows(v)' = Rows(v)
      BY <2>2, <2>4, <1>6 DEF Rows
    <3>2. call[v] # k
      BY <2>4 DEF Owner
    <3>3. QED
      BY <2>2, <3>1, <3>2, <1>4, <1>9
  <2>5. QED
    BY <2>3, <2>4
<1>17. SnapshotInv' /\ SnapshotPast'
  BY <1>4, <1>16 DEF SnapshotInv, SnapshotPast, Posted
<1>18. CommitCovered'
  BY <1>4, <1>10, <1>11 DEF IInv, CommitCovered
<1>19. ReplyPosted'
  <2> SUFFICES ASSUME NEW v \in Workers, pc'[v] = "reply"
               PROVE  Posted(call[v])'
    BY <1>4 DEF ReplyPosted, Posted
  <2>1. CASE v = w
    BY <2>1, <1>4, <1>9
  <2>2. CASE v # w
    BY <2>2, <1>4, <1>9, <1>10 DEF IInv, ReplyPosted
  <2>3. QED
    BY <2>1, <2>2
<1>20. RowsOfOwner'
  <2> SUFFICES ASSUME NEW x \in Users, NEW i \in DOMAIN ledger'[x]
               PROVE  User(ledger'[x][i].key) = x
    BY DEF RowsOfOwner
  <2>1. CASE x = u /\ i = n + 1
    BY <2>1, <1>3, <1>5 DEF Owner
  <2>2. CASE x = u /\ i \in 1..n
    BY <2>2, <1>1, <1>5 DEF IInv, RowsOfOwner
  <2>3. CASE x # u
    BY <2>3, <1>6 DEF IInv, RowsOfOwner
  <2>4. QED
    BY <2>1, <2>2, <2>3, <1>1, <1>5
<1>21. LedgerExplainsBalance'
  <2> SUFFICES ASSUME NEW x \in Users
               PROVE  /\ \A i \in DOMAIN ledger'[x] :
                           ledger'[x][i].balance_after =
                             BalanceBefore(ledger'[x], i) + ledger'[x][i].amount
                      /\ account'[x].balance =
                           BalanceBefore(ledger'[x], Len(ledger'[x]) + 1)
    BY DEF LedgerExplainsBalance
  <2>1. CASE x # u
    BY <2>1, <1>6 DEF IInv, LedgerExplainsBalance, BalanceBefore
  <2>2. CASE x = u
    <3>1. account[u].balance = BalanceBefore(ledger[u], n + 1)
      BY <1>1 DEF IInv, LedgerExplainsBalance
    <3>2. \A i \in 1..n : ledger[u][i].balance_after =
                             BalanceBefore(ledger[u], i) + ledger[u][i].amount
      BY <1>1, <1>5 DEF IInv, LedgerExplainsBalance
    <3>3. \A i \in 1..(n + 1) :
            BalanceBefore(ledger'[u], i) = BalanceBefore(ledger[u], i)
      BY <1>1, <1>5 DEF BalanceBefore
    <3>4. \A i \in 1..(n + 1) : ledger'[u][i].balance_after =
                                   BalanceBefore(ledger'[u], i) + ledger'[u][i].amount
      <4> TAKE i \in 1..(n + 1)
      <4>1. CASE i = n + 1
        BY <4>1, <3>1, <3>3, <1>1, <1>3, <1>5
      <4>2. CASE i \in 1..n
        BY <4>2, <3>2, <3>3, <1>1, <1>5
      <4>3. QED
        BY <4>1, <4>2, <1>1
    <3>5. BalanceBefore(ledger'[u], n + 2) = e.balance_after
      BY <1>1, <1>5 DEF BalanceBefore
    <3>6. account'[u].balance = e.balance_after
      BY <1>3, <1>7
    <3>7. QED
      BY <2>2, <3>4, <3>5, <3>6, <1>1, <1>5
  <2>3. QED
    BY <2>1, <2>2
<1>22. PostedOnce'
  <2> SUFFICES ASSUME NEW x \in Users, NEW y \in Users,
                      NEW i \in DOMAIN ledger'[x], NEW j \in DOMAIN ledger'[y],
                      ledger'[x][i].key = ledger'[y][j].key
               PROVE  x = y /\ i = j
    BY DEF PostedOnce
  <2>1. ASSUME NEW z \in Users, NEW m \in DOMAIN ledger'[z],
               ~(z = u /\ m = n + 1)
        PROVE  m \in DOMAIN ledger[z] /\ ledger'[z][m] = ledger[z][m]
    BY <2>1, <1>1, <1>5, <1>6
  <2>2. ASSUME NEW z \in Users, NEW m \in DOMAIN ledger[z]
        PROVE  ledger[z][m].key # k
    BY <2>2, <1>2 DEF Posted, L!Posted
  <2>3. CASE x = u /\ i = n + 1
    BY <2>1, <2>2, <2>3, <1>3, <1>5
  <2>4. CASE y = u /\ j = n + 1
    BY <2>1, <2>2, <2>4, <1>3, <1>5
  <2>5. CASE ~(x = u /\ i = n + 1) /\ ~(y = u /\ j = n + 1)
    BY <2>1, <2>5 DEF IInv, PostedOnce
  <2>6. QED
    BY <2>3, <2>4, <2>5
<1>23. QED
  BY <1>8, <1>14, <1>15, <1>17, <1>18, <1>19, <1>20, <1>21, <1>22 DEF IInv

LEMMA NextInv == IInv /\ [Next]_vars => IInv'
<1> SUFFICES ASSUME IInv, [Next]_vars PROVE IInv'
  OBVIOUS
<1>1. ASSUME NEW w \in Workers, NEW k \in Keys, Begin(w, k) PROVE IInv'
  BY <1>1, BeginInv
<1>2. ASSUME NEW w \in Workers, LookUp(w) PROVE IInv'
  BY <1>2, LookUpInv
<1>3. ASSUME NEW w \in Workers, WalletNotFound(w) PROVE IInv'
  BY <1>3, FinishInv DEF WalletNotFound, L!Answers
<1>4. ASSUME NEW w \in Workers, LockRow(w) PROVE IInv'
  BY <1>4, LockRowInv
<1>5. ASSUME NEW w \in Workers, SerializationFailure(w) PROVE IInv'
  BY <1>5, FinishInv DEF SerializationFailure, L!Answers
<1>6. ASSUME NEW w \in Workers, InsufficientFunds(w) PROVE IInv'
  BY <1>6, FinishInv DEF InsufficientFunds, L!Answers
<1>7. ASSUME NEW w \in Workers, Write(w) PROVE IInv'
  BY <1>7, WriteInv
<1>8. ASSUME NEW w \in Workers, Commit(w) PROVE IInv'
  BY <1>8, CommitInv
<1>9. ASSUME NEW w \in Workers, Reply(w) PROVE IInv'
  BY <1>9, FinishInv DEF Reply, L!Answers
<1>10. ASSUME NEW w \in Workers, Fail(w) PROVE IInv'
  BY <1>10, FinishInv DEF Fail, L!Answers
<1>11. CASE UNCHANGED vars
  <2>1. \A j : Posted(j)' <=> Posted(j)
    BY <1>11, PostedFrame DEF vars, dbVars
  <2>2. TypeOK' /\ UNCHANGED dbVars
    BY <1>11 DEF IInv, TypeOK, vars, dbVars
  <2>3. LocksHeld' /\ LockedReadIsCurrent' /\ SnapshotInv' /\ SnapshotPast'
        /\ CommitCovered' /\ ReplyPosted'
    BY <1>11, <2>1
       DEF vars, dbVars, IInv, LocksHeld, Locked, LockedReadIsCurrent,
           SnapshotInv, SnapshotPast, CommitCovered, ReplyPosted, Owner, Rows
  <2>4. QED
    BY <2>2, <2>3, DatabaseFrame DEF IInv
<1>12. QED
  BY <1>1, <1>2, <1>3, <1>4, <1>5, <1>6, <1>7, <1>8, <1>9, <1>10, <1>11
     DEF Next, Step

-----------------------------------------------------------------------------
LEMMA Invariance == Spec => []IInv
BY InitInv, NextInv, PTL DEF Spec

\* Every variable keeps its type; in particular balance and reserved never
\* go below zero, so the CHECK constraints of wallet_accounts never fire.
THEOREM TypeCorrect == Spec => []TypeOK
<1>1. IInv => TypeOK
  BY DEF IInv
<1>2. QED
  BY <1>1, Invariance, PTL

\* Every balance is explained by the ledger, row by row.
THEOREM LedgerCorrect == Spec => []LedgerExplainsBalance
<1>1. IInv => LedgerExplainsBalance
  BY DEF IInv
<1>2. QED
  BY <1>1, Invariance, PTL

\* No idempotency key is posted twice.
THEOREM PostedOnceCorrect == Spec => []PostedOnce
<1>1. IInv => PostedOnce
  BY DEF IInv
<1>2. QED
  BY <1>1, Invariance, PTL

\* What a call reads under the row lock stays true until it commits.
THEOREM LockedReadCorrect == Spec => []LockedReadIsCurrent
<1>1. IInv => LockedReadIsCurrent
  BY DEF IInv
<1>2. QED
  BY <1>1, Invariance, PTL

-----------------------------------------------------------------------------
\* The instance's copies of the wallet arithmetic are the wallet's own.
LEMMA SharedArithmetic ==
  ASSUME NEW k \in Keys, NEW a \in WalletAccount
  PROVE  /\ L!User(k) = User(k)
         /\ L!Covered(a, Request[k]) <=> Covered(a, Request[k])
         /\ L!NewAccount(a, Request[k]) = NewAccount(a, Request[k])
         /\ L!NewEntry(a, k) = NewEntry(a, k)
BY DEF L!User, User, L!Covered, Covered, L!NewAccount, NewAccount, L!NewEntry,
       NewEntry, L!SignedAmount, SignedAmount, L!NewReserved, NewReserved,
       L!Release, Release, L!DebitTypes, DebitTypes

\* An answer that is true in the current state is one the ledger may give.
LEMMA FinishTells ==
  ASSUME IInv, NEW w \in Workers, pc[w] # "idle", NEW a \in L!Answers,
         Finish(w, a), UNCHANGED dbVars, L!Truthful(call[w], a)
  PROVE  L!Next
BY DEF IInv, TypeOK, Finish, dbVars, L!Next, L!Tell

LEMMA CommitPosts ==
  ASSUME IInv, NEW w \in Workers, Commit(w)
  PROVE  L!Next
<1> DEFINE u == Owner(w)
           k == call[w]
<1>1. /\ k \in Keys /\ u \in Users /\ u \in Opened /\ row[w] = account[u]
      /\ row[w] \in WalletAccount /\ Covered(row[w], Request[k]) /\ ~Posted(k)
  BY WalletAssumption
     DEF IInv, TypeOK, Owner, User, RequestType, Commit, LocksHeld, Locked,
         LockedReadIsCurrent, CommitCovered
<1>2. /\ L!User(k) = u
      /\ L!Covered(account[u], Request[k])
      /\ L!NewAccount(account[u], Request[k]) = NewAccount(row[w], Request[k])
      /\ L!NewEntry(account[u], k) = NewEntry(row[w], k)
  BY <1>1, SharedArithmetic DEF Owner
<1>3. L!Post(k)
  BY <1>1, <1>2 DEF L!Post, Commit, Posted
<1>4. QED
  BY <1>1, <1>3 DEF L!Next

LEMMA StepRefines == IInv /\ [Next]_vars => [L!Next]_(L!vars)
<1> SUFFICES ASSUME IInv, Next PROVE L!Next \/ UNCHANGED L!vars
  BY DEF vars, L!vars
<1>1. ASSUME NEW w \in Workers, NEW k \in Keys, Begin(w, k)
      PROVE  UNCHANGED L!vars
  BY <1>1 DEF Begin, dbVars, L!vars
<1>2. ASSUME NEW w \in Workers, LookUp(w) \/ LockRow(w) \/ Write(w)
      PROVE  UNCHANGED L!vars
  BY <1>2 DEF LookUp, LockRow, Write, dbVars, L!vars
<1>3. ASSUME NEW w \in Workers, WalletNotFound(w) PROVE L!Next
  BY <1>3, FinishTells
     DEF WalletNotFound, L!Answers, L!Truthful, L!User, Owner, User
<1>4. ASSUME NEW w \in Workers, SerializationFailure(w) PROVE L!Next
  BY <1>4, FinishTells DEF SerializationFailure, L!Answers, L!Truthful
<1>5. ASSUME NEW w \in Workers, InsufficientFunds(w) PROVE L!Next
  <2>1. /\ call[w] \in Keys /\ row[w] = account[Owner(w)]
        /\ row[w] \in WalletAccount /\ ~Posted(call[w])
        /\ ~Covered(row[w], Request[call[w]])
    BY <1>5 DEF InsufficientFunds, IInv, TypeOK, LockedReadIsCurrent
  <2>2. L!Truthful(call[w], "refused")
    BY <2>1, SharedArithmetic DEF L!Truthful, Posted, Owner
  <2>3. QED
    BY <1>5, <2>2, FinishTells DEF InsufficientFunds, L!Answers
<1>6. ASSUME NEW w \in Workers, Commit(w) PROVE L!Next
  BY <1>6, CommitPosts
<1>7. ASSUME NEW w \in Workers, Reply(w) PROVE L!Next
  BY <1>7, FinishTells
     DEF Reply, L!Answers, L!Truthful, IInv, ReplyPosted, Posted
<1>8. ASSUME NEW w \in Workers, Fail(w) PROVE L!Next
  BY <1>8, FinishTells DEF Fail, L!Answers, L!Truthful
<1>9. QED
  BY <1>1, <1>2, <1>3, <1>4, <1>5, <1>6, <1>7, <1>8 DEF Next, Step

\* The transactions of the wallet, under every interleaving, failure and
\* retry, behave as the abstract ledger's indivisible posts.
THEOREM WalletImplementsLedger == Spec => ImplementsLedger
<1>1. Init => L!Init
  BY DEF Init
<1>2. QED
  BY <1>1, StepRefines, Invariance, PTL DEF Spec, ImplementsLedger, L!Spec

-----------------------------------------------------------------------------
(***************************************************************************)
(* What EveryCallEnds rests on besides fairness: a call's statements come  *)
(* to an end, and at every moment a call can execute its next one, or      *)
(* waits for a row lock that somebody holds who can.                       *)
(***************************************************************************)
Remaining(w) ==
  CASE pc[w] = "idle"   -> 0
    [] pc[w] = "reply"  -> 1
    [] pc[w] = "commit" -> 2
    [] pc[w] = "check"  -> 3
    [] pc[w] = "lock"   -> 4
    [] pc[w] = "lookup" -> 5

\* Each statement of a call brings it closer to its answer, and what the
\* other calls do does not throw it back: there is no retry inside a call.
CallsGoDown ==
  [][\A w \in Workers : pc[w] # "idle" =>
       \/ Remaining(w)' < Remaining(w)
       \/ pc'[w] = pc[w] /\ call'[w] = call[w]]_vars

\* A call never goes back, however many others interleave with it.
THEOREM CallsGoDownCorrect == Spec => CallsGoDown
<1> DEFINE Down(w) == \/ Remaining(w)' < Remaining(w)
                      \/ pc'[w] = pc[w] /\ call'[w] = call[w]
<1>1. ASSUME IInv, Next, NEW w \in Workers, pc[w] # "idle"
      PROVE  Down(w)
  <2>1. PICK v \in Workers : (\E k \in Keys : Begin(v, k)) \/ Step(v) \/ Fail(v)
    BY <1>1 DEF Next
  <2>2. CASE v # w
    <3>1. pc'[w] = pc[w] /\ call'[w] = call[w]
      BY <1>1, <2>1, <2>2
      DEF Begin, Step, LookUp, WalletNotFound, LockRow, SerializationFailure,
          InsufficientFunds, Write, Commit, Reply, Fail, Finish, Goto, IInv, TypeOK
    <3> QED
      BY <3>1
  <2>3. CASE v = w
    <3>1. ~\E k \in Keys : Begin(w, k)
      BY <1>1 DEF Begin
    <3>2. pc[w] \in Steps /\ pc \in [Workers -> Steps]
      BY <1>1 DEF IInv, TypeOK
    <3>3. CASE LookUp(w) \/ LockRow(w) \/ Write(w) \/ Commit(w)
      <4>1. \/ pc[w] = "lookup" /\ pc'[w] \in {"lock", "reply"}
            \/ pc[w] = "lock" /\ pc'[w] = "check"
            \/ pc[w] = "check" /\ pc'[w] = "commit"
            \/ pc[w] = "commit" /\ pc'[w] = "reply"
        BY <3>2, <3>3 DEF LookUp, LockRow, Write, Commit, Goto
      <4> QED
        BY <4>1 DEF Remaining
    <3>4. CASE \/ WalletNotFound(w) \/ SerializationFailure(w)
               \/ InsufficientFunds(w) \/ Reply(w) \/ Fail(w)
      <4>1. pc'[w] = "idle"
        BY <3>2, <3>4 DEF WalletNotFound, SerializationFailure,
           InsufficientFunds, Reply, Fail, Finish, Goto
      <4> QED
        BY <1>1, <3>2, <4>1 DEF Remaining, Steps
    <3> QED
      BY <2>1, <2>3, <3>1, <3>3, <3>4 DEF Step
  <2> QED
    BY <2>2, <2>3
<1>2. IInv /\ [Next]_vars => [\A w \in Workers : pc[w] # "idle" => Down(w)]_vars
  BY <1>1
<1> QED
  BY <1>2, Invariance, PTL DEF Spec, CallsGoDown

\* No row lock is left behind: who holds one is between its locking read
\* and its commit, on that very wallet.
LocksInUse ==
  \A u \in Users : lock[u] # Free =>
    lock[u] \in Workers /\ Locked(lock[u]) /\ Owner(lock[u]) = u

LEMMA LocksInUseStep == IInv /\ LocksInUse /\ [Next]_vars => LocksInUse'
<1> SUFFICES ASSUME IInv, LocksInUse, [Next]_vars PROVE LocksInUse'
  OBVIOUS
<1> USE DEF LocksInUse, Locked, Owner
<1>1. CASE UNCHANGED vars
  BY <1>1 DEF vars
<1>2. ASSUME NEW w \in Workers, Finish(w, "ok") \/ Finish(w, "failed")
                \/ Finish(w, "refused") \/ Finish(w, "missing")
      PROVE  LocksInUse'
  BY <1>2, WorkerAssumption DEF Finish, Goto, IInv, TypeOK
<1>3. ASSUME NEW w \in Workers, NEW k \in Keys, Begin(w, k)
      PROVE  LocksInUse'
  BY <1>3 DEF Begin, Goto, IInv, TypeOK
<1>4. ASSUME NEW w \in Workers, LookUp(w) \/ Write(w)
      PROVE  LocksInUse'
  <2>1. /\ UNCHANGED <<lock, call>>
        /\ \A v \in Workers \ {w} : pc'[v] = pc[v]
        /\ pc[w] = "lookup" \/ (pc[w] = "check" /\ pc'[w] = "commit")
    BY <1>4 DEF LookUp, Write, Goto, IInv, TypeOK
  <2> QED
    BY <2>1
<1>5. ASSUME NEW w \in Workers, LockRow(w)
      PROVE  LocksInUse'
  <2>1. /\ lock' = [lock EXCEPT ![Owner(w)] = w] /\ lock[Owner(w)] = Free
        /\ pc' = [pc EXCEPT ![w] = "check"] /\ UNCHANGED call /\ pc[w] = "lock"
    BY <1>5 DEF LockRow, Goto
  <2> QED
    BY <2>1 DEF IInv, TypeOK
<1>6. ASSUME NEW w \in Workers, Commit(w)
      PROVE  LocksInUse'
  <2>1. /\ lock' = [lock EXCEPT ![Owner(w)] = Free] /\ lock[Owner(w)] = w
        /\ pc' = [pc EXCEPT ![w] = "reply"] /\ UNCHANGED call
    BY <1>6 DEF Commit, Goto, IInv, LocksHeld
  <2> QED
    BY <2>1 DEF IInv, TypeOK
<1> QED
  BY <1>1, <1>2, <1>3, <1>4, <1>5, <1>6
  DEF Next, Step, WalletNotFound, SerializationFailure, InsufficientFunds, Reply, Fail

\* The next statement of w, or the error it ends in, can be executed now.
CanGo(w) ==
  \/ pc[w] \in {"lookup", "commit", "reply"}
  \/ pc[w] = "lock" /\ (Owner(w) \notin Opened \/ snap[w] # Rows(w)
                          \/ lock[Owner(w)] = Free)
  \/ pc[w] = "check" /\ (Covered(row[w], Request[call[w]]) => ~Posted(call[w]))

\* No call of the wallet waits for one that waits itself: debits and credits
\* cannot deadlock, and the UNIQUE constraint never stops one in the middle.
NobodyIsStuck ==
  \A w \in Workers : pc[w] # "idle" =>
    \/ CanGo(w)
    \/ /\ pc[w] = "lock"
       /\ \E v \in Workers \ {w} : lock[Owner(w)] = v /\ CanGo(v)

\* No set of calls of debit and credit is in a deadlock, because a row lock is
\* held by a call that is past its last wait (locks are taken one per call).
THEOREM NobodyIsStuckCorrect == Spec => []LocksInUse /\ []NobodyIsStuck
<1>1. Init => LocksInUse
  BY DEF Init, LocksInUse
<1>2. IInv /\ LocksInUse => NobodyIsStuck
  <2> SUFFICES ASSUME IInv, LocksInUse, NEW w \in Workers, pc[w] # "idle", ~CanGo(w)
               PROVE  /\ pc[w] = "lock"
                      /\ \E v \in Workers \ {w} : lock[Owner(w)] = v /\ CanGo(v)
    BY DEF NobodyIsStuck
  <2>1. \A v \in Workers : Locked(v) => CanGo(v)
    BY DEF IInv, LockedReadIsCurrent, Locked, CanGo
  <2>2. pc[w] = "lock" /\ lock[Owner(w)] # Free /\ Owner(w) \in Users
    BY <2>1, WalletAssumption DEF CanGo, Locked, IInv, TypeOK, Steps
  <2>3. Locked(lock[Owner(w)]) /\ lock[Owner(w)] \in Workers
    BY <2>2 DEF LocksInUse
  <2> QED
    BY <2>1, <2>2, <2>3 DEF Locked
<1> QED
  BY <1>1, <1>2, LocksInUseStep, Invariance, PTL DEF Spec
=============================================================================
