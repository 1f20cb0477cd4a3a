------------------------------- MODULE Ledger -------------------------------
(***************************************************************************)
(* What the wallet promises its callers: each key is posted at most once,  *)
(* in one indivisible step that moves the balance, the reserve and the     *)
(* ledger together, and what a caller is told is true when it is told.     *)
(* There are no transactions, locks, snapshots or failures here.           *)
(***************************************************************************)
EXTENDS WalletRequests

VARIABLES
  account,    \* account[u]: the committed wallet_accounts row of user u
  ledger,     \* ledger[u]: the committed wallet_transactions rows of u
  told        \* the last answer given to a caller, with the key it used

Answers == {"ok", "refused", "missing", "failed"}
Nothing == [key |-> NoKey, answer |-> "failed"]

Posted(k) ==
  \E u \in Users : \E i \in DOMAIN ledger[u] : ledger[u][i].key = k

Init ==
  /\ account = [u \in Users |-> EmptyAccount]
  /\ ledger = [u \in Users |-> <<>>]
  /\ told = Nothing

Post(k) ==
  LET u == User(k) IN
  /\ u \in Opened
  /\ ~Posted(k)
  /\ Covered(account[u], Request[k])
  /\ account' = [account EXCEPT ![u] = NewAccount(@, Request[k])]
  /\ ledger' = [ledger EXCEPT ![u] = Append(@, NewEntry(account[u], k))]
  /\ UNCHANGED told

\* "failed" is no information: the request may or may not have been posted.
Truthful(k, answer) ==
  /\ answer = "ok" => Posted(k)
  /\ answer = "refused" =>
       ~Posted(k) /\ ~Covered(account[User(k)], Request[k])
  /\ answer = "missing" => User(k) \notin Opened

Tell(k, answer) ==
  /\ Truthful(k, answer)
  /\ told' = [key |-> k, answer |-> answer]
  /\ UNCHANGED <<account, ledger>>

Next == \E k \in Keys : Post(k) \/ \E a \in Answers : Tell(k, a)

vars == <<account, ledger, told>>

Spec == Init /\ [][Next]_vars
=============================================================================
