--------------------------- MODULE WalletRequests ---------------------------
(***************************************************************************)
(* The requests the wallet serves.  A Key stands for one value of          *)
(* wallet_transactions.idempotency_key.  A client that retries repeats its *)
(* payload, so a key names one request.                                    *)
(***************************************************************************)
EXTENDS WalletOps, Sequences

CONSTANTS
  Users,      \* the platform's users
  Opened,     \* the users whose wallet_accounts row exists
  Keys,       \* wallet idempotency keys
  NoKey,      \* stands where no call has a key
  Request     \* Request[k]: what the caller that uses key k asks for

RequestType ==
  [user: Users, type: TxType, amount: Nat, releaseReserved: Nat]

Entry == [key: Keys, amount: Int, balance_after: Nat]

ASSUME WalletAssumption ==
  /\ Opened \subseteq Users
  /\ NoKey \notin Keys
  /\ Request \in [Keys -> RequestType]

User(k) == Request[k].user

NewEntry(acct, k) ==
  [key           |-> k,
   amount        |-> SignedAmount(Request[k]),
   balance_after |-> NewAccount(acct, Request[k]).balance]
=============================================================================
