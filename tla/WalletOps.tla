----------------------------- MODULE WalletOps -----------------------------
(***************************************************************************)
(* The arithmetic of one wallet mutation, shared by every module that      *)
(* moves money.                                                            *)
(*                                                                         *)
(* Amounts are whole cents: every amount the routes admit has exactly two  *)
(* decimals and NUMERIC(15,2) stays below 2^53 cents, so parseFloat,       *)
(* +, - and toFixed(2) are exact on them.                                  *)
(***************************************************************************)
EXTENDS Integers

DebitTypes == {"withdrawal", "bet_reserve"}
CreditTypes == {"deposit", "bet_win", "bet_release", "adjustment"}
TxType == DebitTypes \cup CreditTypes

WalletAccount == [balance: Nat, reserved: Nat]

EmptyAccount == [balance |-> 0, reserved |-> 0]

\* Mutants: plausible bugs, each put in place of the definition it resembles
\* to see the properties catch it.
CoveredAlways(acct, r) == TRUE
ReleaseUnbounded(reserved, amount) == reserved - amount

\* A debit needs the whole amount in the available balance; a credit is
\* never refused.
Covered(acct, r) == r.type \in DebitTypes => acct.balance >= r.amount

\* What the ledger row records, with the sign of the movement.
SignedAmount(r) == IF r.type \in DebitTypes THEN -r.amount ELSE r.amount

\* Math.max(0, reserved - releaseReserved): a release beyond what is held
\* is cut off silently.
Release(reserved, amount) ==
  IF reserved > amount THEN reserved - amount ELSE 0

NewReserved(acct, r) ==
  CASE r.type = "bet_reserve" -> acct.reserved + r.amount
    [] r.type = "withdrawal"  -> acct.reserved
    [] OTHER                  -> Release(acct.reserved, r.releaseReserved)

NewAccount(acct, r) ==
  [balance  |-> acct.balance + SignedAmount(r),
   reserved |-> NewReserved(acct, r)]
=============================================================================
