------------------------------ MODULE MCWallet ------------------------------
(***************************************************************************)
(* Two users, one of whom has no wallet, and the calls one bet and one     *)
(* cash-in make of the other's wallet.  The withdrawal and the reserve     *)
(* together exceed the deposit, so who comes first matters; the win        *)
(* releases more than is held when it comes before the reserve.            *)
(***************************************************************************)
EXTENDS Wallet, TLC

CONSTANTS ann, ben, dep, wd, res, win, lone, w1, w2

MCRequest ==
     dep  :> [user |-> ann, type |-> "deposit",     amount |-> 3, releaseReserved |-> 0]
  @@ wd   :> [user |-> ann, type |-> "withdrawal",  amount |-> 2, releaseReserved |-> 0]
  @@ res  :> [user |-> ann, type |-> "bet_reserve", amount |-> 2, releaseReserved |-> 0]
  @@ win  :> [user |-> ann, type |-> "bet_win",     amount |-> 1, releaseReserved |-> 2]
  @@ lone :> [user |-> ben, type |-> "deposit",     amount |-> 1, releaseReserved |-> 0]
=============================================================================
