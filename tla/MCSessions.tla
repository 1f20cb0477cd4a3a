----------------------------- MODULE MCSessions -----------------------------
(***************************************************************************)
(* A member with a session and a newcomer; three calls on a pool of two,   *)
(* so that two registrations or refreshes can hold the whole pool.         *)
(***************************************************************************)
EXTENDS Sessions

CONSTANTS ann, bob, s0, s1, s2, c1, c2, c3
=============================================================================
