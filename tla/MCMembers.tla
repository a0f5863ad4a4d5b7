----------------------------- MODULE MCMembers -----------------------------
(* Two users, and a browser that is signed in by turns as each of them;     *)
(* tokens of two hours, one for an operator's impersonation.  The users may *)
(* change places: both are super-admins, or neither is.                     *)
EXTENDS Members, TLC

CONSTANTS u1, u2, b1, p1

Alike == Permutations({u1, u2})
=============================================================================
