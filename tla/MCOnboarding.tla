---------------------------- MODULE MCOnboarding ----------------------------
(* Two pages behind one address and one user's two requests on their links. *)
EXTENDS Onboarding

CONSTANTS v1, v2, i1, s1, s2, r1, r2, u1, u2, w1, w2

MCIpOf == [v \in Visitors |-> i1]
=============================================================================
