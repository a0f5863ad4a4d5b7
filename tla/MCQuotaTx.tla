------------------------------ MODULE MCQuotaTx -----------------------------
(* Two sessions racing on one or two workspaces: enough for every pair of   *)
(* transactions to interleave statement by statement.                      *)
EXTENDS QuotaTx

CONSTANTS w1, w2, k1, k2, p1, p2, basic, enterprise

MCCredits == [p \in Plans |-> IF p = enterprise THEN -1 ELSE 5]
=============================================================================
