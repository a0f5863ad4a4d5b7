---------------------------- MODULE MCStripeSync ----------------------------
(* Events about one or two workspaces: a purchase, a plan change, a         *)
(* cancellation, a failed payment, and the ones the handler skips or        *)
(* rejects.                                                                 *)
EXTENDS StripeSync, TLC

CONSTANTS w1, w2, s1, s2, k1, e1, e2, trial, starter, enterprise, a1, a2

MCCredits == [p \in Plans |-> IF p = enterprise THEN -1 ELSE IF p = trial THEN 4 ELSE 5]

\* The newest finished event of either kind is kept (100 and 500 in the code).
MCKeep == [e \in Jobs |-> 1]

Purchase(w, s, p, t) ==
  [type |-> "upserted", ws |-> w, sub |-> s, plan |-> p, status |-> "active", period |-> t]
Deletion(w, s) ==
  [type |-> "deleted", ws |-> w, sub |-> s, plan |-> None, status |-> "canceled", period |-> 1]
FailedInvoice(s) ==
  [type |-> "payment_failed", ws |-> None, sub |-> s, plan |-> None,
   status |-> "past_due", period |-> 1]
Unhandled ==
  [type |-> "other", ws |-> None, sub |-> None, plan |-> None, status |-> "active", period |-> 1]

\* Everything that can happen to one workspace with two subscriptions.
OneWorkspace ==
  {Purchase(w1, s1, None, 1), Purchase(w1, s2, enterprise, 2), Purchase(w1, s1, OtherPlan, 1),
   Deletion(w1, s1), FailedInvoice(s1)}

\* The skipped ones, and a subscription whose metadata names another workspace.
TwoWorkspaces ==
  {Purchase(w1, s1, starter, 1), Purchase(w2, s1, starter, 2), Purchase(None, s2, starter, 1),
   Deletion(None, s2), FailedInvoice(s1), FailedInvoice(None), Unhandled}

\* Slots are alike, and so are event ids before their bodies are chosen.
Symmetry == Permutations({a1, a2}) \union Permutations({e1, e2})
=============================================================================
