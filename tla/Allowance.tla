----------------------------- MODULE Allowance ------------------------------
(***************************************************************************)
(* What the credit quota promises, without rows, flags, keys or locks: a   *)
(* workspace has no account, an unlimited one or so much left to spend.    *)
(* Spending leaves a receipt, once, and takes its cost out of the account  *)
(* in the same step, never more than is left; nothing else lowers what is  *)
(* left but a refill to what the plan grants.                              *)
(***************************************************************************)
EXTENDS Integers

CONSTANTS
  Workspaces,
  Refills       \* the accounts the plans open

Account == [kind : {"none", "unlimited", "limited"}, left : Int]
NoAccount == [kind |-> "none", left |-> 0]

VARIABLES account, receipts

allowanceVars == <<account, receipts>>

AllowanceInit ==
  /\ account = [w \in Workspaces |-> NoAccount]
  /\ receipts = {}

\* Only w's account changes.
Only(w) == \A v \in Workspaces \ {w} : account'[v] = account[v]

Spend(w) ==
  \E r \in receipts' \ receipts :
    /\ r.ws = w
    /\ receipts' = receipts \union {r}
    /\ account[w].kind # "none"
    /\ account[w].kind = "limited" => r.cost <= account[w].left
    /\ account' = [account EXCEPT ![w].left =
                     IF account[w].kind = "limited" THEN @ - r.cost ELSE @]

Refill(w) ==
  /\ account'[w] \in Refills
  /\ Only(w)
  /\ account' \in [Workspaces -> Account]
  /\ UNCHANGED receipts

\* More than was left; what was unlimited may get a limit this way.
Raise(w) ==
  /\ account'[w].kind = "limited"
  /\ account[w].kind \in {"limited", "unlimited"}
  /\ account[w].kind = "limited" => account'[w].left > account[w].left
  /\ Only(w)
  /\ account' \in [Workspaces -> Account]
  /\ UNCHANGED receipts

AllowanceNext == \E w \in Workspaces : Spend(w) \/ Refill(w) \/ Raise(w)

AllowanceSpec == AllowanceInit /\ [][AllowanceNext]_allowanceVars
=============================================================================
