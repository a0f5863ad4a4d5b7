-------------------------- MODULE MCNotifications ---------------------------
(* One user subscribed in two workspaces, one change in each; the job of   *)
(* the first is run twice, the webhook of the second delivered twice.      *)
EXTENDS Notifications
CONSTANTS w1, w2, c1, c2
MCWsOf == [c \in Changes |-> IF c = c1 THEN w1 ELSE w2]
MCSubscribed == {[ws |-> w1, channel |-> "in_app"], [ws |-> w2, channel |-> "email"]}
MCMaxPosts == [c \in Changes |-> IF c = c2 THEN 2 ELSE 1]
MCRuns == [c \in Changes |-> IF c = c1 THEN 2 ELSE 1]
=============================================================================
