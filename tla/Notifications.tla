--------------------------- MODULE Notifications ----------------------------
(***************************************************************************)
(* What Aquila reports about a brand, until the bell of a page shows it:   *)
(* the webhook route stores the change, a job of the notification          *)
(* dispatcher tells every subscription of one user through its channel,    *)
(* all at once, and a tab's inbox loads the stored notifications while     *)
(* it listens to the user's Redis channel.  Jobs are cut off and run       *)
(* again, webhooks are sent again, messages and answers cross.             *)
(* Who enqueues the job is not in the repository.                          *)
(***************************************************************************)
EXTENDS Integers, Sequences, FiniteSets

CONSTANTS
  Workspaces,
  Changes,        \* what Aquila reports
  WsOf,           \* the workspace each change is about
  Subscribed,     \* enabled subscriptions of the user: [ws, channel]
  Runs,           \* bound: how often the job of each change is run
  MaxPosts,       \* bound: how often Aquila delivers each change
  Limit           \* how many notifications are listed (50)

ASSUME NotificationsAssumption ==
  /\ WsOf \in [Changes -> Workspaces]
  /\ Subscribed \subseteq [ws : Workspaces, channel : {"in_app", "email", "slack"}]
  /\ Runs \in [Changes -> Nat] /\ MaxPosts \in [Changes -> Nat] /\ Limit \in Nat \ {0}

\* A subscription of the change's workspace, told in one run of its job.
Tasks == UNION {[change : {c}, sub : {s \in Subscribed : s.ws = WsOf[c]}, run : 1..Runs[c]]
                : c \in Changes}

VARIABLES
  posted, acked,  \* deliveries of each change by Aquila, and those answered 200
  changes,        \* brand_changes rows of each change
  run,            \* runs of each change's job so far
  stage,          \* how far each task is
  rows,           \* notification_deliveries, oldest first
  accepted,       \* tasks whose mail or message the service took
  cookie,         \* the workspace of the browser's cookie (it does not expire here)
  tab,            \* the inbox of a tab
  pipe,           \* messages on their way to it
  patches         \* notifications it has asked to be marked read

hookVars == <<posted, acked, changes>>
dispatchVars == <<run, stage, rows, accepted>>
tabVars == <<cookie, tab, pipe, patches>>
notifVars == <<hookVars, dispatchVars, tabVars>>

Closed == [open |-> FALSE, live |-> FALSE, list |-> << >>, asked |-> "no",
           items |-> << >>, unread |-> 0]

NotifInit ==
  /\ posted = [c \in Changes |-> 0] /\ acked = posted /\ changes = posted
  /\ run = [c \in Changes |-> 0]
  /\ stage = [t \in Tasks |-> "none"]
  /\ rows = << >> /\ accepted = {}
  /\ cookie \in Workspaces
  /\ tab = Closed /\ pipe = << >> /\ patches = {}

---------------------------------------------------------------------------
(* The webhook of Aquila                                                   *)

\* A delivery: a row of its own, then 200; the insert may fail, or the answer
\* be lost, and Aquila deliver again.
Post(c) ==
  /\ posted[c] < MaxPosts[c]
  /\ posted' = [posted EXCEPT ![c] = @ + 1]
  /\ \E stored \in {0, 1} :
       /\ changes' = [changes EXCEPT ![c] = @ + stored]
       /\ \E told \in 0..stored : acked' = [acked EXCEPT ![c] = @ + told]
  /\ UNCHANGED <<dispatchVars, tabVars>>

---------------------------------------------------------------------------
(* The dispatcher                                                          *)

TasksOf(c) == {t \in Tasks : t.change = c /\ t.run = run[c] + 1}

\* The job of a stored change is taken, or given out again after a stall: the
\* subscriptions are read and all told at once.
StartRun(c) ==
  /\ changes[c] > 0
  /\ run[c] < Runs[c]
  /\ run' = [run EXCEPT ![c] = @ + 1]
  /\ stage' = [t \in Tasks |-> IF t \in TasksOf(c) THEN "start" ELSE stage[t]]
  /\ UNCHANGED <<rows, accepted, hookVars, tabVars>>

Row(t, status) == [id |-> t, status |-> status, read |-> FALSE]

\* dispatchInApp, first the row ...
InsertInApp(t) ==
  /\ stage[t] = "start" /\ t.sub.channel = "in_app"
  /\ rows' = Append(rows, Row(t, "delivered"))
  /\ stage' = [stage EXCEPT ![t] = "publish"]
  /\ UNCHANGED <<run, accepted, hookVars, tabVars>>

\* Fault: the message is published while the row is not there yet.
PublishEarly(t) ==
  /\ stage[t] \in {"start", "publish"} /\ t.sub.channel = "in_app"
  /\ stage' = [stage EXCEPT ![t] = "done"]
  /\ pipe' = IF tab.live THEN Append(pipe, t) ELSE pipe
  /\ UNCHANGED <<run, rows, accepted, hookVars, cookie, tab, patches>>

\* ... then the message, which reaches whoever listens to the user's channel.
Publish(t) ==
  /\ stage[t] = "publish"
  /\ stage' = [stage EXCEPT ![t] = "done"]
  /\ pipe' = IF tab.live THEN Append(pipe, t) ELSE pipe
  /\ UNCHANGED <<run, rows, accepted, hookVars, cookie, tab, patches>>

\* Fault: what the mail service answers is not looked at.
SendUnchecked(t) ==
  /\ stage[t] = "start" /\ t.sub.channel # "in_app"
  /\ \E ok \in BOOLEAN : accepted' = IF ok THEN accepted \union {t} ELSE accepted
  /\ stage' = [stage EXCEPT ![t] = "sent"]
  /\ UNCHANGED <<run, rows, hookVars, tabVars>>

\* dispatchEmail and dispatchSlack: the service takes the message, and says so unless
\* its reply is lost, or it does not.
Send(t) ==
  /\ stage[t] = "start" /\ t.sub.channel # "in_app"
  /\ \E taken, ok \in BOOLEAN :
       /\ ok => taken
       /\ accepted' = IF taken THEN accepted \union {t} ELSE accepted
       /\ stage' = [stage EXCEPT ![t] = IF ok THEN "sent" ELSE "failed"]
  /\ UNCHANGED <<run, rows, hookVars, tabVars>>

\* The outcome is recorded after it.
RecordOutcome(t) ==
  /\ stage[t] \in {"sent", "failed"}
  /\ rows' = Append(rows, Row(t, stage[t]))
  /\ stage' = [stage EXCEPT ![t] = "done"]
  /\ UNCHANGED <<run, accepted, hookVars, tabVars>>

\* No user, no key, no connection, a call or a statement that throws: allSettled
\* passes over it.  A mail may have gone out before.  Or the process dies.
GiveUp(t) ==
  /\ stage[t] \notin {"none", "done"}
  /\ stage' = [stage EXCEPT ![t] = "done"]
  /\ UNCHANGED <<run, rows, accepted, hookVars, tabVars>>

---------------------------------------------------------------------------
(* The inbox                                                               *)

OpenTab ==
  /\ ~tab.open
  /\ tab' = [Closed EXCEPT !.open = TRUE]
  /\ UNCHANGED <<cookie, pipe, patches, hookVars, dispatchVars>>

\* The page is left; requests in flight go on.
CloseTab ==
  /\ tab.open
  /\ tab' = Closed
  /\ pipe' = << >>
  /\ UNCHANGED <<cookie, patches, hookVars, dispatchVars>>

\* The stream is connected, to the channel of the user, not of a workspace;
\* when it breaks, what was on its way is lost.
Connect ==
  /\ tab.open /\ ~tab.live
  /\ tab' = [tab EXCEPT !.live = TRUE]
  /\ UNCHANGED <<cookie, pipe, patches, hookVars, dispatchVars>>

Disconnect ==
  /\ tab.live
  /\ tab' = [tab EXCEPT !.live = FALSE]
  /\ pipe' = << >>
  /\ UNCHANGED <<cookie, patches, hookVars, dispatchVars>>

Shown(n) == [id |-> n.id, read |-> n.read]
Unread(items) == {items[i].id : i \in {k \in DOMAIN items : ~items[k].read}}
Newest(items) == SubSeq(items, 1, IF Len(items) < Limit THEN Len(items) ELSE Limit)

\* ORDER BY ... DESC LIMIT: of each row listed, the newer ones are those before it.
NewestFirst(S) ==
  {at \in [1..(IF Cardinality(S) < Limit THEN Cardinality(S) ELSE Limit) -> S] :
     \A k \in DOMAIN at, i \in S : i > at[k] <=> \E l \in 1..(k - 1) : at[l] = i}

\* GET /api/notifications: the newest of the cookie's workspace are read ...
ReadList ==
  /\ tab.open /\ tab.asked = "no"
  /\ \E at \in NewestFirst({i \in DOMAIN rows : /\ rows[i].id.sub.ws = cookie
                                                 /\ rows[i].status = "delivered"}) :
       tab' = [tab EXCEPT !.asked = "read", !.list = [k \in DOMAIN at |-> Shown(rows[at[k]])]]
  /\ UNCHANGED <<cookie, pipe, patches, hookVars, dispatchVars>>

\* ... and replace, when they arrive, whatever the stream has brought.
ListArrives ==
  /\ tab.asked = "read"
  /\ tab' = [tab EXCEPT !.asked = "done", !.list = << >>, !.items = tab.list,
               !.unread = Cardinality(Unread(tab.list))]
  /\ UNCHANGED <<cookie, pipe, patches, hookVars, dispatchVars>>

\* The request fails: the inbox stays as it is.  Only without the cookie, which here
\* lives as long as the tab, would it be answered by an error's body.
ListFails ==
  /\ tab.open /\ tab.asked \in {"no", "read"}
  /\ tab' = [tab EXCEPT !.asked = "done", !.list = << >>]
  /\ UNCHANGED <<cookie, pipe, patches, hookVars, dispatchVars>>

\* Fault: the list grows with every message.
MessagesPile ==
  /\ pipe # << >>
  /\ pipe' = Tail(pipe)
  /\ tab' = [tab EXCEPT !.unread = @ + 1,
               !.items = <<[id |-> Head(pipe), read |-> FALSE]>> \o @]
  /\ UNCHANGED <<cookie, patches, hookVars, dispatchVars>>

MessageArrives ==
  /\ pipe # << >>
  /\ pipe' = Tail(pipe)
  /\ tab' = [tab EXCEPT !.unread = @ + 1,
               !.items = Newest(<<[id |-> Head(pipe), read |-> FALSE]>> \o @)]
  /\ UNCHANGED <<cookie, patches, hookVars, dispatchVars>>

AllRead(items, ids) ==
  [i \in DOMAIN items |-> IF items[i].id \in ids THEN [items[i] EXCEPT !.read = TRUE]
                          ELSE items[i]]
Down(n) == IF n > 0 THEN n - 1 ELSE 0

\* A click on an unread item: it is shown read at once, and the route is called.
MarkRead(i) ==
  /\ i \in DOMAIN tab.items
  /\ ~tab.items[i].read
  /\ tab' = [tab EXCEPT !.items = AllRead(@, {tab.items[i].id}), !.unread = Down(@)]
  /\ patches' = patches \union {tab.items[i].id}
  /\ UNCHANGED <<cookie, pipe, hookVars, dispatchVars>>

MarkAllRead ==
  /\ tab.unread > 0
  /\ tab' = [tab EXCEPT !.items = AllRead(@, Unread(@)), !.unread = 0]
  /\ patches' = patches \union Unread(tab.items)
  /\ UNCHANGED <<cookie, pipe, hookVars, dispatchVars>>

\* PATCH .../read finds the row if it is of the cookie's workspace; it answers
\* ok in any case, and a failure is not looked at.
Patch(id) ==
  /\ id \in patches
  /\ patches' = patches \ {id}
  /\ \E arrives \in BOOLEAN :
       rows' = [i \in DOMAIN rows |->
                  IF arrives /\ rows[i].id = id /\ id.sub.ws = cookie
                  THEN [rows[i] EXCEPT !.read = TRUE] ELSE rows[i]]
  /\ UNCHANGED <<cookie, tab, pipe, run, stage, accepted, hookVars>>

SwitchElsewhere(w) ==
  /\ cookie' = w
  /\ w # cookie
  /\ UNCHANGED <<tab, pipe, patches, hookVars, dispatchVars>>

NotifNext ==
  \/ \E c \in Changes : Post(c) \/ StartRun(c)
  \/ \E t \in Tasks : InsertInApp(t) \/ Publish(t) \/ Send(t) \/ RecordOutcome(t) \/ GiveUp(t)
  \/ OpenTab \/ CloseTab \/ Connect \/ Disconnect
  \/ ReadList \/ ListArrives \/ ListFails \/ MessageArrives
  \/ \E i \in 1..Limit : MarkRead(i)
  \/ MarkAllRead
  \/ \E id \in Tasks : Patch(id)
  \/ \E w \in Workspaces : SwitchElsewhere(w)

NotifSpec == NotifInit /\ [][NotifNext]_notifVars

---------------------------------------------------------------------------
(* Properties.                                                             *)

Items == [id : Tasks, read : BOOLEAN]

\* Types; one row at most for each telling of a subscription; a list within the
\* limit.
NotifTypeOK ==
  /\ posted \in [Changes -> Nat] /\ run \in [Changes -> Nat]
  /\ stage \in [Tasks -> {"none", "start", "publish", "sent", "failed", "done"}]
  /\ rows \in Seq([id : Tasks, status : {"delivered", "sent", "failed"}, read : BOOLEAN])
  /\ \A i, j \in DOMAIN rows : rows[i].id = rows[j].id => i = j
  /\ accepted \subseteq Tasks /\ patches \subseteq Tasks
  /\ cookie \in Workspaces
  /\ tab.items \in Seq(Items) /\ tab.list \in Seq(Items) /\ pipe \in Seq(Tasks)
  /\ Len(tab.items) <= Limit /\ tab.unread \in Nat

\* What the bell shows is true: every item, on whatever way it came, is a stored
\* notification of the user; and the badge never counts fewer than the unread
\* items below it, though items arrive twice, are replaced and dropped.
InboxTrue ==
  /\ \A id \in {tab.items[i].id : i \in DOMAIN tab.items} \union {pipe[i] : i \in DOMAIN pipe} :
       \E i \in DOMAIN rows : rows[i].id = id /\ rows[i].status = "delivered"
  /\ Cardinality(Unread(tab.items)) <= tab.unread

\* What the tables say happened did happen: a delivery recorded as sent was taken
\* by the service, and every delivery of Aquila that was answered 200 has a row.
RecordsTruthful ==
  /\ \A i \in DOMAIN rows : rows[i].status = "sent" => rows[i].id \in accepted
  /\ \A c \in Changes : acked[c] <= changes[c] /\ changes[c] <= posted[c]
=============================================================================
