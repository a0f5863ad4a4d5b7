----------------------------- MODULE StripeSync -----------------------------
(***************************************************************************)
(* How Stripe's subscription events reach the database: the webhook route  *)
(* enqueues each event under its own id and answers 200, the stripe-events *)
(* worker runs its handler, and the handler writes the subscriptions row   *)
(* and reseeds the credit quota in one transaction, while callers keep     *)
(* charging that quota.  The queue is module JobQueue with event ids as    *)
(* job ids; the quota tables are module QuotaLedger, whose operations are  *)
(* atomic here (module QuotaTx justifies it).                              *)
(***************************************************************************)
EXTENDS QuotaLedger, JobQueue

CONSTANTS
  Bodies,       \* the events Stripe may send
  Subs,         \* Stripe subscription ids
  Trial,        \* the plan of a new workspace
  Starter,      \* the plan of an event without plan_slug metadata
  OtherPlan,    \* a plan_slug the code does not know
  None,         \* absent metadata
  MaxPosts      \* bound: how often Stripe delivers one event

Types == {"upserted", "deleted", "payment_failed", "other"}
Statuses == {"trialing", "active", "past_due", "canceled"}

EventBody == [type : Types, ws : Workspaces \union {None}, sub : Subs \union {None},
              plan : Plans \union {OtherPlan, None}, status : Statuses, period : Periods]

\* A trial's subscription id is made of its workspace's id and named by it here.
SubRow == [sub : Subs \union Workspaces, plan : Plans, status : Statuses, period : Periods]

ASSUME StripeAssumption ==
  /\ Bodies \subseteq EventBody
  /\ \A b \in Bodies : b.type = "upserted" => b.sub # None
  /\ {Trial, Starter} \subseteq Plans
  /\ OtherPlan \notin Plans
  /\ None \notin Workspaces \union Subs \union Plans
  /\ NoRow \notin SubRow
  /\ MaxPosts \in Nat

VARIABLES
  sub,          \* subscriptions, by workspace
  body,         \* what each event id stands for, fixed by Stripe
  posts,        \* history: deliveries of each event answered with 200
  runs,         \* history: handler runs of each event that returned
  lapses,       \* history: how often the queue forgot or put back each event
  topup         \* history: credits granted by admins since the last seed

historyVars == <<runs, lapses, topup>>
syncVars == <<quotaVars, queueVars, sub, body, posts, historyVars>>

EffectivePlan(b) == IF b.plan = None THEN Starter ELSE b.plan

\* The handler returns without a database call.
Skips(b) ==
  \/ b.type = "other"
  \/ b.type \in {"upserted", "deleted"} /\ b.ws = None
  \/ b.type = "payment_failed" /\ b.sub = None

\* Constraints an upsert must meet: the plan exists, the workspace exists, and
\* stripe_subscription_id stays unique.
Accepted(b) ==
  /\ EffectivePlan(b) \in Plans
  /\ sub[b.ws] # NoRow
  /\ \A w \in Workspaces \ {b.ws} : sub[w] # NoRow => sub[w].sub # b.sub

---------------------------------------------------------------------------
SyncInit ==
  /\ QuotaInit
  /\ QueueInit
  /\ sub = [w \in Workspaces |-> NoRow]
  /\ body \in [Jobs -> Bodies]
  /\ posts = [e \in Jobs |-> 0]
  /\ runs = [e \in Jobs |-> 0]
  /\ lapses = [e \in Jobs |-> 0]
  /\ topup = [w \in Workspaces |-> 0]

\* createWorkspace: the trial subscription, in the workspace's own transaction.
\* No workspace_quotas row is written.
CreateWorkspace(w, period) ==
  /\ sub[w] = NoRow
  /\ sub' = [sub EXCEPT ![w] =
       [sub |-> w, plan |-> Trial, status |-> "trialing", period |-> period]]
  /\ UNCHANGED <<quotaVars, queueVars, body, posts, historyVars>>

\* POST /api/webhooks/stripe.  Stripe learns a workspace's id only once it exists.
Post(e) ==
  /\ posts[e] < MaxPosts
  /\ body[e].ws # None => sub[body[e].ws] # NoRow
  /\ Add(e)
  /\ posts' = [posts EXCEPT ![e] = @ + 1]
  /\ UNCHANGED <<quotaVars, sub, body, historyVars>>

Start(s) ==
  /\ \E e \in Jobs : Take(s, e)
  /\ UNCHANGED <<quotaVars, sub, body, posts, historyVars>>

---------------------------------------------------------------------------
(* The handler, each branch one transaction; Handled ends the job.         *)

\* A commit whose reply is lost has the handler throw.
Handled(s) ==
  /\ Return(s) \/ Throw(s)
  /\ runs' = [runs EXCEPT ![slot[s]] = @ + 1]
  /\ UNCHANGED <<body, posts, lapses>>

\* Fault: the quota is seeded only the first time.
UpsertSeedOnce(s) ==
  LET b == body[slot[s]] IN
  /\ Handled(s)
  /\ b.type = "upserted" /\ ~Skips(b)
  /\ Accepted(b)
  /\ sub' = [sub EXCEPT ![b.ws] =
       [sub |-> b.sub, plan |-> EffectivePlan(b), status |-> b.status, period |-> b.period]]
  /\ IF quota[b.ws] = NoRow
     THEN Seed(b.ws, EffectivePlan(b), b.period) /\ topup' = [topup EXCEPT ![b.ws] = 0]
     ELSE UNCHANGED <<quotaVars, topup>>

\* customer.subscription.created and .updated: subscription row and quota together.
Upsert(s) ==
  LET b == body[slot[s]] IN
  /\ Handled(s)
  /\ b.type = "upserted" /\ ~Skips(b)
  /\ Accepted(b)
  /\ sub' = [sub EXCEPT ![b.ws] =
       [sub |-> b.sub, plan |-> EffectivePlan(b), status |-> b.status, period |-> b.period]]
  /\ Seed(b.ws, EffectivePlan(b), b.period)
  /\ topup' = [topup EXCEPT ![b.ws] = 0]

\* Fault: the status is not one the readers of the table know.
CancelMisspelt(s) ==
  LET b == body[slot[s]] IN
  /\ Handled(s)
  /\ b.type = "deleted" /\ ~Skips(b)
  /\ sub' = IF sub[b.ws] = NoRow THEN sub ELSE [sub EXCEPT ![b.ws].status = "cancelled"]
  /\ UNCHANGED <<quotaVars, topup>>

\* customer.subscription.deleted: by workspace, whichever subscription it has now.
Cancel(s) ==
  LET b == body[slot[s]] IN
  /\ Handled(s)
  /\ b.type = "deleted" /\ ~Skips(b)
  /\ sub' = IF sub[b.ws] = NoRow THEN sub ELSE [sub EXCEPT ![b.ws].status = "canceled"]
  /\ UNCHANGED <<quotaVars, topup>>

\* invoice.payment_failed: by subscription id.
PastDue(s) ==
  LET b == body[slot[s]] IN
  /\ Handled(s)
  /\ b.type = "payment_failed" /\ ~Skips(b)
  /\ sub' = [w \in Workspaces |->
       IF sub[w] # NoRow /\ sub[w].sub = b.sub
       THEN [sub[w] EXCEPT !.status = "past_due"] ELSE sub[w]]
  /\ UNCHANGED <<quotaVars, topup>>

Skip(s) ==
  /\ Handled(s) /\ Return(s)
  /\ Skips(body[slot[s]])
  /\ UNCHANGED <<quotaVars, sub, topup>>

\* Fault: the handler swallows the error and returns.
FailQuietly(s) ==
  /\ Return(s)
  /\ ~Skips(body[slot[s]])
  /\ UNCHANGED <<quotaVars, sub, body, posts, historyVars>>

\* A constraint or the connection fails: rolled back, and the handler throws.
FailHandler(s) ==
  /\ Throw(s)
  /\ ~Skips(body[slot[s]])
  /\ UNCHANGED <<quotaVars, sub, body, posts, historyVars>>

---------------------------------------------------------------------------
(* The queue's own steps.                                                  *)

Runnable == {"absent", "waiting"}

\* History: the steps after which a finished or active event may run again.
CountLapses ==
  lapses' = [e \in Jobs |-> IF job[e] \notin Runnable /\ job'[e] \in Runnable
                            THEN lapses[e] + 1 ELSE lapses[e]]

Settle(s) ==
  /\ Report(s)
  /\ CountLapses
  /\ UNCHANGED <<quotaVars, sub, body, posts, runs, topup>>

LoseLock(e) ==
  /\ Stall(e)
  /\ CountLapses
  /\ UNCHANGED <<quotaVars, sub, body, posts, runs, topup>>

CrashWorker(s) ==
  /\ Crash(s)
  /\ UNCHANGED <<quotaVars, sub, body, posts, historyVars>>

---------------------------------------------------------------------------
(* The quota's other users.                                                *)

Consume ==
  /\ ConsumeCredits
  /\ UNCHANGED <<queueVars, sub, body, posts, historyVars>>

Grant(w, extra) ==
  /\ GrantCredits(w, extra)
  /\ topup' = [topup EXCEPT ![w] = @ + extra]
  /\ UNCHANGED <<queueVars, sub, body, posts, runs, lapses>>

SyncTick == Tick /\ UNCHANGED <<queueVars, sub, body, posts, historyVars>>

Handle(s) == Upsert(s) \/ Cancel(s) \/ PastDue(s) \/ Skip(s) \/ FailHandler(s)

SyncNext ==
  \/ \E w \in Workspaces, period \in Periods : CreateWorkspace(w, period)
  \/ \E e \in Jobs : Post(e) \/ LoseLock(e)
  \/ \E s \in Slots : Start(s) \/ Handle(s) \/ Settle(s) \/ CrashWorker(s)
  \/ Consume
  \/ \E w \in Workspaces, extra \in Extras : Grant(w, extra)
  \/ SyncTick

SyncSpec == SyncInit /\ [][SyncNext]_syncVars

\* A worker polls for jobs while a slot is free, its handler ends, its outcome
\* is reported, and the stalled-job check finds the jobs of dead workers.
SyncFairSpec ==
  /\ SyncSpec
  /\ \A s \in Slots :
       WF_syncVars(Start(s)) /\ WF_syncVars(Handle(s)) /\ WF_syncVars(Settle(s))
  /\ \A e \in Jobs : WF_syncVars(Orphaned(e) /\ LoseLock(e))

---------------------------------------------------------------------------
(* Properties.                                                             *)

\* Types of the subscription table, the events and the histories, next to
\* those of the quota tables and the queue.
SyncTypeOK ==
  /\ QuotaTypeOK
  /\ QueueTypeOK
  /\ sub \in [Workspaces -> SubRow \union {NoRow}]
  /\ body \in [Jobs -> Bodies]
  /\ posts \in [Jobs -> 0..MaxPosts]
  /\ runs \in [Jobs -> Nat]
  /\ lapses \in [Jobs -> Nat]
  /\ topup \in [Workspaces -> Nat]

\* Subscription and quota are written together or not at all: wherever there
\* is a quota row, it is for the subscription's present period and grants what
\* the subscription's present plan grants plus the admins' top-ups, whatever
\* the order, repetition or loss of events (stripe-worker.ts:60-89).
QuotaFollowsSubscription ==
  \A w \in Workspaces :
    quota[w] # NoRow =>
      /\ sub[w] # NoRow
      /\ quota[w].period = sub[w].period
      /\ quota[w].granted = Credits[sub[w].plan] + topup[w]

\* Delivering an event again never runs it again by itself: one run, and one
\* more each time the queue lost its lock or had evicted its record
\* (jobId: event.id, webhooks/stripe/route.ts:30-34).
RunsBounded == \A e \in Jobs : runs[e] <= 1 + lapses[e]

\* An event the queue calls completed has had a handler return (and so its
\* transaction commit), even if the slot that reports it is not the first.
CompletedMeansRan == \A e \in Jobs : job[e] = "completed" => runs[e] > 0

\* An enqueued event is not left for ever in the queue, whatever crashes and
\* stalls: it ends up completed, or failed and reported as such.
EventsSettle ==
  \A e \in Jobs : job[e] = "waiting" ~> job[e] \in {"completed", "failed", "absent"}

\* "Enterprise (creditsGranted = -1) => unlimited, never blocked" (quota.ts:7):
\* no workspace on an unlimited plan is marked as having hit its hard limit.
EnterpriseNeverBlocked ==
  \A w \in Workspaces :
    quota[w] # NoRow /\ Credits[sub[w].plan] = -1 => ~quota[w].hard
=============================================================================
