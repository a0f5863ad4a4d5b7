---------------------------- MODULE Provisioning ----------------------------
(***************************************************************************)
(* How a new workspace gets its Aquila credentials and its Lago customer:  *)
(* createWorkspace enqueues a provision job after its transaction, the     *)
(* demo sign-in enqueues another when it sees no credentials, and the      *)
(* provisioner worker runs the five calls of its handler, any of which may *)
(* fail or lose its reply, while a second run of the same workspace may be *)
(* under way.  The usage aggregator repairs missing Lago customers.  The   *)
(* queue is module JobQueue; Aquila and Lago are the services' answers.    *)
(***************************************************************************)
EXTENDS JobQueue

CONSTANTS
  Workspaces,
  JobWs,        \* the workspace of each job
  DemoJobs,     \* jobs the demo sign-in adds, one id per workspace
  Keys,         \* API keys Aquila may issue
  NoKey         \* no aquila_credentials row; no workspace's key

ASSUME ProvisionAssumption ==
  /\ JobWs \in [Jobs -> Workspaces]
  /\ DemoJobs \subseteq Jobs
  /\ NoKey \notin Keys \union Workspaces

HandlerSteps == {"check", "org", "key", "store", "lago"}

VARIABLES
  created,      \* committed workspaces
  canceled,     \* those whose subscription is canceled
  pending,      \* createWorkspace calls between COMMIT and Queue.add
  demo,         \* demo sign-ins between the credentials check and Queue.add
  orgs,         \* orgs that exist at Aquila
  keys,         \* the org each key was issued to
  creds,        \* aquila_credentials: each workspace's stored key
  customers,    \* Lago customers
  round,        \* workspaces the aggregator's ticks have still to visit
  step,         \* the handler's next call, by slot
  held          \* the key its run was issued

entryVars == <<created, canceled, pending, demo, round>>
remoteVars == <<orgs, keys, creds, customers>>
provVars == <<queueVars, entryVars, remoteVars, step, held>>

\* The workspace slot s works on.
WsOf(s) == JobWs[slot[s]]

---------------------------------------------------------------------------
ProvInit ==
  /\ QueueInit
  /\ created = {} /\ canceled = {} /\ pending = {} /\ demo = {}
  /\ orgs = {}
  /\ keys = [k \in Keys |-> NoKey]
  /\ creds = [w \in Workspaces |-> NoKey]
  /\ customers = {} /\ round = {}
  /\ step = [s \in Slots |-> "check"]
  /\ held = [s \in Slots |-> NoKey]

\* Fault: the job is enqueued before the workspace is committed.
CreateAfterEnqueue(w) ==
  /\ w \notin created
  /\ pending' = pending \union {w}
  /\ UNCHANGED <<queueVars, created, canceled, demo, round, remoteVars, step, held>>

\* createWorkspace commits the workspace, its owner and its trial.
CreateWorkspace(w) ==
  /\ w \notin created
  /\ created' = created \union {w}
  /\ pending' = pending \union {w}
  /\ UNCHANGED <<queueVars, canceled, demo, round, remoteVars, step, held>>

\* ... and then enqueues its provision job, under an id of the job's own.
EnqueueProvision(w) ==
  /\ w \in pending
  /\ pending' = pending \ {w}
  /\ \E j \in Jobs \ DemoJobs : JobWs[j] = w /\ Add(j)
  /\ UNCHANGED <<created, canceled, demo, round, remoteVars, step, held>>

\* Redis is down or the process dies in between: no job, and nobody retries.
LoseProvision(w) ==
  /\ w \in pending
  /\ pending' = pending \ {w}
  /\ UNCHANGED <<queueVars, created, canceled, demo, round, remoteVars, step, held>>

\* demoLoginAction finds no credentials.
DemoCheck(w) ==
  /\ w \in created \ demo
  /\ creds[w] = NoKey
  /\ demo' = demo \union {w}
  /\ UNCHANGED <<queueVars, created, canceled, pending, round, remoteVars, step, held>>

\* ... and enqueues, ignoring an unavailable queue.
DemoEnqueue(w) ==
  /\ w \in demo
  /\ demo' = demo \ {w}
  /\ \/ \E j \in DemoJobs : JobWs[j] = w /\ Add(j)
     \/ UNCHANGED queueVars
  /\ UNCHANGED <<created, canceled, pending, round, remoteVars, step, held>>

\* The subscription is canceled: the aggregator no longer looks at the workspace.
CancelSubscription(w) ==
  /\ w \in created \ canceled
  /\ canceled' = canceled \union {w}
  /\ UNCHANGED <<queueVars, created, pending, demo, round, remoteVars, step, held>>

---------------------------------------------------------------------------
(* The handler, one call at a time.                                        *)

Start(s) ==
  /\ \E j \in Jobs : Take(s, j)
  /\ step' = [step EXCEPT ![s] = "check"]
  /\ held' = [held EXCEPT ![s] = NoKey]
  /\ UNCHANGED <<entryVars, remoteVars>>

\* Slot s is about to make call c.
At(s, c) == phase[s] = "running" /\ step[s] = c

\* Fault: the org, not the credentials, is taken for a finished provisioning.
CheckOrg(s) ==
  /\ At(s, "check")
  /\ IF WsOf(s) \notin orgs
     THEN step' = [step EXCEPT ![s] = "org"] /\ UNCHANGED queueVars
     ELSE Return(s) /\ UNCHANGED step
  /\ UNCHANGED <<entryVars, remoteVars, held>>

\* The idempotency guard: done if there are credentials already.
CheckCredentials(s) ==
  /\ At(s, "check")
  /\ IF creds[WsOf(s)] = NoKey
     THEN step' = [step EXCEPT ![s] = "org"] /\ UNCHANGED queueVars
     ELSE Return(s) /\ UNCHANGED step
  /\ UNCHANGED <<entryVars, remoteVars, held>>

CreateOrg(s) ==
  /\ At(s, "org")
  /\ orgs' = orgs \union {WsOf(s)}
  /\ step' = [step EXCEPT ![s] = "key"]
  /\ UNCHANGED <<queueVars, entryVars, keys, creds, customers, held>>

\* Fault: the raw key of another run is reused instead of a new one.
ReuseKey(s) ==
  /\ At(s, "key")
  /\ \E k \in Keys : held' = [held EXCEPT ![s] = k]
  /\ step' = [step EXCEPT ![s] = "store"]
  /\ UNCHANGED <<queueVars, entryVars, remoteVars>>

IssueApiKey(s) ==
  /\ At(s, "key")
  /\ \E k \in Keys :
       /\ keys[k] = NoKey
       /\ keys' = [keys EXCEPT ![k] = WsOf(s)]
       /\ held' = [held EXCEPT ![s] = k]
  /\ step' = [step EXCEPT ![s] = "store"]
  /\ UNCHANGED <<queueVars, entryVars, orgs, creds, customers>>

\* Fault: the insert replaces the credentials that are there.
StoreAlways(s) ==
  /\ At(s, "store")
  /\ creds' = [creds EXCEPT ![WsOf(s)] = held[s]]
  /\ step' = [step EXCEPT ![s] = "lago"]
  /\ UNCHANGED <<queueVars, entryVars, orgs, keys, customers, held>>

\* INSERT INTO aquila_credentials: workspace_id is the primary key.
StoreCredentials(s) ==
  /\ At(s, "store")
  /\ creds[WsOf(s)] = NoKey
  /\ creds' = [creds EXCEPT ![WsOf(s)] = held[s]]
  /\ step' = [step EXCEPT ![s] = "lago"]
  /\ UNCHANGED <<queueVars, entryVars, orgs, keys, customers, held>>

\* The Lago customer is upserted, or its failure is only logged.
UpsertCustomer(s) ==
  /\ At(s, "lago")
  /\ Return(s)
  /\ customers' \in {customers, customers \union {WsOf(s)}}
  /\ UNCHANGED <<entryVars, orgs, keys, creds, step, held>>

\* A call before Lago's fails, or took effect and lost its reply: the handler
\* throws.  The insert always fails when the row is there.
FailCall(s) ==
  /\ phase[s] = "running" /\ step[s] # "lago"
  /\ Throw(s)
  /\ \/ UNCHANGED remoteVars
     \/ /\ step[s] = "org"
        /\ orgs' = orgs \union {WsOf(s)}
        /\ UNCHANGED <<keys, creds, customers>>
     \/ /\ step[s] = "key"
        /\ \E k \in Keys : keys[k] = NoKey /\ keys' = [keys EXCEPT ![k] = WsOf(s)]
        /\ UNCHANGED <<orgs, creds, customers>>
     \/ /\ step[s] = "store" /\ creds[WsOf(s)] = NoKey
        /\ creds' = [creds EXCEPT ![WsOf(s)] = held[s]]
        /\ UNCHANGED <<orgs, keys, customers>>
  /\ UNCHANGED <<entryVars, step, held>>

---------------------------------------------------------------------------
(* The queue's own steps.                                                  *)

Forgotten(s) ==
  /\ step' = [step EXCEPT ![s] = "check"]
  /\ held' = [held EXCEPT ![s] = NoKey]
  /\ UNCHANGED <<entryVars, remoteVars>>

Settle(s) == Report(s) /\ Forgotten(s)
CrashWorker(s) == Crash(s) /\ Forgotten(s)
LoseLock(j) == Stall(j) /\ UNCHANGED <<entryVars, remoteVars, step, held>>

\* An aggregator tick reads the subscriptions that are not canceled.  Ticks may
\* overlap when one outlasts the interval.
TickStarts ==
  /\ round' = round \union (created \ canceled)
  /\ UNCHANGED <<queueVars, created, canceled, pending, demo, remoteVars, step, held>>

\* Fault: a customer Lago does not know is only logged.
VisitOnly(w) ==
  /\ w \in round
  /\ round' = round \ {w}
  /\ UNCHANGED <<queueVars, created, canceled, pending, demo, remoteVars, step, held>>

\* The tick comes to w.  Lago answers 404 for an unknown customer, which is then
\* upserted; a failure is counted and the tick goes on.
Visit(w) ==
  /\ w \in round
  /\ round' = round \ {w}
  /\ customers' \in {customers, customers \union {w}}
  /\ UNCHANGED <<queueVars, created, canceled, pending, demo, orgs, keys, creds, step, held>>

\* The aggregator's process dies; the next tick starts over.
TickAborts ==
  /\ round # {}
  /\ round' = {}
  /\ UNCHANGED <<queueVars, created, canceled, pending, demo, remoteVars, step, held>>

Call(s) ==
  \/ CheckCredentials(s) \/ CreateOrg(s) \/ IssueApiKey(s) \/ StoreCredentials(s)
  \/ UpsertCustomer(s) \/ FailCall(s)

ProvNext ==
  \/ \E w \in Workspaces :
       \/ CreateWorkspace(w) \/ EnqueueProvision(w) \/ LoseProvision(w)
       \/ DemoCheck(w) \/ DemoEnqueue(w) \/ CancelSubscription(w) \/ Visit(w)
  \/ \E s \in Slots : Start(s) \/ Call(s) \/ Settle(s) \/ CrashWorker(s)
  \/ \E j \in Jobs : LoseLock(j)
  \/ TickStarts \/ TickAborts

ProvSpec == ProvInit /\ [][ProvNext]_provVars

\* Workers poll and their calls end one way or another, the stalled check finds
\* dead workers' jobs, the aggregator ticks, and of the visits it pays a workspace
\* Lago does not know, not all fail.
ProvFairSpec ==
  /\ ProvSpec
  /\ \A s \in Slots :
       WF_provVars(Start(s)) /\ WF_provVars(Call(s)) /\ WF_provVars(Settle(s))
  /\ \A j \in Jobs : WF_provVars(Orphaned(j) /\ LoseLock(j))
  /\ WF_provVars(TickStarts)
  /\ \A w \in Workspaces : SF_provVars(Visit(w) /\ w \in customers')

---------------------------------------------------------------------------
(* Properties.                                                             *)

\* Types of the tables, the services' state and the handlers'.
ProvTypeOK ==
  /\ QueueTypeOK
  /\ created \subseteq Workspaces /\ canceled \subseteq created
  /\ pending \subseteq created /\ demo \subseteq created
  /\ orgs \subseteq Workspaces
  /\ keys \in [Keys -> Workspaces \union {NoKey}]
  /\ creds \in [Workspaces -> Keys \union {NoKey}]
  /\ customers \subseteq created /\ round \subseteq created
  /\ step \in [Slots -> HandlerSteps]
  /\ held \in [Slots -> Keys \union {NoKey}]

\* What is stored works: a workspace's credentials are a key that Aquila issued
\* to that workspace's own, existing org, however many runs raced to store one.
CredentialsWork ==
  \A w \in Workspaces :
    creds[w] # NoKey => w \in orgs /\ keys[creds[w]] = w

\* A completed provision job leaves a provisioned workspace, also when the run
\* that reports it is a rerun that found nothing to do.
CompletedMeansProvisioned ==
  \A j \in Jobs : job[j] = "completed" => creds[JobWs[j]] # NoKey

\* Credentials, once readable by the workspace's requests, are never replaced
\* by a late or repeated run.
CredentialsStable ==
  [][\A w \in Workspaces : creds[w] # NoKey => creds'[w] = creds[w]]_provVars

\* A workspace that was provisioned without its Lago customer is not left so:
\* the aggregator creates it unless the subscription is canceled first.
MeteringHeals ==
  \A w \in Workspaces : creds[w] # NoKey ~> w \in customers \union canceled

\* An enqueued provision job is not stuck half way: in the end the workspace has
\* its credentials, or the job is among the failed ones for an operator to see.
ProvisionSettles ==
  \A j \in Jobs :
    job[j] = "waiting" ~> creds[JobWs[j]] # NoKey \/ job[j] = "failed"
=============================================================================
