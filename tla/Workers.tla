------------------------------ MODULE Workers -------------------------------
(***************************************************************************)
(* A process of apps/workers: it starts its BullMQ workers one after       *)
(* another, serves, drains them one after another when told to stop, and   *)
(* may be cut short at any moment (index.ts).  Two of its workers are here *)
(* with their handlers: the webhook dispatcher, which reads an endpoint,   *)
(* makes an HTTP call and then writes the outcome, and the weekly digest,  *)
(* which mails one workspace after another.  What an exit cuts off comes   *)
(* back through the queue of module JobQueue.                              *)
(***************************************************************************)
EXTENDS JobQueue

CONSTANTS
  Order,          \* the workers, in the order index.ts starts and closes them
  WorkerOf,       \* the worker each slot belongs to
  QueueOf,        \* the worker whose queue each job is in
  Endpoints,      \* webhook endpoint ids
  EndpointOf,     \* the endpoint of each dispatch job
  Members,        \* workspaces with members, which a digest mails
  MaxBoots        \* bound: how often the process is started

Places == 1..Len(Order)
DispatchJobs == {j \in Jobs : QueueOf[j] = "webhook"}
DigestJobs == {j \in Jobs : QueueOf[j] = "digest"}
PlaceOf(worker) == CHOOSE k \in Places : Order[k] = worker

ASSUME WorkersAssumption ==
  /\ Order \in Seq(STRING)
  /\ \A s \in Slots : \E k \in Places : Order[k] = WorkerOf[s]
  /\ EndpointOf \in [DispatchJobs -> Endpoints]
  /\ MaxBoots \in Nat

VARIABLES
  proc,           \* "down", "booting", "ready" or "draining"
  code,           \* how it went down last
  up,             \* how many workers have been started
  closing,        \* how many have had close() called
  boots,
  step,           \* the next step of the handler each slot runs
  seen,           \* failureCount as the handler read it
  answered,       \* whether its HTTP call succeeded
  todo,           \* the workspaces a digest run has still to mail
  endpoint,       \* webhook_endpoints: failureCount; -1 not created yet, -2 deleted
  failures,       \* webhook_deliveries without succeeded_at, counted by endpoint
  mails,          \* digests accepted by Resend, by workspace
  enqueued        \* history: the job ids used so far

procVars == <<proc, code, up, closing, boots>>
runVars == <<step, seen, answered, todo>>
tableVars == <<endpoint, failures, mails, enqueued>>
workVars == <<queueVars, procVars, runVars, tableVars>>

There(e) == endpoint[e] \in Nat

WorkInit ==
  /\ QueueInit
  /\ proc = "down" /\ code = "none" /\ up = 0 /\ closing = 0 /\ boots = 0
  /\ step = [s \in Slots |-> "none"]
  /\ seen = [s \in Slots |-> 0]
  /\ answered = [s \in Slots |-> FALSE]
  /\ todo = [s \in Slots |-> {}]
  /\ endpoint = [e \in Endpoints |-> -1]
  /\ failures = [e \in Endpoints |-> 0]
  /\ mails = [w \in Members |-> 0]
  /\ enqueued = {}

---------------------------------------------------------------------------
(* The process                                                             *)

\* Docker starts the container, and starts it again whenever it is down.
Boot ==
  /\ proc = "down"
  /\ boots < MaxBoots
  /\ proc' = "booting" /\ code' = "none" /\ up' = 0 /\ closing' = 0
  /\ boots' = boots + 1
  /\ UNCHANGED <<queueVars, runVars, tableVars>>

\* create...Worker and waitUntilReady: autorun, so it takes jobs from now on.
StartWorker ==
  /\ proc = "booting"
  /\ up < Len(Order)
  /\ up' = up + 1
  /\ UNCHANGED <<proc, code, closing, boots, queueVars, runVars, tableVars>>

\* The health server listens and the signal handlers are registered.
Listen ==
  /\ proc = "booting"
  /\ up = Len(Order)
  /\ proc' = "ready"
  /\ UNCHANGED <<code, up, closing, boots, queueVars, runVars, tableVars>>

\* SIGTERM, SIGINT, an uncaught exception or rejection, once.
Shutdown ==
  /\ proc = "ready"
  /\ boots < MaxBoots
  /\ proc' = "draining"
  /\ closing' = 1
  /\ UNCHANGED <<code, up, boots, queueVars, runVars, tableVars>>

Busy(worker) == \E s \in Slots : WorkerOf[s] = worker /\ phase[s] # "idle"

\* Fault: the next worker is closed without waiting for this one.
CloseAtOnce ==
  /\ proc = "draining"
  /\ closing <= Len(Order)
  /\ closing' = closing + 1
  /\ UNCHANGED <<proc, code, up, boots, queueVars, runVars, tableVars>>

\* await close(): it returns when the worker's active jobs have ended.
CloseNext ==
  /\ proc = "draining"
  /\ closing <= Len(Order)
  /\ ~Busy(Order[closing])
  /\ closing' = closing + 1
  /\ UNCHANGED <<proc, code, up, boots, queueVars, runVars, tableVars>>

\* The end of the process, and of all handlers in it.
Exit(c) ==
  /\ proc' = "down"
  /\ code' = c
  /\ CrashAll(Slots)
  /\ step' = [s \in Slots |-> "none"]
  /\ seen' = [s \in Slots |-> 0]
  /\ answered' = [s \in Slots |-> FALSE]
  /\ todo' = [s \in Slots |-> {}]
  /\ UNCHANGED <<up, closing, boots, tableVars>>

\* Everything is closed.
ExitDone == proc = "draining" /\ closing = Len(Order) + 1 /\ Exit("0")

\* The hard-kill timer fires, or a close() is rejected.
ExitForced == proc = "draining" /\ Exit("1")

\* A signal before the handlers are registered, a boot that fails, SIGKILL.
ExitKilled == proc # "down" /\ boots < MaxBoots /\ Exit("killed")

---------------------------------------------------------------------------
(* The handlers                                                            *)

Listening(worker) ==
  LET k == PlaceOf(worker)
  IN  /\ proc \in {"booting", "ready", "draining"}
      /\ k <= up
      /\ proc = "draining" => k > closing

Fetch(s, j) ==
  /\ QueueOf[j] = WorkerOf[s]
  /\ Listening(WorkerOf[s])
  /\ Take(s, j)
  /\ step' = [step EXCEPT ![s] = IF WorkerOf[s] = "digest" THEN "list" ELSE "read"]
  /\ UNCHANGED <<seen, answered, todo, procVars, tableVars>>

\* The handler of s is over; its private state is forgotten.
Ended(s) ==
  /\ step' = [step EXCEPT ![s] = "none"]
  /\ seen' = [seen EXCEPT ![s] = 0]
  /\ answered' = [answered EXCEPT ![s] = FALSE]
  /\ todo' = [todo EXCEPT ![s] = {}]

EndpointFor(s) == EndpointOf[slot[s]]

\* Fault: an endpoint that is not there is not noticed.
ReadUnchecked(s) ==
  /\ step[s] = "read"
  /\ step' = [step EXCEPT ![s] = "post"]
  /\ seen' = [seen EXCEPT ![s] = endpoint[EndpointFor(s)]]
  /\ UNCHANGED <<queueVars, answered, todo, procVars, tableVars>>

\* The endpoint is read.  Without it, or when its secret cannot be decrypted,
\* there is nothing to do.
ReadEndpoint(s) ==
  /\ step[s] = "read"
  /\ \/ /\ There(EndpointFor(s))
        /\ step' = [step EXCEPT ![s] = "post"]
        /\ seen' = [seen EXCEPT ![s] = endpoint[EndpointFor(s)]]
        /\ UNCHANGED <<queueVars, answered, todo>>
     \/ Return(s) /\ Ended(s)
  /\ UNCHANGED <<procVars, tableVars>>

\* fetch with its timeout of ten seconds; a failure of it is caught.
PostToEndpoint(s) ==
  /\ step[s] = "post"
  /\ step' = [step EXCEPT ![s] = "write"]
  /\ \E ok \in BOOLEAN : answered' = [answered EXCEPT ![s] = ok]
  /\ UNCHANGED <<seen, todo, queueVars, procVars, tableVars>>

\* Fault: the count goes up whatever the endpoint answered.
RecordAlways(s) ==
  /\ step[s] = "write"
  /\ There(EndpointFor(s))
  /\ LET e == EndpointFor(s)
     IN  /\ endpoint' = [endpoint EXCEPT ![e] = seen[s] + 1]
         /\ failures' = [failures EXCEPT ![e] = IF answered[s] THEN @ ELSE @ + 1]
  /\ Return(s) /\ Ended(s)
  /\ UNCHANGED <<mails, enqueued, procVars>>

\* One transaction inserts the delivery and writes back the count: zero, or
\* what was read before the call plus one.
Record(s) ==
  /\ step[s] = "write"
  /\ There(EndpointFor(s))
  /\ LET e == EndpointFor(s)
     IN  /\ endpoint' = [endpoint EXCEPT ![e] = IF answered[s] THEN 0 ELSE seen[s] + 1]
         /\ failures' = [failures EXCEPT ![e] = IF answered[s] THEN @ ELSE @ + 1]
  /\ Return(s) /\ Ended(s)
  /\ UNCHANGED <<mails, enqueued, procVars>>

\* A statement fails: the database, or the key of a delivery whose endpoint
\* was deleted during the call.
FailStatement(s) ==
  /\ step[s] \in {"read", "write", "list"}
  /\ Throw(s) /\ Ended(s)
  /\ UNCHANGED <<procVars, tableVars>>

\* The digest lists the workspaces that are not deleted.
ListWorkspaces(s) ==
  /\ step[s] = "list"
  /\ step' = [step EXCEPT ![s] = "mail"]
  /\ todo' = [todo EXCEPT ![s] = Members]
  /\ UNCHANGED <<seen, answered, queueVars, procVars, tableVars>>

\* Fault: a workspace whose mails failed is tried again, those sent included.
MailUntilSent(s, w) ==
  /\ step[s] = "mail"
  /\ w \in todo[s]
  /\ \E left \in {{}, {w}} : todo' = [todo EXCEPT ![s] = (@ \ {w}) \union left]
  /\ mails' = [mails EXCEPT ![w] = @ + 1]
  /\ UNCHANGED <<step, seen, answered, endpoint, failures, enqueued, queueVars, procVars>>

\* It mails the members of one after the other; what fails is logged.
MailWorkspace(s, w) ==
  /\ step[s] = "mail"
  /\ w \in todo[s]
  /\ todo' = [todo EXCEPT ![s] = @ \ {w}]
  /\ \E sent \in {0, 1} : mails' = [mails EXCEPT ![w] = @ + sent]
  /\ UNCHANGED <<step, seen, answered, endpoint, failures, enqueued, queueVars, procVars>>

DigestDone(s) ==
  /\ step[s] = "mail"
  /\ todo[s] = {}
  /\ Return(s) /\ Ended(s)
  /\ UNCHANGED <<procVars, tableVars>>

ReportOutcome(s) ==
  /\ Report(s)
  /\ UNCHANGED <<procVars, runVars, tableVars>>

LockExpires(j) ==
  /\ Stall(j)
  /\ UNCHANGED <<procVars, runVars, tableVars>>

---------------------------------------------------------------------------
(* The others: whoever dispatches events, the repeatable job, the settings *)
(* page.                                                                   *)

\* Each job and each tick has an id of its own.
Enqueue(j) ==
  /\ j \notin enqueued
  /\ Add(j)
  /\ enqueued' = enqueued \union {j}
  /\ UNCHANGED <<procVars, runVars, endpoint, failures, mails>>

CreateEndpoint(e) ==
  /\ endpoint[e] = -1
  /\ endpoint' = [endpoint EXCEPT ![e] = 0]
  /\ UNCHANGED <<failures, mails, enqueued, queueVars, procVars, runVars>>

\* The deliveries of a deleted endpoint go with it.
DeleteEndpoint(e) ==
  /\ There(e)
  /\ endpoint' = [endpoint EXCEPT ![e] = -2]
  /\ failures' = [failures EXCEPT ![e] = 0]
  /\ UNCHANGED <<mails, enqueued, queueVars, procVars, runVars>>

WorkNext ==
  \/ Boot \/ StartWorker \/ Listen \/ Shutdown \/ CloseNext
  \/ ExitDone \/ ExitForced \/ ExitKilled
  \/ \E s \in Slots :
       \/ \E j \in Jobs : Fetch(s, j)
       \/ ReadEndpoint(s) \/ PostToEndpoint(s) \/ Record(s) \/ FailStatement(s)
       \/ ListWorkspaces(s) \/ DigestDone(s) \/ ReportOutcome(s)
       \/ \E w \in Members : MailWorkspace(s, w)
  \/ \E j \in Jobs : Enqueue(j) \/ LockExpires(j)
  \/ \E e \in Endpoints : CreateEndpoint(e) \/ DeleteEndpoint(e)

WorkSpec == WorkInit /\ [][WorkNext]_workVars

Dispatch(s) ==
  ReadEndpoint(s) \/ PostToEndpoint(s) \/ Record(s) \/ FailStatement(s) \/ ReportOutcome(s)

\* Docker restarts, boots go on, the hard-kill timer is set and fires, the
\* dispatcher's calls time out, its slots take what waits, and the stalled check
\* finds orphans.  Nothing is assumed of a digest: Resend is called without a
\* timeout, so a run of it, and a drain behind it, may hang.
WorkFairSpec ==
  /\ WorkSpec
  /\ WF_workVars(Boot) /\ WF_workVars(StartWorker) /\ WF_workVars(Listen)
  /\ WF_workVars(ExitForced)
  /\ \A s \in Slots : WorkerOf[s] = "webhook" =>
       /\ WF_workVars(Dispatch(s))
       /\ \A j \in DispatchJobs : SF_workVars(Fetch(s, j))
  /\ \A j \in DispatchJobs : WF_workVars(Orphaned(j) /\ LockExpires(j))

---------------------------------------------------------------------------
(* Properties.                                                             *)

\* Types; a handler runs while it has a step, and its job is one of its worker's.
WorkTypeOK ==
  /\ QueueTypeOK
  /\ proc \in {"down", "booting", "ready", "draining"}
  /\ code \in {"none", "0", "1", "killed"}
  /\ up \in 0..Len(Order) /\ closing \in 0..(Len(Order) + 1) /\ boots \in 0..MaxBoots
  /\ step \in [Slots -> {"none", "read", "post", "write", "list", "mail"}]
  /\ seen \in [Slots -> Nat] /\ answered \in [Slots -> BOOLEAN]
  /\ todo \in [Slots -> SUBSET Members]
  /\ endpoint \in [Endpoints -> Nat \union {-1, -2}]
  /\ failures \in [Endpoints -> Nat] /\ mails \in [Members -> Nat]
  /\ enqueued \subseteq Jobs
  /\ \A j \in Jobs : job[j] # "absent" => j \in enqueued
  /\ \A s \in Slots : step[s] # "none" <=> phase[s] = "running"
  /\ \A s \in Slots : phase[s] # "idle" => slot[s] \in Jobs /\ QueueOf[slot[s]] = WorkerOf[s]

\* A process that exits with 0 cuts nothing off: a worker that was closed early
\* takes no job while the later ones are still being waited for.
ExitCleanly ==
  [][proc = "draining" /\ proc' = "down" /\ code' = "0"
       => \A s \in Slots : phase[s] = "idle"]_workVars

\* The count an endpoint shows never exceeds the failed deliveries recorded for
\* it, although it is written back from a reading taken before the call, by
\* handlers that overlap, are cut off and run again (it may well lag behind).
FailuresWitnessed == \A e \in Endpoints : There(e) => endpoint[e] <= failures[e]

\* A digest run that is cut off mails again whom it had mailed, but no workspace
\* gets more mails than the ticks allow runs: one, and one for every stall,
\* whether the tick's job is still retained or not.
MailsBounded ==
  \A w \in Members : mails[w] <= (1 + MaxStalled) * Cardinality(DigestJobs \intersect enqueued)

\* A dispatch job comes to an end, whatever restarts, drains, hung digests and
\* hard kills cut its runs off.
DeliveriesSettle ==
  \A j \in DispatchJobs : job[j] = "waiting" ~> job[j] \in {"completed", "failed"}
=============================================================================
