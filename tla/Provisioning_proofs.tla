------------------------ MODULE Provisioning_proofs ------------------------
(* Provisioning is well typed, stores only keys that work, never replaces   *)
(* them, and completes a job only when they are there.                      *)
EXTENDS Provisioning, JobQueue_proofs

\* What a handler relies on between two of its calls.
HandlerSound(s) ==
  LET w == JobWs[slot[s]]
  IN  /\ phase[s] = "running" /\ step[s] \in {"key", "store"} => w \in orgs
      /\ phase[s] = "running" /\ step[s] = "store" => held[s] \in Keys /\ keys[held[s]] = w
      /\ phase[s] = "running" /\ step[s] = "lago" => creds[w] # NoKey
      /\ phase[s] = "returned" => creds[w] # NoKey

HandlersSound == \A s \in Slots : HandlerSound(s)

\* Only committed workspaces have provision jobs.
JobsCreated ==
  /\ \A j \in Jobs : job[j] # "absent" => JobWs[j] \in created
  /\ \A s \in Slots : phase[s] # "idle" => JobWs[slot[s]] \in created

ProvTyped == ProvTypeOK /\ SlotsBusy /\ JobsCreated

ProvInv ==
  /\ ProvTyped
  /\ CredentialsWork
  /\ CompletedMeansProvisioned
  /\ HandlersSound

\* The remote state only grows: orgs stay, an issued key keeps its org, and
\* stored credentials stay as they are.
Grows ==
  /\ orgs \subseteq orgs'
  /\ \A k \in Keys : keys[k] # NoKey => keys'[k] = keys[k]
  /\ \A w \in Workspaces : creds[w] # NoKey => creds'[w] = creds[w]

---------------------------------------------------------------------------
\* A slot that has a job has a workspace.
LEMMA SlotWorkspace ==
  ASSUME ProvTypeOK, SlotsBusy, NEW s \in Slots, phase[s] # "idle"
  PROVE  slot[s] \in Jobs /\ JobWs[slot[s]] \in Workspaces
  BY ProvisionAssumption DEF ProvTypeOK, QueueTypeOK, SlotsBusy

\* The steps that leave the queue alone, those that add a job, and the queue's own.
LEMMA ProvQueueStep ==
  ASSUME ProvTyped, [ProvNext]_provVars
  PROVE  \/ \E j \in Jobs : Add(j) /\ JobWs[j] \in created
         \/ \E j \in Jobs : Stall(j) \/ \E s \in Slots : Take(s, j)
         \/ \E s \in Slots : Return(s) \/ Throw(s) \/ Report(s) \/ Crash(s)
         \/ UNCHANGED queueVars
<1>2. ASSUME NEW w \in Workspaces,
             \/ CreateWorkspace(w) \/ LoseProvision(w) \/ DemoCheck(w)
             \/ CancelSubscription(w) \/ Visit(w)
      PROVE  UNCHANGED queueVars
  BY <1>2 DEF CreateWorkspace, LoseProvision, DemoCheck, CancelSubscription, Visit
<1>3. ASSUME NEW w \in Workspaces, EnqueueProvision(w) \/ DemoEnqueue(w)
      PROVE  (\E j \in Jobs : Add(j) /\ JobWs[j] \in created) \/ UNCHANGED queueVars
  BY <1>3, ProvisionAssumption DEF EnqueueProvision, DemoEnqueue, ProvTyped, ProvTypeOK
<1>4. ASSUME NEW s \in Slots, Call(s)
      PROVE  Return(s) \/ Throw(s) \/ UNCHANGED queueVars
  BY <1>4 DEF Call, CheckCredentials, CreateOrg, IssueApiKey, StoreCredentials,
              UpsertCustomer, FailCall
<1>5. ASSUME NEW s \in Slots, Start(s) \/ Settle(s) \/ CrashWorker(s)
      PROVE  (\E j \in Jobs : Take(s, j)) \/ Report(s) \/ Crash(s)
  BY <1>5 DEF Start, Settle, CrashWorker
<1>6. ASSUME NEW j \in Jobs, LoseLock(j) PROVE Stall(j)
  BY <1>6 DEF LoseLock
<1>7. ASSUME TickStarts \/ TickAborts \/ UNCHANGED provVars PROVE UNCHANGED queueVars
  BY <1>7 DEF TickStarts, TickAborts, provVars
<1> QED
  BY <1>2, <1>3, <1>4, <1>5, <1>6, <1>7 DEF ProvNext

\* Workspaces are never deleted.
LEMMA CreatedGrows ==
  ASSUME [ProvNext]_provVars PROVE created \subseteq created'
  BY DEF ProvNext, provVars, entryVars, remoteVars, Call, CreateWorkspace,
     EnqueueProvision, LoseProvision, DemoCheck, DemoEnqueue, CancelSubscription, Visit,
     Start, CheckCredentials, CreateOrg, IssueApiKey, StoreCredentials, UpsertCustomer,
     FailCall, Settle, CrashWorker, LoseLock, Forgotten, TickStarts, TickAborts

\* The queue stays well typed, and its jobs those of committed workspaces.
LEMMA JobsCreatedStep ==
  ASSUME ProvTyped, [ProvNext]_provVars
  PROVE  QueueTypeOK' /\ SlotsBusy' /\ JobsCreated'
<1>1. QueueInv
  BY DEF ProvTyped, ProvTypeOK, QueueInv
<1>2. QueueTypeOK' /\ SlotsBusy'
  BY <1>1, ProvQueueStep, QueueStep DEF QueueInv
<1>3. CASE \E j \in Jobs : Add(j) /\ JobWs[j] \in created
  <2>1. PICK j \in Jobs : Add(j) /\ JobWs[j] \in created
    BY <1>3
  <2>2. JobsCreated'
    BY <1>1, <2>1, CreatedGrows DEF Add, JobsCreated, ProvTyped, QueueInv, QueueTypeOK
  <2> QED
    BY <1>2, <2>2
<1>4. CASE \/ \E j \in Jobs : Stall(j) \/ \E s \in Slots : Take(s, j)
           \/ \E s \in Slots : Return(s) \/ Throw(s) \/ Report(s) \/ Crash(s)
           \/ UNCHANGED queueVars
  <2>1. \A k \in Jobs : job'[k] # "absent" =>
          \/ job[k] # "absent"
          \/ \E s \in Slots : phase[s] # "idle" /\ slot[s] = k
    BY <1>1, <1>4, JobsComeFromAdd
  <2>2. \A s \in Slots : phase'[s] # "idle" =>
          \/ phase[s] # "idle" /\ slot'[s] = slot[s]
          \/ slot'[s] \in Jobs /\ job[slot'[s]] # "absent"
    BY <1>1, <1>4, JobsComeFromAdd
  <2>3. \A j \in Jobs : job'[j] # "absent" => JobWs[j] \in created
    BY <2>1 DEF ProvTyped, JobsCreated
  <2>4. \A s \in Slots : phase'[s] # "idle" => JobWs[slot'[s]] \in created
    BY <2>2 DEF ProvTyped, JobsCreated
  <2> QED
    BY <1>2, <2>3, <2>4, CreatedGrows DEF JobsCreated
<1> QED
  BY <1>3, <1>4, ProvQueueStep

---------------------------------------------------------------------------
\* Every step keeps the tables, the services and the handlers well typed.
LEMMA ProvTypeStep ==
  ASSUME ProvTyped, [ProvNext]_provVars
  PROVE  ProvTyped'
<1> USE DEF ProvTypeOK, entryVars, remoteVars, HandlerSteps
<1>0. ProvTypeOK
  BY DEF ProvTyped
<1>1. QueueTypeOK' /\ SlotsBusy' /\ JobsCreated'
  BY JobsCreatedStep
<1>2. ASSUME NEW w \in Workspaces,
             \/ CreateWorkspace(w) \/ EnqueueProvision(w) \/ LoseProvision(w)
             \/ DemoCheck(w) \/ DemoEnqueue(w) \/ CancelSubscription(w) \/ Visit(w)
      PROVE  ProvTypeOK'
  BY <1>0, <1>1, <1>2 DEF CreateWorkspace, EnqueueProvision, LoseProvision, DemoCheck,
     DemoEnqueue, CancelSubscription, Visit
<1>3. ASSUME NEW s \in Slots, Call(s) PROVE ProvTypeOK'
  <2>1. WsOf(s) \in Workspaces /\ WsOf(s) \in created
    <3>1. phase[s] # "idle"
      BY <1>3 DEF Call, CheckCredentials, CreateOrg, IssueApiKey, StoreCredentials,
         UpsertCustomer, FailCall, At
    <3> QED
      BY <3>1, SlotWorkspace DEF WsOf, JobsCreated, ProvTyped
  <2>2. CASE CheckCredentials(s)
    BY <1>0, <1>1, <2>2 DEF CheckCredentials
  <2>3. CASE CreateOrg(s)
    BY <1>0, <1>1, <2>1, <2>3 DEF CreateOrg
  <2>4. CASE IssueApiKey(s)
    BY <1>0, <1>1, <2>1, <2>4 DEF IssueApiKey
  <2>5. CASE StoreCredentials(s)
    BY <1>0, <1>1, <2>1, <2>5 DEF StoreCredentials
  <2>6. CASE UpsertCustomer(s)
    BY <1>0, <1>1, <2>1, <2>6 DEF UpsertCustomer
  <2>7. CASE FailCall(s)
    BY <1>0, <1>1, <2>1, <2>7 DEF FailCall
  <2> QED
    BY <1>3, <2>2, <2>3, <2>4, <2>5, <2>6, <2>7 DEF Call
<1>4. ASSUME NEW s \in Slots, Start(s) \/ Settle(s) \/ CrashWorker(s) PROVE ProvTypeOK'
  BY <1>0, <1>1, <1>4 DEF Start, Settle, CrashWorker, Forgotten
<1>5. ASSUME NEW j \in Jobs, LoseLock(j) PROVE ProvTypeOK'
  BY <1>0, <1>1, <1>5 DEF LoseLock
<1>6. ASSUME TickStarts \/ TickAborts \/ UNCHANGED provVars PROVE ProvTypeOK'
  BY <1>0, <1>1, <1>6 DEF TickStarts, TickAborts, provVars
<1>7. ProvTypeOK'
  BY <1>2, <1>3, <1>4, <1>5, <1>6 DEF ProvNext
<1> QED
  BY <1>1, <1>7 DEF ProvTyped

---------------------------------------------------------------------------
\* What has been issued or stored stays: an org is never dropped, an issued key
\* keeps its org, and stored credentials are never replaced.
LEMMA ProvGrows ==
  ASSUME ProvInv, [ProvNext]_provVars
  PROVE  Grows
<1> USE ProvisionAssumption DEF Grows
<1>1. ProvTypeOK
  BY DEF ProvInv, ProvTyped
<1>2. ASSUME NEW s \in Slots, Call(s) PROVE Grows
  <2>1. CASE IssueApiKey(s)
    BY <1>1, <2>1 DEF IssueApiKey, ProvTypeOK
  <2>2. CASE StoreCredentials(s)
    BY <1>1, <2>2 DEF StoreCredentials, ProvTypeOK
  <2>3. CASE FailCall(s)
    BY <1>1, <2>3 DEF FailCall, remoteVars, ProvTypeOK
  <2>4. CASE CheckCredentials(s) \/ CreateOrg(s) \/ UpsertCustomer(s)
    BY <2>4 DEF CheckCredentials, CreateOrg, UpsertCustomer, remoteVars
  <2> QED
    BY <1>2, <2>1, <2>2, <2>3, <2>4 DEF Call
<1>3. CASE ~ \E s \in Slots : Call(s)
  BY <1>3 DEF ProvNext, provVars, remoteVars, CreateWorkspace, EnqueueProvision,
     LoseProvision, DemoCheck, DemoEnqueue, CancelSubscription, Visit, Start, Settle,
     CrashWorker, Forgotten, LoseLock, TickStarts, TickAborts
<1> QED
  BY <1>2, <1>3

\* A stored key goes on working: what is stored was held by a handler that had it
\* issued to its own workspace's org.
LEMMA CredentialsWorkStep ==
  ASSUME ProvInv, [ProvNext]_provVars
  PROVE  CredentialsWork'
<1>1. ProvTypeOK /\ CredentialsWork /\ Grows /\ NoKey \notin Workspaces
  BY ProvGrows, ProvisionAssumption DEF ProvInv, ProvTyped
<1>2. ASSUME NEW s \in Slots, phase[s] = "running", step[s] = "store",
             creds' = [creds EXCEPT ![WsOf(s)] = held[s]]
      PROVE  CredentialsWork'
  <2>1. WsOf(s) \in Workspaces
    BY <1>2, SlotWorkspace DEF ProvInv, ProvTyped, WsOf
  <2>2. WsOf(s) \in orgs /\ held[s] \in Keys /\ keys[held[s]] = WsOf(s)
    BY <1>2 DEF ProvInv, HandlersSound, HandlerSound, WsOf
  <2>3. creds'[WsOf(s)] = held[s]
    BY <1>1, <1>2, <2>1 DEF ProvTypeOK
  <2>4. WsOf(s) \in orgs' /\ keys'[held[s]] = WsOf(s)
    BY <1>1, <2>1, <2>2 DEF Grows
  <2>5. ASSUME NEW w \in Workspaces, w # WsOf(s), creds'[w] # NoKey
        PROVE  w \in orgs' /\ keys'[creds'[w]] = w
    <3>1. creds[w] # NoKey /\ creds'[w] = creds[w] /\ creds[w] \in Keys
      BY <1>1, <1>2, <2>5 DEF ProvTypeOK
    <3> QED
      BY <1>1, <3>1 DEF CredentialsWork, Grows
  <2> QED
    BY <2>3, <2>4, <2>5 DEF CredentialsWork
<1>3. CASE UNCHANGED creds
  <2>1. ASSUME NEW w \in Workspaces, creds[w] # NoKey
        PROVE  w \in orgs' /\ keys'[creds[w]] = w
    BY <1>1, <2>1 DEF CredentialsWork, Grows, ProvTypeOK
  <2> QED
    BY <1>3, <2>1 DEF CredentialsWork
<1>4. \/ UNCHANGED creds
      \/ \E s \in Slots : /\ phase[s] = "running" /\ step[s] = "store"
                          /\ creds' = [creds EXCEPT ![WsOf(s)] = held[s]]
  BY DEF ProvNext, provVars, remoteVars, Call, CreateWorkspace, EnqueueProvision,
     LoseProvision, DemoCheck, DemoEnqueue, CancelSubscription, Visit, Start,
     CheckCredentials, CreateOrg, IssueApiKey, StoreCredentials, UpsertCustomer,
     FailCall, At, Settle, CrashWorker, Forgotten, LoseLock, TickStarts, TickAborts
<1> QED
  BY <1>2, <1>3, <1>4

\* What a handler relies on survives the steps of everybody else.
LEMMA SoundKept ==
  ASSUME ProvInv, Grows, NEW s \in Slots,
         slot'[s] = slot[s], phase'[s] = phase[s],
         step'[s] = step[s], held'[s] = held[s]
  PROVE  HandlerSound(s)'
<1>1. HandlerSound(s) /\ ProvTypeOK /\ NoKey \notin Workspaces
  BY ProvisionAssumption DEF ProvInv, ProvTyped, HandlersSound
<1>2. CASE phase[s] = "idle"
  BY <1>2 DEF HandlerSound
<1>3. CASE phase[s] # "idle"
  <2>1. JobWs[slot[s]] \in Workspaces
    BY <1>3, SlotWorkspace DEF ProvInv, ProvTyped
  <2>2. creds[JobWs[slot[s]]] # NoKey => creds'[JobWs[slot[s]]] # NoKey
    BY <2>1 DEF Grows
  <2> QED
    BY <1>1, <2>1, <2>2 DEF HandlerSound, Grows
<1> QED
  BY <1>2, <1>3

\* Each call leaves its handler what the next one needs.
LEMMA HandlersSoundStep ==
  ASSUME ProvInv, [ProvNext]_provVars
  PROVE  HandlersSound'
<1>1. ProvTypeOK /\ SlotsBusy /\ QueueTypeOK /\ Grows
  BY ProvGrows DEF ProvInv, ProvTyped, ProvTypeOK
<1>2. SUFFICES ASSUME NEW s \in Slots PROVE HandlerSound(s)'
  BY DEF HandlersSound
<1>3. CASE /\ slot'[s] = slot[s] /\ phase'[s] = phase[s]
           /\ step'[s] = step[s] /\ held'[s] = held[s]
  BY <1>1, <1>3, SoundKept
<1>4. CASE phase'[s] \in {"idle", "threw"} \/ (phase'[s] = "running" /\ step'[s] = "check")
  BY <1>4 DEF HandlerSound
<1>5. CASE Call(s)
  <2> USE <1>1, ProvisionAssumption DEF ProvTypeOK, QueueTypeOK, At
  <2>1. HandlerSound(s) /\ phase[s] = "running" /\ WsOf(s) \in Workspaces
    BY <1>5, SlotWorkspace DEF ProvInv, HandlersSound, WsOf, Call, CheckCredentials,
       CreateOrg, IssueApiKey, StoreCredentials, UpsertCustomer, FailCall
  <2>2. slot' = slot
    BY <1>5 DEF Call, CheckCredentials, CreateOrg, IssueApiKey, StoreCredentials,
       UpsertCustomer, FailCall, Return, Throw, queueVars
  <2>3. CASE CheckCredentials(s)
    BY <2>1, <2>2, <2>3 DEF CheckCredentials, Return, queueVars, remoteVars,
       HandlerSound, WsOf
  <2>4. CASE CreateOrg(s)
    BY <2>1, <2>2, <2>4 DEF CreateOrg, queueVars, HandlerSound, WsOf
  <2>5. CASE IssueApiKey(s)
    BY <2>1, <2>2, <2>5 DEF IssueApiKey, queueVars, HandlerSound, WsOf
  <2>6. CASE StoreCredentials(s)
    BY <2>1, <2>2, <2>6 DEF StoreCredentials, queueVars, HandlerSound, WsOf
  <2>7. CASE UpsertCustomer(s)
    BY <2>1, <2>2, <2>7 DEF UpsertCustomer, Return, HandlerSound, WsOf
  <2>8. CASE FailCall(s)
    BY <2>8, <1>4 DEF FailCall, Throw
  <2> QED
    BY <1>5, <2>3, <2>4, <2>5, <2>6, <2>7, <2>8 DEF Call
<1>6. ASSUME NEW t \in Slots, t # s, Call(t) PROVE HandlerSound(s)'
  BY <1>1, <1>3, <1>6 DEF Call, CheckCredentials, CreateOrg, IssueApiKey,
     StoreCredentials, UpsertCustomer, FailCall, Return, Throw, queueVars, ProvTypeOK,
     QueueTypeOK
<1>7. ASSUME NEW t \in Slots, Start(t) \/ Settle(t) \/ CrashWorker(t)
      PROVE  HandlerSound(s)'
  BY <1>1, <1>3, <1>4, <1>7 DEF Start, Settle, CrashWorker, Forgotten, Take, Report,
     Crash, ProvTypeOK, QueueTypeOK
<1>8. CASE ~ \E t \in Slots : Call(t) \/ Start(t) \/ Settle(t) \/ CrashWorker(t)
  BY <1>3, <1>8 DEF ProvNext, provVars, queueVars, CreateWorkspace, EnqueueProvision,
     LoseProvision, DemoCheck, DemoEnqueue, CancelSubscription, Visit, LoseLock, Add,
     Stall, TickStarts, TickAborts
<1> QED
  BY <1>5, <1>6, <1>7, <1>8

\* Only the report of a handler that returned completes a job.
LEMMA CompletedStep ==
  ASSUME ProvInv, [ProvNext]_provVars
  PROVE  CompletedMeansProvisioned'
<1>1. ProvTypeOK /\ SlotsBusy /\ QueueTypeOK /\ Grows /\ CompletedMeansProvisioned
  BY ProvGrows DEF ProvInv, ProvTyped, ProvTypeOK
<1>2. \A w \in Workspaces : creds[w] # NoKey => creds'[w] # NoKey
  BY <1>1 DEF Grows
<1>3. \A j \in Jobs : JobWs[j] \in Workspaces
  BY ProvisionAssumption
<1>4. ASSUME \A j \in Jobs : job'[j] = "completed" =>
               job[j] = "completed" \/ creds[JobWs[j]] # NoKey
      PROVE  CompletedMeansProvisioned'
  BY <1>1, <1>2, <1>3, <1>4 DEF CompletedMeansProvisioned
<1>5. ASSUME NEW j \in Jobs, Fail(j) PROVE CompletedMeansProvisioned'
  BY <1>1, <1>4, <1>5 DEF Fail, Forget, QueueTypeOK
<1>6. ASSUME NEW j \in Jobs, Add(j) \/ (Stall(j) /\ ~ Fail(j)) \/ \E s \in Slots : Take(s, j)
      PROVE  CompletedMeansProvisioned'
  BY <1>1, <1>4, <1>6 DEF Add, Stall, Take, QueueTypeOK
<1>7. ASSUME NEW s \in Slots, Report(s) PROVE CompletedMeansProvisioned'
  <2>1. slot[s] \in Jobs
    BY <1>1, <1>7 DEF Report, SlotsBusy
  <2>2. CASE UNCHANGED storeVars
    BY <1>4, <2>2 DEF storeVars
  <2>3. CASE phase[s] = "returned" /\ Complete(slot[s])
    <3>1. creds[JobWs[slot[s]]] # NoKey
      BY <2>3 DEF ProvInv, HandlersSound, HandlerSound
    <3> QED
      BY <1>1, <1>4, <2>1, <2>3, <3>1 DEF Complete, Forget, QueueTypeOK
  <2>4. CASE Fail(slot[s])
    BY <1>5, <2>1, <2>4
  <2> QED
    BY <1>7, <2>2, <2>3, <2>4 DEF Report
<1>8. ASSUME NEW s \in Slots, Return(s) \/ Throw(s) \/ Crash(s)
      PROVE  CompletedMeansProvisioned'
  BY <1>4, <1>8 DEF Return, Throw, Crash, storeVars
<1>9. CASE UNCHANGED queueVars
  BY <1>4, <1>9 DEF queueVars
<1>10. ProvTyped
  BY DEF ProvInv
<1> QED
  BY <1>5, <1>6, <1>7, <1>8, <1>9, <1>10, ProvQueueStep

---------------------------------------------------------------------------
\* Nothing is provisioned at first.
LEMMA ProvStarts == ProvInit => ProvInv
<1> SUFFICES ASSUME ProvInit PROVE ProvInv
  OBVIOUS
<1>1. QueueTypeOK /\ SlotsBusy
  BY QueueStarts DEF ProvInit, QueueInv
<1>2. ProvTypeOK
  BY <1>1 DEF ProvInit, ProvTypeOK, HandlerSteps
<1>3. JobsCreated
  BY DEF ProvInit, QueueInit, JobsCreated
<1>4. CredentialsWork /\ CompletedMeansProvisioned
  BY DEF ProvInit, QueueInit, CredentialsWork, CompletedMeansProvisioned
<1>5. HandlersSound
  BY DEF ProvInit, QueueInit, HandlersSound, HandlerSound
<1> QED
  BY <1>1, <1>2, <1>3, <1>4, <1>5 DEF ProvInv, ProvTyped

\* The inductive invariant.
LEMMA ProvInvHolds == ProvSpec => []ProvInv
<1>1. ProvInv /\ [ProvNext]_provVars => ProvInv'
  BY ProvTypeStep, CredentialsWorkStep, HandlersSoundStep, CompletedStep DEF ProvInv
<1> QED
  BY ProvStarts, <1>1, PTL DEF ProvSpec

\* The tables and the services stay within their types, Lago customers and queued
\* jobs only exist for committed workspaces (workspace.ts:25-92).
THEOREM ProvTypes == ProvSpec => [](ProvTypeOK /\ JobsCreated)
<1>1. ProvInv => ProvTypeOK /\ JobsCreated
  BY DEF ProvInv, ProvTyped
<1> QED
  BY <1>1, ProvInvHolds, PTL

\* However many runs of the provisioner race, crash and lose replies, the stored key
\* is one Aquila issued to that workspace's own org (provisioner.ts:58-89).
THEOREM StoredCredentialsWork == ProvSpec => []CredentialsWork
<1>1. ProvInv => CredentialsWork
  BY DEF ProvInv
<1> QED
  BY <1>1, ProvInvHolds, PTL

\* A completed job is a provisioned workspace, reruns and late reports included.
THEOREM CompletedProvisions == ProvSpec => []CompletedMeansProvisioned
<1>1. ProvInv => CompletedMeansProvisioned
  BY DEF ProvInv
<1> QED
  BY <1>1, ProvInvHolds, PTL

\* Credentials are never replaced (provisioner.ts:84-89, 0005_aquila_credentials.sql:4).
THEOREM CredentialsAreStable == ProvSpec => CredentialsStable
<1>1. ProvInv /\ [ProvNext]_provVars =>
        [\A w \in Workspaces : creds[w] # NoKey => creds'[w] = creds[w]]_provVars
  BY ProvGrows DEF Grows
<1> QED
  BY <1>1, ProvInvHolds, PTL DEF ProvSpec, CredentialsStable
=============================================================================
