------------------------- MODULE StripeSync_proofs -------------------------
(* The Stripe pipeline is well typed, implements the quota ledger, keeps     *)
(* subscription and quota together, completes only what it ran, and runs an  *)
(* event no oftener than the queue hands it out.                             *)
EXTENDS StripeSync, QuotaTx_proofs, JobQueue_proofs

SyncInv == SyncTypeOK /\ SlotsBusy

---------------------------------------------------------------------------
(* Each step, seen from one of the parts it is composed of.                 *)

\* Every step of the pipeline is a step of the ledger or leaves it alone.
LEMMA StepOfLedger ==
  ASSUME SyncInv, [SyncNext]_syncVars
  PROVE  [QuotaNext]_quotaVars
<1> USE DEF SyncInv, SyncTypeOK, QueueTypeOK, SlotsBusy
<1>1. ASSUME NEW s \in Slots, Upsert(s) PROVE QuotaNext
  <2> DEFINE b == body[slot[s]]
  <2>1. phase[s] = "running"
    BY <1>1 DEF Upsert, Handled, Return, Throw
  <2>2. slot[s] \in Jobs
    BY <2>1
  <2>3. b \in EventBody
    BY <2>2, StripeAssumption
  <2>4. b.ws \in Workspaces /\ EffectivePlan(b) \in Plans /\ b.period \in Periods
    BY <1>1, <2>3 DEF Upsert, Skips, Accepted, EventBody
  <2>5. Seed(b.ws, EffectivePlan(b), b.period)
    BY <1>1 DEF Upsert
  <2> QED
    BY <2>4, <2>5 DEF QuotaNext
<1>2. ASSUME NEW s \in Slots, Handle(s), ~Upsert(s) PROVE UNCHANGED quotaVars
  BY <1>2 DEF Handle, Cancel, PastDue, Skip, FailHandler
<1>3. ASSUME NEW w \in Workspaces, NEW extra \in Extras, Grant(w, extra) PROVE QuotaNext
  BY <1>3 DEF Grant, QuotaNext
<1>4. ASSUME Consume \/ SyncTick PROVE QuotaNext
  BY <1>4 DEF Consume, SyncTick, QuotaNext
<1>5. ASSUME NEW w \in Workspaces, NEW period \in Periods, CreateWorkspace(w, period)
      PROVE  UNCHANGED quotaVars
  BY <1>5 DEF CreateWorkspace
<1>6. ASSUME NEW e \in Jobs, Post(e) \/ LoseLock(e) PROVE UNCHANGED quotaVars
  BY <1>6 DEF Post, LoseLock
<1>7. ASSUME NEW s \in Slots, Start(s) \/ Settle(s) \/ CrashWorker(s)
      PROVE  UNCHANGED quotaVars
  BY <1>7 DEF Start, Settle, CrashWorker
<1>8. UNCHANGED syncVars => UNCHANGED quotaVars
  BY DEF syncVars
<1> QED
  BY <1>1, <1>2, <1>3, <1>4, <1>5, <1>6, <1>7, <1>8 DEF SyncNext

\* Every step of the pipeline is an operation of the queue or leaves it alone.
LEMMA StepOfQueue ==
  ASSUME SyncInv, [SyncNext]_syncVars
  PROVE  QueueInv'
<1>1. QueueInv
  BY DEF SyncInv, SyncTypeOK, QueueInv
<1>2. ASSUME NEW s \in Slots, Handle(s) PROVE Return(s) \/ Throw(s)
  BY <1>2 DEF Handle, Upsert, Cancel, PastDue, Skip, FailHandler, Handled
<1>3. ASSUME NEW s \in Slots, Start(s) \/ Settle(s) \/ CrashWorker(s)
      PROVE  (\E e \in Jobs : Take(s, e)) \/ Report(s) \/ Crash(s)
  BY <1>3 DEF Start, Settle, CrashWorker
<1>4. ASSUME NEW e \in Jobs, Post(e) \/ LoseLock(e) PROVE Add(e) \/ Stall(e)
  BY <1>4 DEF Post, LoseLock
<1>5. ASSUME \/ Consume \/ SyncTick \/ UNCHANGED syncVars
             \/ \E w \in Workspaces, extra \in Extras : Grant(w, extra)
             \/ \E w \in Workspaces, period \in Periods : CreateWorkspace(w, period)
      PROVE  UNCHANGED queueVars
  BY <1>5 DEF Consume, SyncTick, Grant, CreateWorkspace, syncVars
<1> QED
  BY <1>1, <1>2, <1>3, <1>4, <1>5, QueueStep DEF SyncNext

---------------------------------------------------------------------------
(* Types.                                                                   *)

LEMMA SyncStarts == SyncInit => SyncInv
<1> SUFFICES ASSUME SyncInit PROVE SyncInv
  OBVIOUS
<1>1. QuotaTypeOK /\ QueueTypeOK /\ SlotsBusy
  BY TypeInit, QueueStarts DEF SyncInit, QueueInv
<1> QED
  BY <1>1, StripeAssumption DEF SyncInit, SyncInv, SyncTypeOK

LEMMA SyncStep ==
  ASSUME SyncInv, [SyncNext]_syncVars
  PROVE  SyncInv'
<1> USE DEF SyncInv, SyncTypeOK
<1>1. QuotaTypeOK' /\ QueueTypeOK' /\ SlotsBusy'
  BY StepOfLedger, StepOfQueue, TypeStep DEF QueueInv
<1>2. ASSUME NEW s \in Slots, Handle(s) PROVE SyncInv'
  <2> DEFINE b == body[slot[s]]
  <2>1. phase[s] = "running" /\ slot[s] \in Jobs
    BY <1>2 DEF Handle, Upsert, Cancel, PastDue, Skip, FailHandler, Handled, Return,
                Throw, SlotsBusy
  <2>2. b \in EventBody
    BY <2>1, StripeAssumption
  <2>3. CASE Upsert(s)
    <3>1. b.ws \in Workspaces /\ EffectivePlan(b) \in Plans
      BY <2>2, <2>3 DEF Upsert, Skips, Accepted, EventBody
    <3>2. b.sub \in Subs /\ b.status \in Statuses /\ b.period \in Periods
      BY <2>1, <2>2, <2>3, StripeAssumption DEF Upsert, EventBody
    <3>3. [sub |-> b.sub, plan |-> EffectivePlan(b), status |-> b.status,
           period |-> b.period] \in SubRow
      BY <3>1, <3>2 DEF SubRow
    <3>4. sub' \in [Workspaces -> SubRow \union {NoRow}]
      BY <2>3, <3>3 DEF Upsert
    <3> QED
      BY <1>1, <2>1, <2>3, <3>4 DEF Upsert, Handled
  <2>4. CASE Cancel(s)
    <3>1. b.ws \in Workspaces
      BY <2>2, <2>4 DEF Cancel, Skips, EventBody
    <3>2. sub[b.ws] \in SubRow => [sub[b.ws] EXCEPT !.status = "canceled"] \in SubRow
      BY DEF SubRow, Statuses
    <3>3. sub' \in [Workspaces -> SubRow \union {NoRow}]
      BY <2>4, <3>1, <3>2 DEF Cancel
    <3> QED
      BY <1>1, <2>1, <2>4, <3>3 DEF Cancel, Handled
  <2>5. CASE PastDue(s)
    <3>1. \A w \in Workspaces :
            sub[w] \in SubRow => [sub[w] EXCEPT !.status = "past_due"] \in SubRow
      BY DEF SubRow, Statuses
    <3>2. sub' \in [Workspaces -> SubRow \union {NoRow}]
      BY <2>5, <3>1 DEF PastDue
    <3> QED
      BY <1>1, <2>1, <2>5, <3>2 DEF PastDue, Handled
  <2>6. CASE Skip(s)
    BY <1>1, <2>1, <2>6 DEF Skip, Handled
  <2>7. CASE FailHandler(s)
    BY <1>1, <2>7 DEF FailHandler, historyVars
  <2> QED
    BY <1>2, <2>3, <2>4, <2>5, <2>6, <2>7 DEF Handle
<1>3. ASSUME NEW w \in Workspaces, NEW period \in Periods, CreateWorkspace(w, period)
      PROVE  SyncInv'
  <2>1. [sub |-> w, plan |-> Trial, status |-> "trialing", period |-> period] \in SubRow
    BY StripeAssumption DEF SubRow, Statuses
  <2> QED
    BY <1>1, <1>3, <2>1 DEF CreateWorkspace, historyVars
<1>4. ASSUME NEW e \in Jobs, Post(e) PROVE SyncInv'
  BY <1>1, <1>4, StripeAssumption DEF Post, historyVars
<1>5. ASSUME NEW e \in Jobs, LoseLock(e) PROVE SyncInv'
  BY <1>1, <1>5 DEF LoseLock, CountLapses
<1>6. ASSUME NEW s \in Slots, Settle(s) PROVE SyncInv'
  BY <1>1, <1>6 DEF Settle, CountLapses
<1>7. ASSUME NEW s \in Slots, Start(s) \/ CrashWorker(s) PROVE SyncInv'
  BY <1>1, <1>7 DEF Start, CrashWorker, historyVars
<1>8. ASSUME Consume \/ SyncTick PROVE SyncInv'
  BY <1>1, <1>8 DEF Consume, SyncTick, historyVars
<1>9. ASSUME NEW w \in Workspaces, NEW extra \in Extras, Grant(w, extra) PROVE SyncInv'
  <2>1. extra \in Nat
    BY AmountsAssumption
  <2> QED
    BY <1>1, <1>9, <2>1 DEF Grant
<1>10. CASE UNCHANGED syncVars
  BY <1>1, <1>10 DEF syncVars, historyVars
<1> QED
  BY <1>2, <1>3, <1>4, <1>5, <1>6, <1>7, <1>8, <1>9, <1>10 DEF SyncNext

\* Every reachable state of the pipeline is well typed.
THEOREM SyncTypes == SyncSpec => [](SyncTypeOK /\ SlotsBusy)
<1>1. SyncInv => SyncTypeOK /\ SlotsBusy
  BY DEF SyncInv
<1> QED
  BY <1>1, SyncStarts, SyncStep, PTL DEF SyncSpec

---------------------------------------------------------------------------
(* Refinement.                                                              *)

\* The pipeline implements the ledger: whatever Stripe and the queue do, the
\* quota tables change only as QuotaLedger allows.
THEOREM SyncImplementsLedger == SyncSpec => QuotaSpec
<1>1. SyncInit => QuotaInit
  BY DEF SyncInit
<1> QED
  BY <1>1, SyncStarts, SyncStep, StepOfLedger, PTL DEF SyncSpec, QuotaSpec

\* Hence no order or repetition of events lets a workspace overspend, hides a
\* warning flag, charges a workspace that was never seeded, or lets the counter part
\* from the events it counts.
THEOREM SyncNeverOverspends ==
  SyncSpec => [](NoOverspend /\ FlagsNeverLate /\ FailClosed /\ LedgerMatches)
<1> QED
  BY SyncImplementsLedger, NeverOverspent, FlagsAreNeverLate, NeverChargedUnseeded,
     CounterIsLedger, PTL

---------------------------------------------------------------------------
(* Subscription and quota together.                                         *)

\* What the property asks of one workspace.
Follows(w) ==
  quota[w] # NoRow =>
    /\ sub[w] # NoRow
    /\ quota[w].period = sub[w].period
    /\ quota[w].granted = Credits[sub[w].plan] + topup[w]

\* An upsert overwrites both rows of its workspace and no other's.
LEMMA UpsertFollows ==
  ASSUME SyncInv, QuotaFollowsSubscription, NEW s \in Slots, Upsert(s)
  PROVE  QuotaFollowsSubscription'
<1> USE DEF SyncInv, SyncTypeOK, QuotaTypeOK, QueueTypeOK
<1> DEFINE b == body[slot[s]]
<1>1. phase[s] = "running" /\ slot[s] \in Jobs
  BY DEF Upsert, Handled, Return, Throw, SlotsBusy
<1>2. b \in EventBody
  BY <1>1, StripeAssumption
<1>3. b.ws \in Workspaces /\ EffectivePlan(b) \in Plans /\ b.period \in Periods
  BY <1>2 DEF Upsert, Skips, Accepted, EventBody
<1>4. [sub |-> b.sub, plan |-> EffectivePlan(b), status |-> b.status,
       period |-> b.period] \in SubRow
  BY <1>1, <1>2, <1>3, StripeAssumption DEF Upsert, EventBody, SubRow
<1>5. SeededRow(EffectivePlan(b), b.period) \in QuotaRow
  BY <1>3, RowTypes
<1>6. ASSUME NEW w \in Workspaces PROVE Follows(w)'
  <2>1. CASE w = b.ws
    <3>1. /\ sub'[w] = [sub |-> b.sub, plan |-> EffectivePlan(b), status |-> b.status,
                        period |-> b.period]
          /\ quota'[w] = SeededRow(EffectivePlan(b), b.period)
          /\ topup'[w] = 0
      BY <1>3, <2>1 DEF Upsert, Seed
    <3>2. /\ quota'[w].period = b.period
          /\ quota'[w].granted = Credits[EffectivePlan(b)]
      BY <3>1 DEF SeededRow
    <3>3. Credits[EffectivePlan(b)] \in Int
      BY <1>3, CreditsAssumption
    <3> QED
      BY <1>4, <3>1, <3>2, <3>3, StripeAssumption DEF Follows
  <2>2. CASE w # b.ws
    <3>1. sub'[w] = sub[w] /\ quota'[w] = quota[w] /\ topup'[w] = topup[w]
      BY <1>3, <2>2 DEF Upsert, Seed
    <3> QED
      BY <3>1 DEF Follows, QuotaFollowsSubscription
  <2> QED
    BY <2>1, <2>2
<1> QED
  BY <1>6 DEF Follows, QuotaFollowsSubscription

\* A handler that only changes a status leaves plan and period as they are.
LEMMA StatusChangeFollows ==
  ASSUME SyncInv, QuotaFollowsSubscription, NEW s \in Slots,
         Cancel(s) \/ PastDue(s) \/ Skip(s) \/ FailHandler(s)
  PROVE  QuotaFollowsSubscription'
<1> USE DEF SyncInv, SyncTypeOK
<1>1. UNCHANGED <<quota, topup>>
  BY DEF Cancel, PastDue, Skip, FailHandler, quotaVars, historyVars
<1>2. ASSUME NEW w \in Workspaces, sub[w] # NoRow
      PROVE  /\ sub'[w] # NoRow
             /\ sub'[w].plan = sub[w].plan /\ sub'[w].period = sub[w].period
  <2>1. sub[w] \in SubRow
    BY <1>2
  <2>2. \A st \in Statuses :
          /\ [sub[w] EXCEPT !.status = st] \in SubRow
          /\ [sub[w] EXCEPT !.status = st].plan = sub[w].plan
          /\ [sub[w] EXCEPT !.status = st].period = sub[w].period
    BY <2>1 DEF SubRow
  <2>3. \/ sub'[w] = sub[w]
        \/ sub'[w] = [sub[w] EXCEPT !.status = "canceled"]
        \/ sub'[w] = [sub[w] EXCEPT !.status = "past_due"]
    BY <1>2 DEF Cancel, PastDue, Skip, FailHandler, historyVars
  <2> QED
    BY <2>1, <2>2, <2>3, StripeAssumption DEF Statuses
<1> QED
  BY <1>1, <1>2 DEF QuotaFollowsSubscription

\* Charging and refusing leave period and grant as they are.
LEMMA ConsumeFollows ==
  ASSUME SyncInv, QuotaFollowsSubscription, Consume
  PROVE  QuotaFollowsSubscription'
<1> USE DEF SyncInv, SyncTypeOK, QuotaTypeOK
<1>1. UNCHANGED <<sub, topup>>
  BY DEF Consume, historyVars
<1>2. ASSUME NEW w \in Workspaces
      PROVE  \/ quota'[w] = quota[w]
             \/ /\ quota[w] # NoRow
                /\ quota'[w].period = quota[w].period
                /\ quota'[w].granted = quota[w].granted
  <2>1. ASSUME NEW v \in Workspaces, NEW cost \in Costs, NEW key \in Keys,
               NEW at \in 0..MaxTime, Charge(v, cost, key, at), v = w
        PROVE  /\ quota[w] # NoRow
               /\ quota'[w].period = quota[w].period
               /\ quota'[w].granted = quota[w].granted
    <3>1. quota[w] \in QuotaRow /\ quota'[w] = ChargedRow(quota[w], cost)
      BY <2>1 DEF Charge
    <3> QED
      BY <2>1, <3>1 DEF Charge, ChargedRow, QuotaRow
  <2>2. ASSUME NEW v \in Workspaces, NEW cost \in Costs, Refuse(v, cost), v = w
        PROVE  /\ quota[w] # NoRow
               /\ quota'[w].period = quota[w].period
               /\ quota'[w].granted = quota[w].granted
    <3>1. quota[w] \in QuotaRow /\ quota'[w] = RefusedRow(quota[w])
      BY <2>2 DEF Refuse
    <3> QED
      BY <2>2, <3>1 DEF Refuse, RefusedRow, QuotaRow
  <2>3. ASSUME NEW v \in Workspaces, NEW cost \in Costs, v # w,
               \/ Refuse(v, cost)
               \/ \E key \in Keys, at \in 0..MaxTime : Charge(v, cost, key, at)
        PROVE  quota'[w] = quota[w]
    BY <2>3 DEF Charge, Refuse
  <2> QED
    BY <2>1, <2>2, <2>3 DEF Consume, ConsumeCredits
<1> QED
  BY <1>1, <1>2 DEF QuotaFollowsSubscription

\* A top-up raises the grant and is remembered as such.
LEMMA GrantFollows ==
  ASSUME SyncInv, QuotaFollowsSubscription,
         NEW v \in Workspaces, NEW extra \in Extras, Grant(v, extra)
  PROVE  QuotaFollowsSubscription'
<1> USE DEF SyncInv, SyncTypeOK, QuotaTypeOK
<1>1. extra \in Nat
  BY AmountsAssumption
<1>2. quota[v] \in QuotaRow
  BY DEF Grant, GrantCredits
<1>3. quota[v].granted \in Int /\ topup[v] \in Nat
  BY <1>2 DEF QuotaRow
<1>4. ASSUME NEW w \in Workspaces PROVE Follows(w)'
  <2>1. CASE w = v
    <3>1. /\ quota'[w].period = quota[w].period
          /\ quota'[w].granted = quota[w].granted + extra
          /\ topup'[w] = topup[w] + extra
          /\ quota[w] # NoRow
      BY <1>2, <2>1 DEF Grant, GrantCredits, QuotaRow
    <3>2. UNCHANGED sub
      BY DEF Grant
    <3>3. sub[w] # NoRow /\ sub[w] \in SubRow
      BY <3>1 DEF QuotaFollowsSubscription
    <3>4. Credits[sub[w].plan] \in Int
      BY <3>3, CreditsAssumption DEF SubRow
    <3> QED
      BY <1>1, <1>3, <2>1, <3>1, <3>2, <3>4 DEF Follows, QuotaFollowsSubscription
  <2>2. CASE w # v
    BY <2>2 DEF Follows, QuotaFollowsSubscription, Grant, GrantCredits
  <2> QED
    BY <2>1, <2>2
<1> QED
  BY <1>4 DEF Follows, QuotaFollowsSubscription

\* A workspace's quota is always the one of its present subscription.
THEOREM QuotaIsInStep == SyncSpec => []QuotaFollowsSubscription
<1>1. SyncInit => QuotaFollowsSubscription
  BY DEF SyncInit, QuotaInit, QuotaFollowsSubscription
<1>2. ASSUME SyncInv, QuotaFollowsSubscription, [SyncNext]_syncVars
      PROVE  QuotaFollowsSubscription'
  <2>1. ASSUME NEW w \in Workspaces, NEW period \in Periods, CreateWorkspace(w, period)
        PROVE  QuotaFollowsSubscription'
    <3>1. quota[w] = NoRow
      BY <1>2, <2>1 DEF CreateWorkspace, QuotaFollowsSubscription
    <3>2. UNCHANGED <<quota, topup>>
      BY <2>1 DEF CreateWorkspace, quotaVars, historyVars
    <3>3. \A v \in Workspaces : v # w => sub'[v] = sub[v]
      BY <1>2, <2>1 DEF CreateWorkspace, SyncInv, SyncTypeOK
    <3> QED
      BY <1>2, <3>1, <3>2, <3>3 DEF QuotaFollowsSubscription
  <2>2. ASSUME \/ \E e \in Jobs : Post(e) \/ LoseLock(e)
               \/ \E s \in Slots : Start(s) \/ Settle(s) \/ CrashWorker(s)
               \/ SyncTick \/ UNCHANGED syncVars
        PROVE  QuotaFollowsSubscription'
    <3>1. UNCHANGED <<quota, sub, topup>>
      BY <2>2 DEF Post, LoseLock, Start, Settle, CrashWorker, SyncTick, Tick, syncVars,
                  quotaVars, historyVars
    <3> QED
      BY <1>2, <3>1 DEF QuotaFollowsSubscription
  <2> QED
    BY <1>2, <2>1, <2>2, UpsertFollows, StatusChangeFollows, ConsumeFollows, GrantFollows
       DEF SyncNext, Handle
<1> QED
  BY <1>1, <1>2, SyncStarts, SyncStep, PTL DEF SyncSpec

---------------------------------------------------------------------------
(* What the queue says of an event.                                         *)

\* A slot that has returned has been counted.
ReturnedMeansRan == \A s \in Slots : phase[s] = "returned" => runs[slot[s]] > 0

\* A job only becomes completed when a slot that returned reports it.
LEMMA ReportRan ==
  ASSUME SyncInv, CompletedMeansRan, ReturnedMeansRan,
         \/ \E s \in Slots : Settle(s)
         \/ \E e \in Jobs : LoseLock(e)
  PROVE  CompletedMeansRan' /\ ReturnedMeansRan'
<1> USE DEF SyncInv, SyncTypeOK, QueueTypeOK, SlotsBusy
<1>1. UNCHANGED runs
  BY DEF Settle, LoseLock
<1>2. \A s \in Slots : phase'[s] = "returned" => phase[s] = "returned" /\ slot'[s] = slot[s]
  BY DEF Settle, LoseLock, Report, Stall
<1>3. ASSUME NEW e \in Jobs, job'[e] = "completed", job[e] # "completed"
      PROVE  \E s \in Slots : phase[s] = "returned" /\ slot[s] = e
  <2>1. ASSUME NEW j \in Jobs, Fail(j) PROVE FALSE
    BY <1>3, <2>1 DEF Fail, Forget
  <2>2. ASSUME NEW j \in Jobs, Complete(j) PROVE j = e
    BY <1>3, <2>2 DEF Complete, Forget
  <2>3. ASSUME NEW s \in Slots, Settle(s)
        PROVE  phase[s] = "returned" /\ slot[s] = e
    <3>1. slot[s] \in Jobs
      BY <2>3 DEF Settle, Report
    <3>2. ~UNCHANGED storeVars
      BY <1>3 DEF storeVars
    <3> QED
      BY <2>1, <2>2, <2>3, <3>1, <3>2 DEF Settle, Report
  <2>4. ASSUME NEW j \in Jobs, LoseLock(j) PROVE FALSE
    BY <1>3, <2>1, <2>4 DEF LoseLock, Stall
  <2> QED
    BY <2>3, <2>4
<1> QED
  BY <1>1, <1>2, <1>3 DEF CompletedMeansRan, ReturnedMeansRan

\* What the queue calls completed has been run to its end at least once.
THEOREM CompletedEventsRan == SyncSpec => []CompletedMeansRan
<1>1. SyncInit => CompletedMeansRan /\ ReturnedMeansRan
  BY DEF SyncInit, QueueInit, CompletedMeansRan, ReturnedMeansRan
<1>2. ASSUME SyncInv, CompletedMeansRan, ReturnedMeansRan, [SyncNext]_syncVars
      PROVE  CompletedMeansRan' /\ ReturnedMeansRan'
  <2> USE <1>2 DEF SyncInv, SyncTypeOK, QueueTypeOK, SlotsBusy, CompletedMeansRan,
                   ReturnedMeansRan
  <2>1. ASSUME NEW s \in Slots, Handle(s), ~FailHandler(s)
        PROVE  CompletedMeansRan' /\ ReturnedMeansRan'
    <3>1. Handled(s)
      BY <2>1 DEF Handle, Upsert, Cancel, PastDue, Skip
    <3>2. /\ \E end \in {"returned", "threw"} : phase' = [phase EXCEPT ![s] = end]
          /\ UNCHANGED <<job, slot>>
          /\ runs' = [runs EXCEPT ![slot[s]] = @ + 1]
          /\ slot[s] \in Jobs
      BY <3>1 DEF Handled, Return, Throw, storeVars
    <3>3. \A e \in Jobs : runs[e] \in Nat /\ runs'[e] >= runs[e]
      BY <3>2
    <3>4. runs'[slot[s]] > 0
      BY <3>2
    <3> QED
      BY <3>2, <3>3, <3>4
  <2>2. ASSUME NEW s \in Slots, FailHandler(s)
        PROVE  CompletedMeansRan' /\ ReturnedMeansRan'
    BY <2>2 DEF FailHandler, Throw, storeVars, historyVars
  <2>3. ASSUME NEW e \in Jobs, Post(e)
        PROVE  CompletedMeansRan' /\ ReturnedMeansRan'
    BY <2>3 DEF Post, Add, historyVars
  <2>4. ASSUME NEW s \in Slots, Start(s) \/ CrashWorker(s)
        PROVE  CompletedMeansRan' /\ ReturnedMeansRan'
    BY <2>4 DEF Start, Take, CrashWorker, Crash, historyVars
  <2>5. ASSUME \/ Consume \/ SyncTick \/ UNCHANGED syncVars
               \/ \E w \in Workspaces, extra \in Extras : Grant(w, extra)
               \/ \E w \in Workspaces, period \in Periods : CreateWorkspace(w, period)
        PROVE  CompletedMeansRan' /\ ReturnedMeansRan'
    <3>1. UNCHANGED <<job, phase, slot, runs>>
      BY <2>5 DEF Consume, SyncTick, Grant, CreateWorkspace, syncVars, queueVars, historyVars
    <3> QED
      BY <3>1
  <2> QED
    BY <2>1, <2>2, <2>3, <2>4, <2>5, ReportRan DEF SyncNext
<1> QED
  BY <1>1, <1>2, SyncStarts, SyncStep, PTL DEF SyncSpec

---------------------------------------------------------------------------
(* How often an event runs.                                                 *)

\* The runs an event has had, has under way and is still due, against the one its
\* id is good for and one more for each time the queue put it back or forgot it.
Running(e) == {s \in Slots : phase[s] = "running" /\ slot[s] = e}
Due(e) == IF job[e] \in Runnable THEN 1 ELSE 0
InBudget(e) == runs[e] + Cardinality(Running(e)) + Due(e) <= 1 + lapses[e]

RunsBudget == \A e \in Jobs : InBudget(e)

LEMMA RunningFinite ==
  \A e : IsFiniteSet(Running(e)) /\ Cardinality(Running(e)) \in Nat
<1> TAKE e
<1>1. Running(e) \in SUBSET Slots
  BY DEF Running
<1> QED
  BY <1>1, QueueAssumption, FS_Subset, FS_CardinalityType

\* An event stays within its budget when no run of it begins or ends, unless it
\* becomes due: that must have been counted.
LEMMA BudgetKept ==
  ASSUME SyncInv, RunsBudget, NEW e \in Jobs,
         \A s \in Slots : phase'[s] = "running" => phase[s] = "running" /\ slot'[s] = slot[s],
         runs' = runs,
         \/ lapses'[e] = lapses[e] /\ (job'[e] \in Runnable => job[e] \in Runnable)
         \/ lapses'[e] = lapses[e] + 1
  PROVE  InBudget(e)'
<1>1. runs[e] \in Nat /\ lapses[e] \in Nat
  BY DEF SyncInv, SyncTypeOK
<1>2. Running(e)' \in SUBSET Running(e)
  BY DEF Running
<1>3. /\ Cardinality(Running(e)) \in Nat
      /\ Cardinality(Running(e)') \in Nat
      /\ Cardinality(Running(e)') <= Cardinality(Running(e))
  <2>1. IsFiniteSet(Running(e)) /\ Cardinality(Running(e)) \in Nat
    BY RunningFinite
  <2>2. IsFiniteSet(Running(e)') /\ Cardinality(Running(e)') <= Cardinality(Running(e))
    BY <1>2, <2>1, FS_Subset
  <2> QED
    BY <2>1, <2>2, FS_CardinalityType
<1>4. Due(e) \in {0, 1} /\ Due(e)' \in {0, 1}
  BY DEF Due
<1>5. \/ lapses'[e] = lapses[e] /\ Due(e)' <= Due(e)
      \/ lapses'[e] = lapses[e] + 1
  BY DEF Due
<1>6. runs[e] + Cardinality(Running(e)) + Due(e) <= 1 + lapses[e]
  BY DEF RunsBudget, InBudget
<1> HIDE DEF Due, Running
<1>7. runs'[e] = runs[e]
  OBVIOUS
<1>8. runs'[e] + Cardinality(Running(e)') + Due(e)' <= 1 + lapses'[e]
  BY <1>1, <1>3, <1>4, <1>5, <1>6, <1>7
<1> QED
  BY <1>8 DEF InBudget

\* Taking an event uses up that it was due.
LEMMA TakeInBudget ==
  ASSUME SyncInv, RunsBudget, NEW s \in Slots, NEW j \in Jobs, Take(s, j),
         runs' = runs, lapses' = lapses
  PROVE  InBudget(j)'
<1>1. runs[j] \in Nat /\ lapses[j] \in Nat
  BY DEF SyncInv, SyncTypeOK
<1>2. Running(j)' = Running(j) \union {s} /\ s \notin Running(j)
  BY DEF Running, Take, SyncInv, SyncTypeOK, QueueTypeOK
<1>3. Due(j) = 1 /\ Due(j)' = 0
  BY DEF Due, Runnable, Take, SyncInv, SyncTypeOK, QueueTypeOK
<1>4. Cardinality(Running(j)) \in Nat /\ Cardinality(Running(j)') = Cardinality(Running(j)) + 1
  BY <1>2, RunningFinite, FS_AddElement
<1>5. runs[j] + Cardinality(Running(j)) + 1 <= 1 + lapses[j]
  BY <1>3 DEF RunsBudget, InBudget
<1> QED
  BY <1>1, <1>3, <1>4, <1>5 DEF InBudget

\* A handler that returns turns a run under way into one had.
LEMMA HandledInBudget ==
  ASSUME SyncInv, RunsBudget, NEW s \in Slots, NEW j \in Jobs, slot[s] = j, Handled(s)
  PROVE  InBudget(j)'
<1>1. phase[s] = "running"
  BY DEF Handled, Return, Throw, SyncInv, SlotsBusy
<1>2. runs[j] \in Nat /\ lapses[j] \in Nat
  BY <1>1 DEF SyncInv, SyncTypeOK
<1>3. Running(j)' = Running(j) \ {s} /\ s \in Running(j)
  BY <1>1 DEF Running, Handled, Return, Throw, SyncInv, SyncTypeOK, QueueTypeOK
<1>4. Cardinality(Running(j)) \in Nat /\ Cardinality(Running(j)') = Cardinality(Running(j)) - 1
  BY <1>3, RunningFinite, FS_RemoveElement
<1>5. runs'[j] = runs[j] + 1 /\ lapses' = lapses /\ Due(j)' = Due(j) /\ Due(j) \in {0, 1}
  BY <1>1 DEF Handled, Return, Throw, storeVars, Due, SyncInv, SyncTypeOK
<1>6. runs[j] + Cardinality(Running(j)) + Due(j) <= 1 + lapses[j]
  BY <1>1 DEF RunsBudget, InBudget
<1>7. runs'[j] + Cardinality(Running(j)') + Due(j)' <= 1 + lapses'[j]
  BY <1>2, <1>4, <1>5, <1>6
<1> QED
  BY <1>7 DEF InBudget

\* Every step keeps every event within its budget.
LEMMA BudgetStep ==
  ASSUME SyncInv, RunsBudget, [SyncNext]_syncVars
  PROVE  RunsBudget'
<1> SUFFICES ASSUME NEW e \in Jobs PROVE InBudget(e)'
  BY DEF RunsBudget
<1> USE DEF SyncInv, SyncTypeOK, QueueTypeOK
<1>1. ASSUME NEW s \in Slots, Handle(s), ~FailHandler(s) PROVE InBudget(e)'
  <2>1. Handled(s)
    BY <1>1 DEF Handle, Upsert, Cancel, PastDue, Skip
  <2>2. CASE e = slot[s]
    BY <2>1, <2>2, HandledInBudget
  <2>3. CASE e # slot[s]
    <3>1. Running(e)' = Running(e) /\ Due(e)' = Due(e)
      BY <2>1, <2>3 DEF Running, Due, Handled, Return, Throw, storeVars
    <3>2. runs'[e] = runs[e] /\ lapses' = lapses
      BY <2>1, <2>3 DEF Handled
    <3> QED
      BY <3>1, <3>2 DEF RunsBudget, InBudget
  <2> QED
    BY <2>2, <2>3
<1>2. ASSUME NEW s \in Slots, FailHandler(s) PROVE InBudget(e)'
  BY <1>2, BudgetKept DEF FailHandler, Throw, storeVars, historyVars
<1>3. ASSUME NEW j \in Jobs, Post(j) PROVE InBudget(e)'
  BY <1>3, BudgetKept DEF Post, Add, Runnable, historyVars
<1>4. ASSUME NEW s \in Slots, NEW j \in Jobs, Take(s, j), UNCHANGED historyVars
      PROVE  InBudget(e)'
  <2>1. CASE e = j
    BY <1>4, <2>1, TakeInBudget DEF historyVars
  <2>2. CASE e # j
    <3>1. Running(e)' = Running(e) /\ Due(e)' = Due(e)
      BY <1>4, <2>2 DEF Running, Due, Take
    <3> QED
      BY <1>4, <3>1 DEF RunsBudget, InBudget, historyVars
  <2> QED
    BY <2>1, <2>2
<1>5. ASSUME NEW s \in Slots, CrashWorker(s) PROVE InBudget(e)'
  BY <1>5, BudgetKept DEF CrashWorker, Crash, historyVars
<1>6. ASSUME (\E s \in Slots : Settle(s)) \/ \E j \in Jobs : LoseLock(j) PROVE InBudget(e)'
  <2>1. runs' = runs /\ CountLapses
    BY <1>6 DEF Settle, LoseLock
  <2>2. \A s \in Slots : phase'[s] = "running" => phase[s] = "running" /\ slot'[s] = slot[s]
    BY <1>6 DEF Settle, LoseLock, Report, Stall
  <2>3. \/ lapses'[e] = lapses[e] /\ (job'[e] \in Runnable => job[e] \in Runnable)
        \/ lapses'[e] = lapses[e] + 1
    BY <2>1 DEF CountLapses
  <2> QED
    BY <2>1, <2>2, <2>3, BudgetKept
<1>7. ASSUME \/ Consume \/ SyncTick \/ UNCHANGED syncVars
             \/ \E w \in Workspaces, extra \in Extras : Grant(w, extra)
             \/ \E w \in Workspaces, period \in Periods : CreateWorkspace(w, period)
      PROVE  InBudget(e)'
  <2>1. UNCHANGED <<job, phase, slot, runs, lapses>>
    BY <1>7 DEF Consume, SyncTick, Grant, CreateWorkspace, syncVars, queueVars, historyVars
  <2> QED
    BY <2>1, BudgetKept
<1> QED
  BY <1>1, <1>2, <1>3, <1>4, <1>5, <1>6, <1>7 DEF SyncNext, Start

\* The event id as job id (webhooks/stripe/route.ts:30-34) makes redelivery harmless
\* by itself: an event runs once, and once more for each time its record was evicted
\* or its lock was lost.
THEOREM EventsRunOnce == SyncSpec => []RunsBounded
<1>1. SyncInit => RunsBudget
  <2> SUFFICES ASSUME SyncInit, NEW e \in Jobs PROVE InBudget(e)
    BY DEF RunsBudget
  <2>1. Running(e) = {}
    BY DEF SyncInit, QueueInit, Running
  <2>2. runs[e] = 0 /\ lapses[e] = 0 /\ Due(e) = 1
    BY DEF SyncInit, QueueInit, Due, Runnable
  <2> QED
    BY <2>1, <2>2, FS_EmptySet DEF InBudget
<1>2. SyncInv /\ RunsBudget => RunsBounded
  <2> SUFFICES ASSUME SyncInv, RunsBudget, NEW e \in Jobs PROVE runs[e] <= 1 + lapses[e]
    BY DEF RunsBounded
  <2>1. runs[e] \in Nat /\ lapses[e] \in Nat /\ Cardinality(Running(e)) \in Nat
    BY RunningFinite DEF SyncInv, SyncTypeOK
  <2>2. Due(e) \in {0, 1}
    BY DEF Due
  <2>3. runs[e] + Cardinality(Running(e)) + Due(e) <= 1 + lapses[e]
    BY DEF RunsBudget, InBudget
  <2> QED
    BY <2>1, <2>2, <2>3
<1> QED
  BY <1>1, <1>2, SyncStarts, SyncStep, BudgetStep, PTL DEF SyncSpec
=============================================================================
