# Synterra, verified

TLA+ models of Synterra (a multi-tenant control plane: a Next.js app, a Hono API
and BullMQ workers over Postgres and Redis, with Stripe, Lago, Resend, WorkOS and
the Aquila service around them), TLC configurations that check them, and theorems
about them that TLAPS has checked.

Paths below are relative to `src/`; `quota.ts` and the other workers are in
`apps/workers/src/`; routes, actions, pages and components in `apps/web/src/`.

## 1. The system

| Part | State it keeps | Operations | Module |
|---|---|---|---|
| Credit quota: `quota.ts`, migrations 0007, 0008 | `workspace_quotas`, `usage_events` | `consumeCredits`, `seedWorkspaceQuota`, admin "grant credits" | `Allowance`, `QuotaLedger`, `QuotaTx` |
| Stripe events: `webhooks/stripe/route.ts`, `stripe-worker.ts` | `subscriptions`, the `stripe-events` queue | deliver, created/updated, deleted, payment_failed | `StripeSync` |
| Provisioning: `actions/workspace.ts`, demo sign-in, `provisioner.ts` | `aquila_credentials`, orgs and keys at Aquila, customers at Lago, the `provision` queue | create workspace, enqueue, the handler's five calls | `Provisioning` |
| Usage aggregator: `usage-aggregator.ts` | the list of a tick under way | tick, visit and heal a workspace | `Provisioning` |
| Job queue: BullMQ on Redis (external) | jobs by id, locks, stall counts, retained jobs | add, take, report, stall, crash | `JobQueue` |
| Onboarding: `api/start/*`, `app/start/page.tsx`, `app/workspaces` | `inflight_bootstrap`, start pages, the cookie | bootstrap, status poll, magic link, claim, create form, switch | `Onboarding` |
| Members and sessions: `actions/members.ts`, the switch, impersonation, demo and SSO sign-in, directory webhooks | `workspace_members`, `invites`, the role in `synterra_wjwt` | invite, accept, change role, remove, transfer, deactivate, switch, impersonate | `Members` |
| Worker process: `index.ts` | which workers are up, draining, closed | boot, listen, drain, exit, hard kill | `Workers` |
| Webhook dispatcher, digest: `webhook-dispatcher-worker.ts`, `digest-worker.ts` | `webhook_endpoints.failure_count`, `webhook_deliveries`, mails sent | deliver and record; list and mail workspaces | `Workers` |
| Notifications: `webhooks/aquila/route.ts`, `notification-dispatcher-worker.ts`, `notification-inbox.tsx` | `brand_changes`, `notification_deliveries`, the inbox of a tab | store, dispatch per channel, publish, list, mark read | `Notifications` |
| Web pages: `app/[workspace]/**`, `actions/*`, `components/*`, `lib/*` | the cookie, the page shown, the cached service tokens, lists that components keep | open, submit, resolve the workspace, call Aquila, render again | `ConsolePages`, `Console` |
| Admin pages | quota rows, subscriptions, flags | plan, credits, suspension, flags | `QuotaLedger`, `ConsolePages` |
| Public API (`apps/api`), better-auth, emails, telemetry, UI kit | none of their own | reads and rendering | not modelled |

How they interact. `createWorkspace` commits a workspace with its owner and its
trial subscription, then adds a provision job; the create form and the claim of an
anonymous session both call it. Stripe calls the webhook route, which adds an event
under Stripe's event id; the stripe worker writes the subscription and reseeds the
quota in one transaction, while `consumeCredits` and the admin page change the same
row. The provisioner calls Aquila and Lago and stores the credentials with which
the pages' reads and actions are later authorised; the aggregator repairs Lago. Two
worker and three web processes run at a time (`infra/lxc-app/docker-compose.yml`),
so every handler may run beside itself.

What is hard, and what correctness means for it:

* **Quota.** Concurrent charges, top-ups and reseeds of one row; two tables
  written in one transaction; lost replies and retries under an idempotency key;
  exact hits of the limits and the 32-bit column. Credits leave an account only
  against a usage event, once, and never more than are left; an answer is true.
* **Stripe events.** Delivered twice, in any order, run again when a lock
  expires, lost to a crash, retained only so long. Subscription and quota never
  disagree, and delivering again does not run again.
* **Provisioning.** Five calls to three services, none in a transaction with
  another, each able to fail or lose its reply, run by two slots at once for one
  workspace. What is stored works and is never replaced; what Lago lacks is repaired.
* **Onboarding.** Count-then-insert, poll-then-write and claim in three
  transactions. The limit holds up to the requests in flight, nobody lands in a
  workspace that is not his, nor, unless he picks it himself, in one that will have
  no credentials; pages are told the truth.
* **Members.** Roles that were true when a page or a token was made. How stale they
  can become is bounded. Owners can go by a page that is behind.
* **Workers.** Jobs cut off at any statement and run again. Counters are
  witnessed by records, mails are bounded, a clean exit cuts nothing off, every
  delivery ends.
* **Notifications and pages.** Lists, messages, answers and re-renderings that cross
  while the cookie changes. What is shown is true, one's own acts included, and acts
  happen where they were seen to.

`PROJECT.json` lists every hazard at its line with the properties that cover it.

## 2. The modules

```
Allowance            what the credit quota promises
  ^ implemented by   QuotaLedger     each operation one atomic step
     ^ implemented by   QuotaTx         its transactions, statement by statement
     ^ composed into    StripeSync    = QuotaLedger + JobQueue + subscriptions
JobQueue             BullMQ as the code relies on it
  ^ composed into    Provisioning  = JobQueue + handler + services + aggregator
  ^ composed into    Workers       = JobQueue + process + dispatcher + digest
ConsolePages         the tables of pages, actions and forms
  ^ run by           Console         tabs, cookie, memberships, Aquila
Onboarding, Members, Notifications   on their own
```

`M_proofs` holds the theorems about module `M`, `MCM` its instances for TLC. Two
proof modules hold those of two modules: `QuotaTx_proofs` begins with `QuotaLedger`,
on which its own rest, and `Workers_proofs` ends with `Notifications`, which shares no
variable with it.

### Allowance, QuotaLedger, QuotaTx

`Allowance` knows accounts (none, unlimited, or so much left) and receipts; it is
written without rows, flags or keys and says what a charge, a refill and a raise may do.
`QuotaLedger` implements it: `quota` is `workspace_quotas` by workspace (`NoRow` when
absent), `usage` the rows of `usage_events`, `now` the clock that stamps `created_at`;
an account is what `AccountOf` makes of a row. `Charge`, `Refuse` and the missing row
are the outcomes of `consumeCredits` (quota.ts:39-132), `Seed` is `seedWorkspaceQuota`,
`GrantCredits` the admin's `credits_granted + extra`. `IntMax` stands for the range of
`INT` (7 or 8 in the runs, so that its end is reached), and the type invariants say that
a row stays within it. Two histories: `settled` (events charged before the last seed)
and `boosted` (workspaces topped up while unlimited; see the disagreement below).

`QuotaTx` has the same tables as they are committed, and for every session in
`Procs` its program counter, request, private row and answer, and the row locks. One
action per statement: `SELECT ... FOR UPDATE` (waits for the lock, then reads), the
insert (waits while another open transaction has the same index entry, fails if a
committed one has it), the update, `COMMIT`; the upsert of a seed and the `UPDATE` of
a top-up likewise. `Abort` cuts a session off anywhere; a commit may lose its reply,
which the caller sees as `"error"`. Its refinement mapping is the identity.

### JobQueue

One attempt per job (the code never passes `attempts`), an id that is a no-op to
add while a record of it is kept (`Add`), completed and failed lists that evict
their oldest, and a lock that can expire while the handler runs on (`Stall`): the
job is handed out again, at most `MaxStalled` times, and the old slot's report is
rejected. `Crash` is the end of a slot, `CrashAll` of a process. Everything in it is
external, modelled from how `queues.ts` and the workers use it.

### StripeSync

`sub` is the subscriptions table, `body` what each event id stands for. `Post` is the
route: it adds the event and answers 200. `Upsert`, `Cancel`, `PastDue` and `Skip` are
the branches of the handler (stripe-worker.ts:28-164), each a single transaction on top
of `QuotaLedger`'s operations (which is what `QuotaTx` justifies), after which the
handler returns, or throws when the reply to its commit is lost; `FailHandler` is one
that is rolled back. `Consume` and `Grant` go on at the same time. `runs`, `lapses`,
`posts` and `topup` are histories.

### Provisioning

`step[s]` is the next call of the handler slot `s` runs, `held[s]` the key it was
issued. `CheckCredentials`, `CreateOrg`, `IssueApiKey`, `StoreCredentials` and
`UpsertCustomer` are the calls; `FailCall` is any of the first four failing, with its
effect or without. `CreateWorkspace` and `EnqueueProvision` are apart because the code
commits first and enqueues after; `LoseProvision` is what may happen in between.
`DemoCheck` and `DemoEnqueue` are the demo's own check-then-add; `TickStarts` and
`Visit` the aggregator.

### Onboarding

`row` is `inflight_bootstrap`, with its two timestamps reduced to whether the row is
inside the rate-limit window and not expired; `page` is where each start page is. The
bootstrap route is `CountRecent`, `InsertSession`, `StartRun`, `AnswerBootstrap`, one
action per statement or remote call; a poll is `PollRead` and then `PollEnded` or
`PollAgain`. Aquila's run for a session is in `aq`; one that is `"empty"` has succeeded
without a result, which no poll takes for an end. The claim is `ClaimRead` (or
`ClaimAgain`), `CommitWorkspace`, `EnqueueProvision`, `MarkClaimed`,
`SwitchToWorkspace`, with the retry under another slug in `CreateFails`. `SubmitForm`
sends the create form down the same path. The other way into a workspace is
`PickWorkspace`: the list at `/workspaces`, where a failed claim ends as well, and `POST
/api/workspace/switch` behind its buttons. Any request may die between two steps. `born`
and `picked` (users whose cookie is one they picked) are histories.

### Members

`member` is `workspace_members` of one workspace, `cookie` the token of each browser,
which may be signed in as anybody, in hours. Eight routes sign it:

| Action | Route | What it looks at |
|---|---|---|
| `SwitchWorkspace` | `api/workspace/switch` | an enabled row |
| `LandInWorkspace` | the claim, through `switchToWorkspace`; the SSO callback | an enabled row |
| `Impersonate` | `admin/impersonate` | an enabled row; two hours |
| `DemoLogin` | the demo sign-in, `dev/login` | any row of any address, made if there is none |
| `DevLogin` | `api/dev/login` | the first row there is |
| `AdminEnters` | `admin/_actions.ts` | none: a super-admin is "owner" |

`by` in a token is the last column. `page` is an open members page with the rows that
had controls when it was rendered, which is all `removeMember` and `changeMemberRole`
check. `held` and `stood` are the histories that bound staleness: hours since a user's
row last named each role, while enabled and at all. `acceptInvite` and
`transferOwnership` have no caller in the repository; they are modelled as exported.
The demo and dev routes are there when `DemoOn`.

### Workers

`proc`, `up` and `closing` are the process of `index.ts`; a slot takes jobs while its
worker is listening. The dispatcher's handler is `ReadEndpoint`, `PostToEndpoint`,
`Record`; the digest's is `ListWorkspaces`, `MailWorkspace` for each, `DigestDone`.
`ExitDone`, `ExitForced` and `ExitKilled` end the process and, through `CrashAll`,
leave its active jobs to the stalled check. Two workers stand for the six that
`index.ts` starts: one whose runs may hang and one closed after it. `enqueued` is the
history of all jobs ever added: a finished tick is forgotten after ten others
(`removeOnComplete: 10`, digest-worker.ts:180), but the mails it sent have been sent.

### Notifications

`posted`, `acked`, `changes` are Aquila's webhook. A run of a change's job turns its
subscriptions into tasks that go on at once (`InsertInApp`, `Publish`; `Send`, whose
reply may be lost, so that what was taken is recorded failed, `RecordOutcome`; `GiveUp`
for whatever `allSettled` hides). `tab` is one inbox: `ReadList` is the server's read
(the newest of the user's rows, `NewestFirst`) and `ListArrives` its answer, `pipe` the
messages on the stream in between; `MarkRead` and `MarkAllRead` change the tab first and
send `patches` after. Slack shares the actions of e-mail.

### ConsolePages and Console

`ConsolePages` is a table with no state: for every page of a workspace what it reads,
what it cannot do without, which forms it has and which lists a component keeps to
itself; for every server action, called by a page or only exported, how it finds its
workspace (the URL's slug and a row of the user, the cookie, or what the page was
rendered with), what it writes, when it has the page rendered again and whether it looks
at what Aquila said; for every form what it does with the answer. Layout, filters,
charts and texts are left out. `Console` runs the table: one tab, one action in flight
(`Submit`, `Resolve`, `Send`, `Answer`), the cookie switched or expired elsewhere,
memberships coming and going, calls done, refused, or done with the answer lost. `token`
is `tokenCache` of `lib/aquila-server.ts` with the life it believes and the one it has;
that a call takes at most half of the 60-second buffer is assumed of Aquila
(`TimelyAssumption`), since `fetch` is given no timeout.

## 3. The runs

| Run | Configuration | What it shows |
|---|---|---|
| `tx` | `QuotaTx.cfg` | two sessions on one workspace: `QuotaTx` implements `QuotaLedger` (`QuotaSpec`), which implements `Allowance` (`BudgetSpec`); answers are true; no overspending, no late flags, counter and events agree, unseeded workspaces are never charged |
| `tx_two_workspaces` | `QuotaTxLive.cfg` | sessions on two workspaces that meet only in an index entry; under fairness every transaction ends |
| `stripe` | `StripeSync.cfg` | two events of five kinds, delivered twice, two slots, retention of one job: `QuotaFollowsSubscription`, `RunsBounded`, `CompletedMeansRan` |
| `stripe_two_workspaces` | `StripeSyncLive.cfg` | skipped events, a subscription id that turns up for another workspace; under fairness every event settles |
| `provisioning` | `Provisioning.cfg` | the creation's and the demo's job of one workspace on two slots: `CredentialsWork`, `CompletedMeansProvisioned`, `CredentialsStable` |
| `provisioning_liveness` | `ProvisioningLive.cfg` | under fairness, `MeteringHeals` and `ProvisionSettles` |
| `onboarding` | `Onboarding.cfg` | two pages behind one address with a limit of one, one user's two requests for two workspaces: `RateLimitHolds`, `LandsInOwnWorkspace`, `ReadyMeansEnded`; under fairness `WaitingPageLearns` |
| `members` | `Members.cfg` | two users, both super-admins, who sign in by turns in one browser, the demo and dev sign-ins on, tokens of two hours and one: `RoleStaleAtMost` |
| `console` | `Console.cfg` | all pages and forms in two workspaces: `OwnActsShown`, `WritesWhereShown`, `TokenLive` |
| `workers` | `Workers.cfg` | a delivery and a digest under three boots: `FailuresWitnessed`, `MailsBounded`, `ExitCleanly`; under fairness `DeliveriesSettle` |
| `notifications` | `Notifications.cfg` | a change told in the app twice, one delivered twice and told by mail, a tab of either workspace: `InboxTrue`, `RecordsTruthful` |
| `enterprise` | `EnterpriseNeverBlocked.cfg` | expected to fail: the disagreement below |

Each passing run also checks its module's type invariant, where it has one to say
something of. Every property has a mutant, an operator marked "Fault" before the
definition it replaces, that makes the property fail in the same run.

Why the bounds are enough. The transactions of the quota meet in pairs, in one row or in
one index entry: two sessions and two workspaces give every pair in every order. The
limit 5 with costs 2 and 3 is hit exactly, exceeded and approached through the soft
limit of 4. An event can be evicted only by another, so two events with a retention of
one show eviction (100 and 500 in the code), and with two slots a handler whose lock
expired races its successor. One workspace with two provision jobs is where that handler
races itself. Two start pages race in count and insert with a limit of one; two requests
are two tabs on one link, or a link and a form. A role is stale by at most the token's
life: two hours tell the order of every signature, change and tick, and one browser is
enough, since what others do reaches its token only through the rows and the open page
(the theorem is about any number of them). The dispatcher has two slots, so that a rerun after a stall overlaps
the run it replaces, while the digest has one, as a repeatable job does; its completed
tick is forgotten at once (`MCKeep`), which ten later ticks would bring about. A list of
two notifications overflows with three messages. In the console one tab and one call at
a time are what a user sees; other tabs and requests act through the cookie, the
memberships and the token cache. `MaxPosts` bounds deliveries, `MaxTime` the clock,
`MaxBoots` restarts, `Runs` reruns, `Offered` the roles chosen on a page, `Long` (no
token gets older) the hours the histories of `Members` count; `MaxStalled = 1` is
BullMQ's default. Models that stop when these are used up are checked without deadlock
detection; `tx`, `tx_two_workspaces`, `members`, `console` and `notifications` with it.
The two users of `members` are alike in every constant, so TLC takes states that differ
in their names for one (`Alike`); only invariants are checked there.

### Fairness

`TxFairSpec`: Postgres runs the next statement of an open transaction (weak), and
queues those who wait for a row or for another's insert, so that whoever keeps waiting
is served (strong). `SyncFairSpec` and `ProvFairSpec`: workers poll (`autorun`), calls
end one way or the other, outcomes are reported, and BullMQ's stalled check finds the
jobs of dead workers (weak; of `Stall` only the orphaned jobs, since a live worker
renews its lock). The aggregator's repeatable job ticks, and of the visits to a
workspace that Lago does not know, not all fail (strong). `OnbFairSpec`: a waiting page
polls every three seconds (weak), not every poll of an ended run fails (strong), and
Aquila's runs end. `WorkFairSpec`: Docker restarts the container
(`restart: unless-stopped`), boots go on, the hard-kill timer fires, the dispatcher's
call has a timeout of ten seconds, and a slot that may take a job again and again takes
it (strong). Of a digest nothing is assumed: Resend is called without a timeout, so a
run, and a drain behind it, may hang until the hard kill. Nobody is obliged to post,
call, crash, or deliver.

### Disagreements between the code and what it says of itself

One is a run that TLC must find violated: `enterprise`. "Unlimited, never blocked"
(quota.ts:7), but a top-up turns -1 into a finite grant.

The models show others, or met them, which no run repeats:

* The unique index is on `(idempotency_key, created_at)` (0007_usage.sql:24), so a
  key used again later is charged again; the schema declares the key alone unique
  (schemas/usage.ts:38). `Collides` has the index as it is.
* "Idempotent — safe to call from webhook retries" (quota.ts:136), but a second seed
  of the same event erases what was charged in between. `RunsBounded` says how often.
* Migration 0017 seeds a quota for every subscription and says the Stripe worker does
  so from then on; a trial never has a Stripe event, and no quota.
* "The provisioner worker is idempotent so duplicate enqueues are safe"
  (sign-in/_actions.ts:66-67): what is stored is safe (`CredentialsStable`), but two
  runs are issued two keys, one of which nobody stores.
* A claimed session can become `ready` again by a poll that was asking Aquila meanwhile
  (status/route.ts:50-54), and is then claimed a second time. The claim never looks at
  `expiresAt`, and nothing writes `expired`. The claim's retry after a failed `Queue.add`
  makes a second workspace and leaves the first (claim/route.ts:112-116), on the list at
  `/workspaces`: who picks it has a workspace without credentials. A run that succeeds
  without a result is neither an end nor a failure to the poll (status/route.ts:50-65),
  and the page goes on asking.
* "Auto-polling below picks up the updated row" (toques/_form.tsx:85), but the poll takes
  only rows without flags (:92), so a re-extraction of a row that has them is not shown.
  Touching a reference moves it in the list the component keeps, while the counts of the
  most used ones beside it are those of the rendering (references/_client.tsx:85-102).
* "Cannot remove the workspace owner — transfer ownership first" (members.ts:188), but
  `removeMember` compares the role the page was rendered with: in `Members`, a member
  who becomes the owner after that (by `transferOwnership`, which no page of the
  repository calls yet, or by a super-admin's entry after his row is gone) is removed,
  and `changeMemberRole` demotes him likewise.
* `index.ts` registers its signal handlers after all workers run, so a signal during
  boot kills active jobs; the container's `stop_grace_period` of 60 s outlasts
  `SHUTDOWN_TIMEOUT_MS` of 15 s, which is what decides. It starts no worker for the
  notifications queue, and nothing adds jobs to that queue or to webhook dispatch.
* `lib/research.ts` uses one key for all workspaces. A service token is
  not dropped from the cache on a 401. The workspaces of the settings pages, and the
  name in the header, are the cookie's, whatever the URL says. The actions of the
  settings never have their page rendered again (`Unrefreshed`, with what is asked of OMI
  and the re-extraction), and three deletions are shown as done whatever Aquila said
  (`Optimistic`).

## 4. What is proved

For every value of the constants that meets the `ASSUME`s (credits are -1 or at least 2,
costs are natural, extras positive, `NoRow` and the like are none of the values
they stand beside, slots are finite, a process has workers). TLC evaluates the
assumptions in every run. Every invariant that a run checks is a theorem here.

* **QuotaTx_proofs, the ledger.** `LedgerTypes`, `NeverOverspent`, `FlagsAreNeverLate`,
  `NeverChargedUnseeded`. The flags need one fact beyond themselves: a fresh row is
  below its soft limit, which is why plans grant at least 2. `LedgerKeepsBudget`: the
  ledger implements `Allowance`, one lemma per operation on what it does to the
  account of its row; refusals and the clock are stutters. `CounterIsLedger`
  (`LedgerMatches`): the counter is the sum of the events charged since the last seed.
  What a charge does to that sum needs an induction over the set of events, which the
  library's theorems cannot be instantiated for; the induction is carried out by hand
  instead, as a least counterexample (`LeastNat`, `LeastSet`): of the sets for which
  a sum were wrong one would have the fewest elements, and taking one out of it
  leaves a smaller one.
* **QuotaTx_proofs, the transactions.** The inductive invariant is
  `TxTypeOK /\ LockHeld /\ SnapshotFresh /\ WriteSound /\ EventsFresh`. `LockHeld`
  alone is inductive, but to know that a commit is a step of the ledger one has to know
  that the private row is the atomic operation's result on the row committed *now*
  (`WriteSound`), which holds because nobody else can have committed to a row
  whose lock is held; and that the event inserted is still fresh (`EventsFresh`), which is
  the index's doing. From it: `TxTypes`, `TxImplementsLedger` (`TxSpec => QuotaSpec`),
  hence `TxNeverOverspends`, with the counter, and, two levels up, `TxKeepsBudget`;
  and `AnswersAreTrue`.
* **JobQueue_proofs.** Lemmas for its users: every operation keeps the queue well typed;
  only `Add` creates a job; and `Consistent` is kept: only an active job has an owner, and
  the completed and the failed list hold jobs that ended that way, each once, so that an
  eviction forgets no job that is waiting or active.
* **StripeSync_proofs.** `SyncTypes`; `SyncImplementsLedger` (so `NoOverspend` and the
  rest carry over); `QuotaIsInStep` (`QuotaFollowsSubscription` with the types is
  inductive); `CompletedEventsRan`, strengthened by "a slot that returned has been
  counted"; and `EventsRunOnce` (`RunsBounded`), by a potential: the runs an event has
  had, plus those under way, plus one if it is due, never exceed one plus the times its
  record lapsed.
* **Provisioning_proofs.** `ProvInv` adds to the properties what a handler relies on
  between two calls (`HandlersSound`: after `createOrg` the org exists, the held key is
  the org's, before Lago's call there are credentials), and that queued jobs belong
  to committed workspaces. From it `ProvTypes`, `StoredCredentialsWork`,
  `CompletedProvisions` and, with "nothing issued or stored is taken back",
  `CredentialsAreStable`.
* **Members_proofs.** `MemTypes`, `RolesAreFresh`. `RoleStaleAtMost` is inductive only
  with `NamedNow` (what a row names now it was last found to name now, in both
  histories): it makes a token that is signed from a row start fresh
  (`StaleIsFresh`), whichever of the eight routes signs it. From then on the token's
  clock and the history's run at the same speed, and a token is gone before the history
  stops counting (`StillFresh`). Demo and dev tokens are held against any row, since
  these routes look at any; only a super-admin's signed "owner" against none.
* **Onboarding_proofs.** `OnbTypes`, `RateLimited`, `EveryoneLands`, `ReadyIsTrue`.
  `PagesOK`: a session belongs to one page, and nobody has polled or mailed it before
  its bootstrap has answered, so the run that is started is its first. `RequestsOK`:
  what a request has committed is its user's and its session's, and queued before it
  marks or switches. The rate limit is a potential: recent sessions plus counted
  requests; a count adds one when there is room, an insert turns one into the other.
* **Console_proofs.** `ConsoleTypes`, `ActsWhereShown`, `TokensLive`. A token's real life
  and the believed one differ by no more than the latency of its issue (`Believed`),
  also after any time; so what is used beyond the buffer lives for another latency.
  `Shown`: a page by slug, and a call from it, carry the URL's workspace. Of the
  tables of `ConsolePages` these use only that a research run's page goes by the cookie.
  `ActsAreShown` (`OwnActsShown`) is about the tables: `PagesHonest` says of every form
  of every page and of each thing its act changes that the page does not read it, renders
  it again and no component keeps it to itself, puts it into the list that one keeps,
  leads away, or is one of the exceptions the property names; an act is shown when all it
  changed is. With `Heard` (the call in flight is of the
  page that is open) every answer then leaves the page showing what was done.
* **Workers_proofs, the process.** `WorkTypes`; `CountsAreWitnessed`: what a run has read
  of an endpoint never exceeds the failures recorded for it (`SeenWitnessed`), which only
  grow, so writing back a stale count is covered by the record written with it.
  `CleanExitsAreDrained`: `Drained` says that the workers a draining process is through
  with have only idle slots and take nothing, so when the last has closed nobody runs.
  `DigestsAreBounded`: `RunsCover` gives every mail a run of its own. A run may still
  mail a workspace that is on its list (`Pending`), and the runs a tick has been given
  are one and one for each of its stalls, perhaps all of them once its record is gone
  (`Spent`).
* **Workers_proofs, the notifications.** `NotificationTypes`, `InboxIsTrue`,
  `RecordsAreTruthful`. Three invariants, which meet at the rows: the webhook's
  (`HookInv`), the dispatcher's (`DispatchInv`: a task's stage says what has been
  inserted and what the service took), and the tab's (`TabInv`: what is listed, on its
  way or shown has a delivered row, and the badge is at least the unread items, which
  the optimistic marking, a second arrival and the cut at the limit all keep).

The proof changed one property. `MailsBounded` counted the ticks on record, which is
false once a finished tick is evicted: it now counts those ever enqueued, and the run
evicts one. Nothing is assumed of the number of ticks: that those enqueued so far are
finitely many is part of what is proved.

Only model-checked: the liveness properties (`TransactionsEnd`, `EventsSettle`,
`MeteringHeals`, `ProvisionSettles`, `WaitingPageLearns`, `DeliveriesSettle`), since
fairness and `ENABLED` are outside what the prover handles.

## 5. What is abstracted, and what is left out

* Signatures, encryption, wording, logging and metrics; partitions and row-level
  security of the tables; the fields of rows no property reads; the layout, filters,
  charts and local input state of pages.
* A Stripe event's content is fixed by its id; Stripe's own subscription state is not
  an actor, so "the row equals Stripe's latest" is not stated. The code compares no
  timestamps and says nothing about order.
* Redis does not lose jobs and Postgres does not lose commits. Redis messages to a
  stream that is not connected are lost, as they are.
* Rows of plan changes, suspension and flags: the admin pages' actions are in
  `ConsolePages`, what they write is a name there.
* The race of two checkouts for a customer id, and the billing status that the
  middleware caches for 60 seconds: nothing the repository states can be held against
  them (see the hazards).
* The SSO round trip, which is WorkOS's protocol and ends in the same cookie as a
  switch; better-auth, from whose session the models start.
* The public API (`apps/api`), emails, telemetry, shared types and the UI kit keep no
  state. The default worker's handlers keep none either.

## 6. Plan

Every stateful part of the system has its module, and every safety property its
theorem. What remains is proof that says more than the runs do: for `StripeSync` the
composition with `QuotaTx` in place of `QuotaLedger`, and an abstract specification of
what a queue promises its handlers, implemented by `JobQueue` and by the three modules
that compose it.
