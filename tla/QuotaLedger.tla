---------------------------- MODULE QuotaLedger ----------------------------
(***************************************************************************)
(* The credit ledger of apps/workers/src/quota.ts: one workspace_quotas    *)
(* row per workspace and the append-only usage_events table.  Every        *)
(* operation is a single atomic step here; module QuotaTx splits them into *)
(* the statements of their database transactions and implements this one.  *)
(***************************************************************************)
EXTENDS Integers, FiniteSetsExt

CONSTANTS
  Workspaces,   \* workspace ids
  Plans,        \* plan slugs of PLANS (packages/billing/src/index.ts)
  Credits,      \* monthlyCredits of each plan, -1 meaning unlimited
  Periods,      \* billing periods, named by their start
  Costs,        \* credit costs a caller may ask for
  Extras,       \* amounts an admin may add with "grant credits"
  Keys,         \* idempotency keys
  IntMax,       \* largest value of a Postgres INT column
  MaxTime,      \* bound: last instant of the clock
  NoRow         \* no workspace_quotas row

\* Every plan the code ships grants -1 or at least 500 credits; two are
\* enough for a fresh row to start below its soft limit.
ASSUME CreditsAssumption ==
  Credits \in [Plans -> {-1} \union {n \in Nat : 2 <= n /\ n <= IntMax}]
ASSUME AmountsAssumption ==
  /\ Costs \subseteq Nat
  /\ Extras \subseteq Nat \ {0}
ASSUME BoundsAssumption == IntMax \in Nat /\ MaxTime \in Nat

\* Both counters are INT columns; -1 is the only negative grant ever written.
QuotaRow == [period : Periods, granted : -1..IntMax, consumed : 0..IntMax,
             soft : BOOLEAN, hard : BOOLEAN]

ASSUME NoRowAssumption == NoRow \notin QuotaRow

UsageEvent == [ws : Workspaces, key : Keys, cost : Costs, at : 0..MaxTime]

VARIABLES
  quota,        \* workspace_quotas, by workspace
  usage,        \* usage_events: the rows ever inserted
  now,          \* the database clock, stamped on new rows as created_at
  settled,      \* history: rows already there when their workspace was last seeded
  boosted       \* history: workspaces granted credits while unlimited, until reseeded

quotaVars == <<quota, usage, now, settled, boosted>>

---------------------------------------------------------------------------
(* Arithmetic of consumeCredits.                                           *)

Unlimited(row) == row.granted < 0

\* Math.floor(creditsGranted * SOFT_LIMIT_RATIO) with the ratio 0.8
SoftLimit(granted) == (4 * granted) \div 5

\* Fault: the limit is compared with what was consumed before this charge.
FitsLate(row, cost) == Unlimited(row) \/ row.consumed <= row.granted

Fits(row, cost) == Unlimited(row) \/ row.consumed + cost <= row.granted

\* Fault: the soft flag is computed from the consumption before this charge.
ReachesSoftLate(row, cost) ==
  ~Unlimited(row) /\ row.consumed >= SoftLimit(row.granted)

ReachesSoft(row, cost) ==
  ~Unlimited(row) /\ row.consumed + cost >= SoftLimit(row.granted)

ChargedRow(row, cost) ==
  [row EXCEPT !.consumed = @ + cost, !.soft = ReachesSoft(row, cost), !.hard = FALSE]

RefusedRow(row) == [row EXCEPT !.soft = TRUE, !.hard = TRUE]

SeededRow(plan, period) ==
  [period |-> period, granted |-> Credits[plan], consumed |-> 0,
   soft |-> FALSE, hard |-> FALSE]

\* The unique index is on (idempotency_key, created_at): the table is
\* partitioned by created_at, which must then be part of every unique key.
Collides(key, at) == \E u \in usage : u.key = key /\ u.at = at

RowsOf(w) == {u \in usage : u.ws = w}

---------------------------------------------------------------------------
QuotaInit ==
  /\ quota = [w \in Workspaces |-> NoRow]
  /\ usage = {}
  /\ now = 0
  /\ settled = {}
  /\ boosted = {}

\* consumeCredits, a charge that fits: the event row and the counter together.
\* created_at is the start of the transaction, hence at or before now.
Charge(w, cost, key, at) ==
  /\ quota[w] # NoRow
  /\ Fits(quota[w], cost)
  /\ at <= now
  /\ ~Collides(key, at)
  /\ quota[w].consumed + cost <= IntMax
  /\ usage' = usage \union {[ws |-> w, key |-> key, cost |-> cost, at |-> at]}
  /\ quota' = [quota EXCEPT ![w] = ChargedRow(@, cost)]
  /\ UNCHANGED <<now, settled, boosted>>

\* consumeCredits, a charge beyond the hard limit: only the flags are written.
Refuse(w, cost) ==
  /\ quota[w] # NoRow
  /\ ~Fits(quota[w], cost)
  /\ quota' = [quota EXCEPT ![w] = RefusedRow(@)]
  /\ UNCHANGED <<usage, now, settled, boosted>>

\* seedWorkspaceQuota: insert the row or overwrite all of it.
Seed(w, plan, period) ==
  /\ quota' = [quota EXCEPT ![w] = SeededRow(plan, period)]
  /\ settled' = settled \union RowsOf(w)
  /\ boosted' = boosted \ {w}
  /\ UNCHANGED <<usage, now>>

\* grantCreditsAction of the ops page: credits_granted = credits_granted + extra.
GrantCredits(w, extra) ==
  /\ quota[w] # NoRow
  /\ quota[w].granted + extra <= IntMax
  /\ quota' = [quota EXCEPT ![w].granted = @ + extra]
  /\ boosted' = IF Unlimited(quota[w]) THEN boosted \union {w} ELSE boosted
  /\ UNCHANGED <<usage, now, settled>>

Tick ==
  /\ now < MaxTime
  /\ now' = now + 1
  /\ UNCHANGED <<quota, usage, settled, boosted>>

ConsumeCredits ==
  \E w \in Workspaces, cost \in Costs :
    \/ \E key \in Keys, at \in 0..MaxTime : Charge(w, cost, key, at)
    \/ Refuse(w, cost)

QuotaNext ==
  \/ ConsumeCredits
  \/ \E w \in Workspaces, plan \in Plans, period \in Periods : Seed(w, plan, period)
  \/ \E w \in Workspaces, extra \in Extras : GrantCredits(w, extra)
  \/ Tick

QuotaSpec == QuotaInit /\ [][QuotaNext]_quotaVars

---------------------------------------------------------------------------
(* The abstract specification this one implements: a row is an account, and *)
(* an event the receipt of what it cost.                                    *)

AccountOf(row) ==
  IF row = NoRow THEN [kind |-> "none", left |-> 0]
  ELSE IF Unlimited(row) THEN [kind |-> "unlimited", left |-> 0]
  ELSE [kind |-> "limited", left |-> row.granted - row.consumed]

Budget == INSTANCE Allowance WITH
  account <- [w \in Workspaces |-> AccountOf(quota[w])],
  receipts <- usage,
  Refills <- {AccountOf(SeededRow(plan, period)) : plan \in Plans, period \in Periods}

---------------------------------------------------------------------------
(* Properties.                                                             *)

\* Types of the tables and of the two history sets.  A stored row stays in the
\* range of its INT columns, whatever charges and top-ups were asked for.
QuotaTypeOK ==
  /\ quota \in [Workspaces -> QuotaRow \union {NoRow}]
  /\ usage \subseteq UsageEvent
  /\ now \in 0..MaxTime
  /\ settled \subseteq usage
  /\ boosted \subseteq Workspaces

\* consumeCredits never lets a limited workspace spend beyond its grant,
\* whatever mix of charges, refusals, reseeds and admin grants came before.
\* A row that was topped up while unlimited is exempt until reseeded: the
\* top-up makes it limited with a consumption nobody limited (see README).
NoOverspend ==
  \A w \in Workspaces :
    quota[w] # NoRow /\ ~Unlimited(quota[w]) /\ w \notin boosted
      => quota[w].consumed <= quota[w].granted

\* The stored warning flags never understate consumption: a row without the
\* soft flag is below 80 percent, and a row blocked at the hard limit also
\* shows the soft one (quota.ts:66-86, 113-121, 154-177).
FlagsNeverLate ==
  \A w \in Workspaces :
    quota[w] # NoRow /\ w \notin boosted =>
      /\ quota[w].hard => quota[w].soft
      /\ ~quota[w].soft /\ ~Unlimited(quota[w])
           => quota[w].consumed < SoftLimit(quota[w].granted)

\* The counter and the ledger agree: credits_consumed is the total cost of
\* the workspace's usage_events since its row was last seeded (quota.ts:4).
LedgerMatches ==
  \A w \in Workspaces :
    quota[w] # NoRow =>
      quota[w].consumed = MapThenSumSet(LAMBDA u : u.cost, RowsOf(w) \ settled)

\* Missing quota row => fail closed: a workspace that was never seeded has
\* never been charged (quota.ts:5).
FailClosed ==
  \A w \in Workspaces : quota[w] = NoRow => RowsOf(w) = {}

\* The ledger keeps Allowance's promise: credits leave an account only with a
\* usage event, in full, in the same step, once, and never more than are left,
\* whatever the order of charges, refusals, reseeds and top-ups
\* (quota.ts:39-132, 154-177).
BudgetSpec == Budget!AllowanceSpec
=============================================================================
