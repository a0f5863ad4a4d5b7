------------------------------ MODULE QuotaTx ------------------------------
(***************************************************************************)
(* The database transactions behind QuotaLedger, statement by statement:   *)
(* consumeCredits and seedWorkspaceQuota (apps/workers/src/quota.ts) and   *)
(* the admin's grantCreditsAction, run by concurrent sessions against      *)
(* Postgres at READ COMMITTED.  The variables of QuotaLedger hold what is  *)
(* committed; a transaction keeps its own writes apart until it commits,   *)
(* and may be cut off at any statement.                                    *)
(***************************************************************************)
EXTENDS QuotaLedger

CONSTANTS
  Procs,        \* sessions: callers of consumeCredits, worker jobs, admins
  NoProc        \* a row nobody has locked

ASSUME NoProcAssumption == NoProc \notin Procs

VARIABLES
  pc,           \* where each session is in its transaction
  req,          \* what it was asked to do; kept after the answer
  row,          \* the quota row it read, then the row it is about to commit
  lock,         \* the session holding each workspace's row lock
  answer        \* what its last call returned

txVars == <<pc, req, row, lock, answer>>
vars == <<quotaVars, txVars>>

ConsumeReq == [op : {"consume"}, ws : Workspaces, cost : Costs, key : Keys, at : 0..MaxTime]
SeedReq    == [op : {"seed"}, ws : Workspaces, plan : Plans, period : Periods]
GrantReq   == [op : {"grant"}, ws : Workspaces, extra : Extras]
Request    == ConsumeReq \union SeedReq \union GrantReq

Holding == {"locked", "inserted", "charged", "refused", "seeded", "granted"}
Answers == {"none", "ok", "no_quota_row", "hard_limit_reached", "duplicate_event", "error"}

\* The usage_events row a consume request inserts.
EventOf(r) == [ws |-> r.ws, key |-> r.key, cost |-> r.cost, at |-> r.at]

\* Inserted but not yet committed: a second insert of the same index entry waits.
Pending(key, at) ==
  \E p \in Procs :
    /\ pc[p] \in {"inserted", "charged"}
    /\ req[p].key = key
    /\ req[p].at = at

---------------------------------------------------------------------------
TxInit ==
  /\ QuotaInit
  /\ pc = [p \in Procs |-> "idle"]
  /\ req \in [Procs -> GrantReq]
  /\ row = [p \in Procs |-> NoRow]
  /\ lock = [w \in Workspaces |-> NoProc]
  /\ answer = [p \in Procs |-> "none"]

\* BEGIN.  A consume request's event will be stamped with this instant.
Begin(p) ==
  /\ pc[p] = "idle"
  /\ \E r \in Request :
       /\ r.op = "consume" => r.at = now
       /\ req' = [req EXCEPT ![p] = r]
  /\ pc' = [pc EXCEPT ![p] = "begun"]
  /\ answer' = [answer EXCEPT ![p] = "none"]
  /\ UNCHANGED <<quotaVars, row, lock>>

\* Move inside the transaction: p's program counter and private row only.
Step(p, to, newRow) ==
  /\ pc' = [pc EXCEPT ![p] = to]
  /\ row' = [row EXCEPT ![p] = newRow]
  /\ UNCHANGED <<quotaVars, req, answer>>

\* The first statement that touches the row takes its lock.
TakeLock(p) ==
  /\ lock[req[p].ws] = NoProc
  /\ lock' = [lock EXCEPT ![req[p].ws] = p]

\* Fault: a transaction that did not answer ok keeps its lock.
FinishLocked(p, a) ==
  /\ pc' = [pc EXCEPT ![p] = "idle"]
  /\ row' = [row EXCEPT ![p] = NoRow]
  /\ lock' = [w \in Workspaces |-> IF lock[w] = p /\ a = "ok" THEN NoProc ELSE lock[w]]
  /\ answer' = [answer EXCEPT ![p] = a]
  /\ UNCHANGED req

\* The transaction is over: its lock is released and the caller has an answer.
\* Resetting the private row keeps finished sessions alike.
Finish(p, a) ==
  /\ pc' = [pc EXCEPT ![p] = "idle"]
  /\ row' = [row EXCEPT ![p] = NoRow]
  /\ lock' = [w \in Workspaces |-> IF lock[w] = p THEN NoProc ELSE lock[w]]
  /\ answer' = [answer EXCEPT ![p] = a]
  /\ UNCHANGED req

---------------------------------------------------------------------------
(* consumeCredits                                                          *)

\* Fault: a plain SELECT, without FOR UPDATE.
SelectUnlocked(p) ==
  /\ pc[p] = "begun"
  /\ req[p].op = "consume"
  /\ quota[req[p].ws] # NoRow
  /\ Step(p, "locked", quota[req[p].ws])
  /\ UNCHANGED lock

\* SELECT ... FOR UPDATE: waits for the lock, then reads the committed row.
SelectForUpdate(p) ==
  /\ pc[p] = "begun"
  /\ req[p].op = "consume"
  /\ quota[req[p].ws] # NoRow
  /\ TakeLock(p)
  /\ Step(p, "locked", quota[req[p].ws])

\* Fault: without a row the event is recorded and the charge let through.
NoQuotaRowOpen(p) ==
  /\ pc[p] = "begun"
  /\ req[p].op = "consume"
  /\ quota[req[p].ws] = NoRow
  /\ usage' = usage \union {EventOf(req[p])}
  /\ Finish(p, "ok")
  /\ UNCHANGED <<quota, now, settled, boosted>>

\* The SELECT finds no committed row: nothing is locked, nothing written.
NoQuotaRow(p) ==
  /\ pc[p] = "begun"
  /\ req[p].op = "consume"
  /\ quota[req[p].ws] = NoRow
  /\ Finish(p, "no_quota_row")
  /\ UNCHANGED quotaVars

MarkRefused(p) ==
  /\ pc[p] = "locked"
  /\ ~Fits(row[p], req[p].cost)
  /\ Step(p, "refused", RefusedRow(row[p]))
  /\ UNCHANGED lock

InsertEvent(p) ==
  /\ pc[p] = "locked"
  /\ Fits(row[p], req[p].cost)
  /\ ~Collides(req[p].key, req[p].at)
  /\ ~Pending(req[p].key, req[p].at)
  /\ Step(p, "inserted", row[p])
  /\ UNCHANGED lock

\* Error 23505 aborts the Postgres transaction.  Whether the caller gets
\* duplicate_event or the error depends on how the driver reports it.
DuplicateEvent(p) ==
  /\ pc[p] = "locked"
  /\ Fits(row[p], req[p].cost)
  /\ Collides(req[p].key, req[p].at)
  /\ \E a \in {"duplicate_event", "error"} : Finish(p, a)
  /\ UNCHANGED quotaVars

\* Fault: the sum is written whether or not the INT column can hold it.
UpdateUnbounded(p) ==
  /\ pc[p] = "inserted"
  /\ Step(p, "charged", ChargedRow(row[p], req[p].cost))
  /\ UNCHANGED lock

UpdateConsumed(p) ==
  /\ pc[p] = "inserted"
  /\ row[p].consumed + req[p].cost <= IntMax
  /\ Step(p, "charged", ChargedRow(row[p], req[p].cost))
  /\ UNCHANGED lock

\* Fault: the failed UPDATE is swallowed and the charge reported as made.
OverflowIgnored(p) ==
  /\ pc[p] = "inserted"
  /\ row[p].consumed + req[p].cost > IntMax
  /\ Finish(p, "ok")
  /\ UNCHANGED quotaVars

\* credits_consumed would not fit its INT column: the UPDATE fails and takes
\* the inserted event with it.
Overflow(p) ==
  /\ pc[p] = "inserted"
  /\ row[p].consumed + req[p].cost > IntMax
  /\ Finish(p, "error")
  /\ UNCHANGED quotaVars

---------------------------------------------------------------------------
(* seedWorkspaceQuota and grantCreditsAction                               *)

UpsertQuota(p) ==
  /\ pc[p] = "begun"
  /\ req[p].op = "seed"
  /\ TakeLock(p)
  /\ Step(p, "seeded", SeededRow(req[p].plan, req[p].period))

\* UPDATE ... SET credits_granted = credits_granted + extra, where there is a row.
AddCredits(p) ==
  /\ pc[p] = "begun"
  /\ req[p].op = "grant"
  /\ quota[req[p].ws] # NoRow
  /\ quota[req[p].ws].granted + req[p].extra <= IntMax
  /\ TakeLock(p)
  /\ Step(p, "granted", [quota[req[p].ws] EXCEPT !.granted = @ + req[p].extra])

\* The UPDATE matches no row, or its sum overflows the INT column.
AddNothing(p) ==
  /\ pc[p] = "begun"
  /\ req[p].op = "grant"
  /\ \/ quota[req[p].ws] = NoRow
     \/ /\ quota[req[p].ws] # NoRow
        /\ lock[req[p].ws] = NoProc
        /\ quota[req[p].ws].granted + req[p].extra > IntMax
  /\ Finish(p, "error")
  /\ UNCHANGED quotaVars

---------------------------------------------------------------------------
(* The end of a transaction                                                *)

\* Fault: the event is inserted outside the transaction and lost.
CommitCounterOnly(p) ==
  /\ pc[p] = "charged"
  /\ quota' = [quota EXCEPT ![req[p].ws] = row[p]]
  /\ \E a \in {"ok", "error"} : Finish(p, a)
  /\ UNCHANGED <<usage, now, settled, boosted>>

\* COMMIT of a charge publishes the event and the row together.  The reply
\* may be lost even though the commit took place.
CommitCharge(p) ==
  /\ pc[p] = "charged"
  /\ quota' = [quota EXCEPT ![req[p].ws] = row[p]]
  /\ usage' = usage \union {EventOf(req[p])}
  /\ \E a \in {"ok", "error"} : Finish(p, a)
  /\ UNCHANGED <<now, settled, boosted>>

CommitRefusal(p) ==
  /\ pc[p] = "refused"
  /\ quota' = [quota EXCEPT ![req[p].ws] = row[p]]
  /\ \E a \in {"hard_limit_reached", "error"} : Finish(p, a)
  /\ UNCHANGED <<usage, now, settled, boosted>>

CommitSeed(p) ==
  /\ pc[p] = "seeded"
  /\ quota' = [quota EXCEPT ![req[p].ws] = row[p]]
  /\ settled' = settled \union RowsOf(req[p].ws)
  /\ boosted' = boosted \ {req[p].ws}
  /\ \E a \in {"ok", "error"} : Finish(p, a)
  /\ UNCHANGED <<usage, now>>

CommitGrant(p) ==
  /\ pc[p] = "granted"
  /\ quota' = [quota EXCEPT ![req[p].ws] = row[p]]
  /\ boosted' = IF Unlimited(quota[req[p].ws])
                THEN boosted \union {req[p].ws} ELSE boosted
  /\ \E a \in {"ok", "error"} : Finish(p, a)
  /\ UNCHANGED <<usage, now, settled>>

\* Cut off at any statement by a lost connection or a killed process: Postgres
\* rolls back and nothing of the transaction remains.
Abort(p) ==
  /\ pc[p] # "idle"
  /\ Finish(p, "error")
  /\ UNCHANGED quotaVars

Advance(p) ==
  \/ NoQuotaRow(p) \/ MarkRefused(p) \/ InsertEvent(p) \/ DuplicateEvent(p)
  \/ UpdateConsumed(p) \/ Overflow(p)
  \/ CommitCharge(p) \/ CommitRefusal(p) \/ CommitSeed(p) \/ CommitGrant(p)

Acquire(p) == SelectForUpdate(p) \/ UpsertQuota(p) \/ AddCredits(p) \/ AddNothing(p)

TxTick == Tick /\ UNCHANGED txVars

TxNext ==
  \/ \E p \in Procs : Begin(p) \/ Acquire(p) \/ Advance(p) \/ Abort(p)
  \/ TxTick

TxSpec == TxInit /\ [][TxNext]_vars

\* Postgres runs the next statement of an open transaction; it queues those who
\* wait for a row lock or for the outcome of another's insert, so one that keeps
\* waiting is served in its turn even while others keep coming.  Nobody is
\* obliged to call, or to be cut off.
TxFairSpec ==
  /\ TxSpec
  /\ \A p \in Procs :
       WF_vars(Advance(p)) /\ SF_vars(Acquire(p)) /\ SF_vars(InsertEvent(p))

---------------------------------------------------------------------------
(* Properties.                                                             *)

\* Types of the sessions' state, next to the tables' own: neither a committed
\* row nor one about to be committed leaves the range of its INT columns
\* (0008_quota_ledger.sql:7), for an unlimited workspace neither.
TxTypeOK ==
  /\ QuotaTypeOK
  /\ pc \in [Procs -> {"idle", "begun"} \union Holding]
  /\ req \in [Procs -> Request]
  /\ row \in [Procs -> QuotaRow \union {NoRow}]
  /\ lock \in [Workspaces -> Procs \union {NoProc}]
  /\ answer \in [Procs -> Answers]

\* FOR UPDATE and the upsert's own lock serialise a workspace's writers: a
\* session is past its first statement exactly while it holds the row's lock.
LockHeld ==
  \A p \in Procs, w \in Workspaces :
    lock[w] = p <=> pc[p] \in Holding /\ req[p].ws = w

\* What a session read under the lock is still the committed row when it
\* decides and when it writes back absolute values (quota.ts:49-71, 113-121).
SnapshotFresh ==
  \A p \in Procs :
    pc[p] \in {"locked", "inserted"} => row[p] = quota[req[p].ws]

\* The same holds up to COMMIT: the row a session is about to publish is the
\* one QuotaLedger's atomic operation would write to the row committed now.
WriteSoundFor(p) ==
  LET r == req[p]
      q == quota[r.ws]
  IN  /\ pc[p] \in {"locked", "inserted", "charged", "refused"} =>
           r \in ConsumeReq /\ q # NoRow
      /\ pc[p] \in {"inserted", "charged"} => Fits(q, r.cost)
      /\ pc[p] = "charged" =>
           q.consumed + r.cost <= IntMax /\ row[p] = ChargedRow(q, r.cost)
      /\ pc[p] = "refused" => ~Fits(q, r.cost) /\ row[p] = RefusedRow(q)
      /\ pc[p] = "seeded" => r \in SeedReq /\ row[p] = SeededRow(r.plan, r.period)
      /\ pc[p] = "granted" =>
           /\ r \in GrantReq
           /\ q # NoRow
           /\ q.granted + r.extra <= IntMax
           /\ row[p] = [q EXCEPT !.granted = @ + r.extra]

WriteSound == \A p \in Procs : WriteSoundFor(p)

\* No two events meet in the unique index: one that is inserted and not yet
\* committed has no twin, committed or not, and carries a past instant.
EventsFresh ==
  \A p \in Procs :
    /\ pc[p] # "idle" /\ req[p].op = "consume" => req[p].at <= now
    /\ pc[p] \in {"inserted", "charged"} =>
         /\ ~Collides(req[p].key, req[p].at)
         /\ \A q \in Procs \ {p} :
              pc[q] \in {"inserted", "charged"}
                => <<req[q].key, req[q].at>> # <<req[p].key, req[p].at>>

\* An answer the caller can rely on: ok means its event is in the ledger, and
\* duplicate_event means an event with its key is (quota.ts:99-130).
AnswersTrue ==
  \A p \in Procs :
    req[p].op = "consume" =>
      /\ answer[p] = "ok" => EventOf(req[p]) \in usage
      /\ answer[p] = "duplicate_event" => \E u \in usage : u.key = req[p].key

\* No transaction waits for ever: sessions neither deadlock on a row and an
\* index entry nor starve behind one another.
TransactionsEnd == \A p \in Procs : pc[p] = "begun" ~> pc[p] = "idle"
=============================================================================
