------------------------------ MODULE JobQueue ------------------------------
(***************************************************************************)
(* A BullMQ queue as the workers use it: jobs with ids, worker slots that  *)
(* take them under a lock, one attempt per job (no "attempts" option is    *)
(* ever passed), jobs whose lock expires put back and run again, finished  *)
(* jobs retained up to removeOnComplete / removeOnFail.  BullMQ and Redis  *)
(* are outside the repository; this is what src/ relies on them for        *)
(* (queues.ts, worker.ts, the Worker and add options of each queue).       *)
(* The handler itself is the user's: it moves a slot from "running" to     *)
(* "returned" or "threw".                                                  *)
(***************************************************************************)
EXTENDS Integers, Sequences, FiniteSets

CONSTANTS
  Jobs,           \* job ids
  Slots,          \* concurrent handler executions, over all worker replicas
  KeepCompleted,  \* removeOnComplete of each job: how many completed jobs it leaves
  KeepFailed,     \* removeOnFail of each job
  MaxStalled,     \* maxStalledCount, 1 unless configured
  NoJob, NoSlot

ASSUME QueueAssumption ==
  /\ KeepCompleted \in [Jobs -> Nat] /\ KeepFailed \in [Jobs -> Nat]
  /\ MaxStalled \in Nat
  /\ IsFiniteSet(Slots)
  /\ NoJob \notin Jobs /\ NoSlot \notin Slots

VARIABLES
  job,            \* the queue's record of each job id
  owner,          \* the slot whose lock token an active job carries
  stalls,         \* how often the present job of that id has stalled
  completed,      \* retained completed jobs, oldest first
  failed,         \* retained failed jobs, oldest first
  slot,           \* the job each slot executes
  phase           \* how far its handler is

queueVars == <<job, owner, stalls, completed, failed, slot, phase>>
storeVars == <<job, owner, stalls, completed, failed>>

JobStates == {"absent", "waiting", "active", "completed", "failed"}
Phases == {"idle", "running", "returned", "threw"}

QueueTypeOK ==
  /\ job \in [Jobs -> JobStates]
  /\ owner \in [Jobs -> Slots \union {NoSlot}]
  /\ stalls \in [Jobs -> 0..MaxStalled]
  /\ completed \in Seq(Jobs)
  /\ failed \in Seq(Jobs)
  /\ slot \in [Slots -> Jobs \union {NoJob}]
  /\ phase \in [Slots -> Phases]

\* A slot that is not idle has a job.
SlotsBusy == \A s \in Slots : phase[s] # "idle" => slot[s] \in Jobs

QueueInit ==
  /\ job = [j \in Jobs |-> "absent"]
  /\ owner = [j \in Jobs |-> NoSlot]
  /\ stalls = [j \in Jobs |-> 0]
  /\ completed = << >>
  /\ failed = << >>
  /\ slot = [s \in Slots |-> NoJob]
  /\ phase = [s \in Slots |-> "idle"]

\* Fault: a finished job of the same id is enqueued again.
AddAgain(j) ==
  /\ job' = [job EXCEPT ![j] = IF @ = "active" THEN @ ELSE "waiting"]
  /\ UNCHANGED <<owner, stalls, completed, failed, slot, phase>>

\* Queue.add with this job id: a no-op while a job of that id is still there,
\* in whatever state.
Add(j) ==
  /\ job' = [job EXCEPT ![j] = IF @ = "absent" THEN "waiting" ELSE @]
  /\ UNCHANGED <<owner, stalls, completed, failed, slot, phase>>

\* A free slot fetches a waiting job and locks it.
Take(s, j) ==
  /\ phase[s] = "idle"
  /\ job[j] = "waiting"
  /\ job' = [job EXCEPT ![j] = "active"]
  /\ owner' = [owner EXCEPT ![j] = s]
  /\ slot' = [slot EXCEPT ![s] = j]
  /\ phase' = [phase EXCEPT ![s] = "running"]
  /\ UNCHANGED <<stalls, completed, failed>>

\* The handler of slot s ends; what it did is the user's part of the step.
Return(s) ==
  /\ phase[s] = "running"
  /\ phase' = [phase EXCEPT ![s] = "returned"]
  /\ UNCHANGED <<storeVars, slot>>

Throw(s) ==
  /\ phase[s] = "running"
  /\ phase' = [phase EXCEPT ![s] = "threw"]
  /\ UNCHANGED <<storeVars, slot>>

\* A finished job that keeps none is removed at once; one that keeps some is
\* listed, and all but the newest of the list are removed.
Retain(done, j, keep) ==
  LET all == Append(done, j)
  IN  IF keep = 0 THEN done
      ELSE IF Len(all) > keep THEN SubSeq(all, Len(all) - keep + 1, Len(all))
      ELSE all

\* The ids removed with it, forgotten altogether.
Evicted(done, j, keep) ==
  IF keep = 0 THEN {j} ELSE {Append(done, j)[i] : i \in 1..(Len(done) + 1 - keep)}

Forget(gone, state, j) ==
  /\ job' = [k \in Jobs |-> IF k \in gone THEN "absent" ELSE IF k = j THEN state ELSE job[k]]
  /\ stalls' = [k \in Jobs |-> IF k \in gone THEN 0 ELSE stalls[k]]
  /\ owner' = [owner EXCEPT ![j] = NoSlot]

Complete(j) ==
  /\ completed' = Retain(completed, j, KeepCompleted[j])
  /\ Forget(Evicted(completed, j, KeepCompleted[j]), "completed", j)
  /\ UNCHANGED failed

Fail(j) ==
  /\ failed' = Retain(failed, j, KeepFailed[j])
  /\ Forget(Evicted(failed, j, KeepFailed[j]), "failed", j)
  /\ UNCHANGED completed

\* The outcome is reported to Redis; a slot that lost the job's lock cannot.
Report(s) ==
  /\ phase[s] \in {"returned", "threw"}
  /\ IF owner[slot[s]] # s THEN UNCHANGED storeVars
     ELSE IF phase[s] = "returned" THEN Complete(slot[s])
     ELSE Fail(slot[s])
  /\ slot' = [slot EXCEPT ![s] = NoJob]
  /\ phase' = [phase EXCEPT ![s] = "idle"]

\* Fault: jobs whose process died are never looked for.
StallAlive(j) ==
  /\ job[j] = "active"
  /\ owner[j] # NoSlot
  /\ \/ /\ stalls[j] < MaxStalled
        /\ stalls' = [stalls EXCEPT ![j] = @ + 1]
        /\ job' = [job EXCEPT ![j] = "waiting"]
        /\ owner' = [owner EXCEPT ![j] = NoSlot]
        /\ UNCHANGED <<completed, failed>>
     \/ stalls[j] >= MaxStalled /\ Fail(j)
  /\ UNCHANGED <<slot, phase>>

\* The lock of an active job expires: it is put back, or failed when it has
\* stalled too often.  Its handler may well be running on.
Stall(j) ==
  /\ job[j] = "active"
  /\ \/ /\ stalls[j] < MaxStalled
        /\ stalls' = [stalls EXCEPT ![j] = @ + 1]
        /\ job' = [job EXCEPT ![j] = "waiting"]
        /\ owner' = [owner EXCEPT ![j] = NoSlot]
        /\ UNCHANGED <<completed, failed>>
     \/ stalls[j] >= MaxStalled /\ Fail(j)
  /\ UNCHANGED <<slot, phase>>

\* The process running slot s dies: nobody renews its job's lock.
Crash(s) ==
  /\ phase[s] # "idle"
  /\ owner' = [j \in Jobs |-> IF owner[j] = s THEN NoSlot ELSE owner[j]]
  /\ slot' = [slot EXCEPT ![s] = NoJob]
  /\ phase' = [phase EXCEPT ![s] = "idle"]
  /\ UNCHANGED <<job, stalls, completed, failed>>

\* The same for all slots of a process.
CrashAll(gone) ==
  /\ owner' = [j \in Jobs |-> IF owner[j] \in gone THEN NoSlot ELSE owner[j]]
  /\ slot' = [s \in Slots |-> IF s \in gone THEN NoJob ELSE slot[s]]
  /\ phase' = [s \in Slots |-> IF s \in gone THEN "idle" ELSE phase[s]]
  /\ UNCHANGED <<job, stalls, completed, failed>>

\* An active job whose process is gone.
Orphaned(j) == job[j] = "active" /\ owner[j] = NoSlot
=============================================================================
