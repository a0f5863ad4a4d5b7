-------------------------- MODULE JobQueue_proofs --------------------------
(* What every step of the queue preserves, for the proofs of its users.     *)
EXTENDS JobQueue, SequenceTheorems, TLAPS

QueueInv == QueueTypeOK /\ SlotsBusy

\* The list of finished jobs stays a list of jobs.
LEMMA RetainTypes ==
  ASSUME NEW done \in Seq(Jobs), NEW j \in Jobs, NEW keep \in Nat
  PROVE  Retain(done, j, keep) \in Seq(Jobs)
<1> DEFINE all == Append(done, j)
<1>1. all \in Seq(Jobs) /\ Len(all) \in Nat
  OBVIOUS
<1>2. CASE keep = 0
  BY <1>2 DEF Retain
<1>3. CASE keep # 0 /\ Len(all) > keep
  <2>1. Len(all) - keep + 1 \in 1..Len(all) + 1
    BY <1>1, <1>3
  <2>2. SubSeq(all, Len(all) - keep + 1, Len(all)) \in Seq(Jobs)
    BY <1>1, <2>1, SubSeqProperties
  <2> QED
    BY <1>3, <2>2 DEF Retain
<1>4. CASE keep # 0 /\ ~(Len(all) > keep)
  BY <1>1, <1>4 DEF Retain
<1> QED
  BY <1>2, <1>3, <1>4

\* Finishing a job, one way or the other, keeps the queue's records well typed.
LEMMA FinishTypes ==
  ASSUME QueueInv, NEW j \in Jobs, Complete(j) \/ Fail(j)
  PROVE  /\ job' \in [Jobs -> JobStates]
         /\ owner' \in [Jobs -> Slots \union {NoSlot}]
         /\ stalls' \in [Jobs -> 0..MaxStalled]
         /\ completed' \in Seq(Jobs)
         /\ failed' \in Seq(Jobs)
<1> USE QueueAssumption DEF QueueInv, QueueTypeOK, JobStates
<1>1. completed' \in Seq(Jobs)
  <2>1. KeepCompleted[j] \in Nat /\ completed \in Seq(Jobs)
    OBVIOUS
  <2>2. Retain(completed, j, KeepCompleted[j]) \in Seq(Jobs)
    BY <2>1, RetainTypes
  <2> QED
    BY <2>1, <2>2 DEF Complete, Fail
<1>2. failed' \in Seq(Jobs)
  <2>1. KeepFailed[j] \in Nat /\ failed \in Seq(Jobs)
    OBVIOUS
  <2>2. Retain(failed, j, KeepFailed[j]) \in Seq(Jobs)
    BY <2>1, RetainTypes
  <2> QED
    BY <2>1, <2>2 DEF Complete, Fail
<1>3. /\ job' \in [Jobs -> JobStates]
      /\ owner' \in [Jobs -> Slots \union {NoSlot}]
      /\ stalls' \in [Jobs -> 0..MaxStalled]
  <2>1. ASSUME NEW gone, NEW state \in JobStates, Forget(gone, state, j)
        PROVE  /\ job' \in [Jobs -> JobStates]
               /\ owner' \in [Jobs -> Slots \union {NoSlot}]
               /\ stalls' \in [Jobs -> 0..MaxStalled]
    <3>1. \A k \in Jobs :
            (IF k \in gone THEN "absent" ELSE IF k = j THEN state ELSE job[k]) \in JobStates
      BY <2>1
    <3>2. \A k \in Jobs : (IF k \in gone THEN 0 ELSE stalls[k]) \in 0..MaxStalled
      OBVIOUS
    <3>3. owner' \in [Jobs -> Slots \union {NoSlot}]
      BY <2>1 DEF Forget
    <3> QED
      BY <2>1, <3>1, <3>2, <3>3 DEF Forget
  <2>2. \/ Forget(Evicted(completed, j, KeepCompleted[j]), "completed", j)
        \/ Forget(Evicted(failed, j, KeepFailed[j]), "failed", j)
    BY DEF Complete, Fail
  <2>3. "completed" \in JobStates /\ "failed" \in JobStates
    OBVIOUS
  <2> QED
    BY <2>1, <2>2, <2>3
<1> QED
  BY <1>1, <1>2, <1>3

\* The empty queue is well typed.
LEMMA QueueStarts == QueueInit => QueueInv
  BY QueueAssumption DEF QueueInit, QueueInv, QueueTypeOK, SlotsBusy, JobStates, Phases

\* Every operation of the queue keeps it well typed and its busy slots on a job.
LEMMA QueueStep ==
  ASSUME QueueInv,
         \/ \E j \in Jobs : Add(j) \/ Stall(j) \/ \E s \in Slots : Take(s, j)
         \/ \E s \in Slots : Return(s) \/ Throw(s) \/ Report(s) \/ Crash(s)
         \/ \E gone \in SUBSET Slots : CrashAll(gone)
         \/ UNCHANGED queueVars
  PROVE  QueueInv'
<1> USE QueueAssumption DEF QueueInv, QueueTypeOK, SlotsBusy, JobStates, Phases
<1>1. ASSUME NEW j \in Jobs, Add(j) PROVE QueueInv'
  BY <1>1 DEF Add
<1>2. ASSUME NEW j \in Jobs, NEW s \in Slots, Take(s, j) PROVE QueueInv'
  BY <1>2 DEF Take
<1>3. ASSUME NEW s \in Slots, Return(s) \/ Throw(s) PROVE QueueInv'
  BY <1>3 DEF Return, Throw, storeVars
<1>4. ASSUME NEW s \in Slots, Report(s) PROVE QueueInv'
  <2>1. slot[s] \in Jobs
    BY <1>4 DEF Report
  <2>2. /\ slot' \in [Slots -> Jobs \union {NoJob}]
        /\ phase' \in [Slots -> Phases]
        /\ SlotsBusy'
    BY <1>4 DEF Report
  <2>3. CASE UNCHANGED storeVars
    BY <2>2, <2>3 DEF storeVars
  <2>4. CASE Complete(slot[s]) \/ Fail(slot[s])
    BY <2>1, <2>2, <2>4, FinishTypes
  <2> QED
    BY <1>4, <2>3, <2>4 DEF Report
<1>5. ASSUME NEW j \in Jobs, Stall(j) PROVE QueueInv'
  <2>1. CASE stalls[j] < MaxStalled
    <3>1. stalls[j] \in Nat /\ stalls[j] + 1 \in 0..MaxStalled
      BY <2>1
    <3>2. /\ stalls' = [stalls EXCEPT ![j] = @ + 1]
          /\ job' = [job EXCEPT ![j] = "waiting"]
          /\ owner' = [owner EXCEPT ![j] = NoSlot]
          /\ UNCHANGED <<completed, failed, slot, phase>>
      BY <1>5, <2>1, <3>1 DEF Stall
    <3> QED
      BY <3>1, <3>2
  <2>2. CASE Fail(j)
    <3>1. UNCHANGED <<slot, phase>>
      BY <1>5 DEF Stall
    <3> QED
      BY <2>2, <3>1, FinishTypes
  <2> QED
    BY <1>5, <2>1, <2>2 DEF Stall
<1>6. ASSUME NEW s \in Slots, Crash(s) PROVE QueueInv'
  BY <1>6 DEF Crash
<1>7. ASSUME NEW gone \in SUBSET Slots, CrashAll(gone) PROVE QueueInv'
  BY <1>7 DEF CrashAll
<1>8. CASE UNCHANGED queueVars
  BY <1>8 DEF queueVars
<1> QED
  BY <1>1, <1>2, <1>3, <1>4, <1>5, <1>6, <1>7, <1>8

\* Only Add creates a job: what any other operation leaves in the queue was there
\* or in a slot's hands, and a busy slot was busy with the same job or has just
\* taken one.
LEMMA JobsComeFromAdd ==
  ASSUME QueueInv,
         \/ \E j \in Jobs : Stall(j) \/ \E s \in Slots : Take(s, j)
         \/ \E s \in Slots : Return(s) \/ Throw(s) \/ Report(s) \/ Crash(s)
         \/ \E gone \in SUBSET Slots : CrashAll(gone)
         \/ UNCHANGED queueVars
  PROVE  /\ \A k \in Jobs : job'[k] # "absent" =>
              \/ job[k] # "absent"
              \/ \E s \in Slots : phase[s] # "idle" /\ slot[s] = k
         /\ \A s \in Slots : phase'[s] # "idle" =>
              \/ phase[s] # "idle" /\ slot'[s] = slot[s]
              \/ slot'[s] \in Jobs /\ job[slot'[s]] # "absent"
<1> DEFINE Held(k) == \E s \in Slots : phase[s] # "idle" /\ slot[s] = k
           Kept == \A k \in Jobs : job'[k] # "absent" => job[k] # "absent" \/ Held(k)
           Busy == \A s \in Slots : phase'[s] # "idle" =>
                     \/ phase[s] # "idle" /\ slot'[s] = slot[s]
                     \/ slot'[s] \in Jobs /\ job[slot'[s]] # "absent"
<1> USE DEF QueueInv, QueueTypeOK, SlotsBusy
<1>1. ASSUME NEW j \in Jobs, job[j] # "absent" \/ Held(j), Complete(j) \/ Fail(j)
      PROVE  Kept
  <2>1. ASSUME NEW gone, NEW state, Forget(gone, state, j)
        PROVE  \A k \in Jobs \ {j} : job'[k] # "absent" => job[k] # "absent"
    BY <2>1 DEF Forget
  <2>2. \A k \in Jobs \ {j} : job'[k] # "absent" => job[k] # "absent"
    BY <1>1, <2>1 DEF Complete, Fail
  <2> QED
    BY <1>1, <2>2
<1>2. ASSUME NEW j \in Jobs, NEW s \in Slots, Take(s, j) PROVE Kept /\ Busy
  BY <1>2 DEF Take
<1>3. ASSUME NEW s \in Slots, Return(s) \/ Throw(s) \/ Crash(s) PROVE Kept /\ Busy
  BY <1>3 DEF Return, Throw, Crash, storeVars
<1>4. ASSUME NEW j \in Jobs, Stall(j) PROVE Kept /\ Busy
  <2>1. Busy
    BY <1>4 DEF Stall
  <2>2. job[j] # "absent"
    BY <1>4 DEF Stall
  <2>3. CASE Fail(j)
    BY <1>1, <2>1, <2>2, <2>3
  <2>4. CASE job' = [job EXCEPT ![j] = "waiting"]
    BY <2>1, <2>2, <2>4
  <2> QED
    BY <1>4, <2>3, <2>4 DEF Stall
<1>5. ASSUME NEW s \in Slots, Report(s) PROVE Kept /\ Busy
  <2>1. Busy
    BY <1>5 DEF Report
  <2>2. slot[s] \in Jobs /\ Held(slot[s])
    BY <1>5 DEF Report
  <2>3. CASE UNCHANGED storeVars
    BY <2>1, <2>3 DEF storeVars
  <2>4. CASE Complete(slot[s]) \/ Fail(slot[s])
    BY <1>1, <2>1, <2>2, <2>4
  <2> QED
    BY <1>5, <2>3, <2>4 DEF Report
<1>6. ASSUME NEW gone \in SUBSET Slots, CrashAll(gone) PROVE Kept /\ Busy
  BY <1>6 DEF CrashAll
<1>7. CASE UNCHANGED queueVars
  BY <1>7 DEF queueVars
<1> QED
  BY <1>2, <1>3, <1>4, <1>5, <1>6, <1>7

---------------------------------------------------------------------------
(* The lists of finished jobs and the records of the jobs agree.            *)

Once(list) == \A i, k \in DOMAIN list : list[i] = list[k] => i = k
In(k, list) == \E i \in DOMAIN list : list[i] = k

\* Only active jobs are locked, and each list retains jobs that ended its way,
\* each once.
Consistent ==
  /\ \A j \in Jobs : owner[j] # NoSlot => job[j] = "active"
  /\ \A j \in Jobs : In(j, completed) => job[j] = "completed"
  /\ \A j \in Jobs : In(j, failed) => job[j] = "failed"
  /\ Once(completed) /\ Once(failed)

\* A job that ends is added to what is retained; what is removed is not retained.
LEMMA RetainOrEvict ==
  ASSUME NEW done \in Seq(Jobs), Once(done), NEW j \in Jobs, ~In(j, done), NEW keep \in Nat
  PROVE  /\ Once(Retain(done, j, keep))
         /\ \A k : In(k, Retain(done, j, keep)) =>
              (k = j \/ In(k, done)) /\ k \notin Evicted(done, j, keep)
         /\ \A k \in Evicted(done, j, keep) : k = j \/ In(k, done)
<1> DEFINE all == Append(done, j)
<1> DEFINE cut == Len(done) + 1 - keep
<1>1. /\ all \in Seq(Jobs) /\ Len(all) = Len(done) + 1 /\ Len(done) \in Nat
      /\ all[Len(done) + 1] = j
      /\ \A i \in 1..Len(done) : all[i] = done[i] /\ i \in DOMAIN done
      /\ \A i \in DOMAIN all : i \in 1..Len(done) \/ i = Len(done) + 1
      /\ DOMAIN all = 1..Len(done) + 1
  OBVIOUS
<1>2. \A i \in DOMAIN all : all[i] = j \/ In(all[i], done)
  BY <1>1 DEF In
<1>3. Once(all)
  <2> SUFFICES ASSUME NEW i \in DOMAIN all, NEW k \in DOMAIN all, all[i] = all[k]
               PROVE  i = k
    BY DEF Once
  <2>1. CASE i \in 1..Len(done) /\ k \in 1..Len(done)
    BY <1>1, <2>1 DEF Once
  <2>2. CASE i = Len(done) + 1 \/ k = Len(done) + 1
    BY <1>1, <2>2 DEF In
  <2> QED
    BY <1>1, <2>1, <2>2
<1>4. CASE keep = 0
  BY <1>4 DEF Retain, Evicted, In
<1>5. CASE keep # 0 /\ Len(all) <= keep
  <2>1. Retain(done, j, keep) = all
    BY <1>1, <1>5 DEF Retain
  <2>2. Evicted(done, j, keep) = {}
    BY <1>1, <1>5 DEF Evicted
  <2> QED
    BY <1>2, <1>3, <2>1, <2>2 DEF In
<1>6. CASE keep # 0 /\ Len(all) > keep
  <2> DEFINE kept == SubSeq(all, cut + 1, Len(all))
  <2>1. Retain(done, j, keep) = kept
    BY <1>1, <1>6 DEF Retain
  <2>2. Evicted(done, j, keep) = {all[i] : i \in 1..cut} /\ cut \in 1..Len(done)
    BY <1>1, <1>6 DEF Evicted
  <2>3. /\ DOMAIN kept = 1..keep
        /\ \A i \in 1..keep : kept[i] = all[cut + i] /\ cut + i \in DOMAIN all
    <3>1. /\ cut + 1 \in Int /\ Len(all) \in Int /\ cut + 1 <= Len(all)
          /\ \A i \in (cut + 1)..Len(all) : all[i] \in Jobs
      BY <1>1, <1>6, <2>2
    <3>2. Len(all) - (cut + 1) + 1 = keep
      BY <1>1
    <3>3. /\ Len(kept) = keep
          /\ \A i \in 1..keep : kept[i] = all[cut + 1 + i - 1]
          /\ kept \in Seq(Jobs)
      <4> HIDE DEF all, cut
      <4>1. /\ kept \in Seq(Jobs)
            /\ Len(kept) = IF cut + 1 <= Len(all) THEN Len(all) - (cut + 1) + 1 ELSE 0
            /\ \A i \in 1..Len(all) - (cut + 1) + 1 : kept[i] = all[cut + 1 + i - 1]
        BY <3>1, SubSeqProperties
      <4> HIDE DEF kept
      <4> QED
        BY <3>1, <3>2, <4>1
    <3>4. \A i \in 1..keep : cut + 1 + i - 1 = cut + i /\ cut + i \in 1..Len(done) + 1
      BY <1>1, <2>2
    <3>5. keep \in Nat
      OBVIOUS
    <3> HIDE DEF kept, all, cut
    <3>6. DOMAIN kept = 1..keep
      BY <3>3, <3>5
    <3> QED
      BY <1>1, <3>3, <3>4, <3>6
  <2> HIDE DEF kept, all
  <2>4. Once(kept)
    <3> SUFFICES ASSUME NEW i \in 1..keep, NEW k \in 1..keep, kept[i] = kept[k] PROVE i = k
      BY <2>3 DEF Once
    <3>1. all[cut + i] = all[cut + k] /\ cut + i \in DOMAIN all /\ cut + k \in DOMAIN all
      BY <2>3
    <3>2. cut + i = cut + k
      BY <1>3, <3>1 DEF Once
    <3> QED
      BY <1>1, <2>2, <3>2
  <2>5. \A k : In(k, kept) => k = j \/ In(k, done)
    <3> SUFFICES ASSUME NEW k, NEW i \in 1..keep, kept[i] = k PROVE k = j \/ In(k, done)
      BY <2>3 DEF In
    <3>1. k = all[cut + i] /\ cut + i \in DOMAIN all
      BY <2>3
    <3> QED
      BY <1>2, <3>1
  <2>6. \A i \in 1..keep : kept[i] \notin {all[h] : h \in 1..cut}
    <3> SUFFICES ASSUME NEW i \in 1..keep, NEW h \in 1..cut, kept[i] = all[h] PROVE FALSE
      OBVIOUS
    <3>1. h \in DOMAIN all /\ cut + i \in DOMAIN all /\ all[cut + i] = all[h]
      BY <1>1, <2>2, <2>3
    <3>2. cut + i = h
      BY <1>3, <3>1 DEF Once
    <3> QED
      BY <1>1, <2>2, <3>2
  <2>7. \A k \in {all[h] : h \in 1..cut} : k = j \/ In(k, done)
    BY <1>1, <1>2, <2>2
  <2> QED
    BY <2>1, <2>2, <2>3, <2>4, <2>5, <2>6, <2>7 DEF In
<1> QED
  BY <1>1, <1>4, <1>5, <1>6

\* An active job ends.
LEMMA ConsistentFinish ==
  ASSUME QueueInv, Consistent, NEW j \in Jobs, job[j] = "active", Complete(j) \/ Fail(j)
  PROVE  Consistent'
<1> USE QueueAssumption DEF QueueInv, QueueTypeOK
<1>1. ~In(j, completed) /\ ~In(j, failed)
  BY DEF Consistent
<1>2. ASSUME NEW done \in Seq(Jobs), NEW keep \in Nat, NEW other \in Seq(Jobs),
             NEW state \in {"completed", "failed"}, NEW opposite \in {"completed", "failed"},
             state # opposite, Once(done), ~In(j, done), ~In(j, other),
             \A k \in Jobs : In(k, done) => job[k] = state,
             \A k \in Jobs : In(k, other) => job[k] = opposite,
             Forget(Evicted(done, j, keep), state, j)
      PROVE  /\ Once(Retain(done, j, keep))
             /\ \A k \in Jobs : In(k, Retain(done, j, keep)) => job'[k] = state
             /\ \A k \in Jobs : In(k, other) => job'[k] = opposite
             /\ \A k \in Jobs : owner'[k] # NoSlot => job'[k] = "active"
  <2> DEFINE kept == Retain(done, j, keep)
             gone == Evicted(done, j, keep)
  <2>1. /\ Once(kept)
        /\ \A k : In(k, kept) => (k = j \/ In(k, done)) /\ k \notin gone
        /\ \A k \in gone : k = j \/ In(k, done)
    BY <1>2, RetainOrEvict
  <2>2. /\ \A k \in Jobs : job'[k] = IF k \in gone THEN "absent"
                                    ELSE IF k = j THEN state ELSE job[k]
        /\ \A k \in Jobs : owner'[k] = IF k = j THEN NoSlot ELSE owner[k]
    BY <1>2 DEF Forget
  <2> HIDE DEF kept, gone
  <2>3. \A k \in Jobs : In(k, kept) => job'[k] = state
    BY <1>2, <2>1, <2>2
  <2>4. \A k \in Jobs : In(k, other) => job'[k] = opposite
    BY <1>2, <2>1, <2>2
  <2>5. \A k \in Jobs : owner'[k] # NoSlot => job'[k] = "active"
    BY <1>2, <2>1, <2>2 DEF Consistent
  <2> QED
    BY <2>1, <2>3, <2>4, <2>5 DEF kept
<1>3. CASE Complete(j)
  <2>1. /\ Forget(Evicted(completed, j, KeepCompleted[j]), "completed", j)
        /\ completed' = Retain(completed, j, KeepCompleted[j]) /\ failed' = failed
        /\ KeepCompleted[j] \in Nat /\ completed \in Seq(Jobs) /\ failed \in Seq(Jobs)
    BY <1>3 DEF Complete
  <2>2. /\ Once(Retain(completed, j, KeepCompleted[j]))
        /\ \A k \in Jobs : In(k, Retain(completed, j, KeepCompleted[j])) => job'[k] = "completed"
        /\ \A k \in Jobs : In(k, failed) => job'[k] = "failed"
        /\ \A k \in Jobs : owner'[k] # NoSlot => job'[k] = "active"
    BY <1>1, <1>2, <2>1 DEF Consistent
  <2> QED
    BY <2>1, <2>2 DEF Consistent, In, Once
<1>4. CASE Fail(j)
  <2>1. /\ Forget(Evicted(failed, j, KeepFailed[j]), "failed", j)
        /\ failed' = Retain(failed, j, KeepFailed[j]) /\ completed' = completed
        /\ KeepFailed[j] \in Nat /\ completed \in Seq(Jobs) /\ failed \in Seq(Jobs)
    BY <1>4 DEF Fail
  <2>2. /\ Once(Retain(failed, j, KeepFailed[j]))
        /\ \A k \in Jobs : In(k, Retain(failed, j, KeepFailed[j])) => job'[k] = "failed"
        /\ \A k \in Jobs : In(k, completed) => job'[k] = "completed"
        /\ \A k \in Jobs : owner'[k] # NoSlot => job'[k] = "active"
    BY <1>1, <1>2, <2>1 DEF Consistent
  <2> QED
    BY <2>1, <2>2 DEF Consistent, In, Once
<1> QED
  BY <1>3, <1>4

LEMMA ConsistentStarts == QueueInit => Consistent
  BY DEF QueueInit, Consistent, In, Once

LEMMA ConsistentStep ==
  ASSUME QueueInv, Consistent,
         \/ \E j \in Jobs : Add(j) \/ Stall(j) \/ \E s \in Slots : Take(s, j)
         \/ \E s \in Slots : Return(s) \/ Throw(s) \/ Report(s) \/ Crash(s)
         \/ \E gone \in SUBSET Slots : CrashAll(gone)
         \/ UNCHANGED queueVars
  PROVE  Consistent'
<1> USE QueueAssumption DEF QueueInv, QueueTypeOK, SlotsBusy
\* What leaves the lists, and the records of finished jobs, alone.
<1>1. ASSUME UNCHANGED <<completed, failed>>,
             \A k \in Jobs : job[k] \in {"completed", "failed"} => job'[k] = job[k],
             \A k \in Jobs : owner'[k] # NoSlot => job'[k] = "active"
      PROVE  Consistent'
  <2>1. /\ Once(completed)' /\ Once(failed)'
        /\ \A k \in Jobs : In(k, completed)' => In(k, completed)
        /\ \A k \in Jobs : In(k, failed)' => In(k, failed)
    BY <1>1 DEF Consistent, In, Once
  <2>2. /\ \A k \in Jobs : In(k, completed)' => job'[k] = "completed"
        /\ \A k \in Jobs : In(k, failed)' => job'[k] = "failed"
    BY <1>1, <2>1 DEF Consistent
  <2> QED
    BY <1>1, <2>1, <2>2 DEF Consistent
<1>2. ASSUME NEW j \in Jobs, Add(j) PROVE Consistent'
  BY <1>1, <1>2 DEF Add, Consistent
<1>3. ASSUME NEW j \in Jobs, NEW s \in Slots, Take(s, j) PROVE Consistent'
  BY <1>1, <1>3 DEF Take, Consistent
<1>4. ASSUME NEW s \in Slots, Return(s) \/ Throw(s) PROVE Consistent'
  BY <1>1, <1>4 DEF Return, Throw, storeVars, Consistent
<1>5. ASSUME NEW j \in Jobs, Stall(j) PROVE Consistent'
  <2>1. CASE Fail(j)
    BY <1>5, <2>1, ConsistentFinish DEF Stall
  <2>2. CASE ~Fail(j)
    <3>1. /\ job[j] = "active" /\ UNCHANGED <<completed, failed>>
          /\ job' = [job EXCEPT ![j] = "waiting"] /\ owner' = [owner EXCEPT ![j] = NoSlot]
      BY <1>5, <2>2 DEF Stall
    <3> QED
      BY <1>1, <3>1 DEF Consistent
  <2> QED
    BY <2>1, <2>2
<1>6. ASSUME NEW s \in Slots, Report(s) PROVE Consistent'
  <2>1. slot[s] \in Jobs
    BY <1>6 DEF Report
  <2>2. CASE owner[slot[s]] = s
    <3>1. job[slot[s]] = "active"
      BY <2>1, <2>2 DEF Consistent
    <3> QED
      BY <1>6, <2>1, <2>2, <3>1, ConsistentFinish DEF Report
  <2>3. CASE owner[slot[s]] # s
    BY <1>1, <1>6, <2>3 DEF Report, storeVars, Consistent
  <2> QED
    BY <2>2, <2>3
<1>7. ASSUME \/ \E s \in Slots : Crash(s)
             \/ \E gone \in SUBSET Slots : CrashAll(gone)
      PROVE  Consistent'
  <2>1. /\ UNCHANGED <<job, completed, failed>>
        /\ \A k \in Jobs : owner'[k] # NoSlot => owner[k] # NoSlot
    BY <1>7 DEF Crash, CrashAll
  <2> QED
    BY <1>1, <2>1 DEF Consistent
<1>8. CASE UNCHANGED queueVars
  BY <1>1, <1>8 DEF queueVars, Consistent
<1> QED
  BY <1>2, <1>3, <1>4, <1>5, <1>6, <1>7, <1>8
=============================================================================
