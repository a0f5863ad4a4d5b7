--------------------------- MODULE Workers_proofs ---------------------------
(***************************************************************************)
(* A worker process is well typed, exits with 0 only when it has drained,  *)
(* never shows an endpoint more failures than were recorded, and mails     *)
(* nobody more digests than its ticks allow runs, whatever is cut off,     *)
(* stalls and runs again.  And what the notification dispatcher records    *)
(* and a bell shows is true, whatever is sent again, lost or crosses: the  *)
(* two modules share no variable, and the proofs of the second come last.  *)
(***************************************************************************)
EXTENDS Workers, Notifications, JobQueue_proofs, FiniteSetTheorems

---------------------------------------------------------------------------
(* Types.                                                                   *)

\* What the steps of the process do to the queue.
LEMMA WorkQueueStep ==
  ASSUME [WorkNext]_workVars
  PROVE  \/ \E j \in Jobs : Add(j) /\ j \notin enqueued /\ enqueued' = enqueued \union {j}
         \/ /\ \/ \E j \in Jobs : Stall(j) \/ \E s \in Slots : Take(s, j)
               \/ \E s \in Slots : Return(s) \/ Throw(s) \/ Report(s) \/ Crash(s)
               \/ \E gone \in SUBSET Slots : CrashAll(gone)
               \/ UNCHANGED queueVars
            /\ UNCHANGED enqueued
<1>1. CASE Boot \/ StartWorker \/ Listen \/ Shutdown \/ CloseNext
  BY <1>1 DEF Boot, StartWorker, Listen, Shutdown, CloseNext, tableVars
<1>2. CASE ExitDone \/ ExitForced \/ ExitKilled
  BY <1>2 DEF ExitDone, ExitForced, ExitKilled, Exit, tableVars
<1>3. ASSUME NEW s \in Slots, NEW j \in Jobs, Fetch(s, j)
      PROVE  Take(s, j) /\ UNCHANGED enqueued
  BY <1>3 DEF Fetch, tableVars
<1>4. ASSUME NEW s \in Slots, ReadEndpoint(s)
      PROVE  (Return(s) \/ UNCHANGED queueVars) /\ UNCHANGED enqueued
  BY <1>4 DEF ReadEndpoint, tableVars
<1>5. ASSUME NEW s \in Slots, Record(s) \/ FailStatement(s) \/ DigestDone(s) \/ ReportOutcome(s)
      PROVE  (Return(s) \/ Throw(s) \/ Report(s)) /\ UNCHANGED enqueued
  BY <1>5 DEF Record, FailStatement, DigestDone, ReportOutcome, tableVars
<1>6. ASSUME NEW s \in Slots,
             \/ PostToEndpoint(s) \/ ListWorkspaces(s)
             \/ \E w \in Members : MailWorkspace(s, w)
      PROVE  UNCHANGED <<queueVars, enqueued>>
  BY <1>6 DEF PostToEndpoint, ListWorkspaces, MailWorkspace, tableVars
<1>7. ASSUME NEW j \in Jobs, Enqueue(j)
      PROVE  Add(j) /\ j \notin enqueued /\ enqueued' = enqueued \union {j}
  BY <1>7 DEF Enqueue
<1>8. ASSUME NEW j \in Jobs, LockExpires(j) PROVE Stall(j) /\ UNCHANGED enqueued
  BY <1>8 DEF LockExpires, tableVars
<1>9. ASSUME NEW e \in Endpoints, CreateEndpoint(e) \/ DeleteEndpoint(e)
      PROVE  UNCHANGED <<queueVars, enqueued>>
  BY <1>9 DEF CreateEndpoint, DeleteEndpoint
<1>10. CASE UNCHANGED workVars
  BY <1>10 DEF workVars, tableVars
<1> QED
  BY <1>1, <1>2, <1>3, <1>4, <1>5, <1>6, <1>7, <1>8, <1>9, <1>10 DEF WorkNext

\* Jobs in the queue, and in the hands of a slot, are known ids.
Known ==
  /\ enqueued \subseteq Jobs
  /\ \A j \in Jobs : job[j] # "absent" => j \in enqueued
  /\ \A s \in Slots : phase[s] # "idle" => slot[s] \in enqueued

LEMMA KnownStep ==
  ASSUME QueueInv, Known, [WorkNext]_workVars
  PROVE  Known' /\ enqueued \subseteq enqueued'
<1> USE DEF Known, QueueInv, QueueTypeOK, SlotsBusy
<1>1. CASE \E j \in Jobs : Add(j) /\ j \notin enqueued /\ enqueued' = enqueued \union {j}
  BY <1>1 DEF Add
<1>2. CASE /\ \/ \E j \in Jobs : Stall(j) \/ \E s \in Slots : Take(s, j)
              \/ \E s \in Slots : Return(s) \/ Throw(s) \/ Report(s) \/ Crash(s)
              \/ \E gone \in SUBSET Slots : CrashAll(gone)
              \/ UNCHANGED queueVars
           /\ UNCHANGED enqueued
  <2>1. /\ \A k \in Jobs : job'[k] # "absent" =>
              \/ job[k] # "absent"
              \/ \E s \in Slots : phase[s] # "idle" /\ slot[s] = k
        /\ \A s \in Slots : phase'[s] # "idle" =>
              \/ phase[s] # "idle" /\ slot'[s] = slot[s]
              \/ slot'[s] \in Jobs /\ job[slot'[s]] # "absent"
    BY <1>2, JobsComeFromAdd
  <2> QED
    BY <1>2, <2>1
<1> QED
  BY <1>1, <1>2, WorkQueueStep

\* The process's own counters stay within the list of its workers.
ProcOK ==
  /\ proc \in {"down", "booting", "ready", "draining"}
  /\ code \in {"none", "0", "1", "killed"}
  /\ up \in 0..Len(Order) /\ closing \in 0..(Len(Order) + 1) /\ boots \in 0..MaxBoots

LEMMA ProcStep ==
  ASSUME ProcOK, [WorkNext]_workVars
  PROVE  ProcOK'
<1> USE DEF ProcOK
<1>0. Len(Order) \in Nat /\ MaxBoots \in Nat
  BY WorkersAssumption
<1>1. CASE Boot \/ StartWorker \/ Listen \/ Shutdown \/ CloseNext
  BY <1>0, <1>1 DEF Boot, StartWorker, Listen, Shutdown, CloseNext
<1>2. CASE ExitDone \/ ExitForced \/ ExitKilled
  BY <1>0, <1>2 DEF ExitDone, ExitForced, ExitKilled, Exit
<1>3. CASE UNCHANGED procVars
  BY <1>3 DEF procVars
<1>4. CASE \/ \E s \in Slots :
                \/ \E j \in Jobs : Fetch(s, j)
                \/ ReadEndpoint(s) \/ PostToEndpoint(s) \/ Record(s) \/ FailStatement(s)
                \/ ListWorkspaces(s) \/ DigestDone(s) \/ ReportOutcome(s)
                \/ \E w \in Members : MailWorkspace(s, w)
           \/ \E j \in Jobs : Enqueue(j) \/ LockExpires(j)
           \/ \E e \in Endpoints : CreateEndpoint(e) \/ DeleteEndpoint(e)
           \/ UNCHANGED workVars
  BY <1>3, <1>4 DEF Fetch, ReadEndpoint, PostToEndpoint, Record, FailStatement,
     ListWorkspaces, DigestDone, ReportOutcome, MailWorkspace, Enqueue, LockExpires,
     CreateEndpoint, DeleteEndpoint, workVars, procVars
<1> QED
  BY <1>1, <1>2, <1>4 DEF WorkNext

\* What the handlers hold, and the tables they write.
Steps == {"none", "read", "post", "write", "list", "mail"}
HandlersOK ==
  /\ step \in [Slots -> Steps]
  /\ seen \in [Slots -> Nat] /\ answered \in [Slots -> BOOLEAN]
  /\ todo \in [Slots -> SUBSET Members]
  /\ endpoint \in [Endpoints -> Nat \union {-1, -2}]
  /\ failures \in [Endpoints -> Nat] /\ mails \in [Members -> Nat]
  /\ \A s \in Slots : step[s] # "none" <=> phase[s] = "running"
  /\ \A s \in Slots : phase[s] # "idle" => QueueOf[slot[s]] = WorkerOf[s]

LEMMA HandlersStep ==
  ASSUME QueueInv, HandlersOK, [WorkNext]_workVars
  PROVE  HandlersOK'
<1> USE DEF HandlersOK, Steps, QueueInv, QueueTypeOK, SlotsBusy, Phases
<1>1. CASE UNCHANGED <<runVars, endpoint, failures, mails, phase, slot>>
  BY <1>1 DEF runVars
<1>2. CASE Boot \/ StartWorker \/ Listen \/ Shutdown \/ CloseNext \/ UNCHANGED workVars
  BY <1>1, <1>2 DEF Boot, StartWorker, Listen, Shutdown, CloseNext, workVars, queueVars, tableVars
<1>3. CASE ExitDone \/ ExitForced \/ ExitKilled
  <2>1. /\ step' = [s \in Slots |-> "none"] /\ seen' = [s \in Slots |-> 0]
        /\ answered' = [s \in Slots |-> FALSE] /\ todo' = [s \in Slots |-> {}]
        /\ UNCHANGED <<endpoint, failures, mails>>
        /\ phase' = [s \in Slots |-> "idle"]
    BY <1>3 DEF ExitDone, ExitForced, ExitKilled, Exit, CrashAll, tableVars
  <2> QED
    BY <2>1
<1>4. ASSUME NEW s \in Slots, NEW j \in Jobs, Fetch(s, j) PROVE HandlersOK'
  BY <1>4 DEF Fetch, Take, tableVars
<1>5. ASSUME NEW s \in Slots, Return(s) \/ Throw(s), Ended(s),
             endpoint' \in [Endpoints -> Nat \union {-1, -2}],
             failures' \in [Endpoints -> Nat], UNCHANGED mails
      PROVE  HandlersOK'
  <2>1. /\ step' \in [Slots -> Steps] /\ seen' \in [Slots -> Nat]
        /\ answered' \in [Slots -> BOOLEAN] /\ todo' \in [Slots -> SUBSET Members]
    BY <1>5 DEF Ended
  <2>2. \A r \in Slots : step'[r] # "none" <=> phase'[r] = "running"
    BY <1>5 DEF Ended, Return, Throw
  <2>3. \A r \in Slots : phase'[r] # "idle" => QueueOf[slot'[r]] = WorkerOf[r]
    BY <1>5 DEF Return, Throw
  <2> QED
    BY <1>5, <2>1, <2>2, <2>3
<1>6. ASSUME NEW s \in Slots, ReadEndpoint(s) PROVE HandlersOK'
  <2>1. CASE Return(s) /\ Ended(s)
    BY <1>5, <1>6, <2>1 DEF ReadEndpoint, tableVars
  <2>2. CASE ~(Return(s) /\ Ended(s))
    <3>1. /\ step[s] = "read" /\ There(EndpointFor(s))
          /\ step' = [step EXCEPT ![s] = "post"]
          /\ seen' = [seen EXCEPT ![s] = endpoint[EndpointFor(s)]]
          /\ UNCHANGED <<phase, slot, answered, todo, endpoint, failures, mails>>
      BY <1>6, <2>2 DEF ReadEndpoint, queueVars, tableVars
    <3>2. endpoint[EndpointFor(s)] \in Nat
      BY <3>1 DEF There
    <3> QED
      BY <3>1, <3>2
  <2> QED
    BY <2>1, <2>2
<1>7. ASSUME NEW s \in Slots, PostToEndpoint(s) PROVE HandlersOK'
  BY <1>7 DEF PostToEndpoint, queueVars, tableVars
<1>8. ASSUME NEW s \in Slots, Record(s) PROVE HandlersOK'
  <2> DEFINE e == EndpointFor(s)
  <2>1. /\ endpoint' = [endpoint EXCEPT ![e] = IF answered[s] THEN 0 ELSE seen[s] + 1]
        /\ failures' = [failures EXCEPT ![e] = IF answered[s] THEN @ ELSE @ + 1]
        /\ Return(s) /\ Ended(s) /\ UNCHANGED mails
    BY <1>8 DEF Record
  <2>2. (IF answered[s] THEN 0 ELSE seen[s] + 1) \in Nat
    OBVIOUS
  <2> HIDE DEF e
  <2>3. endpoint' \in [Endpoints -> Nat \union {-1, -2}]
    BY <2>1, <2>2
  <2>4. failures' \in [Endpoints -> Nat]
    <3>1. CASE answered[s]
      BY <2>1, <3>1
    <3>2. CASE ~answered[s]
      <4>1. failures' = [failures EXCEPT ![e] = @ + 1]
        BY <2>1, <3>2
      <4>2. e \in Endpoints => failures[e] + 1 \in Nat
        OBVIOUS
      <4> QED
        BY <4>1, <4>2
    <3> QED
      BY <3>1, <3>2
  <2>5. (Return(s) \/ Throw(s)) /\ Ended(s) /\ UNCHANGED mails
    BY <2>1
  <2> HIDE DEF HandlersOK
  <2> QED
    BY <1>5, <2>3, <2>4, <2>5, Zenon
<1>9. ASSUME NEW s \in Slots, FailStatement(s) \/ DigestDone(s) PROVE HandlersOK'
  BY <1>5, <1>9 DEF FailStatement, DigestDone, tableVars
<1>10. ASSUME NEW s \in Slots, ListWorkspaces(s) PROVE HandlersOK'
  BY <1>10 DEF ListWorkspaces, queueVars, tableVars
<1>11. ASSUME NEW s \in Slots, NEW w \in Members, MailWorkspace(s, w) PROVE HandlersOK'
  <2>1. /\ todo' = [todo EXCEPT ![s] = @ \ {w}]
        /\ UNCHANGED <<step, seen, answered, endpoint, failures, phase, slot>>
    BY <1>11 DEF MailWorkspace, queueVars
  <2>2. PICK sent \in {0, 1} : mails' = [mails EXCEPT ![w] = @ + sent]
    BY <1>11 DEF MailWorkspace
  <2>3. mails' \in [Members -> Nat]
    BY <2>2
  <2>4. todo' \in [Slots -> SUBSET Members]
    BY <2>1
  <2> QED
    BY <2>1, <2>3, <2>4
<1>12. ASSUME NEW s \in Slots, ReportOutcome(s) PROVE HandlersOK'
  BY <1>12 DEF ReportOutcome, Report, runVars, tableVars
<1>13. ASSUME NEW j \in Jobs, Enqueue(j) \/ LockExpires(j) PROVE HandlersOK'
  <2>1. UNCHANGED <<runVars, endpoint, failures, mails, phase, slot>>
    BY <1>13 DEF Enqueue, LockExpires, Add, Stall, tableVars
  <2> QED
    BY <1>1, <2>1
<1>14. ASSUME NEW e \in Endpoints, CreateEndpoint(e) \/ DeleteEndpoint(e) PROVE HandlersOK'
  <2>0. -2 \in Nat \union {-1, -2} /\ 0 \in Nat \union {-1, -2} /\ 0 \in Nat
    OBVIOUS
  <2>1. endpoint' \in [Endpoints -> Nat \union {-1, -2}] /\ failures' \in [Endpoints -> Nat]
    <3>1. CASE CreateEndpoint(e)
      BY <2>0, <3>1 DEF CreateEndpoint
    <3>2. CASE DeleteEndpoint(e)
      <4>1. endpoint' = [endpoint EXCEPT ![e] = -2] /\ failures' = [failures EXCEPT ![e] = 0]
        BY <3>2 DEF DeleteEndpoint
      <4>2. endpoint' \in [Endpoints -> Nat \union {-1, -2}]
        BY <2>0, <4>1
      <4>3. failures' \in [Endpoints -> Nat]
        BY <2>0, <4>1
      <4> QED
        BY <4>2, <4>3
    <3> QED
      BY <1>14, <3>1, <3>2
  <2>2. UNCHANGED <<step, seen, answered, todo, mails, phase, slot>>
    BY <1>14 DEF CreateEndpoint, DeleteEndpoint, queueVars, runVars
  <2> QED
    BY <2>1, <2>2, Zenon
<1> QED
  BY <1>2, <1>3, <1>4, <1>6, <1>7, <1>8, <1>9, <1>10, <1>11, <1>12, <1>13, <1>14 DEF WorkNext

\* The types, and all that relates a slot to its job.
Typed == QueueInv /\ Consistent /\ Known /\ ProcOK /\ HandlersOK

LEMMA TypedStep ==
  ASSUME Typed, [WorkNext]_workVars
  PROVE  Typed'
<1>1. QueueInv' /\ Consistent'
  <2>1. \/ \E j \in Jobs : Add(j) \/ Stall(j) \/ \E s \in Slots : Take(s, j)
        \/ \E s \in Slots : Return(s) \/ Throw(s) \/ Report(s) \/ Crash(s)
        \/ \E gone \in SUBSET Slots : CrashAll(gone)
        \/ UNCHANGED queueVars
    BY WorkQueueStep
  <2> QED
    BY <2>1, QueueStep, ConsistentStep DEF Typed
<1> QED
  BY <1>1, KnownStep, ProcStep, HandlersStep DEF Typed

LEMMA TypedStarts == WorkInit => Typed
<1> SUFFICES ASSUME WorkInit PROVE Typed
  OBVIOUS
<1>1. QueueInv /\ Consistent
  BY QueueStarts, ConsistentStarts DEF WorkInit
<1>2. Known
  BY DEF WorkInit, QueueInit, Known
<1>3. ProcOK
  BY WorkersAssumption DEF WorkInit, ProcOK
<1>4. HandlersOK
  BY DEF WorkInit, QueueInit, HandlersOK, Steps
<1> QED
  BY <1>1, <1>2, <1>3, <1>4 DEF Typed

\* Every reachable state of the process, its handlers and its queue is well typed.
THEOREM WorkTypes == WorkSpec => []WorkTypeOK
<1>1. Typed => WorkTypeOK
  BY DEF Typed, QueueInv, Known, ProcOK, HandlersOK, Steps, WorkTypeOK, SlotsBusy
<1> QED
  BY <1>1, TypedStarts, TypedStep, PTL DEF WorkSpec

---------------------------------------------------------------------------
(* What an endpoint shows.                                                 *)

\* A handler between its reading and its writing has read the count of an
\* endpoint that existed, and no more than the failures recorded by now.
Reading(s) == step[s] \in {"post", "write"}
SeenWitnessed ==
  \A s \in Slots, e \in Endpoints :
    Reading(s) /\ e = EndpointFor(s) =>
      endpoint[e] # -1 /\ (There(e) => seen[s] <= failures[e])

Witnessed == FailuresWitnessed /\ SeenWitnessed

LEMMA WitnessedStep ==
  ASSUME Typed, Witnessed, [WorkNext]_workVars
  PROVE  Witnessed'
<1> USE DEF Witnessed, FailuresWitnessed, SeenWitnessed, Reading, EndpointFor, There
<1>0. HandlersOK /\ HandlersOK' /\ QueueInv
  BY TypedStep DEF Typed
<1>1. ASSUME UNCHANGED <<endpoint, failures>>,
             \A s \in Slots : Reading(s)' =>
               Reading(s) /\ seen'[s] = seen[s] /\ slot'[s] = slot[s]
      PROVE  Witnessed'
  BY <1>1
<1>2. CASE Boot \/ StartWorker \/ Listen \/ Shutdown \/ CloseNext \/ UNCHANGED workVars
  BY <1>1, <1>2 DEF Boot, StartWorker, Listen, Shutdown, CloseNext, workVars, runVars,
     queueVars, tableVars
<1>3. CASE ExitDone \/ ExitForced \/ ExitKilled
  <2>1. step' = [s \in Slots |-> "none"] /\ UNCHANGED <<endpoint, failures>>
    BY <1>3 DEF ExitDone, ExitForced, ExitKilled, Exit, tableVars
  <2> QED
    BY <1>1, <2>1
<1>4. ASSUME NEW s \in Slots, NEW j \in Jobs, Fetch(s, j) PROVE Witnessed'
  <2>1. /\ step' = [step EXCEPT ![s] = IF WorkerOf[s] = "digest" THEN "list" ELSE "read"]
        /\ slot' = [slot EXCEPT ![s] = j] /\ UNCHANGED <<seen, endpoint, failures>>
    BY <1>4 DEF Fetch, Take, tableVars
  <2>2. ~Reading(s)'
    BY <1>0, <2>1 DEF HandlersOK
  <2>3. \A r \in Slots \ {s} : step'[r] = step[r] /\ slot'[r] = slot[r]
    BY <1>0, <2>1 DEF HandlersOK, QueueInv, QueueTypeOK
  <2> QED
    BY <1>1, <2>1, <2>2, <2>3
\* A handler that ends without touching the tables.
<1>5. ASSUME NEW s \in Slots, Ended(s), UNCHANGED slot
      PROVE  \A r \in Slots : Reading(r)' =>
               r # s /\ Reading(r) /\ seen'[r] = seen[r] /\ slot'[r] = slot[r]
  BY <1>0, <1>5 DEF Ended, HandlersOK
<1>6. ASSUME NEW s \in Slots, FailStatement(s) \/ DigestDone(s) PROVE Witnessed'
  <2>1. Ended(s) /\ UNCHANGED <<slot, endpoint, failures>>
    BY <1>6 DEF FailStatement, DigestDone, Return, Throw, tableVars
  <2> QED
    BY <1>1, <1>5, <2>1
<1>7. ASSUME NEW s \in Slots, ReadEndpoint(s) PROVE Witnessed'
  <2>1. CASE Return(s) /\ Ended(s)
    <3>1. UNCHANGED <<slot, endpoint, failures>>
      BY <1>7, <2>1 DEF ReadEndpoint, Return, tableVars
    <3> QED
      BY <1>1, <1>5, <2>1, <3>1
  <2>2. CASE ~(Return(s) /\ Ended(s))
    <3>1. /\ There(EndpointFor(s))
          /\ step' = [step EXCEPT ![s] = "post"]
          /\ seen' = [seen EXCEPT ![s] = endpoint[EndpointFor(s)]]
          /\ UNCHANGED <<slot, endpoint, failures>>
      BY <1>7, <2>2 DEF ReadEndpoint, queueVars, tableVars
    <3>2. \A r \in Slots \ {s} : step'[r] = step[r] /\ seen'[r] = seen[r]
      BY <1>0, <3>1 DEF HandlersOK
    <3>3. seen'[s] = endpoint[EndpointFor(s)]
      BY <1>0, <3>1 DEF HandlersOK
    <3>4. ASSUME NEW e \in Endpoints, e = EndpointFor(s)
          PROVE  endpoint[e] # -1 /\ seen'[s] <= failures[e]
      BY <3>1, <3>3, <3>4
    <3> QED
      BY <3>1, <3>2, <3>4
  <2> QED
    BY <2>1, <2>2
<1>8. ASSUME NEW s \in Slots, PostToEndpoint(s) \/ ListWorkspaces(s) PROVE Witnessed'
  <2>1. UNCHANGED <<slot, seen, endpoint, failures>>
    BY <1>8 DEF PostToEndpoint, ListWorkspaces, queueVars, tableVars
  <2>2. \A r \in Slots : Reading(r)' => Reading(r)
    BY <1>0, <1>8 DEF PostToEndpoint, ListWorkspaces, HandlersOK
  <2> QED
    BY <1>1, <2>1, <2>2
<1>9. ASSUME NEW s \in Slots, Record(s) PROVE Witnessed'
  <2> DEFINE e == EndpointFor(s)
  <2>1. /\ Reading(s) /\ There(e) /\ Ended(s) /\ UNCHANGED slot
        /\ endpoint' = [endpoint EXCEPT ![e] = IF answered[s] THEN 0 ELSE seen[s] + 1]
        /\ failures' = [failures EXCEPT ![e] = IF answered[s] THEN @ ELSE @ + 1]
    BY <1>9 DEF Record, Return
  <2>2. e \in Endpoints => seen[s] <= failures[e] /\ seen[s] \in Nat /\ failures[e] \in Nat
    BY <1>0, <2>1 DEF HandlersOK
  <2>3. \A r \in Slots : Reading(r)' => Reading(r) /\ seen'[r] = seen[r] /\ slot'[r] = slot[r]
    BY <1>5, <2>1
  <2> HIDE DEF e
  <2>4. ASSUME NEW d \in Endpoints, d # e
        PROVE  endpoint'[d] = endpoint[d] /\ failures'[d] = failures[d]
    BY <1>0, <2>1, <2>4 DEF HandlersOK
  <2>5. ASSUME e \in Endpoints
        PROVE  /\ endpoint'[e] \in Nat /\ endpoint'[e] <= failures'[e]
               /\ failures[e] <= failures'[e] /\ failures[e] \in Nat /\ failures'[e] \in Nat
    <3>1. CASE answered[s]
      <4>1. endpoint' = [endpoint EXCEPT ![e] = 0] /\ failures' = [failures EXCEPT ![e] = @]
        BY <2>1, <3>1
      <4> QED
        BY <1>0, <2>5, <4>1 DEF HandlersOK
    <3>2. CASE ~answered[s]
      <4>1. /\ endpoint' = [endpoint EXCEPT ![e] = seen[s] + 1]
            /\ failures' = [failures EXCEPT ![e] = @ + 1]
        BY <2>1, <3>2
      <4> QED
        BY <1>0, <2>2, <2>5, <4>1 DEF HandlersOK
    <3> QED
      BY <3>1, <3>2
  <2>6. FailuresWitnessed'
    BY <2>4, <2>5
  <2>7. ASSUME NEW r \in Slots, NEW d \in Endpoints, Reading(r)', d = EndpointFor(r)'
        PROVE  endpoint'[d] # -1 /\ (There(d)' => seen'[r] <= failures'[d])
    <3>1. Reading(r) /\ seen'[r] = seen[r] /\ d = EndpointFor(r)
      BY <2>3, <2>7
    <3>2. CASE d = e
      <4>1. There(d) /\ seen[r] <= failures[d] /\ seen[r] \in Nat
        BY <1>0, <2>1, <3>1, <3>2 DEF HandlersOK
      <4> QED
        BY <2>5, <3>1, <3>2, <4>1
    <3>3. CASE d # e
      BY <2>4, <3>1, <3>3
    <3> QED
      BY <3>2, <3>3
  <2> QED
    BY <2>6, <2>7
<1>10. ASSUME NEW s \in Slots, NEW w \in Members, MailWorkspace(s, w) PROVE Witnessed'
  BY <1>1, <1>10 DEF MailWorkspace, queueVars
<1>11. ASSUME NEW s \in Slots, ReportOutcome(s) PROVE Witnessed'
  <2>1. UNCHANGED <<step, seen, endpoint, failures>>
    BY <1>11 DEF ReportOutcome, runVars, tableVars
  <2>2. step[s] = "none" /\ slot' = [slot EXCEPT ![s] = NoJob]
    BY <1>0, <1>11 DEF ReportOutcome, Report, HandlersOK
  <2>3. \A r \in Slots : Reading(r)' => Reading(r) /\ slot'[r] = slot[r]
    BY <1>0, <2>1, <2>2 DEF QueueInv, QueueTypeOK
  <2> QED
    BY <1>1, <2>1, <2>3
<1>12. ASSUME NEW j \in Jobs, Enqueue(j) \/ LockExpires(j) PROVE Witnessed'
  <2>1. UNCHANGED <<step, seen, slot, endpoint, failures>>
    BY <1>12 DEF Enqueue, LockExpires, Add, Stall, runVars, tableVars
  <2> QED
    BY <1>1, <2>1
<1>13. ASSUME NEW e \in Endpoints, CreateEndpoint(e) PROVE Witnessed'
  <2>1. /\ endpoint[e] = -1 /\ endpoint' = [endpoint EXCEPT ![e] = 0]
        /\ UNCHANGED <<step, seen, slot, failures>>
    BY <1>13 DEF CreateEndpoint, queueVars, runVars
  <2>2. failures[e] \in Nat /\ endpoint'[e] = 0
    BY <1>0, <2>1 DEF HandlersOK
  <2>3. \A d \in Endpoints \ {e} : endpoint'[d] = endpoint[d]
    BY <1>0, <2>1 DEF HandlersOK
  <2>4. \A s \in Slots : Reading(s) => EndpointFor(s) # e
    BY <2>1
  <2> QED
    BY <2>1, <2>2, <2>3, <2>4
<1>14. ASSUME NEW e \in Endpoints, DeleteEndpoint(e) PROVE Witnessed'
  <2>1. /\ endpoint' = [endpoint EXCEPT ![e] = -2] /\ failures' = [failures EXCEPT ![e] = 0]
        /\ UNCHANGED <<step, seen, slot>>
    BY <1>14 DEF DeleteEndpoint, queueVars, runVars
  <2>2. endpoint'[e] = -2
    BY <1>0, <2>1 DEF HandlersOK
  <2>3. \A d \in Endpoints \ {e} : endpoint'[d] = endpoint[d] /\ failures'[d] = failures[d]
    BY <1>0, <2>1 DEF HandlersOK
  <2>4. -2 \notin Nat /\ -2 # -1
    OBVIOUS
  <2> QED
    BY <2>1, <2>2, <2>3, <2>4
<1> QED
  BY <1>2, <1>3, <1>4, <1>6, <1>7, <1>8, <1>9, <1>10, <1>11, <1>12, <1>13, <1>14 DEF WorkNext

\* The count an endpoint shows never exceeds the failed deliveries recorded for
\* it, although overlapping handlers write back what they read before a call.
THEOREM CountsAreWitnessed == WorkSpec => []FailuresWitnessed
<1>1. WorkInit => Witnessed
  BY DEF WorkInit, Witnessed, FailuresWitnessed, SeenWitnessed, Reading, There
<1>2. Witnessed => FailuresWitnessed
  BY DEF Witnessed
<1> QED
  BY <1>1, <1>2, TypedStarts, TypedStep, WitnessedStep, PTL DEF WorkSpec

---------------------------------------------------------------------------
(* An exit after a drain.                                                  *)

\* While a process drains, the workers it is through with are idle: they have
\* ended what they ran, and take nothing new.
Drained ==
  proc = "draining" =>
    \A s \in Slots : PlaceOf(WorkerOf[s]) < closing => phase[s] = "idle"

LEMMA SlotsHavePlaces ==
  \A s \in Slots : PlaceOf(WorkerOf[s]) \in Places /\ Order[PlaceOf(WorkerOf[s])] = WorkerOf[s]
BY WorkersAssumption DEF PlaceOf

LEMMA DrainedStep ==
  ASSUME Typed, Drained, [WorkNext]_workVars
  PROVE  Drained'
<1> USE DEF Drained
<1>0. /\ QueueTypeOK /\ ProcOK /\ Len(Order) \in Nat
      /\ \A s \in Slots : step[s] # "none" <=> phase[s] = "running"
  BY WorkersAssumption DEF Typed, QueueInv, HandlersOK
<1>1. ASSUME proc' = "draining" => proc = "draining" /\ closing' = closing,
             \A s \in Slots : phase[s] = "idle" => phase'[s] = "idle"
      PROVE  Drained'
  BY <1>1
<1>2. ASSUME NEW s \in Slots, Return(s) \/ Throw(s) \/ Report(s)
      PROVE  \A r \in Slots : phase[r] = "idle" => phase'[r] = "idle"
  BY <1>0, <1>2 DEF Return, Throw, Report, QueueTypeOK
<1>3. CASE Boot \/ StartWorker \/ Listen \/ UNCHANGED workVars
  BY <1>1, <1>3 DEF Boot, StartWorker, Listen, workVars, queueVars, procVars
<1>4. CASE Shutdown
  <2>1. closing' = 1
    BY <1>4 DEF Shutdown
  <2> QED
    BY <1>0, <2>1, SlotsHavePlaces DEF Places
<1>5. CASE CloseNext
  <2>1. /\ proc = "draining" /\ ~Busy(Order[closing]) /\ closing' = closing + 1
        /\ closing \in Nat /\ UNCHANGED phase
    BY <1>0, <1>5 DEF CloseNext, queueVars, ProcOK
  <2>2. ASSUME NEW s \in Slots, PlaceOf(WorkerOf[s]) < closing'
        PROVE  phase[s] = "idle"
    <3>1. PlaceOf(WorkerOf[s]) < closing \/ PlaceOf(WorkerOf[s]) = closing
      BY <1>0, <2>1, <2>2, SlotsHavePlaces DEF Places
    <3>2. CASE PlaceOf(WorkerOf[s]) = closing
      <4>1. WorkerOf[s] = Order[closing]
        BY <3>2, SlotsHavePlaces
      <4> QED
        BY <2>1, <4>1 DEF Busy
    <3> QED
      BY <2>1, <3>1, <3>2
  <2> QED
    BY <2>1, <2>2
<1>6. CASE ExitDone \/ ExitForced \/ ExitKilled
  BY <1>6 DEF ExitDone, ExitForced, ExitKilled, Exit
<1>7. ASSUME NEW s \in Slots, NEW j \in Jobs, Fetch(s, j) PROVE Drained'
  <2>1. /\ phase' = [phase EXCEPT ![s] = "running"] /\ UNCHANGED <<proc, closing>>
        /\ proc = "draining" => PlaceOf(WorkerOf[s]) > closing
    BY <1>7 DEF Fetch, Take, Listening, procVars
  <2>2. \A r \in Slots \ {s} : phase'[r] = phase[r]
    BY <1>0, <2>1 DEF QueueTypeOK
  <2>3. proc = "draining" => ~(PlaceOf(WorkerOf[s]) < closing)
    BY <1>0, <2>1, SlotsHavePlaces DEF Places, ProcOK
  <2> QED
    BY <2>1, <2>2, <2>3
<1>8. ASSUME NEW s \in Slots,
             \/ ReadEndpoint(s) \/ PostToEndpoint(s) \/ Record(s) \/ FailStatement(s)
             \/ ListWorkspaces(s) \/ DigestDone(s) \/ ReportOutcome(s)
             \/ \E w \in Members : MailWorkspace(s, w)
      PROVE  Drained'
  <2>1. /\ Return(s) \/ Throw(s) \/ Report(s) \/ UNCHANGED queueVars
        /\ UNCHANGED procVars
    BY <1>8 DEF ReadEndpoint, PostToEndpoint, Record, FailStatement, ListWorkspaces,
       DigestDone, ReportOutcome, MailWorkspace
  <2> QED
    BY <1>1, <1>2, <2>1 DEF queueVars, procVars
<1>9. ASSUME NEW j \in Jobs, Enqueue(j) \/ LockExpires(j) PROVE Drained'
  BY <1>1, <1>9 DEF Enqueue, LockExpires, Add, Stall, procVars
<1>10. ASSUME NEW e \in Endpoints, CreateEndpoint(e) \/ DeleteEndpoint(e) PROVE Drained'
  BY <1>1, <1>10 DEF CreateEndpoint, DeleteEndpoint, queueVars, procVars
<1> QED
  BY <1>3, <1>4, <1>5, <1>6, <1>7, <1>8, <1>9, <1>10 DEF WorkNext

LEMMA OnlyDoneExitsCleanly ==
  ASSUME proc = "draining", proc' = "down", code' = "0", [WorkNext]_workVars
  PROVE  ExitDone
<1>1. CASE Boot \/ StartWorker \/ Listen \/ Shutdown \/ CloseNext
  BY <1>1 DEF Boot, StartWorker, Listen, Shutdown, CloseNext
<1>2. CASE ExitForced \/ ExitKilled
  BY <1>2 DEF ExitForced, ExitKilled, Exit
<1>3. CASE \/ \E s \in Slots :
                \/ \E j \in Jobs : Fetch(s, j)
                \/ ReadEndpoint(s) \/ PostToEndpoint(s) \/ Record(s) \/ FailStatement(s)
                \/ ListWorkspaces(s) \/ DigestDone(s) \/ ReportOutcome(s)
                \/ \E w \in Members : MailWorkspace(s, w)
           \/ \E j \in Jobs : Enqueue(j) \/ LockExpires(j)
           \/ \E e \in Endpoints : CreateEndpoint(e) \/ DeleteEndpoint(e)
           \/ UNCHANGED workVars
  BY <1>3 DEF Fetch, ReadEndpoint, PostToEndpoint, Record, FailStatement,
     ListWorkspaces, DigestDone, ReportOutcome, MailWorkspace, Enqueue, LockExpires,
     CreateEndpoint, DeleteEndpoint, workVars, procVars
<1> QED
  BY <1>1, <1>2, <1>3 DEF WorkNext

\* A process that exits with 0 after a drain cuts no handler off: all slots are
\* idle, those of workers closed early included.
THEOREM CleanExitsAreDrained == WorkSpec => ExitCleanly
<1>1. WorkInit => Drained
  BY DEF WorkInit, Drained
<1>2. Typed /\ Drained /\ [WorkNext]_workVars =>
        [proc = "draining" /\ proc' = "down" /\ code' = "0"
           => \A s \in Slots : phase[s] = "idle"]_workVars
  <2> SUFFICES ASSUME Typed, Drained, [WorkNext]_workVars,
                      proc = "draining", proc' = "down", code' = "0"
               PROVE  \A s \in Slots : phase[s] = "idle"
    OBVIOUS
  <2>1. closing = Len(Order) + 1 /\ Len(Order) \in Nat
    BY OnlyDoneExitsCleanly, WorkersAssumption DEF ExitDone
  <2>2. \A s \in Slots : PlaceOf(WorkerOf[s]) < closing
    BY <2>1, SlotsHavePlaces DEF Places
  <2> QED
    BY <2>2 DEF Drained
<1> QED
  BY <1>1, <1>2, TypedStarts, TypedStep, DrainedStep, PTL DEF WorkSpec, ExitCleanly

---------------------------------------------------------------------------
(* Digests.                                                                *)

\* The runs the ticks have been given so far: of a tick in the queue, one for
\* each stall and the present one, of a tick forgotten, perhaps all of them.
Spent ==
  {r \in DigestJobs \X (0..MaxStalled) :
     /\ r[1] \in enqueued
     /\ \/ job[r[1]] = "absent"
        \/ r[2] < stalls[r[1]]
        \/ job[r[1]] # "waiting" /\ r[2] = stalls[r[1]]}

\* The runs that may still mail workspace w.
Pending(w) == {s \in Slots : step[s] = "list" \/ (step[s] = "mail" /\ w \in todo[s])}

\* Every mail a workspace got, and may still get from the runs in hand, is of a
\* run of its own.
RunsCover ==
  /\ IsFiniteSet(enqueued)
  /\ \A w \in Members : mails[w] + Cardinality(Pending(w)) <= Cardinality(Spent)

LEMMA FinitelyMany ==
  ASSUME IsFiniteSet(enqueued)
  PROVE  /\ IsFiniteSet(Spent)
         /\ Cardinality(Spent) <= (1 + MaxStalled) * Cardinality(DigestJobs \intersect enqueued)
<1> DEFINE ticks == DigestJobs \intersect enqueued
<1> DEFINE all == ticks \X (0..MaxStalled)
<1>0. MaxStalled \in Nat
  BY QueueAssumption
<1>1. IsFiniteSet(ticks) /\ Cardinality(ticks) \in Nat
  <2>1. ticks \subseteq enqueued
    OBVIOUS
  <2>2. IsFiniteSet(ticks)
    BY <2>1, FS_Subset
  <2> QED
    BY <2>2, FS_CardinalityType
<1>2. IsFiniteSet(0..MaxStalled) /\ Cardinality(0..MaxStalled) = MaxStalled + 1
  BY <1>0, FS_Interval
<1> HIDE DEF ticks
<1>3. IsFiniteSet(all) /\ Cardinality(all) = Cardinality(ticks) * (MaxStalled + 1)
  BY <1>1, <1>2, FS_Product
<1>4. Spent \subseteq all
  BY DEF Spent, ticks
<1> HIDE DEF all
<1>5. IsFiniteSet(Spent) /\ Cardinality(Spent) <= Cardinality(all)
  BY <1>3, <1>4, FS_Subset
<1>6. Cardinality(ticks) * (MaxStalled + 1) = (1 + MaxStalled) * Cardinality(ticks)
  BY <1>0, <1>1
<1> QED
  BY <1>3, <1>5, <1>6 DEF ticks

LEMMA PendingFinite == \A w \in Members : IsFiniteSet(Pending(w)) /\ Cardinality(Pending(w)) \in Nat
<1> TAKE w \in Members
<1>1. Pending(w) \subseteq Slots
  BY DEF Pending
<1>2. IsFiniteSet(Pending(w))
  BY <1>1, QueueAssumption, FS_Subset
<1> QED
  BY <1>2, FS_CardinalityType

\* No step of the queue gives a run back.
LEMMA SpentGrows ==
  ASSUME Typed, [WorkNext]_workVars
  PROVE  Spent \subseteq Spent'
<1> USE DEF Spent, Typed, QueueInv, QueueTypeOK, Known
<1>0. enqueued \subseteq enqueued'
  BY KnownStep
<1>1. ASSUME UNCHANGED <<job, stalls>> PROVE Spent \subseteq Spent'
  BY <1>0, <1>1
\* A job that ends keeps its runs, and one that is forgotten counts all of them.
<1>2. ASSUME NEW j \in Jobs, job[j] = "active", Complete(j) \/ Fail(j)
      PROVE  Spent \subseteq Spent'
  <2>1. ASSUME NEW gone, NEW state \in {"completed", "failed"}, Forget(gone, state, j),
               NEW r \in Spent
        PROVE  \/ job'[r[1]] = "absent"
               \/ r[2] < stalls'[r[1]]
               \/ job'[r[1]] # "waiting" /\ r[2] = stalls'[r[1]]
    <3>1. /\ r[1] \in Jobs
          /\ \/ job[r[1]] = "absent" \/ r[2] < stalls[r[1]]
             \/ job[r[1]] # "waiting" /\ r[2] = stalls[r[1]]
      BY DEF DigestJobs
    <3>2. /\ job'[r[1]] = IF r[1] \in gone THEN "absent" ELSE IF r[1] = j THEN state ELSE job[r[1]]
          /\ stalls'[r[1]] = IF r[1] \in gone THEN 0 ELSE stalls[r[1]]
      BY <2>1, <3>1 DEF Forget
    <3> HIDE DEF Spent
    <3> QED
      BY <1>2, <3>1, <3>2
  <2>2. \A r \in Spent : \/ job'[r[1]] = "absent" \/ r[2] < stalls'[r[1]]
                         \/ job'[r[1]] # "waiting" /\ r[2] = stalls'[r[1]]
    <3>1. CASE Complete(j)
      <4>1. Forget(Evicted(completed, j, KeepCompleted[j]), "completed", j)
        BY <3>1 DEF Complete
      <4> HIDE DEF Spent
      <4> QED
        BY <2>1, <4>1
    <3>2. CASE Fail(j)
      <4>1. Forget(Evicted(failed, j, KeepFailed[j]), "failed", j)
        BY <3>2 DEF Fail
      <4> HIDE DEF Spent
      <4> QED
        BY <2>1, <4>1
    <3> QED
      BY <1>2, <3>1, <3>2
  <2> QED
    BY <1>0, <2>2
<1>3. ASSUME NEW j \in Jobs, Add(j), j \notin enqueued, enqueued' = enqueued \union {j}
      PROVE  Spent \subseteq Spent'
  <2>1. \A r \in Spent : r[1] \in Jobs /\ r[1] # j
    BY <1>3 DEF DigestJobs
  <2> QED
    BY <1>0, <1>3, <2>1 DEF Add
<1>4. ASSUME NEW j \in Jobs, Stall(j) PROVE Spent \subseteq Spent'
  <2>1. CASE stalls[j] < MaxStalled /\ ~Fail(j)
    <3>1. /\ job[j] = "active" /\ stalls' = [stalls EXCEPT ![j] = @ + 1]
          /\ job' = [job EXCEPT ![j] = "waiting"]
      BY <1>4, <2>1 DEF Stall
    <3>2. ASSUME NEW r \in Spent
          PROVE  \/ job'[r[1]] = "absent" \/ r[2] < stalls'[r[1]]
                 \/ job'[r[1]] # "waiting" /\ r[2] = stalls'[r[1]]
      <4>1. r[1] \in Jobs /\ r[2] \in 0..MaxStalled
        BY DEF DigestJobs
      <4>2. CASE r[1] = j
        <5>1. stalls'[j] = stalls[j] + 1 /\ stalls[j] \in 0..MaxStalled
          BY <3>1
        <5>2. r[2] <= stalls[j]
          BY <3>1, <4>1, <4>2, <5>1
        <5> QED
          BY <4>1, <4>2, <5>1, <5>2, QueueAssumption
      <4>3. CASE r[1] # j
        BY <3>1, <4>1, <4>3
      <4> QED
        BY <4>2, <4>3
    <3> QED
      BY <1>0, <3>2
  <2> QED
    BY <1>2, <1>4, <2>1 DEF Stall
<1>5. ASSUME NEW s \in Slots, NEW j \in Jobs, Take(s, j) PROVE Spent \subseteq Spent'
  <2>1. \A r \in Spent : r[1] \in Jobs
    BY DEF DigestJobs
  <2> QED
    BY <1>0, <1>5, <2>1 DEF Take
<1>6. ASSUME NEW s \in Slots, Report(s) PROVE Spent \subseteq Spent'
  <2>1. slot[s] \in Jobs
    BY <1>6 DEF Report, SlotsBusy
  <2>2. owner[slot[s]] = s => job[slot[s]] = "active"
    BY <2>1, QueueAssumption DEF Consistent
  <2>3. \/ UNCHANGED <<job, stalls>>
        \/ owner[slot[s]] = s /\ (Complete(slot[s]) \/ Fail(slot[s]))
    BY <1>6 DEF Report, storeVars
  <2> QED
    BY <1>1, <1>2, <2>1, <2>2, <2>3
<1>7. ASSUME \/ \E s \in Slots : Return(s) \/ Throw(s) \/ Crash(s)
             \/ \E gone \in SUBSET Slots : CrashAll(gone)
             \/ UNCHANGED queueVars
      PROVE  Spent \subseteq Spent'
  BY <1>1, <1>7 DEF Return, Throw, Crash, CrashAll, storeVars, queueVars
<1> QED
  BY <1>1, <1>3, <1>4, <1>5, <1>6, <1>7, WorkQueueStep

LEMMA RunsCoverStep ==
  ASSUME Typed, RunsCover, [WorkNext]_workVars
  PROVE  RunsCover'
<1>0. HandlersOK /\ HandlersOK' /\ QueueInv /\ Known
  BY TypedStep DEF Typed
<1>1. IsFiniteSet(enqueued')
  <2>1. ASSUME NEW j \in Jobs PROVE IsFiniteSet(enqueued \union {j})
    BY FS_AddElement DEF RunsCover
  <2> QED
    BY <2>1, WorkQueueStep DEF RunsCover
<1>2. /\ IsFiniteSet(Spent) /\ Cardinality(Spent) \in Nat
      /\ IsFiniteSet(Spent') /\ Cardinality(Spent') \in Nat
  <2>1. IsFiniteSet(Spent)
    BY FinitelyMany DEF RunsCover
  <2>2. IsFiniteSet(Spent')
    <3>1. enqueued' \subseteq Jobs /\ IsFiniteSet(DigestJobs \intersect enqueued')
      <4>1. DigestJobs \intersect enqueued' \subseteq enqueued'
        OBVIOUS
      <4> QED
        BY <1>1, <4>1, FS_Subset, KnownStep DEF Typed, Known
    <3>2. IsFiniteSet((DigestJobs \intersect enqueued') \X (0..MaxStalled))
      <4>1. IsFiniteSet(0..MaxStalled)
        BY QueueAssumption, FS_Interval
      <4> QED
        BY <3>1, <4>1, FS_Product
    <3>3. Spent' \subseteq (DigestJobs \intersect enqueued') \X (0..MaxStalled)
      BY DEF Spent
    <3> QED
      BY <3>2, <3>3, FS_Subset
  <2> QED
    BY <2>1, <2>2, FS_CardinalityType
<1>3. Cardinality(Spent) <= Cardinality(Spent')
  BY <1>2, SpentGrows, FS_Subset
<1>4. \A w \in Members : /\ IsFiniteSet(Pending(w)) /\ Cardinality(Pending(w)) \in Nat
                         /\ mails[w] \in Nat
                         /\ mails[w] + Cardinality(Pending(w)) <= Cardinality(Spent)
  BY <1>0, PendingFinite DEF HandlersOK, RunsCover
\* A step that mails nobody and gives no slot a new run.
<1>5. ASSUME UNCHANGED mails, \A w \in Members : Pending(w)' \subseteq Pending(w)
      PROVE  RunsCover'
  <2>1. ASSUME NEW w \in Members
        PROVE  mails'[w] + Cardinality(Pending(w)') <= Cardinality(Spent')
    <3>1. /\ Cardinality(Pending(w)') <= Cardinality(Pending(w))
          /\ Cardinality(Pending(w)') \in Nat
      <4>1. IsFiniteSet(Pending(w)') /\ Cardinality(Pending(w)') <= Cardinality(Pending(w))
        BY <1>4, <1>5, FS_Subset
      <4> QED
        BY <4>1, FS_CardinalityType
    <3> QED
      BY <1>2, <1>3, <1>4, <1>5, <3>1
  <2> QED
    BY <1>1, <2>1 DEF RunsCover
<1>6. ASSUME UNCHANGED <<step, todo, mails>> PROVE RunsCover'
  BY <1>5, <1>6 DEF Pending
<1>7. ASSUME NEW s \in Slots, Ended(s), UNCHANGED mails PROVE RunsCover'
  BY <1>0, <1>5, <1>7 DEF Pending, Ended, HandlersOK
<1>8. CASE Boot \/ StartWorker \/ Listen \/ Shutdown \/ CloseNext \/ UNCHANGED workVars
  BY <1>6, <1>8 DEF Boot, StartWorker, Listen, Shutdown, CloseNext, workVars, runVars, tableVars
<1>9. CASE ExitDone \/ ExitForced \/ ExitKilled
  <2>1. step' = [s \in Slots |-> "none"] /\ UNCHANGED mails
    BY <1>9 DEF ExitDone, ExitForced, ExitKilled, Exit, tableVars
  <2> QED
    BY <1>5, <2>1 DEF Pending
\* A run of a tick that was waiting is one more than it had, for a slot more.
<1>10. ASSUME NEW s \in Slots, NEW j \in Jobs, Fetch(s, j) PROVE RunsCover'
  <2>1. /\ Take(s, j) /\ QueueOf[j] = WorkerOf[s] /\ UNCHANGED <<todo, mails, enqueued>>
        /\ step' = [step EXCEPT ![s] = IF WorkerOf[s] = "digest" THEN "list" ELSE "read"]
    BY <1>10 DEF Fetch, tableVars
  <2>2. step[s] = "none"
    BY <1>0, <2>1 DEF Take, HandlersOK
  <2>3. CASE WorkerOf[s] # "digest"
    <3>1. step' = [step EXCEPT ![s] = "read"]
      BY <2>1, <2>3
    <3> QED
      BY <1>0, <1>5, <2>1, <3>1 DEF Pending, HandlersOK
  <2>4. CASE WorkerOf[s] = "digest"
    <3> DEFINE r == <<j, stalls[j]>>
    <3>1. /\ j \in DigestJobs /\ stalls[j] \in 0..MaxStalled /\ job[j] = "waiting"
          /\ job'[j] = "active" /\ stalls' = stalls /\ j \in enqueued
      <4>1. /\ job[j] = "waiting" /\ job' = [job EXCEPT ![j] = "active"]
            /\ stalls' = stalls
        BY <2>1 DEF Take
      <4>2. j \in DigestJobs
        BY <2>1, <2>4 DEF DigestJobs
      <4>3. stalls[j] \in 0..MaxStalled /\ job \in [Jobs -> JobStates]
        BY <1>0 DEF QueueInv, QueueTypeOK
      <4>4. j \in enqueued
        BY <1>0, <4>1 DEF Known
      <4> QED
        BY <4>1, <4>2, <4>3, <4>4
    <3>2. r \notin Spent
      BY <3>1, QueueAssumption DEF Spent
    <3>3. r \in Spent'
      BY <2>1, <3>1 DEF Spent
    <3> HIDE DEF r
    <3>4. /\ IsFiniteSet(Spent \union {r})
          /\ Cardinality(Spent \union {r}) = Cardinality(Spent) + 1
      BY <1>2, <3>2, FS_AddElement
    <3>5. Spent \union {r} \subseteq Spent'
      BY <3>3, SpentGrows
    <3>6. Cardinality(Spent \union {r}) <= Cardinality(Spent')
      BY <1>2, <3>5, FS_Subset
    <3>7. ASSUME NEW w \in Members
          PROVE  mails'[w] + Cardinality(Pending(w)') <= Cardinality(Spent')
      <4>1. step' = [step EXCEPT ![s] = "list"]
        BY <2>1, <2>4
      <4>2. Pending(w)' = Pending(w) \union {s} /\ s \notin Pending(w)
        BY <1>0, <2>1, <2>2, <4>1 DEF Pending, HandlersOK
      <4>3. Cardinality(Pending(w)') = Cardinality(Pending(w)) + 1
        BY <1>4, <4>2, FS_AddElement
      <4> QED
        BY <1>2, <1>4, <2>1, <3>4, <3>6, <4>3
    <3> QED
      BY <1>1, <3>7 DEF RunsCover
  <2> QED
    BY <2>3, <2>4
<1>11. ASSUME NEW s \in Slots, ReadEndpoint(s) PROVE RunsCover'
  <2>1. UNCHANGED mails
    BY <1>11 DEF ReadEndpoint, tableVars
  <2>2. CASE Ended(s)
    BY <1>7, <2>1, <2>2
  <2>3. CASE ~Ended(s)
    <3>1. step' = [step EXCEPT ![s] = "post"] /\ UNCHANGED todo
      BY <1>11, <2>3 DEF ReadEndpoint
    <3> QED
      BY <1>0, <1>5, <2>1, <3>1 DEF Pending, HandlersOK
  <2> QED
    BY <2>2, <2>3
<1>12. ASSUME NEW s \in Slots, PostToEndpoint(s) PROVE RunsCover'
  <2>1. step' = [step EXCEPT ![s] = "write"] /\ UNCHANGED <<todo, mails>>
    BY <1>12 DEF PostToEndpoint, tableVars
  <2> QED
    BY <1>0, <1>5, <2>1 DEF Pending, HandlersOK
<1>13. ASSUME NEW s \in Slots, Record(s) \/ FailStatement(s) \/ DigestDone(s) PROVE RunsCover'
  BY <1>7, <1>13 DEF Record, FailStatement, DigestDone, tableVars
<1>14. ASSUME NEW s \in Slots, ListWorkspaces(s) PROVE RunsCover'
  <2>1. /\ step[s] = "list" /\ step' = [step EXCEPT ![s] = "mail"]
        /\ todo' = [todo EXCEPT ![s] = Members] /\ UNCHANGED mails
    BY <1>14 DEF ListWorkspaces, tableVars
  <2>2. \A w \in Members : Pending(w)' = Pending(w)
    BY <1>0, <2>1 DEF Pending, HandlersOK
  <2> QED
    BY <1>5, <2>1, <2>2
<1>15. ASSUME NEW s \in Slots, NEW v \in Members, MailWorkspace(s, v) PROVE RunsCover'
  <2>1. /\ step[s] = "mail" /\ v \in todo[s] /\ UNCHANGED step
        /\ todo' = [todo EXCEPT ![s] = @ \ {v}]
    BY <1>15 DEF MailWorkspace
  <2>2. PICK sent \in {0, 1} : mails' = [mails EXCEPT ![v] = @ + sent]
    BY <1>15 DEF MailWorkspace
  <2>3. ASSUME NEW w \in Members
        PROVE  mails'[w] + Cardinality(Pending(w)') <= Cardinality(Spent')
    <3>1. CASE w = v
      <4>1. Pending(v)' = Pending(v) \ {s} /\ s \in Pending(v)
        BY <1>0, <2>1 DEF Pending, HandlersOK
      <4>2. Cardinality(Pending(v)') = Cardinality(Pending(v)) - 1
        BY <1>4, <4>1, FS_RemoveElement
      <4>3. mails'[v] = mails[v] + sent
        BY <1>0, <2>2 DEF HandlersOK
      <4> QED
        BY <1>2, <1>3, <1>4, <3>1, <4>2, <4>3
    <3>2. CASE w # v
      <4>1. Pending(w)' = Pending(w)
        BY <1>0, <2>1, <3>2 DEF Pending, HandlersOK
      <4>2. mails'[w] = mails[w]
        BY <1>0, <2>2, <3>2 DEF HandlersOK
      <4> QED
        BY <1>2, <1>3, <1>4, <4>1, <4>2
    <3> QED
      BY <3>1, <3>2
  <2> QED
    BY <1>1, <2>3 DEF RunsCover
<1>16. ASSUME NEW s \in Slots, ReportOutcome(s) PROVE RunsCover'
  BY <1>6, <1>16 DEF ReportOutcome, runVars, tableVars
<1>17. ASSUME NEW j \in Jobs, Enqueue(j) \/ LockExpires(j) PROVE RunsCover'
  BY <1>6, <1>17 DEF Enqueue, LockExpires, runVars, tableVars
<1>18. ASSUME NEW e \in Endpoints, CreateEndpoint(e) \/ DeleteEndpoint(e) PROVE RunsCover'
  BY <1>6, <1>18 DEF CreateEndpoint, DeleteEndpoint, runVars
<1> QED
  BY <1>8, <1>9, <1>10, <1>11, <1>12, <1>13, <1>14, <1>15, <1>16, <1>17, <1>18 DEF WorkNext

\* No workspace gets more digests than the ticks so far allow runs, whichever of
\* them were cut off, stalled, ran on or were forgotten.
THEOREM DigestsAreBounded == WorkSpec => []MailsBounded
<1>1. WorkInit => RunsCover
  <2> SUFFICES ASSUME WorkInit PROVE RunsCover
    OBVIOUS
  <2>1. Spent = {} /\ enqueued = {} /\ \A w \in Members : mails[w] = 0 /\ Pending(w) = {}
    BY DEF WorkInit, Spent, Pending
  <2> QED
    BY <2>1, FS_EmptySet DEF RunsCover
<1>2. Typed /\ RunsCover => MailsBounded
  <2> SUFFICES ASSUME Typed, RunsCover, NEW w \in Members
               PROVE  mails[w] <= (1 + MaxStalled) * Cardinality(DigestJobs \intersect enqueued)
    BY DEF MailsBounded
  <2>1. /\ IsFiniteSet(Spent)
        /\ Cardinality(Spent) <= (1 + MaxStalled) * Cardinality(DigestJobs \intersect enqueued)
    BY FinitelyMany DEF RunsCover
  <2>2. mails[w] \in Nat /\ Cardinality(Pending(w)) \in Nat /\ Cardinality(Spent) \in Nat
    BY <2>1, PendingFinite, FS_CardinalityType DEF Typed, HandlersOK
  <2>3. Cardinality(DigestJobs \intersect enqueued) \in Nat /\ MaxStalled \in Nat
    <3>1. IsFiniteSet(DigestJobs \intersect enqueued)
      BY FS_Subset, DigestJobs \intersect enqueued \subseteq enqueued DEF RunsCover
    <3> QED
      BY <3>1, FS_CardinalityType, QueueAssumption
  <2>4. mails[w] + Cardinality(Pending(w)) <= Cardinality(Spent)
    BY DEF RunsCover
  <2> DEFINE bound == (1 + MaxStalled) * Cardinality(DigestJobs \intersect enqueued)
  <2>5. bound \in Nat
    BY <2>3
  <2> HIDE DEF bound
  <2> QED
    BY <2>1, <2>2, <2>4, <2>5 DEF bound
<1> QED
  BY <1>1, <1>2, TypedStarts, TypedStep, RunsCoverStep, PTL DEF WorkSpec

---------------------------------------------------------------------------
(* Notifications: what Aquila's deliveries, the dispatcher and the inbox    *)
(* write.                                                                  *)

Stages == {"none", "start", "publish", "sent", "failed", "done"}
RowType == [id : Tasks, status : {"delivered", "sent", "failed"}, read : BOOLEAN]
TabType == [open : BOOLEAN, live : BOOLEAN, list : Seq(Items), asked : {"no", "read", "done"},
            items : Seq(Items), unread : Nat]

\* A notification of the user's that the database holds.
Stored(id) == \E i \in DOMAIN rows : rows[i].id = id /\ rows[i].status = "delivered"

\* What is answered is stored, and what is stored was delivered.
HookInv ==
  /\ posted \in [Changes -> Nat]
  /\ acked \in [Changes -> Nat] /\ changes \in [Changes -> Nat]
  /\ \A c \in Changes : acked[c] <= changes[c] /\ changes[c] <= posted[c]

\* A telling has no row before its outcome is recorded, its row before it is
\* published, and the service's word before it counts as sent.
TaskTrue(t) ==
  /\ stage[t] \in {"none", "start", "sent", "failed"} => \A i \in DOMAIN rows : rows[i].id # t
  /\ t.run > run[t.change] => stage[t] = "none"
  /\ stage[t] = "publish" => Stored(t)
  /\ stage[t] = "sent" => t \in accepted

DispatchInv ==
  /\ run \in [Changes -> Nat] /\ stage \in [Tasks -> Stages]
  /\ rows \in Seq(RowType) /\ accepted \subseteq Tasks
  /\ \A i, j \in DOMAIN rows : rows[i].id = rows[j].id => i = j
  /\ \A i \in DOMAIN rows : rows[i].status = "sent" => rows[i].id \in accepted
  /\ \A t \in Tasks : TaskTrue(t)

\* The inbox, and all that may still reach it, is of stored notifications.
Shows(inbox) ==
  /\ inbox \in TabType
  /\ Len(inbox.items) <= Limit /\ Len(inbox.list) <= Limit
  /\ \A i \in DOMAIN inbox.items : Stored(inbox.items[i].id)
  /\ \A i \in DOMAIN inbox.list : Stored(inbox.list[i].id)
  /\ Cardinality(Unread(inbox.items)) <= inbox.unread

TabInv ==
  /\ cookie \in Workspaces /\ patches \subseteq Tasks
  /\ pipe \in Seq(Tasks) /\ \A i \in DOMAIN pipe : Stored(pipe[i])
  /\ Shows(tab)

InboxSteps ==
  \/ OpenTab \/ CloseTab \/ Connect \/ Disconnect
  \/ ReadList \/ ListArrives \/ ListFails \/ MessageArrives
  \/ \E i \in 1..Limit : MarkRead(i)
  \/ MarkAllRead
  \/ \E w \in Workspaces : SwitchElsewhere(w)

LEMMA TaskFields ==
  \A t \in Tasks : t.change \in Changes /\ t.run \in Nat /\ t.sub \in Subscribed
BY NotificationsAssumption DEF Tasks

LEMMA InboxWritesNothingElse ==
  ASSUME InboxSteps \/ UNCHANGED notifVars
  PROVE  UNCHANGED <<hookVars, dispatchVars>>
BY DEF InboxSteps, OpenTab, CloseTab, Connect, Disconnect, ReadList, ListArrives, ListFails,
   MessageArrives, MarkRead, MarkAllRead, SwitchElsewhere, notifVars

LEMMA HookStep ==
  ASSUME HookInv, [NotifNext]_notifVars
  PROVE  HookInv'
<1> USE DEF HookInv
<1>1. ASSUME NEW c \in Changes, Post(c) PROVE HookInv'
  <2>0. PICK stored \in {0, 1} :
          /\ posted[c] < MaxPosts[c] /\ posted' = [posted EXCEPT ![c] = @ + 1]
          /\ changes' = [changes EXCEPT ![c] = @ + stored]
          /\ \E told \in 0..stored : acked' = [acked EXCEPT ![c] = @ + told]
    BY <1>1 DEF Post
  <2>1. PICK told \in 0..stored : acked' = [acked EXCEPT ![c] = @ + told]
    BY <2>0
  <2>2. /\ posted[c] + 1 \in Nat /\ changes[c] + stored \in Nat /\ acked[c] + told \in Nat
        /\ acked[c] + told <= changes[c] + stored /\ changes[c] + stored <= posted[c] + 1
    BY <2>0, NotificationsAssumption
  <2>3. /\ posted' \in [Changes -> Nat]
        /\ acked' \in [Changes -> Nat] /\ changes' \in [Changes -> Nat]
    BY <2>0, <2>1, <2>2
  <2> QED
    BY <2>0, <2>1, <2>2, <2>3
<1>2. CASE UNCHANGED hookVars
  BY <1>2 DEF hookVars
<1>3. ASSUME \/ \E c \in Changes : StartRun(c)
             \/ \E t \in Tasks : InsertInApp(t) \/ Publish(t) \/ Send(t) \/ RecordOutcome(t)
                                   \/ GiveUp(t) \/ Patch(t)
      PROVE  UNCHANGED hookVars
  BY <1>3 DEF StartRun, InsertInApp, Publish, Send, RecordOutcome, GiveUp, Patch, hookVars
<1> QED
  BY <1>1, <1>2, <1>3, InboxWritesNothingElse DEF NotifNext, InboxSteps

LEMMA AppendRow ==
  ASSUME rows \in Seq(RowType), NEW r \in RowType, rows' = Append(rows, r)
  PROVE  /\ rows' \in Seq(RowType) /\ DOMAIN rows' = 1..(Len(rows) + 1)
         /\ DOMAIN rows = 1..Len(rows) /\ Len(rows) \in Nat
         /\ \A i \in DOMAIN rows : rows'[i] = rows[i] /\ i \in DOMAIN rows'
         /\ rows'[Len(rows) + 1] = r
         /\ \A i \in DOMAIN rows' : i \in DOMAIN rows \/ i = Len(rows) + 1
OBVIOUS

\* A row for a telling that had none, as its new stage says.
LEMMA RowStep ==
  ASSUME DispatchInv, NEW t \in Tasks, NEW status \in {"delivered", "sent", "failed"},
         NEW next \in {"publish", "done"},
         stage[t] \in {"start", "sent", "failed"},
         next = "publish" => status = "delivered",
         status = "sent" => t \in accepted,
         rows' = Append(rows, Row(t, status)), stage' = [stage EXCEPT ![t] = next],
         UNCHANGED <<run, accepted>>
  PROVE  DispatchInv' /\ \A id \in Tasks : Stored(id) => Stored(id)'
<1> DEFINE r == Row(t, status)
           last == Len(rows) + 1
<1>1. r \in RowType /\ r.id = t /\ r.status = status
  BY DEF Row, RowType
<1> HIDE DEF r
<1>2. /\ rows' \in Seq(RowType) /\ DOMAIN rows = 1..Len(rows) /\ Len(rows) \in Nat
      /\ \A i \in DOMAIN rows : rows'[i] = rows[i] /\ i \in DOMAIN rows'
      /\ rows'[last] = r /\ last \in DOMAIN rows'
      /\ \A i \in DOMAIN rows' : i \in DOMAIN rows \/ i = last
  BY <1>1, AppendRow DEF DispatchInv, r
<1> HIDE DEF last
<1>3. \A i \in DOMAIN rows : rows[i].id # t
  BY DEF DispatchInv, TaskTrue
<1>4. \A id \in Tasks : Stored(id) => Stored(id)'
  BY <1>2 DEF Stored
<1>5. stage' \in [Tasks -> Stages] /\ stage'[t] = next /\ \A u \in Tasks \ {t} : stage'[u] = stage[u]
  BY DEF DispatchInv, Stages
<1>6. /\ \A i, j \in DOMAIN rows' : rows'[i].id = rows'[j].id => i = j
      /\ \A i \in DOMAIN rows' : rows'[i].status = "sent" => rows'[i].id \in accepted'
  BY <1>1, <1>2, <1>3 DEF DispatchInv
<1>7. TaskTrue(t)'
  <2>1. t.run > run'[t.change] => stage'[t] = "none"
    BY DEF DispatchInv, TaskTrue
  <2>2. next = "publish" => Stored(t)'
    BY <1>1, <1>2 DEF Stored
  <2> QED
    BY <1>5, <2>1, <2>2 DEF TaskTrue
<1>8. ASSUME NEW u \in Tasks, u # t PROVE TaskTrue(u)'
  <2>1. TaskTrue(u) /\ stage'[u] = stage[u]
    BY <1>5, <1>8 DEF DispatchInv
  <2>2. (\A i \in DOMAIN rows : rows[i].id # u) => \A i \in DOMAIN rows' : rows'[i].id # u
    BY <1>1, <1>2, <1>8
  <2> QED
    BY <1>4, <2>1, <2>2 DEF TaskTrue
<1> QED
  BY <1>2, <1>4, <1>5, <1>6, <1>7, <1>8 DEF DispatchInv

LEMMA DispatchStep ==
  ASSUME DispatchInv, [NotifNext]_notifVars
  PROVE  DispatchInv' /\ \A id \in Tasks : Stored(id) => Stored(id)'
<1>1. CASE UNCHANGED dispatchVars
  BY <1>1 DEF DispatchInv, TaskTrue, Stored, dispatchVars
<1>2. ASSUME NEW c \in Changes, Post(c) PROVE UNCHANGED dispatchVars
  BY <1>2 DEF Post
<1>3. ASSUME NEW c \in Changes, StartRun(c)
      PROVE  DispatchInv' /\ \A id \in Tasks : Stored(id) => Stored(id)'
  <2>1. /\ run' = [run EXCEPT ![c] = @ + 1]
        /\ stage' = [t \in Tasks |-> IF t \in TasksOf(c) THEN "start" ELSE stage[t]]
        /\ UNCHANGED <<rows, accepted>>
    BY <1>3 DEF StartRun
  <2>2. /\ run' \in [Changes -> Nat] /\ run[c] \in Nat /\ run'[c] = run[c] + 1
        /\ \A d \in Changes \ {c} : run'[d] = run[d]
    BY <2>1 DEF DispatchInv
  <2>3. stage' \in [Tasks -> Stages]
    BY <2>1 DEF DispatchInv, Stages
  <2>4. \A id \in Tasks : Stored(id) <=> Stored(id)'
    BY <2>1 DEF Stored
  <2>5. ASSUME NEW t \in Tasks PROVE TaskTrue(t)'
    <3>1. TaskTrue(t) /\ t.run \in Nat /\ t.change \in Changes /\ run[t.change] \in Nat
      BY TaskFields DEF DispatchInv
    <3>2. CASE t \in TasksOf(c)
      <4>1. t.change = c /\ t.run = run[c] + 1
        BY <3>2 DEF TasksOf
      <4>2. stage[t] = "none" /\ ~(t.run > run'[t.change]) /\ stage'[t] = "start"
        BY <2>1, <2>2, <3>1, <3>2, <4>1 DEF TaskTrue
      <4> QED
        BY <2>1, <3>1, <4>2 DEF TaskTrue
    <3>3. CASE t \notin TasksOf(c)
      <4>1. stage'[t] = stage[t] /\ (t.run > run'[t.change] => t.run > run[t.change])
        BY <2>1, <2>2, <3>1, <3>3
      <4> QED
        BY <2>1, <2>4, <3>1, <4>1 DEF TaskTrue
    <3> QED
      BY <3>2, <3>3
  <2> QED
    BY <2>1, <2>2, <2>3, <2>4, <2>5 DEF DispatchInv
<1>4. ASSUME NEW t \in Tasks, InsertInApp(t)
      PROVE  DispatchInv' /\ \A id \in Tasks : Stored(id) => Stored(id)'
  BY <1>4, RowStep DEF InsertInApp
<1>5. ASSUME NEW t \in Tasks, RecordOutcome(t)
      PROVE  DispatchInv' /\ \A id \in Tasks : Stored(id) => Stored(id)'
  <2>1. stage[t] = "sent" => t \in accepted
    BY DEF DispatchInv, TaskTrue
  <2> QED
    BY <1>5, <2>1, RowStep DEF RecordOutcome
\* A telling that moves on without a row.
<1>6. ASSUME NEW t \in Tasks, NEW next \in {"sent", "failed", "done"}, UNCHANGED <<run, rows>>,
             stage' = [stage EXCEPT ![t] = next], stage[t] # "none",
             accepted \subseteq accepted', accepted' \subseteq Tasks,
             next = "sent" => t \in accepted',
             next # "done" => stage[t] = "start"
      PROVE  DispatchInv' /\ \A id \in Tasks : Stored(id) => Stored(id)'
  <2>1. stage' \in [Tasks -> Stages] /\ stage'[t] = next /\ \A u \in Tasks \ {t} : stage'[u] = stage[u]
    BY <1>6 DEF DispatchInv, Stages
  <2>2. \A id \in Tasks : Stored(id) <=> Stored(id)'
    BY <1>6 DEF Stored
  <2>3. ASSUME NEW u \in Tasks PROVE TaskTrue(u)'
    BY <1>6, <2>1, <2>2 DEF DispatchInv, TaskTrue
  <2> QED
    BY <1>6, <2>1, <2>2, <2>3 DEF DispatchInv
<1>7. ASSUME NEW t \in Tasks, Publish(t) \/ GiveUp(t)
      PROVE  DispatchInv' /\ \A id \in Tasks : Stored(id) => Stored(id)'
  <2>1. /\ stage[t] # "none" /\ stage' = [stage EXCEPT ![t] = "done"]
        /\ UNCHANGED <<run, rows, accepted>>
    BY <1>7 DEF Publish, GiveUp
  <2>2. accepted \subseteq Tasks
    BY DEF DispatchInv
  <2> QED
    BY <1>6, <2>1, <2>2
<1>8. ASSUME NEW t \in Tasks, Send(t)
      PROVE  DispatchInv' /\ \A id \in Tasks : Stored(id) => Stored(id)'
  <2>1. PICK taken \in BOOLEAN, ok \in BOOLEAN :
          /\ ok => taken
          /\ accepted' = IF taken THEN accepted \union {t} ELSE accepted
          /\ stage' = [stage EXCEPT ![t] = IF ok THEN "sent" ELSE "failed"]
          /\ stage[t] = "start" /\ UNCHANGED <<run, rows>>
    BY <1>8 DEF Send
  <2>2. accepted \subseteq accepted' /\ accepted' \subseteq Tasks /\ (ok => t \in accepted')
    BY <2>1 DEF DispatchInv
  <2>3. CASE ok
    BY <1>6, <2>1, <2>2, <2>3
  <2>4. CASE ~ok
    BY <1>6, <2>1, <2>2, <2>4
  <2> QED
    BY <2>3, <2>4
<1>9. ASSUME NEW id \in Tasks, Patch(id)
      PROVE  DispatchInv' /\ \A n \in Tasks : Stored(n) => Stored(n)'
  <2>1. /\ DOMAIN rows' = DOMAIN rows /\ UNCHANGED <<run, stage, accepted>>
        /\ \A i \in DOMAIN rows : rows'[i] = rows[i] \/ rows'[i] = [rows[i] EXCEPT !.read = TRUE]
    BY <1>9 DEF Patch
  <2>2. \A i \in DOMAIN rows : rows[i] \in RowType
    BY DEF DispatchInv
  <2>3. \A i \in DOMAIN rows : /\ rows'[i] \in RowType /\ rows'[i].id = rows[i].id
                               /\ rows'[i].status = rows[i].status
    BY <2>1, <2>2 DEF RowType
  <2>4. rows' \in Seq(RowType)
    <3>1. DOMAIN rows = 1..Len(rows) /\ Len(rows) \in Nat
      BY DEF DispatchInv
    <3>2. PICK arrives \in BOOLEAN :
            rows' = [i \in DOMAIN rows |->
                       IF arrives /\ rows[i].id = id /\ id.sub.ws = cookie
                       THEN [rows[i] EXCEPT !.read = TRUE] ELSE rows[i]]
      BY <1>9 DEF Patch
    <3>3. rows' \in [1..Len(rows) -> RowType]
      BY <2>3, <3>1, <3>2
    <3> QED
      BY <3>1, <3>3
  <2>5. \A n \in Tasks : Stored(n) <=> Stored(n)'
    BY <2>1, <2>3 DEF Stored
  <2>6. ASSUME NEW t \in Tasks PROVE TaskTrue(t)'
    BY <2>1, <2>3, <2>5 DEF TaskTrue, DispatchInv
  <2> QED
    BY <2>1, <2>3, <2>4, <2>5, <2>6 DEF DispatchInv
<1>10. CASE InboxSteps \/ UNCHANGED notifVars
  BY <1>1, <1>10, InboxWritesNothingElse
<1> QED
  BY <1>1, <1>2, <1>3, <1>4, <1>5, <1>7, <1>8, <1>9, <1>10 DEF NotifNext, InboxSteps

\* The ids of the unread items are finitely many tellings.
LEMMA UnreadFinite ==
  ASSUME NEW items \in Seq(Items)
  PROVE  /\ IsFiniteSet(Unread(items)) /\ Cardinality(Unread(items)) \in Nat
         /\ Unread(items) \subseteq Tasks
<1> DEFINE U == {k \in DOMAIN items : ~items[k].read}
           f == [i \in U |-> items[i].id]
<1>1. DOMAIN items = 1..Len(items) /\ Len(items) \in Nat /\ \A i \in DOMAIN items : items[i] \in Items
  OBVIOUS
<1>2. IsFiniteSet(U)
  <2>1. IsFiniteSet(1..Len(items))
    BY <1>1, FS_Interval
  <2> QED
    BY <1>1, <2>1, FS_Subset
<1>3. Unread(items) = {items[i].id : i \in U}
  BY DEF Unread
<1>4. f \in Surjection(U, Unread(items))
  <2>1. f \in [U -> Unread(items)]
    BY <1>3
  <2>2. \A t \in Unread(items) : \E i \in U : f[i] = t
    BY <1>3
  <2> HIDE DEF f, U
  <2> QED
    BY <2>1, <2>2 DEF Surjection
<1>5. IsFiniteSet(Unread(items))
  <2> HIDE DEF f, U
  <2> QED
    BY <1>2, <1>4, FS_Surjection
<1>6. Unread(items) \subseteq Tasks
  BY <1>1, <1>3 DEF Items
<1> QED
  BY <1>5, <1>6, FS_CardinalityType

\* The newest items are the first of them.
LEMMA NewestIsPart ==
  ASSUME NEW items \in Seq(Items)
  PROVE  /\ Newest(items) \in Seq(Items) /\ Len(Newest(items)) <= Limit
         /\ \A i \in DOMAIN Newest(items) : i \in DOMAIN items /\ Newest(items)[i] = items[i]
<1> DEFINE n == IF Len(items) < Limit THEN Len(items) ELSE Limit
<1>1. n \in Nat /\ n <= Len(items) /\ n <= Limit /\ Len(items) \in Nat
  BY NotificationsAssumption
<1>2. \A i \in 1..n : items[i] \in Items /\ i \in DOMAIN items
  BY <1>1
<1> HIDE DEF n
<1>3. /\ SubSeq(items, 1, n) \in Seq(Items)
      /\ Len(SubSeq(items, 1, n)) = IF 1 <= n THEN n - 1 + 1 ELSE 0
      /\ \A i \in 1..(n - 1 + 1) : SubSeq(items, 1, n)[i] = items[1 + i - 1]
  BY <1>1, <1>2, SubSeqProperties
<1>4. Newest(items) = SubSeq(items, 1, n)
  BY DEF Newest, n
<1>5. Len(Newest(items)) = n
  BY <1>1, <1>3, <1>4
<1>6. DOMAIN Newest(items) = 1..n /\ \A i \in 1..n : Newest(items)[i] = items[i]
  BY <1>1, <1>3, <1>4, <1>5
<1> QED
  BY <1>1, <1>2, <1>3, <1>4, <1>5, <1>6

\* Marking changes nothing but who is read.
LEMMA AllReadKeeps ==
  ASSUME NEW items \in Seq(Items), NEW ids
  PROVE  /\ AllRead(items, ids) \in Seq(Items) /\ Len(AllRead(items, ids)) = Len(items)
         /\ DOMAIN AllRead(items, ids) = DOMAIN items
         /\ \A i \in DOMAIN items : AllRead(items, ids)[i].id = items[i].id
         /\ Unread(AllRead(items, ids)) = Unread(items) \ ids
<1> DEFINE all == AllRead(items, ids)
<1>1. DOMAIN items = 1..Len(items) /\ Len(items) \in Nat /\ \A i \in DOMAIN items : items[i] \in Items
  OBVIOUS
<1>2. /\ DOMAIN all = 1..Len(items)
      /\ \A i \in 1..Len(items) : all[i] = IF items[i].id \in ids
                                         THEN [items[i] EXCEPT !.read = TRUE] ELSE items[i]
  BY <1>1 DEF AllRead
<1>3. ASSUME NEW i \in 1..Len(items)
      PROVE  /\ all[i] \in Items /\ all[i].id = items[i].id
             /\ all[i].read = (items[i].read \/ items[i].id \in ids)
  <2>1. items[i] \in Items
    BY <1>1
  <2>2. CASE items[i].id \in ids
    BY <1>2, <2>1, <2>2 DEF Items
  <2>3. CASE items[i].id \notin ids
    BY <1>2, <2>1, <2>3 DEF Items
  <2> QED
    BY <2>2, <2>3
<1>4. all \in [1..Len(items) -> Items]
  <2>1. all = [i \in DOMAIN items |-> all[i]]
    BY DEF AllRead
  <2> HIDE DEF all
  <2>2. all = [i \in 1..Len(items) |-> all[i]]
    BY <1>1, <2>1
  <2>3. \A i \in 1..Len(items) : all[i] \in Items
    BY <1>3
  <2> HIDE DEF Items
  <2> QED
    BY <2>2, <2>3
<1>5. all \in Seq(Items) /\ Len(all) = Len(items)
  <2> HIDE DEF all
  <2> QED
    BY <1>1, <1>4
<1>6. Unread(all) = Unread(items) \ ids
  <2> HIDE DEF all
  <2>1. ASSUME NEW t PROVE t \in Unread(all) <=> t \in Unread(items) /\ t \notin ids
    BY <1>1, <1>2, <1>3 DEF Unread
  <2> QED
    BY <2>1
<1>7. DOMAIN all = DOMAIN items /\ \A i \in DOMAIN items : all[i].id = items[i].id
  BY <1>1, <1>2, <1>3
<1> QED
  BY <1>5, <1>6, <1>7, Zenon

\* Rows stay: what was true of the inbox and of the messages remains so.
LEMMA StillShown ==
  ASSUME TabInv, \A id \in Tasks : Stored(id) => Stored(id)', UNCHANGED tab
  PROVE  /\ Shows(tab)'
         /\ \A i \in DOMAIN pipe, t \in Tasks : t = pipe[i] => Stored(t)'
<1>1. tab.items \in Seq(Items) /\ tab.list \in Seq(Items) /\ pipe \in Seq(Tasks)
  BY DEF TabInv, Shows, TabType
<1>2. /\ \A i \in DOMAIN tab.items : tab.items[i] \in Items
      /\ \A i \in DOMAIN tab.list : tab.list[i] \in Items
      /\ \A i \in DOMAIN pipe : pipe[i] \in Tasks
  BY <1>1
<1>3. /\ \A i \in DOMAIN tab.items : tab.items[i].id \in Tasks
      /\ \A i \in DOMAIN tab.list : tab.list[i].id \in Tasks
  BY <1>2 DEF Items
<1>4. /\ \A i \in DOMAIN tab'.items : Stored(tab'.items[i].id)
      /\ \A i \in DOMAIN tab'.list : Stored(tab'.list[i].id)
      /\ \A i \in DOMAIN pipe : Stored(pipe[i])
  BY DEF TabInv, Shows
<1>5. /\ (\A i \in DOMAIN tab.items : Stored(tab.items[i].id))'
      /\ (\A i \in DOMAIN tab.list : Stored(tab.list[i].id))'
      /\ \A i \in DOMAIN pipe, t \in Tasks : t = pipe[i] => Stored(t)'
  BY <1>2, <1>3, <1>4 DEF Stored
<1> QED
  BY <1>5 DEF TabInv, Shows

\* An empty inbox shows nothing untrue.
LEMMA EmptyShows ==
  ASSUME NEW inbox \in TabType, inbox.items = << >>, inbox.list = << >>
  PROVE  Shows(inbox)
<1>1. Unread(<< >>) = {}
  BY DEF Unread
<1>2. Cardinality(Unread(inbox.items)) = 0
  BY <1>1, FS_EmptySet
<1> QED
  BY <1>2, NotificationsAssumption DEF Shows, TabType

LEMMA InboxStep ==
  ASSUME DispatchInv, TabInv, InboxSteps
  PROVE  TabInv'
<1> USE DEF TabInv
<1>0. UNCHANGED <<hookVars, dispatchVars>> /\ UNCHANGED rows
  BY InboxWritesNothingElse DEF dispatchVars
<1>1. ASSUME NEW id PROVE Stored(id) <=> Stored(id)'
  BY <1>0 DEF Stored
<1>2. ASSUME Shows(tab') PROVE Shows(tab)'
  BY <1>0, <1>2 DEF Shows, Stored
<1>3. << >> \in Seq(Items) /\ Limit \in Nat
  BY NotificationsAssumption
<1>4. tab \in TabType
  BY DEF Shows
<1>5. Closed \in TabType /\ Closed.items = << >> /\ Closed.list = << >>
  BY DEF Closed, TabType
<1>6. CASE OpenTab
  <2>1. /\ tab' = [Closed EXCEPT !.open = TRUE] /\ UNCHANGED <<cookie, pipe, patches>>
    BY <1>6 DEF OpenTab
  <2>2. tab' \in TabType /\ tab'.items = << >> /\ tab'.list = << >>
    BY <1>5, <2>1 DEF TabType
  <2>3. Shows(tab)'
    BY <1>2, <2>2, EmptyShows
  <2> QED
    BY <1>1, <2>1, <2>3
<1>7. CASE CloseTab
  <2>1. tab' = Closed /\ pipe' = << >> /\ UNCHANGED <<cookie, patches>>
    BY <1>7 DEF CloseTab
  <2>2. tab' \in TabType /\ tab'.items = << >> /\ tab'.list = << >>
    BY <1>5, <2>1
  <2>3. Shows(tab)'
    BY <1>2, <2>2, EmptyShows
  <2> QED
    BY <2>1, <2>3
<1>8. CASE Connect \/ Disconnect
  <2>1. /\ pipe' = pipe \/ pipe' = << >>
        /\ tab' = [tab EXCEPT !.live = TRUE] \/ tab' = [tab EXCEPT !.live = FALSE]
        /\ UNCHANGED <<cookie, patches>>
    BY <1>8 DEF Connect, Disconnect
  <2>2. tab' \in TabType /\ tab'.items = tab.items /\ tab'.list = tab.list /\ tab'.unread = tab.unread
    BY <1>4, <2>1 DEF TabType
  <2>3. Shows(tab)'
    BY <1>2, <2>2 DEF Shows
  <2>4. pipe' \in Seq(Tasks) /\ \A i \in DOMAIN pipe' : Stored(pipe'[i])
    <3>1. CASE pipe' = pipe
      BY <3>1
    <3>2. CASE pipe' = << >>
      BY <3>2
    <3> QED
      BY <2>1, <3>1, <3>2
  <2> QED
    BY <1>1, <2>1, <2>3, <2>4
<1>9. CASE ReadList
  <2>1. PICK at \in NewestFirst({i \in DOMAIN rows : /\ rows[i].id.sub.ws = cookie
                                                   /\ rows[i].status = "delivered"}) :
          tab' = [tab EXCEPT !.asked = "read", !.list = [k \in DOMAIN at |-> Shown(rows[at[k]])]]
    BY <1>9 DEF ReadList
  <2> DEFINE mine == {i \in DOMAIN rows : rows[i].id.sub.ws = cookie /\ rows[i].status = "delivered"}
             n == IF Cardinality(mine) < Limit THEN Cardinality(mine) ELSE Limit
             list == [k \in DOMAIN at |-> Shown(rows[at[k]])]
  <2>2. at \in [1..n -> mine]
    BY <2>1 DEF NewestFirst
  <2>3. n \in Nat /\ n <= Limit
    <3>1. DOMAIN rows = 1..Len(rows) /\ Len(rows) \in Nat
      BY DEF DispatchInv
    <3>2. IsFiniteSet(DOMAIN rows)
      BY <3>1, FS_Interval
    <3>3. IsFiniteSet(mine)
      BY <3>2, FS_Subset
    <3>4. Cardinality(mine) \in Nat
      BY <3>3, FS_CardinalityType
    <3> HIDE DEF mine
    <3> QED
      BY <3>4, NotificationsAssumption
  <2> HIDE DEF n
  <2>4. ASSUME NEW k \in 1..n
        PROVE  list[k] \in Items /\ Stored(list[k].id)
    <3>1. /\ at[k] \in DOMAIN rows /\ rows[at[k]].status = "delivered"
          /\ list[k] = Shown(rows[at[k]])
      BY <2>2
    <3>2. rows[at[k]] \in RowType
      BY <3>1 DEF DispatchInv
    <3> HIDE DEF list
    <3>3. list[k].id = rows[at[k]].id /\ list[k] \in Items
      BY <3>1, <3>2 DEF Shown, RowType, Items
    <3> QED
      BY <3>1, <3>3 DEF Stored
  <2>5. list \in Seq(Items) /\ Len(list) = n /\ DOMAIN list = 1..n
    <3>1. list = [k \in 1..n |-> list[k]]
      BY <2>2
    <3>2. \A k \in 1..n : list[k] \in Items
      BY <2>4
    <3> HIDE DEF list, Items
    <3>3. list \in [1..n -> Items]
      BY <3>1, <3>2
    <3> QED
      BY <2>3, <3>3
  <2>6. tab' = [tab EXCEPT !.asked = "read", !.list = list]
    BY <2>1
  <2> HIDE DEF list, mine
  <2>7. /\ tab' \in TabType /\ tab'.items = tab.items /\ tab'.unread = tab.unread
        /\ tab'.list = list
    BY <1>4, <2>5, <2>6 DEF TabType
  <2>8. \A k \in 1..n : Stored(list[k].id)
    BY <2>4 DEF list
  <2>9. Shows(tab)'
    <3>1. Shows(tab')
      BY <2>3, <2>5, <2>7, <2>8 DEF Shows
    <3> QED
      BY <1>2, <3>1
  <2> QED
    BY <1>1, <1>9, <2>9 DEF ReadList
<1>10. CASE ListArrives
  <2>1. tab' = [tab EXCEPT !.asked = "done", !.list = << >>, !.items = tab.list,
                  !.unread = Cardinality(Unread(tab.list))]
    BY <1>10 DEF ListArrives
  <2>2. tab.list \in Seq(Items)
    BY DEF Shows, TabType
  <2>3. Cardinality(Unread(tab.list)) \in Nat
    BY <2>2, UnreadFinite
  <2>4. /\ tab' \in TabType /\ tab'.items = tab.list /\ tab'.list = << >>
        /\ tab'.unread = Cardinality(Unread(tab.list))
    BY <1>3, <1>4, <2>1, <2>2, <2>3 DEF TabType
  <2>5. Shows(tab)'
    <3>1. Shows(tab')
      BY <1>3, <2>3, <2>4 DEF Shows
    <3> QED
      BY <1>2, <3>1
  <2> QED
    BY <1>1, <1>10, <2>5 DEF ListArrives
<1>11. CASE ListFails
  <2>1. tab' = [tab EXCEPT !.asked = "done", !.list = << >>]
    BY <1>11 DEF ListFails
  <2>2. /\ tab' \in TabType /\ tab'.items = tab.items /\ tab'.list = << >>
        /\ tab'.unread = tab.unread
    BY <1>3, <1>4, <2>1 DEF TabType
  <2>3. Shows(tab)'
    <3>1. Shows(tab')
      BY <1>3, <2>2 DEF Shows
    <3> QED
      BY <1>2, <3>1
  <2> QED
    BY <1>1, <1>11, <2>3 DEF ListFails
<1>12. CASE MessageArrives
  <2> DEFINE n == [id |-> Head(pipe), read |-> FALSE]
             more == <<n>> \o tab.items
  <2>1. /\ pipe # << >> /\ pipe' = Tail(pipe) /\ UNCHANGED <<cookie, patches>>
        /\ tab' = [tab EXCEPT !.unread = @ + 1, !.items = Newest(more)]
    BY <1>12 DEF MessageArrives
  <2>2. /\ Head(pipe) \in Tasks /\ Stored(Head(pipe)) /\ pipe' \in Seq(Tasks)
        /\ \A i \in DOMAIN pipe' : Stored(pipe'[i])
    <3>1. 1 \in DOMAIN pipe /\ Head(pipe) = pipe[1] /\ pipe' \in Seq(Tasks)
      BY <2>1
    <3>2. \A i \in DOMAIN pipe' : i + 1 \in DOMAIN pipe /\ pipe'[i] = pipe[i + 1]
      BY <2>1
    <3> QED
      BY <3>1, <3>2
  <2>3. n \in Items /\ n.id = Head(pipe) /\ ~n.read
    BY <2>2 DEF Items
  <2>4. tab.items \in Seq(Items) /\ tab.unread \in Nat
    BY DEF Shows, TabType
  <2> HIDE DEF n
  <2>5. /\ more \in Seq(Items)
        /\ \A i \in DOMAIN more : more[i] = n \/ \E k \in DOMAIN tab.items : more[i] = tab.items[k]
    <3>1. /\ <<n>> \in Seq(Items) /\ Len(<<n>>) = 1 /\ <<n>>[1] = n
      BY <2>3
    <3>2. /\ more \in Seq(Items) /\ Len(more) = 1 + Len(tab.items)
          /\ \A i \in 1..Len(more) : more[i] = IF i <= 1 THEN <<n>>[i] ELSE tab.items[i - 1]
      BY <2>4, <3>1, ConcatProperties
    <3> HIDE DEF more
    <3>3. ASSUME NEW i \in DOMAIN more
          PROVE  more[i] = n \/ \E k \in DOMAIN tab.items : more[i] = tab.items[k]
      <4>1. i \in 1..Len(more) /\ Len(tab.items) \in Nat /\ DOMAIN tab.items = 1..Len(tab.items)
        BY <2>4, <3>2
      <4>2. CASE i = 1
        BY <3>1, <3>2, <4>1, <4>2
      <4>3. CASE i # 1
        <5>1. i - 1 \in DOMAIN tab.items /\ more[i] = tab.items[i - 1]
          BY <3>2, <4>1, <4>3
        <5> QED
          BY <5>1
      <4> QED
        BY <4>2, <4>3
    <3> QED
      BY <3>2, <3>3
  <2> HIDE DEF more
  <2>6. /\ Newest(more) \in Seq(Items) /\ Len(Newest(more)) <= Limit
        /\ \A i \in DOMAIN Newest(more) : i \in DOMAIN more /\ Newest(more)[i] = more[i]
    BY <2>5, NewestIsPart
  <2>7. tab' \in TabType /\ tab'.items = Newest(more) /\ tab'.list = tab.list /\ tab'.unread = tab.unread + 1
    <3> DEFINE items == Newest(more)
               unread == tab.unread + 1
    <3>1. items \in Seq(Items) /\ unread \in Nat /\ tab' = [tab EXCEPT !.unread = unread, !.items = items]
      BY <2>1, <2>4, <2>6
    <3> HIDE DEF items, unread
    <3>2. tab' \in TabType /\ tab'.items = items /\ tab'.list = tab.list /\ tab'.unread = unread
      BY <1>4, <3>1 DEF TabType
    <3> QED
      BY <3>2 DEF items, unread
  <2>8. \A i \in DOMAIN Newest(more) : Stored(Newest(more)[i].id)
    BY <2>2, <2>3, <2>5, <2>6 DEF Shows
  <2>9. Unread(Newest(more)) \subseteq Unread(tab.items) \union {n.id}
    BY <2>5, <2>6 DEF Unread
  <2>10. Cardinality(Unread(Newest(more))) <= tab.unread + 1
    <3>1. /\ IsFiniteSet(Unread(tab.items)) /\ Cardinality(Unread(tab.items)) \in Nat
          /\ Cardinality(Unread(Newest(more))) \in Nat
      BY <2>4, <2>6, UnreadFinite
    <3>2. /\ IsFiniteSet(Unread(tab.items) \union {n.id})
          /\ \/ Cardinality(Unread(tab.items) \union {n.id}) = Cardinality(Unread(tab.items))
             \/ Cardinality(Unread(tab.items) \union {n.id}) = Cardinality(Unread(tab.items)) + 1
      BY <3>1, FS_AddElement
    <3>3. Cardinality(Unread(Newest(more))) <= Cardinality(Unread(tab.items) \union {n.id})
      BY <2>9, <3>2, FS_Subset
    <3>4. Cardinality(Unread(tab.items)) <= tab.unread
      BY DEF Shows
    <3> QED
      BY <2>4, <3>1, <3>2, <3>3, <3>4
  <2>11. Shows(tab)'
    <3>1. Shows(tab')
      BY <2>6, <2>7, <2>8, <2>10 DEF Shows
    <3> QED
      BY <1>2, <3>1
  <2> QED
    BY <1>1, <2>1, <2>2, <2>11
\* Marking the items of a set of ids, and counting what is left.
<1>13. ASSUME NEW ids, NEW left \in Nat, tab' = [tab EXCEPT !.items = AllRead(@, ids), !.unread = left],
              Cardinality(Unread(tab.items) \ ids) <= left, UNCHANGED <<cookie, pipe>>,
              patches' \subseteq Tasks
       PROVE  TabInv'
  <2>1. tab.items \in Seq(Items)
    BY DEF Shows, TabType
  <2> DEFINE all == AllRead(tab.items, ids)
  <2>2. /\ all \in Seq(Items) /\ Len(all) = Len(tab.items) /\ DOMAIN all = DOMAIN tab.items
        /\ \A i \in DOMAIN tab.items : all[i].id = tab.items[i].id
        /\ Unread(all) = Unread(tab.items) \ ids
    BY <2>1, AllReadKeeps
  <2>3. tab' = [tab EXCEPT !.items = all, !.unread = left]
    BY <1>13
  <2> HIDE DEF all
  <2>4. tab' \in TabType /\ tab'.items = all /\ tab'.list = tab.list /\ tab'.unread = left
    BY <1>13, <1>4, <2>2, <2>3 DEF TabType
  <2>5. Shows(tab)'
    <3>1. Shows(tab')
      BY <1>13, <2>2, <2>4 DEF Shows
    <3> QED
      BY <1>2, <3>1
  <2> QED
    BY <1>1, <1>13, <2>5
<1>14. /\ IsFiniteSet(Unread(tab.items)) /\ Cardinality(Unread(tab.items)) \in Nat
       /\ Unread(tab.items) \subseteq Tasks /\ tab.unread \in Nat
       /\ Cardinality(Unread(tab.items)) <= tab.unread
  <2>1. tab.items \in Seq(Items) /\ tab.unread \in Nat /\ Cardinality(Unread(tab.items)) <= tab.unread
    BY DEF Shows, TabType
  <2> QED
    BY <2>1, UnreadFinite
<1>15. ASSUME NEW i \in 1..Limit, MarkRead(i) PROVE TabInv'
  <2> DEFINE id == tab.items[i].id
  <2>1. /\ id \in Unread(tab.items) /\ tab' = [tab EXCEPT !.items = AllRead(@, {id}), !.unread = Down(@)]
        /\ patches' = patches \union {id} /\ UNCHANGED <<cookie, pipe>>
    BY <1>15 DEF MarkRead, Unread
  <2> HIDE DEF id
  <2>2. Cardinality(Unread(tab.items) \ {id}) = Cardinality(Unread(tab.items)) - 1
    BY <1>14, <2>1, FS_RemoveElement
  <2>3. Cardinality(Unread(tab.items) \ {id}) \in Nat
    <3>1. IsFiniteSet(Unread(tab.items) \ {id})
      BY <1>14, FS_Subset
    <3> QED
      BY <3>1, FS_CardinalityType
  <2> DEFINE left == Down(tab.unread)
  <2>4. left \in Nat /\ Cardinality(Unread(tab.items) \ {id}) <= left
    BY <1>14, <2>2, <2>3 DEF Down
  <2>5. tab' = [tab EXCEPT !.items = AllRead(@, {id}), !.unread = left]
    BY <2>1
  <2>6. patches' \subseteq Tasks
    BY <1>14, <2>1
  <2> HIDE DEF left, TabInv
  <2> QED
    BY <1>13, <2>1, <2>4, <2>5, <2>6
<1>16. CASE MarkAllRead
  <2> DEFINE ids == Unread(tab.items)
  <2>1. /\ tab' = [tab EXCEPT !.items = AllRead(@, ids), !.unread = 0]
        /\ patches' = patches \union ids /\ UNCHANGED <<cookie, pipe>>
    BY <1>16 DEF MarkAllRead
  <2>2. Cardinality(Unread(tab.items) \ ids) <= 0
    <3>1. Unread(tab.items) \ ids = {}
      OBVIOUS
    <3>2. Cardinality({}) = 0
      BY FS_EmptySet
    <3>3. Cardinality(Unread(tab.items) \ ids) = 0
      BY <3>1, <3>2, Zenon
    <3> QED
      BY <3>3
  <2>3. patches' \subseteq Tasks
    BY <1>14, <2>1
  <2> HIDE DEF ids, TabInv
  <2> QED
    BY <1>13, <2>1, <2>2, <2>3
<1>17. ASSUME NEW w \in Workspaces, SwitchElsewhere(w) PROVE TabInv'
  BY <1>1, <1>17 DEF SwitchElsewhere, Shows
<1> QED
  BY <1>6, <1>7, <1>8, <1>9, <1>10, <1>11, <1>12, <1>15, <1>16, <1>17 DEF InboxSteps

LEMMA TabStep ==
  ASSUME DispatchInv, TabInv, [NotifNext]_notifVars
  PROVE  TabInv'
<1>0. \A id \in Tasks : Stored(id) => Stored(id)'
  BY DispatchStep
<1>1. ASSUME UNCHANGED <<cookie, tab, pipe>>, patches' \subseteq patches PROVE TabInv'
  BY <1>0, <1>1, StillShown DEF TabInv
<1>2. ASSUME NEW t \in Tasks, Publish(t) PROVE TabInv'
  <2>1. /\ UNCHANGED <<cookie, tab, patches>>
        /\ pipe' = pipe \/ pipe' = Append(pipe, t)
        /\ stage[t] = "publish"
    BY <1>2 DEF Publish
  <2>2. Stored(t)'
    BY <1>0, <2>1 DEF DispatchInv, TaskTrue
  <2>3. pipe' \in Seq(Tasks) /\ \A i \in DOMAIN pipe' :
          (i \in DOMAIN pipe /\ pipe'[i] = pipe[i]) \/ pipe'[i] = t
    BY <2>1 DEF TabInv
  <2>4. (\A i \in DOMAIN pipe : Stored(pipe[i]))'
    <3>1. \A i \in DOMAIN pipe, u \in Tasks : u = pipe[i] => Stored(u)'
      BY <1>0, <2>1, StillShown
    <3>2. \A i \in DOMAIN pipe : pipe[i] \in Tasks
      BY DEF TabInv
    <3> QED
      BY <2>2, <2>3, <3>1, <3>2 DEF Stored
  <2>5. Shows(tab)'
    BY <1>0, <2>1, StillShown
  <2> QED
    BY <2>1, <2>3, <2>4, <2>5 DEF TabInv
<1>3. CASE \/ \E c \in Changes : Post(c) \/ StartRun(c)
           \/ \E t \in Tasks : InsertInApp(t) \/ Send(t) \/ RecordOutcome(t) \/ GiveUp(t) \/ Patch(t)
           \/ UNCHANGED notifVars
  <2>1. UNCHANGED <<cookie, tab, pipe>> /\ patches' \subseteq patches
    BY <1>3 DEF Post, StartRun, InsertInApp, Send, RecordOutcome, GiveUp, Patch, notifVars, tabVars
  <2> QED
    BY <1>1, <2>1
<1> QED
  BY <1>2, <1>3, InboxStep DEF NotifNext, InboxSteps

NotifInv == HookInv /\ DispatchInv /\ TabInv

LEMMA NotifStarts == NotifInit => NotifInv
<1> SUFFICES ASSUME NotifInit PROVE NotifInv
  OBVIOUS
<1>1. HookInv
  BY NotificationsAssumption DEF NotifInit, HookInv
<1>2. DispatchInv
  BY TaskFields DEF NotifInit, DispatchInv, TaskTrue, Stages
<1>3. tab \in TabType /\ tab.items = << >> /\ tab.list = << >>
  BY DEF NotifInit, Closed, TabType
<1>4. Shows(tab)
  BY <1>3, EmptyShows
<1> QED
  BY <1>1, <1>2, <1>4 DEF NotifInv, TabInv, NotifInit

LEMMA NotifStep == NotifInv /\ [NotifNext]_notifVars => NotifInv'
BY HookStep, DispatchStep, TabStep DEF NotifInv

\* Deliveries, tellings, rows and the inbox are well typed; a telling has one row
\* at most, and the inbox no more items than the limit.
THEOREM NotificationTypes == NotifSpec => []NotifTypeOK
<1>1. NotifInv => NotifTypeOK
  BY DEF NotifInv, HookInv, DispatchInv, TabInv, Shows, TabType, RowType, Stages, NotifTypeOK
<1> QED
  BY <1>1, NotifStarts, NotifStep, PTL DEF NotifSpec

\* Every item the bell shows or is sent is a stored notification, and its badge
\* never counts fewer than the unread items, on whatever way they came.
THEOREM InboxIsTrue == NotifSpec => []InboxTrue
<1>1. NotifInv => InboxTrue
  <2> SUFFICES ASSUME NotifInv PROVE InboxTrue
    OBVIOUS
  <2>1. ASSUME NEW id \in {tab.items[i].id : i \in DOMAIN tab.items} \union {pipe[i] : i \in DOMAIN pipe}
        PROVE  Stored(id)
    BY DEF NotifInv, TabInv, Shows
  <2>2. Cardinality(Unread(tab.items)) <= tab.unread
    BY DEF NotifInv, TabInv, Shows
  <2> QED
    BY <2>1, <2>2 DEF InboxTrue, Stored
<1> QED
  BY <1>1, NotifStarts, NotifStep, PTL DEF NotifSpec

\* A row that says sent is of a message the service took, and a delivery that was
\* answered is stored.
THEOREM RecordsAreTruthful == NotifSpec => []RecordsTruthful
<1>1. NotifInv => RecordsTruthful
  BY DEF NotifInv, HookInv, DispatchInv, RecordsTruthful
<1> QED
  BY <1>1, NotifStarts, NotifStep, PTL DEF NotifSpec
=============================================================================
