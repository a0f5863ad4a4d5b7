----------------------------- MODULE Onboarding -----------------------------
(***************************************************************************)
(* From the public start page to a workspace.  A visitor's page creates an *)
(* inflight_bootstrap session (POST /api/start/bootstrap), polls it while  *)
(* Aquila analyses the site, and asks for a magic link; the link's claim   *)
(* turns the session into a workspace of the signed-in user.  The claim    *)
(* and the workspaces page call the same createWorkspace, whose commit and *)
(* whose provision job are two steps.  Requests run concurrently, one      *)
(* statement or remote call at a time, and may die in between.             *)
(***************************************************************************)
EXTENDS Integers, FiniteSets

CONSTANTS
  Visitors,     \* open start pages
  Ips, IpOf,    \* the address each page's requests come from
  Sessions,     \* session ids
  Requests,     \* requests that create or claim a workspace
  Users,
  Workspaces,   \* workspace ids the database may hand out
  Limit,        \* RATE_LIMIT_PER_IP (5 in the code)
  None          \* no session, no workspace, no user, no row

ASSUME OnbAssumption ==
  /\ IpOf \in [Visitors -> Ips]
  /\ Limit \in Nat \ {0}
  /\ IsFiniteSet(Visitors) /\ IsFiniteSet(Sessions)
  /\ None \notin Sessions \union Workspaces \union Users

Row == [ip : Ips, status : {"pending", "running", "ready", "claimed"},
        run : BOOLEAN, result : BOOLEAN, ws : Workspaces \union {None},
        recent : BOOLEAN, live : BOOLEAN]
ASSUME NoRowAssumption == None \notin Row

VARIABLES
  row,          \* inflight_bootstrap; recent and live stand for its two timestamps
  aq,           \* Aquila's research run for each session
  page,         \* where each start page is, and its session
  asking,       \* pages whose poll has read the row and is asking Aquila
  known,        \* pages that show the analysis as complete
  mailed,       \* sessions whose magic link was sent
  req,          \* the create and claim requests
  owner,        \* workspaces and workspace_members: each workspace's owner
  queued,       \* workspaces whose provision job was added
  cookie,       \* the workspace in each user's synterra_wjwt cookie
  picked,       \* history: users whose cookie is one they chose on the list
  born          \* history: the session each workspace was claimed from

pageVars == <<page, asking, known, mailed>>
wsVars == <<owner, queued, cookie, picked, born>>
onbVars == <<row, aq, pageVars, req, wsVars>>

Idle == [pc |-> "idle", user |-> None, sess |-> None, ws |-> None]

OnbInit ==
  /\ row = [s \in Sessions |-> None]
  /\ aq = [s \in Sessions |-> "none"]
  /\ page = [v \in Visitors |-> [phase |-> "url", sess |-> None]]
  /\ asking = {} /\ known = {} /\ mailed = {}
  /\ req = [r \in Requests |-> Idle]
  /\ owner = [w \in Workspaces |-> None]
  /\ queued = {}
  /\ cookie = [u \in Users |-> None]
  /\ picked = {}
  /\ born = [w \in Workspaces |-> None]

---------------------------------------------------------------------------
(* POST /api/start/bootstrap                                               *)

\* The sessions an address created within the rate-limit window.
RecentOf(i) == {s \in Sessions : row[s] # None /\ row[s].ip = i /\ row[s].recent}

Goto(v, phase) == page' = [page EXCEPT ![v].phase = phase]

\* Fault: the limit itself is let through.
CountPastLimit(v) ==
  /\ page[v].phase = "url"
  /\ Cardinality(RecentOf(IpOf[v])) <= Limit
  /\ Goto(v, "counted")
  /\ UNCHANGED <<row, aq, asking, known, mailed, req, wsVars>>

CountRecent(v) ==
  /\ page[v].phase = "url"
  /\ Cardinality(RecentOf(IpOf[v])) < Limit
  /\ Goto(v, "counted")
  /\ UNCHANGED <<row, aq, asking, known, mailed, req, wsVars>>

InsertSession(v) ==
  /\ page[v].phase = "counted"
  /\ \E s \in Sessions :
       /\ row[s] = None
       /\ row' = [row EXCEPT ![s] =
            [ip |-> IpOf[v], status |-> "pending", run |-> FALSE, result |-> FALSE,
             ws |-> None, recent |-> TRUE, live |-> TRUE]]
       /\ page' = [page EXCEPT ![v] = [phase |-> "inserted", sess |-> s]]
  /\ UNCHANGED <<aq, asking, known, mailed, req, wsVars>>

\* createResearchRun succeeds, fails, or takes effect and loses its reply; with
\* no anonymous API key configured it is not called.
StartRun(v) ==
  /\ page[v].phase = "inserted"
  /\ \E made, told \in BOOLEAN :
       /\ told => made
       /\ aq' = IF made THEN [aq EXCEPT ![page[v].sess] = "going"] ELSE aq
       /\ Goto(v, IF told THEN "started" ELSE "refused")
  /\ UNCHANGED <<row, asking, known, mailed, req, wsVars>>

\* Fault: a run that Aquila refuses makes the session failed.
AnswerFailed(v) ==
  /\ page[v].phase \in {"started", "refused"}
  /\ row' = [row EXCEPT ![page[v].sess].status =
                 IF page[v].phase = "started" THEN "running" ELSE "failed",
                        ![page[v].sess].run = page[v].phase = "started"]
  /\ Goto(v, "waiting")
  /\ UNCHANGED <<aq, asking, known, mailed, req, wsVars>>

\* Either way the status becomes running, and the page gets its session id.
AnswerBootstrap(v) ==
  /\ page[v].phase \in {"started", "refused"}
  /\ row' = [row EXCEPT ![page[v].sess].status = "running",
                        ![page[v].sess].run = page[v].phase = "started"]
  /\ Goto(v, "waiting")
  /\ UNCHANGED <<aq, asking, known, mailed, req, wsVars>>

\* The request dies on the way; the page shows an error and can submit again.
BootstrapDies(v) ==
  /\ page[v].phase \in {"counted", "inserted", "started", "refused"}
  /\ page' = [page EXCEPT ![v] = [phase |-> "url", sess |-> None]]
  /\ UNCHANGED <<row, aq, asking, known, mailed, req, wsVars>>

\* A run ends with a result, without one, or failed or cancelled.
RunEnds(s) ==
  /\ aq[s] = "going"
  /\ \E e \in {"succeeded", "empty", "failed"} : aq' = [aq EXCEPT ![s] = e]
  /\ UNCHANGED <<row, pageVars, req, wsVars>>

\* An hour passes over the session's created_at, or a day over its expires_at.
TimePasses(s) ==
  /\ row[s] # None
  /\ \/ row[s].recent /\ row' = [row EXCEPT ![s].recent = FALSE]
     \/ ~row[s].recent /\ row[s].live /\ row' = [row EXCEPT ![s].live = FALSE]
  /\ UNCHANGED <<aq, pageVars, req, wsVars>>

---------------------------------------------------------------------------
(* GET /api/start/[sessionId]/status, every three seconds while waiting    *)

\* Fault: Aquila is asked only for a session that is still pending.
PollPending(v) ==
  LET r == row[page[v].sess] IN
  /\ page[v].phase = "waiting" /\ v \notin asking \union known
  /\ r.status = "claimed" \/ r.live
  /\ IF r.status = "pending" /\ r.run /\ ~r.result
     THEN asking' = asking \union {v} /\ UNCHANGED known
     ELSE /\ r.status \in {"ready", "claimed"}
          /\ known' = known \union {v} /\ UNCHANGED asking
  /\ UNCHANGED <<row, aq, page, mailed, req, wsVars>>

PollRead(v) ==
  LET r == row[page[v].sess] IN
  /\ page[v].phase = "waiting" /\ v \notin asking \union known
  /\ r.status = "claimed" \/ r.live
  /\ IF r.status = "running" /\ r.run /\ ~r.result
     THEN asking' = asking \union {v} /\ UNCHANGED known
     ELSE /\ r.status \in {"ready", "claimed"}
          /\ known' = known \union {v} /\ UNCHANGED asking
  /\ UNCHANGED <<row, aq, page, mailed, req, wsVars>>

\* Fault: a run that is still going is taken for one without a result.
PollEager(v) ==
  /\ v \in asking
  /\ asking' = asking \ {v}
  /\ row' = [row EXCEPT ![page[v].sess].status = "ready",
                        ![page[v].sess].result = aq[page[v].sess] = "succeeded"]
  /\ known' = known \union {v}
  /\ UNCHANGED <<aq, page, mailed, req, wsVars>>

\* Aquila answers that the run has failed or has succeeded with a result: the row
\* is set to ready whatever it has become since it was read.
PollEnded(v) ==
  /\ v \in asking /\ aq[page[v].sess] \in {"succeeded", "failed"}
  /\ asking' = asking \ {v}
  /\ row' = [row EXCEPT ![page[v].sess].status = "ready",
                        ![page[v].sess].result = @ \/ aq[page[v].sess] = "succeeded"]
  /\ known' = known \union {v}
  /\ UNCHANGED <<aq, page, mailed, req, wsVars>>

\* Still going, or succeeded without a result, which matches neither branch and
\* leaves the row running; or Aquila could not be asked, or the request died.
PollAgain(v) ==
  /\ v \in asking
  /\ asking' = asking \ {v}
  /\ UNCHANGED <<row, aq, page, known, mailed, req, wsVars>>

\* POST /api/start/magic-link; once it answers the page stops polling.  A link
\* may be sent and its answer lost.
SendLink(v) ==
  /\ page[v].phase = "waiting"
  /\ row[page[v].sess].status # "claimed"
  /\ mailed' = mailed \union {page[v].sess}
  /\ page' \in {page, [page EXCEPT ![v].phase = "sent"]}
  /\ UNCHANGED <<row, aq, asking, known, req, wsVars>>

---------------------------------------------------------------------------
(* GET /api/start/claim and the create form, both through createWorkspace  *)

Become(r, pc) == req' = [req EXCEPT ![r].pc = pc]
NoPage == UNCHANGED <<aq, pageVars>>

\* switchToWorkspace: a cookie for a member, nothing for anybody else.
Switch(u, w) ==
  IF owner[w] = u
  THEN cookie' = [cookie EXCEPT ![u] = w] /\ picked' = picked \ {u}
  ELSE UNCHANGED <<cookie, picked>>

\* /workspaces lists every workspace the user is a member of, and its button posts
\* to /api/workspace/switch, which asks for membership only.
PickWorkspace(u) ==
  /\ \E w \in Workspaces :
       owner[w] = u /\ cookie' = [cookie EXCEPT ![u] = w]
  /\ picked' = picked \union {u}
  /\ UNCHANGED <<row, req, owner, queued, born>> /\ NoPage

\* The claim finds the session claimed: it only switches.
ClaimAgain(r) ==
  /\ req[r].pc = "idle"
  /\ \E u \in Users, s \in mailed :
       /\ row[s].status = "claimed" /\ row[s].ws # None
       /\ Switch(u, row[s].ws)
  /\ UNCHANGED <<row, req, owner, queued, born>> /\ NoPage

ClaimRead(r) ==
  /\ req[r].pc = "idle"
  /\ \E u \in Users, s \in mailed :
       /\ ~(row[s].status = "claimed" /\ row[s].ws # None)
       /\ req' = [req EXCEPT ![r] = [pc |-> "create", user |-> u, sess |-> s, ws |-> None]]
  /\ UNCHANGED <<row, wsVars>> /\ NoPage

SubmitForm(r) ==
  /\ req[r].pc = "idle"
  /\ \E u \in Users :
       req' = [req EXCEPT ![r] = [pc |-> "create", user |-> u, sess |-> None, ws |-> None]]
  /\ UNCHANGED <<row, wsVars>> /\ NoPage

\* createWorkspace's transaction: workspace, owner, trial and audit entry, under a
\* slug nobody has.
CommitWorkspace(r) ==
  /\ req[r].pc \in {"create", "retry"}
  /\ \E w \in Workspaces :
       /\ owner[w] = None
       /\ owner' = [owner EXCEPT ![w] = req[r].user]
       /\ born' = [born EXCEPT ![w] = req[r].sess]
       /\ req' = [req EXCEPT ![r].ws = w,
                             ![r].pc = IF @ = "create" THEN "enqueue" ELSE "enqueue2"]
  /\ UNCHANGED <<row, queued, cookie, picked>> /\ NoPage

\* createWorkspace answers ok: FALSE: the slug is taken or invalid, the database
\* fails, or the workspace is committed and Queue.add fails.  The claim retries
\* once with the suffix, then gives up; the form shows the error.
CreateFails(r) ==
  /\ req[r].pc \in {"create", "enqueue", "retry", "enqueue2"}
  /\ IF req[r].pc \in {"create", "enqueue"} /\ req[r].sess # None
     THEN req' = [req EXCEPT ![r].pc = "retry", ![r].ws = None]
     ELSE req' = [req EXCEPT ![r] = Idle]
  /\ UNCHANGED <<row, wsVars>> /\ NoPage

\* Fault: a failed Queue.add is taken for success.
EnqueueMaybe(r) ==
  /\ req[r].pc \in {"enqueue", "enqueue2"}
  /\ queued' \in {queued, queued \union {req[r].ws}}
  /\ Become(r, IF req[r].sess = None THEN "switch" ELSE "mark")
  /\ UNCHANGED <<row, owner, cookie, picked, born>> /\ NoPage

EnqueueProvision(r) ==
  /\ req[r].pc \in {"enqueue", "enqueue2"}
  /\ queued' = queued \union {req[r].ws}
  /\ Become(r, IF req[r].sess = None THEN "switch" ELSE "mark")
  /\ UNCHANGED <<row, owner, cookie, picked, born>> /\ NoPage

MarkClaimed(r) ==
  /\ req[r].pc = "mark"
  /\ row' = [row EXCEPT ![req[r].sess].status = "claimed", ![req[r].sess].ws = req[r].ws]
  /\ Become(r, "switch")
  /\ UNCHANGED wsVars /\ NoPage

SwitchToWorkspace(r) ==
  /\ req[r].pc = "switch"
  /\ Switch(req[r].user, req[r].ws)
  /\ req' = [req EXCEPT ![r] = Idle]
  /\ UNCHANGED <<row, owner, queued, born>> /\ NoPage

RequestDies(r) ==
  /\ req[r].pc # "idle"
  /\ req' = [req EXCEPT ![r] = Idle]
  /\ UNCHANGED <<row, wsVars>> /\ NoPage

Poll(v) == PollRead(v) \/ PollEnded(v)

OnbNext ==
  \/ \E v \in Visitors :
       \/ CountRecent(v) \/ InsertSession(v) \/ StartRun(v) \/ AnswerBootstrap(v)
       \/ BootstrapDies(v) \/ Poll(v) \/ PollAgain(v) \/ SendLink(v)
  \/ \E s \in Sessions : RunEnds(s) \/ TimePasses(s)
  \/ \E r \in Requests :
       \/ ClaimAgain(r) \/ ClaimRead(r) \/ SubmitForm(r) \/ CommitWorkspace(r)
       \/ CreateFails(r) \/ EnqueueProvision(r) \/ MarkClaimed(r)
       \/ SwitchToWorkspace(r) \/ RequestDies(r)
  \/ \E u \in Users : PickWorkspace(u)

OnbSpec == OnbInit /\ [][OnbNext]_onbVars

\* A waiting page polls every three seconds, not every poll of a run that has ended
\* and can be taken in fails,
\* and Aquila's runs end.
OnbFairSpec ==
  /\ OnbSpec
  /\ \A v \in Visitors :
       WF_onbVars(PollRead(v)) /\ WF_onbVars(PollAgain(v)) /\ SF_onbVars(PollEnded(v))
  /\ \A s \in Sessions : WF_onbVars(RunEnds(s))

---------------------------------------------------------------------------
(* Properties.                                                             *)

\* Types of the table, the pages and the requests.
OnbTypeOK ==
  /\ row \in [Sessions -> Row \union {None}]
  /\ aq \in [Sessions -> {"none", "going", "succeeded", "empty", "failed"}]
  /\ page \in [Visitors ->
       [phase : {"url", "counted", "inserted", "started", "refused", "waiting", "sent"},
        sess : Sessions \union {None}]]
  /\ asking \subseteq Visitors /\ known \subseteq Visitors /\ mailed \subseteq Sessions
  /\ req \in [Requests ->
       [pc : {"idle", "create", "enqueue", "retry", "enqueue2", "mark", "switch"},
        user : Users \union {None}, sess : Sessions \union {None},
        ws : Workspaces \union {None}]]
  /\ owner \in [Workspaces -> Users \union {None}]
  /\ queued \subseteq Workspaces
  /\ cookie \in [Users -> Workspaces \union {None}]
  /\ picked \subseteq Users
  /\ born \in [Workspaces -> Sessions \union {None}]

Counted(i) == {v \in Visitors : IpOf[v] = i /\ page[v].phase = "counted"}

\* What the rate limit is worth although count and insert are two statements
\* (bootstrap/route.ts:51-66): an address has at most Limit sessions in the window
\* plus one for every other request of its own in flight, however often the
\* requests fail and are repeated.
RateLimitHolds ==
  \A i \in Ips :
    Cardinality(RecentOf(i)) + Cardinality(Counted(i)) <= Limit - 1 + Cardinality(Visitors)

\* A claim, or the create form, lands its user in a workspace that is his and on
\* its way to credentials, and a session's workspace is the one claimed from it and
\* on its way too, although claims that fail half way leave behind workspaces whose
\* provision job was lost (claim/route.ts:110-127).  Such a leftover has one way in:
\* its owner picks it himself on the list of his workspaces.
LandsInOwnWorkspace ==
  /\ \A u \in Users :
       cookie[u] # None =>
         owner[cookie[u]] = u /\ (cookie[u] \in queued \/ u \in picked)
  /\ \A s \in Sessions :
       row[s] # None /\ row[s].ws # None =>
         owner[row[s].ws] # None /\ row[s].ws \in queued /\ born[row[s].ws] = s

\* A start page is told that the analysis is complete only when it is, and a stored
\* result is that of a run that succeeded, through failed polls and late answers.
ReadyMeansEnded ==
  \A s \in Sessions :
    row[s] # None =>
      /\ row[s].status = "ready" => aq[s] \in {"succeeded", "failed"}
      /\ row[s].result => aq[s] = "succeeded"

\* A page that waits on a run Aquila knows learns of its end, unless the visitor
\* asks for the link first, the session expires, or the run succeeds without a
\* result: the poll says nothing of such a run (status/route.ts:50-65).
WaitingPageLearns ==
  \A v \in Visitors :
    page[v].phase = "waiting" /\ row[page[v].sess].run ~>
      \/ v \in known
      \/ page[v].phase # "waiting"
      \/ ~row[page[v].sess].live
      \/ aq[page[v].sess] = "empty"
=============================================================================
