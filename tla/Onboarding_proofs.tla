------------------------- MODULE Onboarding_proofs --------------------------
(***************************************************************************)
(* The onboarding, for any number of visitors, addresses, sessions and     *)
(* requests.  The argument: a session belongs to one page, so between its  *)
(* insertion and its answer nobody else touches it (PagesOK); a request    *)
(* that has committed a workspace is the only one that knows it until it   *)
(* has queued it (RequestsOK); and an address pays for each session it     *)
(* adds with a request it has in flight, so the rate limit is exceeded by  *)
(* no more than the requests there can be.                                 *)
(***************************************************************************)
EXTENDS Onboarding, FiniteSetTheorems, TLAPS

Phases == {"url", "counted", "inserted", "started", "refused", "waiting", "sent"}
Statuses == {"pending", "running", "ready", "claimed"}

\* Whose session is whose.
PagesOK ==
  /\ \A v \in Visitors :
       /\ page[v].sess # None => row[page[v].sess] # None
       /\ page[v].phase \notin {"url", "counted"} => page[v].sess # None
       /\ v \in asking => page[v].phase \in {"waiting", "sent"}
       /\ page[v].phase = "inserted" =>
            /\ page[v].sess \notin mailed
            /\ row[page[v].sess].status = "pending"
            /\ ~row[page[v].sess].result
  /\ \A v, w \in Visitors : page[v].sess = page[w].sess /\ page[v].sess # None => v = w
  /\ \A s \in mailed : row[s] # None

\* What a request that creates or claims a workspace has made already.
RequestsOK ==
  \A r \in Requests :
    /\ req[r].sess # None => req[r].sess \in mailed
    /\ req[r].pc # "idle" => req[r].user # None
    /\ req[r].pc \in {"enqueue", "enqueue2", "mark", "switch"} =>
         /\ req[r].ws # None
         /\ owner[req[r].ws] = req[r].user
         /\ born[req[r].ws] = req[r].sess
    /\ req[r].pc \in {"mark", "switch"} => req[r].ws \in queued
    /\ req[r].pc = "mark" => req[r].sess # None

OnbInv ==
  OnbTypeOK /\ PagesOK /\ RequestsOK /\ RateLimitHolds /\ LandsInOwnWorkspace /\ ReadyMeansEnded

\* What can be said of the row of a session at any time.
LEMMA RowTypes ==
  ASSUME OnbTypeOK, NEW s \in Sessions, row[s] # None
  PROVE  /\ row[s] \in Row
         /\ row[s].ip \in Ips /\ row[s].status \in Statuses /\ row[s].run \in BOOLEAN
         /\ row[s].result \in BOOLEAN /\ row[s].ws \in Workspaces \union {None}
         /\ row[s].recent \in BOOLEAN /\ row[s].live \in BOOLEAN
  BY DEF OnbTypeOK, Row, Statuses

\* A statement that writes one row, but neither its address nor its time.
Wrote(s) ==
  /\ row[s] # None
  /\ row' \in [Sessions -> Row \union {None}]
  /\ row'[s] \in Row /\ row'[s] # None
  /\ row'[s].ip = row[s].ip /\ row'[s].recent = row[s].recent
  /\ \A t \in Sessions \ {s} : row'[t] = row[t]

\* An assignment to one row that keeps these two columns is such a statement.
LEMMA Writes ==
  ASSUME OnbTypeOK, NEW s \in Sessions, row[s] # None, NEW x \in Row,
         x.ip = row[s].ip, x.recent = row[s].recent, row' = [row EXCEPT ![s] = x]
  PROVE  Wrote(s) /\ row'[s] = x
<1>1. row \in [Sessions -> Row \union {None}]
  BY DEF OnbTypeOK
<1>2. row'[s] = x /\ \A t \in Sessions \ {s} : row'[t] = row[t]
  BY <1>1
<1>3. row' \in [Sessions -> Row \union {None}]
  BY <1>1
<1>4. QED
  BY <1>2, <1>3, NoRowAssumption DEF Wrote

\* The rate limit, when an address has no more sessions and requests than before.
LEMMA RateKept ==
  ASSUME OnbTypeOK, RateLimitHolds,
         \A i \in Ips : RecentOf(i)' \subseteq RecentOf(i) /\ Counted(i)' \subseteq Counted(i)
  PROVE  RateLimitHolds'
<1> SUFFICES ASSUME NEW i \in Ips
             PROVE  Cardinality(RecentOf(i)') + Cardinality(Counted(i)')
                      <= Limit - 1 + Cardinality(Visitors)
  BY DEF RateLimitHolds
<1>1. IsFiniteSet(RecentOf(i)) /\ IsFiniteSet(Counted(i))
  BY OnbAssumption, FS_Subset DEF RecentOf, Counted
<1>2. /\ Cardinality(RecentOf(i)') <= Cardinality(RecentOf(i))
      /\ Cardinality(Counted(i)') <= Cardinality(Counted(i))
  BY <1>1, FS_Subset
<1>3. /\ Cardinality(RecentOf(i)) \in Nat /\ Cardinality(Counted(i)) \in Nat
      /\ Cardinality(RecentOf(i)') \in Nat /\ Cardinality(Counted(i)') \in Nat
  BY <1>1, FS_Subset, FS_CardinalityType
<1>4. Cardinality(Visitors) \in Nat /\ Limit \in Nat
  BY OnbAssumption, FS_CardinalityType
<1>5. QED
  BY <1>2, <1>3, <1>4 DEF RateLimitHolds

\* A row that is written keeps its place in the window.
LEMMA RecentKept ==
  ASSUME OnbTypeOK, UNCHANGED row \/ \E s \in Sessions : Wrote(s)
  PROVE  \A i \in Ips : RecentOf(i)' \subseteq RecentOf(i)
  BY DEF RecentOf, Wrote

\* A session's workspace and the cookies, when only rows' other columns change.
LEMMA LandsKept ==
  ASSUME LandsInOwnWorkspace, UNCHANGED wsVars,
         \A s \in Sessions :
           row'[s] # None /\ row'[s].ws # None => row[s] # None /\ row'[s].ws = row[s].ws
  PROVE  LandsInOwnWorkspace'
  BY DEF LandsInOwnWorkspace, wsVars

\* The requests, when sessions are at most mailed to in addition.
LEMMA RequestsKept ==
  ASSUME RequestsOK, UNCHANGED <<req, owner, queued, born>>, mailed \subseteq mailed'
  PROVE  RequestsOK'
  BY DEF RequestsOK

\* What is ready stays so while neither rows nor runs change.
LEMMA RowsKept ==
  ASSUME OnbInv, UNCHANGED <<row, aq>>, UNCHANGED wsVars
  PROVE  LandsInOwnWorkspace' /\ ReadyMeansEnded'
  BY LandsKept DEF OnbInv, ReadyMeansEnded

\* The count, and what leaves the rows alone: the count's effect on the limit is
\* that the address has one more request in flight, at a moment it had room.
LEMMA CountStep ==
  ASSUME OnbInv, NEW v \in Visitors, CountRecent(v)
  PROVE  OnbInv'
<1>1. page' = [page EXCEPT ![v].phase = "counted"] /\ page \in [Visitors ->
        [phase : Phases, sess : Sessions \union {None}]]
  BY DEF CountRecent, Goto, OnbInv, OnbTypeOK, Phases
<1>2. \A x \in Visitors : /\ page'[x].sess = page[x].sess
                          /\ page'[x].phase = IF x = v THEN "counted" ELSE page[x].phase
  BY <1>1
<1>3. OnbTypeOK'
  <2>1. page' \in [Visitors -> [phase : Phases, sess : Sessions \union {None}]]
    BY <1>1 DEF Phases
  <2>2. QED
    BY <2>1 DEF OnbInv, OnbTypeOK, CountRecent, wsVars, Phases
<1>4. PagesOK'
  BY <1>2 DEF OnbInv, PagesOK, CountRecent
<1>5. RequestsOK' /\ LandsInOwnWorkspace' /\ ReadyMeansEnded'
  BY RequestsKept, RowsKept DEF OnbInv, CountRecent, wsVars
<1>6. RateLimitHolds'
  <2> SUFFICES ASSUME NEW i \in Ips
               PROVE  Cardinality(RecentOf(i)') + Cardinality(Counted(i)')
                        <= Limit - 1 + Cardinality(Visitors)
    BY DEF RateLimitHolds
  <2>1. RecentOf(i)' = RecentOf(i)
    BY DEF RecentOf, CountRecent
  <2>2. CASE i = IpOf[v]
    <3>1. Counted(i)' \subseteq Visitors
      BY DEF Counted
    <3>2. /\ Cardinality(Counted(i)') <= Cardinality(Visitors)
          /\ Cardinality(Counted(i)') \in Nat /\ Cardinality(Visitors) \in Nat
      BY <3>1, OnbAssumption, FS_Subset, FS_CardinalityType
    <3>3. Cardinality(RecentOf(i)) < Limit
      BY <2>2 DEF CountRecent
    <3>4. Cardinality(RecentOf(i)) \in Nat /\ Limit \in Nat
      BY OnbAssumption, FS_Subset, FS_CardinalityType DEF RecentOf
    <3>5. QED
      BY <2>1, <3>2, <3>3, <3>4
  <2>3. CASE i # IpOf[v]
    <3>1. Counted(i)' = Counted(i)
      BY <1>2, <2>3 DEF Counted
    <3>2. QED
      BY <2>1, <3>1 DEF OnbInv, RateLimitHolds
  <2>4. QED
    BY <2>2, <2>3
<1>7. QED
  BY <1>3, <1>4, <1>5, <1>6 DEF OnbInv

\* A session is inserted: what was a request in flight is now a session.
LEMMA InsertStep ==
  ASSUME OnbInv, NEW v \in Visitors, InsertSession(v)
  PROVE  OnbInv'
<1>1. PICK s \in Sessions :
        /\ row[s] = None
        /\ row' = [row EXCEPT ![s] =
             [ip |-> IpOf[v], status |-> "pending", run |-> FALSE, result |-> FALSE,
              ws |-> None, recent |-> TRUE, live |-> TRUE]]
        /\ page' = [page EXCEPT ![v] = [phase |-> "inserted", sess |-> s]]
  BY DEF InsertSession
<1> DEFINE new == [ip |-> IpOf[v], status |-> "pending", run |-> FALSE, result |-> FALSE,
                   ws |-> None, recent |-> TRUE, live |-> TRUE]
<1>2. OnbTypeOK /\ IpOf[v] \in Ips /\ page[v].phase = "counted" /\ s # None
  BY OnbAssumption DEF OnbInv, InsertSession
<1>3. new \in Row /\ new # None
  <2>1. new \in Row
    BY <1>2, Zenon DEF Row
  <2>2. QED
    BY <2>1, NoRowAssumption
<1>4. /\ row'[s] = new
      /\ \A t \in Sessions : t # s => row'[t] = row[t]
      /\ row' \in [Sessions -> Row \union {None}]
  BY <1>1, <1>2, <1>3 DEF OnbTypeOK
<1>5. /\ page'[v] = [phase |-> "inserted", sess |-> s]
      /\ \A x \in Visitors : x # v => page'[x] = page[x]
      /\ page' \in [Visitors -> [phase : Phases, sess : Sessions \union {None}]]
  BY <1>1, <1>2 DEF OnbTypeOK, Phases
<1>6. OnbTypeOK'
  BY <1>2, <1>4, <1>5 DEF OnbTypeOK, InsertSession, wsVars, Phases
<1>7. PagesOK'
  <2>1. s \notin mailed /\ v \notin asking
    BY <1>1, <1>2 DEF OnbInv, PagesOK
  <2>2. \A x \in Visitors : page[x].sess # s
    BY <1>1, <1>2 DEF OnbInv, PagesOK
  <2>3. \A x \in Visitors : page[x].sess # None => page[x].sess \in Sessions
    BY <1>2 DEF OnbTypeOK
  <2>4. mailed' = mailed /\ asking' = asking /\ mailed \subseteq Sessions
    BY <1>2 DEF InsertSession, OnbTypeOK
  <2>5. \A t \in Sessions : row[t] # None => row'[t] # None /\ row'[t] = row[t]
    BY <1>1, <1>4
  <2>6. \A x \in Visitors :
          /\ page'[x].sess # None => row'[page'[x].sess] # None
          /\ page'[x].phase \notin {"url", "counted"} => page'[x].sess # None
          /\ x \in asking => page'[x].phase \in {"waiting", "sent"}
    BY <1>2, <1>3, <1>4, <1>5, <2>1, <2>3, <2>5 DEF OnbInv, PagesOK
  <2>7. ASSUME NEW x \in Visitors, page'[x].phase = "inserted"
        PROVE  /\ page'[x].sess \notin mailed
               /\ row'[page'[x].sess].status = "pending"
               /\ ~row'[page'[x].sess].result
    <3>1. CASE x = v
      BY <1>4, <1>5, <2>1, <3>1
    <3>2. CASE x # v
      <4>1. page'[x] = page[x] /\ page[x].sess # None
        BY <1>5, <2>7, <3>2 DEF OnbInv, PagesOK
      <4>2. row'[page[x].sess] = row[page[x].sess]
        BY <2>3, <2>5, <4>1 DEF OnbInv, PagesOK
      <4>3. QED
        BY <2>7, <4>1, <4>2 DEF OnbInv, PagesOK
    <3>3. QED
      BY <3>1, <3>2
  <2>8. \A x, y \in Visitors : page'[x].sess = page'[y].sess /\ page'[x].sess # None => x = y
    BY <1>5, <2>2 DEF OnbInv, PagesOK
  <2>9. \A t \in mailed : row'[t] # None
    BY <2>4, <2>5 DEF OnbInv, PagesOK
  <2>10. QED
    BY <2>4, <2>6, <2>7, <2>8, <2>9 DEF PagesOK
<1>8. RequestsOK'
  BY RequestsKept DEF OnbInv, InsertSession, wsVars
<1>9. LandsInOwnWorkspace'
  BY <1>4, LandsKept DEF OnbInv, InsertSession
<1>10. ReadyMeansEnded'
  BY <1>4 DEF OnbInv, ReadyMeansEnded, InsertSession
<1>11. RateLimitHolds'
  <2> SUFFICES ASSUME NEW i \in Ips
               PROVE  Cardinality(RecentOf(i)') + Cardinality(Counted(i)')
                        <= Limit - 1 + Cardinality(Visitors)
    BY DEF RateLimitHolds
  <2>1. Cardinality(RecentOf(i)) + Cardinality(Counted(i)) <= Limit - 1 + Cardinality(Visitors)
    BY DEF OnbInv, RateLimitHolds
  <2>2. /\ IsFiniteSet(RecentOf(i)) /\ IsFiniteSet(Counted(i))
        /\ Cardinality(RecentOf(i)) \in Nat /\ Cardinality(Counted(i)) \in Nat
    BY OnbAssumption, FS_Subset, FS_CardinalityType DEF RecentOf, Counted
  <2>3. CASE i = IpOf[v]
    <3>1. RecentOf(i)' = RecentOf(i) \union {s} /\ s \notin RecentOf(i)
      BY <1>1, <1>3, <1>4, <2>3 DEF RecentOf
    <3>2. Counted(i)' = Counted(i) \ {v} /\ v \in Counted(i)
      BY <1>2, <1>5, <2>3 DEF Counted
    <3>3. /\ Cardinality(RecentOf(i)') = Cardinality(RecentOf(i)) + 1
          /\ Cardinality(Counted(i)') = Cardinality(Counted(i)) - 1
      <4>1. Cardinality(RecentOf(i) \union {s}) = Cardinality(RecentOf(i)) + 1
        BY <2>2, <3>1, FS_AddElement
      <4>2. Cardinality(Counted(i) \ {v}) = Cardinality(Counted(i)) - 1
        BY <2>2, <3>2, FS_RemoveElement
      <4>3. QED
        BY <3>1, <3>2, <4>1, <4>2
    <3>4. Cardinality(Visitors) \in Nat /\ Limit \in Nat
      BY OnbAssumption, FS_CardinalityType
    <3>5. QED
      BY <2>1, <2>2, <3>3, <3>4
  <2>4. CASE i # IpOf[v]
    <3>1. RecentOf(i)' = RecentOf(i)
      BY <1>1, <1>4, <2>4 DEF RecentOf
    <3>2. Counted(i)' = Counted(i)
      BY <1>5, <2>4 DEF Counted
    <3>3. QED
      BY <2>1, <3>1, <3>2
  <2>5. QED
    BY <2>3, <2>4
<1>12. QED
  BY <1>6, <1>7, <1>8, <1>9, <1>10, <1>11 DEF OnbInv

\* A page that goes on to another phase with the session it has.
LEMMA PageMoves ==
  ASSUME OnbTypeOK, NEW v \in Visitors, NEW f \in Phases, page' = [page EXCEPT ![v].phase = f]
  PROVE  /\ page' \in [Visitors -> [phase : Phases, sess : Sessions \union {None}]]
         /\ \A x \in Visitors : /\ page'[x].sess = page[x].sess
                                /\ page'[x].phase = IF x = v THEN f ELSE page[x].phase
<1>1. page \in [Visitors -> [phase : Phases, sess : Sessions \union {None}]]
  BY DEF OnbTypeOK, Phases
<1>2. QED
  BY <1>1

\* The limit while no page is counted anew.
LEMMA RateMoves ==
  ASSUME OnbInv, UNCHANGED row \/ \E s \in Sessions : Wrote(s),
         \A x \in Visitors : page'[x].phase = "counted" => page[x].phase = "counted"
  PROVE  RateLimitHolds'
  BY RateKept, RecentKept DEF OnbInv, Counted

\* The run is asked for while nobody else knows of the session, so none of its
\* earlier runs can have ended.
LEMMA StartStep ==
  ASSUME OnbInv, NEW v \in Visitors, StartRun(v)
  PROVE  OnbInv'
<1>1. PICK made \in BOOLEAN, told \in BOOLEAN :
        /\ told => made
        /\ aq' = IF made THEN [aq EXCEPT ![page[v].sess] = "going"] ELSE aq
        /\ page' = [page EXCEPT ![v].phase = IF told THEN "started" ELSE "refused"]
  BY DEF StartRun, Goto
<1> DEFINE f == IF told THEN "started" ELSE "refused"
<1>2. OnbTypeOK /\ PagesOK /\ f \in Phases /\ f \notin {"url", "counted", "inserted"}
  BY DEF OnbInv, Phases
<1>3. /\ page[v].phase = "inserted"
      /\ UNCHANGED <<row, asking, known, mailed, req, wsVars>>
  BY DEF StartRun
<1> HIDE DEF f
<1>4. /\ page' \in [Visitors -> [phase : Phases, sess : Sessions \union {None}]]
      /\ \A x \in Visitors : /\ page'[x].sess = page[x].sess
                             /\ page'[x].phase = IF x = v THEN f ELSE page[x].phase
  <2>1. page' = [page EXCEPT ![v].phase = f]
    BY <1>1 DEF f
  <2>2. QED
    BY <1>2, <2>1, PageMoves
<1>5. page[v].sess \in Sessions /\ row[page[v].sess].status = "pending" /\ ~row[page[v].sess].result
  BY <1>2, <1>3 DEF PagesOK, OnbTypeOK
<1>6. /\ aq' \in [Sessions -> {"none", "going", "succeeded", "empty", "failed"}]
      /\ \A s \in Sessions : s # page[v].sess => aq'[s] = aq[s]
  BY <1>1, <1>2 DEF OnbTypeOK
<1>7. OnbTypeOK'
  BY <1>2, <1>3, <1>4, <1>6 DEF OnbTypeOK, wsVars, Phases
<1>8. PagesOK'
  BY <1>2, <1>3, <1>4 DEF PagesOK
<1>9. RequestsOK' /\ LandsInOwnWorkspace'
  BY <1>3, RequestsKept, LandsKept DEF OnbInv, wsVars
<1>10. ReadyMeansEnded'
  BY <1>3, <1>5, <1>6 DEF OnbInv, ReadyMeansEnded
<1>11. RateLimitHolds'
  BY <1>2, <1>3, <1>4, RateMoves
<1>12. QED
  BY <1>7, <1>8, <1>9, <1>10, <1>11 DEF OnbInv

\* A row is written whose session no page has just inserted.
LEMMA RowWritten ==
  ASSUME OnbInv, NEW s \in Sessions, Wrote(s), UNCHANGED <<page, asking, mailed>>,
         \A x \in Visitors : page[x].phase = "inserted" => page[x].sess # s
  PROVE  PagesOK' /\ RateLimitHolds'
<1>1. PagesOK'
  <2>1. OnbTypeOK /\ PagesOK
    BY DEF OnbInv
  <2>2. \A t \in Sessions : row[t] # None => row'[t] # None
    BY DEF Wrote
  <2>3. ASSUME NEW x \in Visitors
        PROVE  /\ page[x].sess # None => row'[page[x].sess] # None
               /\ page[x].phase = "inserted" => row'[page[x].sess] = row[page[x].sess]
    BY <2>1, <2>2 DEF PagesOK, OnbTypeOK, Wrote
  <2>4. mailed \subseteq Sessions
    BY <2>1 DEF OnbTypeOK
  <2>5. QED
    BY <2>1, <2>2, <2>3, <2>4 DEF PagesOK
<1>2. QED
  BY <1>1, RateMoves

\* The answer of the bootstrap writes the row of its own page.
LEMMA AnswerStep ==
  ASSUME OnbInv, NEW v \in Visitors, AnswerBootstrap(v)
  PROVE  OnbInv'
<1> DEFINE s == page[v].sess
           x == [row[s] EXCEPT !.status = "running", !.run = (page[v].phase = "started")]
<1>1. OnbTypeOK /\ PagesOK /\ page[v].phase \in {"started", "refused"}
  BY DEF OnbInv, AnswerBootstrap
<1>2. s \in Sessions /\ row[s] # None /\ row[s] \in Row
  BY <1>1 DEF PagesOK, OnbTypeOK
<1>3. x \in Row /\ x.ip = row[s].ip /\ x.recent = row[s].recent
      /\ x.status = "running" /\ x.result = row[s].result /\ x.ws = row[s].ws
  BY <1>2 DEF Row
<1>4. row' = [row EXCEPT ![s] = x]
  BY DEF AnswerBootstrap
<1>5. /\ UNCHANGED <<aq, asking, known, mailed, req, wsVars>>
      /\ page' = [page EXCEPT ![v].phase = "waiting"]
  BY DEF AnswerBootstrap, Goto
<1> HIDE DEF s, x
<1>6. Wrote(s) /\ row'[s] = x
  BY <1>1, <1>2, <1>3, <1>4, Writes
<1>7. /\ page' \in [Visitors -> [phase : Phases, sess : Sessions \union {None}]]
      /\ \A y \in Visitors : /\ page'[y].sess = page[y].sess
                             /\ page'[y].phase = IF y = v THEN "waiting" ELSE page[y].phase
  BY <1>1, <1>5, PageMoves DEF Phases
<1>8. OnbTypeOK'
  BY <1>1, <1>5, <1>6, <1>7 DEF OnbTypeOK, wsVars, Phases, Wrote
<1>9. PagesOK'
  <2>1. \A t \in Sessions : row[t] # None => row'[t] # None
    BY <1>6 DEF Wrote
  <2>2. ASSUME NEW y \in Visitors, page'[y].phase = "inserted"
        PROVE  page[y].phase = "inserted" /\ row'[page[y].sess] = row[page[y].sess]
    <3>1. y # v /\ page[y].phase = "inserted" /\ page[y].sess # None
      BY <1>1, <1>7, <2>2 DEF PagesOK
    <3>2. page[y].sess \in Sessions \ {s}
      BY <1>1, <3>1 DEF PagesOK, OnbTypeOK, s
    <3>3. QED
      BY <1>6, <3>1, <3>2 DEF Wrote
  <2>3. \A y \in Visitors : page[y].sess # None => page[y].sess \in Sessions
    BY <1>1 DEF OnbTypeOK
  <2>4. mailed \subseteq Sessions
    BY <1>1 DEF OnbTypeOK
  <2>5. QED
    BY <1>1, <1>5, <1>7, <2>1, <2>2, <2>3, <2>4 DEF PagesOK
<1>10. RequestsOK'
  BY <1>5, RequestsKept DEF OnbInv, wsVars
<1>11. LandsInOwnWorkspace'
  BY <1>2, <1>3, <1>5, <1>6, LandsKept DEF OnbInv, Wrote
<1>12. ReadyMeansEnded'
  BY <1>2, <1>3, <1>5, <1>6 DEF OnbInv, ReadyMeansEnded, Wrote
<1>13. RateLimitHolds'
  BY <1>2, <1>6, <1>7, RateMoves
<1>14. QED
  BY <1>8, <1>9, <1>10, <1>11, <1>12, <1>13 DEF OnbInv

\* Steps of a page that write no row.
LEMMA QuietStep ==
  ASSUME OnbInv, NEW v \in Visitors,
         BootstrapDies(v) \/ PollRead(v) \/ PollAgain(v) \/ SendLink(v)
  PROVE  OnbInv'
<1>1. OnbTypeOK /\ PagesOK /\ UNCHANGED <<row, aq, req, wsVars>> /\ mailed \subseteq mailed'
  BY DEF OnbInv, BootstrapDies, PollRead, PollAgain, SendLink
<1>2. RequestsOK' /\ LandsInOwnWorkspace' /\ ReadyMeansEnded'
  BY <1>1, RequestsKept, RowsKept DEF OnbInv, wsVars
<1>3. CASE BootstrapDies(v)
  <2>1. /\ page'[v] = [phase |-> "url", sess |-> None]
        /\ \A x \in Visitors : x # v => page'[x] = page[x]
        /\ page' \in [Visitors -> [phase : Phases, sess : Sessions \union {None}]]
    BY <1>1, <1>3 DEF BootstrapDies, OnbTypeOK, Phases
  <2>2. v \notin asking
    BY <1>1, <1>3 DEF BootstrapDies, PagesOK
  <2>3. OnbTypeOK'
    BY <1>1, <1>3, <2>1 DEF BootstrapDies, OnbTypeOK, wsVars, Phases
  <2>4. PagesOK'
    BY <1>1, <1>3, <2>1, <2>2 DEF BootstrapDies, PagesOK
  <2>5. RateLimitHolds'
    BY <1>1, <2>1, RateMoves
  <2>6. QED
    BY <1>2, <2>3, <2>4, <2>5 DEF OnbInv
<1>4. CASE PollRead(v) \/ PollAgain(v)
  <2>1. /\ UNCHANGED <<page, mailed>>
        /\ asking' \subseteq asking \union {v} /\ known' \subseteq known \union {v}
        /\ v \in asking' => page[v].phase = "waiting" \/ v \in asking
    BY <1>4 DEF PollRead, PollAgain
  <2>2. OnbTypeOK'
    BY <1>1, <2>1 DEF OnbTypeOK, wsVars
  <2>3. PagesOK'
    BY <1>1, <2>1 DEF PagesOK
  <2>4. RateLimitHolds'
    BY <1>1, <2>1, RateMoves
  <2>5. QED
    BY <1>2, <2>2, <2>3, <2>4 DEF OnbInv
<1>5. CASE SendLink(v)
  <2>1. page[v].phase = "waiting" /\ page[v].sess \in Sessions /\ row[page[v].sess] # None
    BY <1>1, <1>5 DEF SendLink, PagesOK, OnbTypeOK
  <2>2. /\ page' \in [Visitors -> [phase : Phases, sess : Sessions \union {None}]]
        /\ \A x \in Visitors : page'[x].sess = page[x].sess
        /\ \A x \in Visitors : x # v => page'[x].phase = page[x].phase
        /\ page'[v].phase \in {"waiting", "sent"}
    <3>1. CASE page' = page
      BY <1>1, <2>1, <3>1 DEF OnbTypeOK, Phases
    <3>2. CASE page' = [page EXCEPT ![v].phase = "sent"]
      <4>1. "sent" \in Phases
        BY DEF Phases
      <4>2. /\ page' \in [Visitors -> [phase : Phases, sess : Sessions \union {None}]]
            /\ \A x \in Visitors : /\ page'[x].sess = page[x].sess
                                   /\ page'[x].phase = IF x = v THEN "sent" ELSE page[x].phase
        BY <1>1, <3>2, <4>1, PageMoves
      <4>3. QED
        BY <4>2
    <3>3. QED
      BY <1>5, <3>1, <3>2 DEF SendLink
  <2>3. mailed' = mailed \union {page[v].sess} /\ UNCHANGED <<asking, known>>
    BY <1>5 DEF SendLink
  <2>4. OnbTypeOK'
    BY <1>1, <2>1, <2>2, <2>3 DEF OnbTypeOK, wsVars, Phases
  <2>5. PagesOK'
    BY <1>1, <2>1, <2>2, <2>3 DEF PagesOK
  <2>6. RateLimitHolds'
    BY <1>1, <2>1, <2>2, RateMoves
  <2>7. QED
    BY <1>2, <2>4, <2>5, <2>6 DEF OnbInv
<1>6. QED
  BY <1>3, <1>4, <1>5

\* A poll writes what it was told of a run that ended, over whatever the row has
\* become.
LEMMA PollEndedStep ==
  ASSUME OnbInv, NEW v \in Visitors, PollEnded(v)
  PROVE  OnbInv'
<1> DEFINE s == page[v].sess
           x == [row[s] EXCEPT !.status = "ready", !.result = (@ \/ aq[s] = "succeeded")]
<1>1. OnbTypeOK /\ PagesOK /\ page[v].phase \in {"waiting", "sent"} /\ v \in asking
  BY DEF OnbInv, PollEnded, PagesOK
<1>2. s \in Sessions /\ row[s] # None /\ row[s] \in Row /\ aq[s] \in {"succeeded", "failed"}
  BY <1>1 DEF PagesOK, OnbTypeOK, PollEnded
<1>3. /\ x \in Row /\ x.ip = row[s].ip /\ x.recent = row[s].recent
      /\ x.status = "ready" /\ x.ws = row[s].ws
  BY <1>2 DEF Row
<1>4. x.result => row[s].result \/ aq[s] = "succeeded"
  BY <1>2 DEF Row
<1>5. row' = [row EXCEPT ![s] = x]
  BY DEF PollEnded
<1>6. /\ UNCHANGED <<aq, page, mailed, req, wsVars>>
      /\ asking' = asking \ {v} /\ known' = known \union {v}
  BY DEF PollEnded
<1>7. \A y \in Visitors : page[y].phase = "inserted" => page[y].sess # s
  BY <1>1, <1>2 DEF PagesOK
<1> HIDE DEF s, x
<1>8. Wrote(s) /\ row'[s] = x
  BY <1>1, <1>2, <1>3, <1>5, Writes
<1>9. OnbTypeOK'
  BY <1>1, <1>6, <1>8 DEF OnbTypeOK, wsVars, Wrote
<1>10. PagesOK'
  <2>1. \A t \in Sessions : row[t] # None => row'[t] # None
    BY <1>8 DEF Wrote
  <2>2. ASSUME NEW y \in Visitors
        PROVE  /\ page[y].sess # None => row'[page[y].sess] # None
               /\ page[y].phase = "inserted" => row'[page[y].sess] = row[page[y].sess]
    <3>1. page[y].sess \in Sessions \union {None}
      BY <1>1 DEF OnbTypeOK
    <3>2. page[y].sess # None => row[page[y].sess] # None
      BY <1>1 DEF PagesOK
    <3>3. page[y].phase = "inserted" => page[y].sess \in Sessions \ {s}
      BY <1>1, <1>7, <3>1 DEF PagesOK
    <3>4. QED
      BY <1>8, <2>1, <3>1, <3>2, <3>3 DEF Wrote
  <2>3. mailed \subseteq Sessions
    BY <1>1 DEF OnbTypeOK
  <2>4. QED
    BY <1>1, <1>6, <2>1, <2>2, <2>3 DEF PagesOK
<1>11. RequestsOK'
  BY <1>6, RequestsKept DEF OnbInv, wsVars
<1>12. LandsInOwnWorkspace'
  BY <1>2, <1>3, <1>6, <1>8, LandsKept DEF OnbInv, Wrote
<1>13. ReadyMeansEnded'
  BY <1>2, <1>3, <1>4, <1>6, <1>8 DEF OnbInv, ReadyMeansEnded, Wrote
<1>14. RateLimitHolds'
  BY <1>2, <1>6, <1>8, RateMoves
<1>15. QED
  BY <1>9, <1>10, <1>11, <1>12, <1>13, <1>14 DEF OnbInv

\* Time, and Aquila's runs.
LEMMA OutsideStep ==
  ASSUME OnbInv, NEW s \in Sessions, RunEnds(s) \/ TimePasses(s)
  PROVE  OnbInv'
<1>1. OnbTypeOK /\ PagesOK /\ UNCHANGED <<pageVars, req, wsVars>>
  BY DEF OnbInv, RunEnds, TimePasses
<1>2. RequestsOK'
  BY <1>1, RequestsKept DEF OnbInv, wsVars, pageVars
<1>3. CASE RunEnds(s)
  <2>1. PICK e \in {"succeeded", "empty", "failed"} : aq' = [aq EXCEPT ![s] = e]
    BY <1>3 DEF RunEnds
  <2>2. /\ aq' \in [Sessions -> {"none", "going", "succeeded", "empty", "failed"}]
        /\ aq[s] = "going" /\ aq'[s] = e
        /\ \A t \in Sessions : t # s => aq'[t] = aq[t]
    BY <1>1, <1>3, <2>1 DEF OnbTypeOK, RunEnds
  <2>3. row' = row
    BY <1>3 DEF RunEnds
  <2>4. OnbTypeOK' /\ PagesOK'
    BY <1>1, <2>2, <2>3 DEF OnbTypeOK, PagesOK, pageVars, wsVars
  <2>5. LandsInOwnWorkspace' /\ RateLimitHolds'
    BY <1>1, <2>3, LandsKept, RateMoves DEF OnbInv, pageVars
  <2>6. ReadyMeansEnded'
    BY <2>2, <2>3 DEF OnbInv, ReadyMeansEnded
  <2>7. QED
    BY <1>2, <2>4, <2>5, <2>6 DEF OnbInv
<1>4. CASE TimePasses(s)
  <2>1. row[s] # None /\ row[s] \in Row /\ row \in [Sessions -> Row \union {None}]
    BY <1>1, <1>4 DEF TimePasses, OnbTypeOK
  <2>2. PICK x \in Row :
          /\ row' = [row EXCEPT ![s] = x]
          /\ x.ip = row[s].ip /\ x.status = row[s].status /\ x.result = row[s].result
          /\ x.ws = row[s].ws /\ (x.recent => row[s].recent)
    <3>1. CASE row' = [row EXCEPT ![s].recent = FALSE]
      <4>1. [row[s] EXCEPT !.recent = FALSE] \in Row
        BY <2>1 DEF Row
      <4>2. row' = [row EXCEPT ![s] = [row[s] EXCEPT !.recent = FALSE]]
        BY <3>1
      <4>3. QED
        BY <2>1, <4>1, <4>2 DEF Row
    <3>2. CASE row' = [row EXCEPT ![s].live = FALSE]
      <4>1. [row[s] EXCEPT !.live = FALSE] \in Row
        BY <2>1 DEF Row
      <4>2. row' = [row EXCEPT ![s] = [row[s] EXCEPT !.live = FALSE]]
        BY <3>2
      <4>3. QED
        BY <2>1, <4>1, <4>2 DEF Row
    <3>3. QED
      BY <1>4, <3>1, <3>2 DEF TimePasses
  <2>3. /\ row' \in [Sessions -> Row \union {None}]
        /\ row'[s] = x /\ x # None
        /\ \A t \in Sessions : t # s => row'[t] = row[t]
    BY <2>1, <2>2, NoRowAssumption
  <2>4. UNCHANGED <<aq, page, asking, known, mailed>>
    BY <1>1, <1>4 DEF TimePasses, pageVars
  <2>5. OnbTypeOK'
    BY <1>1, <2>3, <2>4 DEF OnbTypeOK, wsVars
  <2>6. PagesOK'
    <3>1. \A t \in Sessions : row[t] # None =>
            /\ row'[t] # None
            /\ row'[t].status = row[t].status /\ row'[t].result = row[t].result
      BY <2>2, <2>3
    <3>2. mailed \subseteq Sessions /\ \A y \in Visitors : page[y].sess \in Sessions \union {None}
      BY <1>1 DEF OnbTypeOK
    <3>3. QED
      BY <1>1, <2>4, <3>1, <3>2 DEF PagesOK
  <2>7. LandsInOwnWorkspace'
    BY <1>1, <2>1, <2>2, <2>3, LandsKept DEF OnbInv
  <2>8. ReadyMeansEnded'
    BY <2>1, <2>2, <2>3, <2>4 DEF OnbInv, ReadyMeansEnded
  <2>9. RateLimitHolds'
    <3>1. \A i \in Ips : RecentOf(i)' \subseteq RecentOf(i) /\ Counted(i)' \subseteq Counted(i)
      BY <2>1, <2>2, <2>3, <2>4 DEF RecentOf, Counted
    <3>2. QED
      BY <3>1, RateKept DEF OnbInv
  <2>10. QED
    BY <1>2, <2>5, <2>6, <2>7, <2>8, <2>9 DEF OnbInv
<1>5. QED
  BY <1>3, <1>4

Pcs == {"idle", "create", "enqueue", "retry", "enqueue2", "mark", "switch"}
Reqs == [pc : Pcs, user : Users \union {None}, sess : Sessions \union {None},
         ws : Workspaces \union {None}]

\* What a step of a request leaves alone, unless it claims a session.
LEMMA RowsAside ==
  ASSUME OnbInv, UNCHANGED <<row, aq, pageVars>>
  PROVE  PagesOK' /\ ReadyMeansEnded' /\ RateLimitHolds'
<1>1. PagesOK' /\ ReadyMeansEnded'
  BY DEF OnbInv, PagesOK, ReadyMeansEnded, pageVars
<1>2. RateLimitHolds'
  BY RateMoves DEF pageVars
<1>3. QED
  BY <1>1, <1>2

\* Requests that begin, fail or die.
LEMMA RequestMoves ==
  ASSUME OnbInv, NEW r \in Requests,
         ClaimRead(r) \/ SubmitForm(r) \/ CreateFails(r) \/ RequestDies(r)
  PROVE  OnbInv'
<1>1. OnbTypeOK /\ RequestsOK /\ UNCHANGED <<row, aq, pageVars, wsVars>>
  BY DEF OnbInv, ClaimRead, SubmitForm, CreateFails, RequestDies, NoPage
<1>2. req \in [Requests -> Reqs] /\ mailed \subseteq Sessions /\ mailed' = mailed
  BY <1>1 DEF OnbTypeOK, Reqs, Pcs, pageVars
<1>3. PICK x \in Reqs :
        /\ req' = [req EXCEPT ![r] = x]
        /\ x.sess # None => x.sess \in mailed
        /\ x.pc \in {"idle", "create", "retry"}
        /\ x.pc # "idle" => x.user # None
  <2>1. Idle \in Reqs /\ Idle.sess = None /\ Idle.pc = "idle"
    BY DEF Idle, Reqs, Pcs
  <2>2. CASE ClaimRead(r)
    <3>1. PICK u \in Users, s \in mailed :
            req' = [req EXCEPT ![r] = [pc |-> "create", user |-> u, sess |-> s, ws |-> None]]
      BY <2>2 DEF ClaimRead
    <3>2. [pc |-> "create", user |-> u, sess |-> s, ws |-> None] \in Reqs /\ u # None
      BY <1>2, OnbAssumption DEF Reqs, Pcs
    <3>3. QED
      BY <3>1, <3>2
  <2>3. CASE SubmitForm(r)
    <3>1. PICK u \in Users :
            req' = [req EXCEPT ![r] = [pc |-> "create", user |-> u, sess |-> None, ws |-> None]]
      BY <2>3 DEF SubmitForm
    <3>2. [pc |-> "create", user |-> u, sess |-> None, ws |-> None] \in Reqs /\ u # None
      BY OnbAssumption DEF Reqs, Pcs
    <3>3. QED
      BY <3>1, <3>2
  <2>4. CASE CreateFails(r)
    <3>1. CASE req' = [req EXCEPT ![r] = Idle]
      BY <2>1, <3>1
    <3>2. CASE req' = [req EXCEPT ![r].pc = "retry", ![r].ws = None]
      <4> DEFINE x == [req[r] EXCEPT !.pc = "retry", !.ws = None]
      <4>1. req[r] \in Reqs /\ req[r].pc # "idle"
        BY <1>2, <2>4 DEF CreateFails
      <4>2. /\ x \in Reqs /\ x.pc = "retry"
            /\ x.sess = req[r].sess /\ x.user = req[r].user
        BY <4>1 DEF Reqs, Pcs
      <4>3. req' = [req EXCEPT ![r] = x]
        BY <1>2, <3>2
      <4>4. QED
        BY <1>1, <4>1, <4>2, <4>3 DEF RequestsOK
    <3>3. QED
      BY <2>4, <3>1, <3>2 DEF CreateFails
  <2>5. CASE RequestDies(r)
    BY <2>1, <2>5 DEF RequestDies
  <2>6. QED
    BY <2>2, <2>3, <2>4, <2>5
<1>4. req'[r] = x /\ \A q \in Requests : q # r => req'[q] = req[q]
  BY <1>2, <1>3
<1>5. OnbTypeOK'
  <2>1. req' \in [Requests -> Reqs]
    BY <1>2, <1>3
  <2>2. QED
    BY <1>1, <2>1 DEF OnbTypeOK, pageVars, wsVars, Reqs, Pcs
<1>6. RequestsOK'
  BY <1>1, <1>2, <1>3, <1>4 DEF RequestsOK, wsVars
<1>7. QED
  BY <1>1, <1>5, <1>6, RowsAside, RowsKept DEF OnbInv

\* The workspace, its owner and what is told of it are nobody else's yet.
LEMMA CommitStep ==
  ASSUME OnbInv, NEW r \in Requests, CommitWorkspace(r)
  PROVE  OnbInv'
<1>1. OnbTypeOK /\ RequestsOK /\ UNCHANGED <<row, aq, pageVars, queued, cookie, picked>>
  BY DEF OnbInv, CommitWorkspace, NoPage
<1>2. req \in [Requests -> Reqs] /\ mailed' = mailed /\ None \notin Workspaces
  BY <1>1, OnbAssumption DEF OnbTypeOK, Reqs, Pcs, pageVars
<1>3. PICK w \in Workspaces :
        /\ owner[w] = None
        /\ owner' = [owner EXCEPT ![w] = req[r].user]
        /\ born' = [born EXCEPT ![w] = req[r].sess]
        /\ req' = [req EXCEPT ![r].ws = w,
                              ![r].pc = IF @ = "create" THEN "enqueue" ELSE "enqueue2"]
  BY DEF CommitWorkspace
<1> DEFINE x == [req[r] EXCEPT !.ws = w,
                   !.pc = IF req[r].pc = "create" THEN "enqueue" ELSE "enqueue2"]
<1>4. req[r] \in Reqs /\ req[r].pc # "idle"
  BY <1>2 DEF CommitWorkspace
<1>5. /\ x \in Reqs /\ x.pc \in {"enqueue", "enqueue2"} /\ x.ws = w
      /\ x.user = req[r].user /\ x.sess = req[r].sess
  BY <1>4 DEF Reqs, Pcs
<1>6. req' = [req EXCEPT ![r] = x]
  BY <1>2, <1>3
<1> HIDE DEF x
<1>7. req'[r] = x /\ \A q \in Requests : q # r => req'[q] = req[q]
  BY <1>2, <1>6
<1>8. /\ owner' \in [Workspaces -> Users \union {None}] /\ born' \in [Workspaces -> Sessions \union {None}]
      /\ owner'[w] = req[r].user /\ born'[w] = req[r].sess
      /\ \A v \in Workspaces : v # w => owner'[v] = owner[v] /\ born'[v] = born[v]
  BY <1>1, <1>3, <1>4 DEF OnbTypeOK, Reqs
<1>9. OnbTypeOK'
  <2>1. req' \in [Requests -> Reqs]
    BY <1>2, <1>5, <1>6
  <2>2. QED
    BY <1>1, <1>8, <2>1 DEF OnbTypeOK, pageVars, Reqs, Pcs
<1>10. RequestsOK'
  <2> SUFFICES ASSUME NEW q \in Requests
               PROVE  /\ req'[q].sess # None => req'[q].sess \in mailed
                      /\ req'[q].pc # "idle" => req'[q].user # None
                      /\ req'[q].pc \in {"enqueue", "enqueue2", "mark", "switch"} =>
                           /\ req'[q].ws # None
                           /\ owner'[req'[q].ws] = req'[q].user
                           /\ born'[req'[q].ws] = req'[q].sess
                      /\ req'[q].pc \in {"mark", "switch"} => req'[q].ws \in queued
                      /\ req'[q].pc = "mark" => req'[q].sess # None
    BY <1>1, <1>2 DEF RequestsOK
  <2>1. CASE q = r
    BY <1>1, <1>2, <1>4, <1>5, <1>7, <1>8, <2>1 DEF RequestsOK
  <2>2. CASE q # r
    <3>1. req'[q] = req[q] /\ req[q] \in Reqs
      BY <1>2, <1>7, <2>2
    <3>2. ASSUME req[q].pc \in {"enqueue", "enqueue2", "mark", "switch"}
          PROVE  /\ req[q].ws # None
                 /\ owner'[req[q].ws] = req[q].user
                 /\ born'[req[q].ws] = req[q].sess
      <4>1. /\ req[q].ws # None /\ req[q].ws \in Workspaces
            /\ owner[req[q].ws] = req[q].user /\ req[q].user # None
            /\ born[req[q].ws] = req[q].sess
        BY <1>1, <3>1, <3>2 DEF RequestsOK, Reqs
      <4>2. req[q].ws # w
        BY <1>3, <4>1
      <4>3. QED
        BY <1>8, <4>1, <4>2
    <3>3. QED
      BY <1>1, <3>1, <3>2 DEF RequestsOK
  <2>3. QED
    BY <2>1, <2>2
<1>11. LandsInOwnWorkspace'
  <2>1. ASSUME NEW u \in Users, cookie[u] # None
        PROVE  owner'[cookie[u]] = u /\ (cookie[u] \in queued \/ u \in picked)
    <3>1. /\ cookie[u] \in Workspaces /\ owner[cookie[u]] = u /\ u # None
          /\ cookie[u] \in queued \/ u \in picked
      BY <1>1, <2>1, OnbAssumption DEF OnbTypeOK, OnbInv, LandsInOwnWorkspace
    <3>2. cookie[u] # w
      BY <1>3, <3>1
    <3>3. QED
      BY <1>8, <3>1, <3>2
  <2>2. ASSUME NEW s \in Sessions, row[s] # None, row[s].ws # None
        PROVE  owner'[row[s].ws] # None /\ row[s].ws \in queued /\ born'[row[s].ws] = s
    <3>1. row[s].ws \in Workspaces
      BY <1>1, <2>2, RowTypes
    <3>2. owner[row[s].ws] # None /\ row[s].ws \in queued /\ born[row[s].ws] = s
      BY <2>2 DEF OnbInv, LandsInOwnWorkspace
    <3>3. row[s].ws # w
      BY <1>3, <3>2
    <3>4. QED
      BY <1>8, <3>1, <3>2, <3>3
  <2>3. QED
    BY <1>1, <2>1, <2>2 DEF LandsInOwnWorkspace
<1>12. QED
  BY <1>1, <1>9, <1>10, <1>11, RowsAside DEF OnbInv

\* The job is queued before anything names the workspace.
LEMMA EnqueueStep ==
  ASSUME OnbInv, NEW r \in Requests, EnqueueProvision(r)
  PROVE  OnbInv'
<1>1. /\ OnbTypeOK /\ RequestsOK
      /\ UNCHANGED <<row, aq, pageVars, owner, cookie, picked, born>>
      /\ queued' = queued \union {req[r].ws}
  BY DEF OnbInv, EnqueueProvision, NoPage
<1>2. req \in [Requests -> Reqs] /\ mailed' = mailed
  BY <1>1 DEF OnbTypeOK, Reqs, Pcs, pageVars
<1> DEFINE x == [req[r] EXCEPT !.pc = IF req[r].sess = None THEN "switch" ELSE "mark"]
<1>3. req[r] \in Reqs /\ req[r].pc \in {"enqueue", "enqueue2"} /\ req[r].ws # None
  BY <1>1, <1>2 DEF EnqueueProvision, RequestsOK
<1>4. /\ x \in Reqs /\ x.pc = IF req[r].sess = None THEN "switch" ELSE "mark"
      /\ x.ws = req[r].ws /\ x.user = req[r].user /\ x.sess = req[r].sess
  BY <1>3 DEF Reqs, Pcs
<1>5. req' = [req EXCEPT ![r] = x]
  BY <1>2 DEF EnqueueProvision, Become
<1> HIDE DEF x
<1>6. req'[r] = x /\ \A q \in Requests : q # r => req'[q] = req[q]
  BY <1>2, <1>5
<1>7. OnbTypeOK'
  <2>1. req' \in [Requests -> Reqs]
    BY <1>2, <1>4, <1>5
  <2>2. queued' \subseteq Workspaces
    BY <1>1, <1>3 DEF OnbTypeOK, Reqs
  <2>3. QED
    BY <1>1, <2>1, <2>2 DEF OnbTypeOK, pageVars, Reqs, Pcs
<1>8. RequestsOK'
  BY <1>1, <1>2, <1>3, <1>4, <1>6 DEF RequestsOK
<1>9. LandsInOwnWorkspace'
  BY <1>1 DEF OnbInv, LandsInOwnWorkspace
<1>10. QED
  BY <1>1, <1>7, <1>8, <1>9, RowsAside DEF OnbInv

\* The session gets the workspace the request has queued: nobody else's, and no
\* other session's.
LEMMA MarkStep ==
  ASSUME OnbInv, NEW r \in Requests, MarkClaimed(r)
  PROVE  OnbInv'
<1> DEFINE s == req[r].sess
           x == [row[s] EXCEPT !.status = "claimed", !.ws = req[r].ws]
           q == [req[r] EXCEPT !.pc = "switch"]
<1>1. /\ OnbTypeOK /\ PagesOK /\ RequestsOK /\ req[r].pc = "mark"
      /\ UNCHANGED <<aq, page, asking, known, mailed, owner, queued, cookie, picked, born>>
  BY DEF OnbInv, MarkClaimed, NoPage, wsVars, pageVars
<1>2. req \in [Requests -> Reqs] /\ mailed \subseteq Sessions
  BY <1>1 DEF OnbTypeOK, Reqs, Pcs
<1>3. /\ s \in mailed /\ s \in Sessions /\ row[s] # None /\ row[s] \in Row
      /\ req[r] \in Reqs /\ req[r].ws \in Workspaces /\ req[r].ws \in queued
      /\ owner[req[r].ws] # None /\ born[req[r].ws] = s
  BY <1>1, <1>2 DEF PagesOK, RequestsOK, Reqs, OnbTypeOK
<1>4. /\ x \in Row /\ x.ip = row[s].ip /\ x.recent = row[s].recent
      /\ x.status = "claimed" /\ x.result = row[s].result /\ x.ws = req[r].ws
  BY <1>3 DEF Row
<1>5. /\ q \in Reqs /\ q.pc = "switch"
      /\ q.ws = req[r].ws /\ q.user = req[r].user /\ q.sess = s
  BY <1>3 DEF Reqs, Pcs
<1>6. row' = [row EXCEPT ![s] = x] /\ req' = [req EXCEPT ![r] = q]
  BY <1>2 DEF MarkClaimed, Become
<1>7. \A v \in Visitors : page[v].phase = "inserted" => page[v].sess # s
  BY <1>1, <1>3 DEF PagesOK
<1> HIDE DEF s, x, q
<1>8. Wrote(s) /\ row'[s] = x
  BY <1>1, <1>3, <1>4, <1>6, Writes
<1>9. req'[r] = q /\ \A p \in Requests : p # r => req'[p] = req[p]
  BY <1>2, <1>6
<1>10. OnbTypeOK'
  <2>1. req' \in [Requests -> Reqs]
    BY <1>2, <1>5, <1>6
  <2>2. QED
    BY <1>1, <1>8, <2>1 DEF OnbTypeOK, Wrote, Reqs, Pcs
<1>11. PagesOK' /\ RateLimitHolds'
  BY <1>1, <1>3, <1>7, <1>8, RowWritten
<1>12. RequestsOK'
  BY <1>1, <1>3, <1>5, <1>9 DEF RequestsOK, s
<1>13. LandsInOwnWorkspace'
  BY <1>1, <1>3, <1>4, <1>8 DEF OnbInv, LandsInOwnWorkspace, Wrote
<1>14. ReadyMeansEnded'
  BY <1>1, <1>3, <1>4, <1>8 DEF OnbInv, ReadyMeansEnded, Wrote
<1>15. QED
  BY <1>10, <1>11, <1>12, <1>13, <1>14 DEF OnbInv

\* The claim and the form set the cookie to a workspace that is queued.
LEMMA SwitchStep ==
  ASSUME OnbInv, NEW r \in Requests, ClaimAgain(r) \/ SwitchToWorkspace(r)
  PROVE  OnbInv'
<1>1. /\ OnbTypeOK /\ PagesOK /\ RequestsOK
      /\ UNCHANGED <<row, aq, pageVars, owner, queued, born>>
  BY DEF OnbInv, ClaimAgain, SwitchToWorkspace, NoPage
<1>2. req \in [Requests -> Reqs] /\ mailed' = mailed /\ mailed \subseteq Sessions
  BY <1>1 DEF OnbTypeOK, Reqs, Pcs, pageVars
<1>3. /\ req' \in [Requests -> Reqs]
      /\ \A q \in Requests : req'[q] = req[q] \/ req'[q] = Idle
  <2>1. Idle \in Reqs
    BY DEF Idle, Reqs, Pcs
  <2>2. QED
    BY <1>2, <2>1 DEF ClaimAgain, SwitchToWorkspace
<1>4. PICK u \in Users \union {None}, w \in Workspaces :
        w \in queued /\ Switch(u, w)
  <2>1. CASE ClaimAgain(r)
    <3>1. PICK u \in Users, s \in mailed :
            row[s].status = "claimed" /\ row[s].ws # None /\ Switch(u, row[s].ws)
      BY <2>1 DEF ClaimAgain
    <3>2. s \in Sessions /\ row[s] # None
      BY <1>1, <1>2 DEF PagesOK
    <3>3. row[s].ws \in Workspaces /\ row[s].ws \in queued
      BY <1>1, <3>1, <3>2, RowTypes DEF OnbInv, LandsInOwnWorkspace
    <3>4. QED
      BY <3>1, <3>3
  <2>2. CASE SwitchToWorkspace(r)
    <3>1. req[r].user \in Users \union {None} /\ req[r].ws \in Workspaces /\ req[r].ws \in queued
      BY <1>1, <1>2, <2>2 DEF SwitchToWorkspace, RequestsOK, Reqs
    <3>2. QED
      BY <2>2, <3>1 DEF SwitchToWorkspace
  <2>3. QED
    BY <2>1, <2>2
<1>5. /\ cookie' \in [Users -> Workspaces \union {None}]
      /\ picked' \subseteq Users
      /\ \A v \in Users : \/ cookie'[v] = cookie[v] /\ (v \in picked => v \in picked')
                          \/ cookie'[v] = w /\ owner[w] = v
  BY <1>1, <1>4 DEF Switch, OnbTypeOK
<1>6. OnbTypeOK'
  BY <1>1, <1>3, <1>5 DEF OnbTypeOK, pageVars, Reqs, Pcs
<1>7. RequestsOK'
  BY <1>1, <1>2, <1>3 DEF RequestsOK, Idle
<1>8. LandsInOwnWorkspace'
  BY <1>1, <1>4, <1>5 DEF OnbInv, LandsInOwnWorkspace
<1>9. QED
  BY <1>1, <1>6, <1>7, <1>8, RowsAside DEF OnbInv

\* On the list of workspaces the user picks any of his own.
LEMMA PickStep ==
  ASSUME OnbInv, NEW u \in Users, PickWorkspace(u)
  PROVE  OnbInv'
<1>1. /\ OnbTypeOK /\ RequestsOK
      /\ UNCHANGED <<row, aq, pageVars, req, owner, queued, born>>
  BY DEF OnbInv, PickWorkspace, NoPage
<1>2. PICK w \in Workspaces : owner[w] = u /\ cookie' = [cookie EXCEPT ![u] = w]
  BY DEF PickWorkspace
<1>3. picked' = picked \union {u}
  BY DEF PickWorkspace
<1>4. OnbTypeOK'
  BY <1>1, <1>2, <1>3 DEF OnbTypeOK, pageVars
<1>5. RequestsOK'
  BY <1>1, RequestsKept DEF pageVars
<1>6. LandsInOwnWorkspace'
  BY <1>1, <1>2, <1>3 DEF OnbInv, OnbTypeOK, LandsInOwnWorkspace
<1>7. QED
  BY <1>1, <1>4, <1>5, <1>6, RowsAside DEF OnbInv

\* There are no sessions and no requests.
LEMMA OnbInitInv == OnbInit => OnbInv
<1> SUFFICES ASSUME OnbInit PROVE OnbInv
  OBVIOUS
<1>1. OnbTypeOK
  BY DEF OnbInit, OnbTypeOK, Idle
<1>2. PagesOK /\ RequestsOK /\ LandsInOwnWorkspace /\ ReadyMeansEnded
  BY DEF OnbInit, PagesOK, RequestsOK, Idle, LandsInOwnWorkspace, ReadyMeansEnded
<1>3. RateLimitHolds
  <2> SUFFICES ASSUME NEW i \in Ips
               PROVE  Cardinality(RecentOf(i)) + Cardinality(Counted(i))
                        <= Limit - 1 + Cardinality(Visitors)
    BY DEF RateLimitHolds
  <2>1. RecentOf(i) = {} /\ Counted(i) = {}
    BY DEF OnbInit, RecentOf, Counted
  <2>2. Cardinality(RecentOf(i)) = 0 /\ Cardinality(Counted(i)) = 0
    BY <2>1, FS_EmptySet
  <2>3. Cardinality(Visitors) \in Nat /\ Limit \in Nat \ {0}
    BY OnbAssumption, FS_CardinalityType
  <2>4. QED
    BY <2>2, <2>3
<1>4. QED
  BY <1>1, <1>2, <1>3 DEF OnbInv

\* Every step keeps the invariant.
LEMMA OnbStep == OnbInv /\ [OnbNext]_onbVars => OnbInv'
<1> SUFFICES ASSUME OnbInv, [OnbNext]_onbVars PROVE OnbInv'
  OBVIOUS
<1>1. CASE UNCHANGED onbVars
  <2>1. UNCHANGED <<row, aq, pageVars, req, wsVars>>
    BY <1>1 DEF onbVars
  <2>2. PagesOK' /\ ReadyMeansEnded' /\ RateLimitHolds' /\ LandsInOwnWorkspace'
    BY <2>1, RowsAside, RowsKept
  <2>3. RequestsOK'
    BY <2>1, RequestsKept DEF OnbInv, wsVars, pageVars
  <2>4. OnbTypeOK'
    BY <2>1 DEF OnbInv, OnbTypeOK, pageVars, wsVars
  <2>5. QED
    BY <2>2, <2>3, <2>4 DEF OnbInv
<1>2. ASSUME NEW v \in Visitors,
             \/ CountRecent(v) \/ InsertSession(v) \/ StartRun(v) \/ AnswerBootstrap(v)
             \/ BootstrapDies(v) \/ Poll(v) \/ PollAgain(v) \/ SendLink(v)
      PROVE  OnbInv'
  BY <1>2, CountStep, InsertStep, StartStep, AnswerStep, QuietStep, PollEndedStep DEF Poll
<1>3. ASSUME NEW s \in Sessions, RunEnds(s) \/ TimePasses(s)
      PROVE  OnbInv'
  BY <1>3, OutsideStep
<1>4. ASSUME NEW r \in Requests,
             \/ ClaimAgain(r) \/ ClaimRead(r) \/ SubmitForm(r) \/ CommitWorkspace(r)
             \/ CreateFails(r) \/ EnqueueProvision(r) \/ MarkClaimed(r)
             \/ SwitchToWorkspace(r) \/ RequestDies(r)
      PROVE  OnbInv'
  BY <1>4, RequestMoves, CommitStep, EnqueueStep, MarkStep, SwitchStep
<1>5. ASSUME NEW u \in Users, PickWorkspace(u)
      PROVE  OnbInv'
  BY <1>5, PickStep
<1>6. QED
  BY <1>1, <1>2, <1>3, <1>4, <1>5 DEF OnbNext

\* The invariant holds throughout.
LEMMA OnbInvariant == OnbSpec => []OnbInv
  BY OnbInitInv, OnbStep, PTL DEF OnbSpec

\* The table, the pages and the requests keep their types.
THEOREM OnbTypes == OnbSpec => []OnbTypeOK
<1>1. OnbInv => OnbTypeOK
  BY DEF OnbInv
<1>2. QED
  BY <1>1, OnbInvariant, PTL

\* For any limit and any number of start pages: the count and the insert of
\* bootstrap/route.ts are two statements, and an address still has no more sessions
\* in the window than the limit and its other requests in flight.
THEOREM RateLimited == OnbSpec => []RateLimitHolds
<1>1. OnbInv => RateLimitHolds
  BY DEF OnbInv
<1>2. QED
  BY <1>1, OnbInvariant, PTL

\* However many claims and forms run at once, fail half way or die: a cookie names a
\* workspace of the user's own, one that is queued for provisioning unless he picked
\* it himself on the list, and a claimed session names one that is queued and no
\* other session's (claim/route.ts:102-127, switch/route.ts:55-89).
THEOREM EveryoneLands == OnbSpec => []LandsInOwnWorkspace
<1>1. OnbInv => LandsInOwnWorkspace
  BY DEF OnbInv
<1>2. QED
  BY <1>1, OnbInvariant, PTL

\* A session is ready only when Aquila's run has ended, and has a result only when
\* it succeeded, whichever of the polls, claims and answers come first.
THEOREM ReadyIsTrue == OnbSpec => []ReadyMeansEnded
<1>1. OnbInv => ReadyMeansEnded
  BY DEF OnbInv
<1>2. QED
  BY <1>1, OnbInvariant, PTL
=============================================================================
