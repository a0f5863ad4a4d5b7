------------------------------ MODULE Console -------------------------------
(***************************************************************************)
(* One tab of a signed-in user on the pages of ConsolePages.  A page is    *)
(* rendered from what it reads, its forms call server actions, and the     *)
(* answer leads to a new rendering, a patch of a kept list, or nothing.    *)
(* Meanwhile the workspace cookie, which all tabs share, is switched in    *)
(* another tab, memberships come and go, and Aquila refuses calls or loses *)
(* their replies.  A request carries the cookie it was sent with, and one  *)
(* to Aquila the service token that lib/aquila-server.ts keeps for each    *)
(* workspace until shortly before it believes it expires.                  *)
(***************************************************************************)
EXTENDS ConsolePages, Integers

CONSTANTS
  Workspaces, None,
  Life,      \* expires_in of a service token, in ticks
  Buffer,    \* the cached token is not used within this of its end (60 s)
  Latency    \* the longest a request to Aquila and back takes

\* fetch is given no timeout: that a call takes at most half the buffer is
\* assumed of Aquila.
ASSUME TimelyAssumption ==
  /\ Life \in Nat /\ Buffer \in Nat /\ Latency \in Nat
  /\ 2 * Latency <= Buffer
  /\ 2 * Latency < Life

ASSUME NoneAssumption == None \notin Workspaces /\ None \notin Int

VARIABLES
  cookie,   \* the workspace of synterra_wjwt, None without one
  member,   \* the workspaces the user has a row in
  token,    \* tokenCache: how long each token really lives, and is believed to
  tab,      \* the page shown: where the URL points, whose rows, what they miss
  call      \* the action in flight

consoleVars == <<cookie, member, token, tab, call>>

Forms == UNION {p.forms : p \in Pages}
Deeds == {f.act : f \in Forms} \X UNION {p.reads : p \in Pages}

ConsoleInit ==
  /\ cookie \in Workspaces
  /\ member = Workspaces
  /\ token = [w \in Workspaces |-> [real |-> 0, believed |-> 0]]
  /\ tab = None
  /\ call = None

\* Fault: a page that goes by the cookie is let through without one.
AdmitsWithout(p, w, ctx) == p.by \in {"staff", "cookie"} \/ (ctx # None /\ w \in member)

\* The middleware lets no workspace page pass without the cookie; a page that
\* finds its workspace by the URL's slug asks for a row of the user in it.
Admits(p, w, ctx) ==
  \/ p.by = "staff"
  \/ p.by = "cookie" /\ ctx # None
  \/ p.by = "slug" /\ ctx # None /\ w \in member

\* What a rendering of page p at workspace w may show.  A page whose guard
\* fails, or that lacks what it needs, is not shown: a redirect or a 404.
Renders(p, w, ctx, unseen) ==
  IF ~Admits(p, w, ctx) THEN {None}
  ELSE [page : {p}, at : {w}, of : {IF p.by = "cookie" THEN ctx ELSE w},
        unseen : {unseen}]
       \union (IF p.gated \/ p.needs # {} THEN {None} ELSE {})

\* A page is opened.
Visit(p, w) ==
  /\ tab = None /\ call = None
  /\ tab' \in Renders(p, w, cookie, {}) \ {None}
  /\ UNCHANGED <<cookie, member, token, call>>

\* It is left for another; a call in flight goes on, but is no longer heard.
GoOn ==
  /\ tab # None
  /\ tab' = None
  /\ UNCHANGED <<cookie, member, token, call>>

\* A form is submitted, with the cookie of that moment.
Submit(f) ==
  /\ tab # None
  /\ call = None
  /\ f \in tab.page.forms
  /\ call' = [form |-> f, by |-> tab.page.by, at |-> tab.at, of |-> tab.of, ctx |-> cookie,
              ws |-> None, tok |-> None]
  /\ UNCHANGED <<cookie, member, token, tab>>

\* Fault: every action takes the workspace of the cookie.
ByCookieAlways(a, c) == IF a.scope = "staff" THEN {c.at, None} ELSE {c.ctx}

\* The workspace an action works on, None when it is turned away.  An operator
\* may or may not have come through Cloudflare Access.
Resolved(a, c) ==
  CASE a.scope = "slug" -> {IF c.ctx # None /\ c.at \in member THEN c.at ELSE None}
    [] a.scope = "cookie" -> {c.ctx}
    [] a.scope = "bound" -> {IF c.ctx # None THEN c.of ELSE None}
    [] OTHER -> {c.at, None}

Resolve ==
  /\ call # None
  /\ call.ws = None
  /\ \E ws \in Resolved(call.form.act, call) :
       call' = IF ws = None THEN None ELSE [call EXCEPT !.ws = ws]
  /\ UNCHANGED <<cookie, member, token, tab>>

\* Time passes.
Less(n, d) == IF n > d THEN n - d ELSE 0
Later(d) == [w \in Workspaces |-> [real |-> Less(token[w].real, d),
                                   believed |-> Less(token[w].believed, d)]]

\* Fault: a token is used as long as it is believed to live.
UsableToTheEnd(t) == t.believed > 0

Usable(t) == t.believed > Buffer

\* A token is issued; it is d old when the answer arrives, and its end is
\* reckoned from that moment.
Issued(d) == [real |-> Less(Life, d), believed |-> Life]

\* The actions that call Aquila with a token of their workspace: not those on
\* Synterra's own rows, Stripe's pages, or lib/research.ts with its one key.
ByToken(a) == a.writes \intersect OwnRows = {} /\ a \notin {createResearchRun, portal}

\* The call is sent with the cached token, or with one issued for it.
Send ==
  /\ call # None
  /\ call.ws # None
  /\ call.tok = None
  /\ ByToken(call.form.act)
  /\ \/ /\ Usable(token[call.ws])
        /\ call' = [call EXCEPT !.tok = token[call.ws].real]
        /\ UNCHANGED token
     \/ /\ ~Usable(token[call.ws])
        /\ \E d \in 0..Latency :
             /\ token' = [Later(d) EXCEPT ![call.ws] = Issued(d)]
             /\ call' = [call EXCEPT !.tok = Issued(d).real]
  /\ UNCHANGED <<cookie, member, tab>>

\* Another request of the server has a token issued, at the same time or not.
IssueElsewhere(w) ==
  /\ \E d \in 0..Latency : token' = [token EXCEPT ![w] = Issued(d)]
  /\ UNCHANGED <<cookie, member, tab, call>>

\* Time passes while no call to Aquila is under way.
Tick ==
  /\ call # None => call.tok = None
  /\ token' = Later(1)
  /\ UNCHANGED <<cookie, member, tab, call>>

\* How the service took it: done and answered, refused, or done with the
\* answer lost on the way.
Outcomes == {"done", "refused", "lost"}

Again(a, outcome) == a.tells = "always" \/ (a.tells = "ok" /\ outcome = "done")

\* The reads of its page that an act leaves wrong, before any new rendering.  A client
\* mends the list it keeps and no other; an act answered by an error is not counted.
Missed(f, outcome) ==
  LET a == f.act
      page == tab.page
      touched == a.writes \intersect page.reads
      mended == IF f.then = "drop" \/ (f.then = "patch" /\ outcome = "done")
                THEN page.keeps ELSE {}
  IN  CASE outcome = "refused" -> IF f.then = "drop" THEN touched \intersect page.keeps ELSE {}
        [] outcome = "lost" /\ ~a.blind -> {}
        [] OTHER -> touched \ mended

\* What this tab shows wrongly once the answer to f has been dealt with, and by which
\* act of its own: a new rendering brings everything but what a component keeps.
Behind(f, outcome) ==
  LET wrong == tab.unseen \union ({f.act} \X Missed(f, outcome))
  IN  IF outcome = "done" /\ f.then = "reload" THEN {}
      ELSE IF Again(f.act, outcome) \/ (outcome = "done" /\ f.then = "refresh")
      THEN {x \in wrong : x[2] \in tab.page.keeps}
      ELSE wrong

\* The answer arrives; a tab that has gone on does not hear it.
Answer(outcome) ==
  /\ call # None
  /\ call.ws # None
  /\ ByToken(call.form.act) => call.tok # None
  /\ call' = None
  /\ LET f == call.form
         a == f.act
     IN  IF tab = None THEN UNCHANGED tab
         ELSE IF outcome = "done" /\ a.tells = "leave" THEN tab' = None
         ELSE IF outcome = "done" /\ a.tells = "redirect"
         THEN tab' \in Renders(ResearchRunPage, call.ctx, call.ctx, {})
         ELSE IF Again(a, outcome) \/ (outcome = "done" /\ f.then \in {"reload", "refresh"})
         THEN tab' \in Renders(tab.page, tab.at, call.ctx, Behind(f, outcome))
         ELSE tab' = [tab EXCEPT !.unseen = Behind(f, outcome)]
  /\ \E d \in 0..Latency : token' = Later(d)
  /\ UNCHANGED <<cookie, member>>

\* Another tab of the browser switches workspaces; the cookie expires.
SwitchElsewhere(w) ==
  /\ w \in member
  /\ cookie' = w
  /\ UNCHANGED <<member, token, tab, call>>

CookieGone ==
  /\ cookie # None
  /\ cookie' = None
  /\ UNCHANGED <<member, token, tab, call>>

\* The user is removed from a workspace, or joins it.
Leave(w) ==
  /\ w \in member
  /\ member' = member \ {w}
  /\ UNCHANGED <<cookie, token, tab, call>>

Join(w) ==
  /\ w \notin member
  /\ member' = member \union {w}
  /\ UNCHANGED <<cookie, token, tab, call>>

ConsoleNext ==
  \/ \E p \in Pages, w \in Workspaces : Visit(p, w)
  \/ GoOn
  \/ \E f \in Forms : Submit(f)
  \/ Resolve
  \/ Send
  \/ Tick
  \/ \E outcome \in Outcomes : Answer(outcome)
  \/ \E w \in Workspaces : SwitchElsewhere(w) \/ Leave(w) \/ Join(w) \/ IssueElsewhere(w)
  \/ CookieGone

ConsoleSpec == ConsoleInit /\ [][ConsoleNext]_consoleVars

\* ---------------------------------------------------------- properties

\* Types; the workspace of a page is one the URL or the cookie named, and a
\* call that was not turned away has found its workspace.
ConsoleTypeOK ==
  /\ cookie \in Workspaces \union {None}
  /\ member \subseteq Workspaces
  /\ token \in [Workspaces -> [real : 0..Life, believed : 0..Life]]
  /\ tab = None \/ /\ tab.page \in Pages /\ tab.at \in Workspaces /\ tab.of \in Workspaces
                   /\ tab.unseen \subseteq Deeds
  /\ call = None \/ /\ call.form \in Forms /\ call.at \in Workspaces /\ call.of \in Workspaces
                    /\ {call.ctx, call.ws} \subseteq Workspaces \union {None}
                    /\ call.tok \in 0..Life \union {None}

\* Actions that never have their page rendered again: the settings, what is asked of
\* OMI, which answers with a link, and a re-extraction.
Unrefreshed == {createKey, revokeKey, createEndpoint, deleteEndpoint, upsertSubscription,
                enableSso, toggleSso, updateSettings, omiAnalyze, omiInvestigate, reextractToque}

\* Deletions that the page believes in, whatever Aquila said.
Optimistic == {deleteReference, deleteToque, disableWorkflow}

\* One of whose two reads the client mends: the count among the most used ones stays.
HalfMended == {<<touchReference, "mostUsed">>}

\* Whatever was done on a page and not answered by an error is what the page
\* shows, through refusals, lost answers, re-renderings under another cookie
\* and lists that components keep to themselves; only the actions listed above
\* leave it behind.
OwnActsShown ==
  tab # None =>
    \A x \in tab.unseen : x[1] \in Unrefreshed \union Optimistic \/ x \in HalfMended

\* What is done on a page that the URL's workspace fills is done to the
\* workspace it shows, and so is an action the page was rendered with the
\* workspace for, although the cookie names another by then.  Actions that go
\* by the cookie, and OMI on a page that does, have no such guarantee.
WritesWhereShown ==
  call # None /\ call.ws # None
    /\ (call.form.act.scope = "bound" \/ (call.form.act.scope = "slug" /\ call.by = "slug"))
  => call.ws = call.of

\* No call reaches Aquila with a token that has expired on the way, although
\* the cache reckons a token's end from the moment its answer arrived, other
\* requests replace it, and it is used right up to the buffer.
TokenLive == call # None /\ call.tok # None => call.tok > Latency
=============================================================================
