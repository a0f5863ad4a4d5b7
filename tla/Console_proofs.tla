--------------------------- MODULE Console_proofs ---------------------------
(***************************************************************************)
(* The console, for any workspaces, token lifetimes and latencies.  The    *)
(* argument: the cache believes a token to live longer than it does by no  *)
(* more than the time its answer took (Believed), so what is left of it    *)
(* beyond the buffer outlasts a call; and a page that the URL fills shows  *)
(* the workspace its actions will look up (Shown).  Whether a page shows     *)
(* what was done on it is a question about the tables of ConsolePages,     *)
(* page by page and form by form (PagesHonest), and then one about the     *)
(* machine: the action in flight is of the page that is open (Heard), so   *)
(* the answer meets the form it was meant for.                             *)
(***************************************************************************)
EXTENDS Console, TLAPS

Contexts == Workspaces \union {None}
Tabs == [page : Pages, at : Workspaces, of : Workspaces, unseen : SUBSET Deeds]
Calls == [form : Forms, by : {p.by : p \in Pages}, at : Workspaces, of : Workspaces,
          ctx : Contexts, ws : Contexts, tok : (0..Life) \union {None}]

\* A token lives nearly as long as it is believed to.
Believed == \A w \in Workspaces : token[w].believed <= token[w].real + Latency

\* Where a page that goes by the URL, and an action taken on it, belong.
Shown ==
  /\ tab # None /\ tab.page.by = "slug" => tab.of = tab.at
  /\ call # None /\ call.by = "slug" => call.of = call.at

\* Types in the form the proofs use, and the three facts together.
ConsoleInv ==
  /\ cookie \in Contexts /\ member \subseteq Workspaces
  /\ token \in [Workspaces -> [real : 0..Life, believed : 0..Life]]
  /\ tab \in Tabs \union {None} /\ call \in Calls \union {None}
  /\ Believed /\ Shown /\ WritesWhereShown /\ TokenLive

\* A lifetime after some time.
LEMMA LessIs ==
  ASSUME NEW n \in 0..Life, NEW d \in Nat
  PROVE  /\ Less(n, d) \in 0..Life
         /\ \A m \in 0..Life : m <= n + Latency => Less(m, d) <= Less(n, d) + Latency
  BY TimelyAssumption DEF Less

\* The cache after some time, and with a token issued for one workspace.
LEMMA CacheAges ==
  ASSUME ConsoleInv, NEW d \in Nat
  PROVE  /\ Later(d) \in [Workspaces -> [real : 0..Life, believed : 0..Life]]
         /\ \A w \in Workspaces : Later(d)[w].believed <= Later(d)[w].real + Latency
<1>1. \A w \in Workspaces : /\ token[w].real \in 0..Life /\ token[w].believed \in 0..Life
                            /\ token[w].believed <= token[w].real + Latency
  BY DEF ConsoleInv, Believed
<1>2. \A w \in Workspaces :
        /\ Less(token[w].real, d) \in 0..Life /\ Less(token[w].believed, d) \in 0..Life
        /\ Less(token[w].believed, d) <= Less(token[w].real, d) + Latency
  BY <1>1, LessIs
<1>3. QED
  BY <1>2 DEF Later

\* A token that is issued outlasts a call, and is believed to live no longer than
\* its answer took beyond what it does.
LEMMA IssuedIs ==
  ASSUME NEW d \in 0..Latency
  PROVE  /\ Issued(d) \in [real : 0..Life, believed : 0..Life]
         /\ Issued(d).believed <= Issued(d).real + Latency
         /\ Issued(d).real > Latency
<1>1. Life - d > Latency /\ Life > d /\ Life \in Nat /\ d \in Nat
  BY TimelyAssumption
<1>2. Less(Life, d) = Life - d
  BY <1>1 DEF Less
<1>3. QED
  BY <1>1, <1>2, TimelyAssumption DEF Issued

\* A page that is shown at a workspace.
LEMMA Rendering ==
  ASSUME NEW p \in Pages, NEW w \in Workspaces, NEW ctx \in Contexts, NEW u \in SUBSET Deeds,
         NEW t \in Renders(p, w, ctx, u) \ {None}
  PROVE  t \in Tabs /\ (t.page.by = "slug" => t.of = t.at)
<1>1. Admits(p, w, ctx)
  BY DEF Renders
<1>2. p.by = "cookie" => ctx \in Workspaces
  BY <1>1 DEF Admits, Contexts
<1>3. t \in [page : {p}, at : {w}, of : {IF p.by = "cookie" THEN ctx ELSE w}, unseen : {u}]
  BY <1>1 DEF Renders
<1>4. t = [page |-> p, at |-> w, of |-> IF p.by = "cookie" THEN ctx ELSE w, unseen |-> u]
  BY <1>3
<1>5. QED
  BY <1>2, <1>4 DEF Tabs

\* Nothing is shown, cached or under way.
LEMMA ConsoleInitInv == ConsoleInit => ConsoleInv
<1> SUFFICES ASSUME ConsoleInit PROVE ConsoleInv
  OBVIOUS
<1>1. token \in [Workspaces -> [real : 0..Life, believed : 0..Life]] /\ Believed
  BY TimelyAssumption DEF ConsoleInit, Believed
<1>2. QED
  BY <1>1 DEF ConsoleInit, ConsoleInv, Contexts, Shown, WritesWhereShown, TokenLive

\* Steps that leave cache and call alone, and of the tab at most close it.
LEMMA ContextStep ==
  ASSUME ConsoleInv, UNCHANGED <<token, call>>, cookie' \in Contexts, member' \subseteq Workspaces,
         \/ tab' \in {tab, None}
         \/ tab' \in Tabs /\ (tab'.page.by = "slug" => tab'.of = tab'.at)
  PROVE  ConsoleInv'
<1>1. token' \in [Workspaces -> [real : 0..Life, believed : 0..Life]] /\ Believed'
  BY DEF ConsoleInv, Believed
<1>2. WritesWhereShown' /\ TokenLive' /\ call' \in Calls \union {None}
  BY DEF ConsoleInv, WritesWhereShown, TokenLive
<1>3. tab' \in Tabs \union {None} /\ Shown'
  BY DEF ConsoleInv, Shown
<1>4. QED
  BY <1>1, <1>2, <1>3 DEF ConsoleInv

\* Steps of the cache while no call is under way, or beside it.
LEMMA CacheStep ==
  ASSUME ConsoleInv, UNCHANGED <<cookie, member, tab, call>>,
         token' \in [Workspaces -> [real : 0..Life, believed : 0..Life]], Believed'
  PROVE  ConsoleInv'
<1>1. WritesWhereShown' /\ TokenLive' /\ Shown'
  BY DEF ConsoleInv, WritesWhereShown, TokenLive, Shown
<1>2. QED
  BY <1>1 DEF ConsoleInv

\* A page is shown where its URL or cookie points.
LEMMA VisitStep ==
  ASSUME ConsoleInv, NEW p \in Pages, NEW w \in Workspaces, Visit(p, w)
  PROVE  ConsoleInv'
<1>1. /\ tab' \in Renders(p, w, cookie, {}) \ {None}
      /\ cookie \in Contexts /\ {} \in SUBSET Deeds
  BY DEF Visit, ConsoleInv
<1>2. tab' \in Tabs /\ (tab'.page.by = "slug" => tab'.of = tab'.at)
  BY <1>1, Rendering
<1>3. QED
  BY <1>2, ContextStep DEF Visit, ConsoleInv

\* A call takes the workspace its page shows with it.
LEMMA SubmitStep ==
  ASSUME ConsoleInv, NEW f \in Forms, Submit(f)
  PROVE  ConsoleInv'
<1>1. tab \in Tabs /\ tab # None /\ UNCHANGED <<cookie, member, token, tab>>
  BY DEF Submit, ConsoleInv
<1>2. call' = [form |-> f, by |-> tab.page.by, at |-> tab.at, of |-> tab.of, ctx |-> cookie,
               ws |-> None, tok |-> None]
  BY DEF Submit
<1>3. call' \in Calls
  BY <1>1, <1>2 DEF ConsoleInv, Tabs, Calls, Contexts
<1>4. Shown' /\ WritesWhereShown' /\ TokenLive'
  BY <1>1, <1>2 DEF ConsoleInv, Shown, WritesWhereShown, TokenLive
<1>5. Believed'
  BY <1>1 DEF ConsoleInv, Believed
<1>6. QED
  BY <1>1, <1>3, <1>4, <1>5 DEF ConsoleInv

\* What an action is resolved to, for the two kinds that promise something.
LEMMA ResolvedWhereShown ==
  ASSUME ConsoleInv, call # None, NEW w \in Resolved(call.form.act, call), w # None
  PROVE  /\ w \in Workspaces
         /\ call.form.act.scope = "bound" \/ (call.form.act.scope = "slug" /\ call.by = "slug")
              => w = call.of
<1>1. call \in Calls /\ (call.by = "slug" => call.of = call.at)
  BY DEF ConsoleInv, Shown
<1>2. call.at \in Workspaces /\ call.of \in Workspaces /\ call.ctx \in Contexts
  BY <1>1 DEF Calls
<1>3. CASE call.form.act.scope = "slug"
  BY <1>1, <1>2, <1>3 DEF Resolved
<1>4. CASE call.form.act.scope = "cookie"
  BY <1>2, <1>4 DEF Resolved, Contexts
<1>5. CASE call.form.act.scope = "bound"
  BY <1>2, <1>5 DEF Resolved
<1>6. CASE call.form.act.scope \notin {"slug", "cookie", "bound"}
  BY <1>2, <1>6 DEF Resolved
<1>7. QED
  BY <1>3, <1>4, <1>5, <1>6

\* An action finds its workspace: the one shown, where that is promised.
LEMMA ResolveStep ==
  ASSUME ConsoleInv, Resolve
  PROVE  ConsoleInv'
<1>1. call \in Calls /\ call # None /\ UNCHANGED <<cookie, member, token, tab>>
  BY DEF ConsoleInv, Resolve
<1>2. Believed' /\ (tab' # None /\ tab'.page.by = "slug" => tab'.of = tab'.at)
  BY <1>1 DEF ConsoleInv, Believed, Shown
<1>3. PICK w \in Resolved(call.form.act, call) :
        call' = IF w = None THEN None ELSE [call EXCEPT !.ws = w]
  BY DEF Resolve
<1>4. CASE w = None
  BY <1>1, <1>2, <1>3, <1>4 DEF ConsoleInv, Shown, WritesWhereShown, TokenLive
<1>5. CASE w # None
  <2>1. /\ w \in Workspaces
        /\ call.form.act.scope = "bound" \/ (call.form.act.scope = "slug" /\ call.by = "slug")
             => w = call.of
    BY <1>1, <1>3, <1>5, ResolvedWhereShown
  <2>2. /\ call' \in Calls /\ call'.ws = w /\ call'.form = call.form /\ call'.by = call.by
        /\ call'.at = call.at /\ call'.of = call.of /\ call'.tok = call.tok
    BY <1>1, <1>3, <1>5, <2>1 DEF Calls, Contexts
  <2>3. WritesWhereShown'
    BY <2>1, <2>2 DEF WritesWhereShown
  <2>4. Shown' /\ TokenLive'
    BY <1>1, <1>2, <2>2 DEF ConsoleInv, Shown, TokenLive
  <2>5. QED
    BY <1>1, <1>2, <2>2, <2>3, <2>4 DEF ConsoleInv
<1>6. QED
  BY <1>4, <1>5

\* The token of a call: what is cached beyond the buffer, or a new one.
LEMMA SendStep ==
  ASSUME ConsoleInv, Send
  PROVE  ConsoleInv'
<1>1. /\ call \in Calls /\ call # None /\ call.ws \in Workspaces
      /\ UNCHANGED <<cookie, member, tab>>
  BY DEF ConsoleInv, Send, Calls, Contexts
<1>2. PICK n \in 0..Life :
        /\ call' = [call EXCEPT !.tok = n] /\ n > Latency
        /\ token' \in [Workspaces -> [real : 0..Life, believed : 0..Life]] /\ Believed'
  <2>1. CASE Usable(token[call.ws]) /\ call' = [call EXCEPT !.tok = token[call.ws].real]
             /\ UNCHANGED token
    <3>1. /\ token[call.ws].real \in 0..Life /\ token[call.ws].believed \in 0..Life
          /\ token[call.ws].believed <= token[call.ws].real + Latency
      BY <1>1 DEF ConsoleInv, Believed
    <3>2. token[call.ws].real > Latency
      BY <2>1, <3>1, TimelyAssumption DEF Usable
    <3>3. Believed'
      BY <2>1 DEF ConsoleInv, Believed
    <3>4. QED
      BY <2>1, <3>1, <3>2, <3>3 DEF ConsoleInv
  <2>2. ASSUME NEW d \in 0..Latency,
               token' = [Later(d) EXCEPT ![call.ws] = Issued(d)],
               call' = [call EXCEPT !.tok = Issued(d).real]
        PROVE  \E n \in 0..Life :
                 /\ call' = [call EXCEPT !.tok = n] /\ n > Latency
                 /\ token' \in [Workspaces -> [real : 0..Life, believed : 0..Life]] /\ Believed'
    <3>1. d \in Nat
      BY TimelyAssumption
    <3>2. /\ Later(d) \in [Workspaces -> [real : 0..Life, believed : 0..Life]]
          /\ \A w \in Workspaces : Later(d)[w].believed <= Later(d)[w].real + Latency
      BY <3>1, CacheAges
    <3>3. /\ Issued(d) \in [real : 0..Life, believed : 0..Life]
          /\ Issued(d).believed <= Issued(d).real + Latency /\ Issued(d).real > Latency
      BY IssuedIs
    <3>4. token' \in [Workspaces -> [real : 0..Life, believed : 0..Life]] /\ Believed'
      BY <2>2, <3>2, <3>3 DEF Believed
    <3>5. QED
      BY <2>2, <3>3, <3>4
  <2>3. QED
    BY <2>1, <2>2 DEF Send
<1>3. /\ call' \in Calls /\ call'.tok = n /\ call'.form = call.form /\ call'.by = call.by
      /\ call'.at = call.at /\ call'.of = call.of /\ call'.ws = call.ws
  BY <1>1, <1>2 DEF Calls
<1>4. Shown' /\ WritesWhereShown'
  BY <1>1, <1>3 DEF ConsoleInv, Shown, WritesWhereShown
<1>5. TokenLive'
  BY <1>2, <1>3 DEF TokenLive
<1>6. QED
  BY <1>1, <1>2, <1>3, <1>4, <1>5 DEF ConsoleInv

\* The cache ages, or has a token issued for somebody else.
LEMMA TokenSteps ==
  ASSUME ConsoleInv, Tick \/ \E w \in Workspaces : IssueElsewhere(w)
  PROVE  ConsoleInv'
<1>1. CASE Tick
  <2>1. /\ Later(1) \in [Workspaces -> [real : 0..Life, believed : 0..Life]]
        /\ \A w \in Workspaces : Later(1)[w].believed <= Later(1)[w].real + Latency
    BY CacheAges
  <2>2. token' \in [Workspaces -> [real : 0..Life, believed : 0..Life]] /\ Believed'
    BY <1>1, <2>1 DEF Tick, Believed
  <2>3. QED
    BY <1>1, <2>2, CacheStep DEF Tick
<1>2. ASSUME NEW w \in Workspaces, IssueElsewhere(w) PROVE ConsoleInv'
  <2>1. PICK d \in 0..Latency : token' = [token EXCEPT ![w] = Issued(d)]
    BY <1>2 DEF IssueElsewhere
  <2>2. token' \in [Workspaces -> [real : 0..Life, believed : 0..Life]] /\ Believed'
    BY <2>1, IssuedIs DEF ConsoleInv, Believed
  <2>3. QED
    BY <1>2, <2>2, CacheStep DEF IssueElsewhere
<1>3. QED
  BY <1>1, <1>2

\* What a tab may miss is what it has done.
LEMMA BehindDeeds ==
  ASSUME tab \in Tabs, NEW f \in Forms, NEW outcome \in Outcomes
  PROVE  Behind(f, outcome) \subseteq Deeds
<1>1. tab.page \in Pages /\ tab.unseen \subseteq Deeds
  BY DEF Tabs
<1>2. Missed(f, outcome) \subseteq tab.page.reads
  BY <1>1 DEF Missed
<1>3. \A r \in tab.page.reads : <<f.act, r>> \in Deeds
  BY <1>1 DEF Deeds
<1>4. QED
  BY <1>1, <1>2, <1>3 DEF Behind

\* The page a new research run leads to goes by the cookie.
LEMMA RunPage == ResearchRunPage \in Pages /\ ResearchRunPage.by = "cookie"
<1>1. ResearchRunPage \in Pages
  BY Zenon DEF Pages
<1>2. ResearchRunPage.by = "cookie"
  BY DEF ResearchRunPage, Needing, ByCookie, Page
<1>3. QED
  BY <1>1, <1>2

\* An answer: the tab goes on, is rendered again or misses something, and time passes.
LEMMA AnswerStep ==
  ASSUME ConsoleInv, NEW outcome \in Outcomes, Answer(outcome)
  PROVE  ConsoleInv'
<1>1. call \in Calls /\ call # None /\ call' = None /\ UNCHANGED <<cookie, member>>
  BY DEF ConsoleInv, Answer
<1>2. call.form \in Forms /\ call.ctx \in Contexts
  BY <1>1 DEF Calls
<1>3. PICK d \in 0..Latency : token' = Later(d)
  BY DEF Answer
<1>4. token' \in [Workspaces -> [real : 0..Life, believed : 0..Life]] /\ Believed'
  <2>1. d \in Nat
    BY TimelyAssumption
  <2>2. QED
    BY <1>3, <2>1, CacheAges DEF Believed
<1>5. tab' = None \/ (tab' \in Tabs /\ (tab'.page.by = "slug" => tab'.of = tab'.at))
  <2>1. CASE tab = None
    BY <2>1 DEF Answer
  <2>2. CASE tab # None
    <3>1. tab \in Tabs /\ (tab.page.by = "slug" => tab.of = tab.at)
      BY <2>2 DEF ConsoleInv, Shown
    <3>2. Behind(call.form, outcome) \in SUBSET Deeds
      BY <1>2, <3>1, BehindDeeds
    <3>3. CASE tab' \in Renders(ResearchRunPage, call.ctx, call.ctx, {})
      <4>1. ASSUME tab' # None PROVE tab' \in Tabs /\ (tab'.page.by = "slug" => tab'.of = tab'.at)
        <5>1. Admits(ResearchRunPage, call.ctx, call.ctx)
          BY <3>3, <4>1 DEF Renders
        <5>2. call.ctx \in Workspaces /\ {} \in SUBSET Deeds
          BY <1>2, <5>1, RunPage DEF Admits, Contexts
        <5>3. tab' \in Renders(ResearchRunPage, call.ctx, call.ctx, {}) \ {None}
          BY <3>3, <4>1
        <5>4. QED
          BY <1>2, <5>2, <5>3, RunPage, Rendering
      <4>2. QED
        BY <4>1
    <3>4. CASE tab' \in Renders(tab.page, tab.at, call.ctx, Behind(call.form, outcome))
      <4>1. tab.page \in Pages /\ tab.at \in Workspaces
        BY <3>1 DEF Tabs
      <4>2. ASSUME tab' # None PROVE tab' \in Tabs /\ (tab'.page.by = "slug" => tab'.of = tab'.at)
        <5>1. tab' \in Renders(tab.page, tab.at, call.ctx, Behind(call.form, outcome)) \ {None}
          BY <3>4, <4>2
        <5>2. QED
          BY <1>2, <3>2, <4>1, <5>1, Rendering
      <4>3. QED
        BY <4>2
    <3>5. CASE tab' = [tab EXCEPT !.unseen = Behind(call.form, outcome)]
      BY <3>1, <3>2, <3>5 DEF Tabs
    <3>6. CASE tab' = None
      BY <3>6
    <3>7. QED
      BY <2>2, <3>3, <3>4, <3>5, <3>6 DEF Answer
  <2>3. QED
    BY <2>1, <2>2
<1>6. Shown' /\ WritesWhereShown' /\ TokenLive'
  BY <1>1, <1>5 DEF Shown, WritesWhereShown, TokenLive
<1>7. QED
  BY <1>1, <1>4, <1>5, <1>6 DEF ConsoleInv

\* Every step keeps the invariant.
LEMMA ConsoleStep == ConsoleInv /\ [ConsoleNext]_consoleVars => ConsoleInv'
<1> SUFFICES ASSUME ConsoleInv, [ConsoleNext]_consoleVars PROVE ConsoleInv'
  OBVIOUS
<1>1. cookie \in Contexts /\ member \subseteq Workspaces /\ None \in Contexts
      /\ \A w \in Workspaces : w \in Contexts
  BY DEF ConsoleInv, Contexts
<1>2. CASE GoOn
  BY <1>1, <1>2, ContextStep DEF GoOn
<1>3. CASE CookieGone
  BY <1>1, <1>3, ContextStep DEF CookieGone
<1>4. ASSUME NEW w \in Workspaces, SwitchElsewhere(w) \/ Leave(w) \/ Join(w)
      PROVE  ConsoleInv'
  <2>1. /\ UNCHANGED <<token, tab, call>>
        /\ cookie' \in Contexts /\ member' \subseteq Workspaces
    BY <1>1, <1>4 DEF SwitchElsewhere, Leave, Join
  <2>2. QED
    BY <2>1, ContextStep
<1>5. CASE UNCHANGED consoleVars
  BY <1>1, <1>5, ContextStep DEF consoleVars
<1>6. QED
  BY <1>2, <1>3, <1>4, <1>5, VisitStep, SubmitStep, ResolveStep, SendStep, TokenSteps, AnswerStep
     DEF ConsoleNext

\* The invariant holds throughout.
LEMMA ConsoleInvariant == ConsoleSpec => []ConsoleInv
  BY ConsoleInitInv, ConsoleStep, PTL DEF ConsoleSpec

\* Types of the console, for any workspaces and lifetimes.
THEOREM ConsoleTypes == ConsoleSpec => []ConsoleTypeOK
<1>1. ConsoleInv => ConsoleTypeOK
  BY DEF ConsoleInv, ConsoleTypeOK, Tabs, Calls, Contexts
<1>2. QED
  BY <1>1, ConsoleInvariant, PTL

\* On a page that the URL's workspace fills, and for an action that was rendered with
\* its workspace, what is done is done to what is shown, whatever cookies and
\* memberships have become in the meantime.
THEOREM ActsWhereShown == ConsoleSpec => []WritesWhereShown
<1>1. ConsoleInv => WritesWhereShown
  BY DEF ConsoleInv
<1>2. QED
  BY <1>1, ConsoleInvariant, PTL

\* A call to Aquila arrives with a token that still lives for as long as a call takes,
\* whenever twice the latency fits into the buffer: tokenCache of aquila-server.ts
\* needs no more than that of its sixty seconds.
THEOREM TokensLive == ConsoleSpec => []TokenLive
<1>1. ConsoleInv => TokenLive
  BY DEF ConsoleInv
<1>2. QED
  BY <1>1, ConsoleInvariant, PTL

\* ------------------------------------------------ what was done is shown

Excused == Unrefreshed \union Optimistic

Excusable(x) == x[1] \in Excused \/ x \in HalfMended

LEMMA ShownIs ==
  /\ OwnActsShown <=> (tab # None => \A x \in tab.unseen : Excusable(x))
  /\ OwnActsShown' <=> (tab' # None => \A x \in tab'.unseen : Excusable(x))
  BY DEF OwnActsShown, Excusable, Excused

\* The answer leads away from what the page shows, or has it loaded anew.
Away(f) == ~f.act.blind /\ (f.then = "reload" \/ f.act.tells \in {"leave", "redirect"})

\* The answer is put into the lists a component keeps.
Patched(f) == ~f.act.blind /\ f.then = "patch"

\* Whatever was done and not answered by an error has the page rendered again.
Told(f) == f.act.tells = "always" \/ (~f.act.blind /\ (f.act.tells = "ok" \/ f.then = "refresh"))

\* A form that cannot leave its page behind, but by what is excused.
Honest(p, f) ==
  \/ f.act \in Excused
  \/ /\ f.then # "drop"
     /\ \A r \in f.act.writes \intersect p.reads :
          \/ <<f.act, r>> \in HalfMended
          \/ Away(f)
          \/ Patched(f) /\ r \in p.keeps
          \/ Told(f) /\ r \notin p.keeps

\* The same of any page whose components keep nothing.
Steady(f) ==
  f.act \in Excused \/ (f.then # "drop" /\ (f.act.writes = {} \/ Away(f) \/ Told(f)))

Keepers == {BrandDreamPage, ReferencesPage, ToquesPage, WorkflowsPage, WorkflowPage}
Scans == {BrandGeoPage, BrandMapsPage, BrandReactionsPage}

\* What the constructors of pages make of keeps and forms.
LEMMA PageParts ==
  \A reads, forms, needs :
    /\ BySlug(reads, forms).keeps = {} /\ ByCookie(reads, forms).keeps = {}
    /\ BySlug(reads, forms).forms = forms \union OmiOverlay
    /\ ByCookie(reads, forms).forms = forms \union OmiOverlay
    /\ Page("staff", reads, needs, forms).keeps = {}
    /\ Page("staff", reads, needs, forms).forms = forms
    /\ Gated(ByCookie(reads, forms)).keeps = {}
    /\ Gated(ByCookie(reads, forms)).forms = forms \union OmiOverlay
    /\ Needing(BySlug(reads, forms), needs).keeps = {}
    /\ Needing(BySlug(reads, forms), needs).forms = forms \union OmiOverlay
    /\ Needing(ByCookie(reads, forms), needs).keeps = {}
    /\ Needing(ByCookie(reads, forms), needs).forms = forms \union OmiOverlay
  BY DEF Page, BySlug, ByCookie, Gated, Needing

\* OMI writes only what is excused, or nothing.
LEMMA OmiSteady ==
  \A f \in OmiOverlay : f.act \in Excused \/ (f.act.writes = {} /\ f.then # "drop")
<1>1. /\ askOmi.writes = {} /\ omiCompare.writes = {} /\ omiTwins.writes = {}
      /\ omiNews.writes = {} /\ omiAnalyze \in Excused /\ omiInvestigate \in Excused
  BY DEF askOmi, omiCompare, omiTwins, omiNews, Excused, Unrefreshed, Slug, Act
<1>2. QED
  BY <1>1 DEF OmiOverlay, Show, Form

\* Actions that always have the page rendered again, under forms that leave it to them.
RenderedAlways == {
  createAlertRule, deleteAlertRule, toggleAlertRule, testAlertRule, createEventPolicy,
  togglePolicy, deleteEventPolicy, createSchedule, deleteSchedule, toggleSchedule,
  generateBattlecard, deleteBattlecard, addComment, deleteComment, togglePin, refreshPulse,
  syncInstagram, syncPricing, triggerGhostScan, changePlan, grantCredits,
  suspendWorkspace, unsuspendWorkspace, toggleFlag}

LEMMA AlwaysSteady == \A f \in Plain(RenderedAlways) : Steady(f)
<1>1. \A a \in RenderedAlways : a.tells = "always"
  BY DEF RenderedAlways, Act, Slug, Blind, Staff,
     createAlertRule, deleteAlertRule, toggleAlertRule, testAlertRule, createEventPolicy,
     togglePolicy, deleteEventPolicy, createSchedule, deleteSchedule, toggleSchedule,
     generateBattlecard, deleteBattlecard, addComment, deleteComment, togglePin, refreshPulse,
     syncInstagram, syncPricing, triggerGhostScan, changePlan, grantCredits,
     suspendWorkspace, unsuspendWorkspace, toggleFlag
<1>2. QED
  BY <1>1 DEF Plain, Form, Steady, Told

\* Forms with a component of their own, on pages that keep nothing.
SteadyClients ==
  UNION {BillingActions, BrandSearch, DnaTwinsPanel, TimelineNarrate, CerebroForm, ChatInterface,
         DiscoveryForm, BattlecardForm, BrandVoiceForm, Plain({createResearchRun}),
         ApiKeysClient, WebhooksClient, SsoSettingsForm, GeneralSettingsForm, MembersList,
         Plain({upsertSubscription}), OmiOverlay, Plain(RenderedAlways)}

LEMMA ClientsSteady == \A f \in SteadyClients : Steady(f)
<1>1. \A f \in UNION {BrandSearch, TimelineNarrate, ChatInterface, BattlecardForm, BrandVoiceForm} :
        Steady(f)
  BY DEF BrandSearch, TimelineNarrate, ChatInterface, BattlecardForm, BrandVoiceForm, Show, Form,
     Steady, searchBrands, narrateTimeline, askChat, battlecardAction, brandVoice,
     Slug, Cookie, Act
<1>2. \A f \in UNION {BillingActions, DnaTwinsPanel, CerebroForm, DiscoveryForm,
                      Plain({createResearchRun}), MembersList} : Steady(f)
  BY DEF BillingActions, DnaTwinsPanel, CerebroForm, DiscoveryForm, MembersList, Show, Plain,
     Form, Steady, Told, Away, checkout, portal, excludeTwin, analyzeBrand, discoverBrands,
     createResearchRun, changeMembers, Slug, Cookie, Bound, Act
<1>3. \A f \in UNION {ApiKeysClient, WebhooksClient, SsoSettingsForm, GeneralSettingsForm,
                      Plain({upsertSubscription})} : Steady(f)
  BY DEF ApiKeysClient, WebhooksClient, SsoSettingsForm, GeneralSettingsForm, Show, Plain, Form,
     Steady, Excused, Unrefreshed
<1>4. \A f \in OmiOverlay : Steady(f)
  BY OmiSteady DEF Steady
<1>5. QED
  BY <1>1, <1>2, <1>3, <1>4, AlwaysSteady DEF SteadyClients

\* Those without forms of their own, with the ones above, and with clients.
Quiet == {
  ActivityPage, AgentsPage, AgentPage, BrandChangesPage, BrandCompetitorsPage,
  BrandGraphPage, BriefPage, ClashPage, ExportPage, GeneratePage, GlossaryPage,
  TenantGraphPage, HeatmapPage, InsightsPage, MonitorsPage, OverviewPage, ResearchPage,
  ResearchRunPage, WorkflowRunPage, CanvasPage, AuditPage, DataPage, SlackPage,
  AdminPage}
Rendered == {
  AlertsPage, AutomationsPage, BattlecardsPage, BrandAdsPage, BrandBattlecardsPage,
  BrandCommentsPage, BrandInstagramPage, BrandPricingPage, PinsPage, PulsePage,
  SchedulesPage, OpsPage, FlagsPage}
WithClients == {
  BillingPage, BrandsPage, BrandPage, BrandTimelinePage, CerebroPage, ChatPage,
  DiscoveryPage, GenerateBattlecardPage, GenerateVoicePage, NewResearchPage,
  ApiKeysPage, GeneralPage, MembersPage, NotificationsPage, SsoPage, WebhooksPage}

\* The pages that keep nothing have steady forms only.
LEMMA PlainPages ==
  \A p \in Pages \ (Keepers \union Scans) : p.keeps = {} /\ p.forms \subseteq SteadyClients
<1>1. \A p \in Quiet : p.keeps = {} /\ p.forms \subseteq OmiOverlay
  BY PageParts DEF Quiet, ActivityPage, AgentsPage, AgentPage, BrandChangesPage,
     BrandCompetitorsPage, BrandGraphPage, BriefPage, ClashPage, ExportPage, GeneratePage, GlossaryPage,
     TenantGraphPage, HeatmapPage, InsightsPage, MonitorsPage, OverviewPage, ResearchPage,
     ResearchRunPage, WorkflowRunPage, CanvasPage, AuditPage, DataPage, SlackPage, AdminPage
<1>2. \A p \in Rendered :
        p.keeps = {} /\ p.forms \subseteq OmiOverlay \union Plain(RenderedAlways)
  BY PageParts DEF Rendered, AlertsPage, AutomationsPage, BattlecardsPage, BrandAdsPage,
     BrandBattlecardsPage, BrandCommentsPage, AddCommentForm, BrandInstagramPage,
     BrandPricingPage, PinsPage, PulsePage, SchedulesPage, OpsPage, FlagsPage, Plain,
     RenderedAlways
<1>3. \A p \in WithClients : p.keeps = {} /\ p.forms \subseteq SteadyClients
  BY PageParts DEF WithClients, BillingPage, BrandsPage, BrandPage, BrandTimelinePage,
     CerebroPage, ChatPage, DiscoveryPage, GenerateBattlecardPage, GenerateVoicePage,
     NewResearchPage, ApiKeysPage, GeneralPage, MembersPage, NotificationsPage, SsoPage, WebhooksPage, SteadyClients, Plain,
     RenderedAlways
<1>4. Pages \subseteq UNION {Quiet, Rendered, WithClients, Keepers, Scans}
  BY DEF Pages, Quiet, Rendered, WithClients, Keepers, Scans
<1>5. OmiOverlay \subseteq SteadyClients /\ Plain(RenderedAlways) \subseteq SteadyClients
  BY DEF SteadyClients
<1>6. QED
  BY <1>1, <1>2, <1>3, <1>4, <1>5

\* Scans are not read on their page; what a component keeps, its forms patch.
LEMMA OtherPages == \A p \in Keepers \union Scans : \A f \in p.forms : Honest(p, f)
<1>1. \A p \in Keepers \union Scans : \A f \in OmiOverlay : Honest(p, f)
  BY OmiSteady DEF Honest
<1>2. \A p \in Scans : p.reads = {}
  BY DEF Scans, BrandGeoPage, BrandMapsPage, BrandReactionsPage, BySlug, Page
<1>3. \A p \in Scans : \A f \in p.forms \ OmiOverlay : f.then # "drop"
  BY PageParts DEF Scans, BrandGeoPage, BrandMapsPage, BrandReactionsPage, GeoScanForm,
     MapsSyncForm, ReactionsScanForm, Show, Form
<1>4. \A f \in UNION {ToquesClient, WorkflowsClient, WorkflowDetailClient, DreamClient} :
        f.act \in Excused \/ (f.then # "drop" /\ (Patched(f) \/ Away(f)))
  BY DEF ToquesClient, WorkflowsClient, WorkflowDetailClient, DreamClient,
     Form, Patched, Away, Excused, Optimistic, Unrefreshed, createToque,
     refetchToque, createWorkflow, enqueueRun, consolidateDream, Slug, Act
<1>5. /\ BrandDreamPage.forms = DreamClient \union OmiOverlay
      /\ ReferencesPage.forms = ReferencesClient \union OmiOverlay
      /\ ToquesPage.forms = ToquesClient \union OmiOverlay
      /\ WorkflowsPage.forms = WorkflowsClient \union OmiOverlay
      /\ WorkflowPage.forms = WorkflowDetailClient \union OmiOverlay
  BY DEF BrandDreamPage, ReferencesPage, ToquesPage, WorkflowsPage, WorkflowPage, Keeping,
     Needing, BySlug, Page
<1>6. /\ BrandDreamPage.reads \subseteq BrandDreamPage.keeps
      /\ ToquesPage.reads \subseteq ToquesPage.keeps
      /\ WorkflowsPage.reads \subseteq WorkflowsPage.keeps
  BY DEF BrandDreamPage, ToquesPage, WorkflowsPage, Keeping, BySlug, Page
<1>7. \A f \in WorkflowDetailClient :
        f.act.writes \intersect WorkflowPage.reads \subseteq WorkflowPage.keeps
  BY DEF WorkflowDetailClient, Form, enqueueRun, Slug, Act, WorkflowPage, Keeping, Needing,
     BySlug, Page
<1>8. \A f \in ReferencesClient : Honest(ReferencesPage, f)
  <2>1. /\ createReference.tells = "ok" /\ ~createReference.blind
        /\ touchReference.writes = {"references", "mostUsed"} /\ ~touchReference.blind
        /\ deleteReference \in Excused
        /\ <<touchReference, "mostUsed">> \in HalfMended
        /\ ReferencesPage.keeps = {"references"}
    BY DEF createReference, touchReference, ReferenceReads, Slug, Act, Excused, Optimistic,
       HalfMended, ReferencesPage, Keeping, BySlug, Page
  <2>2. Honest(ReferencesPage, Form(createReference, "patch"))
    BY <2>1 DEF Honest, Patched, Told, Form
  <2>3. Honest(ReferencesPage, Form(touchReference, "patch"))
    BY <2>1 DEF Honest, Patched, Form
  <2>4. Honest(ReferencesPage, Form(deleteReference, "drop"))
    BY <2>1 DEF Honest, Form
  <2>5. QED
    BY <2>2, <2>3, <2>4 DEF ReferencesClient
<1>9. \A p \in {BrandDreamPage, ToquesPage, WorkflowsPage, WorkflowPage} :
        \A f \in p.forms \ OmiOverlay : Honest(p, f)
  BY <1>4, <1>5, <1>6, <1>7 DEF Honest
<1>10. QED
  BY <1>1, <1>2, <1>3, <1>5, <1>8, <1>9 DEF Keepers, Honest

\* The tables are honest.
LEMMA PagesHonest == \A p \in Pages : \A f \in p.forms : Honest(p, f)
<1>1. \A p \in Pages \ (Keepers \union Scans) : \A f \in p.forms : Steady(f) /\ p.keeps = {}
  BY PlainPages, ClientsSteady
<1>2. \A p \in Pages \ (Keepers \union Scans) : \A f \in p.forms : Honest(p, f)
  BY <1>1 DEF Steady, Honest
<1>3. QED
  BY <1>2, OtherPages

\* The call in flight is of a form of the page, if its page is still there.
Heard == tab # None /\ call # None => call.form \in tab.page.forms

\* A rendering is of the page, and misses what it is given to miss.
LEMMA RenderedAs ==
  ASSUME NEW p, NEW w, NEW ctx, NEW u, NEW t \in Renders(p, w, ctx, u), t # None
  PROVE  t.page = p /\ t.unseen = u
<1>1. t \in [page : {p}, at : {w}, of : {IF p.by = "cookie" THEN ctx ELSE w}, unseen : {u}]
  BY DEF Renders
<1>2. QED
  BY <1>1

\* After an answer that leaves the tab on its page, the page shows what it should.
LEMMA BehindExcused ==
  ASSUME tab \in Tabs, \A x \in tab.unseen : Excusable(x), NEW f \in tab.page.forms,
         NEW outcome \in Outcomes, outcome = "done" => f.act.tells \notin {"leave", "redirect"}
  PROVE  \A x \in Behind(f, outcome) : Excusable(x)
<1>1. Honest(tab.page, f)
  BY PagesHonest DEF Tabs
<1> SUFFICES ASSUME NEW x \in Behind(f, outcome), x \notin tab.unseen PROVE Excusable(x)
  OBVIOUS
<1>2. /\ x \in {f.act} \X Missed(f, outcome)
      /\ ~(outcome = "done" /\ f.then = "reload")
      /\ Again(f.act, outcome) \/ (outcome = "done" /\ f.then = "refresh")
           => x[2] \in tab.page.keeps
  BY DEF Behind
<1>3. PICK r \in Missed(f, outcome) : x = <<f.act, r>>
  BY <1>2
<1>4. CASE f.act \in Excused
  BY <1>3, <1>4 DEF Excusable
<1>5. CASE f.act \notin Excused
  <2>1. f.then # "drop"
    BY <1>1, <1>5 DEF Honest
  <2>2. /\ r \in f.act.writes \intersect tab.page.reads
        /\ outcome # "refused" /\ (outcome = "lost" => f.act.blind)
        /\ f.then = "patch" /\ outcome = "done" => r \notin tab.page.keeps
    BY <2>1 DEF Missed
  <2>3. outcome = "done" \/ f.act.blind
    BY <2>2 DEF Outcomes
  <2>4. ~Away(f)
    BY <1>2, <2>3 DEF Away
  <2>5. ~(Patched(f) /\ r \in tab.page.keeps)
    BY <2>2, <2>3 DEF Patched
  <2>6. ~(Told(f) /\ r \notin tab.page.keeps)
    BY <1>2, <1>3, <2>3 DEF Told, Again
  <2>7. <<f.act, r>> \in HalfMended
    BY <1>1, <1>5, <2>2, <2>4, <2>5, <2>6 DEF Honest
  <2>8. QED
    BY <1>3, <2>7 DEF Excusable
<1>6. QED
  BY <1>4, <1>5

\* What an answer makes of the tab.
LEMMA AnswerShown ==
  ASSUME ConsoleInv, Heard, OwnActsShown, NEW outcome \in Outcomes, Answer(outcome)
  PROVE  tab' # None => \A x \in tab'.unseen : Excusable(x)
<1> SUFFICES ASSUME tab' # None PROVE \A x \in tab'.unseen : Excusable(x)
  OBVIOUS
<1> DEFINE f == call.form
<1>1. tab # None /\ call # None
  BY DEF Answer
<1>2. tab \in Tabs /\ f \in tab.page.forms /\ \A x \in tab.unseen : Excusable(x)
  BY <1>1, ShownIs DEF ConsoleInv, Heard
<1>3. \/ f.act.tells = "redirect" /\ tab' \in Renders(ResearchRunPage, call.ctx, call.ctx, {})
      \/ /\ outcome = "done" => f.act.tells \notin {"leave", "redirect"}
         /\ \/ tab' \in Renders(tab.page, tab.at, call.ctx, Behind(f, outcome))
            \/ tab' = [tab EXCEPT !.unseen = Behind(f, outcome)]
  BY <1>1 DEF Answer
<1>4. CASE tab' \in Renders(ResearchRunPage, call.ctx, call.ctx, {})
  BY <1>4, RenderedAs
<1>5. CASE outcome = "done" => f.act.tells \notin {"leave", "redirect"}
  <2>1. \A x \in Behind(f, outcome) : Excusable(x)
    BY <1>2, <1>5, BehindExcused
  <2>2. CASE tab' \in Renders(tab.page, tab.at, call.ctx, Behind(f, outcome))
    BY <2>1, <2>2, RenderedAs
  <2>3. CASE tab' = [tab EXCEPT !.unseen = Behind(f, outcome)]
    BY <1>2, <2>1, <2>3 DEF Tabs
  <2>4. QED
    BY <1>3, <1>4, <2>2, <2>3
<1>6. QED
  BY <1>3, <1>4, <1>5

\* Every step keeps both.
LEMMA ShownStep ==
  ASSUME ConsoleInv, Heard, OwnActsShown, [ConsoleNext]_consoleVars
  PROVE  Heard' /\ OwnActsShown'
<1>1. CASE tab' \in {tab, None} /\ (call' = None \/ (call # None /\ call'.form = call.form))
  BY <1>1 DEF Heard, OwnActsShown
<1>2. ASSUME NEW p \in Pages, NEW w \in Workspaces, Visit(p, w)
      PROVE  Heard' /\ OwnActsShown'
  <2>1. call' = None /\ tab' \in Renders(p, w, cookie, {}) /\ tab' # None
    BY <1>2 DEF Visit
  <2>2. tab'.unseen = {}
    BY <2>1, RenderedAs
  <2>3. QED
    BY <2>1, <2>2 DEF Heard, OwnActsShown
<1>3. ASSUME NEW f \in Forms, Submit(f) PROVE Heard' /\ OwnActsShown'
  BY <1>3 DEF Submit, Heard, OwnActsShown
<1>4. ASSUME NEW outcome \in Outcomes, Answer(outcome) PROVE Heard' /\ OwnActsShown'
  <2>1. call' = None
    BY <1>4 DEF Answer
  <2>2. tab' # None => \A x \in tab'.unseen : Excusable(x)
    BY <1>4, AnswerShown
  <2>3. QED
    BY <2>1, <2>2, ShownIs DEF Heard
<1>5. ASSUME Resolve \/ Send
      PROVE  tab' = tab /\ (call' = None \/ (call # None /\ call'.form = call.form))
  <2>1. call \in Calls /\ call # None /\ tab' = tab
    BY <1>5 DEF Resolve, Send, ConsoleInv
  <2>2. \/ call' = None
        \/ \E x : call' = [call EXCEPT !.ws = x] \/ call' = [call EXCEPT !.tok = x]
    BY <1>5 DEF Resolve, Send
  <2>3. QED
    BY <2>1, <2>2 DEF Calls
<1>6. ASSUME NEW w \in Workspaces, SwitchElsewhere(w) \/ Leave(w) \/ Join(w) \/ IssueElsewhere(w)
      PROVE  UNCHANGED <<tab, call>>
  BY <1>6 DEF SwitchElsewhere, Leave, Join, IssueElsewhere
<1>7. ASSUME GoOn \/ Tick \/ CookieGone \/ UNCHANGED consoleVars
      PROVE  tab' \in {tab, None} /\ call' = call
  BY <1>7 DEF GoOn, Tick, CookieGone, consoleVars
<1>8. QED
  BY <1>1, <1>2, <1>3, <1>4, <1>5, <1>6, <1>7 DEF ConsoleNext

\* Whatever was done on any of the pages and not answered by an error is what its page
\* shows, for any workspaces: through refusals, lost answers, switches of the cookie and
\* lists that components keep.  Only the eleven actions of Unrefreshed, the three
\* deletions of Optimistic, and a touched reference among the most used ones, leave a
\* page behind.
THEOREM ActsAreShown == ConsoleSpec => []OwnActsShown
<1>1. ConsoleInit => Heard /\ OwnActsShown
  BY DEF ConsoleInit, Heard, OwnActsShown
<1>2. ConsoleInv /\ Heard /\ OwnActsShown /\ [ConsoleNext]_consoleVars => Heard' /\ OwnActsShown'
  BY ShownStep
<1>3. QED
  BY <1>1, <1>2, ConsoleInvariant, PTL DEF ConsoleSpec
=============================================================================
