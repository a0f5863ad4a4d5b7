---------------------------- MODULE ConsolePages ----------------------------
(***************************************************************************)
(* The pages of a workspace as tables: what each page reads before it is   *)
(* shown, which of those reads it cannot do without, and the forms on it;  *)
(* what each server action writes, how it finds its workspace, and when it *)
(* has the page rendered again; what each client form does with the        *)
(* answer.  Layout, wording and the shape of the rows are left out.        *)
(* Console.tla is the machine that runs these tables.                      *)
(***************************************************************************)
\* ------------------------------------------------------------- the reads

\* Reads of Aquila that are shown empty when it does not answer ...
AlertingReads == {"rules", "templates", "fires"}
PolicyReads == {"policies", "policyFires"}
ScheduleReads == {"schedules", "scheduleChanges"}
InsightReads == {"summary", "recentChanges", "clusters", "gaps"}
MonitorReads == {"usage", "researchRuns", "fires"}
ActivityReads == {"activity"}
AgentReads == {"agents"}
CommentReads == {"comments"}
DreamReads == {"dreams"}
GlossaryReads == {"terms"}
GraphReads == {"tenantGraph"}
CommandCenter == {"commandCenter"}
PulseReads == {"pulse"}
ReferenceReads == {"references", "mostUsed"}
ToqueReads == {"toques", "flags"}
BattlecardReads == {"battlecards"}
ClashReads == {"clash"}
BriefReads == {"briefs"}
WorkflowReads == {"workflows", "workflowRuns"}
BrandProfile == {"dna", "twins", "quality"}
BrandInstagram == {"instagram"}
BrandTimeline == {"timeline"}
BrandGraph == {"brandGraph"}
BrandHeatmap == {"heatmap"}
BrandMarket == {"ads", "pricing"}

\* ... and those that are answered with example data instead.
Brands == {"brands"}
BrandById == {"brand"}
ResearchReads == {"research"}

\* Rows of Synterra's own database.
BrandChangeReads == {"changes"}
OwnRows == {"pins", "apiKeys", "endpoints", "prefs", "sso", "slack", "members",
            "name", "audit", "billing", "admin"} \union BrandChangeReads

\* ----------------------------------------------------- the server actions

\* Slug: the workspace of the URL, if the user has a row in it; refused without
\* one.  Cookie: the workspace of the cookie.  Bound: the one the page was
\* rendered with.  Tells: when the page is rendered again - "always", after an
\* answer only ("ok"), or "never".  Blind: success is answered in any case.
\* Staff: done for those who came through Cloudflare Access, dropped otherwise.
Act(scope, writes, tells, blind) ==
  [scope |-> scope, writes |-> writes, tells |-> tells, blind |-> blind]
Slug(writes, tells) == Act("slug", writes, tells, FALSE)
Blind(writes, tells) == Act("slug", writes, tells, TRUE)
Cookie(writes, tells) == Act("cookie", writes, tells, FALSE)
Bound(writes, tells) == Act("bound", writes, tells, FALSE)
Staff(writes) == Act("staff", writes, "always", FALSE)

createAlertRule == Blind({"rules"}, "always")
deleteAlertRule == Blind({"rules"}, "always")
toggleAlertRule == Blind({"rules"}, "always")
testAlertRule == Blind({"fires"}, "always")
createEventPolicy == Blind({"policies"}, "always")
togglePolicy == Blind({"policies"}, "always")
deleteEventPolicy == Blind({"policies"}, "always")
\* Fault: a new schedule does not have its page rendered again.
createScheduleQuietly == Blind({"schedules"}, "never")

createSchedule == Blind({"schedules"}, "always")
deleteSchedule == Blind({"schedules"}, "always")
toggleSchedule == Blind({"schedules"}, "always")
generateBattlecard == Blind({"battlecards"}, "always")
deleteBattlecard == Blind({"battlecards"}, "always")
addComment == Blind({"comments"}, "always")
deleteComment == Blind({"comments"}, "always")
togglePin == Slug({"pins"}, "always")
refreshPulse == Blind({"pulse"}, "always")
syncInstagram == Blind({"instagram"}, "always")
syncPricing == Blind({"pricing"}, "always")
triggerGhostScan == Blind({"ads"}, "always")
discoverBrands == Slug({"brands"}, "always")
\* Exported, and on no form.
discoverCompetitors == Blind(BrandById, "always")
createReference == Slug(ReferenceReads, "ok")
deleteReference == Blind(ReferenceReads, "always")
touchReference == Slug(ReferenceReads, "never")
createToque == Slug({"toques"}, "ok")
deleteToque == Blind({"toques"}, "always")
\* Of a toque that has its flags: only those without are fetched again until they have.
reextractToque == Blind({"flags"}, "never")
refetchToque == Slug({}, "never")
createWorkflow == Slug({"workflows"}, "ok")
disableWorkflow == Blind({"workflows"}, "always")
enqueueRun == Slug({"workflowRuns"}, "ok")
analyzeBrand == Slug({"briefs"}, "ok")
consolidateDream == Slug({"dreams"}, "ok")
excludeTwin == Bound({"twins"}, "ok")
triggerGeoScan == Slug({"geo"}, "never")
triggerMapsSync == Slug({"maps"}, "never")
triggerReactionsScan == Slug({"reactions"}, "never")
brandVoice == Cookie({}, "never")
battlecardAction == Cookie({}, "never")
createResearchRun == Cookie({"research"}, "redirect")
checkout == Cookie({"billing"}, "leave")
portal == Cookie({}, "leave")
createKey == Cookie({"apiKeys"}, "never")
revokeKey == Cookie({"apiKeys"}, "never")
createEndpoint == Cookie({"endpoints"}, "never")
deleteEndpoint == Cookie({"endpoints"}, "never")
upsertSubscription == Cookie({"prefs"}, "never")
enableSso == Bound({"sso"}, "never")
toggleSso == Bound({"sso"}, "never")
updateSettings == Bound({"name"}, "never")
changeMembers == Bound({"members"}, "never")
searchBrands == Slug({}, "never")
narrateTimeline == Slug({}, "never")
askChat == Slug({}, "never")
askOmi == Slug({}, "never")
omiAnalyze == Slug({"briefs"}, "never")
omiInvestigate == Slug({"researchRuns"}, "never")
omiCompare == Slug({}, "never")
omiTwins == Slug({}, "never")
omiNews == Slug({}, "never")
changePlan == Staff({"admin"})
grantCredits == Staff({"admin"})
suspendWorkspace == Staff({"admin"})
unsuspendWorkspace == Staff({"admin"})
toggleFlag == Staff({"admin"})

\* -------------------------------------------------------- the client forms

\* What becomes of the answer: "render" leaves it to the action; "patch" puts
\* it in the list the component keeps, if it is one; "drop" changes the kept
\* row at once; "reload" and "refresh" have the page loaded or rendered again;
\* "show" displays the answer next to the form.
Form(act, then) == [act |-> act, then |-> then]
Plain(acts) == {Form(a, "render") : a \in acts}
Show(acts) == {Form(a, "show") : a \in acts}

ReferencesClient == {Form(createReference, "patch"), Form(touchReference, "patch"),
                     Form(deleteReference, "drop")}
ToquesClient == {Form(createToque, "patch"), Form(deleteToque, "drop"),
                 Form(reextractToque, "show"), Form(refetchToque, "patch")}
WorkflowsClient == {Form(createWorkflow, "patch"), Form(disableWorkflow, "drop")}
WorkflowDetailClient == {Form(enqueueRun, "patch")}
DreamClient == {Form(consolidateDream, "reload")}
CerebroForm == Show({analyzeBrand})
DiscoveryForm == Show({discoverBrands})
AddCommentForm == Plain({addComment})
GeoScanForm == Show({triggerGeoScan})
MapsSyncForm == Show({triggerMapsSync})
ReactionsScanForm == Show({triggerReactionsScan})
DnaTwinsPanel == Plain({excludeTwin})
BrandSearch == Show({searchBrands})
TimelineNarrate == Show({narrateTimeline})
BrandVoiceForm == Show({brandVoice})
BattlecardForm == Show({battlecardAction})
BillingActions == Show({checkout, portal})
ApiKeysClient == Show({createKey, revokeKey})
WebhooksClient == Show({createEndpoint, deleteEndpoint})
SsoSettingsForm == Show({enableSso, toggleSso})
GeneralSettingsForm == Show({updateSettings})
MembersList == {Form(changeMembers, "refresh")}
ChatInterface == Show({askChat})
OmiOverlay == Show({askOmi, omiAnalyze, omiInvestigate, omiCompare, omiTwins, omiNews})

\* --------------------------------------------------------------- the pages

\* by: what the page finds its workspace with, "slug" or "cookie" ("staff" for
\* the operators' pages).  needs: reads without which it is a 404.  gated: only
\* for the roles owner and admin.
\* keeps: what a client component holds in its own state once it is mounted.
Page(by, reads, needs, forms) ==
  [by |-> by, reads |-> reads, needs |-> needs, forms |-> forms,
   gated |-> FALSE, keeps |-> {}]
BySlug(reads, forms) == Page("slug", reads, {}, forms \union OmiOverlay)
ByCookie(reads, forms) == Page("cookie", reads, {}, forms \union OmiOverlay)
Needing(page, reads) == [page EXCEPT !.needs = reads, !.reads = @ \union reads]
Gated(page) == [page EXCEPT !.gated = TRUE]
Keeping(page, reads) == [page EXCEPT !.keeps = reads]

ActivityPage == BySlug(ActivityReads, {})
AgentsPage == BySlug(AgentReads, {})
AgentPage == Needing(BySlug({}, {}), {"agent"})
AlertsPage == BySlug(AlertingReads,
  Plain({createAlertRule, deleteAlertRule, toggleAlertRule, testAlertRule}))
AutomationsPage == BySlug(PolicyReads \union {"workflows"},
  Plain({createEventPolicy, togglePolicy, deleteEventPolicy}))
BattlecardsPage == BySlug(Brands \union BattlecardReads,
  Plain({generateBattlecard, deleteBattlecard}))
BillingPage == ByCookie({"billing"}, BillingActions)
BrandsPage == BySlug(Brands \union {"pins"}, BrandSearch)
BrandPage == Needing(BySlug(BrandProfile \union {"pins"},
  Plain({togglePin}) \union DnaTwinsPanel), BrandById)
BrandAdsPage == BySlug({"ads"}, Plain({triggerGhostScan}))
BrandBattlecardsPage == Needing(BySlug(Brands \union BattlecardReads,
  Plain({generateBattlecard, deleteBattlecard})), BrandById)
BrandChangesPage == Needing(BySlug(BrandChangeReads, {}), BrandById)
BrandCommentsPage == BySlug(CommentReads, AddCommentForm \union Plain({deleteComment}))
BrandCompetitorsPage == Needing(BySlug({}, {}), BrandById)
BrandDreamPage == Keeping(BySlug(DreamReads, DreamClient), DreamReads)
BrandGeoPage == BySlug({}, GeoScanForm)
BrandGraphPage == Needing(BySlug(BrandGraph, {}), BrandById)
BrandInstagramPage == Needing(BySlug(BrandInstagram, Plain({syncInstagram})), BrandById)
BrandMapsPage == BySlug({}, MapsSyncForm)
BrandPricingPage == BySlug({"pricing"}, Plain({syncPricing}))
BrandReactionsPage == BySlug({}, ReactionsScanForm)
BrandTimelinePage == Needing(BySlug(BrandTimeline, TimelineNarrate), BrandById)
CerebroPage == BySlug(Brands \union BriefReads, CerebroForm)
BriefPage == Needing(BySlug({}, {}), {"brief"})
ChatPage == BySlug(Brands, ChatInterface)
ClashPage == BySlug(Brands \union ClashReads, {})
DiscoveryPage == BySlug({}, DiscoveryForm)
ExportPage == BySlug({"summary"}, {})
GeneratePage == ByCookie({}, {})
GenerateBattlecardPage == ByCookie({}, BattlecardForm)
GenerateVoicePage == ByCookie({}, BrandVoiceForm)
GlossaryPage == BySlug(GlossaryReads, {})
TenantGraphPage == BySlug(GraphReads, {})
HeatmapPage == BySlug(BrandHeatmap, {})
InsightsPage == BySlug(InsightReads, {})
MonitorsPage == BySlug(MonitorReads \union BriefReads \union WorkflowReads, {})
OverviewPage == BySlug(CommandCenter \union Brands, {})
PinsPage == BySlug({"pins"}, Plain({togglePin}))
PulsePage == BySlug(PulseReads, Plain({refreshPulse}))
\* The most used ones are a prop beside the list it keeps.
ReferencesPage == Keeping(BySlug(ReferenceReads, ReferencesClient), {"references"})
ResearchPage == ByCookie(ResearchReads, {})
ResearchRunPage == Needing(ByCookie({}, {}), ResearchReads)
NewResearchPage == ByCookie({}, Plain({createResearchRun}))
SchedulesPage == BySlug(ScheduleReads \union Brands,
  Plain({createSchedule, deleteSchedule, toggleSchedule}))
ToquesPage == Keeping(BySlug(ToqueReads, ToquesClient), ToqueReads)
WorkflowsPage == Keeping(BySlug({"workflows"}, WorkflowsClient), {"workflows"})
WorkflowPage == Keeping(Needing(BySlug({"workflowRuns"}, WorkflowDetailClient),
  {"workflow"}), {"workflowRuns"})
WorkflowRunPage == Needing(BySlug({}, {}), {"workflowRun"})
CanvasPage == BySlug({}, {})

\* Settings: all by the cookie, whatever workspace the URL names.
ApiKeysPage == Gated(ByCookie({"apiKeys"}, ApiKeysClient))
AuditPage == ByCookie({"audit"}, {})
DataPage == Needing(ByCookie({}, {}), {"name"})
GeneralPage == Needing(ByCookie({}, GeneralSettingsForm), {"name"})
MembersPage == ByCookie({"members"}, MembersList)
NotificationsPage == ByCookie({"prefs"}, Plain({upsertSubscription}))
SlackPage == ByCookie({"slack"}, {})
SsoPage == Gated(ByCookie({"sso"}, SsoSettingsForm))
WebhooksPage == Gated(ByCookie({"endpoints"}, WebhooksClient))

\* The operators' pages.
OpsPage == Page("staff", {"admin"}, {"admin"},
  Plain({changePlan, grantCredits, suspendWorkspace, unsuspendWorkspace}))
FlagsPage == Page("staff", {"admin"}, {}, Plain({toggleFlag}))
AdminPage == Page("staff", {"admin"}, {}, {})

Pages == {
  ActivityPage, AgentsPage, AgentPage, AlertsPage, AutomationsPage, BattlecardsPage,
  BillingPage, BrandsPage, BrandPage, BrandAdsPage, BrandBattlecardsPage,
  BrandChangesPage, BrandCommentsPage, BrandCompetitorsPage, BrandDreamPage,
  BrandGeoPage, BrandGraphPage, BrandInstagramPage, BrandMapsPage, BrandPricingPage,
  BrandReactionsPage, BrandTimelinePage, CerebroPage, BriefPage, ChatPage, ClashPage,
  DiscoveryPage, ExportPage, GeneratePage, GenerateBattlecardPage, GenerateVoicePage,
  GlossaryPage, TenantGraphPage, HeatmapPage, InsightsPage, MonitorsPage, OverviewPage,
  PinsPage, PulsePage, ReferencesPage, ResearchPage, ResearchRunPage, NewResearchPage,
  SchedulesPage, ToquesPage, WorkflowsPage, WorkflowPage, WorkflowRunPage, CanvasPage,
  ApiKeysPage, AuditPage, DataPage, GeneralPage, MembersPage, NotificationsPage,
  SlackPage, SsoPage, WebhooksPage, OpsPage, FlagsPage, AdminPage}
=============================================================================
