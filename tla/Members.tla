------------------------------ MODULE Members ------------------------------
(***************************************************************************)
(* Who belongs to a workspace, and what the browsers still believe.  Rows  *)
(* of workspace_members change through invites, the members page, the      *)
(* directory webhook, the demo sign-ins and a super-admin's visit; a       *)
(* browser carries its user's role in a synterra_wjwt cookie, signed by    *)
(* one of eight routes, for hours, and a members page works with the rows  *)
(* it was rendered with.  One workspace; time passes in hours.             *)
(***************************************************************************)
EXTENDS Integers

CONSTANTS
  Users,
  DemoOn,       \* DEV_AUTO_LOGIN_SECRET is set: the demo and dev sign-ins are there
  Admins,       \* those of SUPERADMIN_USER_IDS
  Pages,        \* members pages that may be open
  Offered,      \* the roles that are chosen on them: bounds the run
  Browsers,     \* each signed in, by turns, as anybody
  CookieHours,  \* lifetime of the workspace JWT (8)
  StaffHours,   \* its lifetime when an operator impersonates (2)
  None

\* WorkspaceRole, and the roles the page lets one choose.
Roles == {"owner", "admin", "manager", "editor", "viewer", "guest"}
Assignable == {"admin", "editor", "viewer", "guest"}

\* PERMISSIONS of member:invite, member:remove and member:change-role.
CanManage(role) == role \in {"owner", "admin"}

Seat == [role : Roles, disabled : BOOLEAN]

\* A token's age runs up to its own lifetime.  by is history: what the route that
\* signed it had looked at - an enabled member's row, any row, or no row at all.
Jwt == {c \in [user : Users, role : Roles, by : {"member", "row", "admin"},
               age : 0..CookieHours, life : {CookieHours, StaffHours}] : c.age < c.life}
View == [rows : SUBSET Users]

ASSUME MembersAssumption ==
  /\ DemoOn \in BOOLEAN /\ Admins \subseteq Users
  /\ Offered \subseteq Assignable
  /\ None \notin Seat \union Jwt \union View \union Roles
  /\ CookieHours \in Nat \ {0}
  /\ StaffHours \in 1..CookieHours

VARIABLES
  member,       \* workspace_members, by user
  invite,       \* the role of the open invite, if there is one
  accepting,    \* the role of the invite each user's acceptInvite has read
  cookie,       \* synterra_wjwt of each browser
  page,         \* open members pages of managers: the rows that have controls
  held,         \* history: hours since each user's enabled row named each role,
  stood         \* and since any row of his did, both counted up to Long

memVars == <<member, invite, accepting, cookie, page, held, stood>>

\* No token gets that old.
Long == CookieHours

MemInit ==
  /\ \E founder \in Users :
       /\ member = [u \in Users |->
            IF u = founder THEN [role |-> "owner", disabled |-> FALSE] ELSE None]
       /\ held = [u \in Users |-> [r \in Roles |->
            IF u = founder /\ r = "owner" THEN 0 ELSE Long]]
       /\ stood = held
  /\ invite = None
  /\ accepting = [u \in Users |-> None]
  /\ cookie = [b \in Browsers |-> None]
  /\ page = [p \in Pages |-> None]

StandsIn(m, u, r) == m[u] # None /\ m[u].role = r
HoldsIn(m, u, r) == StandsIn(m, u, r) /\ ~m[u].disabled

\* The rows become m; what they name after the step they name now.
Seats(m) ==
  /\ member' = m
  /\ held' = [u \in Users |-> [r \in Roles |->
       IF HoldsIn(m, u, r) THEN 0 ELSE held[u][r]]]
  /\ stood' = [u \in Users |-> [r \in Roles |->
       IF StandsIn(m, u, r) THEN 0 ELSE stood[u][r]]]

SameSeats == UNCHANGED <<member, held, stood>>

\* The row of u, as an owner's unless there is one (ON CONFLICT DO NOTHING).
Ensured(u) ==
  IF member[u] = None
  THEN [member EXCEPT ![u] = [role |-> "owner", disabled |-> FALSE]] ELSE member

---------------------------------------------------------------------------
(* The members page (settings/members, MembersList, actions/members.ts)    *)

\* A row has controls unless it is one's own or an owner's.
OpenPage(p, b) ==
  /\ cookie[b] # None /\ CanManage(cookie[b].role)
  /\ page' = [page EXCEPT ![p] =
       [rows |-> {u \in Users \ {cookie[b].user} :
                    member[u] # None /\ member[u].role # "owner"}]]
  /\ UNCHANGED <<invite, accepting, cookie>> /\ SameSeats

\* Every role that can be chosen ranks below the two that may invite.
InviteMember(p, r) ==
  /\ page[p] # None /\ r \in Offered /\ invite = None
  /\ invite' = r
  /\ UNCHANGED <<accepting, cookie, page>> /\ SameSeats

\* One whose row is gone answers NOT_FOUND.  After a change or a removal the page
\* asks to be rendered again: OpenPage, if it gets there.
ChangeMemberRole(p, u, r) ==
  /\ page[p] # None /\ u \in page[p].rows /\ r \in Offered
  /\ member[u] # None
  /\ Seats([member EXCEPT ![u].role = r])
  /\ UNCHANGED <<invite, accepting, cookie, page>>

\* "Cannot remove the workspace owner" is decided by the role on the page, not the
\* row's.
RemoveMember(p, u) ==
  /\ page[p] # None /\ u \in page[p].rows
  /\ Seats([member EXCEPT ![u] = None])
  /\ UNCHANGED <<invite, accepting, cookie, page>>

\* The caller becomes admin, the other owner, each if there is a row.
TransferOwnership(u, v) ==
  /\ \E b \in Browsers : cookie[b] # None /\ cookie[b].user = u /\ cookie[b].role = "owner"
  /\ LET stepped == IF member[u] = None THEN member ELSE [member EXCEPT ![u].role = "admin"]
     IN  Seats(IF member[v] = None THEN stepped ELSE [stepped EXCEPT ![v].role = "owner"])
  /\ UNCHANGED <<invite, accepting, cookie, page>>

\* acceptInvite reads and checks the invite before its transaction ...
ReadInvite(u) ==
  /\ invite # None /\ accepting[u] = None
  /\ accepting' = [accepting EXCEPT ![u] = invite]
  /\ UNCHANGED <<invite, cookie, page>> /\ SameSeats

\* ... which fails for somebody who is a member already, and otherwise closes the
\* invite, also when another user has accepted it in between.
JoinWorkspace(u) ==
  /\ accepting[u] # None
  /\ accepting' = [accepting EXCEPT ![u] = None]
  /\ IF member[u] = None
     THEN /\ Seats([member EXCEPT ![u] = [role |-> accepting[u], disabled |-> FALSE]])
          /\ invite' = None
     ELSE UNCHANGED invite /\ SameSeats
  /\ UNCHANGED <<cookie, page>>

InviteExpires ==
  /\ invite # None
  /\ invite' = None
  /\ UNCHANGED <<accepting, cookie, page>> /\ SameSeats

\* dsync.user.updated (inactive) and dsync.user.deleted; nothing enables a row again.
Deactivate(u) ==
  /\ member[u] # None
  /\ Seats([member EXCEPT ![u].disabled = TRUE])
  /\ UNCHANGED <<invite, accepting, cookie, page>>

---------------------------------------------------------------------------
(* The cookie.                                                             *)

SetCookie(b, u, role, by, hours) ==
  cookie' = [cookie EXCEPT ![b] =
    [user |-> u, role |-> role, by |-> by, age |-> 0, life |-> hours]]

\* What a route signs that asks for an enabled row.
SignMember(b, u, hours) ==
  /\ member[u] # None /\ ~member[u].disabled
  /\ SetCookie(b, u, member[u].role, "member", hours)
  /\ UNCHANGED <<invite, accepting, page>> /\ SameSeats

\* Fault: the role is taken from the cookie there is.
SwitchFromCookie(b, u) ==
  /\ cookie[b] # None /\ cookie[b].user = u
  /\ SetCookie(b, u, cookie[b].role, "member", CookieHours)
  /\ UNCHANGED <<invite, accepting, page>> /\ SameSeats

\* POST /api/workspace/switch, for the user the browser is signed in as; without a
\* session it goes by the user of the cookie there is.
SwitchWorkspace(b, u) == SignMember(b, u, CookieHours)

\* The claim's switchToWorkspace, and the SSO callback.
LandInWorkspace(b, u) == SignMember(b, u, CookieHours)

\* Fault: whoever signs in this way is taken for an owner.
DemoLoginAsOwner(b, u) ==
  /\ DemoOn
  /\ Seats(Ensured(u))
  /\ SetCookie(b, u, "owner", "row", CookieHours)
  /\ UNCHANGED <<invite, accepting, page>>

\* The demo sign-in and the dev login page take any address, see to it that its user
\* has a row, and sign that row's role without looking at is_disabled.
DemoLogin(b, u) ==
  /\ DemoOn
  /\ Seats(Ensured(u))
  /\ SetCookie(b, u, Ensured(u)[u].role, "row", CookieHours)
  /\ UNCHANGED <<invite, accepting, page>>

\* GET /api/dev/login signs in whoever the first row is of, disabled or not.
DevLogin(b, u) ==
  /\ DemoOn
  /\ member[u] # None
  /\ SetCookie(b, u, member[u].role, "row", CookieHours)
  /\ UNCHANGED <<invite, accepting, page>> /\ SameSeats

\* impersonateWorkspaceAction signs "owner" whatever the row says.
AdminEnters(b, u) ==
  /\ u \in Admins
  /\ Seats(Ensured(u))
  /\ SetCookie(b, u, "owner", "admin", CookieHours)
  /\ UNCHANGED <<invite, accepting, page>>

Impersonate(b, u) == SignMember(b, u, StaffHours)

\* Leaving impersonation, deleting the workspace, or signing out.
DropCookie(b) ==
  /\ cookie[b] # None
  /\ cookie' = [cookie EXCEPT ![b] = None]
  /\ UNCHANGED <<invite, accepting, page>> /\ SameSeats

\* Fault: the expiry is not looked at.
OlderKept(c) == IF c = None THEN None ELSE [c EXCEPT !.age = @ + 1]

Older(c) == IF c = None \/ c.age + 1 = c.life THEN None ELSE [c EXCEPT !.age = @ + 1]

\* One more hour, as far as hours are counted.
Later(n) == IF n = Long THEN Long ELSE n + 1

Hour ==
  /\ cookie' = [b \in Browsers |-> Older(cookie[b])]
  /\ held' = [u \in Users |-> [r \in Roles |->
       IF HoldsIn(member, u, r) THEN 0 ELSE Later(held[u][r])]]
  /\ stood' = [u \in Users |-> [r \in Roles |->
       IF StandsIn(member, u, r) THEN 0 ELSE Later(stood[u][r])]]
  /\ UNCHANGED <<member, invite, accepting, page>>

MemNext ==
  \/ \E p \in Pages :
       \/ \E b \in Browsers : OpenPage(p, b)
       \/ \E r \in Roles : InviteMember(p, r)
       \/ \E u \in Users : RemoveMember(p, u) \/ \E r \in Roles : ChangeMemberRole(p, u, r)
  \/ \E u \in Users :
       \/ \E v \in Users \ {u} : TransferOwnership(u, v)
       \/ ReadInvite(u) \/ JoinWorkspace(u) \/ Deactivate(u)
       \/ \E b \in Browsers :
            \/ SwitchWorkspace(b, u) \/ LandInWorkspace(b, u) \/ DemoLogin(b, u)
            \/ DevLogin(b, u) \/ AdminEnters(b, u) \/ Impersonate(b, u)
  \/ InviteExpires
  \/ \E b \in Browsers : DropCookie(b)
  \/ Hour

MemSpec == MemInit /\ [][MemNext]_memVars

---------------------------------------------------------------------------
(* Properties.                                                             *)

\* Types of the table, the tokens and the pages.
MemTypeOK ==
  /\ member \in [Users -> Seat \union {None}]
  /\ invite \in Roles \union {None}
  /\ accepting \in [Users -> Roles \union {None}]
  /\ cookie \in [Browsers -> Jwt \union {None}]
  /\ page \in [Pages -> View \union {None}]
  /\ held \in [Users -> [Roles -> 0..Long]]
  /\ stood \in [Users -> [Roles -> 0..Long]]

\* How stale a session may be.  Where a route looked for an enabled member, the role
\* in the cookie is one its user held, enabled, no longer ago than the token is old:
\* a demotion, a removal and a deactivation by the directory reach every such
\* browser within the token's own lifetime, two hours of an impersonation's, eight
\* of the others', although a switch may start from the cookie alone
\* (switch/route.ts:24-34).  The demo and dev sign-ins promise as much of the row
\* alone, disabled or not (sign-in/_actions.ts:86-92, api/dev/login/route.ts:17-35);
\* a role nobody's row need name is a super-admin's "owner" (admin/_actions.ts:45).
RoleStaleAtMost ==
  \A b \in Browsers :
    cookie[b] # None =>
      LET c == cookie[b] IN
      /\ c.by = "member" => held[c.user][c.role] <= c.age
      /\ c.by = "row"    => stood[c.user][c.role] <= c.age
      /\ c.by = "admin"  => c.user \in Admins /\ c.role = "owner"
=============================================================================
