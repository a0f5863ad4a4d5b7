--------------------------- MODULE Members_proofs ---------------------------
(***************************************************************************)
(* How stale a role can be, for any number of users, pages, browsers and   *)
(* hours.  The argument: the histories held and stood are zero for every   *)
(* role a row names (NamedNow), so a token signed from a row starts no     *)
(* older than its role is stale; afterwards both clocks run at the same    *)
(* speed, and a row that changes takes neither history forward.            *)
(***************************************************************************)
EXTENDS Members, TLAPS

\* A role that a row names now was last named now.
NamedNow ==
  \A u \in Users, r \in Roles :
    /\ HoldsIn(member, u, r) => held[u][r] = 0
    /\ StandsIn(member, u, r) => stood[u][r] = 0

MemInv == MemTypeOK /\ NamedNow /\ RoleStaleAtMost

Hours == [Users -> [Roles -> 0..Long]]

\* No role was last named longer ago than before.
NotLonger ==
  \A u \in Users, r \in Roles : held'[u][r] <= held[u][r] /\ stood'[u][r] <= stood[u][r]

\* What RoleStaleAtMost says of a token, with the hours h and s for held and stood.
Fresh(c, h, s) ==
  /\ c.by = "member" => h[c.user][c.role] <= c.age
  /\ c.by = "row"    => s[c.user][c.role] <= c.age
  /\ c.by = "admin"  => c.user \in Admins /\ c.role = "owner"

LEMMA StaleIsFresh ==
  /\ RoleStaleAtMost <=> \A b \in Browsers : cookie[b] # None => Fresh(cookie[b], held, stood)
  /\ RoleStaleAtMost' <=> \A b \in Browsers : cookie'[b] # None => Fresh(cookie'[b], held', stood')
  BY DEF RoleStaleAtMost, Fresh

\* What is a seat, a token or a view is not None.
LEMMA Present ==
  /\ \A x \in Seat \union Jwt \union View \union Roles : x # None
  /\ CookieHours \in Nat \ {0} /\ StaffHours \in 1..CookieHours
  /\ Long \in Nat
  BY MembersAssumption DEF Long

\* The fields of a token.
LEMMA JwtFields ==
  ASSUME NEW c \in Jwt
  PROVE  /\ c.user \in Users /\ c.role \in Roles /\ c.by \in {"member", "row", "admin"}
         /\ c.age \in Nat /\ c.life \in Nat /\ c.age < c.life
  BY Present DEF Jwt

\* A token stays as fresh as it was while the histories are taken back.
LEMMA StillFresh ==
  ASSUME held \in Hours, stood \in Hours, held' \in Hours, stood' \in Hours, NotLonger,
         NEW c \in Jwt, Fresh(c, held, stood)
  PROVE  Fresh(c, held', stood')
<1>1. c.user \in Users /\ c.role \in Roles /\ c.age \in Nat
  BY JwtFields
<1>2. /\ held[c.user][c.role] \in 0..Long /\ stood[c.user][c.role] \in 0..Long
      /\ held'[c.user][c.role] \in 0..Long /\ stood'[c.user][c.role] \in 0..Long
  BY <1>1 DEF Hours
<1>3. /\ held'[c.user][c.role] <= held[c.user][c.role]
      /\ stood'[c.user][c.role] <= stood[c.user][c.role]
  BY <1>1 DEF NotLonger
<1>4. QED
  BY <1>1, <1>2, <1>3, Present DEF Fresh

\* New rows keep the types and what the histories say of them.
LEMMA SeatsStep ==
  ASSUME NEW m \in [Users -> Seat \union {None}], MemTypeOK, Seats(m)
  PROVE  /\ member' \in [Users -> Seat \union {None}]
         /\ held' \in Hours /\ stood' \in Hours
         /\ NamedNow'
         /\ NotLonger
<1>1. member' = m
  BY DEF Seats
<1>2. \A u \in Users, r \in Roles : held[u][r] \in 0..Long /\ stood[u][r] \in 0..Long
  BY DEF MemTypeOK
<1>3. \A u \in Users, r \in Roles :
        /\ held'[u][r] = IF HoldsIn(m, u, r) THEN 0 ELSE held[u][r]
        /\ stood'[u][r] = IF StandsIn(m, u, r) THEN 0 ELSE stood[u][r]
  BY DEF Seats
<1>4. held' \in Hours /\ stood' \in Hours
  BY <1>2, Present DEF Seats, Hours
<1>5. \A u \in Users, r \in Roles :
        /\ HoldsIn(member, u, r)' <=> HoldsIn(m, u, r)
        /\ StandsIn(member, u, r)' <=> StandsIn(m, u, r)
  BY <1>1 DEF HoldsIn, StandsIn
<1>6. NotLonger
  BY <1>2, <1>3 DEF NotLonger
<1>7. QED
  BY <1>1, <1>3, <1>4, <1>5, <1>6 DEF NamedNow

\* Without new rows the histories stay too.
LEMMA SameSeatsStep ==
  ASSUME MemInv, SameSeats
  PROVE  /\ member' \in [Users -> Seat \union {None}]
         /\ held' \in Hours /\ stood' \in Hours
         /\ NamedNow'
         /\ NotLonger
<1>1. held \in Hours /\ stood \in Hours /\ member \in [Users -> Seat \union {None}]
  BY DEF MemInv, MemTypeOK, Hours
<1>2. \A u \in Users, r \in Roles : held[u][r] \in 0..Long /\ stood[u][r] \in 0..Long
  BY <1>1 DEF Hours
<1>3. NotLonger
  BY <1>2 DEF NotLonger, SameSeats
<1>4. NamedNow'
  BY DEF MemInv, NamedNow, HoldsIn, StandsIn, SameSeats
<1>5. QED
  BY <1>1, <1>3, <1>4 DEF SameSeats

\* The rows an operation may leave.
LEMMA SeatTypes ==
  ASSUME MemTypeOK, NEW u \in Users
  PROVE  /\ \A r \in Roles, d \in BOOLEAN :
              [member EXCEPT ![u] = [role |-> r, disabled |-> d]]
                \in [Users -> Seat \union {None}]
         /\ [member EXCEPT ![u] = None] \in [Users -> Seat \union {None}]
         /\ Ensured(u) \in [Users -> Seat \union {None}]
         /\ Ensured(u)[u] \in Seat
         /\ member[u] # None =>
              /\ \A r \in Roles :
                   [member EXCEPT ![u].role = r] \in [Users -> Seat \union {None}]
              /\ [member EXCEPT ![u].disabled = TRUE] \in [Users -> Seat \union {None}]
<1>1. member \in [Users -> Seat \union {None}]
  BY DEF MemTypeOK
<1>2. \A r \in Roles, d \in BOOLEAN : [role |-> r, disabled |-> d] \in Seat
  BY DEF Seat
<1>3. "owner" \in Roles
  BY DEF Roles
<1>4. Ensured(u) \in [Users -> Seat \union {None}] /\ Ensured(u)[u] \in Seat
  BY <1>1, <1>2, <1>3 DEF Ensured
<1>5. ASSUME member[u] # None
      PROVE  /\ \A r \in Roles :
                  [member EXCEPT ![u].role = r] \in [Users -> Seat \union {None}]
             /\ [member EXCEPT ![u].disabled = TRUE] \in [Users -> Seat \union {None}]
  <2>1. member[u] \in Seat
    BY <1>1, <1>5
  <2>2. \A r \in Roles : [member[u] EXCEPT !.role = r] \in Seat
    BY <2>1 DEF Seat
  <2>3. [member[u] EXCEPT !.disabled = TRUE] \in Seat
    BY <2>1 DEF Seat
  <2>4. QED
    BY <1>1, <2>2, <2>3
<1>6. QED
  BY <1>1, <1>2, <1>4, <1>5

\* Rows and histories that change while the cookies stay make no role staler.
LEMMA RowsOnly ==
  ASSUME MemInv, held' \in Hours, stood' \in Hours, NotLonger, UNCHANGED cookie
  PROVE  RoleStaleAtMost'
<1>1. held \in Hours /\ stood \in Hours
  BY DEF MemInv, MemTypeOK, Hours
<1>2. ASSUME NEW b \in Browsers, cookie'[b] # None
      PROVE  Fresh(cookie'[b], held', stood')
  <2>1. cookie[b] \in Jwt
    BY <1>2 DEF MemInv, MemTypeOK
  <2>2. Fresh(cookie[b], held, stood)
    BY <1>2, StaleIsFresh DEF MemInv
  <2>3. QED
    BY <1>1, <2>1, <2>2, StillFresh
<1>3. QED
  BY <1>2, StaleIsFresh

\* A token signed for a role that is held, that a row names, or for a super-admin's
\* "owner".
LEMMA Signed ==
  ASSUME MemInv, NEW b \in Browsers, NEW u \in Users, NEW r \in Roles,
         NEW by \in {"member", "row", "admin"}, NEW h \in {CookieHours, StaffHours},
         SetCookie(b, u, r, by, h),
         held' \in Hours, stood' \in Hours, NotLonger,
         by = "member" => held'[u][r] = 0,
         by = "row" => stood'[u][r] = 0,
         by = "admin" => u \in Admins /\ r = "owner"
  PROVE  cookie' \in [Browsers -> Jwt \union {None}] /\ RoleStaleAtMost'
<1> DEFINE t == [user |-> u, role |-> r, by |-> by, age |-> 0, life |-> h]
<1>1. t \in Jwt
  BY Present DEF Jwt
<1>2. cookie \in [Browsers -> Jwt \union {None}] /\ held \in Hours /\ stood \in Hours
  BY DEF MemInv, MemTypeOK, Hours
<1>3. cookie' = [cookie EXCEPT ![b] = t]
  BY DEF SetCookie
<1>4. Fresh(t, held', stood')
  BY DEF Fresh
<1> HIDE DEF t
<1>5. cookie' \in [Browsers -> Jwt \union {None}]
  BY <1>1, <1>2, <1>3
<1>6. ASSUME NEW c \in Browsers, cookie'[c] # None
      PROVE  Fresh(cookie'[c], held', stood')
  <2>1. CASE c = b
    BY <1>2, <1>3, <1>4, <2>1
  <2>2. CASE c # b
    <3>1. cookie'[c] = cookie[c] /\ cookie[c] \in Jwt
      BY <1>2, <1>3, <1>6, <2>2
    <3>2. Fresh(cookie[c], held, stood)
      BY <1>6, <3>1, StaleIsFresh DEF MemInv
    <3>3. QED
      BY <1>2, <3>1, <3>2, StillFresh
  <2>3. QED
    BY <2>1, <2>2
<1>7. QED
  BY <1>5, <1>6, StaleIsFresh

\* Later counts by one at most.
LEMMA LaterBound == \A n \in 0..Long : Later(n) \in 0..Long /\ Later(n) <= n + 1
  BY Present DEF Later

\* The clocks of one hour.
LEMMA HourStep ==
  ASSUME MemInv, Hour
  PROVE  MemInv'
<1>1. cookie \in [Browsers -> Jwt \union {None}] /\ held \in Hours /\ stood \in Hours
  BY DEF MemInv, MemTypeOK, Hours
<1>2. \A u \in Users, r \in Roles : held[u][r] \in 0..Long /\ stood[u][r] \in 0..Long
  BY <1>1 DEF Hours
<1>3. \A u \in Users, r \in Roles :
        /\ held'[u][r] = IF HoldsIn(member, u, r) THEN 0 ELSE Later(held[u][r])
        /\ stood'[u][r] = IF StandsIn(member, u, r) THEN 0 ELSE Later(stood[u][r])
  BY DEF Hour
<1>4. \A u \in Users, r \in Roles :
        /\ held'[u][r] \in 0..Long /\ held'[u][r] <= held[u][r] + 1
        /\ stood'[u][r] \in 0..Long /\ stood'[u][r] <= stood[u][r] + 1
  BY <1>2, <1>3, LaterBound, Present
<1>5. held' \in Hours /\ stood' \in Hours
  <2>1. /\ held' = [u \in Users |-> [r \in Roles |-> held'[u][r]]]
        /\ stood' = [u \in Users |-> [r \in Roles |-> stood'[u][r]]]
    BY DEF Hour
  <2>2. held' \in Hours
    BY <1>4, <2>1 DEF Hours
  <2>3. stood' \in Hours
    BY <1>4, <2>1 DEF Hours
  <2>4. QED
    BY <2>2, <2>3
<1>6. ASSUME NEW b \in Browsers, cookie'[b] # None
      PROVE  /\ cookie[b] \in Jwt
             /\ cookie'[b] \in Jwt
             /\ cookie'[b] = [cookie[b] EXCEPT !.age = @ + 1]
  <2>1. cookie'[b] = Older(cookie[b])
    BY DEF Hour
  <2>2. /\ cookie[b] # None /\ cookie[b].age + 1 # cookie[b].life
        /\ cookie'[b] = [cookie[b] EXCEPT !.age = @ + 1]
    BY <1>6, <2>1 DEF Older
  <2>3. cookie[b] \in Jwt
    BY <1>1, <2>2
  <2>4. cookie[b].age + 1 \in Nat /\ cookie[b].age + 1 < cookie[b].life
    BY <2>2, <2>3, JwtFields
  <2>5. cookie[b].life <= CookieHours
    BY <2>3, Present DEF Jwt
  <2>6. cookie'[b] \in Jwt
    BY <2>2, <2>3, <2>4, <2>5, Present, JwtFields DEF Jwt
  <2>7. QED
    BY <2>2, <2>3, <2>6
<1>7. cookie' \in [Browsers -> Jwt \union {None}]
  <2>1. \A b \in Browsers : cookie'[b] \in Jwt \union {None}
    BY <1>6
  <2>2. QED
    BY <2>1 DEF Hour
<1>8. MemTypeOK'
  BY <1>5, <1>7 DEF MemInv, MemTypeOK, Hour, Hours
<1>9. NamedNow'
  BY <1>3 DEF NamedNow, HoldsIn, StandsIn, Hour
<1>10. ASSUME NEW b \in Browsers, cookie'[b] # None
       PROVE  Fresh(cookie'[b], held', stood')
  <2> DEFINE c == cookie[b]
             d == cookie'[b]
  <2>1. c \in Jwt /\ d = [c EXCEPT !.age = @ + 1]
    BY <1>6, <1>10
  <2>2. Fresh(c, held, stood)
    BY <1>10, <2>1, StaleIsFresh, Present DEF MemInv
  <2>3. d.user = c.user /\ d.role = c.role /\ d.by = c.by /\ d.age = c.age + 1
    BY <2>1 DEF Jwt
  <2>4. c.user \in Users /\ c.role \in Roles /\ c.age \in Nat
    BY <2>1, JwtFields
  <2> HIDE DEF c, d
  <2>5. /\ held[c.user][c.role] \in 0..Long /\ stood[c.user][c.role] \in 0..Long
        /\ held'[c.user][c.role] \in 0..Long
        /\ held'[c.user][c.role] <= held[c.user][c.role] + 1
        /\ stood'[c.user][c.role] \in 0..Long
        /\ stood'[c.user][c.role] <= stood[c.user][c.role] + 1
    BY <1>2, <1>4, <2>4
  <2>6. Fresh(d, held', stood')
    BY <2>2, <2>3, <2>4, <2>5, Present DEF Fresh
  <2>7. QED
    BY <2>6 DEF d
<1>11. QED
  BY <1>8, <1>9, <1>10, StaleIsFresh DEF MemInv

\* The founder alone, without invites, cookies or pages.
LEMMA MemInitInv == MemInit => MemInv
<1> SUFFICES ASSUME MemInit PROVE MemInv
  OBVIOUS
<1>1. PICK founder \in Users :
        /\ member = [u \in Users |->
             IF u = founder THEN [role |-> "owner", disabled |-> FALSE] ELSE None]
        /\ held = [u \in Users |-> [r \in Roles |->
             IF u = founder /\ r = "owner" THEN 0 ELSE Long]]
        /\ stood = held
  BY DEF MemInit
<1>2. [role |-> "owner", disabled |-> FALSE] \in Seat /\ [role |-> "owner", disabled |-> FALSE] # None
  BY Present DEF Seat, Roles
<1>3. MemTypeOK
  BY <1>1, <1>2, Present DEF MemInit, MemTypeOK
<1>4. NamedNow
  BY <1>1, <1>2 DEF NamedNow, HoldsIn, StandsIn
<1>5. QED
  BY <1>3, <1>4 DEF MemInv, RoleStaleAtMost, MemInit

\* An operation that changes the rows and leaves the cookies.
LEMMA RowsChange ==
  ASSUME MemInv, NEW m \in [Users -> Seat \union {None}], Seats(m),
         UNCHANGED <<cookie, page>>,
         invite' \in Roles \union {None},
         accepting' \in [Users -> Roles \union {None}]
  PROVE  MemInv'
<1>1. /\ member' \in [Users -> Seat \union {None}]
      /\ held' \in Hours /\ stood' \in Hours
      /\ NamedNow' /\ NotLonger
  BY SeatsStep DEF MemInv
<1>2. RoleStaleAtMost'
  BY <1>1, RowsOnly
<1>3. QED
  BY <1>1, <1>2 DEF MemInv, MemTypeOK, Hours

\* One that leaves the rows and the cookies.
LEMMA Kept ==
  ASSUME MemInv, SameSeats, UNCHANGED cookie,
         invite' \in Roles \union {None},
         accepting' \in [Users -> Roles \union {None}],
         page' \in [Pages -> View \union {None}]
  PROVE  MemInv'
<1>1. /\ member' \in [Users -> Seat \union {None}]
      /\ held' \in Hours /\ stood' \in Hours
      /\ NamedNow' /\ NotLonger
  BY SameSeatsStep
<1>2. RoleStaleAtMost'
  BY <1>1, RowsOnly
<1>3. QED
  BY <1>1, <1>2 DEF MemInv, MemTypeOK, Hours

\* The members page and its actions.
LEMMA PagesStep ==
  ASSUME MemInv, NEW p \in Pages,
         \/ \E b \in Browsers : OpenPage(p, b)
         \/ \E r \in Roles : InviteMember(p, r)
         \/ \E u \in Users : RemoveMember(p, u) \/ \E r \in Roles : ChangeMemberRole(p, u, r)
  PROVE  MemInv'
<1>1. MemTypeOK
  BY DEF MemInv
<1>2. ASSUME NEW b \in Browsers, OpenPage(p, b) PROVE MemInv'
  <2>1. [rows |-> {u \in Users \ {cookie[b].user} :
                     member[u] # None /\ member[u].role # "owner"}] \in View
    BY DEF View
  <2>2. page' \in [Pages -> View \union {None}]
    BY <1>1, <1>2, <2>1 DEF OpenPage, MemTypeOK
  <2>3. QED
    BY <1>1, <1>2, <2>2, Kept DEF OpenPage, MemTypeOK
<1>3. ASSUME NEW r \in Roles, InviteMember(p, r) PROVE MemInv'
  BY <1>1, <1>3, Kept DEF InviteMember, MemTypeOK
<1>4. ASSUME NEW u \in Users, RemoveMember(p, u) PROVE MemInv'
  <2> DEFINE m == [member EXCEPT ![u] = None]
  <2>1. m \in [Users -> Seat \union {None}]
    BY <1>1, SeatTypes
  <2>2. Seats(m) /\ UNCHANGED <<invite, accepting, cookie, page>>
    BY <1>4 DEF RemoveMember
  <2> HIDE DEF m
  <2>3. QED
    BY <1>1, <2>1, <2>2, RowsChange DEF MemTypeOK
<1>5. ASSUME NEW u \in Users, NEW r \in Roles, ChangeMemberRole(p, u, r) PROVE MemInv'
  <2> DEFINE m == [member EXCEPT ![u].role = r]
  <2>1. m \in [Users -> Seat \union {None}]
    BY <1>1, <1>5, SeatTypes DEF ChangeMemberRole
  <2>2. Seats(m) /\ UNCHANGED <<invite, accepting, cookie, page>>
    BY <1>5 DEF ChangeMemberRole
  <2> HIDE DEF m
  <2>3. QED
    BY <1>1, <2>1, <2>2, RowsChange DEF MemTypeOK
<1>6. QED
  BY <1>2, <1>3, <1>4, <1>5

\* The rows that change without a page: transfers, invites and the directory.
LEMMA RowsStep ==
  ASSUME MemInv, NEW u \in Users,
         \/ \E v \in Users \ {u} : TransferOwnership(u, v)
         \/ ReadInvite(u) \/ JoinWorkspace(u) \/ Deactivate(u)
  PROVE  MemInv'
<1>1. MemTypeOK
  BY DEF MemInv
<1>2. ASSUME NEW v \in Users \ {u}, TransferOwnership(u, v) PROVE MemInv'
  <2> DEFINE stepped == IF member[u] = None THEN member ELSE [member EXCEPT ![u].role = "admin"]
             m == IF member[v] = None THEN stepped ELSE [stepped EXCEPT ![v].role = "owner"]
  <2>1. stepped \in [Users -> Seat \union {None}] /\ stepped[v] = member[v]
    <3>1. "admin" \in Roles
      BY DEF Roles
    <3>2. stepped[v] = member[v]
      BY <1>1 DEF MemTypeOK
    <3>3. QED
      BY <1>1, <3>1, <3>2, SeatTypes DEF MemTypeOK
  <2>2. member[v] # None => [stepped[v] EXCEPT !.role = "owner"] \in Seat
    <3>1. member[v] # None => member[v] \in Seat
      BY <1>1 DEF MemTypeOK
    <3>2. QED
      BY <2>1, <3>1 DEF Seat, Roles
  <2>3. m \in [Users -> Seat \union {None}]
    <3> HIDE DEF stepped
    <3> QED BY <2>1, <2>2
  <2>4. Seats(m) /\ UNCHANGED <<invite, accepting, cookie, page>>
    BY <1>2 DEF TransferOwnership
  <2> HIDE DEF m
  <2>5. QED
    BY <1>1, <2>3, <2>4, RowsChange DEF MemTypeOK
<1>3. CASE ReadInvite(u)
  BY <1>1, <1>3, Kept DEF ReadInvite, MemTypeOK
<1>4. CASE JoinWorkspace(u)
  <2>1. accepting[u] \in Roles
    BY <1>1, <1>4 DEF JoinWorkspace, MemTypeOK
  <2>2. accepting' \in [Users -> Roles \union {None}] /\ UNCHANGED <<cookie, page>>
    BY <1>1, <1>4 DEF JoinWorkspace, MemTypeOK
  <2>3. CASE member[u] = None
    <3> DEFINE m == [member EXCEPT ![u] = [role |-> accepting[u], disabled |-> FALSE]]
    <3>1. m \in [Users -> Seat \union {None}]
      BY <1>1, <2>1, SeatTypes
    <3>2. Seats(m) /\ invite' = None
      BY <1>4, <2>3 DEF JoinWorkspace
    <3> HIDE DEF m
    <3>3. QED
      BY <2>2, <3>1, <3>2, RowsChange
  <2>4. CASE member[u] # None
    <3>1. SameSeats /\ UNCHANGED invite
      BY <1>4, <2>4 DEF JoinWorkspace
    <3>2. QED
      BY <1>1, <2>2, <3>1, Kept DEF MemTypeOK
  <2>5. QED
    BY <2>3, <2>4
<1>5. CASE Deactivate(u)
  <2> DEFINE m == [member EXCEPT ![u].disabled = TRUE]
  <2>1. m \in [Users -> Seat \union {None}]
    BY <1>1, <1>5, SeatTypes DEF Deactivate
  <2>2. Seats(m) /\ UNCHANGED <<invite, accepting, cookie, page>>
    BY <1>5 DEF Deactivate
  <2> HIDE DEF m
  <2>3. QED
    BY <1>1, <2>1, <2>2, RowsChange DEF MemTypeOK
<1>6. QED
  BY <1>2, <1>3, <1>4, <1>5

\* The routes that ask for an enabled row.
LEMMA MemberSigned ==
  ASSUME MemInv, NEW b \in Browsers, NEW u \in Users, NEW h \in {CookieHours, StaffHours},
         SignMember(b, u, h)
  PROVE  MemInv'
<1>1. member[u] \in Seat /\ member[u].role \in Roles /\ HoldsIn(member, u, member[u].role)
  BY DEF MemInv, MemTypeOK, Seat, SignMember, HoldsIn, StandsIn
<1>2. /\ member' \in [Users -> Seat \union {None}]
      /\ held' \in Hours /\ stood' \in Hours
      /\ NamedNow' /\ NotLonger
  BY SameSeatsStep DEF SignMember
<1>3. held'[u][member[u].role] = 0
  BY <1>1 DEF MemInv, NamedNow, SignMember, SameSeats
<1>4. SetCookie(b, u, member[u].role, "member", h)
  BY DEF SignMember
<1>5. cookie' \in [Browsers -> Jwt \union {None}] /\ RoleStaleAtMost'
  BY <1>1, <1>2, <1>3, <1>4, Signed
<1>6. QED
  BY <1>2, <1>5 DEF MemInv, MemTypeOK, SignMember, Hours

\* Those that see to it that there is a row.
LEMMA EnsuredSigned ==
  ASSUME MemInv, NEW b \in Browsers, NEW u \in Users, NEW r \in Roles, NEW by \in {"row", "admin"},
         Seats(Ensured(u)), SetCookie(b, u, r, by, CookieHours),
         UNCHANGED <<invite, accepting, page>>,
         by = "row" => r = Ensured(u)[u].role,
         by = "admin" => u \in Admins /\ r = "owner"
  PROVE  MemInv'
<1>1. Ensured(u) \in [Users -> Seat \union {None}] /\ Ensured(u)[u] \in Seat
  BY SeatTypes DEF MemInv
<1>2. /\ member' \in [Users -> Seat \union {None}]
      /\ held' \in Hours /\ stood' \in Hours
      /\ NamedNow' /\ NotLonger
  BY <1>1, SeatsStep DEF MemInv
<1>3. ASSUME by = "row" PROVE stood'[u][r] = 0
  <2>1. StandsIn(Ensured(u), u, r)
    BY <1>1, <1>3, Present DEF StandsIn
  <2>2. StandsIn(Ensured(u), u, r) => stood'[u][r] = 0
    BY DEF Seats
  <2>3. QED
    BY <2>1, <2>2
<1>4. cookie' \in [Browsers -> Jwt \union {None}] /\ RoleStaleAtMost'
  BY <1>2, <1>3, Signed
<1>5. QED
  BY <1>2, <1>4 DEF MemInv, MemTypeOK, Hours

\* The sign-ins, each of which signs a token.
LEMMA CookieStep ==
  ASSUME MemInv, NEW b \in Browsers, NEW u \in Users,
         \/ SwitchWorkspace(b, u) \/ LandInWorkspace(b, u) \/ DemoLogin(b, u)
         \/ DevLogin(b, u) \/ AdminEnters(b, u) \/ Impersonate(b, u)
  PROVE  MemInv'
<1>1. CASE SwitchWorkspace(b, u)
  BY <1>1, MemberSigned DEF SwitchWorkspace
<1>2. CASE LandInWorkspace(b, u)
  BY <1>2, MemberSigned DEF LandInWorkspace
<1>3. CASE Impersonate(b, u)
  BY <1>3, MemberSigned DEF Impersonate
<1>4. CASE DemoLogin(b, u)
  <2>1. Ensured(u)[u] \in Seat
    BY SeatTypes DEF MemInv
  <2>2. Ensured(u)[u].role \in Roles
    BY <2>1 DEF Seat
  <2>3. QED
    BY <1>4, <2>2, EnsuredSigned DEF DemoLogin
<1>5. CASE AdminEnters(b, u)
  <2>1. "owner" \in Roles
    BY DEF Roles
  <2>2. QED
    BY <1>5, <2>1, EnsuredSigned DEF AdminEnters
<1>6. CASE DevLogin(b, u)
  <2>1. member[u] \in Seat /\ member[u].role \in Roles /\ StandsIn(member, u, member[u].role)
    BY <1>6 DEF MemInv, MemTypeOK, Seat, DevLogin, StandsIn
  <2>2. /\ member' \in [Users -> Seat \union {None}]
        /\ held' \in Hours /\ stood' \in Hours
        /\ NamedNow' /\ NotLonger
    BY <1>6, SameSeatsStep DEF DevLogin
  <2>3. stood'[u][member[u].role] = 0
    BY <1>6, <2>1 DEF MemInv, NamedNow, DevLogin, SameSeats
  <2>4. SetCookie(b, u, member[u].role, "row", CookieHours)
    BY <1>6 DEF DevLogin
  <2>5. cookie' \in [Browsers -> Jwt \union {None}] /\ RoleStaleAtMost'
    BY <2>1, <2>2, <2>3, <2>4, Signed
  <2>6. QED
    BY <1>6, <2>2, <2>5 DEF MemInv, MemTypeOK, DevLogin, Hours
<1>7. QED
  BY <1>1, <1>2, <1>3, <1>4, <1>5, <1>6

\* Every step keeps the invariant.
LEMMA MemStep == MemInv /\ [MemNext]_memVars => MemInv'
<1> SUFFICES ASSUME MemInv, [MemNext]_memVars PROVE MemInv'
  OBVIOUS
<1>1. MemTypeOK
  BY DEF MemInv
<1>2. CASE InviteExpires
  BY <1>1, <1>2, Kept DEF InviteExpires, MemTypeOK
<1>3. ASSUME NEW b \in Browsers, DropCookie(b) PROVE MemInv'
  <2>1. /\ member' \in [Users -> Seat \union {None}]
        /\ held' \in Hours /\ stood' \in Hours
        /\ NamedNow'
    BY <1>3, SameSeatsStep DEF DropCookie
  <2>2. /\ cookie' \in [Browsers -> Jwt \union {None}]
        /\ \A c \in Browsers : cookie'[c] = IF c = b THEN None ELSE cookie[c]
    BY <1>1, <1>3 DEF DropCookie, MemTypeOK
  <2>3. RoleStaleAtMost'
    BY <1>3, <2>2 DEF MemInv, RoleStaleAtMost, DropCookie, SameSeats
  <2>4. QED
    BY <1>1, <1>3, <2>1, <2>2, <2>3 DEF MemInv, MemTypeOK, DropCookie, Hours
<1>4. CASE UNCHANGED memVars
  BY <1>1, <1>4, Kept DEF MemTypeOK, memVars, SameSeats
<1>5. QED
  BY <1>2, <1>3, <1>4, PagesStep, RowsStep, CookieStep, HourStep DEF MemNext

\* The table, the invites, the tokens and the pages keep their types through every
\* sign-in, change of role and directory event.
THEOREM MemTypes == MemSpec => []MemTypeOK
<1>1. MemInit => MemInv
  BY MemInitInv
<1>2. MemInv /\ [MemNext]_memVars => MemInv'
  BY MemStep
<1>3. MemInv => MemTypeOK
  BY DEF MemInv
<1>4. QED
  BY <1>1, <1>2, <1>3, PTL DEF MemSpec

\* No browser carries a role that its user lost longer ago than the token is old, or,
\* from the sign-ins that ask for no more than a row, that his row ceased to name so
\* long ago; a role no row need have named is a super-admin's "owner".  So it is for
\* every lifetime, the operator's being no longer than the others: the guarantee
\* middleware.ts and the server actions rest on when they trust the role in the
\* cookie, for whichever of the eight routes signed it.
THEOREM RolesAreFresh == MemSpec => []RoleStaleAtMost
<1>1. MemInit => MemInv
  BY MemInitInv
<1>2. MemInv /\ [MemNext]_memVars => MemInv'
  BY MemStep
<1>3. MemInv => RoleStaleAtMost
  BY DEF MemInv
<1>4. QED
  BY <1>1, <1>2, <1>3, PTL DEF MemSpec
=============================================================================
