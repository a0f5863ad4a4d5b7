SPECIFICATION MemSpec
CONSTANTS
  u1 = u1
  u2 = u2
  b1 = b1
  p1 = p1
  None = None
  Users = {u1, u2}
  DemoOn = TRUE
  Admins = {u1, u2}
  Browsers = {b1}
  Pages = {p1}
  Offered = {"admin"}
  CookieHours = 2
  StaffHours = 1
INVARIANTS
  MemTypeOK
  RoleStaleAtMost
SYMMETRY Alike
