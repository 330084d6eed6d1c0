\* Logout all beside a logout and a login.
SPECIFICATION Spec
CONSTANTS
  u1 = u1  d1 = d1  d2 = d2  p1 = p1  p2 = p2  r1 = r1  r2 = r2
  None = None
  Users = {u1}
  Devices = {d1, d2}
  Passwords = {p1}
  Requests = {r1, r2}
  Endpoints = {"signup", "login", "logout", "logout_all"}
  MaxGrants = 3
  ReplyFirst = FALSE
SYMMETRY Symmetry
PROPERTIES AllDeviceRevocationHolds
