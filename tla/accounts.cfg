\* Two interleaved requests on one account and every account-wide revocation.
SPECIFICATION Spec
CONSTANTS
  u1 = u1  d1 = d1  d2 = d2  p1 = p1  p2 = p2  r1 = r1  r2 = r2
  None = None
  Users = {u1}
  Devices = {d1, d2}
  Passwords = {p1, p2}
  Requests = {r1, r2}
  Endpoints = {"signup", "login", "update_me", "change_password", "delete_account", "suspend", "logout_all"}
  MaxGrants = 2
  ReplyFirst = FALSE
SYMMETRY Symmetry
INVARIANT LoginsAreRecorded
PROPERTIES AccountIsNotOverwritten AllIndexedEnd
