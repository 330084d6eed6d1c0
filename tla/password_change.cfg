\* One request at a time suffices.
SPECIFICATION Spec
CONSTANTS
  u1 = u1  d1 = d1  d2 = d2  p1 = p1  p2 = p2  r1 = r1  r2 = r2
  None = None
  Users = {u1}
  Devices = {d1}
  Passwords = {p1, p2}
  Requests = {r1}
  Endpoints = {"signup", "login", "change_password"}
  MaxGrants = 2
  ReplyFirst = FALSE
SYMMETRY Symmetry
PROPERTIES PasswordChangeRevokesAccess
