\* A forced logout beside a login of the same device.
SPECIFICATION Spec
CONSTANTS
  u1 = u1  d1 = d1  d2 = d2  p1 = p1  p2 = p2  r1 = r1  r2 = r2
  None = None
  Users = {u1}
  Devices = {d1, d2}
  Passwords = {p1}
  Requests = {r1, r2}
  Endpoints = {"signup", "login", "force_logout"}
  MaxGrants = 4
  ReplyFirst = FALSE
SYMMETRY Symmetry
INVARIANTS SessionsAreListed
