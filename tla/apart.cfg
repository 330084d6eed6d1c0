\* The endpoints that open, replace and end sessions, overlapping but apart.
SPECIFICATION ApartHistorySpec
CONSTANTS
  u1 = u1  d1 = d1  d2 = d2  p1 = p1  p2 = p2  r1 = r1  r2 = r2
  None = None
  Users = {u1}
  Devices = {d1, d2}
  Passwords = {p1}
  Requests = {r1, r2}
  Endpoints = {"signup", "login", "refresh", "logout", "logout_all", "delete_account", "expire"}
  MaxGrants = 3
  ReplyFirst = FALSE
  Confirming = {"logout", "force_logout", "reuse", "logout_all", "change_password", "delete_account"}
SYMMETRY Symmetry
INVARIANTS SingleUse IndexCoversSessions SessionsAreListed WithdrawnHoldsNoSession
PROPERTIES AllDeviceRevocationHolds EndedSessionsAreUnlisted ImplementsLedger
