----------------------------- MODULE Identities -----------------------------
(***************************************************************************)
(* The finite domains the two stores and the endpoints share.              *)
(***************************************************************************)
CONSTANTS Users,      \* accounts: a user id is one unique email
          Devices,    \* X-Device-Id values
          Passwords,
          Requests,   \* slots for requests in flight
          None        \* no value

Statuses == {"absent", "ACTIVE", "INACTIVE", "WITHDRAWN"}

ASSUME NoneIsNoValue ==
  None \notin Users \union Devices \union Passwords \union Statuses \union {"active", "inactive"}

=============================================================================
