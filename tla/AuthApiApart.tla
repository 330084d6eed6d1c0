---------------------------- MODULE AuthApiApart ----------------------------
(***************************************************************************)
(* AuthApi under the clients the code is written for: requests overlap     *)
(* freely, but no two are at work on the same device of the same account.  *)
(* A login, a refresh or the revocation of one device concerns that        *)
(* device, a revocation of the whole account every device of it; signup    *)
(* and update_me concern none.  A request already turned down (its         *)
(* transaction is about to roll back) concerns nothing any more.           *)
(***************************************************************************)
EXTENDS AuthApi

Concerns(r, u, d) ==
  /\ req[r].pc \notin {"idle", "raise"}
  /\ req[r].user = u
  /\ \/ req[r].op \in {"login", "refresh"} \union DeviceWide /\ req[r].device = d
     \/ req[r].op \in AccountWide

Apart == \A u \in Users, d \in Devices :
           \A q, r \in Requests : Concerns(q, u, d) /\ Concerns(r, u, d) => q = r

\* Two requests that redeem the same refresh token at the same time.
Redeeming(r) == req[r].op = "refresh" /\ req[r].pc \in {"get_by_id", "setex"}

NoTwins == \A q, r \in Requests :
             Redeeming(q) /\ Redeeming(r) /\ req[q].grant = req[r].grant => q = r

ApartSpec == Init /\ [][Next /\ Apart']_vars

=============================================================================
