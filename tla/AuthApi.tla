------------------------------- MODULE AuthApi -------------------------------
(***************************************************************************)
(* The endpoints that change state, as app/services/{auth,user,device}.py  *)
(* run them over TokenStore and AccountDb.  A request occupies a slot; its *)
(* pc names the next Redis command or SQL statement it will await, so one  *)
(* action is what runs between two awaits, and the requests of several     *)
(* clients interleave there.  A request may fail at every one of them      *)
(* (error, dropped connection, crash of the worker): its transaction rolls *)
(* back, what it did to Redis stays.                                       *)
(*                                                                         *)
(* A grant is the pair of tokens one login or refresh mints; parent is the *)
(* grant whose refresh token was redeemed for it, 0 for a login.           *)
(***************************************************************************)
EXTENDS TokenStore, AccountDb, Sequences, FiniteSets

CONSTANTS Endpoints,  \* the operations enabled in this instance
          MaxGrants,  \* bound on the grants minted
          ReplyFirst  \* TRUE where FastAPI (0.118 on) sends the response before
                      \* get_db commits, FALSE where it commits first

DeviceWide == {"logout", "force_logout", "reuse"}
AccountWide == {"logout_all", "change_password", "delete_account"}
Ops == {"signup", "login", "refresh", "update_me"} \union DeviceWide \union AccountWide

ASSUME ReplyOrder == ReplyFirst \in BOOLEAN
ASSUME GrantBound == MaxGrants \in Nat

VARIABLES req,       \* the request in each slot
          grants,    \* every grant minted, in order
          delivered  \* the grants whose response reached the client

vars == <<rt, index, blacklist, row, history, txn, req, grants, delivered>>

Idle == [op |-> None, pc |-> "idle", user |-> None, device |-> None, grant |-> 0,
         minted |-> 0, members |-> {}, prior |-> {}]

Init == /\ StoreInit
        /\ DbInit
        /\ req = [r \in Requests |-> Idle]
        /\ grants = << >>
        /\ delivered = {}

-----------------------------------------------------------------------------
At(r, pc) == req[r].pc = pc

Stored(n) == n = rt[grants[n].user][grants[n].device]

\* The sessions clients already held, of those a revocation is asked to end.
Established(op, u, d) ==
  {n \in delivered : /\ grants[n].user = u
                     /\ op \in AccountWide \/ (op \in DeviceWide /\ grants[n].device = d)}

\* A request for user u and device d enters slot r, showing a token of grant n.
Enter(r, op, u, d, n, pc) ==
  /\ At(r, "idle")
  /\ req' = [req EXCEPT ![r] =
       [op |-> op, pc |-> pc, user |-> u, device |-> d, grant |-> n,
        minted |-> 0, members |-> {}, prior |-> Established(op, u, d)]]
  /\ UNCHANGED <<grants, delivered>>

Goto(r, pc) == /\ req' = [req EXCEPT ![r].pc = pc]
               /\ UNCHANGED <<grants, delivered>>

\* After the service method returns: the response and the commit of get_db.
Returned == IF ReplyFirst THEN "reply" ELSE "commit"

Leave(r) == req' = [req EXCEPT ![r] = Idle]

\* Room for the grants the requests in flight may still mint.
Room == Len(grants)
        + Cardinality({r \in Requests : req[r].op \in {"login", "refresh"} /\ req[r].minted = 0})
        < MaxGrants

-----------------------------------------------------------------------------
(***************************************************************************)
(* signup: email_exists, then the INSERT, whose IntegrityError (the email  *)
(* column is unique, withdrawn accounts included) is the same rejection.   *)
(***************************************************************************)
Signup(r, u, p) ==
  /\ "signup" \in Endpoints
  /\ ~Found(row[u])
  /\ Enter(r, "signup", u, None, 0, "insert_user")
  /\ txn' = [txn EXCEPT ![r] =
       [BlankTxn EXCEPT !.user = u, !.put = [NoPut EXCEPT !.status = "ACTIVE", !.pwd = p]]]
  /\ UNCHANGED <<storeVars, row, history>>

\* Slip: an INSERT ... ON DUPLICATE KEY UPDATE, which needs no IntegrityError.
InsertOrUpdate(r) ==
  /\ At(r, "insert_user")
  /\ Flush(r, {"user"}, txn[r].put)
  /\ Goto(r, Returned)
  /\ UNCHANGED <<storeVars, row, history>>

InsertUser(r) ==
  /\ At(r, "insert_user")
  /\ Flush(r, {"user"}, txn[r].put)
  /\ Goto(r, IF row[req[r].user].status = "absent" THEN Returned ELSE "raise")
  /\ UNCHANGED <<storeVars, row, history>>

(***************************************************************************)
(* login: get_by_email and the password check, then either the failure row *)
(* and a raise, a 403 for a suspended account, or the session.             *)
(***************************************************************************)
Login(r, u, d, p) ==
  LET valid == Found(row[u]) /\ row[u].pwd = p
      begun == [BlankTxn EXCEPT !.user = u, !.seen = row[u]]
  IN /\ "login" \in Endpoints
     /\ \/ /\ ~valid
           /\ Enter(r, "login", u, d, 0, "raise")
           /\ txn' = [txn EXCEPT ![r] = [begun EXCEPT !.rows = {0}]]
        \/ /\ valid /\ row[u].status = "INACTIVE"
           /\ Enter(r, "login", u, d, 0, "raise")
           /\ txn' = [txn EXCEPT ![r] = begun]
        \/ /\ valid /\ row[u].status = "ACTIVE" /\ Room
           /\ Enter(r, "login", u, d, 0, "upsert_device")
           /\ txn' = [txn EXCEPT ![r] = begun]
     /\ UNCHANGED <<storeVars, row, history>>

\* INSERT of a device the snapshot has not, which a row committed since then
\* fails with an IntegrityError nobody handles; otherwise UPDATE.
UpsertDevice(r) ==
  LET u == req[r].user  d == req[r].device  new == txn[r].seen.device[d] = "absent"
  IN /\ At(r, "upsert_device")
     /\ Flush(r, IF new THEN {d, "fk"} ELSE {d},
              [txn[r].put EXCEPT !.device = Assign(r, {d}, "active")])
     /\ Goto(r, IF new /\ row[u].device[d] # "absent" THEN "raise" ELSE "update_last_login")
     /\ UNCHANGED <<storeVars, row, history>>

UpdateLastLogin(r) ==
  /\ At(r, "update_last_login")
  /\ Flush(r, {"user"}, txn[r].put)
  /\ Goto(r, "setex")
  /\ UNCHANGED <<storeVars, row, history>>

(***************************************************************************)
(* refresh: GET decides between a session that is gone, the reuse of a     *)
(* rotated token (the device's session is deleted) and a rotation.         *)
(***************************************************************************)
\* Slip: any stored token will do, the jti is not compared.
RefreshAnyStored(r, n) ==
  LET u == grants[n].user  d == grants[n].device
  IN /\ "refresh" \in Endpoints
     /\ n \in delivered
     /\ rt[u][d] # 0 /\ Room
     /\ Enter(r, "refresh", u, d, n, "get_by_id")
     /\ UNCHANGED <<storeVars, dbVars>>

Refresh(r, n) ==
  LET u == grants[n].user  d == grants[n].device
  IN /\ "refresh" \in Endpoints
     /\ n \in delivered
     /\ \/ rt[u][d] = n /\ Room /\ Enter(r, "refresh", u, d, n, "get_by_id")
        \/ rt[u][d] \notin {0, n} /\ Enter(r, "reuse", u, d, n, "del")
     /\ UNCHANGED <<storeVars, dbVars>>

(***************************************************************************)
(* Endpoints behind get_current_user: the access token of grant n passes   *)
(* when it is not blacklisted; no row is read.                             *)
(***************************************************************************)
Authenticated(r, op, n, d, pc) ==
  /\ op \in Endpoints
  /\ n \in delivered \ blacklist
  /\ Enter(r, op, grants[n].user, d, n, pc)
  /\ UNCHANGED <<storeVars, dbVars>>

Logout(r, n) == Authenticated(r, "logout", n, grants[n].device, "blacklist")
LogoutAll(r, n) == Authenticated(r, "logout_all", n, None, "blacklist")
UpdateMe(r, n) == Authenticated(r, "update_me", n, None, "get_by_id")
ChangePassword(r, n) == Authenticated(r, "change_password", n, None, "get_by_id")
DeleteAccount(r, n) == Authenticated(r, "delete_account", n, None, "get_by_id")
ForceLogout(r, n, d) == /\ Authenticated(r, "force_logout", n, d, "find_device")
                        /\ d # grants[n].device

\* Turned away at the first read, nothing changed: an email in use, a session
\* that is gone from the store, a blacklisted access token.
TurnedAway(r) ==
  /\ At(r, "idle")
  /\ \/ "signup" \in Endpoints /\ \E u \in Users : Found(row[u])
     \/ "refresh" \in Endpoints /\ \E n \in delivered : rt[grants[n].user][grants[n].device] = 0
     \/ delivered \intersect blacklist # {}
  /\ UNCHANGED vars

-----------------------------------------------------------------------------
(***************************************************************************)
(* Steps of the requests in flight, on Redis.                              *)
(***************************************************************************)
\* Minting is local to the process: the pair exists once it is stored.
\* Slip: a refresh stores the token it was shown, with a new TTL.
SetexShown(r) ==
  LET u == req[r].user  d == req[r].device  n == Len(grants) + 1
  IN /\ At(r, "setex")
     /\ grants' = Append(grants, [user |-> u, device |-> d, parent |-> req[r].grant])
     /\ Setex(u, d, IF req[r].grant = 0 THEN n ELSE req[r].grant)
     /\ req' = [req EXCEPT ![r].pc = "sadd", ![r].minted = n]
     /\ UNCHANGED <<dbVars, delivered>>

SetexToken(r) ==
  LET u == req[r].user  d == req[r].device  n == Len(grants) + 1
  IN /\ At(r, "setex")
     /\ grants' = Append(grants, [user |-> u, device |-> d, parent |-> req[r].grant])
     /\ Setex(u, d, n)
     /\ req' = [req EXCEPT ![r].pc = "sadd", ![r].minted = n]
     /\ UNCHANGED <<dbVars, delivered>>

\* A login then adds its history row, under the lock it has on the users row.
SaddDevice(r) ==
  /\ At(r, "sadd")
  /\ Sadd(req[r].user, req[r].device)
  /\ Goto(r, Returned)
  /\ txn' = [txn EXCEPT ![r].rows =
       IF req[r].op = "login" THEN {req[r].minted} ELSE {}]
  /\ UNCHANGED <<row, history>>

\* Slip: logout trusts the blacklist and leaves the refresh token.
BlacklistOnly(r) ==
  /\ At(r, "blacklist")
  /\ BlacklistToken(req[r].grant)
  /\ Goto(r, IF req[r].op = "logout" THEN "find_device" ELSE "smembers")
  /\ UNCHANGED dbVars

Blacklist(r) ==
  /\ At(r, "blacklist")
  /\ BlacklistToken(req[r].grant)
  /\ Goto(r, IF req[r].op = "logout" THEN "del" ELSE "smembers")
  /\ UNCHANGED dbVars

DelToken(r) == /\ At(r, "del")
               /\ Del(req[r].user, req[r].device)
               /\ Goto(r, "srem")
               /\ UNCHANGED dbVars

SremDevice(r) ==
  /\ At(r, "srem")
  /\ Srem(req[r].user, req[r].device)
  /\ Goto(r, CASE req[r].op = "reuse" -> "raise"
               [] req[r].op = "logout" -> "find_device"
               [] OTHER -> "deactivate")
  /\ UNCHANGED dbVars

Smembers(r) == /\ At(r, "smembers")
               /\ req' = [req EXCEPT ![r].pc = "delete_all", ![r].members = index[req[r].user]]
               /\ UNCHANGED <<storeVars, dbVars, grants, delivered>>

DeleteAllTokens(r) ==
  /\ At(r, "delete_all")
  /\ DeleteAll(req[r].user, req[r].members)
  /\ Goto(r, IF req[r].op = "logout_all" THEN "find_devices" ELSE "deactivate")
  /\ UNCHANGED dbVars

-----------------------------------------------------------------------------
(***************************************************************************)
(* Steps of the requests in flight, on the database.                       *)
(***************************************************************************)
\* get_by_id loads the user and (selectin) the devices: the first SELECT.
GetById(r) ==
  LET u == req[r].user
  IN /\ At(r, "get_by_id")
     /\ Begin(r, u)
     /\ Goto(r, IF ~Found(row[u]) THEN "raise"
                ELSE IF req[r].op = "refresh" THEN "setex" ELSE "write_user")
     /\ UNCHANGED <<storeVars, row, history>>

\* The password of the body: one that does not verify, or a new password
\* equal to the current one, raises and writes nothing.
WriteUser(r) ==
  /\ At(r, "write_user")
  /\ \/ req[r].op # "update_me" /\ Goto(r, "raise") /\ UNCHANGED txn
     \/ req[r].op = "update_me" /\ Flush(r, {"user"}, txn[r].put) /\ Goto(r, Returned)
     \/ /\ req[r].op = "delete_account"
        /\ Flush(r, {"user"}, [txn[r].put EXCEPT !.status = "WITHDRAWN"])
        /\ Goto(r, "smembers")
     \/ /\ req[r].op = "change_password"
        /\ \E p \in Passwords \ {txn[r].seen.pwd} :
             Flush(r, {"user"}, [txn[r].put EXCEPT !.pwd = p])
        /\ Goto(r, "smembers")
  /\ UNCHANGED <<storeVars, row, history>>

\* get_by_user_and_device of deactivate_device, of force_logout_device before.
FindDevice(r) ==
  LET u == req[r].user  found == row[u].device[req[r].device]
  IN /\ At(r, "find_device")
     /\ Begin(r, u)
     /\ \/ /\ req[r].op = "logout"
           /\ Goto(r, IF found = "absent" THEN Returned ELSE "deactivate")
        \/ /\ req[r].op = "force_logout"
           /\ Goto(r, IF found = "active" THEN "del" ELSE "raise")
     /\ UNCHANGED <<storeVars, row, history>>

\* get_active_devices of deactivate_all_devices, when no SELECT came before.
FindDevices(r) == /\ At(r, "find_devices")
                  /\ Begin(r, req[r].user)
                  /\ Goto(r, "deactivate")
                  /\ UNCHANGED <<storeVars, row, history>>

\* The rows deactivate_device or deactivate_all_devices flushes.
\* Slip: every active device, whatever the endpoint.
DeactivatedAll(r) == {d \in Devices : txn[r].seen.device[d] = "active"}

\* Slip: an account-wide revocation leaves the device rows as they are.
DeactivatedOwn(r) == IF req[r].op \in AccountWide THEN {} ELSE {req[r].device}

Deactivated(r) == IF req[r].op \in AccountWide
                  THEN {d \in Devices : txn[r].seen.device[d] = "active"}
                  ELSE {req[r].device}

Deactivate(r) ==
  /\ At(r, "deactivate")
  /\ Flush(r, Deactivated(r),
           [txn[r].put EXCEPT !.device = Assign(r, Deactivated(r), "inactive")])
  /\ Goto(r, Returned)
  /\ UNCHANGED <<storeVars, row, history>>

-----------------------------------------------------------------------------
(***************************************************************************)
(* How a request ends.                                                     *)
(***************************************************************************)
\* get_db commits.
Commit(r) == /\ At(r, "commit")
             /\ CommitTxn(r)
             /\ IF ReplyFirst THEN Leave(r) /\ UNCHANGED <<grants, delivered>>
                              ELSE Goto(r, "reply")
             /\ UNCHANGED storeVars

\* The success response reaches the client, with the tokens minted if any.
Reply(r) == /\ At(r, "reply")
            /\ delivered' = delivered \union ({req[r].minted} \ {0})
            /\ IF ReplyFirst THEN req' = [req EXCEPT ![r].pc = "commit"] ELSE Leave(r)
            /\ UNCHANGED <<storeVars, dbVars, grants>>

\* An AppException (or an IntegrityError nobody caught): get_db rolls back,
\* the handler of app/exceptions/handlers.py answers with the error.
Raise(r) == /\ At(r, "raise")
            /\ RollbackTxn(r)
            /\ Leave(r)
            /\ UNCHANGED <<storeVars, grants, delivered>>

\* Anything else that ends a request early: Redis or the database failing, a
\* lock wait that times out or is chosen as deadlock victim, a crash of the
\* worker, a response that gets lost.  A commit that raises although it took
\* effect, its acknowledgement lost, is a Commit and then a Fail.
Fail(r) == /\ ~At(r, "idle")
           /\ RollbackTxn(r)
           /\ Leave(r)
           /\ UNCHANGED <<storeVars, grants, delivered>>

-----------------------------------------------------------------------------
Start(r) ==
  \/ \E u \in Users, p \in Passwords : Signup(r, u, p)
  \/ \E u \in Users, d \in Devices, p \in Passwords : Login(r, u, d, p)
  \/ \E n \in 1..MaxGrants : \/ Refresh(r, n)
                             \/ Logout(r, n)
                             \/ LogoutAll(r, n)
                             \/ UpdateMe(r, n)
                             \/ ChangePassword(r, n)
                             \/ DeleteAccount(r, n)
                             \/ \E d \in Devices : ForceLogout(r, n, d)
  \/ TurnedAway(r)

Step(r) == \/ InsertUser(r) \/ UpsertDevice(r) \/ UpdateLastLogin(r) \/ WriteUser(r)
           \/ GetById(r) \/ FindDevice(r) \/ FindDevices(r) \/ Deactivate(r)
           \/ SetexToken(r) \/ SaddDevice(r) \/ Blacklist(r) \/ DelToken(r)
           \/ SremDevice(r) \/ Smembers(r) \/ DeleteAllTokens(r)
           \/ Commit(r) \/ Reply(r) \/ Raise(r)

\* What happens to the stores without a request: a TTL runs out, an operator
\* suspends or reinstates an account.
Expire(u, d) == /\ "expire" \in Endpoints
                /\ RtExpire(u, d)
                /\ UNCHANGED <<dbVars, req, grants, delivered>>

Suspend(u) == /\ "suspend" \in Endpoints
              /\ \/ SetStatus(u, "ACTIVE", "INACTIVE")
                 \/ SetStatus(u, "INACTIVE", "ACTIVE")
              /\ UNCHANGED <<storeVars, req, grants, delivered>>

Next == \/ \E r \in Requests : Start(r) \/ Step(r) \/ Fail(r)
        \/ \E u \in Users, d \in Devices : Expire(u, d)
        \/ \E u \in Users : Suspend(u)

Spec == Init /\ [][Next]_vars

(***************************************************************************)
(* Fairness: Redis, the database and the event loop serve every step; row  *)
(* locks are granted in the order they were asked for, so a request is not *)
(* overtaken for ever; and InnoDB ends every other wait, with the victim   *)
(* of a deadlock at once, with innodb_lock_wait_timeout otherwise.         *)
(***************************************************************************)
Wanted(r) ==
  CASE At(r, "upsert_device") -> {req[r].device} \union
                                 (IF txn[r].seen.device[req[r].device] = "absent" THEN {"fk"} ELSE {})
    [] At(r, "deactivate") -> Deactivated(r)
    [] OTHER -> {"user"}

LockStep(r) == InsertUser(r) \/ UpsertDevice(r) \/ UpdateLastLogin(r) \/ WriteUser(r) \/ Deactivate(r)

LockPcs == {"insert_user", "upsert_device", "update_last_login", "write_user", "deactivate"}

\* Slip: no lock wait ever times out.
WaitForEver(r) == FALSE /\ Fail(r)

LockWaitEnds(r) == req[r].pc \in LockPcs /\ ~CanLock(r, Wanted(r)) /\ Fail(r)

FairSpec == /\ Spec
            /\ \A r \in Requests : /\ WF_vars(Step(r))
                                  /\ SF_vars(LockStep(r))
                                  /\ WF_vars(LockWaitEnds(r))

-----------------------------------------------------------------------------
(***************************************************************************)
(* Properties.                                                             *)
(***************************************************************************)
Pcs == {"idle", "insert_user", "upsert_device", "update_last_login", "setex", "sadd",
        "get_by_id", "write_user", "find_device", "find_devices", "deactivate",
        "blacklist", "del", "srem", "smembers", "delete_all", "commit", "reply", "raise"}

Request == [op : Ops \union {None}, pc : Pcs, user : Users \union {None},
            device : Devices \union {None}, grant : Nat, minted : Nat,
            members : SUBSET Devices, prior : SUBSET Nat]

Grant == [user : Users, device : Devices, parent : Nat]

RowType == [status : Statuses, pwd : Passwords \union {None}, device : [Devices -> DeviceStates]]
PutType == [status : Statuses \union {None}, pwd : Passwords \union {None},
            device : [Devices -> {"active", "inactive", None}]]
TxnType == [user : Users \union {None}, seen : RowType, put : PutType,
            locks : SUBSET (Devices \union {"user", "fk"}), rows : SUBSET Nat]

StoreTypeOK == /\ rt \in [Users -> [Devices -> 0..Len(grants)]]
               /\ index \in [Users -> SUBSET Devices]
               /\ blacklist \subseteq 1..Len(grants)
DbTypeOK == /\ row \in [Users -> RowType]
            /\ history \subseteq 0..Len(grants)
            /\ txn \in [Requests -> TxnType]
ApiTypeOK == /\ req \in [Requests -> Request]
             /\ grants \in Seq(Grant)
             /\ delivered \subseteq 1..Len(grants)

\* Every variable holds a value of its type, and the stores, the histories and
\* the clients hold tokens of minted grants only.
TypeOK == StoreTypeOK /\ DbTypeOK /\ ApiTypeOK

\* When the answer to a revocation of one device leaves the server (logout,
\* force logout, or the 401 that punishes the reuse of a rotated token), no
\* refresh token the device held when the request came in is still stored, and
\* the access token of a logout is blacklisted, but in the last second of its
\* life (see BlacklistToken); whatever ran in between.
DeviceRevocationStep ==
  \A r \in Requests :
    req[r].op \in DeviceWide /\ (Reply(r) \/ (Raise(r) /\ req[r].op = "reuse")) =>
      /\ \A n \in req[r].prior : ~Stored(n)'
      /\ req[r].op = "logout" => req[r].grant \in blacklist'

DeviceRevocationHolds == [][DeviceRevocationStep]_vars

\* A refresh token a client holds and the store has dropped (rotated, revoked,
\* expired) is never stored again: no request in flight brings it back.
RevokedStaysDeadStep == \A n \in delivered : Stored(n)' => Stored(n)

RevokedStaysDead == [][RevokedStaysDeadStep]_vars

\* Once a client has the successor of a grant, the refresh token that was
\* redeemed for it is dead, even if other refreshes of it are in flight.
RotatedTokenIsDead ==
  \A n \in delivered : grants[n].parent # 0 => ~Stored(grants[n].parent)

\* A transaction never writes back what it merely read: a withdrawn account
\* stays withdrawn under the update_me, login or change_password that was in
\* flight, only a suspension changes ACTIVE and INACTIVE, and a stored password
\* changes by the commit of a change_password alone: the signups that race past
\* email_exists set it once, on an account that has none.
AccountStep ==
  \A u \in Users :
    /\ row[u].status # row'[u].status =>
         \/ row[u].status = "absent" /\ row'[u].status = "ACTIVE"
         \/ row[u].status \in {"ACTIVE", "INACTIVE"} /\ row'[u].status = "WITHDRAWN"
         \/ Suspend(u)
    /\ row[u].pwd # row'[u].pwd =>
         \E r \in Requests : /\ Commit(r) /\ req[r].user = u
                            /\ \/ req[r].op = "change_password"
                               \/ req[r].op = "signup" /\ row[u].pwd = None

AccountIsNotOverwritten == [][AccountStep]_vars

\* A login whose tokens reached the client is in login_histories, although the
\* tokens are in Redis before the transaction of its row commits, which may fail.
LoginsAreRecorded == \A n \in delivered : grants[n].parent = 0 => n \in history

\* A login turned down for its credentials is in login_histories when it is
\* answered: login creates the row, success=False, before it raises.
FailedLoginsAreRecorded ==
  [][\A r \in Requests : Raise(r) /\ txn[r].rows = {0} => 0 \in history']_vars

\* One refresh token buys one grant.
SingleUse == \A m, n \in 1..Len(grants) :
  m # n /\ grants[m].parent = grants[n].parent => grants[m].parent = 0

\* When "logout all", a password change or an account deletion is answered, no
\* refresh token the account's clients held when it came in is still stored.
AllDeviceRevocationHolds ==
  [][\A r \in Requests : Reply(r) /\ req[r].op \in AccountWide =>
       \A n \in req[r].prior : ~Stored(n)']_vars

\* Whatever overlaps it, an answered account-wide revocation ended every session its
\* clients held when it came in and whose device SMEMBERS returned to it: only a
\* session that is out of the index escapes delete_all_refresh_tokens.
AllIndexedEndStep ==
  \A r \in Requests : Reply(r) /\ req[r].op \in AccountWide =>
    \A n \in req[r].prior : grants[n].device \in req[r].members => ~Stored(n)'

AllIndexedEnd == [][AllIndexedEndStep]_vars

\* Every refresh token a client holds is reachable from the device index, the
\* set delete_all_refresh_tokens walks.
IndexCoversSessions ==
  \A n \in delivered : Stored(n) => grants[n].device \in index[grants[n].user]

\* Every session a client can refresh is a device of the list GET
\* /users/me/devices shows, hence one DELETE /users/me/devices/{id} can end.
SessionsAreListed ==
  \A n \in delivered : Stored(n) => row[grants[n].user].device[grants[n].device] = "active"

\* Once a revocation is answered, GET /users/me/devices no longer shows a device
\* it ended: the row is inactive even where an earlier reuse, expiry or failed
\* revocation had ended the session and left the row as it was.
EndedSessionsAreUnlisted ==
  [][\A r \in Requests : Reply(r) /\ req[r].op \in DeviceWide \union AccountWide =>
       \A n \in req[r].prior : row'[req[r].user].device[grants[n].device] # "active"]_vars

\* A withdrawn account has no session left that a client could refresh, whatever
\* logins, suspensions and failed deletions came before.
WithdrawnHoldsNoSession ==
  \A n \in delivered : Stored(n) => row[grants[n].user].status # "WITHDRAWN"

\* A password change kills the access token it was made with.
PasswordChangeRevokesAccess ==
  [][\A r \in Requests : Reply(r) /\ req[r].op = "change_password" =>
       req[r].grant \in blacklist']_vars

\* Every request ends: it is answered or given up, whatever locks the others
\* hold or wait for.
Answered == \A r \in Requests : ~At(r, "idle") ~> At(r, "idle")

=============================================================================
