------------------------- MODULE AuthApiApartProofs -------------------------
(***************************************************************************)
(* What overlapping requests may break and what saves it, for any number   *)
(* of users, devices and requests in flight, either order of commit and    *)
(* response, and whatever fails or expires in between.  One refresh token  *)
(* buys one grant as long as no two requests redeem it at the same time    *)
(* (NoTwins); the device index, the device list and the account-wide       *)
(* revocations hold as long as no two requests are at work on one device   *)
(* (Apart).  The runs refresh_race and unindexed_session show that they    *)
(* fail without.                                                           *)
(***************************************************************************)
EXTENDS AuthApiDbProofs, AuthApiApart

(***************************************************************************)
(* The token that is being redeemed bought nothing yet.                    *)
(***************************************************************************)
Unspent(r) == \A m \in 1..Len(grants) : grants[m].parent # req[r].grant

UInv == IInv /\ SingleUse /\ \A r \in Requests : Redeeming(r) => Unspent(r)

\* A request that redeems did so before, or has just found its token stored.
LEMMA RedeemingBegins ==
  ASSUME IInv, [Next]_vars, NEW q \in Requests, Redeeming(q)'
  PROVE  \/ Redeeming(q) /\ req'[q].grant = req[q].grant
         \/ \A m \in 1..Len(grants) : grants[m].parent # req'[q].grant
<1>1. CASE req'[q] = req[q]
  BY <1>1 DEF Redeeming
<1>2. ASSUME NEW r \in Requests, Keeps(r), r # q
      PROVE  req'[q] = req[q]
  BY <1>2 DEF Keeps, SameSlot
<1>3. CASE Start(q) /\ ~UNCHANGED vars
  <2>1. ASSUME NEW op, NEW u, NEW d, NEW n, NEW pc, Enter(q, op, u, d, n, pc), op # "refresh"
        PROVE  FALSE
    BY <2>1, EnteredFields DEF IInv, Redeeming
  <2>2. PICK n \in 1..MaxGrants : Refresh(q, n)
    BY <1>3, <2>1 DEF Start, Signup, Login, Authenticated, Logout, LogoutAll, UpdateMe, ChangePassword,
                      DeleteAccount, ForceLogout, TurnedAway
  <2>3. /\ rt[grants[n].user][grants[n].device] = n
        /\ Enter(q, "refresh", grants[n].user, grants[n].device, n, "get_by_id")
    BY <2>1, <2>2 DEF Refresh
  <2>4. req'[q].grant = n
    BY <2>3 DEF Enter, IInv, TypeOK, ApiTypeOK
  <2>5. \A m \in 1..Len(grants) : grants[m].parent # n
    BY <2>2, <2>3, GrantBound DEF IInv, ParentsOK, Stored
  <2> QED
    BY <2>4, <2>5
<1>4. CASE Step(q)
  <2>1. ASSUME NEW pc, Goto(q, pc), At(q, "get_by_id") \/ pc # "setex" \/ At(q, "update_last_login"),
               pc # "get_by_id"
        PROVE  Redeeming(q) /\ req'[q].grant = req[q].grant
    <3>1. /\ req'[q].pc = pc /\ req'[q].op = req[q].op /\ req'[q].grant = req[q].grant
      BY <2>1, MovedFields
    <3>2. ~At(q, "idle") => ControlOK(q)
      BY InFlight
    <3> QED
      BY <2>1, <3>1, <3>2 DEF Redeeming, At, ControlOK
  <2>2. ASSUME \/ InsertUser(q) \/ UpsertDevice(q) \/ UpdateLastLogin(q) \/ WriteUser(q)
               \/ GetById(q) \/ FindDevice(q) \/ FindDevices(q) \/ Deactivate(q)
        PROVE  \E pc : Goto(q, pc) /\ pc # "get_by_id"
                       /\ (At(q, "get_by_id") \/ pc # "setex" \/ At(q, "update_last_login"))
    BY <2>2 DEF InsertUser, UpsertDevice, UpdateLastLogin, WriteUser, GetById, FindDevice, FindDevices,
                Deactivate, Returned
  <2>3. ASSUME SaddDevice(q) \/ Blacklist(q) \/ DelToken(q) \/ SremDevice(q) \/ DeleteAllTokens(q)
        PROVE  \E pc : Goto(q, pc) /\ pc \notin {"get_by_id", "setex"}
    BY <2>3 DEF SaddDevice, Blacklist, DelToken, SremDevice, DeleteAllTokens, Returned
  <2>4. ASSUME SetexToken(q) \/ Smembers(q) PROVE FALSE
    BY <2>4 DEF SetexToken, Smembers, Redeeming, IInv, TypeOK, ApiTypeOK, Request
  <2>5. CASE Commit(q) \/ Reply(q) \/ Raise(q)
    <3>1. Leave(q) \/ (\E pc \in {"commit", "reply"} : Goto(q, pc)) \/ req' = [req EXCEPT ![q].pc = "commit"]
      BY <2>5 DEF Commit, Reply, Raise
    <3> QED
      BY <3>1, LeaveType, MovedFields DEF Redeeming, IInv, TypeOK, ApiTypeOK, Idle, Request
  <2> QED
    BY <1>4, <2>1, <2>2, <2>3, <2>4, <2>5 DEF Step
<1>5. CASE Fail(q)
  BY <1>5, LeaveType DEF Fail, Redeeming, IInv, TypeOK, ApiTypeOK, Idle
<1>6. ASSUME NEW r \in Requests, Start(r) \/ Step(r) \/ Fail(r), r # q
      PROVE  req'[q] = req[q]
  BY <1>2, <1>6, StartKeeps, StepKeeps DEF vars
<1> QED
  BY <1>1, <1>3, <1>4, <1>5, <1>6 DEF Next, Expire, Suspend, vars

LEMMA NextUInv == ASSUME UInv, NoTwins, [Next]_vars PROVE UInv'
<1>1. IInv' /\ Grows /\ Len(grants) \in Nat /\ grants \in Seq(Grant)
  BY NextIInv DEF UInv, IInv, TypeOK, ApiTypeOK
<1>2. CASE grants' = grants
  BY <1>1, <1>2, RedeemingBegins DEF UInv, SingleUse, Unspent
<1>3. CASE \E r \in Requests : SetexToken(r)
  <2>1. PICK r \in Requests : SetexToken(r)
    BY <1>3
  <2>2. /\ At(r, "setex") /\ ~At(r, "idle")
        /\ grants' = Append(grants, [user |-> req[r].user, device |-> req[r].device, parent |-> req[r].grant])
        /\ req' = [req EXCEPT ![r].pc = "sadd", ![r].minted = Len(grants) + 1]
    BY <2>1 DEF SetexToken, At
  <2>3. /\ Len(grants') = Len(grants) + 1 /\ grants'[Len(grants) + 1].parent = req[r].grant
        /\ \A n \in 1..Len(grants) : grants'[n] = grants[n]
    BY <1>1, <2>2
  <2>4. /\ Redeeming(r) \/ req[r].grant = 0
        /\ Redeeming(r) => Unspent(r) /\ req[r].grant # 0
    <3>1. ControlOK(r) /\ SubjectOK(r) /\ delivered \subseteq 1..Len(grants)
      BY <2>2, InFlight DEF UInv, IInv, TypeOK, ApiTypeOK
    <3> QED
      BY <1>1, <2>2, <3>1 DEF ControlOK, SubjectOK, Redeeming, At, UInv
  <2>5. SingleUse'
    BY <1>1, <2>3, <2>4 DEF UInv, SingleUse, Unspent
  <2>6. ASSUME NEW q \in Requests, Redeeming(q)' PROVE Unspent(q)'
    <3>1. Redeeming(q) /\ req'[q].grant = req[q].grant /\ q # r
      <4>1. q # r /\ req'[q] = req[q]
        BY <2>2, <2>6 DEF Redeeming, UInv, IInv, TypeOK, ApiTypeOK, Request
      <4> QED
        BY <2>6, <4>1 DEF Redeeming
    <3>2. req[q].grant # req[r].grant
      <4>1. req[q].grant # 0
        <5>1. SubjectOK(q) /\ delivered \subseteq 1..Len(grants)
          BY <3>1, InFlight DEF Redeeming, At, UInv, IInv, TypeOK, ApiTypeOK
        <5> QED
          BY <1>1, <3>1, <5>1 DEF SubjectOK, Redeeming
      <4> QED
        BY <2>4, <3>1, <4>1 DEF NoTwins
    <3> QED
      BY <1>1, <2>3, <3>1, <3>2 DEF UInv, Unspent
  <2> QED
    BY <1>1, <2>5, <2>6 DEF UInv
<1> QED
  BY <1>2, <1>3, OthersMintNothing

LEMMA InitUInv == Init => UInv
<1>1. Init => SingleUse /\ \A r \in Requests : ~Redeeming(r)
  BY DEF Init, SingleUse, Redeeming, Idle
<1> QED
  BY <1>1, InitIInv DEF UInv

\* AuthService.refresh: one refresh token buys one grant, whatever else overlaps,
\* unless two requests are between the GET that accepts a token and the SETEX
\* that replaces it with the same token: the only way to refresh_race.
THEOREM SingleUseWithoutTwins == Spec /\ []NoTwins => []SingleUse
<1>1. UInv /\ NoTwins /\ [Next]_vars => UInv'
  BY NextUInv
<1>2. UInv => SingleUse
  BY DEF UInv
<1> QED
  BY <1>1, <1>2, InitUInv, PTL DEF Spec

-----------------------------------------------------------------------------
(***************************************************************************)
(* Sessions and the index, under Apart.                                    *)
(***************************************************************************)
\* What a login or a refresh mints is for an account that is not withdrawn, and
\* in the index before it is handed over.
MintingOK(r) ==
  /\ req[r].op \in {"login", "refresh"} /\ req[r].pc \notin {"idle", "raise", "get_by_id"} =>
       row[req[r].user].status # "WITHDRAWN"
  /\ req[r].op \notin {"login", "refresh"} => req[r].minted = 0
  /\ req[r].minted # 0 =>
       /\ req[r].pc \in {"sadd", "commit", "reply"}
       /\ grants[req[r].minted].user = req[r].user
       /\ grants[req[r].minted].device = req[r].device
       /\ req[r].pc # "sadd" => req[r].device \in index[req[r].user]

\* SMEMBERS still names the whole index at the pipeline, after which no session
\* of the account is left that a client holds.
EndingOK(r) ==
  /\ req[r].pc = "srem" => rt[req[r].user][req[r].device] = 0
  /\ req[r].pc = "delete_all" => req[r].members = index[req[r].user]
  /\ req[r].op \in AccountWide => \A n \in req[r].prior : grants[n].user = req[r].user
  /\ req[r].op \in AccountWide /\ req[r].pc \in {"find_devices", "deactivate", "commit", "reply"} =>
       \A n \in delivered : grants[n].user = req[r].user => ~Stored(n)

SessionsOK == IndexCoversSessions /\ WithdrawnHoldsNoSession

OInv == AInv /\ SessionsOK /\ \A r \in Requests : MintingOK(r) /\ EndingOK(r)

\* Without a grant, a delivery or a shorter index, the sessions stand.
LEMMA SessionsStand ==
  ASSUME OInv, Grows, UNCHANGED <<grants, delivered>>,
         \A u \in Users : /\ index[u] \subseteq index'[u]
                          /\ row'[u].status = "WITHDRAWN" => row[u].status = "WITHDRAWN"
  PROVE  SessionsOK'
<1>1. \A n \in delivered : n \in 1..Len(grants) /\ grants[n].user \in Users
  BY GrantFields DEF OInv, AInv, IInv
<1> QED
  BY <1>1 DEF OInv, SessionsOK, IndexCoversSessions, WithdrawnHoldsNoSession, Grows

\* A delivered grant that is stored is a token, not an absent key.
LEMMA StoredIsThere ==
  ASSUME TypeOK, NEW n \in delivered, Stored(n)
  PROVE  rt[grants[n].user][grants[n].device] # 0
BY DEF TypeOK, ApiTypeOK, Stored

\* A request moves on: the sessions stand, and so does what its slot knows.
LEMMA MovedSessions ==
  ASSUME OInv, Grows, NEW r \in Requests, req[r].pc \in Pcs \ {"idle"},
         UNCHANGED <<grants, delivered, row, index>>,
         NEW pc, pc \notin {"srem", "delete_all", "sadd", "idle"}, req'[r].pc = pc,
         \A f \in {"op", "user", "device", "grant", "minted", "prior"} : req'[r][f] = req[r][f],
         req[r].minted # 0 => pc \in {"commit", "reply"} /\ req[r].pc \in {"commit", "reply"},
         req[r].op \in {"login", "refresh"} /\ req[r].pc \in {"raise", "get_by_id"} =>
           pc = "raise" \/ row[req[r].user].status # "WITHDRAWN",
         req[r].op \in AccountWide /\ pc \in {"find_devices", "deactivate", "commit", "reply"} =>
           req[r].pc \in {"find_devices", "deactivate", "commit", "reply"}
  PROVE  SessionsOK' /\ MintingOK(r)' /\ EndingOK(r)'
<1>1. SessionsOK'
  BY SessionsStand
<1>2. req'[r].op = req[r].op /\ req'[r].user = req[r].user /\ req'[r].device = req[r].device
      /\ req'[r].grant = req[r].grant /\ req'[r].minted = req[r].minted /\ req'[r].prior = req[r].prior
  OBVIOUS
<1>3. MintingOK(r)'
  BY <1>2 DEF OInv, MintingOK
<1>4. delivered \subseteq 1..Len(grants)
  BY DEF OInv, AInv, IInv, TypeOK, ApiTypeOK
<1>5. EndingOK(r)'
  BY <1>2, <1>4 DEF OInv, EndingOK, Grows
<1> QED
  BY <1>1, <1>3, <1>5

\* What a slot that is not idle is known to hold.
LEMMA SessionInFlight ==
  ASSUME OInv, NEW r \in Requests, ~At(r, "idle")
  PROVE  /\ ControlOK(r) /\ SubjectOK(r) /\ RevokedOK(r) /\ MintingOK(r) /\ EndingOK(r)
         /\ req[r] \in Request /\ req \in [Requests -> Request] /\ req[r].pc \in Pcs \ {"idle"}
         /\ IInv
BY InFlight DEF OInv, AInv, IInv, TypeOK, ApiTypeOK, Request, At

\* The database steps, the blacklist, and DEL where it is not srem's.
LEMMA PlainStepSessions ==
  ASSUME OInv, Grows, NEW r \in Requests,
         \/ InsertUser(r) \/ UpsertDevice(r) \/ UpdateLastLogin(r) \/ WriteUser(r)
         \/ GetById(r) \/ FindDevice(r) \/ FindDevices(r) \/ Deactivate(r) \/ Blacklist(r)
  PROVE  SessionsOK' /\ MintingOK(r)' /\ EndingOK(r)'
<1>1. /\ req[r].pc \in {"insert_user", "upsert_device", "update_last_login", "write_user",
                        "get_by_id", "find_device", "find_devices", "deactivate", "blacklist"}
      /\ UNCHANGED <<grants, delivered, row, index>>
  BY DEF InsertUser, UpsertDevice, UpdateLastLogin, WriteUser, GetById, FindDevice, FindDevices,
         Deactivate, Blacklist, BlacklistToken, At, Goto, storeVars, dbVars
<1>2. ControlOK(r) /\ MintingOK(r) /\ req[r].pc \in Pcs \ {"idle"} /\ IInv
  BY <1>1, SessionInFlight DEF At
<1>3. req[r].minted = 0
  BY <1>1, <1>2 DEF MintingOK
<1>4. PICK pc : /\ Goto(r, pc) /\ pc \notin {"srem", "delete_all", "sadd", "idle", "get_by_id"}
                /\ req[r].pc = "get_by_id" => pc = "raise" \/ Found(row[req[r].user])
                /\ req[r].op \in AccountWide /\ pc \in {"find_devices", "deactivate", "commit", "reply"} =>
                     req[r].pc \in {"find_devices", "deactivate"}
  BY <1>2 DEF InsertUser, UpsertDevice, UpdateLastLogin, WriteUser, GetById, FindDevice, FindDevices,
              Deactivate, Blacklist, At, Returned, ControlOK, AccountWide
<1>5. req[r].op \in {"login", "refresh"} /\ req[r].pc \in {"raise", "get_by_id"} =>
        pc = "raise" \/ row[req[r].user].status # "WITHDRAWN"
  BY <1>1, <1>4 DEF Found
<1>6. /\ req'[r].pc = pc
      /\ \A f \in {"op", "user", "device", "grant", "minted", "prior"} : req'[r][f] = req[r][f]
  BY <1>2, <1>4, MovedFields
<1> QED
  BY <1>1, <1>2, <1>3, <1>4, <1>5, <1>6, MovedSessions

-----------------------------------------------------------------------------
\* A request enters an idle slot.
LEMMA EnteredSessions ==
  ASSUME OInv, NEW r \in Requests, NEW op, NEW u, NEW d, NEW n, NEW pc, Enter(r, op, u, d, n, pc),
         pc \in {"insert_user", "upsert_device", "get_by_id", "del", "blacklist", "find_device", "raise"},
         op = "refresh" => pc = "get_by_id",
         op = "login" => pc = "raise" \/ row[u].status # "WITHDRAWN",
         UNCHANGED row
  PROVE  MintingOK(r)' /\ EndingOK(r)'
<1>1. /\ UNCHANGED <<grants, delivered>>
      /\ req'[r] = [op |-> op, pc |-> pc, user |-> u, device |-> d, grant |-> n,
                    minted |-> 0, members |-> {}, prior |-> Established(op, u, d)]
  BY DEF Enter, OInv, AInv, IInv, TypeOK, ApiTypeOK
<1> QED
  BY <1>1 DEF MintingOK, EndingOK, Established

LEMMA StartSessions ==
  ASSUME OInv, Grows, NEW r \in Requests, Start(r), ~UNCHANGED vars
  PROVE  SessionsOK' /\ MintingOK(r)' /\ EndingOK(r)'
<1>1. /\ UNCHANGED <<grants, delivered, index>> /\ UNCHANGED row
  BY DEF Start, Signup, Login, Refresh, Authenticated, Logout, LogoutAll, UpdateMe, ChangePassword,
         DeleteAccount, ForceLogout, TurnedAway, Enter, dbVars, storeVars
<1>2. SessionsOK'
  BY <1>1, SessionsStand
<1>3. ASSUME NEW u \in Users, NEW p \in Passwords,
             Signup(r, u, p) \/ \E d \in Devices : Login(r, u, d, p)
      PROVE  MintingOK(r)' /\ EndingOK(r)'
  <2>1. CASE Signup(r, u, p)
    <3>1. Enter(r, "signup", u, None, 0, "insert_user")
      BY <2>1 DEF Signup
    <3> QED
      BY <1>1, <3>1, EnteredSessions
  <2>2. ASSUME NEW d \in Devices, Login(r, u, d, p)
        PROVE  MintingOK(r)' /\ EndingOK(r)'
    <3>1. PICK pc \in {"raise", "upsert_device"} :
            /\ Enter(r, "login", u, d, 0, pc)
            /\ pc = "raise" \/ row[u].status # "WITHDRAWN"
      BY <2>2 DEF Login
    <3> QED
      BY <1>1, <3>1, EnteredSessions
  <2> QED
    BY <1>3, <2>1, <2>2
<1>4. ASSUME NEW n \in 1..MaxGrants, Refresh(r, n)
      PROVE  MintingOK(r)' /\ EndingOK(r)'
  <2>1. CASE Enter(r, "reuse", grants[n].user, grants[n].device, n, "del")
    BY <1>1, <2>1, EnteredSessions
  <2>2. CASE /\ rt[grants[n].user][grants[n].device] = n
             /\ Enter(r, "refresh", grants[n].user, grants[n].device, n, "get_by_id")
    BY <1>1, <2>2, EnteredSessions
  <2> QED
    BY <1>4, <2>1, <2>2 DEF Refresh
<1>5. ASSUME NEW op \in {"logout", "logout_all", "update_me", "change_password", "delete_account", "force_logout"},
             NEW n, NEW d, NEW pc \in {"blacklist", "get_by_id", "find_device"},
             Authenticated(r, op, n, d, pc)
      PROVE  MintingOK(r)' /\ EndingOK(r)'
  <2> DEFINE u == grants[n].user
  <2>1. Enter(r, op, u, d, n, pc)
    BY <1>5 DEF Authenticated
  <2> HIDE DEF u
  <2> QED
    BY <1>1, <1>5, <2>1, EnteredSessions
<1> QED
  BY <1>2, <1>3, <1>4, <1>5 DEF Start, TurnedAway, Logout, LogoutAll, UpdateMe, ChangePassword,
                                DeleteAccount, ForceLogout

\* A slot that empties.
LEMMA GivenUpSessions ==
  ASSUME OInv, Grows, NEW r \in Requests, Raise(r) \/ Fail(r)
  PROVE  SessionsOK' /\ MintingOK(r)' /\ EndingOK(r)'
<1>1. UNCHANGED <<grants, delivered, index, row>> /\ Leave(r)
  BY DEF Raise, Fail, RollbackTxn, storeVars
<1>2. req'[r] = Idle
  BY <1>1, LeaveType DEF OInv, AInv, IInv, TypeOK, ApiTypeOK
<1> QED
  BY <1>1, <1>2, SessionsStand DEF MintingOK, EndingOK, Idle, AccountWide

-----------------------------------------------------------------------------
(***************************************************************************)
(* The steps that end sessions.                                            *)
(***************************************************************************)
LEMMA DelSessions ==
  ASSUME OInv, Grows, NEW r \in Requests, DelToken(r)
  PROVE  SessionsOK' /\ MintingOK(r)' /\ EndingOK(r)'
<1>1. /\ At(r, "del") /\ Goto(r, "srem") /\ UNCHANGED <<grants, delivered, index, row>>
      /\ rt' = [rt EXCEPT ![req[r].user][req[r].device] = 0]
  BY DEF DelToken, Del, Goto, dbVars
<1>2. ControlOK(r) /\ SubjectOK(r) /\ MintingOK(r) /\ IInv
  BY <1>1, SessionInFlight DEF At
<1>3. req'[r].pc = "srem" /\ req'[r].op = req[r].op /\ req'[r].user = req[r].user
      /\ req'[r].device = req[r].device /\ req'[r].minted = req[r].minted
  BY <1>1, <1>2, MovedFields
<1>4. req[r].op \in DeviceWide /\ req[r].user \in Users /\ req[r].device \in Devices
  BY <1>1, <1>2 DEF ControlOK, SubjectOK, At
<1>5. rt'[req[r].user][req[r].device] = 0
  BY <1>1, <1>2, <1>4 DEF IInv, TypeOK, StoreTypeOK
<1>6. MintingOK(r)' /\ EndingOK(r)'
  BY <1>2, <1>3, <1>4, <1>5 DEF MintingOK, EndingOK, DeviceWide, AccountWide
<1> QED
  BY <1>1, <1>6, SessionsStand

LEMMA SremSessions ==
  ASSUME OInv, Grows, NEW r \in Requests, SremDevice(r)
  PROVE  SessionsOK' /\ MintingOK(r)' /\ EndingOK(r)'
<1>1. /\ At(r, "srem") /\ UNCHANGED <<grants, delivered, row, rt>>
      /\ index' = [index EXCEPT ![req[r].user] = @ \ {req[r].device}]
      /\ \E pc \in {"raise", "find_device", "deactivate"} : Goto(r, pc)
  BY DEF SremDevice, Srem, Goto, dbVars
<1>2. ControlOK(r) /\ SubjectOK(r) /\ MintingOK(r) /\ EndingOK(r) /\ IInv
  BY <1>1, SessionInFlight DEF At
<1>3. req'[r].pc \in {"raise", "find_device", "deactivate"} /\ req'[r].op = req[r].op
      /\ req'[r].minted = req[r].minted
  BY <1>1, <1>2, MovedFields
<1>4. req[r].op \in DeviceWide /\ req[r].user \in Users /\ req[r].device \in Devices
  BY <1>1, <1>2 DEF ControlOK, SubjectOK, At
<1>5. MintingOK(r)' /\ EndingOK(r)'
  BY <1>2, <1>3, <1>4 DEF MintingOK, EndingOK, DeviceWide, AccountWide
<1>6. WithdrawnHoldsNoSession'
  BY <1>1 DEF OInv, SessionsOK, WithdrawnHoldsNoSession, Stored
<1>7. ASSUME NEW n \in delivered, Stored(n)
      PROVE  grants[n].device \in index'[grants[n].user]
  <2>1. /\ rt[grants[n].user][grants[n].device] # 0 /\ grants[n].user \in Users
        /\ grants[n].device \in index[grants[n].user]
    BY <1>2, <1>7, StoredIsThere, GrantFields DEF IInv, OInv, SessionsOK, IndexCoversSessions
  <2>2. ~(grants[n].user = req[r].user /\ grants[n].device = req[r].device)
    BY <1>1, <1>2, <2>1 DEF EndingOK, At
  <2> QED
    BY <1>1, <1>2, <2>1, <2>2 DEF IInv, TypeOK, StoreTypeOK
<1>8. IndexCoversSessions'
  BY <1>1, <1>7 DEF IndexCoversSessions, Stored
<1> QED
  BY <1>5, <1>6, <1>8 DEF SessionsOK

LEMMA SmembersSessions ==
  ASSUME OInv, Grows, NEW r \in Requests, Smembers(r)
  PROVE  SessionsOK' /\ MintingOK(r)' /\ EndingOK(r)'
<1>1. /\ At(r, "smembers") /\ UNCHANGED <<grants, delivered, index, row>>
      /\ req' = [req EXCEPT ![r].pc = "delete_all", ![r].members = index[req[r].user]]
  BY DEF Smembers, storeVars, dbVars
<1>2. ControlOK(r) /\ MintingOK(r) /\ EndingOK(r) /\ req[r] \in Request /\ req \in [Requests -> Request]
  BY <1>1, SessionInFlight DEF At
<1>3. /\ req'[r].pc = "delete_all" /\ req'[r].members = index[req[r].user]
      /\ req'[r].op = req[r].op /\ req'[r].user = req[r].user /\ req'[r].prior = req[r].prior
      /\ req'[r].minted = req[r].minted /\ req[r].op \in AccountWide
  BY <1>1, <1>2 DEF Request, ControlOK, At
<1>4. \A n \in req[r].prior : n \in 1..Len(grants)
  BY <1>1, InFlight, GrantFields DEF OInv, AInv, IInv, BoundsOK, At
<1>5. MintingOK(r)' /\ EndingOK(r)'
  BY <1>1, <1>2, <1>3, <1>4 DEF MintingOK, EndingOK, AccountWide
<1> QED
  BY <1>1, <1>5, SessionsStand

\* The pipeline: every session a client holds is of the index SMEMBERS named.
LEMMA DeleteAllSessions ==
  ASSUME OInv, Grows, NEW r \in Requests, DeleteAllTokens(r)
  PROVE  SessionsOK' /\ MintingOK(r)' /\ EndingOK(r)'
<1>1. /\ At(r, "delete_all") /\ UNCHANGED <<grants, delivered, row>>
      /\ DeleteAll(req[r].user, req[r].members)
      /\ \E pc \in {"find_devices", "deactivate"} : Goto(r, pc)
  BY DEF DeleteAllTokens, Goto, dbVars
<1>2. ControlOK(r) /\ SubjectOK(r) /\ MintingOK(r) /\ EndingOK(r) /\ IInv
  BY <1>1, SessionInFlight DEF At
<1>3. /\ req'[r].pc \in {"find_devices", "deactivate"} /\ req'[r].op = req[r].op
      /\ req'[r].user = req[r].user /\ req'[r].prior = req[r].prior
      /\ req'[r].minted = req[r].minted /\ req[r].op \in AccountWide
  BY <1>1, <1>2, MovedFields DEF ControlOK, At
<1>4. req[r].user \in Users /\ req[r].members = index[req[r].user]
  BY <1>1, <1>2 DEF SubjectOK, EndingOK, At
<1>5. /\ \A u \in Users : u # req[r].user => rt'[u] = rt[u] /\ index'[u] = index[u]
      /\ \A d \in Devices : rt'[req[r].user][d] = IF d \in index[req[r].user] THEN 0 ELSE rt[req[r].user][d]
  BY <1>1, <1>2, <1>4 DEF DeleteAll, IInv, TypeOK, StoreTypeOK
<1>6. ASSUME NEW n \in delivered, Stored(n)'
      PROVE  Stored(n) /\ grants[n].user # req[r].user
  <2>1. /\ n \in 1..Len(grants) /\ n # 0 /\ grants[n].user \in Users /\ grants[n].device \in Devices
        /\ grants'[n] = grants[n] /\ Stored(n)
    BY <1>1, <1>2, <1>6, GrantFields DEF IInv, Grows
  <2>2. grants[n].device \in index[grants[n].user]
    BY <2>1 DEF OInv, SessionsOK, IndexCoversSessions
  <2> QED
    BY <1>5, <1>6, <2>1, <2>2 DEF Stored
<1>7. \A n \in delivered : grants[n].user \in Users
  BY <1>2, GrantFields DEF IInv
<1>8. IndexCoversSessions' /\ WithdrawnHoldsNoSession'
  BY <1>1, <1>5, <1>6, <1>7 DEF OInv, SessionsOK, IndexCoversSessions, WithdrawnHoldsNoSession
<1>9. MintingOK(r)'
  BY <1>2, <1>3 DEF MintingOK, AccountWide
<1>10. EndingOK(r)'
  BY <1>1, <1>2, <1>3, <1>6 DEF EndingOK
<1> QED
  BY <1>8, <1>9, <1>10 DEF SessionsOK

-----------------------------------------------------------------------------
(***************************************************************************)
(* The steps that make sessions, and the commit.                           *)
(***************************************************************************)
LEMMA SetexSessions ==
  ASSUME OInv, Grows, NEW r \in Requests, SetexToken(r)
  PROVE  SessionsOK' /\ MintingOK(r)' /\ EndingOK(r)'
<1>1. /\ At(r, "setex") /\ UNCHANGED <<delivered, row, index>>
      /\ grants' = Append(grants, [user |-> req[r].user, device |-> req[r].device, parent |-> req[r].grant])
      /\ req' = [req EXCEPT ![r].pc = "sadd", ![r].minted = Len(grants) + 1]
  BY DEF SetexToken, Setex, dbVars
<1>2. /\ ControlOK(r) /\ SubjectOK(r) /\ MintingOK(r) /\ EndingOK(r) /\ IInv
      /\ req[r] \in Request /\ req \in [Requests -> Request]
  BY <1>1, SessionInFlight DEF At
<1>3. Len(grants) \in Nat /\ grants \in Seq(Grant) /\ delivered \subseteq 1..Len(grants)
  BY <1>2 DEF IInv, TypeOK, ApiTypeOK
<1>4. /\ req'[r].pc = "sadd" /\ req'[r].minted = Len(grants) + 1
      /\ req'[r].op = req[r].op /\ req'[r].user = req[r].user /\ req'[r].device = req[r].device
      /\ req[r].op \in {"login", "refresh"}
  BY <1>1, <1>2 DEF Request, ControlOK, At
<1>5. /\ Len(grants') = Len(grants) + 1
      /\ grants'[Len(grants) + 1].user = req[r].user /\ grants'[Len(grants) + 1].device = req[r].device
      /\ grants'[Len(grants) + 1].parent = req[r].grant
      /\ \A n \in 1..Len(grants) : grants'[n] = grants[n]
  BY <1>1, <1>3
<1>6. MintingOK(r)' /\ EndingOK(r)'
  BY <1>1, <1>2, <1>4, <1>5 DEF MintingOK, EndingOK, At, AccountWide
<1>7. \A n \in delivered : grants'[n] = grants[n] /\ (Stored(n)' => Stored(n))
  BY <1>3, <1>5 DEF Grows
<1>8. IndexCoversSessions' /\ WithdrawnHoldsNoSession'
  BY <1>1, <1>7 DEF OInv, SessionsOK, IndexCoversSessions, WithdrawnHoldsNoSession
<1> QED
  BY <1>6, <1>8 DEF SessionsOK

LEMMA SaddSessions ==
  ASSUME OInv, Grows, NEW r \in Requests, SaddDevice(r)
  PROVE  SessionsOK' /\ MintingOK(r)' /\ EndingOK(r)'
<1>1. /\ At(r, "sadd") /\ UNCHANGED <<grants, delivered, row, rt>> /\ Goto(r, Returned)
      /\ index' = [index EXCEPT ![req[r].user] = @ \union {req[r].device}]
  BY DEF SaddDevice, Sadd, Goto
<1>2. ControlOK(r) /\ SubjectOK(r) /\ MintingOK(r) /\ IInv
  BY <1>1, SessionInFlight DEF At
<1>3. /\ req'[r].pc = Returned /\ req'[r].op = req[r].op /\ req'[r].user = req[r].user
      /\ req'[r].device = req[r].device /\ req'[r].minted = req[r].minted
      /\ req[r].op \in {"login", "refresh"} /\ req[r].user \in Users
  BY <1>1, <1>2, MovedFields DEF ControlOK, SubjectOK, At
<1>4. /\ \A u \in Users : index[u] \subseteq index'[u]
      /\ req[r].device \in index'[req[r].user]
  BY <1>1, <1>2, <1>3 DEF IInv, TypeOK, StoreTypeOK
<1>5. MintingOK(r)' /\ EndingOK(r)'
  BY <1>1, <1>2, <1>3, <1>4 DEF MintingOK, EndingOK, At, Returned, AccountWide
<1> QED
  BY <1>1, <1>4, <1>5, SessionsStand

\* COMMIT: an account is withdrawn after its sessions were deleted.
LEMMA CommitSessions ==
  ASSUME OInv, Grows, NEW r \in Requests, Commit(r)
  PROVE  SessionsOK' /\ MintingOK(r)' /\ EndingOK(r)'
<1>1. /\ At(r, "commit") /\ UNCHANGED <<grants, delivered, index, rt>>
      /\ (ReplyFirst /\ Leave(r)) \/ Goto(r, "reply")
  BY DEF Commit, Goto, storeVars
<1>2. ControlOK(r) /\ SubjectOK(r) /\ MintingOK(r) /\ EndingOK(r) /\ IInv /\ AccountOK(r)
  BY <1>1, SessionInFlight DEF At, OInv, AInv
<1>3. ASSUME NEW u \in Users, row'[u].status = "WITHDRAWN", row[u].status # "WITHDRAWN"
      PROVE  req[r].user = u /\ req[r].op = "delete_account"
  BY <1>2, <1>3, CommitWrites DEF OInv, AccountOK
<1>4. IndexCoversSessions'
  BY <1>1 DEF OInv, SessionsOK, IndexCoversSessions, Stored
<1>5. \A n \in delivered : grants[n].user \in Users
  BY <1>2, GrantFields DEF IInv
<1>6. ASSUME NEW n \in delivered, Stored(n) PROVE row'[grants[n].user].status # "WITHDRAWN"
  BY <1>1, <1>2, <1>3, <1>5, <1>6 DEF OInv, SessionsOK, WithdrawnHoldsNoSession, EndingOK, AccountWide, At
<1>7. WithdrawnHoldsNoSession'
  BY <1>1, <1>6 DEF WithdrawnHoldsNoSession, Stored
<1>8. CASE Leave(r)
  <2>1. req'[r] = Idle
    BY <1>8, LeaveType DEF OInv, AInv, IInv, TypeOK, ApiTypeOK
  <2> QED
    BY <1>4, <1>7, <2>1 DEF SessionsOK, MintingOK, EndingOK, Idle, AccountWide
<1>9. CASE Goto(r, "reply")
  <2>1. /\ req'[r].pc = "reply" /\ req'[r].op = req[r].op /\ req'[r].user = req[r].user
        /\ req'[r].device = req[r].device /\ req'[r].minted = req[r].minted
        /\ req'[r].prior = req[r].prior
    BY <1>2, <1>9, MovedFields
  <2>2. req[r].op \in {"login", "refresh"} => row'[req[r].user].status # "WITHDRAWN"
    BY <1>1, <1>2, <1>3 DEF MintingOK, SubjectOK, At
  <2>3. MintingOK(r)' /\ EndingOK(r)'
    BY <1>1, <1>2, <2>1, <2>2 DEF MintingOK, EndingOK, At, Stored
  <2> QED
    BY <1>4, <1>7, <2>3 DEF SessionsOK
<1> QED
  BY <1>1, <1>8, <1>9

\* The response: the new session is in the index, its account not withdrawn.
LEMMA ReplySessions ==
  ASSUME OInv, Grows, NEW r \in Requests, Reply(r)
  PROVE  SessionsOK' /\ MintingOK(r)' /\ EndingOK(r)'
<1>1. /\ At(r, "reply") /\ UNCHANGED <<grants, index, rt, row>>
      /\ delivered' = delivered \union ({req[r].minted} \ {0})
      /\ (ReplyFirst /\ req' = [req EXCEPT ![r].pc = "commit"]) \/ Leave(r)
  BY DEF Reply, storeVars, dbVars
<1>2. /\ ControlOK(r) /\ SubjectOK(r) /\ MintingOK(r) /\ EndingOK(r) /\ IInv
      /\ req[r] \in Request /\ req \in [Requests -> Request]
  BY <1>1, SessionInFlight DEF At
<1>3. req[r].minted # 0 =>
        /\ grants[req[r].minted].user = req[r].user
        /\ grants[req[r].minted].device \in index[req[r].user]
        /\ row[req[r].user].status # "WITHDRAWN"
        /\ req[r].op \notin AccountWide
  BY <1>1, <1>2 DEF MintingOK, At, AccountWide
<1>4. IndexCoversSessions' /\ WithdrawnHoldsNoSession'
  BY <1>1, <1>3 DEF OInv, SessionsOK, IndexCoversSessions, WithdrawnHoldsNoSession, Stored
<1>5. CASE Leave(r)
  <2>1. req'[r] = Idle
    BY <1>2, <1>5, LeaveType
  <2> QED
    BY <1>4, <2>1 DEF SessionsOK, MintingOK, EndingOK, Idle, AccountWide
<1>6. CASE req' = [req EXCEPT ![r].pc = "commit"]
  <2>1. /\ req'[r].pc = "commit" /\ req'[r].op = req[r].op /\ req'[r].user = req[r].user
        /\ req'[r].device = req[r].device /\ req'[r].minted = req[r].minted
        /\ req'[r].prior = req[r].prior
    BY <1>2, <1>6 DEF Request
  <2>2. req[r].op \in AccountWide => delivered' = delivered
    BY <1>1, <1>3
  <2>3. MintingOK(r)' /\ EndingOK(r)'
    BY <1>1, <1>2, <2>1, <2>2 DEF MintingOK, EndingOK, At, Stored
  <2> QED
    BY <1>4, <2>3 DEF SessionsOK
<1> QED
  BY <1>1, <1>5, <1>6

-----------------------------------------------------------------------------
\* What expires or is suspended leaves every slot as it was.
LEMMA OutsideSessions ==
  ASSUME OInv, Grows, (\E u \in Users, d \in Devices : Expire(u, d)) \/ \E u \in Users : Suspend(u)
  PROVE  SessionsOK' /\ \A r \in Requests : MintingOK(r)' /\ EndingOK(r)'
<1>1. /\ UNCHANGED <<grants, delivered, index, req>>
      /\ \A u \in Users, d \in Devices : rt'[u][d] \in {0, rt[u][d]}
  <2>1. ASSUME NEW u \in Users, NEW d \in Devices, Expire(u, d)
        PROVE  UNCHANGED <<grants, delivered, index, req>> /\ rt' = [rt EXCEPT ![u][d] = 0]
    BY <2>1 DEF Expire, RtExpire
  <2>2. ASSUME NEW u \in Users, Suspend(u)
        PROVE  UNCHANGED <<grants, delivered, index, req, rt>>
    BY <2>2 DEF Suspend, storeVars
  <2>3. \A u \in Users, d \in Devices :
          rt' = [rt EXCEPT ![u][d] = 0] => \A v \in Users, e \in Devices : rt'[v][e] \in {0, rt[v][e]}
    BY DEF OInv, AInv, IInv, TypeOK, StoreTypeOK
  <2> QED
    BY <2>1, <2>2, <2>3
<1>2. \A u \in Users : row'[u].status = "WITHDRAWN" => row[u].status = "WITHDRAWN"
  BY DEF Expire, Suspend, SetStatus, dbVars, OInv, AInv, IInv, TypeOK, DbTypeOK, RowType
<1>3. \A r \in Requests : ~At(r, "idle") => req[r].user \in Users
  BY InFlight DEF OInv, AInv, SubjectOK
<1>4. \A r \in Requests : req[r].pc = "srem" => req[r].device \in Devices
  BY InFlight DEF OInv, AInv, SubjectOK, ControlOK, At
<1>5. SessionsOK'
  BY <1>1, <1>2, SessionsStand
<1>6. ASSUME NEW r \in Requests PROVE MintingOK(r)'
  BY <1>1, <1>2, <1>3 DEF OInv, MintingOK, At
<1>7. ASSUME NEW r \in Requests PROVE EndingOK(r)'
  <2>1. \A n \in delivered : n \in 1..Len(grants)
    BY GrantFields DEF OInv, AInv, IInv
  <2>2. EndingOK(r)
    BY DEF OInv
  <2>3. req[r].pc = "srem" => rt'[req[r].user][req[r].device] = 0
    BY <1>1, <1>3, <1>4, <2>2 DEF EndingOK, At
  <2> QED
    BY <1>1, <2>1, <2>2, <2>3 DEF EndingOK, Grows
<1> QED
  BY <1>5, <1>6, <1>7

-----------------------------------------------------------------------------
(***************************************************************************)
(* What the other slots know survives a step that concerns none of their   *)
(* devices.                                                                *)
(***************************************************************************)
\* A step makes no session on device d of account u, hands none over, leaves
\* its place in the index and does not withdraw the account.
Spared(u, d) ==
  /\ rt[u][d] = 0 => rt'[u][d] = 0
  /\ d \in index'[u] <=> d \in index[u]
  /\ row'[u].status = "WITHDRAWN" => row[u].status = "WITHDRAWN"
  /\ \A n \in delivered' \ delivered : ~(grants'[n].user = u /\ grants'[n].device = d)

LEMMA StepSpares ==
  ASSUME OInv, NEW r \in Requests, Step(r) \/ Fail(r),
         NEW u \in Users, NEW d \in Devices, ~Concerns(r, u, d)
  PROVE  Spared(u, d)
<1>1. ~At(r, "idle")
  BY DEF Step, InsertUser, UpsertDevice, UpdateLastLogin, WriteUser, GetById, FindDevice, FindDevices,
         Deactivate, SetexToken, SaddDevice, Blacklist, DelToken, SremDevice, Smembers, DeleteAllTokens,
         Commit, Reply, Raise, Fail, At
<1>2. /\ ControlOK(r) /\ SubjectOK(r) /\ MintingOK(r) /\ AccountOK(r) /\ IInv
      /\ rt \in [Users -> [Devices -> 0..Len(grants)]] /\ index \in [Users -> SUBSET Devices]
  BY <1>1, SessionInFlight DEF OInv, AInv, IInv, TypeOK, StoreTypeOK
<1>3. CASE UNCHANGED <<rt, index, row, delivered>>
  BY <1>3 DEF Spared
<1>4. CASE \/ InsertUser(r) \/ UpsertDevice(r) \/ UpdateLastLogin(r) \/ WriteUser(r)
           \/ GetById(r) \/ FindDevice(r) \/ FindDevices(r) \/ Deactivate(r) \/ Blacklist(r)
           \/ Smembers(r) \/ Raise(r) \/ Fail(r)
  <2>1. UNCHANGED <<rt, index, row, delivered>>
    BY <1>4 DEF InsertUser, UpsertDevice, UpdateLastLogin, WriteUser, GetById, FindDevice, FindDevices,
                Deactivate, Blacklist, BlacklistToken, Smembers, Raise, Fail, RollbackTxn, Goto,
                storeVars, dbVars
  <2> QED
    BY <1>3, <2>1
<1>5. CASE SetexToken(r) \/ SaddDevice(r) \/ DelToken(r) \/ SremDevice(r)
  <2>1. req[r].pc \in {"setex", "sadd", "del", "srem"} /\ UNCHANGED <<row, delivered>>
    BY <1>5 DEF SetexToken, SaddDevice, DelToken, SremDevice, At, Goto, dbVars
  <2>2. \/ index' = index /\ \E n : rt' = [rt EXCEPT ![req[r].user][req[r].device] = n]
        \/ rt' = rt /\ \E D : /\ index' = [index EXCEPT ![req[r].user] = D]
                             /\ \A e : e # req[r].device => (e \in D <=> e \in index[req[r].user])
    <3>1. CASE SetexToken(r) \/ DelToken(r)
      BY <3>1 DEF SetexToken, DelToken, Setex, Del
    <3>2. CASE SaddDevice(r)
      BY <3>2 DEF SaddDevice, Sadd
    <3>3. CASE SremDevice(r)
      BY <3>3 DEF SremDevice, Srem
    <3> QED
      BY <1>5, <3>1, <3>2, <3>3
  <2>3. u # req[r].user \/ d # req[r].device
    BY <1>2, <2>1 DEF Concerns, ControlOK
  <2>4. /\ rt[u][d] = 0 => rt'[u][d] = 0
        /\ d \in index'[u] <=> d \in index[u]
    BY <1>2, <2>2, <2>3
  <2> QED
    BY <2>1, <2>4 DEF Spared
<1>6. CASE DeleteAllTokens(r)
  <2>1. At(r, "delete_all") /\ UNCHANGED <<row, delivered>> /\ DeleteAll(req[r].user, req[r].members)
    BY <1>6 DEF DeleteAllTokens, Goto, dbVars
  <2>2. u # req[r].user
    BY <1>2, <2>1 DEF Concerns, ControlOK, At
  <2>3. rt'[u] = rt[u] /\ index'[u] = index[u]
    BY <1>2, <2>1, <2>2 DEF DeleteAll
  <2> QED
    BY <2>1, <2>3 DEF Spared
<1>7. CASE Commit(r)
  <2>1. At(r, "commit") /\ UNCHANGED <<rt, index, delivered>>
    BY <1>7 DEF Commit, Goto, storeVars
  <2>2. ASSUME row'[u].status = "WITHDRAWN", row[u].status # "WITHDRAWN"
        PROVE  FALSE
    <3>1. req[r].user = u /\ req[r].op = "delete_account"
      BY <1>2, <1>7, <2>2, CommitWrites DEF OInv, AccountOK
    <3> QED
      BY <2>1, <3>1 DEF Concerns, At, AccountWide
  <2> QED
    BY <2>1, <2>2 DEF Spared
<1>8. CASE Reply(r)
  <2>1. /\ At(r, "reply") /\ UNCHANGED <<rt, index, row, grants>>
        /\ delivered' = delivered \union ({req[r].minted} \ {0})
    BY <1>8 DEF Reply, storeVars, dbVars
  <2>2. req[r].minted # 0 => ~(grants[req[r].minted].user = u /\ grants[req[r].minted].device = d)
    BY <1>2, <2>1 DEF Concerns, MintingOK, At
  <2> QED
    BY <2>1, <2>2 DEF Spared
<1> QED
  BY <1>4, <1>5, <1>6, <1>7, <1>8 DEF Step

LEMMA OtherSessions ==
  ASSUME OInv, IInv', Grows, NEW q \in Requests, req'[q] = req[q],
         \A u \in Users, d \in Devices : Concerns(q, u, d) => Spared(u, d)
  PROVE  MintingOK(q)' /\ EndingOK(q)'
<1>1. /\ MintingOK(q) /\ EndingOK(q) /\ BoundsOK(q) /\ IInv
      /\ delivered \subseteq 1..Len(grants)
      /\ index \in [Users -> SUBSET Devices] /\ index' \in [Users -> SUBSET Devices]
  BY DEF OInv, AInv, IInv, SlotOK, TypeOK, ApiTypeOK, StoreTypeOK
<1>2. req[q].pc # "idle" => ControlOK(q) /\ SubjectOK(q)
  BY InFlight DEF OInv, AInv, At
<1>3. MintingOK(q)'
  <2>1. CASE req[q].op \in {"login", "refresh"} /\ req[q].pc \notin {"idle", "raise"}
    <3>1. Spared(req[q].user, req[q].device)
      BY <1>2, <2>1 DEF Concerns, SubjectOK
    <3>2. req[q].minted # 0 => grants'[req[q].minted] = grants[req[q].minted]
      BY <1>1 DEF BoundsOK, Grows
    <3> QED
      BY <1>1, <3>1, <3>2 DEF MintingOK, Spared
  <2>2. CASE ~(req[q].op \in {"login", "refresh"} /\ req[q].pc \notin {"idle", "raise"})
    BY <1>1, <2>2 DEF MintingOK
  <2> QED
    BY <2>1, <2>2
<1>4. EndingOK(q)'
  <2>1. req[q].pc = "srem" => rt'[req[q].user][req[q].device] = 0
    BY <1>1, <1>2 DEF EndingOK, Concerns, ControlOK, SubjectOK, Spared
  <2>2. req[q].pc = "delete_all" => req[q].members = index'[req[q].user]
    <3>1. SUFFICES ASSUME req[q].pc = "delete_all" PROVE index'[req[q].user] = index[req[q].user]
      BY <1>1 DEF EndingOK
    <3>2. req[q].user \in Users /\ \A d \in Devices : Spared(req[q].user, d)
      BY <1>2, <3>1 DEF Concerns, ControlOK, SubjectOK
    <3> QED
      BY <1>1, <3>2 DEF Spared
  <2>3. req[q].op \in AccountWide => \A n \in req[q].prior : grants'[n].user = req[q].user
    <3>1. \A n \in req[q].prior : n \in 1..Len(grants)
      BY <1>1 DEF BoundsOK
    <3> QED
      BY <1>1, <3>1 DEF EndingOK, Grows
  <2>4. ASSUME req[q].op \in AccountWide, req[q].pc \in {"find_devices", "deactivate", "commit", "reply"},
               NEW n \in delivered', grants'[n].user = req[q].user
        PROVE  ~Stored(n)'
    <3>1. n \in 1..Len(grants') /\ grants'[n].user \in Users /\ grants'[n].device \in Devices
      <4>1. IInv'
        OBVIOUS
      <4>2. n \in 1..Len(grants') /\ grants'[n] \in Grant
        BY <4>1 DEF IInv, TypeOK, ApiTypeOK
      <4> QED
        BY <4>2 DEF Grant
    <3>2. Concerns(q, grants'[n].user, grants'[n].device)
      BY <2>4 DEF Concerns
    <3>3. n \in delivered
      BY <3>1, <3>2 DEF Spared
    <3> QED
      BY <1>1, <2>4, <3>3 DEF EndingOK, Grows
  <2> QED
    BY <2>1, <2>2, <2>3, <2>4 DEF EndingOK
<1> QED
  BY <1>3, <1>4

\* A step of slot r and the other slots.
LEMMA OthersApart ==
  ASSUME Apart, OInv, Grows, IInv', NEW r \in Requests, Start(r) \/ Step(r) \/ Fail(r),
         NEW q \in Requests, q # r
  PROVE  MintingOK(q)' /\ EndingOK(q)'
<1>1. req'[q] = req[q]
  BY StartKeeps, StepKeeps DEF OInv, AInv, Keeps, SameSlot, vars
<1>2. ASSUME NEW u \in Users, NEW d \in Devices, Concerns(q, u, d) PROVE Spared(u, d)
  <2>1. CASE Start(r)
    BY <2>1 DEF Spared, Start, Signup, Login, Refresh, Authenticated, Logout, LogoutAll, UpdateMe,
                ChangePassword, DeleteAccount, ForceLogout, TurnedAway, Enter, storeVars, dbVars, vars
  <2>2. CASE Step(r) \/ Fail(r)
    BY <1>2, <2>2, StepSpares DEF Apart
  <2> QED
    BY <2>1, <2>2
<1> QED
  BY <1>1, <1>2, OtherSessions

LEMMA NextOInv ==
  ASSUME Apart, OInv, [Next]_vars
  PROVE  OInv'
<1>1. AInv' /\ IInv' /\ Grows
  BY NextAInv, NextIInv DEF OInv, AInv
<1>2. ASSUME NEW r \in Requests, Start(r) \/ Step(r) \/ Fail(r),
             SessionsOK' /\ MintingOK(r)' /\ EndingOK(r)'
      PROVE  OInv'
  BY <1>1, <1>2, OthersApart DEF OInv
<1>3. CASE UNCHANGED vars
  BY <1>1, <1>3 DEF vars, OInv, SessionsOK, IndexCoversSessions, WithdrawnHoldsNoSession,
                    MintingOK, EndingOK, Stored
<1>4. ASSUME NEW r \in Requests, Start(r), ~UNCHANGED vars PROVE OInv'
  BY <1>1, <1>2, <1>4, StartSessions
<1>5. ASSUME NEW r \in Requests, Step(r) \/ Fail(r) PROVE OInv'
  <2>1. SessionsOK' /\ MintingOK(r)' /\ EndingOK(r)'
    BY <1>1, <1>5, PlainStepSessions, GivenUpSessions, DelSessions, SremSessions, SmembersSessions, DeleteAllSessions,
       SetexSessions, SaddSessions, CommitSessions, ReplySessions DEF Step
  <2> QED
    BY <1>2, <1>5, <2>1
<1>6. CASE (\E u \in Users, d \in Devices : Expire(u, d)) \/ \E u \in Users : Suspend(u)
  BY <1>1, <1>6, OutsideSessions DEF OInv
<1> QED
  BY <1>3, <1>4, <1>5, <1>6 DEF Next

LEMMA InitOInv == Init => OInv
<1> SUFFICES ASSUME Init PROVE OInv
  OBVIOUS
<1>1. grants = << >> /\ delivered = {} /\ \A r \in Requests : req[r] = Idle
  BY DEF Init
<1>2. SessionsOK
  BY <1>1 DEF SessionsOK, IndexCoversSessions, WithdrawnHoldsNoSession
<1>3. \A r \in Requests : MintingOK(r) /\ EndingOK(r)
  BY <1>1 DEF MintingOK, EndingOK, Idle, AccountWide
<1> QED
  BY <1>2, <1>3, InitAInv DEF OInv

\* Requests stay apart, and the sessions with them.
LEMMA ApartInvariant == ApartSpec => []Apart
<1>1. Init => Apart
  BY DEF Init, Apart, Concerns, Idle
<1>2. Apart /\ [Next /\ Apart']_vars => Apart'
  BY DEF Apart, Concerns, vars
<1> QED
  BY <1>1, <1>2, PTL DEF ApartSpec

LEMMA SessionInvariant == ApartSpec => []OInv
<1>1. OInv /\ Apart /\ [Next /\ Apart']_vars => OInv'
  BY NextOInv
<1> QED
  BY <1>1, InitOInv, ApartInvariant, PTL DEF ApartSpec

\* AuthService.refresh: requests that stay apart never redeem one token twice.
THEOREM SingleUseApart == ApartSpec => []SingleUse
<1>1. Apart /\ IInv => NoTwins
  <2> SUFFICES ASSUME Apart, IInv, NEW q \in Requests, NEW r \in Requests,
                      Redeeming(q), Redeeming(r), req[q].grant = req[r].grant
               PROVE  q = r
    BY DEF NoTwins
  <2>1. SubjectOK(q) /\ SubjectOK(r)
    BY InFlight DEF Redeeming, At
  <2>2. /\ Concerns(q, req[q].user, req[q].device) /\ Concerns(r, req[q].user, req[q].device)
        /\ req[q].user \in Users /\ req[q].device \in Devices
    BY <2>1 DEF Concerns, Redeeming, SubjectOK
  <2> QED
    BY <2>2 DEF Apart
<1>2. ApartSpec => Spec
  BY PTL DEF ApartSpec, Spec
<1> QED
  BY <1>1, <1>2, ApartInvariant, Invariant, SingleUseWithoutTwins, PTL

\* TokenStore: every session a client can refresh is in the device index that
\* delete_all_refresh_tokens walks, whatever requests failed halfway.
THEOREM IndexCoversApart == ApartSpec => []IndexCoversSessions
<1>1. OInv => IndexCoversSessions
  BY DEF OInv, SessionsOK
<1> QED
  BY <1>1, SessionInvariant, PTL

\* UserService.delete_account: a withdrawn account has no session left.
THEOREM WithdrawnApart == ApartSpec => []WithdrawnHoldsNoSession
<1>1. OInv => WithdrawnHoldsNoSession
  BY DEF OInv, SessionsOK
<1> QED
  BY <1>1, SessionInvariant, PTL

\* logout_all, change_password and delete_account: what they answer is true.
THEOREM AllDeviceRevocationApart == ApartSpec => AllDeviceRevocationHolds
<1>1. ASSUME OInv, [Next]_vars
      PROVE  [\A r \in Requests : Reply(r) /\ req[r].op \in AccountWide =>
                \A n \in req[r].prior : ~Stored(n)']_vars
  <2> SUFFICES ASSUME NEW r \in Requests, Reply(r), req[r].op \in AccountWide, NEW n \in req[r].prior
               PROVE  ~Stored(n)'
    OBVIOUS
  <2>1. At(r, "reply") /\ EndingOK(r) /\ BoundsOK(r) /\ delivered \subseteq 1..Len(grants)
    BY <1>1, InFlight DEF Reply, At, OInv, AInv, IInv, TypeOK, ApiTypeOK
  <2>2. n \in 1..Len(grants) /\ ~Stored(n)
    BY <2>1 DEF EndingOK, BoundsOK, At
  <2> QED
    BY <1>1, <2>2, NextIInv DEF Grows, OInv, AInv
<1> QED
  BY <1>1, SessionInvariant, PTL DEF ApartSpec, AllDeviceRevocationHolds

-----------------------------------------------------------------------------
(***************************************************************************)
(* The devices GET /users/me/devices shows, where the commit precedes the  *)
(* answer.  Pending is what the commit of slot r will leave of a device of *)
(* its account, Ended the devices its revocation deactivates.              *)
(***************************************************************************)
Pending(r, d) == IF txn[r].put.device[d] = None THEN row[req[r].user].device[d]
                                                ELSE txn[r].put.device[d]

Ended(r) == IF req[r].op \in AccountWide THEN Devices ELSE {req[r].device}

\* The steps between the first SELECT and the commit of the endpoints that
\* write to user_devices.
Reading(r) == \/ req[r].pc \in {"deactivate", "commit"}
              \/ req[r].op = "login" /\ req[r].pc \in {"upsert_device", "update_last_login", "setex", "sadd"}
              \/ req[r].op = "force_logout" /\ req[r].pc \in {"del", "srem"}
              \/ req[r].op \in {"change_password", "delete_account"} /\ req[r].pc \in {"smembers", "delete_all"}

Lists == {"login"} \union DeviceWide \union AccountWide

ListOK(r) ==
  /\ req[r].op \in Lists /\ req[r].pc # "raise" /\ txn[r].user # None =>
       \A d \in Ended(r) : txn[r].seen.device[d] = row[req[r].user].device[d]
  /\ req[r].op \in Lists /\ Reading(r) => txn[r].user = req[r].user
  /\ \A d \in Devices : txn[r].put.device[d] # None =>
       \/ req[r].op = "login" /\ d = req[r].device /\ txn[r].put.device[d] = "active"
       \/ req[r].op \in DeviceWide \union AccountWide /\ req[r].pc = "commit" /\ d \in Ended(r)
  /\ req[r].op = "login" /\ req[r].pc \in {"update_last_login", "setex", "sadd", "commit", "reply"} =>
       Pending(r, req[r].device) = "active"
  /\ req[r].op = "refresh" /\ req[r].pc \notin {"idle", "raise"} =>
       row[req[r].user].device[req[r].device] = "active"
  /\ req[r].op \in DeviceWide \union AccountWide /\ req[r].pc \in {"commit", "reply"} =>
       \A d \in Ended(r) : Pending(r, d) # "active"
  /\ req[r].op \in DeviceWide /\ req[r].pc \notin {"idle", "raise"} /\ ~BeforeDel(r) =>
       rt[req[r].user][req[r].device] = 0

LInv == OInv /\ SessionsAreListed /\ \A r \in Requests : ListOK(r)

\* No device row, no delivery: the list stands.
LEMMA ListStands ==
  ASSUME LInv, Grows, UNCHANGED <<grants, delivered>>,
         \A u \in Users : row'[u].device = row[u].device
  PROVE  SessionsAreListed'
<1>1. \A n \in delivered : n \in 1..Len(grants) /\ grants[n].user \in Users
  BY GrantFields DEF LInv, OInv, AInv, IInv
<1> QED
  BY <1>1 DEF LInv, SessionsAreListed, Grows

LEMMA ListInFlight ==
  ASSUME LInv, NEW r \in Requests, ~At(r, "idle")
  PROVE  /\ ControlOK(r) /\ SubjectOK(r) /\ MintingOK(r) /\ EndingOK(r) /\ AccountOK(r) /\ ListOK(r)
         /\ req[r] \in Request /\ req \in [Requests -> Request]
         /\ txn[r] \in TxnType /\ txn \in [Requests -> TxnType] /\ IInv
BY SessionInFlight DEF LInv, OInv, AInv, IInv, TypeOK, DbTypeOK

\* A request moves on and its transaction keeps what it saw and what it flushed
\* of user_devices.
LEMMA MovedList ==
  ASSUME LInv, NEW r \in Requests, ~At(r, "idle"), UNCHANGED row, NEW pc, pc # "idle",
         req'[r].pc = pc, req'[r].op = req[r].op, req'[r].user = req[r].user,
         req'[r].device = req[r].device,
         txn'[r].user = txn[r].user, txn'[r].seen = txn[r].seen,
         txn'[r].put.device = txn[r].put.device,
         \A u \in Users, d \in Devices : rt[u][d] = 0 => rt'[u][d] = 0,
         req[r].op \in Lists /\ Reading(r)' => Reading(r) \/ txn[r].user = req[r].user,
         req[r].op \in DeviceWide \union AccountWide => req[r].pc # "commit" /\ pc \notin {"commit", "reply"},
         req[r].op = "login" /\ pc \in {"update_last_login", "setex", "sadd", "commit", "reply"} =>
           req[r].pc \in {"update_last_login", "setex", "sadd", "commit"},
         req[r].pc # "raise",
         req[r].op \in DeviceWide /\ ~BeforeDel(r)' => ~BeforeDel(r) \/ rt'[req[r].user][req[r].device] = 0
  PROVE  ListOK(r)'
<1>1. ListOK(r) /\ SubjectOK(r)
  BY ListInFlight
<1>2. \A d : Pending(r, d)' = Pending(r, d)
  BY DEF Pending
<1>3. Ended(r)' = Ended(r)
  BY DEF Ended
<1>4. req[r].pc # "idle"
  BY DEF At
<1>5. req[r].op \in DeviceWide => req[r].user \in Users /\ req[r].device \in Devices
  BY <1>1 DEF SubjectOK
<1> QED
  BY <1>1, <1>2, <1>3, <1>4, <1>5 DEF ListOK

\* The steps that leave user_devices and what the request saw of it alone.
LEMMA PlainTxn ==
  ASSUME LInv, NEW r \in Requests, ~At(r, "idle"),
         \/ UNCHANGED txn
         \/ \E L, put : Flush(r, L, put) /\ put.device = txn[r].put.device
         \/ \E R : txn' = [txn EXCEPT ![r].rows = R]
  PROVE  /\ txn'[r].user = txn[r].user /\ txn'[r].seen = txn[r].seen
         /\ txn'[r].put.device = txn[r].put.device
<1>1. txn \in [Requests -> TxnType] /\ txn[r] \in TxnType
  BY ListInFlight
<1>2. ASSUME NEW L, NEW put, Flush(r, L, put), put.device = txn[r].put.device
      PROVE  /\ txn'[r].user = txn[r].user /\ txn'[r].seen = txn[r].seen
             /\ txn'[r].put.device = txn[r].put.device
  <2>1. txn'[r].user = txn[r].user /\ txn'[r].seen = txn[r].seen /\ txn'[r].put = put
    BY <1>1, <1>2 DEF Flush, TxnType
  <2> QED
    BY <1>2, <2>1
<1>3. ASSUME NEW R, txn' = [txn EXCEPT ![r].rows = R]
      PROVE  txn'[r].user = txn[r].user /\ txn'[r].seen = txn[r].seen /\ txn'[r].put = txn[r].put
  BY <1>1, <1>3 DEF TxnType
<1> QED
  BY <1>2, <1>3

LEMMA PlainDbList ==
  ASSUME ~ReplyFirst, LInv, NEW r \in Requests,
         InsertUser(r) \/ UpdateLastLogin(r) \/ WriteUser(r) \/ SaddDevice(r)
  PROVE  ListOK(r)'
<1>1. /\ req[r].pc \in {"insert_user", "update_last_login", "write_user", "sadd"} /\ ~At(r, "idle")
      /\ UNCHANGED row /\ rt' = rt
  BY DEF InsertUser, UpdateLastLogin, WriteUser, SaddDevice, Sadd, At, storeVars
<1>2. ControlOK(r) /\ AccountOK(r) /\ txn[r].put \in PutType /\ IInv
  BY <1>1, ListInFlight DEF TxnType
<1>3. \/ UNCHANGED txn
      \/ \E L, put : Flush(r, L, put) /\ put.device = txn[r].put.device
      \/ \E R : txn' = [txn EXCEPT ![r].rows = R]
  <2>1. CASE InsertUser(r) \/ UpdateLastLogin(r) \/ SaddDevice(r)
    BY <2>1 DEF InsertUser, UpdateLastLogin, SaddDevice
  <2>2. CASE WriteUser(r)
    <3>1. /\ [txn[r].put EXCEPT !.status = "WITHDRAWN"].device = txn[r].put.device
          /\ \A p : [txn[r].put EXCEPT !.pwd = p].device = txn[r].put.device
      BY <1>2 DEF PutType
    <3> QED
      BY <2>2, <3>1 DEF WriteUser
  <2> QED
    BY <2>1, <2>2
<1>4. PICK pc \in {"commit", "raise", "setex", "smembers"} :
        /\ Goto(r, pc)
        /\ req[r].op = "login" => req[r].pc \in {"update_last_login", "sadd"}
        /\ req[r].op \in DeviceWide \union AccountWide => pc \in {"raise", "smembers"} /\ req[r].pc = "write_user"
        /\ req[r].op \notin DeviceWide
  BY <1>1, <1>2 DEF InsertUser, UpdateLastLogin, WriteUser, SaddDevice, Returned, ControlOK, At,
                    DeviceWide, AccountWide
<1>5. /\ req'[r].pc = pc /\ req'[r].op = req[r].op /\ req'[r].user = req[r].user
      /\ req'[r].device = req[r].device
  BY <1>2, <1>4, MovedFields
<1>6. /\ txn'[r].user = txn[r].user /\ txn'[r].seen = txn[r].seen
      /\ txn'[r].put.device = txn[r].put.device
  BY <1>1, <1>3, PlainTxn
<1>7. req[r].op \in Lists /\ Reading(r)' => Reading(r) \/ txn[r].user = req[r].user
  BY <1>1, <1>2, <1>4, <1>5 DEF Reading, Lists, AccountOK
<1> QED
  BY <1>1, <1>4, <1>5, <1>6, <1>7, MovedList

LEMMA PlainStoreList ==
  ASSUME LInv, NEW r \in Requests,
         \/ SetexToken(r) \/ Blacklist(r) \/ DelToken(r) \/ SremDevice(r)
         \/ Smembers(r) \/ DeleteAllTokens(r)
  PROVE  ListOK(r)'
<1>1. /\ req[r].pc \in {"setex", "blacklist", "del", "srem", "smembers", "delete_all"} /\ ~At(r, "idle")
      /\ UNCHANGED <<row, txn>>
  BY DEF SetexToken, Blacklist, DelToken, SremDevice, Smembers, DeleteAllTokens, At, dbVars
<1>2. /\ ControlOK(r) /\ SubjectOK(r) /\ IInv /\ req[r] \in Request /\ req \in [Requests -> Request]
  BY <1>1, ListInFlight
<1>3. req[r].op \in DeviceWide => req[r].user \in Users /\ req[r].device \in Devices
  BY <1>2 DEF SubjectOK
<1>4. /\ ~SetexToken(r) => \A u \in Users, d \in Devices : rt[u][d] = 0 => rt'[u][d] = 0
      /\ DelToken(r) /\ req[r].op \in DeviceWide => rt'[req[r].user][req[r].device] = 0
  <2>1. rt \in [Users -> [Devices -> 0..Len(grants)]]
    BY <1>2 DEF IInv, TypeOK, StoreTypeOK
  <2>2. CASE Blacklist(r) \/ SremDevice(r) \/ Smembers(r)
    BY <1>1, <2>2 DEF Blacklist, BlacklistToken, SremDevice, Srem, Smembers, storeVars, At, DelToken
  <2>3. CASE DelToken(r)
    BY <1>3, <2>1, <2>3 DEF DelToken, Del
  <2>4. CASE DeleteAllTokens(r)
    BY <2>1, <2>4 DEF DeleteAllTokens, DeleteAll, DelToken, At
  <2> QED
    BY <1>1, <2>2, <2>3, <2>4 DEF SetexToken, DelToken, At
<1>5. PICK pc : /\ pc \notin {"idle", "commit", "reply"} /\ req'[r].pc = pc /\ req'[r].op = req[r].op
                /\ req'[r].user = req[r].user /\ req'[r].device = req[r].device
                /\ \/ SetexToken(r) /\ pc = "sadd"
                   \/ Blacklist(r) /\ pc = (IF req[r].op = "logout" THEN "del" ELSE "smembers")
                   \/ DelToken(r) /\ pc = "srem"
                   \/ SremDevice(r) /\ pc = (CASE req[r].op = "reuse" -> "raise"
                                               [] req[r].op = "logout" -> "find_device"
                                               [] OTHER -> "deactivate")
                   \/ Smembers(r) /\ pc = "delete_all"
                   \/ DeleteAllTokens(r) /\ pc = (IF req[r].op = "logout_all" THEN "find_devices" ELSE "deactivate")
  <2>1. CASE SetexToken(r) \/ Smembers(r)
    BY <1>2, <2>1 DEF SetexToken, Smembers, Request
  <2>2. CASE Blacklist(r) \/ DelToken(r) \/ DeleteAllTokens(r)
    BY <1>2, <2>2, MovedFields DEF Blacklist, DelToken, DeleteAllTokens
  <2>3. CASE SremDevice(r)
    BY <1>1, <1>2, <2>3, MovedFields DEF SremDevice, ControlOK, DeviceWide, At
  <2> QED
    BY <1>1, <2>1, <2>2, <2>3 DEF SetexToken, Blacklist, DelToken, SremDevice, Smembers, DeleteAllTokens
<1>6. CASE SetexToken(r)
  <2>1. At(r, "setex") /\ pc = "sadd" /\ req[r].op \in {"login", "refresh"}
    BY <1>2, <1>5, <1>6 DEF SetexToken, Blacklist, DelToken, SremDevice, Smembers, DeleteAllTokens, At, ControlOK
  <2>2. ListOK(r)
    BY <1>1, ListInFlight
  <2> QED
    BY <1>1, <1>5, <2>1, <2>2 DEF ListOK, Reading, Pending, Ended, At, DeviceWide, AccountWide, Lists
<1>7. CASE ~SetexToken(r)
  <2>1. /\ req[r].op \in DeviceWide \union AccountWide
        /\ req[r].op \in Lists /\ Reading(r)' => Reading(r) \/ txn[r].user = req[r].user
        /\ req[r].op \in DeviceWide /\ ~BeforeDel(r)' => ~BeforeDel(r) \/ rt'[req[r].user][req[r].device] = 0
    BY <1>2, <1>4, <1>5, <1>7 DEF Blacklist, DelToken, SremDevice, Smembers, DeleteAllTokens, At, ControlOK,
                                  Reading, BeforeDel, DeviceWide, AccountWide, Lists
  <2> QED
    BY <1>1, <1>4, <1>5, <1>7, <2>1, MovedList DEF DeviceWide, AccountWide
<1> QED
  BY <1>6, <1>7

\* upsert_device and deactivate_device(s): what is flushed of user_devices,
\* compared with what was read, is what the commit will leave.
LEMMA AssignedList ==
  ASSUME LInv, NEW r \in Requests, req[r].op \in Lists, Reading(r), ~At(r, "idle"),
         NEW L, NEW D \in SUBSET Devices, D \subseteq Ended(r), NEW value \in {"active", "inactive"},
         Flush(r, L, [txn[r].put EXCEPT !.device = Assign(r, D, value)]), UNCHANGED row,
         req'[r].user = req[r].user
  PROVE  /\ txn'[r].user = txn[r].user /\ txn'[r].seen = txn[r].seen
         /\ \A d \in D : Pending(r, d)' = value
         /\ \A d \in Devices : txn'[r].put.device[d] # None => d \in D /\ txn'[r].put.device[d] = value
         /\ \A d \in Devices \ D : Pending(r, d)' = row[req[r].user].device[d]
<1>1. /\ ListOK(r) /\ AccountOK(r) /\ SubjectOK(r) /\ txn \in [Requests -> TxnType] /\ txn[r] \in TxnType
  BY ListInFlight
<1> DEFINE put == [txn[r].put EXCEPT !.device = Assign(r, D, value)]
<1>2. txn'[r].user = txn[r].user /\ txn'[r].seen = txn[r].seen /\ txn'[r].put = put
  BY <1>1 DEF Flush, TxnType
<1>3. \A d \in Devices : put.device[d] =
        IF d \in D /\ txn[r].seen.device[d] # value THEN value ELSE None
  BY <1>1 DEF Assign, TxnType, PutType
<1> HIDE DEF put
<1>4. \A d \in D : txn[r].seen.device[d] = row[req[r].user].device[d]
  <2>1. txn[r].user # None /\ req[r].pc # "raise"
    BY <1>1, NoneIsNoValue DEF ListOK, SubjectOK, Reading, At, Lists, DeviceWide, AccountWide
  <2> QED
    BY <1>1, <2>1 DEF ListOK
<1>5. value # None
  BY NoneIsFresh
<1> QED
  BY <1>2, <1>3, <1>4, <1>5 DEF Pending

LEMMA UpsertList ==
  ASSUME LInv, NEW r \in Requests, UpsertDevice(r)
  PROVE  ListOK(r)'
<1>1. /\ At(r, "upsert_device") /\ UNCHANGED row /\ ~At(r, "idle")
      /\ \E L : Flush(r, L, [txn[r].put EXCEPT !.device = Assign(r, {req[r].device}, "active")])
      /\ \E pc \in {"raise", "update_last_login"} : Goto(r, pc)
  BY DEF UpsertDevice, At
<1>2. ControlOK(r) /\ SubjectOK(r) /\ ListOK(r) /\ AccountOK(r) /\ IInv
  BY <1>1, ListInFlight
<1>3. req[r].op = "login" /\ req[r].device \in Devices /\ Reading(r) /\ req[r].op \in Lists
  BY <1>1, <1>2 DEF ControlOK, SubjectOK, At, Reading, Lists
<1>4. /\ req'[r].pc \in {"raise", "update_last_login"} /\ req'[r].op = "login"
      /\ req'[r].user = req[r].user /\ req'[r].device = req[r].device
  BY <1>1, <1>2, <1>3, MovedFields
<1>5. /\ txn'[r].user = txn[r].user /\ txn'[r].seen = txn[r].seen
      /\ Pending(r, req[r].device)' = "active"
      /\ \A d \in Devices : txn'[r].put.device[d] # None =>
           d = req[r].device /\ txn'[r].put.device[d] = "active"
  <2> DEFINE D == {req[r].device}
  <2>1. PICK L : Flush(r, L, [txn[r].put EXCEPT !.device = Assign(r, D, "active")])
    BY <1>1
  <2>2. D \in SUBSET Devices /\ (\A d : d \in D <=> d = req[r].device) /\ D \subseteq Ended(r)
    BY <1>3 DEF Ended, AccountWide
  <2> HIDE DEF D
  <2>3. /\ txn'[r].user = txn[r].user /\ txn'[r].seen = txn[r].seen
        /\ \A d \in D : Pending(r, d)' = "active"
        /\ \A d \in Devices : txn'[r].put.device[d] # None => d \in D /\ txn'[r].put.device[d] = "active"
    BY <1>1, <1>3, <1>4, <2>1, <2>2, AssignedList
  <2>4. req'[r].device \in D
    BY <1>4, <2>2
  <2> QED
    BY <2>2, <2>3, <2>4
<1>6. txn'[r].user # None => \A d \in Ended(r)' : txn'[r].seen.device[d] = row'[req'[r].user].device[d]
  BY <1>1, <1>2, <1>3, <1>4, <1>5 DEF ListOK, Ended, At
<1>7. txn'[r].user = req'[r].user
  BY <1>2, <1>3, <1>4, <1>5 DEF ListOK
<1> QED
  BY <1>3, <1>4, <1>5, <1>6, <1>7 DEF ListOK, DeviceWide, AccountWide

LEMMA DeactivateList ==
  ASSUME ~ReplyFirst, LInv, NEW r \in Requests, Deactivate(r)
  PROVE  ListOK(r)'
<1>1. /\ At(r, "deactivate") /\ UNCHANGED <<row, rt>> /\ Goto(r, "commit") /\ ~At(r, "idle")
      /\ Flush(r, Deactivated(r), [txn[r].put EXCEPT !.device = Assign(r, Deactivated(r), "inactive")])
  BY DEF Deactivate, At, storeVars, Returned
<1>2. ControlOK(r) /\ SubjectOK(r) /\ ListOK(r) /\ IInv
  BY <1>1, ListInFlight
<1>3. /\ req[r].op \in {"logout", "force_logout"} \union AccountWide
      /\ req[r].op \in DeviceWide \union AccountWide /\ req[r].op \in Lists /\ Reading(r)
      /\ req[r].op \in DeviceWide => req[r].device \in Devices
  BY <1>1, <1>2 DEF ControlOK, SubjectOK, At, Reading, Lists, DeviceWide
<1>4. /\ req'[r].pc = "commit" /\ req'[r].op = req[r].op
      /\ req'[r].user = req[r].user /\ req'[r].device = req[r].device
  BY <1>1, <1>2, MovedFields
<1>5. \A d \in Ended(r) : txn[r].seen.device[d] = row[req[r].user].device[d]
  BY <1>1, <1>2, <1>3, NoneIsNoValue DEF ListOK, SubjectOK, At, Lists, DeviceWide, AccountWide
<1>6. /\ Deactivated(r) \subseteq Ended(r) /\ Ended(r) \subseteq Devices
      /\ \A d \in Ended(r) \ Deactivated(r) : row[req[r].user].device[d] # "active"
  BY <1>3, <1>5 DEF Deactivated, Ended
<1> DEFINE D == Deactivated(r)
<1>7. D \in SUBSET Devices /\ D \subseteq Ended(r)
  BY <1>6
<1>8. Flush(r, D, [txn[r].put EXCEPT !.device = Assign(r, D, "inactive")])
  BY <1>1
<1> HIDE DEF D
<1>9. /\ txn'[r].user = txn[r].user /\ txn'[r].seen = txn[r].seen
      /\ \A d \in D : Pending(r, d)' = "inactive"
      /\ \A d \in Devices : txn'[r].put.device[d] # None => d \in D
      /\ \A d \in Devices \ D : Pending(r, d)' = row[req[r].user].device[d]
  BY <1>1, <1>3, <1>4, <1>7, <1>8, AssignedList
<1>10. Ended(r)' = Ended(r)
  BY <1>4 DEF Ended
<1>11. \A d \in Ended(r) : Pending(r, d)' # "active"
  BY <1>6, <1>9 DEF D
<1>12. \A d \in Devices : txn'[r].put.device[d] # None => d \in Ended(r)
  BY <1>6, <1>9 DEF D
<1>13. req[r].op \in DeviceWide => rt'[req[r].user][req[r].device] = 0
  BY <1>1, <1>2, <1>3 DEF ListOK, BeforeDel, At
<1>14. /\ txn'[r].user = req'[r].user
       /\ \A d \in Ended(r) : txn'[r].seen.device[d] = row'[req'[r].user].device[d]
  BY <1>1, <1>2, <1>3, <1>4, <1>5, <1>9 DEF ListOK
<1> QED
  BY <1>3, <1>4, <1>10, <1>11, <1>12, <1>13, <1>14 DEF ListOK, DeviceWide, AccountWide

\* The first SELECT of a transaction.
LEMMA BegunList ==
  ASSUME ~ReplyFirst, LInv, NEW r \in Requests, GetById(r) \/ FindDevice(r) \/ FindDevices(r)
  PROVE  ListOK(r)'
<1>1. /\ req[r].pc \in {"get_by_id", "find_device", "find_devices"} /\ ~At(r, "idle")
      /\ Begin(r, req[r].user) /\ UNCHANGED <<row, rt>>
  BY DEF GetById, FindDevice, FindDevices, At, storeVars
<1>2. ControlOK(r) /\ SubjectOK(r) /\ ListOK(r) /\ IInv /\ txn \in [Requests -> TxnType]
  BY <1>1, ListInFlight
<1>3. PICK pc : /\ Goto(r, pc) /\ pc \in {"raise", "setex", "write_user", "deactivate", "del", "commit"}
                /\ req[r].op \in Lists /\ pc = "commit" =>
                     req[r].op = "logout" /\ row[req[r].user].device[req[r].device] = "absent"
                /\ req[r].op \in DeviceWide => req[r].pc = "find_device"
                /\ req[r].op = "logout" => pc \in {"commit", "deactivate"}
                /\ req[r].op = "force_logout" => pc \in {"raise", "del"}
                /\ req[r].op # "login" /\ req[r].op # "reuse" /\ req[r].op # "signup"
  BY <1>2 DEF GetById, FindDevice, FindDevices, Returned, ControlOK, At, Lists, DeviceWide, AccountWide
<1>4. /\ req'[r].pc = pc /\ req'[r].op = req[r].op
      /\ req'[r].user = req[r].user /\ req'[r].device = req[r].device
  BY <1>2, <1>3, MovedFields
<1> DEFINE t == [BlankTxn EXCEPT !.user = req[r].user, !.seen = row[req[r].user]]
<1>5. /\ t.user = req[r].user /\ t.seen = row[req[r].user]
      /\ \A d \in Devices : t.put.device[d] = None
  BY DEF BlankTxn, NoPut
<1>6. txn'[r] = t
  BY <1>1, <1>2 DEF Begin
<1> HIDE DEF t
<1>7. \A d \in Devices : Pending(r, d)' = row[req[r].user].device[d]
  BY <1>1, <1>4, <1>5, <1>6 DEF Pending
<1>8. req[r].op = "logout" => Ended(r)' = {req[r].device} /\ req[r].device \in Devices
  BY <1>2, <1>4 DEF Ended, AccountWide, DeviceWide, SubjectOK
<1>9. req[r].op \in DeviceWide /\ ~BeforeDel(r)' => rt'[req[r].user][req[r].device] = 0
  BY <1>1, <1>2, <1>3, <1>4 DEF ListOK, BeforeDel, DeviceWide
<1>10. req'[r].op \in DeviceWide \union AccountWide /\ req'[r].pc \in {"commit", "reply"} =>
         \A d \in Ended(r)' : Pending(r, d)' # "active"
  BY <1>3, <1>4, <1>7, <1>8 DEF Lists
<1>11. /\ txn'[r].seen.device = row'[req'[r].user].device
       /\ txn'[r].user = req'[r].user
       /\ \A d \in Devices : txn'[r].put.device[d] = None
       /\ req'[r].op = "refresh" => row'[req'[r].user].device[req'[r].device] = "active"
  BY <1>1, <1>2, <1>4, <1>5, <1>6 DEF ListOK
<1> QED
  BY <1>3, <1>4, <1>9, <1>10, <1>11 DEF ListOK

\* A slot that empties, its transaction with it.
LEMMA EmptyList ==
  ASSUME LInv, NEW r \in Requests, Leave(r), txn'[r] = BlankTxn
  PROVE  ListOK(r)'
<1>1. req'[r] = Idle
  BY LeaveType DEF LInv, OInv, AInv, IInv, TypeOK, ApiTypeOK
<1>2. /\ Idle.pc = "idle" /\ BlankTxn.user = None
      /\ \A d \in Devices : BlankTxn.put.device[d] = None
  BY DEF Idle, BlankTxn, NoPut
<1> QED
  BY <1>1, <1>2 DEF ListOK, Reading

\* A commit writes what its transaction flushed of user_devices.
LEMMA CommittedRows ==
  ASSUME NEW r \in Requests, Commit(r), NEW u \in Users, NEW d \in Devices
  PROVE  row'[u].device[d] =
           IF u = txn[r].user /\ txn[r].put.device[d] # None THEN txn[r].put.device[d] ELSE row[u].device[d]
<1>1. row'[u] = IF u = txn[r].user THEN Merge(row[u], txn[r].put) ELSE row[u]
  BY DEF Commit, CommitTxn
<1>2. \A image, put : Merge(image, put).device[d] =
        IF put.device[d] # None THEN put.device[d] ELSE image.device[d]
  BY DEF Merge
<1> QED
  BY <1>1, <1>2

\* What a commit leaves of user_devices is what was pending.
LEMMA CommitList ==
  ASSUME ~ReplyFirst, LInv, Grows, NEW r \in Requests, Commit(r)
  PROVE  SessionsAreListed' /\ ListOK(r)'
<1>1. /\ At(r, "commit") /\ ~At(r, "idle") /\ Goto(r, "reply") /\ UNCHANGED <<rt, grants, delivered>>
      /\ txn' = [txn EXCEPT ![r] = BlankTxn]
      /\ \A u \in Users : row'[u] = IF u = txn[r].user THEN Merge(row[u], txn[r].put) ELSE row[u]
  BY DEF Commit, CommitTxn, Goto, At, storeVars
<1>2. ControlOK(r) /\ SubjectOK(r) /\ EndingOK(r) /\ AccountOK(r) /\ ListOK(r) /\ IInv
      /\ txn[r] \in TxnType /\ txn \in [Requests -> TxnType]
  BY <1>1, ListInFlight
<1>3. /\ req'[r].pc = "reply" /\ req'[r].op = req[r].op
      /\ req'[r].user = req[r].user /\ req'[r].device = req[r].device
  BY <1>1, <1>2, MovedFields
<1>4. \A u \in Users, d \in Devices : row'[u].device[d] =
        IF u = txn[r].user /\ txn[r].put.device[d] # None THEN txn[r].put.device[d] ELSE row[u].device[d]
  BY CommittedRows
<1>5. req[r].user \in Users /\ txn[r].user \in {None, req[r].user}
  BY <1>2 DEF SubjectOK, AccountOK
<1>6. ASSUME req[r].op \in Lists, NEW d \in Devices
      PROVE  row'[req[r].user].device[d] = Pending(r, d)
  BY <1>1, <1>2, <1>4, <1>5, <1>6 DEF Pending, ListOK, Reading, At
<1>7. /\ \A d \in Devices : txn'[r].put.device[d] = None
      /\ txn'[r].user = None
  BY <1>1, <1>2 DEF BlankTxn, NoPut
<1>8. \A d \in Devices : Pending(r, d)' = row'[req[r].user].device[d]
  BY <1>3, <1>7 DEF Pending
<1>9. ListOK(r)'
  <2>1. req[r].op = "login" => row'[req[r].user].device[req[r].device] = "active" /\ req[r].device \in Devices
    BY <1>1, <1>2, <1>6 DEF ListOK, At, Lists, SubjectOK
  <2>2. req[r].op = "refresh" => row'[req[r].user].device[req[r].device] = "active"
    BY <1>1, <1>2, <1>4, <1>5 DEF ListOK, At, SubjectOK, DeviceWide, AccountWide
  <2>3. Ended(r)' = Ended(r) /\ (req[r].op \in DeviceWide \union AccountWide => Ended(r) \subseteq Devices)
    BY <1>2, <1>3 DEF Ended, SubjectOK
  <2>4. req[r].op \in DeviceWide \union AccountWide => \A d \in Ended(r) : row'[req[r].user].device[d] # "active"
    BY <1>1, <1>2, <1>6, <2>3 DEF ListOK, At, Lists
  <2>5. req[r].op \in DeviceWide => rt'[req[r].user][req[r].device] = 0
    BY <1>1, <1>2 DEF ListOK, BeforeDel, At
  <2> QED
    BY <1>3, <1>7, <1>8, <2>1, <2>2, <2>3, <2>4, <2>5 DEF ListOK, Reading
<1>10. ASSUME NEW n \in delivered, Stored(n)
       PROVE  row'[grants[n].user].device[grants[n].device] = "active"
  <2>1. /\ grants[n].user \in Users /\ grants[n].device \in Devices
        /\ rt[grants[n].user][grants[n].device] # 0
    BY <1>2, <1>10, GrantFields, StoredIsThere DEF IInv
  <2>2. row[grants[n].user].device[grants[n].device] = "active"
    BY <1>10 DEF LInv, SessionsAreListed
  <2>3. CASE grants[n].user # txn[r].user \/ txn[r].put.device[grants[n].device] = None
    BY <1>4, <2>1, <2>2, <2>3
  <2>4. CASE grants[n].user = txn[r].user /\ txn[r].put.device[grants[n].device] # None
    <3>1. grants[n].user = req[r].user
      BY <1>5, <2>1, <2>4, NoneIsNoValue
    <3>2. CASE req[r].op = "login" /\ txn[r].put.device[grants[n].device] = "active"
      BY <1>4, <2>1, <2>4, <3>2
    <3>3. CASE req[r].op \in DeviceWide \union AccountWide /\ grants[n].device \in Ended(r)
      <4>1. CASE req[r].op \in AccountWide
        BY <1>1, <1>2, <1>10, <3>1, <4>1 DEF EndingOK, At
      <4>2. CASE req[r].op \in DeviceWide
        BY <1>1, <1>2, <2>1, <3>1, <3>3, <4>2 DEF ListOK, BeforeDel, At, Ended, DeviceWide, AccountWide
      <4> QED
        BY <3>3, <4>1, <4>2
    <3> QED
      BY <1>2, <2>1, <2>4, <3>2, <3>3 DEF ListOK
  <2> QED
    BY <2>3, <2>4
<1> QED
  BY <1>1, <1>9, <1>10 DEF SessionsAreListed, Stored

\* The response of a login or refresh: its device is on the list.
LEMMA ReplyList ==
  ASSUME ~ReplyFirst, LInv, Grows, NEW r \in Requests, Reply(r)
  PROVE  SessionsAreListed' /\ ListOK(r)'
<1>1. /\ At(r, "reply") /\ ~At(r, "idle") /\ Leave(r) /\ UNCHANGED <<rt, grants, txn, row>>
      /\ delivered' = delivered \union ({req[r].minted} \ {0})
  BY DEF Reply, At, storeVars, dbVars
<1>2. SubjectOK(r) /\ MintingOK(r) /\ AccountOK(r) /\ ListOK(r)
  BY <1>1, ListInFlight
<1>3. txn[r] = BlankTxn
  BY <1>1, <1>2 DEF AccountOK, At
<1>4. \A d \in Devices : Pending(r, d) = row[req[r].user].device[d]
  BY <1>3 DEF Pending, BlankTxn, NoPut
<1>5. req[r].minted # 0 =>
        /\ row[req[r].user].device[req[r].device] = "active"
        /\ grants[req[r].minted].user = req[r].user
        /\ grants[req[r].minted].device = req[r].device
  BY <1>1, <1>2, <1>4 DEF MintingOK, ListOK, At, SubjectOK
<1>6. SessionsAreListed'
  BY <1>1, <1>5 DEF LInv, SessionsAreListed, Stored
<1>7. ListOK(r)'
  BY <1>1, <1>3, EmptyList
<1> QED
  BY <1>6, <1>7

\* Where each operation enters.
Entering(op, u, d, pc) ==
  \/ op = "signup" /\ pc = "insert_user"
  \/ op = "login" /\ pc \in {"raise", "upsert_device"}
  \/ op = "refresh" /\ pc = "get_by_id" /\ row[u].device[d] = "active"
  \/ op = "reuse" /\ pc = "del"
  \/ op = "force_logout" /\ pc = "find_device"
  \/ op \in {"logout", "logout_all"} /\ pc = "blacklist"
  \/ op \in {"update_me", "change_password", "delete_account"} /\ pc = "get_by_id"

\* A request enters an idle slot, with nothing flushed of user_devices.
LEMMA EnteredList ==
  ASSUME LInv, NEW r \in Requests, NEW op, NEW u, NEW d, NEW n, NEW pc, Enter(r, op, u, d, n, pc),
         UNCHANGED row, NEW t, txn' = [txn EXCEPT ![r] = t], \A e \in Devices : t.put.device[e] = None,
         t.user = None \/ op = "signup" \/ t.seen.device = row[u].device,
         t.user = u \/ op # "login", Entering(op, u, d, pc)
  PROVE  ListOK(r)'
<1>1. /\ req'[r].op = op /\ req'[r].pc = pc /\ req'[r].user = u /\ req'[r].device = d
  BY DEF Enter, LInv, OInv, AInv, IInv, TypeOK, ApiTypeOK
<1>2. txn'[r] = t
  BY DEF LInv, OInv, AInv, IInv, TypeOK, DbTypeOK
<1> QED
  BY <1>1, <1>2 DEF ListOK, Reading, BeforeDel, Lists, DeviceWide, AccountWide, Entering

LEMMA StartList ==
  ASSUME LInv, Grows, NEW r \in Requests, Start(r), ~UNCHANGED vars
  PROVE  SessionsAreListed' /\ ListOK(r)'
<1>1. /\ UNCHANGED <<grants, delivered>> /\ UNCHANGED row /\ At(r, "idle")
  BY DEF Start, Signup, Login, Refresh, Authenticated, Logout, LogoutAll, UpdateMe, ChangePassword,
         DeleteAccount, ForceLogout, TurnedAway, Enter, dbVars
<1>2. SessionsAreListed'
  BY <1>1, ListStands
<1>3. /\ \A d \in Devices : BlankTxn.put.device[d] = None
      /\ BlankTxn.user = None /\ BlankTxn \in TxnType
  BY BlankTxnType DEF BlankTxn, NoPut
<1>4. ASSUME NEW u \in Users, NEW p \in Passwords, Signup(r, u, p) PROVE ListOK(r)'
  <2> DEFINE t == [BlankTxn EXCEPT !.user = u, !.put = [NoPut EXCEPT !.status = "ACTIVE", !.pwd = p]]
  <2>1. \A e \in Devices : t.put.device[e] = None
    BY DEF BlankTxn, NoPut
  <2>2. Enter(r, "signup", u, None, 0, "insert_user") /\ txn' = [txn EXCEPT ![r] = t]
    BY <1>4 DEF Signup
  <2> HIDE DEF t
  <2>3. /\ Entering("signup", u, None, "insert_user") /\ (t.user = u \/ "signup" # "login")
        /\ UNCHANGED row
    BY <1>1 DEF Entering
  <2> QED
    BY <2>1, <2>2, <2>3, EnteredList, Zenon
<1>5. ASSUME NEW u \in Users, NEW d \in Devices, NEW p \in Passwords, Login(r, u, d, p) PROVE ListOK(r)'
  <2> DEFINE begun == [BlankTxn EXCEPT !.user = u, !.seen = row[u]]
             failed == [begun EXCEPT !.rows = {0}]
  <2>1. /\ begun.user = u /\ begun.seen = row[u] /\ \A e \in Devices : begun.put.device[e] = None
        /\ failed.user = u /\ failed.seen = row[u] /\ \A e \in Devices : failed.put.device[e] = None
    BY DEF BlankTxn, NoPut
  <2>2. PICK pc \in {"raise", "upsert_device"} :
          /\ Enter(r, "login", u, d, 0, pc) /\ UNCHANGED row
          /\ txn' = [txn EXCEPT ![r] = begun] \/ txn' = [txn EXCEPT ![r] = failed]
    BY <1>5 DEF Login
  <2> HIDE DEF begun, failed
  <2>3. Entering("login", u, d, pc)
    BY <2>2 DEF Entering
  <2>4. ASSUME NEW t, t.user = u, t.seen = row[u], \A e \in Devices : t.put.device[e] = None,
               txn' = [txn EXCEPT ![r] = t]
        PROVE  ListOK(r)'
    <3> DEFINE op == "login"
    <3>1. /\ t.user = u \/ op # "login"
          /\ t.user = None \/ op = "signup" \/ t.seen.device = row[u].device
      BY <2>4
    <3>2. Enter(r, op, u, d, 0, pc) /\ UNCHANGED row /\ Entering(op, u, d, pc)
      BY <2>2, <2>3
    <3> HIDE DEF op
    <3> QED
      BY <2>4, <3>1, <3>2, EnteredList, Zenon
  <2> QED
    BY <2>1, <2>2, <2>4
<1>6. ASSUME NEW op, NEW u, NEW d, NEW n, NEW pc, Enter(r, op, u, d, n, pc), UNCHANGED dbVars,
             Entering(op, u, d, pc), op # "login"
      PROVE  ListOK(r)'
  <2> DEFINE t == BlankTxn
  <2>1. txn[r] = BlankTxn /\ txn \in [Requests -> TxnType]
    BY <1>1 DEF At, LInv, OInv, AInv, AccountOK, IInv, TypeOK, DbTypeOK
  <2>2. txn' = [txn EXCEPT ![r] = t]
    BY <1>6, <2>1 DEF dbVars
  <2>3. t.user = None /\ \A e \in Devices : t.put.device[e] = None
    BY <1>3
  <2> HIDE DEF t
  <2>4. UNCHANGED row
    BY <1>6 DEF dbVars
  <2> QED
    BY <1>6, <2>2, <2>3, <2>4, EnteredList, Zenon
<1>7. ASSUME NEW n \in 1..MaxGrants, Refresh(r, n) PROVE ListOK(r)'
  <2> DEFINE u == grants[n].user
             d == grants[n].device
  <2>1. UNCHANGED dbVars /\ \/ rt[u][d] = n /\ Enter(r, "refresh", u, d, n, "get_by_id")
                            \/ Enter(r, "reuse", u, d, n, "del")
    BY <1>7 DEF Refresh
  <2>2. rt[u][d] = n => row[u].device[d] = "active"
    BY <1>7 DEF Refresh, LInv, SessionsAreListed, Stored
  <2> HIDE DEF u, d
  <2> QED
    BY <1>6, <2>1, <2>2 DEF Entering
<1>8. ASSUME NEW op, NEW n, NEW d, NEW pc, Authenticated(r, op, n, d, pc),
             \/ op = "force_logout" /\ pc = "find_device"
             \/ op \in {"logout", "logout_all"} /\ pc = "blacklist"
             \/ op \in {"update_me", "change_password", "delete_account"} /\ pc = "get_by_id"
      PROVE  ListOK(r)'
  BY <1>6, <1>8 DEF Authenticated, Entering
<1> QED
  BY <1>2, <1>4, <1>5, <1>7, <1>8 DEF Start, TurnedAway, Logout, LogoutAll, UpdateMe, ChangePassword,
                                      DeleteAccount, ForceLogout

LEMMA OutsideList ==
  ASSUME LInv, Grows, (\E u \in Users, d \in Devices : Expire(u, d)) \/ \E u \in Users : Suspend(u)
  PROVE  SessionsAreListed' /\ \A r \in Requests : ListOK(r)'
<1>1. UNCHANGED <<grants, delivered, req, txn>>
  BY DEF Expire, Suspend, SetStatus, storeVars, dbVars
<1>2. \A u \in Users : row'[u].device = row[u].device
  BY DEF Expire, Suspend, SetStatus, dbVars, LInv, OInv, AInv, IInv, TypeOK, DbTypeOK, RowType
<1>3. \A u \in Users, d \in Devices : rt[u][d] = 0 => rt'[u][d] = 0
  <2>1. ASSUME NEW u \in Users, NEW d \in Devices, Expire(u, d) PROVE rt' = [rt EXCEPT ![u][d] = 0]
    BY <2>1 DEF Expire, RtExpire
  <2>2. ASSUME NEW u \in Users, Suspend(u) PROVE rt' = rt
    BY <2>2 DEF Suspend, storeVars
  <2>3. \A u \in Users, d \in Devices :
          rt' = [rt EXCEPT ![u][d] = 0] => \A v \in Users, e \in Devices : rt[v][e] = 0 => rt'[v][e] = 0
    BY DEF LInv, OInv, AInv, IInv, TypeOK, StoreTypeOK
  <2> QED
    BY <2>1, <2>2, <2>3
<1>4. ASSUME NEW r \in Requests PROVE ListOK(r)'
  <2>1. CASE At(r, "idle")
    <3>1. txn[r] = BlankTxn
      BY <2>1 DEF At, LInv, OInv, AInv, AccountOK
    <3>2. BlankTxn.user = None /\ \A d \in Devices : BlankTxn.put.device[d] = None
      BY DEF BlankTxn, NoPut
    <3> QED
      BY <1>1, <2>1, <3>1, <3>2 DEF ListOK, Reading, At
  <2>2. CASE ~At(r, "idle")
    <3>1. ListOK(r) /\ SubjectOK(r)
      BY <2>2, ListInFlight
    <3>2. \A d : Pending(r, d)' = Pending(r, d)
      BY <1>1, <1>2, <3>1 DEF Pending, SubjectOK
    <3>3. (Ended(r)' = Ended(r)) /\ (Reading(r)' = Reading(r)) /\ (BeforeDel(r)' = BeforeDel(r))
      BY <1>1 DEF Ended, Reading, BeforeDel
    <3>4. req[r].op \in DeviceWide => req[r].device \in Devices
      BY <3>1 DEF SubjectOK
    <3> QED
      BY <1>1, <1>2, <1>3, <3>1, <3>2, <3>3, <3>4 DEF ListOK, SubjectOK
  <2> QED
    BY <2>1, <2>2
<1> QED
  BY <1>1, <1>2, <1>4, ListStands

\* What the other slots know of the list survives a step that concerns none of
\* their devices.
LEMMA StepSparesRows ==
  ASSUME LInv, NEW r \in Requests, Step(r) \/ Fail(r),
         NEW u \in Users, NEW d \in Devices, ~Concerns(r, u, d)
  PROVE  row'[u].device[d] = row[u].device[d]
<1>1. CASE Commit(r)
  <2>1. At(r, "commit") /\ ~At(r, "idle")
    BY <1>1 DEF Commit, At
  <2>2. ListOK(r) /\ AccountOK(r)
    BY <2>1, ListInFlight
  <2>3. ~(u = txn[r].user /\ txn[r].put.device[d] # None)
    <3>1. SUFFICES ASSUME u = txn[r].user, txn[r].put.device[d] # None PROVE FALSE
      OBVIOUS
    <3>2. req[r].user = u
      BY <2>2, <3>1, NoneIsNoValue DEF AccountOK
    <3>3. Concerns(r, u, d)
      BY <2>1, <2>2, <3>1, <3>2 DEF Concerns, ListOK, Ended, At
    <3> QED
      BY <3>3
  <2> QED
    BY <1>1, <2>3, CommittedRows
<1>2. CASE ~Commit(r)
  BY <1>2, StepAccount DEF AccountKeeps, LInv, OInv
<1> QED
  BY <1>1, <1>2

LEMMA OtherList ==
  ASSUME LInv, NEW q \in Requests, req'[q] = req[q], txn'[q] = txn[q],
         \A u \in Users, d \in Devices :
           Concerns(q, u, d) => Spared(u, d) /\ row'[u].device[d] = row[u].device[d]
  PROVE  ListOK(q)'
<1>1. ListOK(q) /\ AccountOK(q)
  BY DEF LInv, OInv, AInv
<1>2. req[q].pc # "idle" => SubjectOK(q) /\ req[q].user \in Users
  BY ListInFlight DEF At, SubjectOK
<1>3. req[q].op \in Lists /\ req[q].pc # "idle" => Ended(q) \subseteq Devices
  BY <1>2 DEF Ended, SubjectOK, Lists
<1>4. ASSUME req[q].op \in Lists \union {"refresh"}, req[q].pc \notin {"idle", "raise"},
             NEW d \in Devices, d = req[q].device \/ req[q].op \in AccountWide
      PROVE  /\ row'[req[q].user].device[d] = row[req[q].user].device[d]
             /\ Pending(q, d)' = Pending(q, d)
             /\ rt[req[q].user][d] = 0 => rt'[req[q].user][d] = 0
  <2>1. Concerns(q, req[q].user, d)
    BY <1>4 DEF Concerns, Lists
  <2>2. Spared(req[q].user, d) /\ row'[req[q].user].device[d] = row[req[q].user].device[d]
    BY <1>2, <1>4, <2>1
  <2> QED
    BY <2>2 DEF Spared, Pending
<1>5. (Ended(q)' = Ended(q)) /\ (Reading(q)' = Reading(q)) /\ (BeforeDel(q)' = BeforeDel(q))
  BY DEF Ended, Reading, BeforeDel
<1>6. ASSUME req[q].op \in Lists, req[q].pc # "raise", txn[q].user # None, NEW d \in Ended(q)
      PROVE  txn[q].seen.device[d] = row'[req[q].user].device[d]
  <2>1. req[q].pc # "idle"
    BY <1>1, <1>6 DEF AccountOK, BlankTxn
  <2> QED
    BY <1>1, <1>3, <1>4, <1>6, <2>1 DEF ListOK, Ended
<1>7. ASSUME req[q].op = "login", req[q].pc \in {"update_last_login", "setex", "sadd", "commit", "reply"}
      PROVE  Pending(q, req[q].device)' = "active"
  BY <1>1, <1>2, <1>4, <1>7 DEF ListOK, SubjectOK, Lists
<1>8. ASSUME req[q].op = "refresh", req[q].pc \notin {"idle", "raise"}
      PROVE  row'[req[q].user].device[req[q].device] = "active"
  BY <1>1, <1>2, <1>4, <1>8 DEF ListOK, SubjectOK
<1>9. ASSUME req[q].op \in DeviceWide \union AccountWide, req[q].pc \in {"commit", "reply"}, NEW d \in Ended(q)
      PROVE  Pending(q, d)' # "active"
  BY <1>1, <1>3, <1>4, <1>9 DEF ListOK, Ended, Lists
<1>10. ASSUME req[q].op \in DeviceWide, req[q].pc \notin {"idle", "raise"}, ~BeforeDel(q)
       PROVE  rt'[req[q].user][req[q].device] = 0
  BY <1>1, <1>2, <1>4, <1>10 DEF ListOK, SubjectOK, Lists
<1> QED
  BY <1>1, <1>5, <1>6, <1>7, <1>8, <1>9, <1>10 DEF ListOK

LEMMA OthersListed ==
  ASSUME Apart, LInv, NEW r \in Requests, Start(r) \/ Step(r) \/ Fail(r), NEW q \in Requests, q # r
  PROVE  ListOK(q)'
<1>1. req'[q] = req[q] /\ txn'[q] = txn[q]
  <2>1. CASE Start(r)
    BY <2>1, StartAccount DEF AccountKeeps, LInv, OInv, vars
  <2>2. CASE Commit(r)
    <3>1. Leave(r) \/ Goto(r, "reply")
      BY <2>2 DEF Commit
    <3> QED
      BY <2>2, <3>1 DEF Commit, CommitTxn, Leave, Goto, LInv, OInv, AInv, IInv, TypeOK, ApiTypeOK, DbTypeOK
  <2>3. CASE (Step(r) \/ Fail(r)) /\ ~Commit(r)
    BY <2>3, StepAccount DEF AccountKeeps, LInv, OInv
  <2> QED
    BY <2>1, <2>2, <2>3
<1>2. ASSUME NEW u \in Users, NEW d \in Devices, Concerns(q, u, d)
      PROVE  Spared(u, d) /\ row'[u].device[d] = row[u].device[d]
  <2>1. CASE Start(r)
    BY <2>1 DEF Spared, Start, Signup, Login, Refresh, Authenticated, Logout, LogoutAll, UpdateMe,
                ChangePassword, DeleteAccount, ForceLogout, TurnedAway, Enter, storeVars, dbVars, vars
  <2>2. CASE Step(r) \/ Fail(r)
    BY <1>2, <2>2, StepSpares, StepSparesRows DEF Apart, LInv
  <2> QED
    BY <2>1, <2>2
<1> QED
  BY <1>1, <1>2, OtherList

LEMMA NextLInv ==
  ASSUME Apart, ~ReplyFirst, LInv, [Next]_vars
  PROVE  LInv'
<1>1. OInv' /\ Grows
  BY NextOInv, NextIInv DEF LInv, OInv, AInv
<1>2. ASSUME NEW r \in Requests, Start(r) \/ Step(r) \/ Fail(r), SessionsAreListed', ListOK(r)'
      PROVE  LInv'
  BY <1>1, <1>2, OthersListed DEF LInv
<1>3. CASE UNCHANGED vars
  BY <1>1, <1>3 DEF vars, LInv, SessionsAreListed, ListOK, Pending, Ended, Reading, BeforeDel, Stored
<1>4. ASSUME NEW r \in Requests, Start(r), ~UNCHANGED vars PROVE LInv'
  BY <1>1, <1>2, <1>4, StartList
<1>5. ASSUME NEW r \in Requests, Step(r) \/ Fail(r) PROVE LInv'
  <2>1. CASE Commit(r)
    BY <1>1, <1>2, <1>5, <2>1, CommitList
  <2>2. CASE Reply(r)
    BY <1>1, <1>2, <1>5, <2>2, ReplyList
  <2>3. CASE ~Commit(r) /\ ~Reply(r)
    <3>1. UNCHANGED row
      BY <1>5, <2>3, StepAccount DEF AccountKeeps, LInv, OInv
    <3>2. delivered' = delivered
      BY <1>5, <2>3 DEF Step, Fail, Raise, InsertUser, UpsertDevice, UpdateLastLogin, WriteUser, GetById,
                        FindDevice, FindDevices, Deactivate, SetexToken, SaddDevice, Blacklist, DelToken,
                        SremDevice, Smembers, DeleteAllTokens, Goto
    <3>3. \A n \in delivered : n \in 1..Len(grants)
      BY GrantFields DEF LInv, OInv, AInv, IInv
    <3>4. SessionsAreListed'
      BY <1>1, <3>1, <3>2, <3>3 DEF LInv, SessionsAreListed, Grows
    <3>5. CASE Raise(r) \/ Fail(r)
      <4>1. Leave(r) /\ txn'[r] = BlankTxn
        BY <3>5 DEF Raise, Fail, RollbackTxn, LInv, OInv, AInv, IInv, TypeOK, DbTypeOK
      <4> QED
        BY <1>2, <1>5, <3>4, <4>1, EmptyList
    <3>6. CASE ~Raise(r) /\ ~Fail(r)
      <4>1. ListOK(r)'
        BY <1>5, <2>3, <3>6, PlainDbList, PlainStoreList, UpsertList, DeactivateList, BegunList DEF Step
      <4> QED
        BY <1>2, <1>5, <3>4, <4>1
    <3> QED
      BY <3>5, <3>6
  <2> QED
    BY <2>1, <2>2, <2>3
<1>6. CASE (\E u \in Users, d \in Devices : Expire(u, d)) \/ \E u \in Users : Suspend(u)
  BY <1>1, <1>6, OutsideList DEF LInv
<1> QED
  BY <1>3, <1>4, <1>5, <1>6 DEF Next

LEMMA InitLInv == Init => LInv
<1> SUFFICES ASSUME Init PROVE LInv
  OBVIOUS
<1>1. delivered = {} /\ \A r \in Requests : req[r] = Idle /\ txn[r] = BlankTxn
  BY DEF Init, DbInit
<1>2. Idle.pc = "idle" /\ BlankTxn.user = None /\ \A d \in Devices : BlankTxn.put.device[d] = None
  BY DEF Idle, BlankTxn, NoPut
<1>3. SessionsAreListed /\ \A r \in Requests : ListOK(r)
  BY <1>1, <1>2 DEF SessionsAreListed, ListOK, Reading
<1> QED
  BY <1>3, InitOInv DEF LInv

LEMMA ListInvariant == ASSUME ~ReplyFirst PROVE ApartSpec => []LInv
<1>1. LInv /\ Apart /\ [Next /\ Apart']_vars => LInv'
  BY NextLInv
<1> QED
  BY <1>1, InitLInv, ApartInvariant, PTL DEF ApartSpec

\* GET /users/me/devices: every session a client can refresh is of a device the
\* list shows, whatever requests failed and tokens expired before.
THEOREM ListedApart == ASSUME ~ReplyFirst PROVE ApartSpec => []SessionsAreListed
<1>1. LInv => SessionsAreListed
  BY DEF LInv
<1> QED
  BY <1>1, ListInvariant, PTL

\* deactivate_device and deactivate_all_devices: what a revocation ended is off
\* the list when it is answered.
THEOREM UnlistedApart == ASSUME ~ReplyFirst PROVE ApartSpec => EndedSessionsAreUnlisted
<1>1. ASSUME LInv, [Next]_vars
      PROVE  [\A r \in Requests : Reply(r) /\ req[r].op \in DeviceWide \union AccountWide =>
                \A n \in req[r].prior : row'[req[r].user].device[grants[n].device] # "active"]_vars
  <2> SUFFICES ASSUME NEW r \in Requests, Reply(r), req[r].op \in DeviceWide \union AccountWide,
                      NEW n \in req[r].prior
               PROVE  row'[req[r].user].device[grants[n].device] # "active"
    OBVIOUS
  <2>1. At(r, "reply") /\ ~At(r, "idle") /\ UNCHANGED row
    BY DEF Reply, At, dbVars
  <2>2. SubjectOK(r) /\ AccountOK(r) /\ ListOK(r) /\ BoundsOK(r) /\ TypeOK
    BY <1>1, <2>1, ListInFlight, InFlight DEF IInv
  <2>3. grants[n].device \in Ended(r)
    BY <2>2, GrantFields DEF Ended, SubjectOK, BoundsOK
  <2>4. txn[r] = BlankTxn
    BY <1>1, <2>1, <2>2 DEF AccountOK, At
  <2>5. \A d \in Devices : Pending(r, d) = row[req[r].user].device[d]
    BY <2>4 DEF Pending, BlankTxn, NoPut
  <2>6. grants[n].device \in Devices
    BY <2>2, GrantFields DEF BoundsOK
  <2> QED
    BY <2>1, <2>2, <2>3, <2>5, <2>6 DEF ListOK, At
<1> QED
  BY <1>1, ListInvariant, PTL DEF ApartSpec, EndedSessionsAreUnlisted

=============================================================================
