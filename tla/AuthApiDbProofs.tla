-------------------------- MODULE AuthApiDbProofs --------------------------
(***************************************************************************)
(* What the database half of AuthApi keeps, for any number of users,       *)
(* devices and requests in flight: the login history where the commit      *)
(* precedes the answer (LoginsAreRecorded), and the accounts in either     *)
(* order (AccountIsNotOverwritten).                                        *)
(***************************************************************************)
EXTENDS AuthApiProofs

(***************************************************************************)
(* The login history: a login that has its tokens carries its row up to    *)
(* the commit, and finds it in the history from there on.                  *)
(***************************************************************************)
RecordOK(r) ==
  /\ req[r].minted # 0 /\ grants[req[r].minted].parent = 0 => req[r].op = "login"
  /\ req[r].op = "login" /\ req[r].pc = "commit" => txn[r].rows = {req[r].minted}
  /\ req[r].op = "login" /\ req[r].pc = "reply" => req[r].minted \in history

RInv == IInv /\ LoginsAreRecorded /\ \A r \in Requests : RecordOK(r)

\* What a step does to the history and the deliveries, seen from the slots.
RecordKeeps(r) == /\ RecordOK(r)'
                  /\ LoginsAreRecorded'
                  /\ history \subseteq history'

\* Only its own row of the history can trouble a slot.
LEMMA OthersRecorded ==
  ASSUME RInv, Grows, NEW q \in Requests, SameSlot(q), history \subseteq history'
  PROVE  RecordOK(q)'
<1>1. req[q].minted \in 0..Len(grants) /\ Len(grants) \in Nat /\ RecordOK(q)
  BY DEF RInv, IInv, SlotOK, BoundsOK, TypeOK, ApiTypeOK
<1>2. req[q].minted # 0 => grants'[req[q].minted] = grants[req[q].minted]
  BY <1>1 DEF Grows
<1> QED
  BY <1>1, <1>2 DEF RecordOK, SameSlot

\* Without a response the deliveries stand, and the history only grows.
LEMMA DeliveriesStand ==
  ASSUME RInv, Grows, UNCHANGED delivered, history \subseteq history'
  PROVE  LoginsAreRecorded'
<1>1. Len(grants) \in Nat /\ delivered \subseteq 1..Len(grants)
  BY DEF RInv, IInv, TypeOK, ApiTypeOK
<1>2. ASSUME NEW n \in delivered PROVE grants'[n].parent = grants[n].parent
  BY <1>1 DEF Grows
<1> QED
  BY <1>2 DEF RInv, LoginsAreRecorded

\* A slot that empties.
LEMMA EmptyRecord ==
  ASSUME RInv, NEW r \in Requests, Leave(r)
  PROVE  RecordOK(r)'
<1>1. req'[r] = Idle
  BY LeaveType DEF RInv, IInv, TypeOK, ApiTypeOK
<1> QED
  BY <1>1 DEF RecordOK, Idle

\* A request enters, with nothing minted yet.
LEMMA StartRecords ==
  ASSUME RInv, NEW r \in Requests, Start(r), Keeps(r), ~UNCHANGED vars
  PROVE  RecordKeeps(r)
<1>1. UNCHANGED <<history, delivered>> /\ Grows
  BY DEF Keeps, Start, Signup, Login, Refresh, Authenticated, Logout, LogoutAll, UpdateMe, ChangePassword,
         DeleteAccount, ForceLogout, TurnedAway, Enter, dbVars
<1>2. PICK op, u, d, n, pc : Enter(r, op, u, d, n, pc) /\ pc \notin {"commit", "reply"}
  <2>1. CASE \E u \in Users, p \in Passwords : Signup(r, u, p)
    BY <2>1 DEF Signup
  <2>2. CASE \E u \in Users, d \in Devices, p \in Passwords : Login(r, u, d, p)
    BY <2>2 DEF Login
  <2>3. CASE \E n \in 1..MaxGrants :
               \/ Refresh(r, n) \/ Logout(r, n) \/ LogoutAll(r, n) \/ UpdateMe(r, n)
               \/ ChangePassword(r, n) \/ DeleteAccount(r, n) \/ \E d \in Devices : ForceLogout(r, n, d)
    BY <2>3 DEF Refresh, Authenticated, Logout, LogoutAll, UpdateMe, ChangePassword, DeleteAccount, ForceLogout
  <2> QED
    BY <2>1, <2>2, <2>3 DEF Start, TurnedAway
<1>3. req'[r].pc = pc /\ req'[r].minted = 0
  BY <1>2 DEF Enter, RInv, IInv, TypeOK, ApiTypeOK
<1>4. RecordOK(r)'
  BY <1>2, <1>3 DEF RecordOK
<1> QED
  BY <1>1, <1>4, DeliveriesStand DEF RecordKeeps

\* The steps that leave the history alone: none takes a login to its commit.
LEMMA PlainStepRecords ==
  ASSUME ~ReplyFirst, RInv, Grows, NEW r \in Requests,
         \/ InsertUser(r) \/ UpsertDevice(r) \/ UpdateLastLogin(r) \/ WriteUser(r)
         \/ GetById(r) \/ FindDevice(r) \/ FindDevices(r) \/ Deactivate(r)
         \/ Blacklist(r) \/ DelToken(r) \/ SremDevice(r) \/ Smembers(r) \/ DeleteAllTokens(r)
  PROVE  RecordKeeps(r)
<1>1. req[r].pc # "idle" /\ UNCHANGED <<grants, delivered, history>>
  BY DEF At, InsertUser, UpsertDevice, UpdateLastLogin, WriteUser, GetById, FindDevice, FindDevices,
         Deactivate, Blacklist, DelToken, SremDevice, Smembers, DeleteAllTokens, Goto, dbVars
<1>2. ControlOK(r)
  BY <1>1, InFlight DEF RInv, At
<1>3. PICK pc : /\ pc # "reply" /\ (pc = "commit" => req[r].op # "login")
                /\ Goto(r, pc) \/ (Smembers(r) /\ pc = "delete_all")
  BY <1>2 DEF ControlOK, AccountWide, DeviceWide, At, Returned, InsertUser, UpsertDevice, UpdateLastLogin, WriteUser, GetById,
              FindDevice, FindDevices, Deactivate, Blacklist, DelToken, SremDevice, Smembers, DeleteAllTokens
<1>4. req'[r].pc = pc /\ req'[r].op = req[r].op /\ req'[r].minted = req[r].minted
  BY <1>3, MovedFields DEF RInv, Smembers, IInv, TypeOK, ApiTypeOK, Request
<1>5. RecordOK(r)'
  BY <1>1, <1>3, <1>4 DEF RInv, RecordOK
<1> QED
  BY <1>1, <1>5, DeliveriesStand DEF RecordKeeps

\* SETEX: only the grant of a login has no parent.
LEMMA SetexRecords ==
  ASSUME RInv, Grows, NEW r \in Requests, SetexToken(r)
  PROVE  RecordKeeps(r)
<1>1. /\ At(r, "setex") /\ UNCHANGED <<history, delivered>>
      /\ grants' = Append(grants, [user |-> req[r].user, device |-> req[r].device, parent |-> req[r].grant])
      /\ req' = [req EXCEPT ![r].pc = "sadd", ![r].minted = Len(grants) + 1]
  BY DEF SetexToken, dbVars
<1>2. ControlOK(r) /\ SubjectOK(r) /\ req[r] \in Request /\ Len(grants) \in Nat
      /\ req \in [Requests -> Request] /\ delivered \subseteq 1..Len(grants) /\ grants \in Seq(Grant)
  BY <1>1, InFlight DEF RInv, IInv, TypeOK, ApiTypeOK, At
<1>3. req'[r].pc = "sadd" /\ req'[r].op = req[r].op /\ req'[r].minted = Len(grants) + 1
  BY <1>1, <1>2 DEF Request
<1>4. req[r].grant = 0 => req[r].op = "login"
  BY <1>1, <1>2 DEF ControlOK, SubjectOK, At
<1>5. grants'[Len(grants) + 1].parent = req[r].grant
  BY <1>1, <1>2
<1>6. RecordOK(r)'
  BY <1>2, <1>3, <1>4, <1>5 DEF RecordOK
<1> QED
  BY <1>1, <1>6, DeliveriesStand DEF RecordKeeps

\* SADD, and the history row of a login.
LEMMA SaddRecords ==
  ASSUME ~ReplyFirst, RInv, Grows, NEW r \in Requests, SaddDevice(r)
  PROVE  RecordKeeps(r)
<1>1. /\ UNCHANGED <<history, delivered, grants>> /\ Goto(r, "commit")
      /\ txn' = [txn EXCEPT ![r].rows = IF req[r].op = "login" THEN {req[r].minted} ELSE {}]
  BY DEF SaddDevice, Goto, Returned
<1>2. txn \in [Requests -> TxnType] /\ txn[r] \in TxnType
  BY DEF RInv, IInv, TypeOK, DbTypeOK
<1>3. txn'[r].rows = IF req[r].op = "login" THEN {req[r].minted} ELSE {}
  BY <1>1, <1>2 DEF TxnType
<1>4. req'[r].pc = "commit" /\ req'[r].op = req[r].op /\ req'[r].minted = req[r].minted
  BY <1>1, MovedFields DEF RInv
<1>5. RecordOK(r)'
  BY <1>1, <1>3, <1>4 DEF RInv, RecordOK
<1> QED
  BY <1>1, <1>5, DeliveriesStand DEF RecordKeeps

\* COMMIT puts the row of a login into the history.
LEMMA CommitRecords ==
  ASSUME ~ReplyFirst, RInv, Grows, NEW r \in Requests, Commit(r)
  PROVE  RecordKeeps(r)
<1>1. /\ At(r, "commit") /\ UNCHANGED <<delivered, grants>> /\ Goto(r, "reply")
      /\ history' = history \union txn[r].rows
  BY DEF Commit, CommitTxn, Goto
<1>2. req'[r].pc = "reply" /\ req'[r].op = req[r].op /\ req'[r].minted = req[r].minted
  BY <1>1, MovedFields DEF RInv
<1>3. RecordOK(r)'
  BY <1>1, <1>2 DEF RInv, RecordOK, At
<1> QED
  BY <1>1, <1>3, DeliveriesStand DEF RecordKeeps

\* The response of a login follows its commit.
LEMMA ReplyRecords ==
  ASSUME ~ReplyFirst, RInv, Grows, NEW r \in Requests, Reply(r)
  PROVE  RecordKeeps(r)
<1>1. /\ At(r, "reply") /\ UNCHANGED <<history, grants>> /\ Leave(r)
      /\ delivered' = delivered \union ({req[r].minted} \ {0})
  BY DEF Reply, dbVars
<1>2. LoginsAreRecorded'
  BY <1>1 DEF RInv, LoginsAreRecorded, RecordOK, At
<1> QED
  BY <1>1, <1>2, EmptyRecord DEF RecordKeeps

\* A rejection and a failure deliver nothing.
LEMMA GivenUpRecords ==
  ASSUME RInv, Grows, NEW r \in Requests, Raise(r) \/ Fail(r)
  PROVE  RecordKeeps(r)
<1>1. UNCHANGED <<history, delivered>> /\ Leave(r)
  BY DEF Raise, Fail, RollbackTxn
<1> QED
  BY <1>1, DeliveriesStand, EmptyRecord DEF RecordKeeps

LEMMA NextRInv ==
  ASSUME ~ReplyFirst, RInv, [Next]_vars
  PROVE  RInv'
<1>1. IInv' /\ Grows
  BY NextIInv DEF RInv
<1>2. ASSUME NEW r \in Requests, Keeps(r), RecordKeeps(r) PROVE RInv'
  BY <1>1, <1>2, OthersRecorded DEF RInv, Keeps, RecordKeeps
<1>3. CASE UNCHANGED vars
  <2>1. \A q \in Requests : SameSlot(q)
    BY <1>3 DEF vars, SameSlot
  <2> QED
    BY <1>1, <1>3, <2>1, OthersRecorded, DeliveriesStand DEF vars, RInv
<1>4. ASSUME NEW r \in Requests, Start(r), ~UNCHANGED vars PROVE RInv'
  BY <1>2, <1>4, StartKeeps, StartRecords DEF RInv
<1>5. ASSUME NEW r \in Requests, Step(r) \/ Fail(r) PROVE RInv'
  <2>1. Keeps(r)
    BY <1>5, StepKeeps DEF RInv
  <2>2. RecordKeeps(r)
    BY <1>1, <1>5, PlainStepRecords, SetexRecords, SaddRecords, CommitRecords, ReplyRecords,
       GivenUpRecords DEF Step
  <2> QED
    BY <1>2, <2>1, <2>2
<1>6. CASE \/ \E u \in Users, d \in Devices : Expire(u, d)
           \/ \E u \in Users : Suspend(u)
  <2>1. UNCHANGED <<history, delivered>> /\ \A q \in Requests : SameSlot(q)
    BY <1>6 DEF Expire, Suspend, SetStatus, dbVars, SameSlot
  <2> QED
    BY <1>1, <2>1, OthersRecorded, DeliveriesStand DEF RInv
<1> QED
  BY <1>3, <1>4, <1>5, <1>6 DEF Next

LEMMA InitRInv == Init => RInv
<1> SUFFICES ASSUME Init PROVE RInv
  OBVIOUS
<1>1. LoginsAreRecorded /\ \A r \in Requests : RecordOK(r)
  BY DEF Init, DbInit, LoginsAreRecorded, RecordOK, Idle, BlankTxn
<1> QED
  BY <1>1, InitIInv DEF RInv

\* AuthService.login, LoginHistoryRepository.create and get_db: where the commit
\* precedes the response, a client that has the tokens of a login finds it in
\* login_histories, whatever failed after the tokens were stored.
THEOREM LoginsRecorded ==
  ASSUME ~ReplyFirst PROVE Spec => []LoginsAreRecorded
<1>1. RInv /\ [Next]_vars => RInv'
  BY NextRInv
<1>2. RInv => LoginsAreRecorded
  BY DEF RInv
<1> QED
  BY <1>1, <1>2, InitRInv, PTL DEF Spec

-----------------------------------------------------------------------------
(***************************************************************************)
(* The accounts: what the transaction of a slot may write, and under which *)
(* lock.                                                                   *)
(***************************************************************************)
AccountOK(r) ==
  /\ txn[r].user \in {None, req[r].user}
  /\ req[r].pc = "idle" \/ (~ReplyFirst /\ req[r].pc = "reply") => txn[r] = BlankTxn
  /\ txn[r].put.status \in {None, "ACTIVE", "WITHDRAWN"}
  /\ txn[r].put.status = "ACTIVE" =>
       /\ req[r].op = "signup"
       /\ req[r].pc \in {"commit", "reply"} => /\ "user" \in txn[r].locks
                                               /\ txn[r].user = req[r].user
                                               /\ row[req[r].user].status = "absent"
  /\ txn[r].put.status = "WITHDRAWN" => /\ req[r].op = "delete_account"
                                        /\ "user" \in txn[r].locks
                                        /\ txn[r].user = req[r].user
                                        /\ row[req[r].user].status # "absent"
  /\ txn[r].put.pwd # None =>
       \/ req[r].op = "signup" /\ txn[r].put.status = "ACTIVE"
       \/ req[r].op = "change_password" /\ row[req[r].user].status # "absent"
  /\ req[r].pc \in {"insert_user", "write_user"} => txn[r].user = req[r].user
  /\ req[r].pc = "write_user" => row[req[r].user].status # "absent"

\* Two transactions on one account do not both hold the lock on its users row.
Exclusive ==
  \A q, r \in Requests : q # r /\ txn[q].user = txn[r].user =>
    ~("user" \in txn[q].locks /\ "user" \in txn[r].locks)

\* An account that is not there has no password a signup could overwrite.
NoPassword == \A u \in Users : row[u].status = "absent" => row[u].pwd = None

AInv == IInv /\ Exclusive /\ NoPassword /\ \A r \in Requests : AccountOK(r)

\* A step of slot r that commits nothing.
AccountKeeps(r) == /\ AccountOK(r)' /\ Exclusive'
                   /\ UNCHANGED row
                   /\ \A q \in Requests : q # r => req'[q] = req[q] /\ txn'[q] = txn[q]

LEMMA OtherAccounts ==
  ASSUME AInv, NEW q \in Requests, req'[q] = req[q], txn'[q] = txn[q], UNCHANGED row
  PROVE  AccountOK(q)'
BY DEF AInv, AccountOK

\* What a flush does to its own transaction and to the locks.
LEMMA FlushedAccount ==
  ASSUME AInv, NEW r \in Requests, NEW L, NEW put, Flush(r, L, put)
  PROVE  /\ txn'[r].user = txn[r].user /\ txn'[r].put = put
         /\ txn'[r].locks = txn[r].locks \union L
         /\ \A q \in Requests : q # r => txn'[q] = txn[q]
         /\ Exclusive'
<1>1. txn \in [Requests -> TxnType] /\ txn[r] \in TxnType
  BY DEF AInv, IInv, TypeOK, DbTypeOK
<1>2. /\ txn'[r].user = txn[r].user /\ txn'[r].put = put
      /\ txn'[r].locks = txn[r].locks \union L
      /\ \A q \in Requests : q # r => txn'[q] = txn[q]
  BY <1>1 DEF Flush, TxnType
<1>3. ASSUME NEW q \in Requests, q # r, txn[q].user = txn[r].user, "user" \in L
      PROVE  "user" \notin txn[q].locks
  BY <1>3 DEF Flush, CanLock, Conflicts
<1>4. Exclusive'
  <2> SUFFICES ASSUME NEW q \in Requests, NEW s \in Requests, q # s, txn'[q].user = txn'[s].user
               PROVE  ~("user" \in txn'[q].locks /\ "user" \in txn'[s].locks)
    BY DEF Exclusive
  <2>1. txn[q].user = txn[s].user /\ ~("user" \in txn[q].locks /\ "user" \in txn[s].locks)
    BY <1>2 DEF AInv, Exclusive
  <2> QED
    BY <1>2, <1>3, <2>1
<1> QED
  BY <1>2, <1>4

\* A transaction that begins or ends holds no lock.
LEMMA NoLocks ==
  ASSUME AInv, NEW r \in Requests, NEW t, t.locks = {}, txn' = [txn EXCEPT ![r] = t]
  PROVE  /\ txn'[r] = t /\ Exclusive'
         /\ \A q \in Requests : q # r => txn'[q] = txn[q]
<1>1. txn'[r] = t /\ \A q \in Requests : q # r => txn'[q] = txn[q]
  BY DEF AInv, IInv, TypeOK, DbTypeOK
<1> QED
  BY <1>1 DEF AInv, Exclusive

\* A request other than a signup moves on, and flushes no status and, unless it
\* changes the password of an account that is there, no password.
LEMMA MovedAccount ==
  ASSUME AInv, NEW r \in Requests, req[r].pc # "idle", req[r].op # "signup",
         NEW pc, pc \notin {"idle", "insert_user"}, pc = "reply" => ReplyFirst, req'[r].pc = pc,
         req'[r].op = req[r].op, req'[r].user = req[r].user, UNCHANGED row,
         txn'[r].user \in {txn[r].user, req[r].user},
         txn'[r].put.status # None => /\ txn'[r].put.status = txn[r].put.status
                                      /\ txn'[r].user = txn[r].user
                                      /\ txn[r].locks \subseteq txn'[r].locks,
         txn'[r].put.pwd # None =>
           \/ txn'[r].put.pwd = txn[r].put.pwd
           \/ req[r].op = "change_password" /\ row[req[r].user].status # "absent",
         pc = "write_user" => txn'[r].user = req[r].user /\ row[req[r].user].status # "absent"
  PROVE  AccountOK(r)'
<1>1. AccountOK(r)
  BY DEF AInv
<1>2. txn'[r].user \in {None, req[r].user} /\ txn'[r].put.status \in {None, "WITHDRAWN"}
  BY <1>1 DEF AccountOK
<1>3. txn'[r].put.status = "WITHDRAWN" => /\ req[r].op = "delete_account"
                                          /\ "user" \in txn'[r].locks
                                          /\ txn'[r].user = req[r].user
                                          /\ row[req[r].user].status # "absent"
  BY <1>1, NoneIsFresh DEF AccountOK, Statuses
<1>4. txn'[r].put.status # "ACTIVE"
  BY <1>2, NoneIsFresh DEF Statuses
<1>5. txn'[r].put.pwd # None => req[r].op = "change_password" /\ row[req[r].user].status # "absent"
  BY <1>1 DEF AccountOK
<1> QED
  BY <1>2, <1>3, <1>4, <1>5 DEF AccountOK

LEMMA MovedElsewhere ==
  ASSUME AInv, NEW r \in Requests, NEW pc, Goto(r, pc)
  PROVE  \A q \in Requests : q # r => req'[q] = req[q]
BY DEF Goto, AInv, IInv, TypeOK, ApiTypeOK

\* The steps on Redis.
LEMMA StoreStepAccount ==
  ASSUME AInv, NEW r \in Requests,
         \/ SetexToken(r) \/ Blacklist(r) \/ DelToken(r) \/ SremDevice(r)
         \/ Smembers(r) \/ DeleteAllTokens(r)
  PROVE  AccountKeeps(r)
<1>1. /\ req[r].pc \in {"setex", "blacklist", "del", "srem", "smembers", "delete_all"}
      /\ UNCHANGED <<txn, row>>
  BY DEF SetexToken, Blacklist, DelToken, SremDevice, Smembers, DeleteAllTokens, At, dbVars
<1>2. ControlOK(r) /\ req \in [Requests -> Request]
  BY <1>1, InFlight DEF AInv, IInv, TypeOK, ApiTypeOK, At
<1>3. req[r].op # "signup"
  BY <1>1, <1>2 DEF ControlOK, DeviceWide, AccountWide
<1>4. PICK pc \in {"sadd", "find_device", "del", "smembers", "srem", "raise", "deactivate",
                   "delete_all", "find_devices"} :
        /\ req'[r].pc = pc /\ req'[r].op = req[r].op /\ req'[r].user = req[r].user
        /\ \A q \in Requests : q # r => req'[q] = req[q]
  <2>1. CASE SetexToken(r) \/ Smembers(r)
    BY <1>2, <2>1 DEF SetexToken, Smembers, Request
  <2>2. CASE Blacklist(r) \/ DelToken(r) \/ SremDevice(r) \/ DeleteAllTokens(r)
    <3>1. PICK pc \in {"find_device", "del", "smembers", "srem", "raise", "deactivate",
                       "find_devices"} : Goto(r, pc)
      BY <2>2 DEF Blacklist, DelToken, SremDevice, DeleteAllTokens
    <3> QED
      BY <3>1, MovedFields, MovedElsewhere DEF AInv
  <2> QED
    BY <2>1, <2>2
<1>5. AccountOK(r)'
  BY <1>1, <1>3, <1>4, MovedAccount
<1>6. Exclusive'
  BY <1>1 DEF AInv, Exclusive
<1> QED
  BY <1>1, <1>4, <1>5, <1>6 DEF AccountKeeps

\* login: SADD and the history row.
LEMMA SaddAccount == ASSUME AInv, NEW r \in Requests, SaddDevice(r) PROVE AccountKeeps(r)
<1>1. /\ At(r, "sadd") /\ Goto(r, Returned) /\ UNCHANGED row
      /\ txn' = [txn EXCEPT ![r].rows = IF req[r].op = "login" THEN {req[r].minted} ELSE {}]
  BY DEF SaddDevice
<1>2. /\ txn \in [Requests -> TxnType] /\ txn[r] \in TxnType /\ ControlOK(r)
  BY <1>1, InFlight DEF AInv, IInv, TypeOK, DbTypeOK, At
<1>3. /\ \A f \in {"user", "put", "locks"} : \A q \in Requests : txn'[q][f] = txn[q][f]
      /\ \A q \in Requests : q # r => txn'[q] = txn[q]
  BY <1>1, <1>2 DEF TxnType
<1>4. /\ \A q \in Requests : /\ txn'[q].user = txn[q].user /\ txn'[q].locks = txn[q].locks
                             /\ txn'[q].put = txn[q].put
  BY <1>3
<1>5. AccountOK(r)'
  BY <1>1, <1>2, <1>4, MovedFields, MovedAccount DEF AInv, ControlOK, At, Returned
<1>6. Exclusive'
  BY <1>4 DEF AInv, Exclusive
<1> QED
  BY <1>1, <1>3, <1>5, <1>6, MovedElsewhere DEF AccountKeeps

\* A transaction begins.
LEMMA BeginAccount ==
  ASSUME AInv, NEW r \in Requests, GetById(r) \/ FindDevice(r) \/ FindDevices(r)
  PROVE  AccountKeeps(r)
<1>1. /\ req[r].pc \in {"get_by_id", "find_device", "find_devices"}
      /\ Begin(r, req[r].user) /\ UNCHANGED row
  BY DEF GetById, FindDevice, FindDevices, At
<1>2. ControlOK(r)
  BY <1>1, InFlight DEF AInv, At
<1>3. req[r].op # "signup"
  BY <1>1, <1>2 DEF ControlOK, AccountWide
<1>4. PICK pc : /\ Goto(r, pc) /\ pc \notin {"idle", "insert_user"} /\ (pc = "reply" => ReplyFirst)
                /\ pc = "write_user" => Found(row[req[r].user])
  BY DEF GetById, FindDevice, FindDevices, Returned
<1> DEFINE t == [BlankTxn EXCEPT !.user = req[r].user, !.seen = row[req[r].user]]
<1>5. t.locks = {} /\ t.user = req[r].user /\ t.put.status = None /\ t.put.pwd = None
  BY DEF BlankTxn, NoPut
<1>6. txn' = [txn EXCEPT ![r] = t]
  BY <1>1 DEF Begin
<1> HIDE DEF t
<1>7. txn'[r] = t /\ Exclusive' /\ \A q \in Requests : q # r => txn'[q] = txn[q]
  BY <1>5, <1>6, NoLocks
<1>8. /\ req'[r].pc = pc /\ req'[r].op = req[r].op /\ req'[r].user = req[r].user
  BY <1>4, MovedFields DEF AInv
<1>9. AccountOK(r)'
  BY <1>1, <1>3, <1>4, <1>5, <1>7, <1>8, MovedAccount DEF Found
<1> QED
  BY <1>1, <1>4, <1>7, <1>9, MovedElsewhere DEF AccountKeeps

\* login and the revocations: flushes of device rows and of last_login_at.
LEMMA DeviceFlushAccount ==
  ASSUME AInv, NEW r \in Requests, UpsertDevice(r) \/ UpdateLastLogin(r) \/ Deactivate(r)
  PROVE  AccountKeeps(r)
<1>1. req[r].pc \in {"upsert_device", "update_last_login", "deactivate"} /\ UNCHANGED row
  BY DEF UpsertDevice, UpdateLastLogin, Deactivate, At
<1>2. ControlOK(r) /\ txn[r].put \in PutType
  BY <1>1, InFlight DEF AInv, At, IInv, TypeOK, DbTypeOK, TxnType
<1>3. req[r].op # "signup"
  BY <1>1, <1>2 DEF ControlOK, AccountWide
<1>4. PICK pc : Goto(r, pc) /\ pc \notin {"idle", "insert_user", "write_user"} /\ (pc = "reply" => ReplyFirst)
  BY DEF UpsertDevice, UpdateLastLogin, Deactivate, Returned
<1>5. PICK L, put : Flush(r, L, put) /\ put.status = txn[r].put.status /\ put.pwd = txn[r].put.pwd
  <2>1. CASE UpdateLastLogin(r)
    BY <2>1 DEF UpdateLastLogin
  <2>2. ASSUME NEW D, NEW v, NEW L, Flush(r, L, [txn[r].put EXCEPT !.device = Assign(r, D, v)])
        PROVE  \E put : Flush(r, L, put) /\ put.status = txn[r].put.status /\ put.pwd = txn[r].put.pwd
    <3> DEFINE put == [txn[r].put EXCEPT !.device = Assign(r, D, v)]
    <3>1. put.status = txn[r].put.status /\ put.pwd = txn[r].put.pwd
      BY <1>2 DEF PutType
    <3>2. Flush(r, L, put)
      BY <2>2
    <3> HIDE DEF put
    <3> QED
      BY <3>1, <3>2
  <2>3. CASE UpsertDevice(r)
    <3>1. \E L : Flush(r, L, [txn[r].put EXCEPT !.device = Assign(r, {req[r].device}, "active")])
      BY <2>3 DEF UpsertDevice
    <3> QED
      BY <2>2, <3>1
  <2>4. CASE Deactivate(r)
    <3>1. Flush(r, Deactivated(r), [txn[r].put EXCEPT !.device = Assign(r, Deactivated(r), "inactive")])
      BY <2>4 DEF Deactivate
    <3> QED
      BY <2>2, <3>1
  <2> QED
    BY <2>1, <2>3, <2>4
<1>6. /\ txn'[r].user = txn[r].user /\ txn'[r].put = put /\ txn[r].locks \subseteq txn'[r].locks
      /\ Exclusive' /\ \A q \in Requests : q # r => txn'[q] = txn[q]
  BY <1>5, FlushedAccount
<1>7. /\ req'[r].pc = pc /\ req'[r].op = req[r].op /\ req'[r].user = req[r].user
  BY <1>4, MovedFields DEF AInv
<1>8. AccountOK(r)'
  BY <1>1, <1>3, <1>4, <1>5, <1>6, <1>7, MovedAccount
<1> QED
  BY <1>1, <1>4, <1>6, <1>8, MovedElsewhere DEF AccountKeeps

\* signup: the lock is granted when no other INSERT of the email is pending, and
\* the row is then still absent or the signup is rejected.
LEMMA InsertAccount == ASSUME AInv, NEW r \in Requests, InsertUser(r) PROVE AccountKeeps(r)
<1>1. /\ At(r, "insert_user") /\ Flush(r, {"user"}, txn[r].put) /\ UNCHANGED row
      /\ Goto(r, IF row[req[r].user].status = "absent" THEN Returned ELSE "raise")
  BY DEF InsertUser
<1>2. /\ txn'[r].user = txn[r].user /\ txn'[r].put = txn[r].put /\ "user" \in txn'[r].locks
      /\ Exclusive' /\ \A q \in Requests : q # r => txn'[q] = txn[q]
  BY <1>1, FlushedAccount
<1>3. /\ req'[r].op = req[r].op /\ req'[r].user = req[r].user
      /\ req'[r].pc = IF row[req[r].user].status = "absent" THEN Returned ELSE "raise"
  BY <1>1, MovedFields DEF AInv
<1>4. txn[r].user = req[r].user
  BY <1>1 DEF AInv, AccountOK, At
<1>5. AccountOK(r)'
  BY <1>1, <1>2, <1>3, <1>4 DEF AInv, AccountOK, At, Returned
<1> QED
  BY <1>1, <1>2, <1>5, MovedElsewhere DEF AccountKeeps

\* update_me, change_password, delete_account.
LEMMA WriteAccount == ASSUME AInv, NEW r \in Requests, WriteUser(r) PROVE AccountKeeps(r)
<1>1. req[r].pc = "write_user" /\ UNCHANGED row
  BY DEF WriteUser, At
<1>2. ControlOK(r) /\ txn[r].put \in PutType /\ AccountOK(r)
  BY <1>1, InFlight DEF AInv, At, IInv, TypeOK, DbTypeOK, TxnType
<1>3. req[r].op # "signup" /\ txn[r].user = req[r].user /\ row[req[r].user].status # "absent"
  BY <1>1, <1>2 DEF ControlOK, AccountOK
<1>4. PICK pc : Goto(r, pc) /\ pc \notin {"idle", "insert_user", "write_user"} /\ (pc = "reply" => ReplyFirst)
  BY DEF WriteUser, Returned
<1>5. /\ req'[r].pc = pc /\ req'[r].op = req[r].op /\ req'[r].user = req[r].user
  BY <1>4, MovedFields DEF AInv
<1>6. CASE UNCHANGED txn
  <2>1. AccountOK(r)'
    BY <1>1, <1>3, <1>4, <1>5, <1>6, MovedAccount
  <2> QED
    BY <1>1, <1>4, <1>6, <2>1, MovedElsewhere DEF AccountKeeps, AInv, Exclusive
<1>7. CASE \E put : /\ Flush(r, {"user"}, put)
                    /\ put.status = txn[r].put.status
                       \/ (put.status = "WITHDRAWN" /\ req[r].op = "delete_account")
                    /\ put.pwd = txn[r].put.pwd \/ req[r].op = "change_password"
  <2>1. PICK put : /\ Flush(r, {"user"}, put)
                   /\ put.status = txn[r].put.status
                       \/ (put.status = "WITHDRAWN" /\ req[r].op = "delete_account")
                   /\ put.pwd = txn[r].put.pwd \/ req[r].op = "change_password"
    BY <1>7
  <2>2. /\ txn'[r].user = txn[r].user /\ txn'[r].put = put /\ "user" \in txn'[r].locks
        /\ Exclusive' /\ \A q \in Requests : q # r => txn'[q] = txn[q]
    BY <2>1, FlushedAccount
  <2>3. put.status \in {None, "WITHDRAWN"}
    BY <1>2, <1>3, <2>1 DEF AccountOK
  <2>4. AccountOK(r)'
    BY <1>1, <1>2, <1>3, <1>4, <1>5, <2>1, <2>2, <2>3, NoneIsFresh DEF AccountOK, Statuses
  <2> QED
    BY <1>1, <1>4, <2>2, <2>4, MovedElsewhere DEF AccountKeeps
<1>8. CASE req[r].op = "delete_account" /\ Flush(r, {"user"}, [txn[r].put EXCEPT !.status = "WITHDRAWN"])
  <2> DEFINE put == [txn[r].put EXCEPT !.status = "WITHDRAWN"]
  <2>1. /\ Flush(r, {"user"}, put)
        /\ put.status = "WITHDRAWN" /\ req[r].op = "delete_account"
        /\ put.pwd = txn[r].put.pwd
    BY <1>2, <1>8 DEF PutType
  <2> HIDE DEF put
  <2> QED
    BY <1>7, <2>1
<1>9. ASSUME NEW p, req[r].op = "change_password", Flush(r, {"user"}, [txn[r].put EXCEPT !.pwd = p])
      PROVE  AccountKeeps(r)
  <2> DEFINE put == [txn[r].put EXCEPT !.pwd = p]
  <2>1. put.status = txn[r].put.status /\ Flush(r, {"user"}, put)
    BY <1>2, <1>9 DEF PutType
  <2> HIDE DEF put
  <2> QED
    BY <1>7, <1>9, <2>1
<1> QED
  BY <1>6, <1>7, <1>8, <1>9 DEF WriteUser

\* A rejection, a failure, and the response where it follows the commit.
LEMMA BlankAccount ==
  ASSUME AInv, NEW r \in Requests, Leave(r), UNCHANGED row, txn' = [txn EXCEPT ![r] = BlankTxn]
  PROVE  AccountKeeps(r)
<1>1. BlankTxn.locks = {} /\ BlankTxn.user = None /\ BlankTxn.put.status = None /\ BlankTxn.put.pwd = None
  BY DEF BlankTxn, NoPut
<1>2. txn'[r] = BlankTxn /\ Exclusive' /\ \A q \in Requests : q # r => txn'[q] = txn[q]
  BY <1>1, NoLocks
<1>3. req'[r] = Idle /\ \A q \in Requests : q # r => req'[q] = req[q]
  BY LeaveType DEF AInv, IInv, TypeOK, ApiTypeOK
<1>4. Idle.pc = "idle"
  BY DEF Idle
<1>5. AccountOK(r)'
  BY <1>1, <1>2, <1>3, <1>4, NoneIsFresh DEF AccountOK, Statuses
<1> QED
  BY <1>2, <1>3, <1>5 DEF AccountKeeps

LEMMA ReplyAccount == ASSUME AInv, NEW r \in Requests, Reply(r) PROVE AccountKeeps(r)
<1>1. At(r, "reply") /\ UNCHANGED <<txn, row>> /\ AccountOK(r)
  BY DEF Reply, dbVars, AInv
<1>2. CASE ~ReplyFirst /\ Leave(r)
  <2>1. txn' = [txn EXCEPT ![r] = BlankTxn]
    BY <1>1, <1>2 DEF AccountOK, At, AInv, IInv, TypeOK, DbTypeOK
  <2> QED
    BY <1>1, <1>2, <2>1, BlankAccount
<1>3. CASE ReplyFirst /\ req' = [req EXCEPT ![r].pc = "commit"]
  <2>1. /\ req'[r].pc = "commit" /\ req'[r].op = req[r].op /\ req'[r].user = req[r].user
        /\ \A q \in Requests : q # r => req'[q] = req[q]
    BY <1>3 DEF AInv, IInv, TypeOK, ApiTypeOK, Request
  <2>2. AccountOK(r)'
    BY <1>1, <1>3, <2>1 DEF AccountOK, At
  <2> QED
    BY <1>1, <2>1, <2>2 DEF AccountKeeps, AInv, Exclusive
<1> QED
  BY <1>2, <1>3 DEF Reply


\* A request enters: a signup with the account to insert, the others with
\* nothing to write yet.
LEMMA EnteredAccount ==
  ASSUME AInv, NEW r \in Requests, NEW op \in Ops, NEW u \in Users, NEW d, NEW n, NEW pc,
         Enter(r, op, u, d, n, pc), pc \notin {"idle", "write_user", "reply"}, UNCHANGED row,
         NEW t, txn' = [txn EXCEPT ![r] = t], t.locks = {}, t.user \in {None, u},
         \/ op # "signup" /\ pc # "insert_user" /\ t.put.status = None /\ t.put.pwd = None
         \/ op = "signup" /\ pc = "insert_user" /\ t.user = u /\ t.put.status = "ACTIVE"
  PROVE  AccountKeeps(r)
<1>1. /\ req'[r].op = op /\ req'[r].pc = pc /\ req'[r].user = u
      /\ \A q \in Requests : q # r => req'[q] = req[q]
  BY DEF Enter, AInv, IInv, TypeOK, ApiTypeOK
<1>2. txn'[r] = t /\ Exclusive' /\ \A q \in Requests : q # r => txn'[q] = txn[q]
  BY NoLocks
<1>3. AccountOK(r)'
  BY <1>1, <1>2, NoneIsFresh DEF AccountOK, Statuses
<1> QED
  BY <1>1, <1>2, <1>3 DEF AccountKeeps

LEMMA StartAccount ==
  ASSUME AInv, NEW r \in Requests, Start(r), ~UNCHANGED vars
  PROVE  AccountKeeps(r)
<1>1. CASE \E u \in Users, p \in Passwords : Signup(r, u, p)
  <2>1. PICK u \in Users, p \in Passwords : Signup(r, u, p)
    BY <1>1
  <2> DEFINE t == [BlankTxn EXCEPT !.user = u, !.put = [NoPut EXCEPT !.status = "ACTIVE", !.pwd = p]]
  <2>2. t.locks = {} /\ t.user = u /\ t.put.status = "ACTIVE"
    BY DEF BlankTxn, NoPut
  <2>3. Enter(r, "signup", u, None, 0, "insert_user") /\ txn' = [txn EXCEPT ![r] = t] /\ UNCHANGED row
    BY <2>1 DEF Signup
  <2> HIDE DEF t
  <2> QED
    BY <2>2, <2>3, EnteredAccount DEF Ops
<1>2. CASE \E u \in Users, d \in Devices, p \in Passwords : Login(r, u, d, p)
  <2>1. PICK u \in Users, d \in Devices, p \in Passwords : Login(r, u, d, p)
    BY <1>2
  <2> DEFINE begun == [BlankTxn EXCEPT !.user = u, !.seen = row[u]]
             t(R) == [begun EXCEPT !.rows = R]
  <2>2. /\ begun.locks = {} /\ begun.user = u /\ begun.put.status = None /\ begun.put.pwd = None
        /\ t({0}).locks = {} /\ t({0}).user = u /\ t({0}).put.status = None /\ t({0}).put.pwd = None
    BY DEF BlankTxn, NoPut
  <2>3. /\ UNCHANGED row
        /\ \E pc \in {"raise", "upsert_device"} : Enter(r, "login", u, d, 0, pc)
        /\ txn' = [txn EXCEPT ![r] = t({0})] \/ txn' = [txn EXCEPT ![r] = begun]
    BY <2>1 DEF Login
  <2> HIDE DEF begun, t
  <2> QED
    BY <2>2, <2>3, EnteredAccount DEF Ops
<1>3. CASE \E n \in 1..MaxGrants :
             \/ Refresh(r, n) \/ Logout(r, n) \/ LogoutAll(r, n) \/ UpdateMe(r, n)
             \/ ChangePassword(r, n) \/ DeleteAccount(r, n) \/ \E d \in Devices : ForceLogout(r, n, d)
  <2>1. BlankTxn.locks = {} /\ BlankTxn.user = None /\ BlankTxn.put.status = None /\ BlankTxn.put.pwd = None
    BY DEF BlankTxn, NoPut
  <2>2. ASSUME NEW n \in delivered, NEW op \in Ops \ {"signup"}, NEW d,
               NEW pc \in {"get_by_id", "del", "blacklist", "find_device"},
               Enter(r, op, grants[n].user, d, n, pc), UNCHANGED dbVars
        PROVE  AccountKeeps(r)
    <3>1. grants[n].user \in Users
      BY GrantFields DEF AInv, IInv
    <3>2. txn[r] = BlankTxn /\ txn \in [Requests -> TxnType]
      BY <2>2 DEF Enter, At, AInv, AccountOK, IInv, TypeOK, DbTypeOK
    <3>3. txn' = [txn EXCEPT ![r] = BlankTxn] /\ UNCHANGED row
      BY <2>2, <3>2 DEF dbVars
    <3>4. /\ op \in Ops /\ op # "signup" /\ pc # "insert_user"
          /\ pc \notin {"idle", "write_user", "reply"}
      BY <2>2
    <3> DEFINE u == grants[n].user
               t == BlankTxn
    <3>5. u \in Users /\ Enter(r, op, u, d, n, pc)
      BY <2>2, <3>1
    <3>6. /\ t.locks = {} /\ t.user \in {None, u} /\ t.put.status = None /\ t.put.pwd = None
          /\ txn' = [txn EXCEPT ![r] = t] /\ UNCHANGED row
      BY <2>1, <3>3
    <3> HIDE DEF u, t
    <3> QED
      BY <3>4, <3>5, <3>6, EnteredAccount, Zenon
  <2>3. ASSUME NEW n \in 1..MaxGrants, Refresh(r, n) PROVE AccountKeeps(r)
    BY <2>2, <2>3 DEF Refresh, Ops, DeviceWide
  <2>4. ASSUME NEW op \in DeviceWide \union AccountWide \union {"update_me"}, NEW n, NEW d,
               NEW pc \in {"get_by_id", "blacklist", "find_device"}, Authenticated(r, op, n, d, pc)
        PROVE  AccountKeeps(r)
    BY <2>2, <2>4 DEF Authenticated, Ops, DeviceWide, AccountWide
  <2> QED
    BY <1>3, <2>3, <2>4 DEF Logout, LogoutAll, UpdateMe, ChangePassword, DeleteAccount,
                            ForceLogout, DeviceWide, AccountWide
<1> QED
  BY <1>1, <1>2, <1>3 DEF Start, TurnedAway

-----------------------------------------------------------------------------
\* What a commit writes: a status under its lock, on a row that is absent for a
\* signup and is there for a withdrawal, and a password for two endpoints, of
\* which a signup finds none there.
LEMMA CommitWrites ==
  ASSUME AInv, NEW r \in Requests, Commit(r), NEW u \in Users
  PROVE  LET put == txn[r].put IN
         /\ row[u].status # row'[u].status =>
              /\ txn[r].user = u /\ req[r].user = u /\ "user" \in txn[r].locks
              /\ row'[u].status = put.status
              /\ \/ put.status = "ACTIVE" /\ row[u].status = "absent"
                 \/ put.status = "WITHDRAWN" /\ row[u].status # "absent"
         /\ row[u].pwd # row'[u].pwd =>
              /\ req[r].user = u
              /\ \/ req[r].op = "change_password"
                 \/ req[r].op = "signup" /\ row[u].pwd = None
         /\ row'[u].status = "absent" => row'[u].pwd = None
<1>1. /\ At(r, "commit") /\ AccountOK(r) /\ SubjectOK(r) /\ req[r].user \in Users
      /\ row'[u] = IF u = txn[r].user THEN Merge(row[u], txn[r].put) ELSE row[u]
  <2>1. At(r, "commit") /\ ~At(r, "idle")
    BY DEF Commit, At
  <2> QED
    BY <2>1, InFlight DEF Commit, CommitTxn, AInv, SubjectOK
<1>none. row[u].status = "absent" => row[u].pwd = None
  BY DEF AInv, NoPassword
<1>2. CASE u # txn[r].user
  BY <1>1, <1>2, <1>none
<1>3. CASE u = txn[r].user
  <2>1. /\ row'[u].status = IF txn[r].put.status = None THEN row[u].status ELSE txn[r].put.status
        /\ row'[u].pwd = IF txn[r].put.pwd = None THEN row[u].pwd ELSE txn[r].put.pwd
    BY <1>1, <1>3 DEF Merge
  <2>2. req[r].user = u
    BY <1>1, <1>3, NoneIsNoValue DEF AccountOK
  <2> QED
    BY <1>1, <1>3, <1>none, <2>1, <2>2, NoneIsFresh DEF AccountOK, At, Statuses
<1> QED
  BY <1>2, <1>3

LEMMA CommitAccount ==
  ASSUME AInv, NEW r \in Requests, Commit(r)
  PROVE  Exclusive' /\ NoPassword' /\ \A q \in Requests : AccountOK(q)'
<1>1. BlankTxn.locks = {} /\ BlankTxn.user = None /\ BlankTxn.put.status = None /\ BlankTxn.put.pwd = None
  BY DEF BlankTxn, NoPut
<1>2. txn' = [txn EXCEPT ![r] = BlankTxn]
  BY DEF Commit, CommitTxn
<1>3. txn'[r] = BlankTxn /\ Exclusive' /\ \A q \in Requests : q # r => txn'[q] = txn[q]
  BY <1>1, <1>2, NoLocks
<1>4. \A q \in Requests : q # r => req'[q] = req[q]
  BY LeaveType DEF Commit, Goto, AInv, IInv, TypeOK, ApiTypeOK
<1>5. AccountOK(r)'
  <2>1. req'[r].pc \in {"idle", "reply"} /\ (req'[r].pc = "reply" => ~ReplyFirst)
    BY MovedFields, LeaveType DEF Commit, AInv, IInv, TypeOK, ApiTypeOK, Idle
  <2> QED
    BY <1>1, <1>3, <2>1, NoneIsFresh DEF AccountOK, Statuses
<1>6. ASSUME NEW q \in Requests, q # r PROVE AccountOK(q)'
  <2>1. AccountOK(q) /\ txn'[q] = txn[q] /\ req'[q] = req[q]
    BY <1>3, <1>4, <1>6 DEF AInv
  <2>2. ASSUME req[q].user \in Users, row[req[q].user].status # "absent"
        PROVE  row'[req[q].user].status # "absent"
    BY <2>2, CommitWrites
  <2>3. ASSUME req[q].user \in Users, txn[q].user = req[q].user, "user" \in txn[q].locks
        PROVE  row'[req[q].user].status = row[req[q].user].status
    BY <1>6, <2>3, CommitWrites DEF AInv, Exclusive
  <2>4. req[q].pc # "idle" => req[q].user \in Users
    BY InFlight DEF AInv, At, SubjectOK
  <2>5. req[q].pc = "idle" => txn[q].put.status = None /\ txn[q].put.pwd = None
    BY <1>1, <2>1 DEF AccountOK
  <2> QED
    BY <2>1, <2>2, <2>3, <2>4, <2>5, NoneIsFresh DEF AccountOK, Statuses
<1>7. NoPassword'
  BY CommitWrites DEF NoPassword
<1> QED
  BY <1>3, <1>5, <1>6, <1>7

\* A suspension leaves an account where it is, present or absent.
LEMMA SuspendAccount ==
  ASSUME AInv, NEW u \in Users, Suspend(u)
  PROVE  Exclusive' /\ NoPassword' /\ \A q \in Requests : AccountOK(q)'
<1>1. /\ UNCHANGED <<req, txn>> /\ row[u].status # "absent"
      /\ \E to \in {"ACTIVE", "INACTIVE"} : row' = [row EXCEPT ![u].status = to]
  BY DEF Suspend, SetStatus
<1>2. \A v \in Users : /\ row'[v].status = "absent" <=> row[v].status = "absent"
                       /\ row'[v].pwd = row[v].pwd
  BY <1>1 DEF AInv, IInv, TypeOK, DbTypeOK, RowType
<1>3. ASSUME NEW q \in Requests PROVE AccountOK(q)'
  <2>1. AccountOK(q) /\ (req[q].pc # "idle" => req[q].user \in Users)
    BY InFlight DEF AInv, At, SubjectOK
  <2>2. req[q].pc = "idle" => txn[q].put.status = None /\ txn[q].put.pwd = None
    BY <2>1 DEF AccountOK, BlankTxn, NoPut
  <2> QED
    BY <1>1, <1>2, <2>1, <2>2, NoneIsFresh DEF AccountOK, Statuses
<1> QED
  BY <1>1, <1>2, <1>3 DEF AInv, Exclusive, NoPassword

LEMMA StepAccount ==
  ASSUME AInv, NEW r \in Requests, Step(r) \/ Fail(r), ~Commit(r)
  PROVE  AccountKeeps(r)
BY StoreStepAccount, SaddAccount, BeginAccount, DeviceFlushAccount, InsertAccount, WriteAccount,
   BlankAccount, ReplyAccount DEF Step, Fail, Raise, RollbackTxn

LEMMA NextAInv ==
  ASSUME AInv, [Next]_vars
  PROVE  AInv'
<1>1. IInv'
  BY NextIInv DEF AInv
<1>2. ASSUME NEW r \in Requests, AccountKeeps(r) PROVE AInv'
  BY <1>1, <1>2, OtherAccounts DEF AInv, AccountKeeps, NoPassword
<1>3. CASE UNCHANGED <<req, txn, row>>
  BY <1>1, <1>3, OtherAccounts DEF AInv, Exclusive, NoPassword
<1>4. ASSUME NEW r \in Requests, Start(r) PROVE AInv'
  <2>1. CASE UNCHANGED vars
    BY <1>3, <2>1 DEF vars
  <2> QED
    BY <1>2, <1>4, <2>1, StartAccount
<1>5. ASSUME NEW r \in Requests, Step(r) \/ Fail(r) PROVE AInv'
  <2>1. CASE Commit(r)
    BY <1>1, <2>1, CommitAccount DEF AInv
  <2> QED
    BY <1>2, <1>5, <2>1, StepAccount
<1>6. ASSUME NEW u \in Users, NEW d \in Devices, Expire(u, d) PROVE AInv'
  BY <1>3, <1>6 DEF Expire, dbVars
<1>7. ASSUME NEW u \in Users, Suspend(u) PROVE AInv'
  BY <1>1, <1>7, SuspendAccount DEF AInv
<1>8. CASE UNCHANGED vars
  BY <1>3, <1>8 DEF vars
<1> QED
  BY <1>4, <1>5, <1>6, <1>7, <1>8 DEF Next

LEMMA InitAInv == Init => AInv
<1> SUFFICES ASSUME Init PROVE AInv
  OBVIOUS
<1>1. /\ \A r \in Requests : req[r] = Idle /\ txn[r] = BlankTxn
      /\ Idle.pc = "idle" /\ BlankTxn.locks = {} /\ BlankTxn.user = None
      /\ BlankTxn.put.status = None /\ BlankTxn.put.pwd = None
  BY DEF Init, DbInit, Idle, BlankTxn, NoPut
<1>2. Exclusive /\ \A r \in Requests : AccountOK(r)
  BY <1>1, NoneIsFresh DEF Exclusive, AccountOK, Statuses
<1>3. NoPassword
  BY DEF Init, DbInit, BlankRow, NoPassword
<1> QED
  BY <1>2, <1>3, InitIInv DEF AInv

\* update_me, login, change_password and delete_account over the rows of users:
\* whatever transactions are open, none writes back a status or a password it
\* merely read, a withdrawn account stays withdrawn, and of the signups that race
\* for an address one sets the password.
THEOREM AccountsNotOverwritten == Spec => AccountIsNotOverwritten
<1>1. ASSUME AInv, [Next]_vars PROVE [AccountStep]_vars
  <2> SUFFICES ASSUME ~UNCHANGED row PROVE AccountStep
    BY DEF AccountStep
  <2>1. CASE \E r \in Requests : Commit(r)
    <3>1. PICK r \in Requests : Commit(r)
      BY <2>1
    <3> SUFFICES ASSUME NEW u \in Users
                 PROVE  /\ row[u].status # row'[u].status =>
                             \/ row[u].status = "absent" /\ row'[u].status = "ACTIVE"
                             \/ row[u].status \in {"ACTIVE", "INACTIVE"} /\ row'[u].status = "WITHDRAWN"
                        /\ row[u].pwd # row'[u].pwd =>
                             \E s \in Requests : /\ Commit(s) /\ req[s].user = u
                                                /\ \/ req[s].op = "change_password"
                                                   \/ req[s].op = "signup" /\ row[u].pwd = None
      BY DEF AccountStep
    <3>2. row[u].status \in Statuses
      BY <1>1 DEF AInv, IInv, TypeOK, DbTypeOK, RowType
    <3> QED
      BY <1>1, <3>1, <3>2, CommitWrites DEF Statuses
  <2>2. CASE \E u \in Users : Suspend(u)
    <3>1. PICK v \in Users : Suspend(v)
      BY <2>2
    <3>2. \E to : row' = [row EXCEPT ![v].status = to]
      BY <3>1 DEF Suspend, SetStatus
    <3>3. \A u \in Users : row'[u].pwd = row[u].pwd /\ (u # v => row'[u] = row[u])
      BY <1>1, <3>2 DEF AInv, IInv, TypeOK, DbTypeOK, RowType
    <3> QED
      BY <3>1, <3>3 DEF AccountStep
  <2>3. ASSUME NEW r \in Requests, Start(r) \/ ((Step(r) \/ Fail(r)) /\ ~Commit(r))
        PROVE  UNCHANGED row
    BY <1>1, <2>3, StartAccount, StepAccount DEF AccountKeeps, vars
  <2>4. ASSUME NEW u \in Users, NEW d \in Devices, Expire(u, d) PROVE UNCHANGED row
    BY <2>4 DEF Expire, dbVars
  <2> QED
    BY <1>1, <2>1, <2>2, <2>3, <2>4 DEF Next, vars
<1> QED
  BY <1>1, InitAInv, NextAInv, PTL DEF Spec, AccountIsNotOverwritten

=============================================================================
