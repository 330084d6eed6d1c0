--------------------------- MODULE AuthApiProofs ---------------------------
(***************************************************************************)
(* For any number of users, devices and requests in flight, either order   *)
(* of commit and response and every choice of endpoints: type correctness, *)
(* and the three promises about one device that survive every interleaving *)
(* (RotatedTokenIsDead, RevokedStaysDead, DeviceRevocationHolds).          *)
(***************************************************************************)
EXTENDS AuthApi, TLAPS

(***************************************************************************)
(* The inductive invariant: what a slot knows of the request in it.        *)
(***************************************************************************)
\* Which endpoints reach which step.
ControlOK(r) ==
  /\ req[r].pc = "insert_user" => req[r].op = "signup"
  /\ req[r].pc \in {"upsert_device", "update_last_login"} => req[r].op = "login"
  /\ req[r].pc \in {"setex", "sadd"} => req[r].op \in {"login", "refresh"}
  /\ req[r].pc \in {"del", "srem"} => req[r].op \in DeviceWide
  /\ req[r].pc = "blacklist" => req[r].op \in {"logout", "logout_all"}
  /\ req[r].pc = "find_device" => req[r].op \in {"logout", "force_logout"}
  /\ req[r].pc \in {"smembers", "delete_all", "find_devices"} => req[r].op \in AccountWide
  /\ req[r].pc = "deactivate" => req[r].op \in {"logout", "force_logout"} \union AccountWide
  /\ req[r].pc \in {"get_by_id", "write_user"}
       => req[r].op \in {"refresh", "update_me", "change_password", "delete_account"}
  /\ req[r].pc = "raise" => req[r].op # "logout"

\* What it was asked: the account, the device, the token shown.
SubjectOK(r) ==
  /\ req[r].user \in Users
  /\ req[r].op \in {"login", "refresh"} \union DeviceWide => req[r].device \in Devices
  /\ req[r].op = "login" => req[r].grant = 0
  /\ req[r].op \in {"logout", "logout_all"} => req[r].grant \in delivered
  /\ req[r].op = "refresh" => /\ req[r].grant \in delivered
                              /\ grants[req[r].grant].user = req[r].user
                              /\ grants[req[r].grant].device = req[r].device
  /\ req[r].op \in DeviceWide =>
       \A n \in req[r].prior : /\ grants[n].user = req[r].user
                               /\ grants[n].device = req[r].device

\* Numbers of grants are numbers of minted grants.
BoundsOK(r) == /\ req[r].minted \in 0..Len(grants)
               /\ req[r].prior \subseteq delivered
               /\ txn[r].rows \subseteq 0..Len(grants)

\* Before DEL a revocation has promised nothing; from then on the sessions it
\* was asked to end stay dead.
BeforeDel(r) == \/ req[r].pc \in {"blacklist", "del"}
                \/ req[r].op = "force_logout" /\ req[r].pc \in {"find_device", "raise"}

RevokedOK(r) ==
  req[r].op \in DeviceWide =>
    /\ ~BeforeDel(r) => \A n \in req[r].prior : ~Stored(n)
    /\ req[r].op = "logout" /\ req[r].pc # "blacklist" => req[r].grant \in blacklist

SlotOK(r) == /\ BoundsOK(r)
             /\ req[r].pc # "idle" => ControlOK(r) /\ SubjectOK(r) /\ RevokedOK(r)

\* The parent of a grant was redeemed: it is minted and stored no more.
ParentsOK == \A n \in 1..Len(grants) :
  grants[n].parent # 0 => /\ grants[n].parent \in 1..Len(grants)
                          /\ ~Stored(grants[n].parent)

IInv == TypeOK /\ ParentsOK /\ \A r \in Requests : SlotOK(r)

-----------------------------------------------------------------------------
(***************************************************************************)
(* What the building blocks of the actions do to the types.                *)
(***************************************************************************)
LEMMA NoneIsFresh == /\ None \notin Devices
                     /\ None \notin {"active", "inactive"} /\ None \notin Statuses
BY NoneIsNoValue

\* A slot without a transaction is well typed.
LEMMA BlankTxnType == BlankTxn \in TxnType
BY DEF BlankTxn, BlankRow, NoPut, TxnType, RowType, PutType, Statuses, DeviceStates

\* So is a slot without a request.
LEMMA IdleType == Idle \in Request
BY DEF Idle, Request, Pcs

\* A transaction begun on an existing user.
LEMMA BegunType ==
  ASSUME NEW u \in Users, NEW image \in RowType
  PROVE  [BlankTxn EXCEPT !.user = u, !.seen = image] \in TxnType
BY BlankTxnType DEF TxnType

\* What upsert_device and the deactivations put into is_active.
LEMMA AssignType ==
  ASSUME DbTypeOK, NEW r \in Requests, NEW D, NEW value \in {"active", "inactive"}
  PROVE  [txn[r].put EXCEPT !.device = Assign(r, D, value)] \in PutType
<1>1. Assign(r, D, value) \in [Devices -> {"active", "inactive", None}]
  BY DEF Assign
<1>2. txn[r].put \in PutType
  BY DEF DbTypeOK, TxnType
<1> QED
  BY <1>1, <1>2 DEF PutType

\* A flush changes locks and columns, no history row.
LEMMA FlushType ==
  ASSUME DbTypeOK, NEW r \in Requests, NEW L \in SUBSET (Devices \union {"user", "fk"}),
         NEW put \in PutType, Flush(r, L, put), UNCHANGED <<row, history>>,
         Len(grants') = Len(grants)
  PROVE  DbTypeOK' /\ \A q \in Requests : txn'[q].rows = txn[q].rows
<1> DEFINE new == [txn[r] EXCEPT !.locks = @ \union L, !.put = put]
<1>1. txn \in [Requests -> TxnType] /\ txn[r] \in TxnType
  BY DEF DbTypeOK
<1>2. new \in TxnType /\ new.rows = txn[r].rows
  BY <1>1 DEF TxnType
<1>3. txn' = [txn EXCEPT ![r] = new]
  BY <1>1 DEF Flush
<1> HIDE DEF new
<1>4. txn' \in [Requests -> TxnType] /\ \A q \in Requests : txn'[q].rows = txn[q].rows
  BY <1>1, <1>2, <1>3
<1> QED
  BY <1>4 DEF DbTypeOK

\* Merging flushed columns into a row gives a row.
LEMMA MergeType ==
  ASSUME NEW image \in RowType, NEW put \in PutType
  PROVE  Merge(image, put) \in RowType
BY DEF Merge, RowType, PutType, DeviceStates, Statuses

\* COMMIT writes well-typed rows and empties its own transaction only.
LEMMA CommitType ==
  ASSUME DbTypeOK, NEW r \in Requests, CommitTxn(r), Len(grants') = Len(grants),
         txn[r].rows \subseteq 0..Len(grants)
  PROVE  DbTypeOK' /\ \A q \in Requests : q # r => txn'[q] = txn[q]
<1>1. row' \in [Users -> RowType]
  BY MergeType DEF CommitTxn, DbTypeOK, TxnType
<1>2. txn' \in [Requests -> TxnType] /\ \A q \in Requests : q # r => txn'[q] = txn[q]
  BY BlankTxnType DEF CommitTxn, DbTypeOK
<1>3. history' \subseteq 0..Len(grants')
  BY DEF CommitTxn, DbTypeOK
<1> QED
  BY <1>1, <1>2, <1>3 DEF DbTypeOK

\* A new request is well typed and touches its own slot only.
LEMMA EnterType ==
  ASSUME ApiTypeOK, NEW r \in Requests, NEW op \in Ops, NEW u \in Users,
         NEW d \in Devices \union {None}, NEW n \in Nat, NEW pc \in Pcs,
         Enter(r, op, u, d, n, pc)
  PROVE  /\ ApiTypeOK'
         /\ UNCHANGED <<grants, delivered>>
         /\ \A q \in Requests : q # r => req'[q] = req[q]
         /\ req'[r] = [op |-> op, pc |-> pc, user |-> u, device |-> d, grant |-> n,
                       minted |-> 0, members |-> {}, prior |-> Established(op, u, d)]
<1>1. Established(op, u, d) \subseteq delivered /\ delivered \subseteq Nat
  BY DEF Established, ApiTypeOK
<1>2. req' \in [Requests -> Request]
  BY <1>1 DEF Enter, ApiTypeOK, Request
<1> QED
  BY <1>1, <1>2 DEF Enter, ApiTypeOK

\* So is a request that moves to its next step.
LEMMA GotoType ==
  ASSUME ApiTypeOK, NEW r \in Requests, NEW pc \in Pcs, Goto(r, pc)
  PROVE  /\ ApiTypeOK'
         /\ UNCHANGED <<grants, delivered>>
         /\ \A q \in Requests : q # r => req'[q] = req[q]
         /\ req'[r] = [req[r] EXCEPT !.pc = pc]
<1>1. req' \in [Requests -> Request]
  BY DEF Goto, ApiTypeOK, Request
<1> QED
  BY <1>1 DEF Goto, ApiTypeOK

\* So is a slot that empties.
LEMMA LeaveType ==
  ASSUME req \in [Requests -> Request], NEW r \in Requests, Leave(r)
  PROVE  /\ req' \in [Requests -> Request]
         /\ \A q \in Requests : q # r => req'[q] = req[q]
         /\ req'[r] = Idle
BY IdleType DEF Leave

-----------------------------------------------------------------------------
(***************************************************************************)
(* What no step undoes: grants, deliveries, blacklist entries, and the     *)
(* death of a refresh token.                                               *)
(***************************************************************************)
Grows == /\ Len(grants) \in Nat /\ Len(grants') \in Nat /\ Len(grants) <= Len(grants')
         /\ \A n \in 1..Len(grants) : grants'[n] = grants[n]
         /\ delivered \subseteq delivered'
         /\ blacklist \subseteq blacklist'
         /\ \A n \in 1..Len(grants) : Stored(n)' => Stored(n)

SameSlot(q) == req'[q] = req[q] /\ txn'[q].rows = txn[q].rows

\* A step of the request in slot r that keeps the invariant.
Keeps(r) == /\ TypeOK'
            /\ Grows
            /\ SlotOK(r)'
            /\ \A q \in Requests : q # r => SameSlot(q)

\* Nothing a store without new tokens does brings a token back.
LEMMA NothingMinted ==
  ASSUME TypeOK, UNCHANGED <<grants, delivered>>, blacklist \subseteq blacklist',
         \A u \in Users, d \in Devices : rt'[u][d] \in {0, rt[u][d]}
  PROVE  Grows
<1>1. Len(grants) \in Nat /\ \A n \in 1..Len(grants) : grants[n] \in Grant
  BY DEF TypeOK, ApiTypeOK
<1>2. ASSUME NEW n \in 1..Len(grants), Stored(n)' PROVE Stored(n)
  BY <1>1, <1>2 DEF Stored, Grant
<1> QED
  BY <1>1, <1>2 DEF Grows

\* What a slot knows survives every step of the others.
LEMMA OtherSlots ==
  ASSUME IInv, Grows, NEW q \in Requests, SameSlot(q)
  PROVE  SlotOK(q)'
<1>1. /\ SlotOK(q) /\ delivered \subseteq 1..Len(grants)
      /\ 1..Len(grants) \subseteq 1..Len(grants') /\ 0..Len(grants) \subseteq 0..Len(grants')
  BY DEF IInv, TypeOK, ApiTypeOK, Grows
<1>2. BoundsOK(q)'
  BY <1>1 DEF Grows, SameSlot, SlotOK, BoundsOK
<1>3. ASSUME req[q].pc # "idle" PROVE (ControlOK(q) /\ SubjectOK(q) /\ RevokedOK(q))'
  <2>1. ControlOK(q)'
    BY <1>1, <1>3 DEF SameSlot, SlotOK, ControlOK
  <2>2. SubjectOK(q)'
    BY <1>1, <1>3 DEF Grows, SameSlot, SlotOK, BoundsOK, SubjectOK
  <2>3. RevokedOK(q)'
    BY <1>1, <1>3 DEF Grows, SameSlot, SlotOK, BoundsOK, RevokedOK, BeforeDel
  <2> QED
    BY <2>1, <2>2, <2>3
<1> QED
  BY <1>2, <1>3 DEF SlotOK, SameSlot

\* A step that mints nothing leaves parents dead.
LEMMA ParentsStay == ASSUME IInv, Grows, grants' = grants PROVE ParentsOK'
BY DEF IInv, Grows, ParentsOK

\* A step that keeps its own slot's part keeps the invariant.
LEMMA KeepsIInv ==
  ASSUME IInv, NEW r \in Requests, Keeps(r), ParentsOK'
  PROVE  IInv'
BY OtherSlots DEF Keeps, IInv

\* A request in flight moves to another step and keeps what it knows.
LEMMA MovedSlot ==
  ASSUME IInv, Grows, NEW r \in Requests, ~At(r, "idle"), NEW pc \in Pcs \ {"idle"},
         req'[r] = [req[r] EXCEPT !.pc = pc],
         txn'[r].rows \subseteq 0..Len(grants'),
         ControlOK(r)', RevokedOK(r)'
  PROVE  SlotOK(r)'
<1>1. /\ SlotOK(r) /\ delivered \subseteq 1..Len(grants)
      /\ req[r] \in Request /\ 0..Len(grants) \subseteq 0..Len(grants')
  BY DEF IInv, TypeOK, ApiTypeOK, Grows
<1>2. /\ \A f \in {"op", "user", "device", "grant", "minted", "prior"} : req'[r][f] = req[r][f]
      /\ req'[r].pc = pc
  BY <1>1 DEF Request
<1>3. BoundsOK(r)'
  BY <1>1, <1>2 DEF Grows, SlotOK, BoundsOK, Request
<1>4. SubjectOK(r)'
  BY <1>1, <1>2 DEF Grows, SlotOK, BoundsOK, SubjectOK, At, Request
<1> QED
  BY <1>2, <1>3, <1>4 DEF SlotOK

-----------------------------------------------------------------------------
(***************************************************************************)
(* Requests entering a slot.                                               *)
(***************************************************************************)
LEMMA GrantFields ==
  ASSUME TypeOK, NEW n \in delivered
  PROVE  n \in 1..Len(grants) /\ n \in Nat /\ grants[n].user \in Users /\ grants[n].device \in Devices
<1>1. Len(grants) \in Nat /\ n \in 1..Len(grants) /\ grants \in Seq(Grant)
  BY DEF TypeOK, ApiTypeOK
<1>2. grants[n] \in Grant
  BY <1>1
<1> QED
  BY <1>1, <1>2 DEF Grant

\* The op and the pc of a request that has just entered.
LEMMA EnteredFields ==
  ASSUME TypeOK, NEW r \in Requests, NEW op, NEW u, NEW d, NEW n, NEW pc, Enter(r, op, u, d, n, pc)
  PROVE  req'[r].op = op /\ req'[r].pc = pc
BY DEF TypeOK, ApiTypeOK, Enter

\* A fresh request has promised nothing yet.
LEMMA EnteredSlot ==
  ASSUME IInv, Grows, NEW r \in Requests, NEW op \in Ops, NEW u \in Users,
         NEW d \in Devices \union {None}, NEW n \in Nat, NEW pc \in Pcs,
         op \in {"login", "refresh"} \union DeviceWide => d \in Devices,
         Enter(r, op, u, d, n, pc),
         txn'[r].rows \subseteq 0..Len(grants'),
         ControlOK(r)',
         op \in DeviceWide => BeforeDel(r)',
         op = "login" => n = 0,
         op \in {"logout", "logout_all"} => n \in delivered /\ pc = "blacklist",
         op = "refresh" => n \in delivered /\ grants[n].user = u /\ grants[n].device = d
  PROVE  SlotOK(r)'
<1>1. /\ UNCHANGED <<grants, delivered>>
      /\ req'[r] = [op |-> op, pc |-> pc, user |-> u, device |-> d, grant |-> n,
                    minted |-> 0, members |-> {}, prior |-> Established(op, u, d)]
  BY EnterType DEF IInv, TypeOK
<1>2. BoundsOK(r)'
  BY <1>1 DEF BoundsOK, Established, Grows
<1>3. SubjectOK(r)'
  BY <1>1 DEF SubjectOK, Established, AccountWide, DeviceWide, Ops
<1>4. RevokedOK(r)'
  BY <1>1 DEF RevokedOK, DeviceWide
<1> QED
  BY <1>2, <1>3, <1>4 DEF SlotOK

\* signup: email_exists.
LEMMA SignupKeeps ==
  ASSUME IInv, NEW r \in Requests, NEW u \in Users, NEW p \in Passwords, Signup(r, u, p)
  PROVE  Keeps(r)
<1> DEFINE new == [BlankTxn EXCEPT !.user = u, !.put = [NoPut EXCEPT !.status = "ACTIVE", !.pwd = p]]
<1>1. /\ Enter(r, "signup", u, None, 0, "insert_user")
      /\ txn' = [txn EXCEPT ![r] = new]
      /\ UNCHANGED <<storeVars, row, history>>
  BY DEF Signup
<1>2. /\ "signup" \in Ops /\ "insert_user" \in Pcs
      /\ new \in TxnType /\ new.rows = {}
  BY BlankTxnType DEF Ops, Pcs, BlankTxn, NoPut, TxnType, PutType, Statuses
<1>3. /\ ApiTypeOK' /\ UNCHANGED <<grants, delivered>>
      /\ \A q \in Requests : q # r => req'[q] = req[q]
  BY <1>1, <1>2, EnterType DEF IInv, TypeOK
<1> HIDE DEF new
<1>4. /\ txn' \in [Requests -> TxnType] /\ txn'[r].rows = {}
      /\ \A q \in Requests : q # r => txn'[q] = txn[q]
  BY <1>1, <1>2 DEF IInv, TypeOK, DbTypeOK
<1>5. TypeOK'
  BY <1>1, <1>3, <1>4 DEF IInv, TypeOK, StoreTypeOK, DbTypeOK, storeVars
<1>6. Grows
  BY <1>1, <1>3, NothingMinted DEF IInv, storeVars
<1>7. ControlOK(r)'
  BY <1>1, EnteredFields DEF IInv, ControlOK
<1>8. SlotOK(r)'
  BY <1>1, <1>2, <1>4, <1>6, <1>7, EnteredSlot DEF DeviceWide
<1> QED
  BY <1>3, <1>4, <1>5, <1>6, <1>8 DEF Keeps, SameSlot

\* login: get_by_email and the password check, whatever they decide.
LEMMA LoginKeeps ==
  ASSUME IInv, NEW r \in Requests, NEW u \in Users, NEW d \in Devices, NEW p \in Passwords,
         Login(r, u, d, p)
  PROVE  Keeps(r)
<1> DEFINE begun == [BlankTxn EXCEPT !.user = u, !.seen = row[u]]
<1> DEFINE failed == [begun EXCEPT !.rows = {0}]
<1>1. /\ begun \in TxnType /\ failed \in TxnType
      /\ begun.rows \subseteq {0} /\ failed.rows \subseteq {0}
  <2>1. begun \in TxnType /\ begun.rows = {}
    BY BegunType DEF IInv, TypeOK, DbTypeOK, BlankTxn
  <2> HIDE DEF begun
  <2> QED
    BY <2>1 DEF TxnType
<1>2. PICK pc \in {"raise", "upsert_device"}, new \in {begun, failed} :
        /\ Enter(r, "login", u, d, 0, pc)
        /\ txn' = [txn EXCEPT ![r] = new]
        /\ UNCHANGED <<storeVars, row, history>>
  BY DEF Login
<1> HIDE DEF begun, failed
<1>3. /\ ApiTypeOK' /\ UNCHANGED <<grants, delivered>>
      /\ \A q \in Requests : q # r => req'[q] = req[q]
  <2>1. "login" \in Ops /\ pc \in Pcs
    BY DEF Ops, Pcs
  <2> QED
    BY <1>2, <2>1, EnterType DEF IInv, TypeOK
<1>4. /\ txn' \in [Requests -> TxnType] /\ txn'[r].rows \subseteq {0}
      /\ \A q \in Requests : q # r => txn'[q] = txn[q]
  BY <1>1, <1>2 DEF IInv, TypeOK, DbTypeOK
<1>5. TypeOK'
  BY <1>2, <1>3, <1>4 DEF IInv, TypeOK, StoreTypeOK, DbTypeOK, storeVars
<1>6. Grows
  BY <1>2, <1>3, NothingMinted DEF IInv, storeVars
<1>7. ControlOK(r)'
  BY <1>2, EnteredFields DEF IInv, ControlOK
<1>8. txn'[r].rows \subseteq 0..Len(grants')
  BY <1>4, <1>6 DEF Grows
<1>9. SlotOK(r)'
  BY <1>2, <1>6, <1>7, <1>8, EnteredSlot DEF DeviceWide, Ops, Pcs
<1> QED
  BY <1>3, <1>4, <1>5, <1>6, <1>9 DEF Keeps, SameSlot

\* Requests that start on Redis, the database untouched.
LEMMA EnterKeeps ==
  ASSUME IInv, NEW r \in Requests, NEW op \in Ops, NEW n \in delivered,
         NEW d \in Devices \union {None}, NEW pc \in Pcs,
         op # "login",
         op \in {"refresh"} \union DeviceWide => d \in Devices,
         op = "refresh" => d = grants[n].device,
         op \in {"logout", "logout_all"} => pc = "blacklist",
         ControlOK(r)', op \in DeviceWide => BeforeDel(r)',
         Enter(r, op, grants[n].user, d, n, pc), UNCHANGED <<storeVars, dbVars>>
  PROVE  Keeps(r)
<1>1. /\ n \in 1..Len(grants) /\ n \in Nat /\ grants[n].user \in Users
      /\ txn[r].rows \subseteq 0..Len(grants)
  BY GrantFields DEF IInv, SlotOK, BoundsOK
<1>2. /\ ApiTypeOK' /\ UNCHANGED <<grants, delivered>>
      /\ \A q \in Requests : q # r => req'[q] = req[q]
  BY <1>1, EnterType DEF IInv, TypeOK
<1>3. TypeOK'
  BY <1>2 DEF IInv, TypeOK, StoreTypeOK, DbTypeOK, storeVars, dbVars
<1>4. Grows
  BY <1>2, NothingMinted DEF IInv, storeVars
<1>5. txn'[r].rows \subseteq 0..Len(grants')
  BY <1>1, <1>2 DEF dbVars
<1>6. SlotOK(r)'
  BY <1>1, <1>4, <1>5, EnteredSlot
<1> QED
  BY <1>2, <1>3, <1>4, <1>6 DEF Keeps, SameSlot, dbVars

\* refresh: the GET, for a rotation and for a reuse.
LEMMA RefreshKeeps ==
  ASSUME IInv, NEW r \in Requests, NEW n, Refresh(r, n)
  PROVE  Keeps(r)
<1> DEFINE u == grants[n].user  d == grants[n].device
<1>1. n \in delivered /\ UNCHANGED <<storeVars, dbVars>> /\ d \in Devices
  BY GrantFields DEF Refresh, IInv
<1>2. CASE Enter(r, "refresh", u, d, n, "get_by_id")
  <2>1. ControlOK(r)'
    BY <1>2, EnteredFields DEF IInv, ControlOK
  <2> QED
    BY <1>1, <1>2, <2>1, EnterKeeps DEF Ops, Pcs, DeviceWide
<1>3. CASE Enter(r, "reuse", u, d, n, "del")
  <2>1. ControlOK(r)' /\ BeforeDel(r)'
    BY <1>3, EnteredFields DEF IInv, ControlOK, BeforeDel, DeviceWide
  <2> QED
    BY <1>1, <1>3, <2>1, EnterKeeps DEF Ops, Pcs, DeviceWide
<1> QED
  BY <1>2, <1>3 DEF Refresh

\* Every endpoint behind get_current_user.
LEMMA AuthenticatedKeeps ==
  ASSUME IInv, NEW r \in Requests, NEW n,
         NEW op \in {"logout", "logout_all", "update_me", "change_password", "delete_account",
                     "force_logout"},
         NEW d \in Devices \union {None}, NEW pc \in Pcs, Authenticated(r, op, n, d, pc),
         op \in {"logout", "force_logout"} => d \in Devices,
         op \in {"logout", "logout_all"} => pc = "blacklist",
         op \in {"update_me", "change_password", "delete_account"} => pc = "get_by_id",
         op = "force_logout" => pc = "find_device"
  PROVE  Keeps(r)
<1>1. /\ n \in delivered /\ Enter(r, op, grants[n].user, d, n, pc)
      /\ UNCHANGED <<storeVars, dbVars>>
  BY DEF Authenticated
<1>2. req'[r].op = op /\ req'[r].pc = pc
  BY <1>1, EnteredFields DEF IInv
<1>3. ControlOK(r)' /\ (op \in DeviceWide => BeforeDel(r)')
  BY <1>2 DEF ControlOK, BeforeDel, DeviceWide, AccountWide
<1> QED
  BY <1>1, <1>3, EnterKeeps DEF Ops, DeviceWide, AccountWide

\* A request enters, or is turned away.
LEMMA StartKeeps ==
  ASSUME IInv, NEW r \in Requests, Start(r)
  PROVE  Keeps(r) \/ UNCHANGED vars
<1> USE DEF Pcs
<1>1. CASE \E u \in Users, p \in Passwords : Signup(r, u, p)
  BY <1>1, SignupKeeps
<1>2. CASE \E u \in Users, d \in Devices, p \in Passwords : Login(r, u, d, p)
  BY <1>2, LoginKeeps
<1>3. ASSUME NEW n \in 1..MaxGrants, Refresh(r, n) PROVE Keeps(r)
  BY <1>3, RefreshKeeps
<1>4. ASSUME NEW n \in 1..MaxGrants, Logout(r, n) PROVE Keeps(r)
  <2>1. n \in delivered => grants[n].device \in Devices
    BY GrantFields DEF IInv
  <2> QED
    BY <1>4, <2>1, AuthenticatedKeeps DEF Logout, Authenticated
<1>5. ASSUME NEW n \in 1..MaxGrants, LogoutAll(r, n) PROVE Keeps(r)
  BY <1>5, AuthenticatedKeeps DEF LogoutAll
<1>6. ASSUME NEW n \in 1..MaxGrants, UpdateMe(r, n) PROVE Keeps(r)
  BY <1>6, AuthenticatedKeeps DEF UpdateMe
<1>7. ASSUME NEW n \in 1..MaxGrants, ChangePassword(r, n) PROVE Keeps(r)
  BY <1>7, AuthenticatedKeeps DEF ChangePassword
<1>8. ASSUME NEW n \in 1..MaxGrants, DeleteAccount(r, n) PROVE Keeps(r)
  BY <1>8, AuthenticatedKeeps DEF DeleteAccount
<1>9. ASSUME NEW n \in 1..MaxGrants, NEW d \in Devices, ForceLogout(r, n, d) PROVE Keeps(r)
  BY <1>9, AuthenticatedKeeps DEF ForceLogout
<1>10. CASE TurnedAway(r)
  BY <1>10 DEF TurnedAway
<1> QED
  BY <1>1, <1>2, <1>3, <1>4, <1>5, <1>6, <1>7, <1>8, <1>9, <1>10 DEF Start

-----------------------------------------------------------------------------
(***************************************************************************)
(* Steps of the requests in flight.                                        *)
(***************************************************************************)
\* What a slot that is not idle is known to hold.
LEMMA InFlight ==
  ASSUME IInv, NEW r \in Requests, ~At(r, "idle")
  PROVE  /\ ControlOK(r) /\ SubjectOK(r) /\ RevokedOK(r) /\ BoundsOK(r)
         /\ req[r] \in Request /\ Len(grants) \in Nat
         /\ req[r].minted \in 0..Len(grants) /\ txn[r].rows \subseteq 0..Len(grants)
BY DEF IInv, TypeOK, ApiTypeOK, SlotOK, BoundsOK, At

\* A step that moves to pc, and of all the rest touches txn[r] or removes
\* refresh tokens from the store.
LEMMA GotoKeeps ==
  ASSUME IInv, NEW r \in Requests, ~At(r, "idle"), NEW pc \in Pcs \ {"idle"}, Goto(r, pc),
         StoreTypeOK', blacklist \subseteq blacklist',
         \A u \in Users, d \in Devices : rt'[u][d] \in {0, rt[u][d]},
         DbTypeOK', txn'[r].rows \subseteq 0..Len(grants),
         \A q \in Requests : q # r => txn'[q].rows = txn[q].rows,
         ControlOK(r)', Grows => RevokedOK(r)'
  PROVE  Keeps(r)
<1>1. /\ ApiTypeOK' /\ UNCHANGED <<grants, delivered>>
      /\ \A q \in Requests : q # r => req'[q] = req[q]
      /\ req'[r] = [req[r] EXCEPT !.pc = pc]
  BY GotoType DEF IInv, TypeOK
<1>2. Grows
  BY <1>1, NothingMinted DEF IInv
<1>3. SlotOK(r)'
  BY <1>1, <1>2, MovedSlot
<1> QED
  BY <1>1, <1>2, <1>3 DEF Keeps, TypeOK, SameSlot

\* The op of a moved slot stays, its pc is the new one.
LEMMA MovedFields ==
  ASSUME IInv, NEW r \in Requests, NEW pc, Goto(r, pc)
  PROVE  /\ req'[r].pc = pc
         /\ \A f \in {"op", "user", "device", "grant", "minted", "prior"} : req'[r][f] = req[r][f]
         /\ UNCHANGED <<grants, delivered>>
BY DEF IInv, TypeOK, ApiTypeOK, Request, Goto

\* A step on the database: what the request promised about tokens stands.
LEMMA DbStepKeeps ==
  ASSUME IInv, NEW r \in Requests, ~At(r, "idle"), NEW pc \in Pcs \ {"idle"}, Goto(r, pc),
         UNCHANGED storeVars,
         DbTypeOK', txn'[r].rows \subseteq 0..Len(grants),
         \A q \in Requests : q # r => txn'[q].rows = txn[q].rows,
         ControlOK(r)', BeforeDel(r) => BeforeDel(r)', ~At(r, "blacklist")
  PROVE  Keeps(r)
<1>1. StoreTypeOK'
  BY MovedFields DEF IInv, TypeOK, StoreTypeOK, storeVars
<1>2. ASSUME Grows PROVE RevokedOK(r)'
  <2>1. RevokedOK(r) /\ BoundsOK(r) /\ delivered \subseteq 1..Len(grants)
    BY InFlight DEF IInv, TypeOK, ApiTypeOK
  <2> QED
    BY <1>2, <2>1, MovedFields DEF RevokedOK, BoundsOK, Grows, At
<1> QED
  BY <1>1, <1>2, GotoKeeps DEF storeVars

\* signup: the INSERT.
LEMMA InsertUserKeeps == ASSUME IInv, NEW r \in Requests, InsertUser(r) PROVE Keeps(r)
<1>1. PICK pc \in {"reply", "commit", "raise"} : Goto(r, pc)
  BY DEF InsertUser, Returned
<1>2. /\ At(r, "insert_user") /\ UNCHANGED storeVars
      /\ Flush(r, {"user"}, txn[r].put) /\ UNCHANGED <<row, history>>
  BY DEF InsertUser
<1>3. txn[r].put \in PutType /\ txn[r].rows \subseteq 0..Len(grants)
  BY DEF IInv, TypeOK, DbTypeOK, TxnType, SlotOK, BoundsOK
<1>4. DbTypeOK' /\ \A q \in Requests : txn'[q].rows = txn[q].rows
  BY <1>1, <1>2, <1>3, FlushType, MovedFields DEF IInv, TypeOK
<1>5. ControlOK(r)'
  BY <1>1, <1>2, MovedFields, InFlight DEF ControlOK, At
<1> QED
  BY <1>1, <1>2, <1>3, <1>4, <1>5, DbStepKeeps DEF At, BeforeDel, Pcs

\* login: the device row.
LEMMA UpsertDeviceKeeps == ASSUME IInv, NEW r \in Requests, UpsertDevice(r) PROVE Keeps(r)
<1> DEFINE put == [txn[r].put EXCEPT !.device = Assign(r, {req[r].device}, "active")]
<1>1. PICK pc \in {"raise", "update_last_login"} : Goto(r, pc)
  BY DEF UpsertDevice
<1>2. PICK L \in SUBSET {req[r].device, "fk"} :
        /\ At(r, "upsert_device") /\ UNCHANGED storeVars
        /\ Flush(r, L, put) /\ UNCHANGED <<row, history>>
  BY DEF UpsertDevice
<1>3. req[r].op = "login" /\ req[r].device \in Devices /\ txn[r].rows \subseteq 0..Len(grants)
  BY <1>2, InFlight DEF ControlOK, SubjectOK, At
<1>4. put \in PutType /\ L \in SUBSET (Devices \union {"user", "fk"})
  BY <1>3, AssignType DEF IInv, TypeOK
<1> HIDE DEF put
<1>5. DbTypeOK' /\ \A q \in Requests : txn'[q].rows = txn[q].rows
  BY <1>1, <1>2, <1>4, FlushType, MovedFields DEF IInv, TypeOK
<1>6. ControlOK(r)' /\ ~BeforeDel(r)
  BY <1>1, <1>2, <1>3, MovedFields DEF ControlOK, BeforeDel, At
<1> QED
  BY <1>1, <1>2, <1>3, <1>5, <1>6, DbStepKeeps DEF At, Pcs

\* login: last_login_at.
LEMMA UpdateLastLoginKeeps == ASSUME IInv, NEW r \in Requests, UpdateLastLogin(r) PROVE Keeps(r)
<1>1. /\ At(r, "update_last_login") /\ UNCHANGED storeVars /\ Goto(r, "setex")
      /\ Flush(r, {"user"}, txn[r].put) /\ UNCHANGED <<row, history>>
  BY DEF UpdateLastLogin
<1>2. req[r].op = "login" /\ txn[r].put \in PutType /\ txn[r].rows \subseteq 0..Len(grants)
  BY <1>1, InFlight DEF ControlOK, At, IInv, TypeOK, DbTypeOK, TxnType
<1>3. DbTypeOK' /\ \A q \in Requests : txn'[q].rows = txn[q].rows
  BY <1>1, <1>2, FlushType, MovedFields DEF IInv, TypeOK
<1>4. ControlOK(r)' /\ ~BeforeDel(r)
  BY <1>1, <1>2, MovedFields DEF ControlOK, BeforeDel, At
<1> QED
  BY <1>1, <1>2, <1>3, <1>4, DbStepKeeps DEF At, Pcs

\* update_me, change_password, delete_account: the users row.
LEMMA WriteUserKeeps == ASSUME IInv, NEW r \in Requests, WriteUser(r) PROVE Keeps(r)
<1>1. /\ At(r, "write_user") /\ UNCHANGED storeVars /\ UNCHANGED <<row, history>>
      /\ req[r].op \in {"refresh", "update_me", "change_password", "delete_account"}
      /\ txn[r] \in TxnType /\ txn[r].put \in PutType /\ txn[r].rows \subseteq 0..Len(grants)
  BY InFlight DEF WriteUser, ControlOK, At, IInv, TypeOK, DbTypeOK, TxnType
<1>2. CASE Goto(r, "raise") /\ UNCHANGED txn
  <2>1. DbTypeOK' /\ ControlOK(r)' /\ ~BeforeDel(r)
    BY <1>1, <1>2, MovedFields DEF ControlOK, BeforeDel, At, IInv, TypeOK, DbTypeOK
  <2> QED
    BY <1>1, <1>2, <2>1, DbStepKeeps DEF At, Pcs
<1>3. ASSUME NEW put \in PutType, Flush(r, {"user"}, put), NEW pc \in {"reply", "commit", "smembers"},
             Goto(r, pc), pc = "smembers" => req[r].op \in AccountWide
      PROVE  Keeps(r)
  <2>1. DbTypeOK' /\ \A q \in Requests : txn'[q].rows = txn[q].rows
    BY <1>1, <1>3, FlushType, MovedFields DEF IInv, TypeOK
  <2>2. ControlOK(r)' /\ ~BeforeDel(r)
    BY <1>1, <1>3, MovedFields DEF ControlOK, BeforeDel, At, AccountWide
  <2> QED
    BY <1>1, <1>3, <2>1, <2>2, DbStepKeeps DEF At, Pcs
<1>4. [txn[r].put EXCEPT !.status = "WITHDRAWN"] \in PutType
  BY <1>1 DEF PutType, Statuses
<1>5. \A p \in Passwords : [txn[r].put EXCEPT !.pwd = p] \in PutType
  BY <1>1 DEF PutType
<1>6. CASE req[r].op = "update_me" /\ Flush(r, {"user"}, txn[r].put) /\ Goto(r, Returned)
  BY <1>1, <1>3, <1>6 DEF Returned
<1>7. CASE /\ req[r].op = "delete_account"
           /\ Flush(r, {"user"}, [txn[r].put EXCEPT !.status = "WITHDRAWN"])
           /\ Goto(r, "smembers")
  BY <1>3, <1>4, <1>7 DEF AccountWide
<1>8. CASE /\ req[r].op = "change_password"
           /\ \E p \in Passwords \ {txn[r].seen.pwd} :
                Flush(r, {"user"}, [txn[r].put EXCEPT !.pwd = p])
           /\ Goto(r, "smembers")
  BY <1>3, <1>5, <1>8 DEF AccountWide
<1> QED
  BY <1>2, <1>6, <1>7, <1>8 DEF WriteUser

\* A first SELECT: the transaction begins, nothing is written yet.
LEMMA BeginType ==
  ASSUME IInv, NEW r \in Requests, NEW u \in Users, Begin(r, u), UNCHANGED <<row, history>>,
         UNCHANGED grants
  PROVE  /\ DbTypeOK' /\ txn'[r].rows \subseteq 0..Len(grants)
         /\ \A q \in Requests : q # r => txn'[q].rows = txn[q].rows
<1> DEFINE begun == [BlankTxn EXCEPT !.user = u, !.seen = row[u]]
<1>1. begun \in TxnType /\ begun.rows = {}
  BY BegunType DEF IInv, TypeOK, DbTypeOK, BlankTxn
<1>2. txn' = [txn EXCEPT ![r] = begun]
  BY DEF Begin
<1> HIDE DEF begun
<1> QED
  BY <1>1, <1>2 DEF IInv, TypeOK, DbTypeOK

\* get_by_id.
LEMMA GetByIdKeeps == ASSUME IInv, NEW r \in Requests, GetById(r) PROVE Keeps(r)
<1>1. /\ At(r, "get_by_id") /\ UNCHANGED storeVars /\ UNCHANGED <<row, history>>
      /\ req[r].user \in Users /\ Begin(r, req[r].user)
      /\ req[r].op \in {"refresh", "update_me", "change_password", "delete_account"}
  BY InFlight DEF GetById, ControlOK, SubjectOK, At
<1>2. PICK pc \in {"raise", "setex", "write_user"} :
        Goto(r, pc) /\ (pc = "setex" => req[r].op = "refresh")
  BY DEF GetById
<1>3. ControlOK(r)' /\ ~BeforeDel(r)
  BY <1>1, <1>2, MovedFields DEF ControlOK, BeforeDel, At
<1> QED
  BY <1>1, <1>2, <1>3, BeginType, MovedFields, DbStepKeeps DEF At, Pcs

\* get_by_user_and_device.
LEMMA FindDeviceKeeps == ASSUME IInv, NEW r \in Requests, FindDevice(r) PROVE Keeps(r)
<1>1. /\ At(r, "find_device") /\ UNCHANGED storeVars /\ UNCHANGED <<row, history>>
      /\ req[r].user \in Users /\ Begin(r, req[r].user)
  BY InFlight DEF FindDevice, SubjectOK, At
<1>2. PICK pc \in {"reply", "commit", "deactivate", "del", "raise"} :
        /\ Goto(r, pc)
        /\ \/ req[r].op = "logout" /\ pc \in {"reply", "commit", "deactivate"}
           \/ req[r].op = "force_logout" /\ pc \in {"del", "raise"}
  BY DEF FindDevice, Returned
<1>3. ControlOK(r)' /\ (BeforeDel(r) => BeforeDel(r)')
  BY <1>1, <1>2, MovedFields DEF ControlOK, BeforeDel, At, DeviceWide
<1> QED
  BY <1>1, <1>2, <1>3, BeginType, MovedFields, DbStepKeeps DEF At, Pcs

\* get_active_devices.
LEMMA FindDevicesKeeps == ASSUME IInv, NEW r \in Requests, FindDevices(r) PROVE Keeps(r)
<1>1. /\ At(r, "find_devices") /\ UNCHANGED storeVars /\ UNCHANGED <<row, history>>
      /\ req[r].user \in Users /\ Begin(r, req[r].user) /\ Goto(r, "deactivate")
      /\ req[r].op \in AccountWide
  BY InFlight DEF FindDevices, ControlOK, SubjectOK, At
<1>2. ControlOK(r)' /\ ~BeforeDel(r)
  BY <1>1, MovedFields DEF ControlOK, BeforeDel, At, AccountWide
<1> QED
  BY <1>1, <1>2, BeginType, MovedFields, DbStepKeeps DEF At, Pcs

\* deactivate_device and deactivate_all_devices.
LEMMA DeactivateKeeps == ASSUME IInv, NEW r \in Requests, Deactivate(r) PROVE Keeps(r)
<1> DEFINE put == [txn[r].put EXCEPT !.device = Assign(r, Deactivated(r), "inactive")]
<1>1. /\ At(r, "deactivate") /\ UNCHANGED storeVars /\ UNCHANGED <<row, history>>
      /\ Flush(r, Deactivated(r), put) /\ Goto(r, Returned)
  BY DEF Deactivate
<1>2. /\ req[r].op \in {"logout", "force_logout"} \union AccountWide
      /\ Deactivated(r) \subseteq Devices /\ txn[r].rows \subseteq 0..Len(grants)
  BY <1>1, InFlight DEF ControlOK, SubjectOK, At, Deactivated, DeviceWide
<1>3. put \in PutType
  BY AssignType DEF IInv, TypeOK
<1> HIDE DEF put
<1>4. DbTypeOK' /\ \A q \in Requests : txn'[q].rows = txn[q].rows
  BY <1>1, <1>2, <1>3, FlushType, MovedFields DEF IInv, TypeOK
<1>5. ControlOK(r)' /\ ~BeforeDel(r) /\ Returned \in Pcs \ {"idle"}
  BY <1>1, <1>2, MovedFields DEF ControlOK, BeforeDel, At, Returned, Pcs
<1> QED
  BY <1>1, <1>2, <1>4, <1>5, DbStepKeeps DEF At

\* A step on the store that leaves transactions alone.
LEMMA StoreStepKeeps ==
  ASSUME IInv, NEW r \in Requests, ~At(r, "idle"), NEW pc \in Pcs \ {"idle"}, Goto(r, pc),
         UNCHANGED dbVars,
         StoreTypeOK', blacklist \subseteq blacklist',
         \A u \in Users, d \in Devices : rt'[u][d] \in {0, rt[u][d]},
         ControlOK(r)', Grows => RevokedOK(r)'
  PROVE  Keeps(r)
<1>1. DbTypeOK' /\ txn[r].rows \subseteq 0..Len(grants) /\ UNCHANGED txn
  BY InFlight, MovedFields DEF IInv, TypeOK, DbTypeOK, dbVars
<1> QED
  BY <1>1, GotoKeeps

\* A promise made before DEL or kept since is still kept by a step that does
\* not pass DEL and is not the blacklisting.
LEMMA PromiseStands ==
  ASSUME IInv, Grows, NEW r \in Requests, ~At(r, "idle"), ~At(r, "blacklist"), NEW pc, Goto(r, pc),
         BeforeDel(r) => BeforeDel(r)'
  PROVE  RevokedOK(r)'
<1>1. RevokedOK(r) /\ BoundsOK(r) /\ delivered \subseteq 1..Len(grants)
  BY InFlight DEF IInv, TypeOK, ApiTypeOK
<1> QED
  BY <1>1, MovedFields DEF RevokedOK, BoundsOK, Grows, At

\* SADD, and the history row of a login.
LEMMA SaddDeviceKeeps == ASSUME IInv, NEW r \in Requests, SaddDevice(r) PROVE Keeps(r)
<1>1. /\ At(r, "sadd") /\ Goto(r, Returned) /\ UNCHANGED <<row, history, rt, blacklist>>
      /\ index' = [index EXCEPT ![req[r].user] = @ \union {req[r].device}]
      /\ req[r].op \in {"login", "refresh"}
      /\ req[r].user \in Users /\ req[r].device \in Devices
      /\ req[r].minted \in 0..Len(grants)
  BY InFlight DEF SaddDevice, Sadd, ControlOK, SubjectOK, At
<1>2. PICK rows \in SUBSET (0..Len(grants)) : txn' = [txn EXCEPT ![r].rows = rows]
  BY <1>1 DEF SaddDevice
<1>3. rows \subseteq Nat
  OBVIOUS
<1>4. /\ txn' \in [Requests -> TxnType] /\ txn'[r].rows = rows
      /\ \A q \in Requests : q # r => txn'[q].rows = txn[q].rows
  BY <1>2, <1>3 DEF IInv, TypeOK, DbTypeOK, TxnType
<1>5. DbTypeOK' /\ StoreTypeOK'
  BY <1>1, <1>4, MovedFields DEF IInv, TypeOK, DbTypeOK, StoreTypeOK
<1>6. ControlOK(r)' /\ ~BeforeDel(r) /\ Returned \in Pcs \ {"idle"}
  BY <1>1, MovedFields DEF ControlOK, BeforeDel, At, Returned, Pcs
<1>7. Grows => RevokedOK(r)'
  BY <1>1, <1>6, PromiseStands DEF At
<1> QED
  BY <1>1, <1>4, <1>5, <1>6, <1>7, GotoKeeps DEF At

\* blacklist_token of a logout keeps its second promise.
LEMMA BlacklistKeeps == ASSUME IInv, NEW r \in Requests, Blacklist(r) PROVE Keeps(r)
<1>1. PICK pc \in {"del", "smembers"} :
        /\ Goto(r, pc)
        /\ pc = IF req[r].op = "logout" THEN "del" ELSE "smembers"
  BY DEF Blacklist
<1>2. /\ At(r, "blacklist") /\ UNCHANGED dbVars /\ UNCHANGED <<rt, index>>
      /\ blacklist' = blacklist \union {req[r].grant}
      /\ req[r].op \in {"logout", "logout_all"} /\ req[r].grant \in delivered
  BY InFlight DEF Blacklist, BlacklistToken, ControlOK, SubjectOK, At
<1>3. StoreTypeOK'
  BY <1>1, <1>2, MovedFields DEF IInv, TypeOK, ApiTypeOK, StoreTypeOK
<1>4. ControlOK(r)' /\ RevokedOK(r)'
  BY <1>1, <1>2, MovedFields DEF ControlOK, RevokedOK, BeforeDel, DeviceWide, AccountWide
<1> QED
  BY <1>1, <1>2, <1>3, <1>4, StoreStepKeeps DEF At, Pcs

\* DEL ends the sessions the request was asked to end.
LEMMA DelTokenKeeps == ASSUME IInv, NEW r \in Requests, DelToken(r) PROVE Keeps(r)
<1>1. /\ At(r, "del") /\ Goto(r, "srem") /\ UNCHANGED dbVars /\ UNCHANGED <<index, blacklist>>
      /\ rt' = [rt EXCEPT ![req[r].user][req[r].device] = 0]
      /\ req[r].op \in DeviceWide /\ req[r].user \in Users /\ req[r].device \in Devices
  BY InFlight DEF DelToken, Del, ControlOK, SubjectOK, At
<1>2. StoreTypeOK' /\ rt'[req[r].user][req[r].device] = 0
      /\ \A u \in Users, d \in Devices : rt'[u][d] \in {0, rt[u][d]}
  BY <1>1, MovedFields DEF IInv, TypeOK, StoreTypeOK
<1>3. ControlOK(r)'
  BY <1>1, MovedFields DEF ControlOK
<1>4. \A n \in req[r].prior : n # 0 /\ grants[n].user = req[r].user /\ grants[n].device = req[r].device
  BY <1>1, InFlight DEF At, SubjectOK, BoundsOK, IInv, TypeOK, ApiTypeOK
<1>5. \A n \in req'[r].prior : ~Stored(n)'
  BY <1>1, <1>2, <1>4, MovedFields DEF Stored
<1>6. req'[r].op = "logout" => req'[r].grant \in blacklist'
  BY <1>1, MovedFields, InFlight DEF RevokedOK, At
<1>7. RevokedOK(r)'
  BY <1>5, <1>6 DEF RevokedOK
<1> QED
  BY <1>1, <1>2, <1>3, <1>7, StoreStepKeeps DEF At, Pcs

\* SREM.
LEMMA SremDeviceKeeps == ASSUME IInv, NEW r \in Requests, SremDevice(r) PROVE Keeps(r)
<1>1. PICK pc \in {"raise", "find_device", "deactivate"} :
        /\ Goto(r, pc)
        /\ pc = CASE req[r].op = "reuse" -> "raise"
                  [] req[r].op = "logout" -> "find_device"
                  [] OTHER -> "deactivate"
  BY DEF SremDevice
<1>2. /\ At(r, "srem") /\ UNCHANGED dbVars /\ UNCHANGED <<rt, blacklist>>
      /\ index' = [index EXCEPT ![req[r].user] = @ \ {req[r].device}]
      /\ req[r].op \in DeviceWide
  BY InFlight DEF SremDevice, Srem, ControlOK, At
<1>3. StoreTypeOK'
  BY <1>1, <1>2, MovedFields DEF IInv, TypeOK, StoreTypeOK
<1>4. ControlOK(r)' /\ ~BeforeDel(r)
  BY <1>1, <1>2, MovedFields DEF ControlOK, BeforeDel, At, DeviceWide
<1> QED
  BY <1>1, <1>2, <1>3, <1>4, PromiseStands, StoreStepKeeps DEF At, Pcs

\* SMEMBERS.
LEMMA SmembersKeeps == ASSUME IInv, NEW r \in Requests, Smembers(r) PROVE Keeps(r)
<1> DEFINE new == [req[r] EXCEPT !.pc = "delete_all", !.members = index[req[r].user]]
<1>1. /\ At(r, "smembers") /\ UNCHANGED <<storeVars, dbVars, grants, delivered>>
      /\ req[r].op \in AccountWide /\ req[r].user \in Users /\ req[r] \in Request
      /\ SubjectOK(r) /\ BoundsOK(r)
  BY InFlight DEF Smembers, ControlOK, SubjectOK, At
<1>2. req' = [req EXCEPT ![r] = new]
  BY DEF Smembers, IInv, TypeOK, ApiTypeOK
<1>3. index[req[r].user] \in SUBSET Devices
  BY <1>1 DEF IInv, TypeOK, StoreTypeOK
<1>4. /\ new \in Request /\ new.pc = "delete_all" /\ new.op = req[r].op
      /\ new.user = req[r].user /\ new.device = req[r].device /\ new.grant = req[r].grant
      /\ new.minted = req[r].minted /\ new.prior = req[r].prior
  BY <1>1, <1>3 DEF Request, Pcs
<1> HIDE DEF new
<1>5. /\ req' \in [Requests -> Request] /\ req'[r] = new
      /\ \A q \in Requests : q # r => req'[q] = req[q]
  BY <1>2, <1>4 DEF IInv, TypeOK, ApiTypeOK
<1>6. TypeOK'
  BY <1>1, <1>5 DEF IInv, TypeOK, ApiTypeOK, StoreTypeOK, DbTypeOK, storeVars, dbVars
<1>7. Grows
  BY <1>1, NothingMinted DEF IInv, storeVars
<1>8. BoundsOK(r)' /\ ControlOK(r)' /\ SubjectOK(r)' /\ RevokedOK(r)'
  BY <1>1, <1>4, <1>5 DEF BoundsOK, ControlOK, SubjectOK, RevokedOK, AccountWide, DeviceWide, dbVars
<1> QED
  BY <1>1, <1>5, <1>6, <1>7, <1>8 DEF Keeps, SlotOK, SameSlot, dbVars

\* The pipeline of delete_all_refresh_tokens.
LEMMA DeleteAllTokensKeeps == ASSUME IInv, NEW r \in Requests, DeleteAllTokens(r) PROVE Keeps(r)
<1> DEFINE u == req[r].user  D == req[r].members
<1>1. PICK pc \in {"find_devices", "deactivate"} : Goto(r, pc)
  BY DEF DeleteAllTokens
<1>2. /\ At(r, "delete_all") /\ UNCHANGED dbVars /\ UNCHANGED blacklist
      /\ rt' = [rt EXCEPT ![u] = [d \in Devices |-> IF d \in D THEN 0 ELSE @[d]]]
      /\ index' = [index EXCEPT ![u] = {}]
      /\ req[r].op \in AccountWide /\ u \in Users
  BY InFlight DEF DeleteAllTokens, DeleteAll, ControlOK, SubjectOK, At
<1> HIDE DEF u, D
<1>3. /\ rt' \in [Users -> [Devices -> 0..Len(grants)]]
      /\ \A v \in Users, d \in Devices : rt'[v][d] \in {0, rt[v][d]}
  BY <1>2, InFlight DEF IInv, TypeOK, StoreTypeOK, At
<1>4. StoreTypeOK'
  BY <1>1, <1>2, <1>3, MovedFields DEF IInv, TypeOK, StoreTypeOK
<1>5. ControlOK(r)' /\ ~BeforeDel(r)
  BY <1>1, <1>2, MovedFields DEF ControlOK, BeforeDel, At, AccountWide
<1> QED
  BY <1>1, <1>2, <1>3, <1>4, <1>5, PromiseStands, StoreStepKeeps DEF At, Pcs

\* The one step that mints: the new token replaces what its device had, the
\* token redeemed for it included.
LEMMA SetexTokenKeeps ==
  ASSUME IInv, NEW r \in Requests, SetexToken(r)
  PROVE  Keeps(r) /\ ParentsOK'
<1> DEFINE u == req[r].user  d == req[r].device  m == Len(grants) + 1
           g == [user |-> u, device |-> d, parent |-> req[r].grant]
           new == [req[r] EXCEPT !.pc = "sadd", !.minted = m]
<1>1. /\ At(r, "setex") /\ UNCHANGED <<index, blacklist, row, history, txn, delivered>>
      /\ grants' = Append(grants, g) /\ rt' = [rt EXCEPT ![u][d] = m]
      /\ req' = [req EXCEPT ![r].pc = "sadd", ![r].minted = m]
  BY DEF SetexToken, Setex, dbVars
<1>2. /\ req[r].op \in {"login", "refresh"} /\ u \in Users /\ d \in Devices
      /\ req[r] \in Request /\ SubjectOK(r) /\ BoundsOK(r)
  BY <1>1, InFlight DEF ControlOK, SubjectOK, At
<1>3. /\ grants \in Seq(Grant) /\ Len(grants) \in Nat /\ m \in Nat /\ delivered \subseteq 1..Len(grants)
      /\ \A n \in 1..Len(grants) : grants[n] \in Grant
  BY DEF IInv, TypeOK, ApiTypeOK
<1>4. g \in Grant /\ g.parent = req[r].grant /\ g.user = u /\ g.device = d
  BY <1>2 DEF Grant, Request
<1>5. /\ new \in Request /\ new.pc = "sadd" /\ new.minted = m /\ new.op = req[r].op
      /\ new.user = u /\ new.device = d /\ new.grant = req[r].grant /\ new.prior = req[r].prior
  BY <1>2, <1>3 DEF Request, Pcs
<1>6. /\ req' = [req EXCEPT ![r] = new]
      /\ rt \in [Users -> [Devices -> 0..Len(grants)]]
  BY <1>1 DEF IInv, TypeOK, StoreTypeOK, ApiTypeOK
<1> HIDE DEF g, new
<1>7. /\ grants' \in Seq(Grant) /\ Len(grants') = m /\ grants'[m] = g
      /\ \A n \in 1..Len(grants) : grants'[n] = grants[n]
      /\ 0..Len(grants) \subseteq 0..Len(grants') /\ 1..Len(grants) \subseteq 1..Len(grants')
  BY <1>1, <1>3, <1>4
<1>8. /\ req' \in [Requests -> Request] /\ req'[r] = new
      /\ \A q \in Requests : q # r => req'[q] = req[q]
  BY <1>5, <1>6 DEF IInv, TypeOK, ApiTypeOK
<1> HIDE DEF u, d, m
<1>9. /\ rt' \in [Users -> [Devices -> 0..Len(grants')]] /\ rt'[u][d] = m
      /\ \A v \in Users, e \in Devices : rt'[v][e] \in {m, rt[v][e]}
  <2>1. m \in 0..Len(grants')
    BY <1>3, <1>7
  <2> QED
    BY <1>1, <1>2, <1>6, <1>7, <2>1
<1>10. TypeOK'
  <2>1. StoreTypeOK'
    BY <1>1, <1>7, <1>9 DEF IInv, TypeOK, StoreTypeOK
  <2>2. DbTypeOK'
    BY <1>1, <1>7 DEF IInv, TypeOK, DbTypeOK
  <2>3. ApiTypeOK'
    BY <1>1, <1>3, <1>7, <1>8 DEF ApiTypeOK
  <2> QED
    BY <2>1, <2>2, <2>3 DEF TypeOK
<1>11. ASSUME NEW n \in 1..Len(grants), Stored(n)' PROVE Stored(n)
  <2>1. n # m /\ grants'[n].user \in Users /\ grants'[n].device \in Devices
    BY <1>3, <1>7 DEF Grant, m
  <2> QED
    BY <1>7, <1>9, <1>11, <2>1 DEF Stored
<1>12. Grows
  BY <1>1, <1>3, <1>7, <1>11 DEF Grows, m
<1>13. SlotOK(r)'
  <2>1. BoundsOK(r)'
    BY <1>1, <1>2, <1>3, <1>5, <1>7, <1>8 DEF BoundsOK, m
  <2>2. ControlOK(r)'
    BY <1>2, <1>5, <1>8 DEF ControlOK
  <2>3. SubjectOK(r)'
    BY <1>1, <1>2, <1>3, <1>5, <1>7, <1>8 DEF SubjectOK, DeviceWide, u, d
  <2>4. RevokedOK(r)'
    BY <1>2, <1>5, <1>8 DEF RevokedOK, DeviceWide
  <2> QED
    BY <2>1, <2>2, <2>3, <2>4 DEF SlotOK
<1>14. ParentsOK'
  <2> SUFFICES ASSUME NEW n \in 1..Len(grants'), grants'[n].parent # 0
               PROVE  grants'[n].parent \in 1..Len(grants') /\ ~Stored(grants[n].parent)'
    BY DEF ParentsOK
  <2>1. CASE n \in 1..Len(grants)
    <3>1. grants[n].parent \in 1..Len(grants) /\ ~Stored(grants[n].parent)
      BY <1>7, <2>1 DEF IInv, ParentsOK
    <3> QED
      BY <1>7, <1>11, <2>1, <3>1
  <2>2. CASE n = m
    <3>1. /\ grants'[n].parent = req[r].grant /\ req[r].grant \in 1..Len(grants)
          /\ grants[req[r].grant].user = u /\ grants[req[r].grant].device = d
      BY <1>2, <1>3, <1>4, <1>7, <2>2 DEF SubjectOK, u, d
    <3>2. req[r].grant # m
      BY <1>3, <3>1 DEF m
    <3> QED
      BY <1>7, <1>9, <3>1, <3>2 DEF Stored
  <2> QED
    BY <1>3, <1>7, <2>1, <2>2 DEF m
<1> QED
  BY <1>1, <1>8, <1>10, <1>12, <1>13, <1>14 DEF Keeps, SameSlot

-----------------------------------------------------------------------------
(***************************************************************************)
(* How a request ends.                                                     *)
(***************************************************************************)
\* A slot that empties: what the request knew is forgotten.
LEMMA LeaveKeeps ==
  ASSUME IInv, NEW r \in Requests, Leave(r), UNCHANGED grants, UNCHANGED storeVars,
         DbTypeOK', txn'[r].rows \subseteq 0..Len(grants),
         \A q \in Requests : q # r => txn'[q].rows = txn[q].rows,
         delivered \subseteq delivered', delivered' \subseteq 1..Len(grants)
  PROVE  Keeps(r)
<1>1. /\ req' \in [Requests -> Request] /\ req'[r] = Idle
      /\ \A q \in Requests : q # r => req'[q] = req[q]
  BY LeaveType DEF IInv, TypeOK, ApiTypeOK
<1>2. Len(grants) \in Nat /\ \A n \in 1..Len(grants) : grants[n] \in Grant
  BY DEF IInv, TypeOK, ApiTypeOK
<1>3. TypeOK'
  BY <1>1 DEF IInv, TypeOK, ApiTypeOK, StoreTypeOK, storeVars
<1>4. Grows
  BY <1>2 DEF Grows, Stored, storeVars
<1>5. SlotOK(r)'
  BY <1>1, <1>2 DEF SlotOK, BoundsOK, Idle
<1> QED
  BY <1>1, <1>3, <1>4, <1>5 DEF Keeps, SameSlot

\* ROLLBACK forgets the transaction.
LEMMA RollbackType ==
  ASSUME IInv, NEW r \in Requests, RollbackTxn(r), UNCHANGED grants
  PROVE  /\ DbTypeOK' /\ txn'[r].rows \subseteq 0..Len(grants)
         /\ \A q \in Requests : q # r => txn'[q].rows = txn[q].rows
<1>1. BlankTxn.rows = {}
  BY DEF BlankTxn
<1> QED
  BY <1>1, BlankTxnType DEF RollbackTxn, IInv, TypeOK, DbTypeOK

\* get_db commits.
LEMMA CommitKeeps == ASSUME IInv, NEW r \in Requests, Commit(r) PROVE Keeps(r)
<1>1. /\ At(r, "commit") /\ UNCHANGED storeVars /\ CommitTxn(r) /\ UNCHANGED <<grants, delivered>>
      /\ delivered \subseteq 1..Len(grants)
  BY DEF Commit, Goto, IInv, TypeOK, ApiTypeOK
<1>2. /\ DbTypeOK' /\ txn'[r].rows \subseteq 0..Len(grants)
      /\ \A q \in Requests : q # r => txn'[q].rows = txn[q].rows
  <2>1. txn'[r].rows = {}
    BY <1>1 DEF CommitTxn, BlankTxn, IInv, TypeOK, DbTypeOK
  <2> QED
    BY <1>1, <2>1, CommitType DEF IInv, TypeOK, SlotOK, BoundsOK
<1>3. CASE Leave(r)
  BY <1>1, <1>2, <1>3, LeaveKeeps
<1>4. CASE Goto(r, "reply")
  <2>1. ControlOK(r)' /\ ~BeforeDel(r)
    BY <1>1, <1>4, InFlight, MovedFields DEF ControlOK, BeforeDel, At
  <2> QED
    BY <1>1, <1>2, <1>4, <2>1, DbStepKeeps DEF At, Pcs
<1> QED
  BY <1>3, <1>4 DEF Commit

\* The response: its grant is delivered.
LEMMA ReplyKeeps == ASSUME IInv, NEW r \in Requests, Reply(r) PROVE Keeps(r)
<1>1. /\ At(r, "reply") /\ UNCHANGED storeVars /\ UNCHANGED dbVars /\ UNCHANGED grants
      /\ delivered' = delivered \union ({req[r].minted} \ {0})
      /\ SlotOK(r) /\ ControlOK(r) /\ SubjectOK(r) /\ RevokedOK(r) /\ BoundsOK(r) /\ req[r] \in Request
  BY InFlight DEF Reply, At, IInv
<1>2. /\ Len(grants) \in Nat /\ \A n \in 1..Len(grants) : grants[n] \in Grant
      /\ delivered \subseteq 1..Len(grants)
  BY DEF IInv, TypeOK, ApiTypeOK
<1>3. delivered \subseteq delivered' /\ delivered' \subseteq 1..Len(grants)
  <2>1. req[r].minted \in 0..Len(grants)
    BY <1>1 DEF BoundsOK
  <2>2. req[r].minted # 0 => req[r].minted \in 1..Len(grants)
    BY <1>2, <2>1
  <2> QED
    BY <1>1, <1>2, <2>2
<1>4. /\ DbTypeOK' /\ txn'[r].rows \subseteq 0..Len(grants)
      /\ \A q \in Requests : q # r => txn'[q].rows = txn[q].rows
  BY <1>1 DEF IInv, TypeOK, DbTypeOK, BoundsOK, dbVars
<1>5. CASE Leave(r)
  BY <1>1, <1>3, <1>4, <1>5, LeaveKeeps
<1>6. CASE req' = [req EXCEPT ![r].pc = "commit"]
  <2>1. /\ req' \in [Requests -> Request] /\ req'[r] = [req[r] EXCEPT !.pc = "commit"]
        /\ \A q \in Requests : q # r => req'[q] = req[q]
    <3>1. req \in [Requests -> Request] /\ [req[r] EXCEPT !.pc = "commit"] \in Request
      BY <1>1 DEF IInv, TypeOK, ApiTypeOK, Request, Pcs
    <3> QED
      BY <1>6, <3>1
  <2>2. TypeOK'
    BY <1>1, <1>3, <1>4, <2>1 DEF IInv, TypeOK, ApiTypeOK, StoreTypeOK, storeVars
  <2>3. Grows
    BY <1>1, <1>2, <1>3 DEF Grows, Stored, storeVars
  <2>4. /\ req'[r].pc = "commit"
        /\ \A f \in {"op", "user", "device", "grant", "minted", "prior"} : req'[r][f] = req[r][f]
    BY <1>1, <2>1 DEF Request
  <2>5. ControlOK(r)'
    BY <2>4 DEF ControlOK
  <2>6. RevokedOK(r)'
    BY <1>1, <1>2, <2>3, <2>4 DEF RevokedOK, BoundsOK, BeforeDel, Grows, At
  <2>7. txn'[r].rows \subseteq 0..Len(grants')
    BY <1>1, <1>4
  <2>8. SlotOK(r)'
    BY <1>1, <2>1, <2>3, <2>5, <2>6, <2>7, MovedSlot DEF At, Pcs
  <2> QED
    BY <1>4, <2>1, <2>2, <2>3, <2>8 DEF Keeps, SameSlot
<1> QED
  BY <1>5, <1>6 DEF Reply

\* A rejection or a failure.
LEMMA GivenUpKeeps ==
  ASSUME IInv, NEW r \in Requests, Raise(r) \/ Fail(r)
  PROVE  Keeps(r)
<1>1. /\ RollbackTxn(r) /\ Leave(r) /\ UNCHANGED <<storeVars, grants, delivered>>
      /\ delivered \subseteq 1..Len(grants)
  BY DEF Raise, Fail, IInv, TypeOK, ApiTypeOK
<1> QED
  BY <1>1, RollbackType, LeaveKeeps

-----------------------------------------------------------------------------
(***************************************************************************)
(* A step of any kind.                                                     *)
(***************************************************************************)
\* Every step of a request keeps the invariant; only SETEX mints.
LEMMA StepKeeps ==
  ASSUME IInv, NEW r \in Requests, Step(r) \/ Fail(r)
  PROVE  Keeps(r) /\ ParentsOK'
<1>1. CASE SetexToken(r)
  BY <1>1, SetexTokenKeeps
<1>2. ASSUME Keeps(r), UNCHANGED grants PROVE Keeps(r) /\ ParentsOK'
  BY <1>2, ParentsStay DEF Keeps
<1>3. CASE InsertUser(r) \/ UpsertDevice(r) \/ UpdateLastLogin(r) \/ WriteUser(r)
  <2>1. UNCHANGED grants
    BY <1>3 DEF InsertUser, UpsertDevice, UpdateLastLogin, WriteUser, Goto
  <2> QED
    BY <1>2, <1>3, <2>1, InsertUserKeeps, UpsertDeviceKeeps, UpdateLastLoginKeeps, WriteUserKeeps
<1>4. CASE GetById(r) \/ FindDevice(r) \/ FindDevices(r) \/ Deactivate(r)
  <2>1. UNCHANGED grants
    BY <1>4 DEF GetById, FindDevice, FindDevices, Deactivate, Goto
  <2> QED
    BY <1>2, <1>4, <2>1, GetByIdKeeps, FindDeviceKeeps, FindDevicesKeeps, DeactivateKeeps
<1>5. CASE SaddDevice(r) \/ Blacklist(r) \/ DelToken(r) \/ SremDevice(r)
  <2>1. UNCHANGED grants
    BY <1>5 DEF SaddDevice, Blacklist, DelToken, SremDevice, Goto
  <2> QED
    BY <1>2, <1>5, <2>1, SaddDeviceKeeps, BlacklistKeeps, DelTokenKeeps, SremDeviceKeeps
<1>6. CASE Smembers(r) \/ DeleteAllTokens(r)
  <2>1. UNCHANGED grants
    BY <1>6 DEF Smembers, DeleteAllTokens, Goto
  <2> QED
    BY <1>2, <1>6, <2>1, SmembersKeeps, DeleteAllTokensKeeps
<1>7. CASE Commit(r) \/ Reply(r) \/ Raise(r) \/ Fail(r)
  <2>1. UNCHANGED grants
    BY <1>7 DEF Commit, Reply, Raise, Fail, Goto
  <2> QED
    BY <1>2, <1>7, <2>1, CommitKeeps, ReplyKeeps, GivenUpKeeps
<1> QED
  BY <1>1, <1>3, <1>4, <1>5, <1>6, <1>7 DEF Step

\* Entering mints nothing.
LEMMA StartGrants == ASSUME NEW r, Start(r) PROVE UNCHANGED grants
BY DEF Start, Signup, Login, Refresh, Authenticated, Logout, LogoutAll, UpdateMe, ChangePassword,
       DeleteAccount, ForceLogout, TurnedAway, Enter, vars

\* The stores' own steps touch no request.
LEMMA StoresKeepIInv ==
  ASSUME IInv, \/ \E u \in Users, d \in Devices : Expire(u, d)
               \/ \E u \in Users : Suspend(u)
               \/ UNCHANGED vars
  PROVE  IInv' /\ Grows
<1>1. UNCHANGED <<blacklist, txn, req, grants, delivered>>
  BY DEF Expire, RtExpire, Suspend, SetStatus, dbVars, storeVars, vars
<1>2. StoreTypeOK' /\ \A u \in Users, d \in Devices : rt'[u][d] \in {0, rt[u][d]}
  <2>1. CASE UNCHANGED storeVars
    BY <1>1, <2>1 DEF storeVars, IInv, TypeOK, StoreTypeOK
  <2>2. ASSUME NEW u \in Users, NEW d \in Devices, Expire(u, d)
        PROVE  StoreTypeOK' /\ \A v \in Users, e \in Devices : rt'[v][e] \in {0, rt[v][e]}
    BY <1>1, <2>2 DEF Expire, RtExpire, IInv, TypeOK, StoreTypeOK
  <2> QED
    BY <2>1, <2>2 DEF Suspend, vars, storeVars
<1>3. row' \in [Users -> RowType] /\ UNCHANGED history
  <2>1. ASSUME NEW u \in Users, NEW to \in {"ACTIVE", "INACTIVE"},
               row' = [row EXCEPT ![u].status = to]
        PROVE  row' \in [Users -> RowType]
    BY <2>1 DEF IInv, TypeOK, DbTypeOK, RowType, Statuses
  <2> QED
    BY <2>1 DEF Expire, Suspend, SetStatus, dbVars, vars, IInv, TypeOK, DbTypeOK
<1>4. TypeOK'
  BY <1>1, <1>2, <1>3 DEF IInv, TypeOK, DbTypeOK, ApiTypeOK
<1>5. Grows
  BY <1>1, <1>2, NothingMinted DEF IInv
<1>6. \A q \in Requests : SameSlot(q)
  BY <1>1 DEF SameSlot
<1> QED
  BY <1>1, <1>4, <1>5, <1>6, OtherSlots, ParentsStay DEF IInv

\* The invariant is inductive, and nothing that only grows shrinks.
LEMMA NextIInv == IInv /\ [Next]_vars => IInv' /\ Grows
<1> SUFFICES ASSUME IInv, [Next]_vars PROVE IInv' /\ Grows
  OBVIOUS
<1>1. ASSUME NEW r \in Requests, Start(r) PROVE IInv' /\ Grows
  <2>1. CASE UNCHANGED vars
    BY <2>1, StoresKeepIInv
  <2>2. CASE Keeps(r)
    BY <1>1, <2>2, StartGrants, ParentsStay, KeepsIInv DEF Keeps
  <2> QED
    BY <1>1, <2>1, <2>2, StartKeeps
<1>2. ASSUME NEW r \in Requests, Step(r) \/ Fail(r) PROVE IInv' /\ Grows
  BY <1>2, StepKeeps, KeepsIInv DEF Keeps
<1> QED
  BY <1>1, <1>2, StoresKeepIInv DEF Next

\* It holds when the service starts on empty stores.
LEMMA InitIInv == Init => IInv
<1> SUFFICES ASSUME Init PROVE IInv
  OBVIOUS
<1> USE DEF Init, StoreInit, DbInit
<1>1. Len(grants) = 0 /\ grants \in Seq(Grant)
  OBVIOUS
<1>2. TypeOK
  BY <1>1, IdleType, BlankTxnType
     DEF TypeOK, StoreTypeOK, DbTypeOK, ApiTypeOK, BlankRow, RowType, Statuses, DeviceStates
<1>3. ASSUME NEW r \in Requests PROVE SlotOK(r)
  BY <1>1 DEF SlotOK, BoundsOK, Idle, BlankTxn
<1> QED
  BY <1>1, <1>2, <1>3 DEF IInv, ParentsOK

\* It holds in every reachable state.
LEMMA Invariant == Spec => []IInv
BY InitIInv, NextIInv, PTL DEF Spec

-----------------------------------------------------------------------------
\* What a step does to the slots: a new request, a step of one that is there,
\* an end, or the SETEX of a login or a refresh.
SlotStep(r) == \/ \E op, u, d, n, pc : Enter(r, op, u, d, n, pc)
               \/ \E pc : req' = [req EXCEPT ![r].pc = pc]
               \/ \E pc, D : req' = [req EXCEPT ![r].pc = pc, ![r].members = D]
               \/ Leave(r)

LEMMA SlotSteps ==
  ASSUME NEW r \in Requests, Start(r) \/ Step(r) \/ Fail(r), ~SetexToken(r), ~UNCHANGED req
  PROVE  SlotStep(r)
<1>1. CASE Start(r)
  BY <1>1 DEF Start, Signup, Login, Refresh, Authenticated, Logout, LogoutAll, UpdateMe, ChangePassword,
              DeleteAccount, ForceLogout, TurnedAway, vars, SlotStep
<1>2. CASE \/ InsertUser(r) \/ UpsertDevice(r) \/ UpdateLastLogin(r) \/ WriteUser(r)
           \/ GetById(r) \/ FindDevice(r) \/ FindDevices(r) \/ Deactivate(r)
  BY <1>2 DEF InsertUser, UpsertDevice, UpdateLastLogin, WriteUser, GetById, FindDevice, FindDevices,
              Deactivate, Goto, SlotStep
<1>3. CASE \/ SaddDevice(r) \/ Blacklist(r) \/ DelToken(r) \/ SremDevice(r) \/ DeleteAllTokens(r)
  BY <1>3 DEF SaddDevice, Blacklist, DelToken, SremDevice, DeleteAllTokens, Goto, SlotStep
<1>4. CASE Smembers(r)
  BY <1>4 DEF Smembers, SlotStep
<1>5. CASE Commit(r) \/ Reply(r) \/ Raise(r) \/ Fail(r)
  BY <1>5 DEF Commit, Reply, Raise, Fail, Goto, SlotStep
<1> QED
  BY <1>1, <1>2, <1>3, <1>4, <1>5 DEF Step

\* Only SETEX mints and only a response hands over.
LEMMA OthersMintNothing ==
  ASSUME [Next]_vars, \A r \in Requests : ~SetexToken(r)
  PROVE  grants' = grants
<1>1. ASSUME NEW r \in Requests, Start(r) PROVE grants' = grants
  BY <1>1, StartGrants
<1>2. ASSUME NEW r \in Requests, Step(r) \/ Fail(r) PROVE grants' = grants
  BY <1>2 DEF Step, InsertUser, UpsertDevice, UpdateLastLogin, WriteUser, GetById, FindDevice, FindDevices,
              Deactivate, SaddDevice, Blacklist, DelToken, SremDevice, Smembers, DeleteAllTokens,
              Commit, Reply, Raise, Fail, Goto
<1> QED
  BY <1>1, <1>2 DEF Next, Expire, Suspend, vars

LEMMA OthersHandOverNothing ==
  ASSUME [Next]_vars, \A r \in Requests : ~Reply(r)
  PROVE  delivered' = delivered
<1>1. ASSUME NEW r \in Requests, Start(r) PROVE delivered' = delivered
  BY <1>1 DEF Start, Signup, Login, Refresh, Authenticated, Logout, LogoutAll, UpdateMe, ChangePassword,
              DeleteAccount, ForceLogout, TurnedAway, Enter, vars
<1>2. ASSUME NEW r \in Requests, Step(r) \/ Fail(r) PROVE delivered' = delivered
  BY <1>2 DEF Step, InsertUser, UpsertDevice, UpdateLastLogin, WriteUser, GetById, FindDevice, FindDevices,
              Deactivate, SetexToken, SaddDevice, Blacklist, DelToken, SremDevice, Smembers,
              DeleteAllTokens, Commit, Reply, Raise, Fail, Goto
<1> QED
  BY <1>1, <1>2 DEF Next, Expire, Suspend, vars

-----------------------------------------------------------------------------
(***************************************************************************)
(* The revocation of an account ends what it finds in the index.           *)
(***************************************************************************)
\* The pipeline of delete_all_refresh_tokens has run.
Walked(r) == req[r].pc \in {"find_devices", "deactivate", "commit", "reply"}

IndexedOK(r) ==
  req[r].op \in AccountWide =>
    /\ \A n \in req[r].prior : grants[n].user = req[r].user
    /\ Walked(r) =>
         \A n \in req[r].prior : grants[n].device \in req[r].members => ~Stored(n)

MInv == IInv /\ \A r \in Requests : IndexedOK(r)

\* Dead sessions stay dead, so what a slot knows of them stands.
LEMMA IndexedStands ==
  ASSUME MInv, Grows, NEW r \in Requests,
         \A f \in {"op", "user", "prior", "members"} : req'[r][f] = req[r][f],
         req[r].op \in AccountWide /\ Walked(r)' => Walked(r)
  PROVE  IndexedOK(r)'
<1>1. /\ req'[r].op = req[r].op /\ req'[r].user = req[r].user
      /\ req'[r].prior = req[r].prior /\ req'[r].members = req[r].members
  OBVIOUS
<1>2. \A n \in req[r].prior : n \in 1..Len(grants) /\ grants'[n] = grants[n] /\ (Stored(n)' => Stored(n))
  BY DEF MInv, IInv, SlotOK, BoundsOK, TypeOK, ApiTypeOK, Grows
<1> QED
  BY <1>1, <1>2 DEF MInv, IndexedOK

\* A request that moves on keeps its members.
LEMMA MovedMembers ==
  ASSUME IInv, NEW r \in Requests, NEW pc, req' = [req EXCEPT ![r].pc = pc]
  PROVE  /\ req'[r].pc = pc
         /\ \A f \in {"op", "user", "prior", "members"} : req'[r][f] = req[r][f]
BY DEF IInv, TypeOK, ApiTypeOK, Request

LEMMA EnteredIndexed ==
  ASSUME MInv, NEW r \in Requests, NEW op, NEW u, NEW d, NEW n, NEW pc, Enter(r, op, u, d, n, pc),
         pc \notin {"find_devices", "deactivate", "commit", "reply"}
  PROVE  IndexedOK(r)'
<1>1. /\ UNCHANGED grants
      /\ req'[r] = [op |-> op, pc |-> pc, user |-> u, device |-> d, grant |-> n,
                    minted |-> 0, members |-> {}, prior |-> Established(op, u, d)]
  BY DEF Enter, MInv, IInv, TypeOK, ApiTypeOK
<1> QED
  BY <1>1 DEF IndexedOK, Established, Walked

\* The pipeline: every session on a device SMEMBERS returned is deleted.
LEMMA DeleteAllIndexed ==
  ASSUME MInv, NEW r \in Requests, DeleteAllTokens(r)
  PROVE  IndexedOK(r)'
<1>1. PICK pc : Goto(r, pc)
  BY DEF DeleteAllTokens
<1>2. /\ req'[r].op = req[r].op /\ req'[r].user = req[r].user
      /\ req'[r].prior = req[r].prior /\ req'[r].members = req[r].members /\ UNCHANGED grants
  BY <1>1, MovedMembers DEF MInv, Goto
<1>3. /\ At(r, "delete_all") /\ req[r].user \in Users /\ req[r].members \subseteq Devices
      /\ rt' = [rt EXCEPT ![req[r].user] = [d \in Devices |-> IF d \in req[r].members THEN 0 ELSE @[d]]]
  BY InFlight DEF DeleteAllTokens, DeleteAll, MInv, SubjectOK, At, Request
<1>4. \A d \in req[r].members : rt'[req[r].user][d] = 0
  BY <1>3 DEF MInv, IInv, TypeOK, StoreTypeOK
<1>5. \A n \in req[r].prior : n # 0
  BY DEF MInv, IInv, SlotOK, BoundsOK, TypeOK, ApiTypeOK
<1>6. ASSUME req[r].op \in AccountWide, NEW n \in req[r].prior, grants[n].device \in req[r].members
      PROVE  ~Stored(n)'
  <2>1. grants[n].user = req[r].user
    BY <1>6 DEF MInv, IndexedOK
  <2> QED
    BY <1>2, <1>4, <1>5, <1>6, <2>1 DEF Stored
<1> QED
  BY <1>2, <1>6 DEF MInv, IndexedOK

LEMMA StepIndexed ==
  ASSUME MInv, Grows, NEW r \in Requests, Step(r) \/ Fail(r)
  PROVE  IndexedOK(r)'
<1>1. ASSUME NEW pc, req' = [req EXCEPT ![r].pc = pc],
             req[r].op \in AccountWide => Walked(r) \/ pc \notin {"find_devices", "deactivate", "commit", "reply"}
      PROVE  IndexedOK(r)'
  <2>1. /\ req'[r].pc = pc
        /\ \A f \in {"op", "user", "prior", "members"} : req'[r][f] = req[r][f]
    BY <1>1, MovedMembers DEF MInv
  <2>2. req[r].op \in AccountWide /\ Walked(r)' => Walked(r)
    BY <1>1, <2>1 DEF Walked
  <2> QED
    BY <2>1, <2>2, IndexedStands
<1>2. CASE \/ InsertUser(r) \/ UpsertDevice(r) \/ UpdateLastLogin(r) \/ WriteUser(r)
           \/ GetById(r) \/ FindDevice(r) \/ FindDevices(r) \/ Deactivate(r)
  <2>1. ~At(r, "idle") /\ ControlOK(r)
    BY <1>2, InFlight DEF MInv, InsertUser, UpsertDevice, UpdateLastLogin, WriteUser, GetById, FindDevice,
                          FindDevices, Deactivate, At
  <2>2. PICK pc : /\ Goto(r, pc)
                  /\ req[r].op \in AccountWide =>
                       Walked(r) \/ pc \notin {"find_devices", "deactivate", "commit", "reply"}
    BY <1>2, <2>1 DEF InsertUser, UpsertDevice, UpdateLastLogin, WriteUser, GetById, FindDevice, FindDevices,
                      Deactivate, At, ControlOK, Walked, AccountWide
  <2> QED
    BY <1>1, <2>2 DEF Goto
<1>3. CASE SaddDevice(r) \/ Blacklist(r) \/ DelToken(r) \/ SremDevice(r)
  <2>1. ~At(r, "idle") /\ ControlOK(r)
    BY <1>3, InFlight DEF MInv, SaddDevice, Blacklist, DelToken, SremDevice, At
  <2>2. PICK pc : /\ Goto(r, pc)
                  /\ req[r].op \in AccountWide => pc \notin {"find_devices", "deactivate", "commit", "reply"}
    BY <1>3, <2>1 DEF SaddDevice, Blacklist, DelToken, SremDevice, At, ControlOK, DeviceWide, AccountWide
  <2> QED
    BY <1>1, <2>2 DEF Goto
<1>4. CASE SetexToken(r)
  <2>1. /\ req[r].op \in {"login", "refresh"}
        /\ req' = [req EXCEPT ![r].pc = "sadd", ![r].minted = Len(grants) + 1]
    BY <1>4, InFlight DEF MInv, SetexToken, At, ControlOK
  <2>2. req'[r].op \notin AccountWide
    BY <2>1 DEF MInv, IInv, TypeOK, ApiTypeOK, Request, AccountWide
  <2> QED
    BY <2>2 DEF IndexedOK
<1>5. CASE Smembers(r)
  <2> DEFINE D == index[req[r].user]
  <2>1. req' = [req EXCEPT ![r].pc = "delete_all", ![r].members = D] /\ UNCHANGED grants
    BY <1>5 DEF Smembers
  <2>2. /\ req'[r].pc = "delete_all" /\ req'[r].op = req[r].op
        /\ req'[r].user = req[r].user /\ req'[r].prior = req[r].prior
    BY <2>1 DEF MInv, IInv, TypeOK, ApiTypeOK, Request
  <2> QED
    BY <2>1, <2>2 DEF MInv, IndexedOK, Walked
<1>6. CASE DeleteAllTokens(r)
  BY <1>6, DeleteAllIndexed
<1>7. CASE Commit(r) \/ Reply(r) \/ Raise(r) \/ Fail(r)
  <2>1. CASE Leave(r)
    <3>1. req'[r] = Idle /\ Idle.prior = {}
      BY <2>1, LeaveType DEF MInv, IInv, TypeOK, ApiTypeOK, Idle
    <3> QED
      BY <3>1 DEF IndexedOK
  <2>2. CASE ~Leave(r)
    <3>1. PICK pc : req' = [req EXCEPT ![r].pc = pc] /\ Walked(r)
      BY <1>7, <2>2 DEF Commit, Reply, Raise, Fail, Goto, At, Walked
    <3> QED
      BY <1>1, <3>1
  <2> QED
    BY <2>1, <2>2
<1> QED
  BY <1>2, <1>3, <1>4, <1>5, <1>6, <1>7 DEF Step

LEMMA StartIndexed ==
  ASSUME MInv, NEW r \in Requests, Start(r), ~UNCHANGED vars
  PROVE  IndexedOK(r)'
<1>1. ASSUME NEW u \in Users, NEW p \in Passwords, Signup(r, u, p) PROVE IndexedOK(r)'
  BY <1>1, EnteredIndexed DEF Signup
<1>2. ASSUME NEW u \in Users, NEW d \in Devices, NEW p \in Passwords, Login(r, u, d, p)
      PROVE  IndexedOK(r)'
  BY <1>2, EnteredIndexed DEF Login
<1>3. ASSUME NEW n, Refresh(r, n) PROVE IndexedOK(r)'
  BY <1>3, EnteredIndexed DEF Refresh
<1>4. ASSUME NEW op, NEW n, NEW d, NEW pc, Authenticated(r, op, n, d, pc),
             pc \in {"blacklist", "get_by_id", "find_device"}
      PROVE  IndexedOK(r)'
  BY <1>4, EnteredIndexed DEF Authenticated
<1>5. ASSUME NEW n, \/ Logout(r, n) \/ LogoutAll(r, n) \/ UpdateMe(r, n) \/ ChangePassword(r, n)
                    \/ DeleteAccount(r, n) \/ \E d \in Devices : ForceLogout(r, n, d)
      PROVE  IndexedOK(r)'
  BY <1>4, <1>5 DEF Logout, LogoutAll, UpdateMe, ChangePassword, DeleteAccount, ForceLogout
<1> QED
  BY <1>1, <1>2, <1>3, <1>5 DEF Start, TurnedAway

LEMMA NextMInv == ASSUME MInv, [Next]_vars PROVE MInv'
<1>1. IInv' /\ Grows
  BY NextIInv DEF MInv
<1>2. ASSUME NEW q \in Requests, req'[q] = req[q] PROVE IndexedOK(q)'
  <2>1. Walked(q)' => Walked(q)
    BY <1>2 DEF Walked
  <2> QED
    BY <1>1, <1>2, <2>1, IndexedStands
<1>3. CASE UNCHANGED req
  BY <1>1, <1>2, <1>3 DEF MInv
<1>4. ASSUME NEW r \in Requests, Start(r), ~UNCHANGED req PROVE MInv'
  <2>1. Keeps(r) /\ ~UNCHANGED vars
    BY <1>4, StartKeeps DEF MInv, vars
  <2> QED
    BY <1>1, <1>2, <1>4, <2>1, StartIndexed DEF Keeps, SameSlot, MInv
<1>5. ASSUME NEW r \in Requests, Step(r) \/ Fail(r) PROVE MInv'
  <2>1. Keeps(r)
    BY <1>5, StepKeeps DEF MInv
  <2> QED
    BY <1>1, <1>2, <1>5, <2>1, StepIndexed DEF Keeps, SameSlot, MInv
<1> QED
  BY <1>3, <1>4, <1>5 DEF Next, Expire, Suspend, vars

LEMMA InitMInv == Init => MInv
<1>1. Init => \A r \in Requests : IndexedOK(r)
  BY DEF Init, Idle, IndexedOK
<1> QED
  BY <1>1, InitIInv DEF MInv

-----------------------------------------------------------------------------
(***************************************************************************)
(* The theorems.                                                           *)
(***************************************************************************)
\* Types: in every interleaving Redis, login_histories and the clients hold
\* tokens of minted grants only (token_store.py, login_history.py).
THEOREM TypeCorrect == Spec => []TypeOK
<1>1. IInv => TypeOK
  BY DEF IInv
<1> QED
  BY <1>1, Invariant, PTL

\* Rotation (AuthService.refresh): a client that has the successor of a refresh
\* token can be sure that the old one is dead, whatever else runs.
THEOREM RotatedDead == Spec => []RotatedTokenIsDead
<1>1. IInv => RotatedTokenIsDead
  BY DEF IInv, TypeOK, ApiTypeOK, ParentsOK, RotatedTokenIsDead
<1> QED
  BY <1>1, Invariant, PTL

\* A refresh token dropped from the store is never stored again, by no request
\* that read it before it was dropped.
THEOREM RevokedDead == Spec => RevokedStaysDead
<1>1. IInv /\ [Next]_vars => [RevokedStaysDeadStep]_vars
  BY NextIInv DEF IInv, TypeOK, ApiTypeOK, Grows, RevokedStaysDeadStep
<1> QED
  BY <1>1, Invariant, PTL DEF Spec, RevokedStaysDead

\* logout, DELETE /users/me/devices/{id} and the answer to a reused token: what
\* was to be ended is ended when the answer leaves the server, whatever logins,
\* refreshes, failures and expirations ran in between.  An access token in its
\* last second, for which blacklist_token writes no entry (token_store.py:94), is
\* left to TokenLifetime.
THEOREM DeviceRevocation == Spec => DeviceRevocationHolds
<1>1. ASSUME IInv, [Next]_vars PROVE [DeviceRevocationStep]_vars
  <2> SUFFICES ASSUME NEW r \in Requests, req[r].op \in DeviceWide,
                      Reply(r) \/ (Raise(r) /\ req[r].op = "reuse")
               PROVE  /\ \A n \in req[r].prior : ~Stored(n)'
                      /\ req[r].op = "logout" => req[r].grant \in blacklist'
    BY DEF DeviceRevocationStep
  <2>1. ~At(r, "idle") /\ ~BeforeDel(r) /\ ~At(r, "blacklist")
    BY DEF Reply, Raise, At, BeforeDel
  <2>2. /\ \A n \in req[r].prior : ~Stored(n)
        /\ req[r].op = "logout" => req[r].grant \in blacklist
        /\ req[r].prior \subseteq 1..Len(grants)
    BY <1>1, <2>1, InFlight DEF RevokedOK, BoundsOK, At, IInv, TypeOK, ApiTypeOK
  <2> QED
    BY <1>1, <2>2, NextIInv DEF Grows
<1> QED
  BY <1>1, Invariant, PTL DEF Spec, DeviceRevocationHolds

\* logout_all, change_password and delete_account (delete_all_refresh_tokens):
\* whatever overlaps or fails, the answer leaves no session alive that a client
\* held when the request came in and that SMEMBERS returned: a session escapes
\* only by being out of the index, as in the run unindexed_session.
THEOREM IndexedRevocation == Spec => AllIndexedEnd
<1>1. ASSUME MInv, [Next]_vars PROVE [AllIndexedEndStep]_vars
  <2> SUFFICES ASSUME NEW r \in Requests, Reply(r), req[r].op \in AccountWide,
                      NEW n \in req[r].prior, grants[n].device \in req[r].members
               PROVE  ~Stored(n)'
    BY DEF AllIndexedEndStep
  <2>1. ~Stored(n) /\ n \in 1..Len(grants)
    BY <1>1 DEF Reply, At, Walked, MInv, IndexedOK, IInv, SlotOK, BoundsOK, TypeOK, ApiTypeOK
  <2> QED
    BY <1>1, <2>1, NextIInv DEF Grows, MInv
<1>2. MInv /\ [Next]_vars => MInv'
  BY NextMInv
<1> QED
  BY <1>1, <1>2, InitMInv, PTL DEF Spec, AllIndexedEnd

=============================================================================
