------------------------ MODULE AuthApiLedgerProofs ------------------------
(***************************************************************************)
(* AuthApi implements SessionLedger: any number of accounts, devices and   *)
(* requests in flight, every failure, either order of commit and response. *)
(* The simulation: SETEX mints, the response of a login or a refresh hands *)
(* over, that of a revocation confirms, and every other step ends sessions *)
(* or shows nothing.  It needs that a confirmation tells the truth         *)
(* (EndsKept): of the endpoints that revoke one device it always does, of  *)
(* those that revoke an account where requests stay apart; the run         *)
(* hidden_session shows why not always.                                    *)
(***************************************************************************)
EXTENDS AuthApiLedger, AuthApiApartProofs

\* An answer about to confirm an end tells the truth: the request mints nothing,
\* and the sessions it was asked to end have ended.
EndsKept ==
  \A r \in Requests :
    req[r].op \in Confirming /\ (At(r, "reply") \/ (At(r, "raise") /\ req[r].op = "reuse")) =>
      /\ req[r].minted = 0
      /\ \A n \in req[r].prior : ~Stored(n)

\* A client is only told of the end of sessions it held and that have ended.
OverIsOver == over \subseteq delivered /\ over \intersect Live = {}

HInv == IInv /\ OverIsOver

-----------------------------------------------------------------------------
\* The sessions whose end a step confirms: clients held them, they are dead, and
\* the step changes nothing but its slot.
LEMMA ConfirmedAreDead ==
  ASSUME HInv, EndsKept, Confirmed # {}
  PROVE  /\ Confirmed \subseteq delivered \ Live
         /\ UNCHANGED <<grants, delivered>> /\ UNCHANGED storeVars
<1>1. ASSUME NEW r \in Requests, Confirms(r)
      PROVE  /\ req[r].prior \subseteq delivered \ Live
             /\ UNCHANGED <<grants, delivered>> /\ UNCHANGED storeVars
  <2>1. req[r].minted = 0 /\ \A n \in req[r].prior : ~Stored(n)
    BY <1>1 DEF Confirms, EndsKept, Reply, Raise
  <2>2. ~At(r, "idle")
    BY <1>1 DEF Confirms, Reply, Raise, At
  <2>3. req[r].prior \subseteq delivered
    BY <2>2, InFlight DEF HInv, BoundsOK
  <2>4. UNCHANGED <<grants, delivered>> /\ UNCHANGED storeVars
    BY <1>1, <2>1 DEF Confirms, Reply, Raise
  <2> QED
    BY <2>1, <2>3, <2>4 DEF Live
<1>2. \E r \in Requests : Confirms(r)
  BY DEF Confirmed
<1> QED
  BY <1>1, <1>2 DEF Confirmed

\* Dead sessions stay dead.
LEMMA LiveShrinks ==
  ASSUME Grows
  PROVE  /\ Live' \subseteq Live \union (Len(grants) + 1)..Len(grants')
         /\ grants' = grants => Live' \subseteq Live
BY DEF Grows, Live

LEMMA OverStaysOver ==
  ASSUME HInv, EndsKept, Grows, over' = over \union Confirmed
  PROVE  OverIsOver'
<1>1. delivered \subseteq 1..Len(grants) /\ Len(grants) \in Nat /\ Len(grants') \in Nat
  BY DEF HInv, IInv, TypeOK, ApiTypeOK, Grows
<1>2. Confirmed \subseteq delivered \ Live
  BY ConfirmedAreDead
<1>3. over' \subseteq delivered \ Live
  BY <1>2 DEF HInv, OverIsOver
<1>4. over' \intersect (Len(grants) + 1)..Len(grants') = {}
  BY <1>1, <1>3
<1> QED
  BY <1>3, <1>4, LiveShrinks DEF OverIsOver, Grows

LEMMA NextHInv ==
  ASSUME HInv, EndsKept, [HistoryNext]_ledgerVars
  PROVE  HInv' /\ Grows
<1>1. [Next]_vars
  BY DEF HistoryNext, ledgerVars
<1>2. IInv' /\ Grows
  BY <1>1, NextIInv DEF HInv
<1>3. CASE HistoryNext
  BY <1>2, <1>3, OverStaysOver DEF HistoryNext, HInv
<1>4. CASE UNCHANGED ledgerVars
  BY <1>2, <1>4 DEF ledgerVars, vars, HInv, OverIsOver, Live, Stored
<1> QED
  BY <1>3, <1>4

LEMMA InitHInv == HistoryInit => HInv
<1> SUFFICES ASSUME HistoryInit PROVE HInv
  OBVIOUS
<1>1. IInv
  BY InitIInv DEF HistoryInit
<1> QED
  BY <1>1 DEF HistoryInit, Init, HInv, OverIsOver

-----------------------------------------------------------------------------
(***************************************************************************)
(* The simulation.                                                         *)
(***************************************************************************)
LEMMA InitLedger == HistoryInit => Ledger!LedgerInit
<1> SUFFICES ASSUME HistoryInit PROVE Ledger!LedgerInit
  OBVIOUS
<1>1. grants = << >> /\ delivered = {} /\ over = {}
  BY DEF HistoryInit, Init
<1>2. Live = {}
  BY <1>1 DEF Live
<1> QED
  BY <1>1, <1>2 DEF Ledger!LedgerInit

\* SETEX mints, and takes the place of the session the device had.
LEMMA SetexMints ==
  ASSUME HInv, NEW r \in Requests, SetexToken(r), over' = over \union Confirmed,
         NEW u, u = req[r].user, NEW d, d = req[r].device, NEW p, p = req[r].grant,
         NEW m, m = Len(grants) + 1
  PROVE  Ledger!LedgerNext
<1>1. /\ grants' = Append(grants, [user |-> u, device |-> d, parent |-> p])
      /\ rt' = [rt EXCEPT ![u][d] = m] /\ delivered' = delivered /\ At(r, "setex")
  BY DEF SetexToken, Setex
<1>2. /\ u \in Users /\ d \in Devices
      /\ p = 0 \/ (p \in delivered /\ grants[p].user = u /\ grants[p].device = d)
  BY <1>1, InFlight DEF HInv, ControlOK, SubjectOK, At
<1>3. /\ grants \in Seq(Grant) /\ Len(grants) \in Nat /\ delivered \subseteq 1..Len(grants)
      /\ rt \in [Users -> [Devices -> 0..Len(grants)]]
      /\ \A n \in 1..Len(grants) : grants[n] \in Grant
  BY DEF HInv, IInv, TypeOK, ApiTypeOK, StoreTypeOK
<1>4. p \in 0..Len(grants)
  <2>1. p = 0 \/ p \in 1..Len(grants)
    BY <1>2, <1>3
  <2>2. Len(grants) \in Nat
    BY <1>3
  <2> QED
    BY <2>1, <2>2
<1>5. over' = over
  <2>1. ASSUME NEW q \in Requests PROVE ~Confirms(q)
    <3>1. Len(grants') = m
      BY <1>1, <1>3
    <3>2. grants' # grants
      BY <1>3, <3>1
    <3> QED
      BY <3>2 DEF Confirms, Reply, Raise
  <2> QED
    BY <2>1 DEF Confirmed
<1>6. Live' = {n \in Live : ~Ledger!OnDevice(n, u, d)} \union {m}
  <2>1. /\ Len(grants') = m /\ m \in Nat /\ 1..Len(grants') = 1..Len(grants) \union {m}
        /\ grants'[m].user = u /\ grants'[m].device = d
        /\ \A n \in 1..Len(grants) : grants'[n] = grants[n] /\ n # m
    BY <1>1, <1>3
  <2>2. rt'[u][d] = m
    BY <1>1, <1>2, <1>3
  <2>3. Stored(m)'
    BY <2>1, <2>2 DEF Stored
  <2>4. ASSUME NEW n \in 1..Len(grants), grants[n].user = u, grants[n].device = d
        PROVE  ~Stored(n)'
    BY <2>1, <2>2, <2>4 DEF Stored
  <2>5. ASSUME NEW n \in 1..Len(grants), ~(grants[n].user = u /\ grants[n].device = d)
        PROVE  Stored(n)' <=> Stored(n)
    <3>1. grants[n].user \in Users /\ grants[n].device \in Devices
      BY <1>3 DEF Grant
    <3>2. rt'[grants[n].user][grants[n].device] = rt[grants[n].user][grants[n].device]
      BY <1>1, <1>2, <1>3, <2>5, <3>1
    <3> QED
      BY <2>1, <3>2 DEF Stored
  <2> QED
    BY <2>1, <2>3, <2>4, <2>5 DEF Live, Ledger!OnDevice
<1>7. Ledger!Mint(u, d, p)
  BY <1>1, <1>2, <1>5, <1>6 DEF Ledger!Mint, Ledger!OnDevice
<1> QED
  BY <1>2, <1>4, <1>7 DEF Ledger!LedgerNext

LEMMA SetexIsAMint ==
  ASSUME HInv, NEW r \in Requests, SetexToken(r), over' = over \union Confirmed
  PROVE  Ledger!LedgerNext
BY SetexMints

\* Every other step.
LEMMA StepSimulates ==
  ASSUME HInv, EndsKept, [HistoryNext]_ledgerVars
  PROVE  [Ledger!LedgerNext]_<<grants, Live, delivered, over>>
<1>1. [Next]_vars /\ Grows
  BY NextHInv DEF HistoryNext, ledgerVars
<1>2. CASE UNCHANGED ledgerVars
  BY <1>2 DEF ledgerVars, vars, Live, Stored
<1>3. CASE HistoryNext /\ \E r \in Requests : SetexToken(r)
  BY <1>3, SetexIsAMint DEF HistoryNext
<1>4. CASE HistoryNext /\ \A r \in Requests : ~SetexToken(r)
  <2>1. over' = over \union Confirmed /\ grants' = grants /\ Live' \subseteq Live
    BY <1>1, <1>4, OthersMintNothing, LiveShrinks DEF HistoryNext
  <2>2. CASE Confirmed # {}
    <3>1. /\ Confirmed \in SUBSET delivered /\ Confirmed \subseteq delivered \ Live
          /\ UNCHANGED <<grants, delivered>> /\ UNCHANGED storeVars
      BY <2>2, ConfirmedAreDead
    <3>2. Live' = Live
      BY <3>1 DEF Live, Stored, storeVars
    <3>3. Ledger!Confirm(Confirmed)
      BY <2>1, <3>1, <3>2 DEF Ledger!Confirm
    <3> QED
      BY <3>1, <3>3 DEF Ledger!LedgerNext
  <2>3. CASE Confirmed = {} /\ \E r \in Requests : Reply(r)
    <3>1. PICK r \in Requests : Reply(r)
      BY <2>3
    <3> DEFINE n == req[r].minted
    <3>2. /\ delivered' = delivered \union ({n} \ {0}) /\ UNCHANGED storeVars /\ At(r, "reply")
      BY <3>1 DEF Reply
    <3>3. n \in 0..Len(grants) /\ Len(grants) \in Nat
      BY <3>2, InFlight DEF HInv, BoundsOK, At, IInv, TypeOK, ApiTypeOK
    <3>4. Live' = Live /\ over' = over
      BY <2>1, <2>3, <3>2 DEF Live, Stored, storeVars
    <3> HIDE DEF n
    <3>5. CASE n = 0
      BY <2>1, <3>2, <3>4, <3>5
    <3>6. CASE n # 0
      <4>1. n \in 1..Len(grants) /\ delivered' = delivered \union {n}
        BY <3>2, <3>3, <3>6
      <4>2. grants[n].parent \notin Live
        BY <4>1 DEF HInv, IInv, ParentsOK, Live
      <4>3. Ledger!Hold(n)
        BY <2>1, <3>4, <4>1, <4>2 DEF Ledger!Hold
      <4> QED
        BY <4>1, <4>3 DEF Ledger!LedgerNext
    <3> QED
      BY <3>5, <3>6
  <2>4. CASE Confirmed = {} /\ \A r \in Requests : ~Reply(r)
    <3>1. delivered' = delivered /\ over' = over
      BY <1>1, <2>1, <2>4, OthersHandOverNothing
    <3>2. Ledger!End
      BY <2>1, <3>1 DEF Ledger!End
    <3> QED
      BY <3>2 DEF Ledger!LedgerNext
  <2> QED
    BY <2>2, <2>3, <2>4
<1> QED
  BY <1>2, <1>3, <1>4

-----------------------------------------------------------------------------
(***************************************************************************)
(* The revocations of one device.                                          *)
(***************************************************************************)
\* A revocation mints nothing, so its response hands nothing over.
MintsNothing == \A r \in Requests : req[r].op \in DeviceWide => req[r].minted = 0

LEMMA MintsNothingStays == ASSUME IInv, MintsNothing, [Next]_vars PROVE MintsNothing'
<1>1. req \in [Requests -> Request] /\ Idle.minted = 0
  BY DEF IInv, TypeOK, ApiTypeOK, Idle
<1>2. ASSUME NEW r \in Requests, SlotStep(r) PROVE MintsNothing'
  <2>1. CASE \E op, u, d, n, pc : Enter(r, op, u, d, n, pc)
    BY <1>1, <2>1 DEF Enter, MintsNothing
  <2>2. CASE \E pc : req' = [req EXCEPT ![r].pc = pc]
    <3>1. PICK pc : req' = [req EXCEPT ![r].pc = pc]
      BY <2>2
    <3>2. /\ [req[r] EXCEPT !.pc = pc].op = req[r].op
          /\ [req[r] EXCEPT !.pc = pc].minted = req[r].minted
      BY <1>1 DEF Request
    <3> QED
      BY <1>1, <3>1, <3>2 DEF MintsNothing
  <2>3. CASE \E pc, D : req' = [req EXCEPT ![r].pc = pc, ![r].members = D]
    <3>1. PICK pc, D : req' = [req EXCEPT ![r].pc = pc, ![r].members = D]
      BY <2>3
    <3> DEFINE new == [req[r] EXCEPT !.pc = pc, !.members = D]
    <3>2. new.op = req[r].op /\ new.minted = req[r].minted
      BY <1>1 DEF Request
    <3>3. req' = [req EXCEPT ![r] = new]
      BY <1>1, <3>1
    <3> HIDE DEF new
    <3> QED
      BY <1>1, <3>2, <3>3 DEF MintsNothing
  <2>4. CASE Leave(r)
    BY <1>1, <2>4 DEF Leave, MintsNothing
  <2> QED
    BY <1>2, <2>1, <2>2, <2>3, <2>4 DEF SlotStep
<1>3. ASSUME NEW r \in Requests, SetexToken(r) PROVE MintsNothing'
  <2>1. req[r].op \in {"login", "refresh"}
    BY <1>3, InFlight DEF SetexToken, At, ControlOK
  <2> DEFINE new == [req[r] EXCEPT !.pc = "sadd", !.minted = Len(grants) + 1]
  <2>2. new.op = req[r].op
    BY <1>1 DEF Request
  <2>3. req' = [req EXCEPT ![r] = new]
    BY <1>1, <1>3 DEF SetexToken
  <2> HIDE DEF new
  <2> QED
    BY <1>1, <2>1, <2>2, <2>3 DEF MintsNothing, DeviceWide
<1>4. CASE UNCHANGED req
  BY <1>4 DEF MintsNothing
<1> QED
  BY <1>2, <1>3, <1>4, SlotSteps DEF Next, Expire, Suspend, vars

LEMMA DeviceEndsKept ==
  ASSUME IInv, MintsNothing, Confirming \subseteq DeviceWide
  PROVE  EndsKept
<1> SUFFICES ASSUME NEW r \in Requests, req[r].op \in Confirming,
                    At(r, "reply") \/ (At(r, "raise") /\ req[r].op = "reuse")
             PROVE  req[r].minted = 0 /\ \A n \in req[r].prior : ~Stored(n)
  BY DEF EndsKept
<1>1. ~At(r, "idle") /\ ~BeforeDel(r)
  BY DEF At, BeforeDel
<1> QED
  BY <1>1, InFlight DEF MintsNothing, RevokedOK

LEMMA DeviceHistory ==
  ASSUME Confirming \subseteq DeviceWide
  PROVE  HistorySpec => [](HInv /\ EndsKept)
<1>1. HistoryInit => HInv /\ MintsNothing
  BY InitHInv DEF HistoryInit, Init, MintsNothing, Idle
<1>2. HInv /\ MintsNothing => EndsKept
  BY DeviceEndsKept DEF HInv
<1>3. ASSUME HInv, MintsNothing, [HistoryNext]_ledgerVars PROVE HInv' /\ MintsNothing'
  <2>1. [Next]_vars
    BY <1>3 DEF HistoryNext, ledgerVars
  <2> QED
    BY <1>2, <1>3, <2>1, NextHInv, MintsNothingStays DEF HInv
<1> QED
  BY <1>1, <1>2, <1>3, PTL DEF HistorySpec

\* To its clients the service is the ledger of README.md "Device 기반 토큰 관리" and
\* "Refresh Token Rotation": a device has one session, a refresh replaces the grant
\* it redeems, and the revocation of a device, once answered, is final.
THEOREM LedgerImplemented ==
  ASSUME Confirming \subseteq DeviceWide PROVE HistorySpec => ImplementsLedger
<1>1. HInv /\ EndsKept /\ [HistoryNext]_ledgerVars =>
        [Ledger!LedgerNext]_<<grants, Live, delivered, over>>
  BY StepSimulates
<1> QED
  BY <1>1, InitLedger, DeviceHistory, PTL
     DEF HistorySpec, ImplementsLedger, Ledger!LedgerSpec, Ledger!ledger

\* A session whose end a client was told of (the answer of a logout, of a forced
\* logout, the 401 for a reused token) is never accepted again.
THEOREM ConfirmedEndsAreFinal ==
  ASSUME Confirming \subseteq DeviceWide PROVE HistorySpec => []Ledger!OverIsFinal
<1>1. HInv => Ledger!OverIsFinal
  BY DEF HInv, OverIsOver, Ledger!OverIsFinal
<1> QED
  BY <1>1, DeviceHistory, PTL

-----------------------------------------------------------------------------
(***************************************************************************)
(* Every revocation, of requests that stay apart.                          *)
(***************************************************************************)
LEMMA AllEndsKept ==
  ASSUME OInv, Confirming \subseteq DeviceWide \union AccountWide
  PROVE  EndsKept
<1> SUFFICES ASSUME NEW r \in Requests, req[r].op \in Confirming,
                    At(r, "reply") \/ (At(r, "raise") /\ req[r].op = "reuse")
             PROVE  req[r].minted = 0 /\ \A n \in req[r].prior : ~Stored(n)
  BY DEF EndsKept
<1>1. ~At(r, "idle") /\ ~BeforeDel(r)
  BY DEF At, BeforeDel
<1>2. MintingOK(r) /\ EndingOK(r) /\ RevokedOK(r) /\ req[r].prior \subseteq delivered
  BY <1>1, SessionInFlight, InFlight DEF BoundsOK
<1>3. req[r].minted = 0
  BY <1>2 DEF MintingOK, DeviceWide, AccountWide
<1>4. CASE req[r].op \in DeviceWide
  BY <1>1, <1>2, <1>3, <1>4 DEF RevokedOK
<1>5. CASE req[r].op \in AccountWide
  <2>1. At(r, "reply")
    BY <1>5 DEF AccountWide
  <2> QED
    BY <1>2, <1>3, <1>5, <2>1 DEF EndingOK, At
<1> QED
  BY <1>4, <1>5

LEMMA ApartHistory ==
  ASSUME Confirming \subseteq DeviceWide \union AccountWide
  PROVE  ApartHistorySpec => [](HInv /\ EndsKept)
<1>1. ApartHistorySpec => ApartSpec
  <2>1. [HistoryNext /\ Apart']_ledgerVars => [Next /\ Apart']_vars
    BY DEF HistoryNext, ledgerVars
  <2>2. HistoryInit => Init
    BY DEF HistoryInit
  <2> QED
    BY <2>1, <2>2, PTL DEF ApartHistorySpec, ApartSpec
<1>2. OInv => EndsKept
  BY AllEndsKept
<1>3. HInv /\ EndsKept /\ [HistoryNext /\ Apart']_ledgerVars => HInv'
  BY NextHInv
<1> QED
  BY <1>1, <1>2, <1>3, InitHInv, SessionInvariant, PTL DEF ApartHistorySpec

\* "logout all", a password change and an account deletion are final too, for
\* requests that do not meet on a device: the service is the same ledger with the
\* answers of all six revocations taken for a promise.
THEOREM LedgerImplementedApart ==
  ASSUME Confirming \subseteq DeviceWide \union AccountWide
  PROVE  ApartHistorySpec => ImplementsLedger
<1>1. HInv /\ EndsKept /\ [HistoryNext /\ Apart']_ledgerVars =>
        [Ledger!LedgerNext]_<<grants, Live, delivered, over>>
  BY StepSimulates
<1> QED
  BY <1>1, InitLedger, ApartHistory, PTL
     DEF ApartHistorySpec, ImplementsLedger, Ledger!LedgerSpec, Ledger!ledger

\* A session whose end any revocation confirmed is never accepted again, where
\* requests stay apart.
THEOREM ConfirmedEndsAreFinalApart ==
  ASSUME Confirming \subseteq DeviceWide \union AccountWide
  PROVE  ApartHistorySpec => []Ledger!OverIsFinal
<1>1. HInv => Ledger!OverIsFinal
  BY DEF HInv, OverIsOver, Ledger!OverIsFinal
<1> QED
  BY <1>1, ApartHistory, PTL

=============================================================================
