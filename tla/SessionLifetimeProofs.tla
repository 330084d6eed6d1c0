----------------------- MODULE SessionLifetimeProofs -----------------------
(***************************************************************************)
(* SessionLifetime adds the refresh token to TokenLifetime without         *)
(* disturbing it, so the theorems about the access token carry over; the   *)
(* two invariants of the session follow as there, from the fact that a TTL *)
(* misses the remaining time by less than a second.                        *)
(***************************************************************************)
EXTENDS SessionLifetime, TokenLifetimeProofs

LoginTypeOK == /\ login \in [pc : {"idle", "store", "setex", "answered"}, due : Nat, at : Nat, ttl : Int]
               /\ session \in Int

\* What the login in flight remembers, and what it leaves behind.
LoginRemembers == /\ login.pc = "idle" => session = -1
                  /\ login.pc = "setex" => /\ login.at <= now /\ now <= login.at + MaxDelay
                                           /\ login.ttl = RefreshTtl(login.at)

LoginCovers == login.pc = "answered" => \/ session > login.due - TicksPerSecond
                                        \/ login.due - now < TicksPerSecond

SInv == IInv /\ LoginTypeOK /\ LoginRemembers /\ LoginCovers /\ SessionEndsWithToken

-----------------------------------------------------------------------------
\* A step of the session is a step of the access token or none.
LEMMA SessionSteps == [SessionNext]_sessionVars => [Next]_vars
  BY DEF SessionNext, sessionVars, MintPair, ComputeRefreshTtl, SetexSession, LogoutStep, TimePasses, Next, vars

LEMMA InitSInv == SessionInit => SInv
<1> SUFFICES ASSUME SessionInit PROVE SInv
  OBVIOUS
<1>1. IInv
  BY InitIInv DEF SessionInit
<1> QED
  BY <1>1, ClockAssumption
  DEF SessionInit, SInv, LoginTypeOK, LoginRemembers, LoginCovers, SessionEndsWithToken

LEMMA NextSInv == SInv /\ [SessionNext]_sessionVars => SInv'
<1> SUFFICES ASSUME SInv, [SessionNext]_sessionVars PROVE SInv'
  OBVIOUS
<1> USE ClockAssumption
<1> DEFINE T == TicksPerSecond
<1>1. IInv' /\ now \in Nat /\ now' \in Nat
  BY SessionSteps, NextIInv DEF SInv, IInv, TypeOK
<1>2. CASE MintPair
  <2>1. RefreshLifetime * T \in Nat
    BY RefreshAssumption
  <2> DEFINE due == now + RefreshLifetime * T
  <2>2. due \in Nat
    BY <2>1, <1>1
  <2>3. /\ login.pc = "idle" /\ session' = session
        /\ login' = [login EXCEPT !.pc = "store", !.due = due]
    BY <1>2 DEF MintPair
  <2> HIDE DEF due
  <2>4. LoginTypeOK' /\ session' = -1 /\ login'.pc = "store" /\ login'.due = due
    BY <2>2, <2>3 DEF SInv, LoginTypeOK, LoginRemembers
  <2> QED
    BY <1>1, <2>2, <2>4 DEF SInv, LoginRemembers, LoginCovers, SessionEndsWithToken
<1>3. CASE ComputeRefreshTtl
  <2>1. RefreshTtl(now) \in Int /\ (RefreshTtl(now) <= 0 => login.due - now < T)
    BY <1>1, TtlMissesLessThanOneSecond DEF SInv, LoginTypeOK, RefreshTtl
  <2>2. now' = now /\ session' = session
    BY <1>3 DEF ComputeRefreshTtl, vars
  <2>3. LoginTypeOK'
    BY <1>1, <1>3, <2>1, <2>2 DEF ComputeRefreshTtl, SInv, LoginTypeOK
  <2>4. LoginRemembers' /\ SessionEndsWithToken'
    BY <1>1, <1>3, <2>2
    DEF ComputeRefreshTtl, SInv, LoginTypeOK, LoginRemembers, SessionEndsWithToken, RefreshTtl
  <2>5. LoginCovers'
    BY <1>1, <1>3, <2>1, <2>2 DEF ComputeRefreshTtl, SInv, LoginTypeOK, LoginCovers
  <2> QED
    BY <1>1, <2>3, <2>4, <2>5 DEF SInv
<1>4. CASE SetexSession
  <2> DEFINE reach == login.ttl * T
  <2>1. /\ login.at <= now /\ now <= login.at + MaxDelay
        /\ login.ttl = (login.due - login.at) \div T
    BY <1>4 DEF SetexSession, SInv, LoginRemembers, RefreshTtl
  <2>2. /\ reach \in Int /\ reach <= login.due - login.at
        /\ login.due - login.at < reach + T
    BY <2>1, TtlMissesLessThanOneSecond DEF SInv, LoginTypeOK
  <2>3. session' = now + reach /\ now' = now
    BY <1>4 DEF SetexSession, vars
  <2> HIDE DEF reach
  <2>4. /\ session' \in Int
        /\ session' > login.due - T
        /\ session' <= login.due + MaxDelay
    BY <1>1, <2>1, <2>2, <2>3 DEF SInv, LoginTypeOK
  <2> QED
    BY <1>1, <1>4, <2>4
    DEF SetexSession, SInv, LoginTypeOK, LoginRemembers, LoginCovers, SessionEndsWithToken
<1>5. CASE LogoutStep
  <2>1. now' = now
    BY <1>5 DEF LogoutStep, ComputeTtl, SetexEntry
  <2> QED
    BY <1>1, <1>5, <2>1
    DEF LogoutStep, SInv, LoginTypeOK, LoginRemembers, LoginCovers, SessionEndsWithToken, RefreshTtl
<1>6. CASE TimePasses
  BY <1>1, <1>6
  DEF TimePasses, Tick, SInv, LoginTypeOK, LoginRemembers, LoginCovers, SessionEndsWithToken, RefreshTtl
<1>7. CASE UNCHANGED sessionVars
  BY <1>1, <1>7
  DEF sessionVars, vars, SInv, LoginTypeOK, LoginRemembers, LoginCovers, SessionEndsWithToken, RefreshTtl
<1> QED
  BY <1>2, <1>3, <1>4, <1>5, <1>6, <1>7 DEF SessionNext

\* Cutting an expiry to whole seconds takes less than a second.
LEMMA CutUnderOneSecond == ASSUME NEW t \in Nat PROVE WholeSeconds(t) \in Nat /\ t - TicksPerSecond < WholeSeconds(t)
<1>1. TicksPerSecond \in Nat /\ TicksPerSecond > 0
  BY ClockAssumption
<1> QED
  BY <1>1 DEF WholeSeconds

LEMMA SInvLasts == SInv => SessionLastsAsPromised
<1> SUFFICES ASSUME SInv, login.pc = "answered", now + TicksPerSecond <= login.due
             PROVE  Refreshable
  BY DEF SessionLastsAsPromised
<1>1. now \in Nat /\ login.due \in Nat /\ session \in Int
  BY DEF SInv, IInv, TypeOK, LoginTypeOK
<1>2. login.due - TicksPerSecond < WholeSeconds(login.due) /\ WholeSeconds(login.due) \in Nat
  BY <1>1, CutUnderOneSecond
<1>3. session > login.due - TicksPerSecond
  BY <1>1, ClockAssumption DEF SInv, LoginCovers
<1> QED
  BY <1>1, <1>2, <1>3, ClockAssumption DEF Refreshable

-----------------------------------------------------------------------------
\* The clock of the session is a conservative extension of the access token's:
\* every theorem about Spec holds of SessionSpec.
THEOREM SessionImplementsToken == SessionSpec => Spec
<1>1. SessionInit => Init
  BY DEF SessionInit
<1> QED
  BY <1>1, SessionSteps, PTL DEF SessionSpec, Spec

\* A session nobody ended can be refreshed until its last second
\* (services/token_store.py:28-31 and services/jwt.py:83).
THEOREM SessionLasts == SessionSpec => []SessionLastsAsPromised
<1> QED
  BY InitSInv, NextSInv, SInvLasts, PTL DEF SessionSpec

\* An entry outlives its refresh token by at most the delay of its SETEX.
THEOREM SessionsNeedNoSweeping == SessionSpec => []SessionEndsWithToken
<1>1. SInv => SessionEndsWithToken
  BY DEF SInv
<1> QED
  BY <1>1, InitSInv, NextSInv, PTL DEF SessionSpec
=============================================================================
