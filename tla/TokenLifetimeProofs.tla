------------------------ MODULE TokenLifetimeProofs ------------------------
(***************************************************************************)
(* For every resolution of the clock, every token lifetime, any number of  *)
(* concurrent logouts and any delay of their SETEX, the two invariants of  *)
(* TokenLifetime.  The argument: a TTL misses the remaining time by less   *)
(* than a second (TtlMissesLessThanOneSecond), so whichever logout wrote   *)
(* last, the entry reaches into the last second of the token's life.       *)
(***************************************************************************)
EXTENDS TokenLifetime, TLAPS

TypeOK == /\ now \in Nat
          /\ exp \in Nat
          /\ entry \in Int
          /\ logout \in [Logouts -> [pc : {"idle", "setex", "done"}, at : Nat, ttl : Int]]

\* What a logout in flight remembers of the clock, and what it leaves behind.
Remembers(r) ==
  logout[r].pc # "idle" => /\ logout[r].at <= now
                           /\ logout[r].at < exp
                           /\ logout[r].ttl = Ttl(logout[r].at)

OnTime(r) == logout[r].pc = "setex" => now <= logout[r].at + MaxDelay

Covers(r) == logout[r].pc = "done" => \/ entry > exp - TicksPerSecond
                                      \/ exp - now < TicksPerSecond

IInv == /\ TypeOK
        /\ \A r \in Logouts : Remembers(r) /\ OnTime(r) /\ Covers(r)
        /\ EntryEndsWithToken

-----------------------------------------------------------------------------
\* int() cuts less than a second off the remaining time (services/auth.py:269).
LEMMA TtlMissesLessThanOneSecond ==
  ASSUME NEW e \in Nat, NEW t \in Nat
  PROVE  LET ttl == (e - t) \div TicksPerSecond
         IN /\ ttl \in Int
            /\ ttl * TicksPerSecond \in Int
            /\ ttl * TicksPerSecond <= e - t
            /\ e - t < ttl * TicksPerSecond + TicksPerSecond
            /\ ttl <= 0 => e - t < TicksPerSecond
<1> DEFINE T == TicksPerSecond  ttl == (e - t) \div T
<1>1. T \in Nat /\ T > 0
  BY ClockAssumption
<1>2. ttl \in Int /\ ttl * T \in Int /\ ttl * T <= e - t /\ e - t < ttl * T + T
  BY <1>1
<1>3. ttl <= 0 => ttl * T <= 0
  BY <1>1, <1>2
<1> QED
  BY <1>1, <1>2, <1>3

\* The expiry PyJWT writes is a natural number of ticks.
LEMMA ExpiryIsNat == ASSUME NEW t \in Nat PROVE WholeSeconds(t) + Lifetime * TicksPerSecond \in Nat
<1>1. (t \div TicksPerSecond) \in Nat
  BY ClockAssumption
<1>2. (t \div TicksPerSecond) * TicksPerSecond \in Nat /\ Lifetime * TicksPerSecond \in Nat
  BY <1>1, ClockAssumption
<1> QED
  BY <1>2 DEF WholeSeconds

\* The invariant holds before the token is minted.
LEMMA InitIInv == Init => IInv
  BY ClockAssumption DEF Init, IInv, TypeOK, Idle, Remembers, OnTime, Covers, EntryEndsWithToken

\* Every step keeps it.
LEMMA NextIInv == IInv /\ [Next]_vars => IInv'
<1> SUFFICES ASSUME IInv, [Next]_vars PROVE IInv'
  OBVIOUS
<1> USE ClockAssumption
<1>1. CASE CreateAccessToken
  <2>1. exp' \in Nat /\ exp = 0
    BY <1>1, ExpiryIsNat DEF CreateAccessToken, IInv, TypeOK
  <2>2. \A r \in Logouts : logout[r].pc = "idle"
    BY <2>1 DEF IInv, TypeOK, Remembers
  <2> QED
    BY <1>1, <2>1, <2>2
    DEF CreateAccessToken, IInv, TypeOK, Remembers, OnTime, Covers, EntryEndsWithToken
<1>2. ASSUME NEW r \in Logouts, ComputeTtl(r) PROVE IInv'
  <2>1. /\ now < exp
        /\ Ttl(now) \in Int
        /\ Ttl(now) <= 0 => exp - now < TicksPerSecond
    BY <1>2, TtlMissesLessThanOneSecond DEF ComputeTtl, Accepted, IInv, TypeOK, Ttl
  <2>2. TypeOK'
    BY <1>2, <2>1 DEF ComputeTtl, IInv, TypeOK
  <2>3. \A q \in Logouts : (Remembers(q) /\ OnTime(q) /\ Covers(q))'
    BY <1>2, <2>1 DEF ComputeTtl, IInv, TypeOK, Remembers, OnTime, Covers, Ttl
  <2> QED
    BY <1>2, <2>2, <2>3 DEF ComputeTtl, IInv, EntryEndsWithToken
<1>3. ASSUME NEW r \in Logouts, SetexEntry(r) PROVE IInv'
  <2> DEFINE at == logout[r].at  reach == logout[r].ttl * TicksPerSecond
  <2>1. /\ at \in Nat /\ at <= now /\ now <= at + MaxDelay
        /\ logout[r].ttl = (exp - at) \div TicksPerSecond
    BY <1>3 DEF SetexEntry, IInv, TypeOK, Remembers, OnTime, Ttl
  <2>2. reach \in Int /\ reach <= exp - at /\ exp - at < reach + TicksPerSecond
    BY <2>1, TtlMissesLessThanOneSecond DEF IInv, TypeOK
  <2>3. entry' = now + reach
    BY <1>3 DEF SetexEntry
  <2> HIDE DEF reach, at
  <2>4. entry' \in Int /\ entry' > exp - TicksPerSecond /\ entry' <= exp + MaxDelay
    BY <2>1, <2>2, <2>3 DEF IInv, TypeOK
  <2>5. TypeOK'
    BY <1>3, <2>4 DEF SetexEntry, IInv, TypeOK
  <2>6. \A q \in Logouts : (Remembers(q) /\ OnTime(q) /\ Covers(q))'
    BY <1>3, <2>4 DEF SetexEntry, IInv, TypeOK, Remembers, OnTime, Covers, Ttl
  <2> QED
    BY <1>3, <2>4, <2>5, <2>6 DEF SetexEntry, IInv, EntryEndsWithToken
<1>4. CASE Tick
  BY <1>4 DEF Tick, IInv, TypeOK, Remembers, OnTime, Covers, EntryEndsWithToken, Ttl
<1>5. CASE UNCHANGED vars
  BY <1>5 DEF vars, IInv, TypeOK, Remembers, OnTime, Covers, EntryEndsWithToken, Ttl
<1> QED
  BY <1>1, <1>2, <1>3, <1>4, <1>5 DEF Next

\* While a token is accepted after a logout, it is in its last second.
LEMMA IInvGap == IInv => GapUnderOneSecond
  BY ClockAssumption DEF IInv, TypeOK, Covers, GapUnderOneSecond, LoggedOut, Accepted

-----------------------------------------------------------------------------
\* A logged-out access token is accepted again only in the last second of its
\* life (services/auth.py:261-277, services/token_store.py:86-104).
THEOREM LogoutGap == Spec => []GapUnderOneSecond
<1>1. Spec => []IInv
  BY InitIInv, NextIInv, PTL DEF Spec
<1> QED
  BY <1>1, IInvGap, PTL

\* A blacklist entry outlives its token by at most the delay of its SETEX.
THEOREM BlacklistNeedsNoSweeping == Spec => []EntryEndsWithToken
<1>1. IInv => EntryEndsWithToken
  BY DEF IInv
<1> QED
  BY <1>1, InitIInv, NextIInv, PTL DEF Spec
=============================================================================
