--------------------------- MODULE SessionLifetime ---------------------------
(***************************************************************************)
(* The clocks of a session: beside the access token of TokenLifetime, the  *)
(* refresh token a login mints with it and the entry auth:rt it leaves in  *)
(* Redis.  The token carries its expiry cut to a whole second, the entry a *)
(* TTL in whole seconds, computed from the uncut expiry after the token    *)
(* was signed and applied when Redis runs the SETEX.                       *)
(***************************************************************************)
EXTENDS TokenLifetime

CONSTANT RefreshLifetime  \* JWT_REFRESH_TOKEN_EXPIRE_SECONDS

ASSUME RefreshAssumption == RefreshLifetime \in Nat

VARIABLES login,   \* the login: when its refresh token is due, its TTL and when computed
          session  \* auth:rt:{user}:{device}: the last tick it exists, -1 when never set

sessionVars == <<vars, login, session>>

SessionInit == /\ Init
               /\ login = [pc |-> "idle", due |-> 0, at |-> 0, ttl |-> 0]
               /\ session = -1

\* create_access_token and create_refresh_token, one after the other.
MintPair == /\ login.pc = "idle"
            /\ CreateAccessToken
            /\ login' = [login EXCEPT !.pc = "store", !.due = now + RefreshLifetime * TicksPerSecond]
            /\ UNCHANGED session

\* Slips: a second taken off to be safe; the remaining time rounded up.
RefreshTtlLessOne(t) == (login.due - t) \div TicksPerSecond - 1
RefreshTtlRoundedUp(t) == (login.due - t + TicksPerSecond - 1) \div TicksPerSecond

\* int((expires_at - now).total_seconds()); a time past due is cut towards
\* zero instead, but then nothing is stored either way.
RefreshTtl(t) == (login.due - t) \div TicksPerSecond

\* store_refresh_token returns at once when nothing is left, and login answers
\* with a refresh token the store does not know.
ComputeRefreshTtl ==
  /\ login.pc = "store"
  /\ login' = [login EXCEPT !.pc = IF RefreshTtl(now) <= 0 THEN "answered" ELSE "setex",
                            !.at = now, !.ttl = RefreshTtl(now)]
  /\ UNCHANGED <<vars, session>>

SetexSession == /\ login.pc = "setex"
                /\ session' = now + login.ttl * TicksPerSecond
                /\ login' = [login EXCEPT !.pc = "answered"]
                /\ UNCHANGED vars

\* A client logs out with the access token the login answered.
LogoutStep == /\ login.pc = "answered"
              /\ \E r \in Logouts : ComputeTtl(r) \/ SetexEntry(r)
              /\ UNCHANGED <<login, session>>

TimePasses == /\ login.pc = "setex" => now < login.at + MaxDelay
              /\ Tick
              /\ UNCHANGED <<login, session>>

SessionNext == MintPair \/ ComputeRefreshTtl \/ SetexSession \/ LogoutStep \/ TimePasses

SessionSpec == SessionInit /\ [][SessionNext]_sessionVars

-----------------------------------------------------------------------------
\* decode_refresh_token accepts the token until the second of its expiry; refresh
\* then looks for the entry.
Refreshable == now < WholeSeconds(login.due) /\ now <= session

\* The refresh_expires_in of a login holds up to the last second: however long the
\* signature and the SETEX took, and whichever of the two roundings ends the
\* session first, one nobody ended can be refreshed until then.  So a login
\* that stored nothing promised nothing that was still to come.
SessionLastsAsPromised ==
  login.pc = "answered" /\ now + TicksPerSecond <= login.due => Refreshable

\* The entry is gone when the token is due or at most MaxDelay later: it needs
\* no sweeping.
SessionEndsWithToken == session <= login.due + MaxDelay

=============================================================================
