---------------------------- MODULE TokenLifetime ----------------------------
(***************************************************************************)
(* The clocks of one access token and of the blacklist entries written for *)
(* it.  JWT dates are whole seconds and a Redis TTL is a whole number of   *)
(* seconds, while a logout computes the one from the other at some         *)
(* microsecond and Redis runs the SETEX later.  Time is counted in ticks,  *)
(* TicksPerSecond to the second.                                           *)
(***************************************************************************)
EXTENDS Integers

CONSTANTS TicksPerSecond,
          Lifetime,   \* JWT_ACCESS_TOKEN_EXPIRE_SECONDS
          Logouts,    \* requests that revoke the token, logout or logout all
          MaxDelay,   \* ticks from computing a TTL to Redis running the SETEX
          Horizon     \* bound on the clock, in ticks

ASSUME ClockAssumption == /\ TicksPerSecond \in Nat \ {0}
                          /\ Lifetime \in Nat
                          /\ MaxDelay \in Nat
                          /\ Horizon \in Nat

VARIABLES now,
          exp,     \* the exp claim, 0 before the token is minted
          entry,   \* auth:blacklist:{jti}: the last tick it exists, -1 when never set
          logout   \* per request: idle, the TTL it computed and when, or done

vars == <<now, exp, entry, logout>>

Idle == [pc |-> "idle", at |-> 0, ttl |-> 0]

Init == /\ now \in 1..TicksPerSecond
        /\ exp = 0
        /\ entry = -1
        /\ logout = [r \in Logouts |-> Idle]

\* PyJWT writes exp as a whole number of seconds, the fraction cut off.
WholeSeconds(t) == (t \div TicksPerSecond) * TicksPerSecond

CreateAccessToken == /\ exp = 0
                     /\ exp' = WholeSeconds(now) + Lifetime * TicksPerSecond
                     /\ UNCHANGED <<now, entry, logout>>

\* get_current_user: decode rejects from exp on, Redis serves a key up to and
\* including the tick its TTL ends at.
Accepted == now < exp /\ ~(now <= entry)

\* int((exp - now).total_seconds()) of an unexpired token.
\* Slips: a second taken off to be safe; the remaining time rounded up.
TtlLessOne(t) == (exp - t) \div TicksPerSecond - 1
TtlRoundedUp(t) == (exp - t + TicksPerSecond - 1) \div TicksPerSecond

Ttl(t) == (exp - t) \div TicksPerSecond

\* A logout authenticates and computes the TTL; blacklist_token returns at
\* once when none is left.  The EXISTS that get_current_user awaits before it
\* reads the clock counts as part of the step: what it finds cannot be undone
\* meanwhile, and a TTL computed later is one computed at a later tick.
ComputeTtl(r) ==
  /\ logout[r].pc = "idle"
  /\ Accepted
  /\ logout' = [logout EXCEPT ![r] =
       [pc |-> IF Ttl(now) <= 0 THEN "done" ELSE "setex", at |-> now, ttl |-> Ttl(now)]]
  /\ UNCHANGED <<now, exp, entry>>

\* Redis runs the SETEX, replacing the deadline an earlier logout set.
SetexEntry(r) ==
  /\ logout[r].pc = "setex"
  /\ entry' = now + logout[r].ttl * TicksPerSecond
  /\ logout' = [logout EXCEPT ![r].pc = "done"]
  /\ UNCHANGED <<now, exp>>

Tick == /\ now < Horizon
        /\ \A r \in Logouts : logout[r].pc = "setex" => now < logout[r].at + MaxDelay
        /\ now' = now + 1
        /\ UNCHANGED <<exp, entry, logout>>

Next == \/ CreateAccessToken
        \/ \E r \in Logouts : ComputeTtl(r) \/ SetexEntry(r)
        \/ Tick

Spec == Init /\ [][Next]_vars

-----------------------------------------------------------------------------
LoggedOut == \E r \in Logouts : logout[r].pc = "done"

\* After a logout the access token is accepted again, if at all, in the last
\* second of its life only: cutting the TTL to whole seconds, the clock running
\* between computing it and SETEX, and a second logout that overwrites the
\* entry never open a longer gap.
GapUnderOneSecond == LoggedOut /\ Accepted => exp - now < TicksPerSecond

\* The blacklist needs no sweeping: whichever logout wrote last, the entry is
\* gone when the token expires or at most MaxDelay later.
EntryEndsWithToken == entry <= exp + MaxDelay
=============================================================================
