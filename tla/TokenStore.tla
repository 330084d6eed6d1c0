----------------------------- MODULE TokenStore -----------------------------
(***************************************************************************)
(* The Redis half of the service: what app/services/token_store.py keeps,  *)
(* one operator per Redis command it issues.  Redis runs each command (and *)
(* each MULTI/EXEC pipeline) atomically; the awaits between two commands   *)
(* of one method are where other requests get in, so the methods that      *)
(* issue several commands are composed step by step in AuthApi.            *)
(*                                                                         *)
(* Data: a pair of tokens minted together is a grant, a number from 1 up;  *)
(* the jti of its refresh token is what the store keeps, the jti of its    *)
(* access token is what the blacklist keeps.                               *)
(***************************************************************************)
EXTENDS Identities, Naturals

VARIABLES rt,         \* auth:rt:{user}:{device}, 0 when the key is absent
          index,      \* auth:devices:{user}, a set of device ids
          blacklist   \* the keys auth:blacklist:{jti}

storeVars == <<rt, index, blacklist>>

StoreInit ==
  /\ rt = [u \in Users |-> [d \in Devices |-> 0]]
  /\ index = [u \in Users |-> {}]
  /\ blacklist = {}

(***************************************************************************)
(* store_refresh_token: SETEX, then SADD.                                  *)
(***************************************************************************)
\* Slip: SET NX, a stored token is kept.
SetexIfAbsent(u, d, n) == /\ rt' = [rt EXCEPT ![u][d] = IF @ = 0 THEN n ELSE @]
                          /\ UNCHANGED <<index, blacklist>>

\* Slip: the jti stored is not the one signed into the refresh token.
SetexOtherJti(u, d, n) == /\ rt' = [rt EXCEPT ![u][d] = n + 1]
                          /\ UNCHANGED <<index, blacklist>>

Setex(u, d, n) == /\ rt' = [rt EXCEPT ![u][d] = n]
                  /\ UNCHANGED <<index, blacklist>>

\* Slip: the set is replaced instead of extended.
SaddOnly(u, d) == /\ index' = [index EXCEPT ![u] = {d}]
                  /\ UNCHANGED <<rt, blacklist>>

Sadd(u, d) == /\ index' = [index EXCEPT ![u] = @ \union {d}]
              /\ UNCHANGED <<rt, blacklist>>

(***************************************************************************)
(* delete_refresh_token: DEL, then SREM.                                   *)
(***************************************************************************)
\* Slip: DEL is sent a key without its prefix and hits nothing.
DelOtherKey(u, d) == UNCHANGED <<rt, index, blacklist>>

Del(u, d) == /\ rt' = [rt EXCEPT ![u][d] = 0]
             /\ UNCHANGED <<index, blacklist>>

Srem(u, d) == /\ index' = [index EXCEPT ![u] = @ \ {d}]
              /\ UNCHANGED <<rt, blacklist>>

(***************************************************************************)
(* delete_all_refresh_tokens after SMEMBERS has returned D: the pipeline   *)
(* deletes the tokens of D and then the whole index key, whatever was      *)
(* added to it since; an empty D deletes the index key alone.              *)
(***************************************************************************)
\* Slip: the loop over the devices is lost, the index key alone is deleted.
DeleteIndex(u, D) == /\ index' = [index EXCEPT ![u] = {}]
                     /\ UNCHANGED <<rt, blacklist>>

DeleteAll(u, D) ==
  /\ rt' = [rt EXCEPT ![u] = [d \in Devices |-> IF d \in D THEN 0 ELSE @[d]]]
  /\ index' = [index EXCEPT ![u] = {}]
  /\ UNCHANGED blacklist

(***************************************************************************)
(* blacklist_token, for a token with a second or more to live.  The entry  *)
(* outlives it but for the last second of its life, so here it never       *)
(* expires; in that second no entry is written at all (ttl_seconds <= 0).  *)
(* TokenLifetime models the clocks, the rounding and the last second.      *)
(***************************************************************************)
BlacklistToken(n) == /\ blacklist' = blacklist \union {n}
                     /\ UNCHANGED <<rt, index>>

\* The TTL of a refresh token runs out; nothing removes its index member.
RtExpire(u, d) == /\ rt[u][d] # 0
                  /\ rt' = [rt EXCEPT ![u][d] = 0]
                  /\ UNCHANGED <<index, blacklist>>

=============================================================================
