---------------------------- MODULE SessionLedger ----------------------------
(***************************************************************************)
(* What the service promises its clients about refresh tokens, without     *)
(* requests, Redis or a database: README.md "Device 기반 토큰 관리" and      *)
(* "Refresh Token Rotation".  A device of an account has one session at    *)
(* most; a refresh replaces the grant it redeems; a session the client was *)
(* told is over stays over.                                                *)
(***************************************************************************)
EXTENDS Naturals, Sequences, TLAPS

CONSTANTS Users, Devices

VARIABLES minted,  \* the grants, in order: [user, device, parent]
          live,    \* the grants a refresh would accept
          held,    \* the grants clients were given
          over     \* the grants whose end a client was told of

ledger == <<minted, live, held, over>>

LedgerInit == minted = << >> /\ live = {} /\ held = {} /\ over = {}

OnDevice(n, u, d) == minted[n].user = u /\ minted[n].device = d

\* A login, or the refresh of a grant p that a client of this device was given.
Mint(u, d, p) ==
  /\ p = 0 \/ (p \in held /\ OnDevice(p, u, d))
  /\ minted' = Append(minted, [user |-> u, device |-> d, parent |-> p])
  /\ live' = {n \in live : ~OnDevice(n, u, d)} \union {Len(minted) + 1}
  /\ UNCHANGED <<held, over>>

\* A client is given a grant; the one redeemed for it is dead by then.
Hold(n) == /\ n \in 1..Len(minted)
           /\ minted[n].parent \notin live
           /\ held' = held \union {n}
           /\ UNCHANGED <<minted, live, over>>

\* Sessions are revoked or expire.
End == /\ live' \subseteq live
       /\ UNCHANGED <<minted, held, over>>

\* A client is told that the sessions N are over.
Confirm(N) == /\ N \subseteq held \ live
              /\ over' = over \union N
              /\ UNCHANGED <<minted, live, held>>

LedgerNext == \/ \E u \in Users, d \in Devices, p \in 0..Len(minted) : Mint(u, d, p)
              \/ \E n \in 1..Len(minted) : Hold(n)
              \/ End
              \/ \E N \in SUBSET held : Confirm(N)

LedgerSpec == LedgerInit /\ [][LedgerNext]_ledger

-----------------------------------------------------------------------------
\* A session whose end a client was told of is never live again.
OverIsFinal == over \intersect live = {}

\* No two live sessions on one device of one account.
OneSessionPerDevice ==
  \A m, n \in live : OnDevice(m, minted[n].user, minted[n].device) => m = n

-----------------------------------------------------------------------------
LedgerTypeOK == /\ minted \in Seq([user : Users, device : Devices, parent : Nat])
                /\ live \subseteq 1..Len(minted)
                /\ held \subseteq 1..Len(minted)

LedgerInv == LedgerTypeOK /\ over \subseteq held /\ OverIsFinal /\ OneSessionPerDevice

LEMMA MintKeepsLedgerInv ==
  ASSUME LedgerInv, NEW u \in Users, NEW d \in Devices, NEW p \in 0..Len(minted), Mint(u, d, p)
  PROVE  LedgerInv'
<1>1. /\ Len(minted) \in Nat /\ Len(minted') = Len(minted) + 1
      /\ minted' \in Seq([user : Users, device : Devices, parent : Nat])
      /\ minted'[Len(minted) + 1] = [user |-> u, device |-> d, parent |-> p]
      /\ \A n \in 1..Len(minted) : minted'[n] = minted[n] /\ n # Len(minted) + 1
  BY DEF LedgerInv, LedgerTypeOK, Mint
<1>2. LedgerTypeOK'
  <2>1. /\ live \subseteq 1..Len(minted) /\ held' = held /\ held \subseteq 1..Len(minted)
        /\ live' \subseteq live \union {Len(minted) + 1}
    BY DEF LedgerInv, LedgerTypeOK, Mint
  <2>2. 1..Len(minted) \subseteq 1..Len(minted') /\ Len(minted) + 1 \in 1..Len(minted')
    BY <1>1
  <2> QED
    BY <1>1, <2>1, <2>2 DEF LedgerTypeOK
<1>3. over' \subseteq held' /\ OverIsFinal'
  BY <1>1 DEF LedgerInv, LedgerTypeOK, OverIsFinal, Mint
<1>4. OneSessionPerDevice'
  BY <1>1 DEF LedgerInv, LedgerTypeOK, OneSessionPerDevice, OnDevice, Mint
<1> QED
  BY <1>2, <1>3, <1>4 DEF LedgerInv

LEMMA NextLedgerInv == LedgerInv /\ [LedgerNext]_ledger => LedgerInv'
<1> SUFFICES ASSUME LedgerInv, [LedgerNext]_ledger PROVE LedgerInv'
  OBVIOUS
<1>1. CASE \E u \in Users, d \in Devices, p \in 0..Len(minted) : Mint(u, d, p)
  BY <1>1, MintKeepsLedgerInv
<1>2. CASE (\E n \in 1..Len(minted) : Hold(n)) \/ End \/ (\E N \in SUBSET held : Confirm(N))
  BY <1>2 DEF LedgerInv, LedgerTypeOK, OverIsFinal, OneSessionPerDevice, OnDevice, Hold, End, Confirm
<1>3. CASE UNCHANGED ledger
  BY <1>3 DEF ledger, LedgerInv, LedgerTypeOK, OverIsFinal, OneSessionPerDevice, OnDevice
<1> QED
  BY <1>1, <1>2, <1>3 DEF LedgerNext

\* What README.md "Device 기반 토큰 관리" promises follows from the ledger: a device
\* has one session at most, and an end a client was told of is final.
THEOREM LedgerKeepsItsPromises == LedgerSpec => [](OneSessionPerDevice /\ OverIsFinal)
<1>1. LedgerInit => LedgerInv
  BY DEF LedgerInit, LedgerInv, LedgerTypeOK, OverIsFinal, OneSessionPerDevice
<1>2. LedgerInv => OneSessionPerDevice /\ OverIsFinal
  BY DEF LedgerInv
<1> QED
  BY <1>1, <1>2, NextLedgerInv, PTL DEF LedgerSpec

=============================================================================
