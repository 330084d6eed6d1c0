---------------------------- MODULE AuthApiLedger ----------------------------
(***************************************************************************)
(* AuthApi implements SessionLedger.  The state of AuthApi does not say    *)
(* which answers have left the server, so a history variable records the   *)
(* sessions whose end was confirmed; it constrains no step.                *)
(***************************************************************************)
EXTENDS AuthApiApart

CONSTANTS Confirming  \* the endpoints whose answer confirms an end

VARIABLES over

ledgerVars == <<vars, over>>

\* The answer that ends r's request tells its client that prior is over: the
\* success of a revocation, or the 401 that punishes the reuse of a token.
Confirms(r) == /\ req[r].op \in Confirming
               /\ Reply(r) \/ (Raise(r) /\ req[r].op = "reuse")

Confirmed == UNION {req[r].prior : r \in {q \in Requests : Confirms(q)}}

HistoryInit == Init /\ over = {}

HistoryNext == Next /\ over' = over \union Confirmed

HistorySpec == HistoryInit /\ [][HistoryNext]_ledgerVars

\* The same, of requests that stay apart.
ApartHistorySpec == HistoryInit /\ [][HistoryNext /\ Apart']_ledgerVars

-----------------------------------------------------------------------------
Live == {n \in 1..Len(grants) : Stored(n)}

Ledger == INSTANCE SessionLedger
            WITH minted <- grants, live <- Live, held <- delivered

\* To its clients the service is the ledger: whatever interleaves, fails or
\* expires, every step of a request opens, replaces, hands over, ends or
\* confirms sessions as SessionLedger allows, or shows nothing.
ImplementsLedger == Ledger!LedgerSpec

=============================================================================
