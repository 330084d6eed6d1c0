------------------------------ MODULE AccountDb ------------------------------
(***************************************************************************)
(* The relational half of the service: the rows of users, user_devices and *)
(* login_histories, and the one transaction each request runs through the  *)
(* session of app/dependencies/database.py.  The database is the           *)
(* production one, MySQL 8 at REPEATABLE READ: the first SELECT fixes the  *)
(* snapshot of a transaction, a flushed row stays locked until COMMIT or   *)
(* ROLLBACK, and a later writer of the row waits.                          *)
(*                                                                         *)
(* The ORM writes the columns an object CHANGED, compared with the value   *)
(* it loaded: assigning is_active = True to a row loaded as active locks   *)
(* the row (other columns change) and leaves is_active as it is stored.    *)
(***************************************************************************)
EXTENDS Identities, Naturals

VARIABLES row,      \* per user: users.status, hashed_password, is_active per device
          history,  \* login_histories: the grant of a success, 0 for a failure
          txn       \* per request: its open transaction

dbVars == <<row, history, txn>>

\* status WITHDRAWN and deleted_at are only ever set together.
DeviceStates == {"absent", "active", "inactive"}
BlankRow == [status |-> "absent", pwd |-> None,
             device |-> [d \in Devices |-> "absent"]]
NoPut == [status |-> None, pwd |-> None, device |-> [d \in Devices |-> None]]
BlankTxn == [user |-> None, seen |-> BlankRow, put |-> NoPut,
             locks |-> {}, rows |-> {}]

DbInit == /\ row = [u \in Users |-> BlankRow]
          /\ history = {}
          /\ txn = [r \in Requests |-> BlankTxn]

\* Rows the queries with "deleted_at IS NULL" return.
Found(image) == image.status \notin {"absent", "WITHDRAWN"}

-----------------------------------------------------------------------------
(***************************************************************************)
(* Row locks.  "user" is the exclusive lock on the users row, "fk" the     *)
(* shared one that the insert of a user_devices row takes on it, a device  *)
(* the exclusive lock on that user_devices row (or index entry).           *)
(***************************************************************************)
Conflicts(held, wanted) == \/ held = wanted /\ held # "fk"
                           \/ {held, wanted} = {"user", "fk"}

CanLock(r, L) ==
  \A q \in Requests \ {r} :
    txn[q].user = txn[r].user =>
      \A held \in txn[q].locks, wanted \in L : ~Conflicts(held, wanted)

(***************************************************************************)
(* The transaction of request r.                                           *)
(***************************************************************************)
Begin(r, u) ==
  txn' = [txn EXCEPT ![r] = [BlankTxn EXCEPT !.user = u, !.seen = row[u]]]

\* Flush: UPDATEs and INSERTs wait for their locks and are seen by nobody yet.
Flush(r, L, put) ==
  /\ CanLock(r, L)
  /\ txn' = [txn EXCEPT ![r].locks = @ \union L, ![r].put = put]

\* is_active of the devices in D as the ORM will write it.
Assign(r, D, value) ==
  [d \in Devices |-> IF d \in D /\ txn[r].seen.device[d] # value THEN value ELSE None]

Merge(image, put) ==
  LET New(old, new) == IF new = None THEN old ELSE new
  IN [status |-> New(image.status, put.status),
      pwd    |-> New(image.pwd, put.pwd),
      device |-> [d \in Devices |-> New(image.device[d], put.device[d])]]

\* Slip: every column is written, with the value loaded where it did not change.
CommitAllColumns(r) ==
  /\ row' = [u \in Users |-> IF u = txn[r].user THEN Merge(txn[r].seen, txn[r].put) ELSE row[u]]
  /\ history' = history \union txn[r].rows
  /\ txn' = [txn EXCEPT ![r] = BlankTxn]

\* Slip: the login history has a session of its own, which nobody commits.
CommitApart(r) ==
  /\ row' = [u \in Users |-> IF u = txn[r].user THEN Merge(row[u], txn[r].put) ELSE row[u]]
  /\ txn' = [txn EXCEPT ![r] = BlankTxn]
  /\ UNCHANGED history

CommitTxn(r) ==
  /\ row' = [u \in Users |-> IF u = txn[r].user THEN Merge(row[u], txn[r].put) ELSE row[u]]
  /\ history' = history \union txn[r].rows
  /\ txn' = [txn EXCEPT ![r] = BlankTxn]

RollbackTxn(r) == /\ txn' = [txn EXCEPT ![r] = BlankTxn]
                  /\ UNCHANGED <<row, history>>

\* An operator suspends or reinstates an account: no endpoint does.
SetStatus(u, from, to) ==
  /\ row[u].status = from
  /\ \A r \in Requests : txn[r].user = u => txn[r].locks \intersect {"user", "fk"} = {}
  /\ row' = [row EXCEPT ![u].status = to]
  /\ UNCHANGED <<history, txn>>

=============================================================================
