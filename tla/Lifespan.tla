------------------------------ MODULE Lifespan ------------------------------
(***************************************************************************)
(* The life of the processes that serve the API: the lifespan of main.py,  *)
(* what it starts (init_db, validate_keys, init_redis) and what it stops   *)
(* (close_redis).  Several processes may share one database: replicas, or  *)
(* a process that starts while its predecessor still stops.                *)
(*                                                                         *)
(* init_db is SQLAlchemy's create_all: it asks for every table whether it  *)
(* exists, then creates those that did not, a CREATE TABLE and after it    *)
(* the CREATE INDEX statements of that table.  MySQL commits every one of  *)
(* these statements at once, and a table that has appeared since the       *)
(* question makes its CREATE fail.                                         *)
(***************************************************************************)
EXTENDS Naturals

CONSTANTS Workers

VARIABLES proc,    \* per process: what its lifespan does next
          tables,  \* the tables that exist
          indexed  \* the tables of Keyed whose unique index exists

lifespanVars == <<proc, tables, indexed>>

\* Base.metadata: 1 login_histories, 2 users, 3 user_devices, in the order of
\* models/__init__.py, which has the parent of the foreign key before its child.
Tables == 1..3

\* Those with a unique index: users by email, user_devices by user and device.
UsersByEmail == 2
DevicesByUser == 3
Keyed == {UsersByEmail, DevicesByUser}

Down == [pc |-> "down", asked |-> 0, missing |-> {}, client |-> "none"]

LifespanInit == /\ proc = [w \in Workers |-> Down]
                /\ tables = {}
                /\ indexed = {}

Phase(w, pc) == proc[w].pc = pc

Starting(w) == proc[w].pc \in {"check", "create", "index", "keys"}
Serving(w) == Phase(w, "serving")

Exit(w) == proc' = [proc EXCEPT ![w] = Down]

-----------------------------------------------------------------------------
(***************************************************************************)
(* Startup.                                                                *)
(***************************************************************************)
Boot(w) == /\ Phase(w, "down")
           /\ proc' = [proc EXCEPT ![w].pc = "check"]
           /\ UNCHANGED <<tables, indexed>>

\* What follows once it is known which tables are missing.
Then(missing) == IF missing = {} THEN "keys" ELSE "create"

\* Slip: one table stands for the schema, as if created together with the rest.
CheckOneTable(w, t) ==
  /\ Phase(w, "check") /\ t = 1
  /\ LET missing == IF t \in tables THEN {} ELSE Tables
     IN proc' = [proc EXCEPT ![w].missing = missing, ![w].pc = Then(missing)]
  /\ UNCHANGED <<tables, indexed>>

\* has_table: the answer is remembered until every table has been asked for.
CheckTable(w, t) ==
  /\ Phase(w, "check") /\ t = proc[w].asked + 1
  /\ LET missing == proc[w].missing \union ({t} \ tables)
     IN proc' = IF t = 3
                THEN [proc EXCEPT ![w].missing = missing, ![w].asked = 0, ![w].pc = Then(missing)]
                ELSE [proc EXCEPT ![w].missing = missing, ![w].asked = t]
  /\ UNCHANGED <<tables, indexed>>

IsNext(w, t) == t \in proc[w].missing /\ \A s \in proc[w].missing : t <= s

\* On to the next missing table, t is done.
Past(w, t) == [proc EXCEPT ![w].missing = @ \ {t}, ![w].pc = Then(proc[w].missing \ {t})]

CreateTable(w, t) ==
  /\ Phase(w, "create") /\ IsNext(w, t)
  /\ IF t \in tables THEN Exit(w) ELSE proc' = [proc EXCEPT ![w].pc = "index"]
  /\ tables' = tables \union {t}
  /\ UNCHANGED indexed

CreateIndexes(w, t) == /\ Phase(w, "index") /\ IsNext(w, t)
                       /\ indexed' = indexed \union ({t} \intersect Keyed)
                       /\ proc' = Past(w, t)
                       /\ UNCHANGED tables

\* validate_keys finds both key files, then init_redis: from_url opens no
\* connection, so Redis being down is not noticed here; a REDIS_URL it rejects is
\* logged and the process serves without a client.
InitRedis(w, client) == /\ Phase(w, "keys")
                        /\ client \in {"open", "none"}
                        /\ proc' = [proc EXCEPT ![w].pc = "serving", ![w].client = client]
                        /\ UNCHANGED <<tables, indexed>>

\* The database is unreachable or a key file missing: the exception leaves the
\* lifespan and uvicorn exits.
StartFails(w) == /\ Starting(w)
                 /\ Exit(w)
                 /\ UNCHANGED <<tables, indexed>>

-----------------------------------------------------------------------------
(***************************************************************************)
(* Shutdown.                                                               *)
(***************************************************************************)
\* SIGTERM: uvicorn accepts no more calls and waits for those in flight.  One that
\* comes during startup ends the process without shutdown, as Kill does.
Stop(w) == /\ Serving(w)
           /\ proc' = [proc EXCEPT ![w].pc = "draining"]
           /\ UNCHANGED <<tables, indexed>>

\* close_redis: await redis_client.close(), then the global is reset.
CloseRedis(w) == /\ Phase(w, "draining")
                 /\ proc' = [proc EXCEPT ![w].pc = "closing",
                                         ![w].client = IF @ = "open" THEN "closed" ELSE @]
                 /\ UNCHANGED <<tables, indexed>>

Closed(w) == /\ Phase(w, "closing")
             /\ Exit(w)
             /\ UNCHANGED <<tables, indexed>>

\* The process dies, whatever it was doing.
Kill(w) == /\ ~Phase(w, "down")
           /\ Exit(w)
           /\ UNCHANGED <<tables, indexed>>

StartStep(w) ==
  \/ \E t \in Tables : CheckTable(w, t) \/ CreateTable(w, t) \/ CreateIndexes(w, t)
  \/ \E client \in {"open", "none"} : InitRedis(w, client)

-----------------------------------------------------------------------------
Up(w) == Serving(w) \/ Phase(w, "draining")

\* A process that serves finds every table, whoever created them and however
\* many starts failed, raced or were killed half-way before.
ServesWithSchema == \A w \in Workers : Up(w) => tables = Tables

\* A process that serves has the unique indexes too: one address, one account,
\* which is what the models declare.  Each is created by the process that created
\* its table and by no other, in a statement of its own.
ServesWithIndexes == \A w \in Workers : Up(w) => Keyed \subseteq indexed

=============================================================================
