------------------------------ MODULE Pipeline ------------------------------
(***************************************************************************)
(* One HTTP call on its way through the application create_app builds:     *)
(* ServerErrorMiddleware, RequestIdMiddleware, LoggingContextMiddleware,   *)
(* CORSMiddleware, the exception handlers, the dependencies, the route.    *)
(* Each call is a task of its own; the calls of a process interleave at    *)
(* every await.  The request id is identified with the call: the client's  *)
(* x-request-id or a fresh uuid.                                           *)
(*                                                                         *)
(* A kind is how a call ends: "ok"; "rejected" by an AppException,         *)
(* a validation error or an HTTPException (4xx); "limited" by slowapi      *)
(* (429); "crash", any other exception (500).                              *)
(***************************************************************************)
CONSTANTS Calls,
          Unknown,     \* the trace_id of a call that has no request id
          Debug,       \* settings.debug
          ReplyFirst   \* TRUE where FastAPI (0.118 on) answers before get_db commits

ASSUME PipelineAssumption == Unknown \notin Calls /\ Debug \in BOOLEAN /\ ReplyFirst \in BOOLEAN

VARIABLES call,    \* per call: where it is and what became of it
          context  \* per task: the trace_id structlog's contextvars hold

pipelineVars == <<call, context>>

Kinds == {"ok", "rejected", "limited", "crash"}

NoAnswer == [status |-> "none", header |-> FALSE, body |-> FALSE]
NoLog == [id |-> Unknown, status |-> "none"]

\* The headers of a call: all of them UTF-8, or not x-request-id, or not one of
\* those the log binds (x-device-id, user-agent, x-app-version, x-os-type).
Headers == {"good", "bad_id", "bad_other"}

Idle == [pc |-> "idle", on |-> Unknown, headers |-> "good", id |-> Unknown, kind |-> "ok",
         txn |-> "none", answer |-> NoAnswer, log |-> NoLog]

PipelineInit == call = [c \in Calls |-> Idle] /\ context = [c \in Calls |-> Unknown]

At(c, pc) == call[c].pc = pc
Answered(c) == call[c].answer # NoAnswer

\* pc, kind and txn of c after a step that leaves the rest alone.
Goes(c, pc, kind, txn) ==
  /\ call' = [call EXCEPT ![c].pc = pc, ![c].kind = kind, ![c].txn = txn]
  /\ UNCHANGED context

-----------------------------------------------------------------------------
\* RequestIdMiddleware writes the id into the scope; LoggingContextMiddleware
\* binds what the scope says to the context of the task, before its try.  Each
\* decodes first, and decode() raises on what is not UTF-8.
RequestIdIn(c, h, s) ==
  IF h = "bad_id" THEN [s EXCEPT !.raised = TRUE] ELSE [s EXCEPT !.id = c]

\* Slip: the context kept in a global.
BindForAll(c, h, s) ==
  IF h = "bad_other" THEN [s EXCEPT !.raised = TRUE] ELSE [s EXCEPT !.context = [d \in Calls |-> s.id]]

LoggingIn(c, h, s) ==
  IF h = "bad_other" THEN [s EXCEPT !.raised = TRUE] ELSE [s EXCEPT !.context[c] = s.id]

\* add_middleware: the last added runs first.
Inbound(c, h, s) == LET t == RequestIdIn(c, h, s) IN IF t.raised THEN t ELSE LoggingIn(c, h, t)

\* Where a call goes from the middleware: CORS answers a preflight, the router
\* raises 404 or 405, /health has no dependencies.
Targets == {"preflight", "unrouted", "health", "api"}

\* What a middleware raises goes straight to ServerErrorMiddleware.
Accept(c, w, target, h) ==
  LET s == Inbound(c, h, [id |-> Unknown, context |-> context, raised |-> FALSE])
  IN /\ At(c, "idle")
     /\ call' = [call EXCEPT ![c] =
          [Idle EXCEPT !.on = w, !.headers = h, !.id = s.id,
                       !.kind = IF s.raised THEN "crash"
                                ELSE IF target = "unrouted" THEN "rejected" ELSE "ok",
                       !.pc = IF s.raised THEN "outermost"
                              ELSE IF target = "api" THEN "depends" ELSE "reply"]]
     /\ context' = s.context

\* The dependencies: get_db opens a session, get_redis raises without a client,
\* get_current_user, the body and the headers may be rejected, some before the
\* session is there: nothing is in it yet either way.
Depends(c, client, kind) ==
  /\ At(c, "depends")
  /\ kind # "limited"
  /\ kind = "ok" => client # "none"
  /\ Goes(c, IF kind = "ok" THEN "serve" ELSE "unwind", kind, "open")

\* The route, slowapi's check first.
Serve(c, kind) ==
  /\ At(c, "serve")
  /\ Goes(c, IF kind # "ok" THEN "unwind" ELSE IF ReplyFirst THEN "reply" ELSE "commit",
          kind, "open")

\* get_db after its yield.
Commit(c) == /\ At(c, "commit")
             /\ Goes(c, IF ReplyFirst THEN "log" ELSE "reply", "ok", "committed")

\* The commit raises: before it took effect, or after, its acknowledgement lost.
CommitFails(c) ==
  At(c, "commit") /\ \E txn \in {"open", "committed"} : Goes(c, "unwind", "crash", txn)

\* Slip: get_db commits in a finally clause.
UnwindCommits(c) == /\ At(c, "unwind")
                    /\ Goes(c, IF call[c].kind = "crash" THEN "log" ELSE "reply", call[c].kind,
                            IF call[c].txn = "open" THEN "committed" ELSE call[c].txn)

\* get_db's except: the exception rolls the session back on its way out, which
\* undoes nothing the database has kept; those with a handler stop at
\* ExceptionMiddleware, a crash goes on outwards.
Unwind(c) == /\ At(c, "unwind")
             /\ Goes(c, IF call[c].kind = "crash" THEN "log" ELSE "reply", call[c].kind,
                     IF call[c].txn = "open" THEN "rolledback" ELSE call[c].txn)

\* An answer on its way out gets the x-request-id header.  The handlers of
\* AppException, validation and HTTPException put the trace_id into the body,
\* slowapi's own and a success do not.
Sent(c) == [status |-> call[c].kind, header |-> TRUE, body |-> call[c].kind = "rejected"]

Reply(c) ==
  /\ At(c, "reply")
  /\ call' = [call EXCEPT ![c].answer = Sent(c),
                          ![c].pc = IF ReplyFirst /\ call[c].txn = "open" THEN "commit" ELSE "log"]
  /\ UNCHANGED context

\* The line of a call: its context and the status that passed, 500 when none did.
\* Slip: the default is a success.
LineByDefaultOk(c) == [id |-> context[c], status |-> IF Answered(c) THEN call[c].answer.status ELSE "ok"]

Line(c) == [id |-> context[c], status |-> IF Answered(c) THEN call[c].answer.status ELSE "crash"]

\* LoggingContextMiddleware's finally; the session is closed by now.
Log(c) == /\ At(c, "log")
          /\ call' = [call EXCEPT ![c].log = Line(c),
                                  ![c].txn = IF Answered(c) THEN "none" ELSE @,
                                  ![c].pc = IF Answered(c) THEN "done" ELSE "outermost"]
          /\ UNCHANGED context

\* ServerErrorMiddleware, outside RequestIdMiddleware: no header.
\* generic_exception_handler finds the id in the scope; with debug on Starlette
\* sends its own page instead.
\* Slip: the handler takes the id from its own header.
UntracedCrash(c) == [status |-> "crash", header |-> FALSE, body |-> FALSE]

GenericAnswer(c) == [status |-> "crash", header |-> FALSE, body |-> ~Debug /\ call[c].id # Unknown]

Outermost(c) == /\ At(c, "outermost")
                /\ call' = [call EXCEPT ![c].answer = GenericAnswer(c), ![c].pc = "done"]
                /\ UNCHANGED context

\* The task is over, or its process is.
Drop(C) == /\ call' = [c \in Calls |-> IF c \in C THEN Idle ELSE call[c]]
           /\ context' = [c \in Calls |-> IF c \in C THEN Unknown ELSE context[c]]

Finish(c) == At(c, "done") /\ Drop({c})

\* A call goes on, in a process whose Redis client is in the given state.
CallStep(c, client) ==
  \/ \E kind \in Kinds : Depends(c, client, kind) \/ Serve(c, kind)
  \/ Commit(c) \/ CommitFails(c) \/ Unwind(c)
  \/ Reply(c) \/ Log(c) \/ Outermost(c)
  \/ Finish(c)

-----------------------------------------------------------------------------
\* The log line of a call has the id its own answer can be traced by and the
\* status that was answered, though it is written before a crash is answered
\* and other calls bind their contexts in between.  Only a call whose headers
\* the middleware cannot decode ends without one: as a crash that did nothing.
LogTellsTheAnswer ==
  \A c \in Calls : At(c, "done") =>
    IF call[c].headers = "good"
    THEN call[c].log = [id |-> call[c].id, status |-> call[c].answer.status]
    ELSE call[c].log = NoLog /\ call[c].answer.status = "crash" /\ call[c].txn = "none"

\* Every answer names the call, in the header or in the body: that of a crash
\* too, which does not pass RequestIdMiddleware on its way out, and that of a
\* call the log does not know.  Only an undecodable x-request-id goes unnamed.
AnswersAreTraceable ==
  \A c \in Calls : Answered(c) =>
    call[c].answer.header \/ call[c].answer.body \/ call[c].headers = "bad_id"

\* Where the commit precedes the answer: a client is told of a success only
\* after the commit and of a rejection only when nothing was kept.  After a
\* 500 either may be the case, as a commit that raises may have been kept, but
\* nothing is left to be decided.
AnswersMatchTransaction ==
  \A c \in Calls : Answered(c) =>
    call[c].txn \in CASE call[c].answer.status = "ok" -> {"none", "committed"}
                      [] call[c].answer.status = "crash" -> {"none", "rolledback", "committed"}
                      [] OTHER -> {"none", "rolledback"}

=============================================================================
