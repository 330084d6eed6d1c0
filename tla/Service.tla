------------------------------ MODULE Service ------------------------------
(***************************************************************************)
(* The processes of Lifespan serving the calls of Pipeline.  uvicorn ties  *)
(* them: it accepts calls once the startup is over, stops accepting on     *)
(* SIGTERM, and runs the shutdown when the calls in flight have ended,     *)
(* without a time limit.  A process that dies takes its calls with it.     *)
(***************************************************************************)
EXTENDS Lifespan, Pipeline

serviceVars == <<proc, tables, indexed, call, context>>

Init == LifespanInit /\ PipelineInit

InFlight(w) == {c \in Calls : ~At(c, "idle") /\ call[c].on = w}

\* Slip: a draining process still accepts.
AcceptsUntilClosed(w) == Up(w)

Accepts(w) == Serving(w)

ShutsDown(w) == /\ UNCHANGED pipelineVars
                /\ \/ CloseRedis(w) /\ InFlight(w) = {}
                   \/ Closed(w)

ProcessStep(w) == /\ Boot(w) \/ StartStep(w) \/ StartFails(w) \/ Stop(w)
                  /\ UNCHANGED pipelineVars

Dies(w) == Kill(w) /\ Drop(InFlight(w))

Arrives(c, w) == /\ Accepts(w)
                 /\ \E target \in Targets, h \in Headers : Accept(c, w, target, h)
                 /\ UNCHANGED lifespanVars

Proceeds(c) == /\ ~At(c, "idle")
               /\ UNCHANGED lifespanVars
               /\ CallStep(c, proc[call[c].on].client)

Next == \/ \E w \in Workers : ProcessStep(w) \/ ShutsDown(w) \/ Dies(w) \/ \E c \in Calls : Arrives(c, w)
        \/ \E c \in Calls : Proceeds(c)

Spec == Init /\ [][Next]_serviceVars

\* An accepted call goes on, and a shutdown does.  Nothing makes a process start,
\* a client call or an operator stop a process.
FairSpec == /\ Spec
            /\ \A c \in Calls : WF_pipelineVars(Proceeds(c))
            /\ \A w \in Workers : WF_lifespanVars(ShutsDown(w))

-----------------------------------------------------------------------------
\* A process told to stop does: calls that keep coming elsewhere, crashes and
\* failing commits do not keep it from closing its client.
StopsCleanly == \A w \in Workers : Phase(w, "draining") ~> Phase(w, "down")

=============================================================================
