------------------------------ MODULE AgentRun ------------------------------
(***************************************************************************)
(* agent.Agent on top of the replay chain: Start's background goroutine,   *)
(* Run's select over the context, the lifecycle channel and the business   *)
(* server, and finishRun / Shutdown, which drain and deregister while the  *)
(* replay chain may still be running (src/agent/agent.go).                 *)
(*                                                                         *)
(* Def_What, before Def, is Def with a plausible bug; nothing uses it.     *)
(***************************************************************************)
EXTENDS WatchReplay

CONSTANT
    Setups      \* how the application uses the Agent: records of Setup

Setup == [mode : {"run", "start"},     \* Run, or Start and later Shutdown
          serve : BOOLEAN,             \* is there a ServeFunc?
          shutdown : BOOLEAN,          \* is there a ShutdownFunc?
          grace : BOOLEAN]             \* is a GracePeriod configured?

ASSUME AgentRunAssumption == Setups \subseteq Setup

VARIABLES
    setup,      \* the setup in use
    lifecycle,  \* Agent.errors: open, or closed with or without an error in it
    watchesLc,  \* is lifecycleErrCh of Run still the channel (not nil)?
    servePc,    \* the goroutine of ServeFunc
    runPc,      \* where Run (or the application's Shutdown) is
    serveErr,   \* the argument of finishRun
    result,     \* what it returned: nil or the stage of the error
    drained,    \* history: has the sidecar acknowledged and made a drain?
    deregistered, \* history: has it acknowledged and made a deregister?
    refusals    \* history: calls it answered 200 with success=false

finishVars == <<drained, deregistered, refusals>>
agentVars == <<setup, lifecycle, watchesLc, servePc, runPc, serveErr, result,
               finishVars>>
allVars == <<vars, agentVars>>

(* Type invariant: the variables of the chain and those of the Agent have  *)
(* their types; what the errors channel holds is always a wrapped error.   *)
AgentTypeOK ==
    /\ TypeOK
    /\ setup \in Setup
    /\ lifecycle \in {"open", "error", "closed"}
    /\ watchesLc \in BOOLEAN
    /\ servePc \in {"off", "running", "ok", "failed"}
    /\ runPc \in {"start", "select", "shutdown", "drain", "deregister",
                  "returned"}
    /\ serveErr \in {"none", "failed"}
    /\ result \in {"none", "nil", "lifecycle", "shutdown", "agent_shutdown",
                   "serve"}
    /\ drained \in BOOLEAN /\ deregistered \in BOOLEAN
    /\ refusals \subseteq {"drain", "deregister"}

(* normalizeSidecarAgentConfig never leaves WatchURL empty.                *)
AgentInit ==
    /\ Init /\ watchURL = "url"
    /\ setup \in Setups
    /\ lifecycle = "open" /\ watchesLc = TRUE
    /\ servePc = "off" /\ runPc = "start" /\ serveErr = "none" /\ result = "none"
    /\ drained = FALSE /\ deregistered = FALSE /\ refusals = {}

-----------------------------------------------------------------------------
(* The replay chain runs in the goroutine that Start launches.             *)
ChainStep ==
    /\ runPc # "start"
    /\ SourceStep \/ RunnerStep
    /\ UNCHANGED agentVars

EnvironmentStep == (SidecarStep \/ CtxEnds) /\ UNCHANGED agentVars

(* Runner.Run has returned: its error is put in the channel of capacity    *)
(* one, unless it is context.Canceled, and the channel is closed.          *)
LifecycleEnds_NotWrapped ==
    /\ rnPc = "done" /\ lifecycle = "open"
    /\ lifecycle' = runResult
    /\ UNCHANGED <<vars, setup, watchesLc, servePc, runPc, serveErr, result,
                   finishVars>>
LifecycleEnds ==
    /\ rnPc = "done" /\ lifecycle = "open"
    /\ lifecycle' = IF runResult \in {"nil", "canceled"} THEN "closed"
                                                         ELSE "error"
    /\ UNCHANGED <<vars, setup, watchesLc, servePc, runPc, serveErr, result,
                   finishVars>>

(* Start, and the goroutine of ServeFunc when Run has one.                 *)
AgentStarts ==
    /\ runPc = "start" /\ runPc' = "select"
    /\ servePc' = IF setup.mode = "run" /\ setup.serve THEN "running" ELSE "off"
    /\ UNCHANGED <<vars, setup, lifecycle, watchesLc, serveErr, result,
                   finishVars>>

ServeReturns ==
    /\ servePc = "running" /\ servePc' \in {"ok", "failed"}
    /\ UNCHANGED <<vars, setup, lifecycle, watchesLc, runPc, serveErr, result,
                   finishVars>>

-----------------------------------------------------------------------------
(* Run's select: any ready case may be taken.                              *)

RunSelects == runPc = "select" /\ setup.mode = "run"

(* finishRun(err) begins.                                                  *)
Finish(err) ==
    /\ serveErr' = err
    /\ runPc' = IF setup.shutdown THEN "shutdown"
                ELSE IF setup.grace THEN "drain" ELSE "deregister"
    /\ UNCHANGED <<vars, setup, lifecycle, watchesLc, servePc, result, finishVars>>

Returns(value) ==
    /\ runPc' = "returned" /\ result' = value
    /\ UNCHANGED <<setup, lifecycle, watchesLc, servePc, serveErr>>

RunSeesCtxDone_AfterServe ==
    RunSelects /\ ~Live /\ servePc # "running" /\ Finish("none")
RunSeesCtxDone == RunSelects /\ ~Live /\ Finish("none")

RunSeesServeExit_OnlyErrors ==
    /\ RunSelects /\ servePc = "failed"
    /\ Finish("failed")
RunSeesServeExit_ErrorLost ==
    /\ RunSelects /\ servePc \in {"ok", "failed"}
    /\ Finish("none")
RunSeesServeExit ==
    /\ RunSelects /\ servePc \in {"ok", "failed"}
    /\ Finish(IF servePc = "failed" THEN "failed" ELSE "none")

RunSeesLifecycleError ==
    /\ RunSelects /\ watchesLc /\ lifecycle = "error"
    /\ Returns("lifecycle")
    /\ UNCHANGED <<vars, finishVars>>

(* The lifecycle channel is closed: without a server Run is over, else it  *)
(* goes on without that case.                                              *)
RunSeesLifecycleClosed_IgnoresServe ==
    /\ RunSelects /\ watchesLc /\ lifecycle = "closed"
    /\ Returns("nil")
    /\ UNCHANGED <<vars, finishVars>>
RunSeesLifecycleClosed ==
    /\ RunSelects /\ watchesLc /\ lifecycle = "closed"
    /\ IF servePc = "off"
       THEN Returns("nil")
       ELSE /\ watchesLc' = FALSE
            /\ UNCHANGED <<setup, lifecycle, servePc, runPc, serveErr, result>>
    /\ UNCHANGED <<vars, finishVars>>

(* The application that used Start calls Shutdown.                         *)
ApplicationShutsDown ==
    /\ runPc = "select" /\ setup.mode = "start"
    /\ runPc' = IF setup.grace THEN "drain" ELSE "deregister"
    /\ UNCHANGED <<vars, setup, lifecycle, watchesLc, servePc, serveErr,
                   result, finishVars>>

-----------------------------------------------------------------------------
(* finishRun after the select, and Agent.Shutdown.  The calls do not use   *)
(* the context of Run, so its end does not stop them.                      *)

ShutdownFuncReturns ==
    /\ runPc = "shutdown"
    /\ \/ /\ runPc' = IF setup.grace THEN "drain" ELSE "deregister"
          /\ UNCHANGED <<setup, lifecycle, watchesLc, servePc, serveErr, result>>
       \/ Returns("shutdown")
    /\ UNCHANGED <<vars, finishVars>>

(* What the sidecar does with a drain and with a deregister request.       *)
Drained == IF instance = "registered" THEN "drained" ELSE instance

chainFrame == <<ctx, watchURL, sourceVars, events, runnerVars, stream,
                greeted, call, orphans, frames>>

DrainAnswered ==
    /\ runPc = "drain" /\ runPc' = "deregister"
    /\ instance' = Drained /\ drained' = TRUE
    /\ UNCHANGED <<chainFrame, faults, setup, lifecycle, watchesLc, servePc,
                   serveErr, result, deregistered, refusals>>

(* A 200 with success=false is taken for success (http_client.go:89).      *)
DrainDeclined ==
    /\ runPc = "drain" /\ SidecarMayDecline /\ Fault
    /\ runPc' = "deregister" /\ refusals' = refusals \cup {"drain"}
    /\ UNCHANGED <<chainFrame, instance, setup, lifecycle, watchesLc, servePc,
                   serveErr, result, drained, deregistered>>

(* A failed call may still have been handled.  Its error ends Shutdown.    *)
DrainFails_Ignored ==
    /\ runPc = "drain" /\ Fault /\ runPc' = "deregister"
    /\ instance' \in {instance, Drained}
    /\ UNCHANGED <<chainFrame, setup, lifecycle, watchesLc, servePc, serveErr,
                   result, finishVars>>
DrainFails ==
    /\ runPc = "drain" /\ Fault
    /\ instance' \in {instance, Drained}
    /\ Returns("agent_shutdown")
    /\ UNCHANGED <<chainFrame, finishVars>>

(* A deregister without error ends the finish: the server's error is all   *)
(* that is left to report.                                                 *)
Finished == Returns(IF serveErr = "failed" THEN "serve" ELSE "nil")

DeregisterAnswered ==
    /\ runPc = "deregister"
    /\ instance' = "absent" /\ deregistered' = TRUE
    /\ Finished
    /\ UNCHANGED <<chainFrame, faults, drained, refusals>>

DeregisterDeclined ==
    /\ runPc = "deregister" /\ SidecarMayDecline /\ Fault
    /\ refusals' = refusals \cup {"deregister"}
    /\ Finished
    /\ UNCHANGED <<chainFrame, instance, drained, deregistered>>

DeregisterFails ==
    /\ runPc = "deregister" /\ Fault
    /\ instance' \in {instance, "absent"}
    /\ Returns("agent_shutdown")
    /\ UNCHANGED <<chainFrame, finishVars>>

RunStep ==
    \/ AgentStarts \/ RunSeesCtxDone \/ RunSeesServeExit
    \/ RunSeesLifecycleError \/ RunSeesLifecycleClosed
    \/ ShutdownFuncReturns
    \/ DrainAnswered \/ DrainDeclined \/ DrainFails
    \/ DeregisterAnswered \/ DeregisterDeclined \/ DeregisterFails

AgentNext ==
    \/ ChainStep \/ EnvironmentStep \/ LifecycleEnds \/ ServeReturns
    \/ RunStep \/ ApplicationShutsDown

AgentSpec == AgentInit /\ [][AgentNext]_allVars

(* Run's goroutine and Start's are scheduled, ShutdownFunc returns and the *)
(* calls are answered or time out.  Neither ServeFunc nor the application  *)
(* is obliged to do anything.                                              *)
AgentFairness ==
    /\ WF_allVars(RunStep)
    /\ WF_allVars(LifecycleEnds)

AgentFairSpec == AgentSpec /\ AgentFairness

-----------------------------------------------------------------------------
(* A Run that hosted a server and returned nil has deregistered the        *)
(* service, and drained it first when a grace period is set: no race of    *)
(* the three cases of its select, and no failed call, skips a step of the  *)
(* finish (agent.go:172-199, 248-274).  The one exception is a step that   *)
(* the sidecar declined with a 200: the code takes it for done             *)
(* (http_client.go:89, and DeclinedIsNotReplayed for the register call).   *)
CleanExit ==
    runPc = "returned" /\ setup.serve /\ setup.mode = "run" /\ result = "nil"
        => /\ deregistered \/ "deregister" \in refusals
           /\ setup.grace => drained \/ "drain" \in refusals

(* The server's failure is reported unless the context had ended, in which *)
(* case Run may have taken that case first (agent.go:174-197,267).         *)
ServeErrorReported ==
    runPc = "returned" /\ servePc = "failed" /\ result = "nil" => ~Live

(* With a grace period, Agent.Shutdown deregisters only what the sidecar   *)
(* has drained, or has declined to drain with a 200, which the code does   *)
(* not tell apart (agent.go:229-235, http_client.go:89): a failed drain    *)
(* leaves the service to be shut down again.                               *)
DeregisterAfterDrain ==
    [][deregistered' /\ ~deregistered /\ setup.grace
          => drained \/ "drain" \in refusals]_allVars

(* Run returns after the context ends, whatever the server does, and after *)
(* its server exits, also when the lifecycle channel has been closed and   *)
(* set to nil before (agent.go:169-203).                                   *)
RunReturns ==
    /\ ~Live /\ RunSelects ~> runPc = "returned"
    /\ servePc \in {"ok", "failed"} ~> runPc = "returned"

(* What the comment in Run says (agent.go:175): when the outer context     *)
(* ends, Run takes the finishing path, so it has deregistered the service  *)
(* or says which stage of the finish failed.                               *)
ContextEndFinishes ==
    runPc = "returned" /\ setup.mode = "run" /\ ~Live
        => deregistered \/ result \in {"shutdown", "agent_shutdown"}

(* What the comment in Shutdown says (agent.go:234): the deregister is the *)
(* final one, so the service does not come back after Run has returned.    *)
FinalDeregister ==
    runPc = "returned" /\ deregistered => instance # "registered"
=============================================================================
