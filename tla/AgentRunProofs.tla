---------------------------- MODULE AgentRunProofs ----------------------------
(***************************************************************************)
(* Proofs about the Agent on top of the replay chain, for every setup,     *)
(* buffer size and budget of frames and faults.  The chain's own lemmas    *)
(* are those of WatchReplayProofs: a step of the Agent leaves the chain    *)
(* alone but for what a drain and a deregister do to the instance.         *)
(***************************************************************************)
EXTENDS AgentRun, WatchReplayProofs

(* The chain's steps and the environment's are steps of the chain.         *)
LEMMA ChainSteps ==
    ChainStep \/ EnvironmentStep => [Next]_vars /\ UNCHANGED agentVars
BY DEF ChainStep, EnvironmentStep, Next

(* No step brings an ended context back to life.                           *)
LEMMA ContextStaysEnded ==
    ASSUME [AgentNext]_allVars
    PROVE  Live' => Live
<1>1. CASE [Next]_vars
  <2>1. SourceStep \/ SidecarStep \/ UNCHANGED vars => ctx' = ctx
    BY DEF SourceStep, SourceCheck, SourceDialed, SourceDialFails,
           SourceReadsGreeting, SourceReadsFrame, SourceReads,
           SourceReadsBadFrame, SourceReadsEnd, SourceAborts, SourceEmits,
           SourceReturned, SourceReports, SourceStops, SourceRedials,
           SidecarStep, SidecarAccepts, SidecarDeclines, CallFails,
           CallAbandoned, OrphanArrives, StreamBreaks, SidecarRestarts,
           vars, sidecarFrame
  <2>2. RunnerStep => ctx' = ctx
    BY DEF RunnerStep, RunnerSubscribes, RunnerReturns, RunnerSeesCtxDone,
           RunnerSeesClosed, RunnerReceives, RunnerRegistered,
           RunnerReplayFailed, RunnerDown, RunnerRecords
  <2>3. CtxEnds => Live
    BY DEF CtxEnds
  <2>. QED  BY <1>1, <2>1, <2>2, <2>3 DEF Next, Live
<1>2. CASE ~(ChainStep \/ EnvironmentStep)
  <2>1. ctx' = ctx
    BY <1>2 DEF AgentNext, RunStep, LifecycleEnds, ServeReturns, AgentStarts,
                RunSeesCtxDone, RunSeesServeExit, RunSeesLifecycleError,
                RunSeesLifecycleClosed, ApplicationShutsDown,
                ShutdownFuncReturns, DrainAnswered, DrainDeclined, DrainFails,
                DeregisterAnswered, DeregisterDeclined, DeregisterFails,
                Finish, chainFrame, allVars, vars
  <2>. QED  BY <2>1 DEF Live
<1>. QED  BY <1>1, <1>2, ChainSteps

-----------------------------------------------------------------------------
(* The chain's invariants under the Agent.                                 *)

(* What the Agent's own steps leave of the chain.                          *)
LEMMA AgentLeavesChain ==
    ASSUME TypeOK, [AgentNext]_allVars, ~(ChainStep \/ EnvironmentStep)
    PROVE  /\ UNCHANGED chainFrame
           /\ instance' \in {"absent", "registered", "drained"}
           /\ faults' \in 0..MaxFaults
<1>. USE DEF chainFrame
<1>1. CASE DrainAnswered \/ DeregisterAnswered
  BY <1>1 DEF DrainAnswered, DeregisterAnswered, Drained, TypeOK
<1>2. CASE DrainFails \/ DeregisterFails \/ DrainDeclined \/ DeregisterDeclined
  <2>. USE DEF DrainFails, DeregisterFails, DrainDeclined, DeregisterDeclined
  <2>1. faults' \in 0..MaxFaults
    BY <1>2, Budgets
  <2>. QED  BY <1>2, <2>1 DEF Drained, TypeOK
<1>3. CASE UNCHANGED vars
  BY <1>3 DEF vars, TypeOK, sidecarVars
<1>4. \/ DrainAnswered \/ DeregisterAnswered \/ DrainFails \/ DeregisterFails
      \/ DrainDeclined \/ DeregisterDeclined \/ UNCHANGED vars
  BY DEF AgentNext, RunStep, LifecycleEnds, ServeReturns, AgentStarts,
         RunSeesCtxDone, RunSeesServeExit, RunSeesLifecycleError,
         RunSeesLifecycleClosed, ApplicationShutsDown, ShutdownFuncReturns,
         Finish, allVars
<1>. QED  BY <1>1, <1>2, <1>3, <1>4

LEMMA AgentKeepsChainTypes ==
    ASSUME TypeOK, [AgentNext]_allVars
    PROVE  TypeOK'
<1>1. CASE ChainStep \/ EnvironmentStep
  BY <1>1, ChainSteps, NextTypeOK
<1>2. CASE ~(ChainStep \/ EnvironmentStep)
  BY <1>2, AgentLeavesChain
     DEF TypeOK, chainFrame, sourceVars, runnerVars
<1>. QED  BY <1>1, <1>2

LEMMA AgentKeepsAccounting ==
    ASSUME TypeOK, Accounting, [AgentNext]_allVars
    PROVE  Accounting'
<1>1. CASE ChainStep \/ EnvironmentStep
  BY <1>1, ChainSteps, NextAccounting
<1>2. CASE ~(ChainStep \/ EnvironmentStep)
  BY <1>2, AgentLeavesChain
     DEF Accounting, ReplayAccounting, DisconnectAccounting, Disconnects,
         chainFrame, runnerVars
<1>. QED  BY <1>1, <1>2

(* Type correctness of the chain and the Agent together: the errors        *)
(* channel holds nothing but a wrapped error, whatever ended the chain.    *)
THEOREM AgentTypes == AgentSpec => []AgentTypeOK
<1>1. AgentInit => AgentTypeOK
  BY InitTypeOK, AgentRunAssumption DEF AgentInit, AgentTypeOK
<1>2. ASSUME AgentTypeOK, [AgentNext]_allVars PROVE AgentTypeOK'
  <2>1. TypeOK'
    BY <1>2, AgentKeepsChainTypes DEF AgentTypeOK
  <2>2. CASE ChainStep \/ EnvironmentStep
    <3>1. UNCHANGED <<setup, lifecycle, watchesLc, servePc, runPc, serveErr,
                      result, drained, deregistered, refusals>>
      BY <2>2, ChainSteps DEF agentVars, finishVars
    <3>. QED  BY <1>2, <2>1, <3>1 DEF AgentTypeOK
  <2>3. CASE ~(ChainStep \/ EnvironmentStep)
    <3>. USE DEF AgentNext, RunStep, LifecycleEnds, ServeReturns, AgentStarts,
                 RunSeesCtxDone, RunSeesServeExit, RunSeesLifecycleError,
                 RunSeesLifecycleClosed, ApplicationShutsDown,
                 ShutdownFuncReturns, DrainAnswered, DrainDeclined,
                 DrainFails, DeregisterAnswered, DeregisterDeclined,
                 DeregisterFails, Finish, Finished, Returns, allVars,
                 agentVars, finishVars
    <3>1. /\ refusals' \subseteq {"drain", "deregister"}
          /\ drained' \in BOOLEAN /\ deregistered' \in BOOLEAN
      BY <1>2, <2>3 DEF AgentTypeOK
    <3>2. /\ setup' \in Setup
          /\ lifecycle' \in {"open", "error", "closed"}
          /\ watchesLc' \in BOOLEAN
          /\ servePc' \in {"off", "running", "ok", "failed"}
          /\ runPc' \in {"start", "select", "shutdown", "drain",
                          "deregister", "returned"}
      BY <1>2, <2>3 DEF AgentTypeOK
    <3>3. /\ serveErr' \in {"none", "failed"}
          /\ result' \in {"none", "nil", "lifecycle", "shutdown",
                          "agent_shutdown", "serve"}
      BY <1>2, <2>3 DEF AgentTypeOK
    <3>. QED  BY <2>1, <3>1, <3>2, <3>3 DEF AgentTypeOK
  <2>. QED  BY <2>2, <2>3
<1>. QED  BY <1>1, <1>2, PTL DEF AgentSpec

(* Drain, deregister and the end of the chain do not disturb the     *)
(* count of the replays (controller.go:58-105).                            *)
THEOREM AgentCountsReplays == AgentSpec => []ReplayAccounting
<1>1. AgentInit => TypeOK /\ Accounting
  BY InitTypeOK, InitAccounting DEF AgentInit
<1>2. TypeOK /\ [AgentNext]_allVars => TypeOK'
  BY AgentKeepsChainTypes
<1>3. TypeOK /\ Accounting /\ [AgentNext]_allVars => Accounting'
  BY AgentKeepsAccounting
<1>4. Accounting => ReplayAccounting
  BY DEF Accounting
<1>. QED  BY <1>1, <1>2, <1>3, <1>4, PTL DEF AgentSpec

-----------------------------------------------------------------------------
(* Run's way out.                                                          *)

Hosted == setup.mode = "run" /\ setup.serve
Finishing == runPc \in {"shutdown", "drain", "deregister"}
Clean == runPc = "returned" /\ result = "nil"

(* What the sidecar has answered with 200: done, or declined.              *)
DrainOver == drained \/ "drain" \in refusals
DeregisterOver == deregistered \/ "deregister" \in refusals

(* The inductive invariant: there is a server exactly when Run hosts one;  *)
(* what the finish has done so far; and a finish that has forgotten a      *)
(* server that is not over comes from the context's end.                   *)
ServerPart ==
    /\ setup.mode = "start" => servePc = "off"
    /\ Hosted /\ runPc # "start" => servePc # "off"
FinishPart ==
    /\ runPc = "deregister" /\ setup.grace => DrainOver
    /\ Clean /\ Hosted => DeregisterOver /\ (setup.grace => DrainOver)
ErrorPart ==
    /\ runPc \in {"start", "select"} => serveErr = "none"
    /\ Clean => serveErr # "failed"
    /\ serveErr \in {"none", "failed"}
    /\ (Finishing \/ Clean) /\ serveErr = "none"
         /\ servePc \in {"running", "failed"} => ~Live
AgentInv == ServerPart /\ FinishPart /\ ErrorPart

LEMMA InitAgentInv == AgentInit => AgentInv
BY DEF AgentInit, AgentInv, ServerPart, FinishPart, ErrorPart, Finishing, Clean

(* A step that moves neither Run nor the server.                           *)
LEMMA AgentInvIdle ==
    ASSUME AgentInv, Live' => Live,
           UNCHANGED <<setup, servePc, runPc, serveErr, result, finishVars>>
    PROVE  AgentInv'
BY DEF AgentInv, ServerPart, FinishPart, ErrorPart, Finishing, Clean, Hosted,
       DrainOver, DeregisterOver, finishVars

LEMMA NextAgentInv ==
    ASSUME AgentInv, [AgentNext]_allVars
    PROVE  AgentInv'
<1>0. Live' => Live
  BY ContextStaysEnded
<1>. USE DEF AgentInv, ServerPart, FinishPart, ErrorPart, Finishing, Clean,
             Hosted, DrainOver, DeregisterOver, finishVars
<1>1. CASE ChainStep \/ EnvironmentStep
  BY <1>0, <1>1, ChainSteps, AgentInvIdle DEF agentVars
<1>2. CASE LifecycleEnds \/ UNCHANGED allVars
  BY <1>0, <1>2, AgentInvIdle DEF LifecycleEnds, allVars, agentVars
<1>3. CASE ServeReturns
  BY <1>0, <1>3 DEF ServeReturns
<1>4. CASE AgentStarts
  BY <1>0, <1>4 DEF AgentStarts
<1>5. CASE RunSeesCtxDone
  <2>1. ~Live'
    BY <1>0, <1>5 DEF RunSeesCtxDone
  <2>. QED  BY <1>5, <2>1 DEF RunSeesCtxDone, RunSelects, Finish
<1>6. CASE RunSeesServeExit
  BY <1>0, <1>6 DEF RunSeesServeExit, RunSelects, Finish
<1>7. CASE RunSeesLifecycleError
  BY <1>0, <1>7 DEF RunSeesLifecycleError, RunSelects, Returns
<1>8. CASE RunSeesLifecycleClosed
  BY <1>0, <1>8 DEF RunSeesLifecycleClosed, RunSelects, Returns
<1>9. CASE ApplicationShutsDown
  BY <1>0, <1>9 DEF ApplicationShutsDown
<1>10. CASE ShutdownFuncReturns
  BY <1>0, <1>10 DEF ShutdownFuncReturns, Returns
<1>11. CASE DrainAnswered
  BY <1>0, <1>11 DEF DrainAnswered
<1>12. CASE DrainDeclined
  BY <1>0, <1>12 DEF DrainDeclined
<1>13. CASE DrainFails
  BY <1>0, <1>13 DEF DrainFails, Returns
<1>14. CASE DeregisterAnswered
  BY <1>0, <1>14 DEF DeregisterAnswered, Finished, Returns
<1>15. CASE DeregisterDeclined
  BY <1>0, <1>15 DEF DeregisterDeclined, Finished, Returns
<1>16. CASE DeregisterFails
  BY <1>0, <1>16 DEF DeregisterFails, Returns
<1>. QED
  BY <1>1, <1>2, <1>3, <1>4, <1>5, <1>6, <1>7, <1>8, <1>9, <1>10, <1>11,
     <1>12, <1>13, <1>14, <1>15, <1>16 DEF AgentNext, RunStep

LEMMA AgentInvHolds == AgentSpec => []AgentInv
<1>1. AgentInv /\ [AgentNext]_allVars => AgentInv'
  BY NextAgentInv
<1>. QED  BY <1>1, InitAgentInv, PTL DEF AgentSpec

(* A Run that hosted a server and returned nil has had its deregister     *)
(* answered with 200, and its drain before when there is a grace period,   *)
(* whichever cases of its select were ready together: each was done or     *)
(* declined (agent.go:172-199, 248-274, http_client.go:89).                *)
THEOREM HostedRunExitsClean == AgentSpec => []CleanExit
<1>1. AgentInv => CleanExit
  BY DEF AgentInv, FinishPart, Clean, Hosted, DrainOver, DeregisterOver,
         CleanExit
<1>. QED  BY <1>1, AgentInvHolds, PTL

(* While the sidecar declines nothing, such a Run has deregistered the     *)
(* service, after the drain (agent.go:172-199, 248-274).                   *)
THEOREM UndeclinedRunDeregisters ==
    AgentSpec => [](~SidecarMayDecline /\ Clean /\ Hosted
                       => deregistered /\ (setup.grace => drained))
<1>. DEFINE NoRefusal == ~SidecarMayDecline => refusals = {}
<1>1. AgentInit => NoRefusal
  BY DEF AgentInit
<1>2. ASSUME NoRefusal, [AgentNext]_allVars PROVE NoRefusal'
  BY <1>2
     DEF AgentNext, RunStep, ChainStep, EnvironmentStep, LifecycleEnds,
         ServeReturns, AgentStarts, RunSeesCtxDone, RunSeesServeExit,
         RunSeesLifecycleError, RunSeesLifecycleClosed, ApplicationShutsDown,
         ShutdownFuncReturns, DrainAnswered, DrainDeclined, DrainFails,
         DeregisterAnswered, DeregisterDeclined, DeregisterFails, Finish,
         allVars, agentVars, finishVars
<1>3. NoRefusal /\ CleanExit
        => (~SidecarMayDecline /\ Clean /\ Hosted
               => deregistered /\ (setup.grace => drained))
  BY DEF CleanExit, Clean, Hosted
<1>. QED
  <2>. HIDE DEF NoRefusal
  <2>. QED  BY <1>1, <1>2, <1>3, HostedRunExitsClean, PTL DEF AgentSpec

(* Run returns nil after a failure of the server only when the context had *)
(* ended (agent.go:174-197, 267-272).                                      *)
THEOREM ServeFailureReported == AgentSpec => []ServeErrorReported
<1>1. AgentInv => ServeErrorReported
  BY DEF AgentInv, ErrorPart, Clean, ServeErrorReported
<1>. QED  BY <1>1, AgentInvHolds, PTL

(* With a grace period nothing is deregistered before its drain has been   *)
(* answered with 200, done or declined (agent.go:229-235,                  *)
(* http_client.go:89).                                                     *)
THEOREM DrainComesFirst == AgentSpec => DeregisterAfterDrain
<1>1. ASSUME AgentInv, [AgentNext]_allVars
      PROVE  [deregistered' /\ ~deregistered /\ setup.grace
                 => drained \/ "drain" \in refusals]_allVars
  <2>1. CASE DeregisterAnswered
    BY <1>1, <2>1 DEF DeregisterAnswered, AgentInv, FinishPart, DrainOver
  <2>2. CASE ~DeregisterAnswered
    <3>1. deregistered' = deregistered
      BY <1>1, <2>2
         DEF AgentNext, RunStep, ChainStep, EnvironmentStep, LifecycleEnds,
             ServeReturns, AgentStarts, RunSeesCtxDone, RunSeesServeExit,
             RunSeesLifecycleError, RunSeesLifecycleClosed,
             ApplicationShutsDown, ShutdownFuncReturns, DrainAnswered,
             DrainDeclined, DrainFails, DeregisterDeclined, DeregisterFails,
             Finish, allVars, agentVars, finishVars
    <3>. QED  BY <3>1
  <2>. QED  BY <2>1, <2>2
<1>. QED  BY <1>1, AgentInvHolds, PTL DEF AgentSpec, DeregisterAfterDrain
=============================================================================
