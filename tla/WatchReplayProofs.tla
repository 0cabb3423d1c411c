-------------------------- MODULE WatchReplayProofs --------------------------
(***************************************************************************)
(* Proofs about the replay chain for every buffer size, every budget of    *)
(* faults and frames.  See WatchReplay for what the properties say.        *)
(***************************************************************************)
EXTENDS WatchReplay, TLAPS

(* What each critical section of the Controller returns is a status.       *)
LEMMA ControllerTypes ==
    ASSUME NEW s \in Statuses
    PROVE  /\ \A e \in Events, t \in Nat : ObserveEvent(s, e, t) \in Statuses
           /\ \A t \in Nat : OnConnected(s, t) \in Statuses
           /\ ReplayFailed(s) \in Statuses
           /\ \A t \in Nat : OnDisconnected(s, t) \in Statuses
           /\ \A k \in ErrorKinds : RecordError(s, k) \in Statuses
<1>1. ASSUME NEW e \in Events, NEW t \in Nat
      PROVE  ObserveEvent(s, e, t) \in Statuses
  <2>1. ASSUME NEW u \in Nat, NEW v \in Nat, NEW type \in EventTypes
        PROVE  [s EXCEPT !.lastEventType = type, !.lastConnectedAt = u,
                         !.lastDisconnectedAt = v] \in Statuses
    BY Zenon DEF Statuses
  <2>2. e.type \in EventTypes /\ s.lastConnectedAt \in Nat
        /\ s.lastDisconnectedAt \in Nat
    BY DEF Events, Statuses
  <2> QED
    BY <2>1, <2>2 DEF ObserveEvent
<1>2. ASSUME NEW t \in Nat PROVE OnConnected(s, t) \in Statuses
  <2>1. s.replayCount + 1 \in Nat
    BY DEF Statuses
  <2> QED
    BY <2>1, Zenon DEF OnConnected, Statuses
<1>3. ReplayFailed(s) \in Statuses
  <2>1. s.replayFailureCount + 1 \in Nat
    BY DEF Statuses
  <2> QED
    BY <2>1, Zenon DEF ReplayFailed, Statuses, ErrorKinds
<1>4. ASSUME NEW t \in Nat PROVE OnDisconnected(s, t) \in Statuses
  <2>1. s.disconnectCount + 1 \in Nat
    BY DEF Statuses
  <2> QED
    BY <2>1, Zenon DEF OnDisconnected, Statuses
<1>5. ASSUME NEW k \in ErrorKinds PROVE RecordError(s, k) \in Statuses
  BY Zenon DEF RecordError, Statuses
<1> QED
  BY <1>1, <1>2, <1>3, <1>4, <1>5

(* Now is a natural number, and what the source holds is an event.         *)
LEMMA EventFacts ==
    /\ TypeOK => Now \in Nat
    /\ \A t \in EventTypes : Event(t) \in Events
    /\ \A err \in WatchErrorKinds : Disconnect(err) \in Events
BY DEF TypeOK, Now, EventTypes, Event, Events, Disconnect

(* The numbers among the constants.                                        *)
LEMMA Bounds ==
    EventBuffer \in Nat \ {0} /\ MaxFrames \in Nat /\ MaxFaults \in Nat
BY WatchReplayAssumption

(* The counters of the environment stay within their bounds.               *)
LEMMA Budgets ==
    /\ TypeOK /\ Fault => faults' \in 0..MaxFaults
    /\ TypeOK /\ SomeFrame => frames' \in 0..MaxFrames
BY Bounds DEF TypeOK, Fault, SomeFrame

(* What watchOnce leaves behind, whatever its error.                       *)
LEMMA WatchReturnsTypes ==
    ASSUME NEW err \in WatchErrorKinds, WatchReturns(err)
    PROVE  /\ srcPc' = "returned" /\ pending' \in Events
           /\ stream' = "none" /\ greeted' \in BOOLEAN
BY EventFacts DEF WatchReturns

(* Sending on the events channel when it has room.                         *)
LEMMA SendTypes ==
    ASSUME TypeOK, Len(events) < EventBuffer
    PROVE  /\ Append(events, pending) \in Seq(Events)
           /\ Len(Append(events, pending)) <= EventBuffer
BY Bounds DEF TypeOK

(* The initial states are well typed.                                      *)
LEMMA InitTypeOK == Init => TypeOK
<1> SUFFICES ASSUME Init PROVE TypeOK
  OBVIOUS
<1>1. NewController \in Statuses
  <2>1. 0 \in Nat
    OBVIOUS
  <2> QED
    BY <2>1, Zenon DEF NewController, Statuses, ErrorKinds
<1>2. Event("heartbeat") \in Events
  BY EventFacts DEF EventTypes
<1>3. 0 \in 0..MaxFrames /\ 0 \in 0..MaxFaults
  BY Bounds
<1>4. events \in Seq(Events) /\ Len(events) <= EventBuffer
  BY Bounds DEF Init
<1>5. seen \in [EventTypes -> Nat]
  BY DEF Init
<1>6. watchURL \in {"blank", "url"}
  BY WatchReplayAssumption, Zenon DEF Init
<1> QED
  BY <1>1, <1>2, <1>3, <1>4, <1>5, <1>6 DEF Init, TypeOK, ErrorKinds

(* Every step of the source's goroutine keeps the types.                   *)
LEMMA SourceStepTypeOK == TypeOK /\ SourceStep => TypeOK'
<1> SUFFICES ASSUME TypeOK, SourceStep PROVE TypeOK'
  OBVIOUS
<1> USE DEF TypeOK, sourceVars, runnerVars, sidecarVars
<1>1. CASE SourceCheck
  BY <1>1 DEF SourceCheck, Live
<1>2. CASE SourceDialed
  BY <1>2 DEF SourceDialed
<1>3. CASE SourceDialFails
  <2>1. PICK err \in {"runtime_error", "watch_http_status"} : WatchReturns(err)
    BY <1>3 DEF SourceDialFails
  <2>2. err \in WatchErrorKinds
    BY DEF WatchErrorKinds
  <2>3. /\ srcPc' = "returned" /\ pending' \in Events
        /\ stream' = "none" /\ greeted' \in BOOLEAN
    BY <2>1, <2>2, WatchReturnsTypes
  <2>4. faults' \in 0..MaxFaults
    BY <1>3, Budgets DEF SourceDialFails
  <2> QED
    BY <1>3, <2>3, <2>4 DEF SourceDialFails
<1>4. CASE SourceReadsGreeting
  <2>1. Event("connected") \in Events
    BY EventFacts DEF EventTypes
  <2> QED
    BY <1>4, <2>1 DEF SourceReadsGreeting, SourceReads
<1>5. CASE SourceReadsFrame
  <2>1. PICK type \in {"connected", "heartbeat"} : SourceReads(type)
    BY <1>5 DEF SourceReadsFrame
  <2>2. Event(type) \in Events
    BY EventFacts DEF EventTypes
  <2>3. frames' \in 0..MaxFrames
    BY <1>5, Budgets DEF SourceReadsFrame
  <2>4. greeted' \in BOOLEAN
    BY <2>1 DEF SourceReads
  <2> QED
    BY <2>1, <2>2, <2>3, <2>4 DEF SourceReads
<1>6. CASE SourceReadsBadFrame
  <2>1. "watch_event_parse" \in WatchErrorKinds
    BY DEF WatchErrorKinds
  <2>2. /\ srcPc' = "returned" /\ pending' \in Events
        /\ stream' = "none" /\ greeted' \in BOOLEAN
    BY <1>6, <2>1, WatchReturnsTypes DEF SourceReadsBadFrame
  <2>3. faults' \in 0..MaxFaults
    BY <1>6, Budgets DEF SourceReadsBadFrame
  <2> QED
    BY <1>6, <2>2, <2>3 DEF SourceReadsBadFrame
<1>7. CASE SourceReadsEnd
  <2>1. PICK err \in {"watch_stream_closed", "runtime_error"} : WatchReturns(err)
    BY <1>7 DEF SourceReadsEnd
  <2>2. err \in WatchErrorKinds
    BY DEF WatchErrorKinds
  <2>3. /\ srcPc' = "returned" /\ pending' \in Events
        /\ stream' = "none" /\ greeted' \in BOOLEAN
    BY <2>1, <2>2, WatchReturnsTypes
  <2> QED
    BY <1>7, <2>3 DEF SourceReadsEnd
<1>8. CASE SourceAborts
  <2>1. "runtime_error" \in WatchErrorKinds
    BY DEF WatchErrorKinds
  <2>2. /\ srcPc' = "returned" /\ pending' \in Events
        /\ stream' = "none" /\ greeted' \in BOOLEAN
    BY <1>8, <2>1, WatchReturnsTypes DEF SourceAborts
  <2> QED
    BY <1>8, <2>2 DEF SourceAborts
<1>9. CASE SourceEmits
  BY <1>9, SendTypes DEF SourceEmits
<1>10. CASE SourceReturned
  BY <1>10 DEF SourceReturned, Live
<1>11. CASE SourceReports
  BY <1>11, SendTypes DEF SourceReports
<1>12. CASE SourceStops
  BY <1>12 DEF SourceStops
<1>13. CASE SourceRedials
  BY <1>13 DEF SourceRedials
<1> QED
  BY <1>1, <1>2, <1>3, <1>4, <1>5, <1>6, <1>7, <1>8, <1>9, <1>10, <1>11,
     <1>12, <1>13 DEF SourceStep

(* Every step of Run keeps the types.                                      *)
LEMMA RunnerStepTypeOK == TypeOK /\ RunnerStep => TypeOK'
<1> SUFFICES ASSUME TypeOK, RunnerStep PROVE TypeOK'
  OBVIOUS
<1> USE DEF TypeOK, sourceVars, runnerVars, sidecarVars
<1>0. Now \in Nat
  BY EventFacts
<1>1. CASE RunnerSubscribes
  BY <1>1 DEF RunnerSubscribes
<1>2. CASE RunnerSeesCtxDone
  BY <1>2 DEF RunnerSeesCtxDone, RunnerReturns, Live
<1>3. CASE RunnerSeesClosed
  BY <1>3 DEF RunnerSeesClosed, RunnerReturns
<1>4. CASE RunnerReceives
  <2> DEFINE event == Head(events)
  <2>1. event \in Events /\ Tail(events) \in Seq(Events)
        /\ Len(Tail(events)) = Len(events) - 1
    BY <1>4 DEF RunnerReceives
  <2>2. event.type \in EventTypes /\ event.err \in ErrorKinds
    BY <2>1 DEF Events, ErrorKinds
  <2>3. status' \in Statuses
    <3>1. status' = ObserveEvent(status, event, Now + 1)
      BY <1>4 DEF RunnerReceives
    <3>2. Now + 1 \in Nat
      BY <1>0
    <3>3. ObserveEvent(status, event, Now + 1) \in Statuses
      BY <2>1, <3>2, ControllerTypes
    <3> QED
      BY <3>1, <3>3
  <2>4. seen' \in [EventTypes -> Nat]
    BY <1>4, <2>2 DEF RunnerReceives
  <2>5. rnPc' \in {"select", "down", "register"}
    BY <1>4, <2>2 DEF RunnerReceives, EventTypes
  <2>6. call' \in {"none", "sent", "accepted", "declined", "failed"}
    BY <1>4 DEF RunnerReceives
  <2>7. events' \in Seq(Events) /\ Len(events') <= EventBuffer
    BY <1>4, <2>1, Bounds DEF RunnerReceives
  <2>8. rnErr' \in ErrorKinds
    BY <1>4, <2>2 DEF RunnerReceives
  <2>9. UNCHANGED <<ctx, watchURL, sourceVars, runResult, declined, stream,
                    greeted, orphans, instance, frames, faults>>
    BY <1>4 DEF RunnerReceives
  <2> QED
    BY <2>3, <2>4, <2>5, <2>6, <2>7, <2>8, <2>9
<1>5. CASE RunnerRegistered
  <2>1. status' \in Statuses
    BY <1>0, <1>5, ControllerTypes DEF RunnerRegistered
  <2>2. declined' \in BOOLEAN
    BY <1>5 DEF RunnerRegistered
  <2> QED
    BY <1>5, <2>1, <2>2 DEF RunnerRegistered
<1>6. CASE RunnerReplayFailed
  <2>1. ReplayFailed(status) \in Statuses
    BY ControllerTypes DEF Statuses
  <2> QED
    BY <1>6, <2>1 DEF RunnerReplayFailed, ErrorKinds
<1>7. CASE RunnerDown
  <2>1. status' \in Statuses
    BY <1>0, <1>7, ControllerTypes DEF RunnerDown
  <2>2. declined' \in BOOLEAN
    BY <1>7 DEF RunnerDown
  <2> QED
    BY <1>7, <2>1, <2>2 DEF RunnerDown
<1>8. CASE RunnerRecords
  <2>1. status' \in Statuses
    BY <1>8, ControllerTypes DEF RunnerRecords
  <2> QED
    BY <1>8, <2>1 DEF RunnerRecords
<1> QED
  BY <1>1, <1>2, <1>3, <1>4, <1>5, <1>6, <1>7, <1>8 DEF RunnerStep

(* Every step of the sidecar and the network keeps the types.              *)
LEMMA SidecarStepTypeOK == TypeOK /\ SidecarStep => TypeOK'
<1> SUFFICES ASSUME TypeOK, SidecarStep PROVE TypeOK'
  OBVIOUS
<1> USE DEF TypeOK, sidecarFrame, sourceVars, runnerVars, sidecarVars
<1>1. CASE SidecarAccepts
  BY <1>1 DEF SidecarAccepts
<1>2. CASE SidecarDeclines
  BY <1>2, Budgets DEF SidecarDeclines
<1>3. CASE CallFails
  BY <1>3, Budgets DEF CallFails
<1>4. CASE CallAbandoned
  BY <1>4, Budgets DEF CallAbandoned
<1>5. CASE OrphanArrives
  BY <1>5 DEF OrphanArrives
<1>6. CASE StreamBreaks
  BY <1>6, Budgets DEF StreamBreaks
<1>7. CASE SidecarRestarts
  BY <1>7, Budgets DEF SidecarRestarts
<1> QED
  BY <1>1, <1>2, <1>3, <1>4, <1>5, <1>6, <1>7 DEF SidecarStep

(* TypeOK is inductive.                                                    *)
LEMMA NextTypeOK == TypeOK /\ [Next]_vars => TypeOK'
<1> SUFFICES ASSUME TypeOK, [Next]_vars PROVE TypeOK'
  OBVIOUS
<1>1. CASE SourceStep
  BY <1>1, SourceStepTypeOK
<1>2. CASE RunnerStep
  BY <1>2, RunnerStepTypeOK
<1>3. CASE SidecarStep
  BY <1>3, SidecarStepTypeOK
<1>4. CASE CtxEnds
  BY <1>4 DEF CtxEnds, TypeOK, sourceVars, runnerVars, sidecarVars
<1>5. CASE UNCHANGED vars
  BY <1>5 DEF vars, TypeOK, sourceVars, runnerVars, sidecarVars
<1> QED
  BY <1>1, <1>2, <1>3, <1>4, <1>5 DEF Next

(* Type correctness: every variable keeps its type, and in particular the  *)
(* events channel never holds more than its capacity.                      *)
THEOREM TypeCorrect == Spec => []TypeOK
BY InitTypeOK, NextTypeOK, PTL DEF Spec

-----------------------------------------------------------------------------
(* Accounting.                                                             *)

(* The three counters of the status: only the section named for each of    *)
(* them moves it, by one.                                                  *)
Counts(s) == <<s.replayCount, s.replayFailureCount, s.disconnectCount>>

LEMMA ControllerCounts ==
    ASSUME NEW s \in Statuses
    PROVE  /\ \A e \in Events, t \in Nat : Counts(ObserveEvent(s, e, t)) = Counts(s)
           /\ \A t \in Nat : Counts(OnConnected(s, t)) =
                <<s.replayCount + 1, s.replayFailureCount, s.disconnectCount>>
           /\ Counts(ReplayFailed(s)) =
                <<s.replayCount, s.replayFailureCount + 1, s.disconnectCount>>
           /\ \A t \in Nat : Counts(OnDisconnected(s, t)) =
                <<s.replayCount, s.replayFailureCount, s.disconnectCount + 1>>
           /\ \A k \in ErrorKinds : Counts(RecordError(s, k)) = Counts(s)
<1>1. \A e \in Events, t \in Nat : Counts(ObserveEvent(s, e, t)) = Counts(s)
  BY DEF Counts, ObserveEvent, Statuses
<1>2. \A t \in Nat : Counts(OnConnected(s, t)) =
        <<s.replayCount + 1, s.replayFailureCount, s.disconnectCount>>
  BY Zenon DEF Counts, OnConnected, Statuses
<1>3. Counts(ReplayFailed(s)) =
        <<s.replayCount, s.replayFailureCount + 1, s.disconnectCount>>
  BY Zenon DEF Counts, ReplayFailed, Statuses
<1>4. \A t \in Nat : Counts(OnDisconnected(s, t)) =
        <<s.replayCount, s.replayFailureCount, s.disconnectCount + 1>>
  BY Zenon DEF Counts, OnDisconnected, Statuses
<1>5. \A k \in ErrorKinds : Counts(RecordError(s, k)) = Counts(s)
  BY Zenon DEF Counts, RecordError, Statuses
<1> QED
  BY <1>1, <1>2, <1>3, <1>4, <1>5
(* Only Run touches its own program counter, the status and the history.   *)
LEMMA OthersLeaveRunnerAlone ==
    SourceStep \/ SidecarStep \/ CtxEnds \/ UNCHANGED vars
        => UNCHANGED <<rnPc, status, seen>>
BY DEF SourceStep, SourceCheck, SourceDialed, SourceDialFails,
       SourceReadsGreeting, SourceReadsFrame, SourceReads,
       SourceReadsBadFrame, SourceReadsEnd, SourceAborts, SourceEmits,
       SourceReturned, SourceReports, SourceStops, SourceRedials,
       SidecarStep, SidecarAccepts, SidecarDeclines, CallFails,
       CallAbandoned, OrphanArrives, StreamBreaks, SidecarRestarts,
       CtxEnds, vars, runnerVars, sidecarFrame

(* The counters are numbers, so that the equations may be rearranged.      *)
LEMMA CountTypes ==
    ASSUME TypeOK
    PROVE  /\ status.replayCount \in Nat /\ status.replayFailureCount \in Nat
           /\ status.disconnectCount \in Nat
           /\ seen.connected \in Nat /\ seen.disconnected \in Nat
BY DEF TypeOK, Statuses, EventTypes

(* OnDisconnected runs once for each disconnect received and once for each *)
(* failed replay (runtime.go:120,127): the excess of the count over the    *)
(* disconnects is the number of failed replays.  This is the equation that *)
(* every step preserves.                                                   *)
DisconnectAccounting ==
    Disconnects = seen.disconnected + status.replayFailureCount

Accounting == ReplayAccounting /\ DisconnectAccounting

(* Nothing received, nothing counted.                                      *)
LEMMA InitAccounting == Init => Accounting
BY DEF Init, Accounting, ReplayAccounting, DisconnectAccounting,
       Disconnects, NewController, EventTypes

(* Every step of Run moves both sides of the two equations alike.          *)
LEMMA RunnerStepAccounting == TypeOK /\ Accounting /\ RunnerStep => Accounting'
<1> SUFFICES ASSUME TypeOK, Accounting, RunnerStep PROVE Accounting'
  OBVIOUS
<1> USE CountTypes DEF Accounting, ReplayAccounting, DisconnectAccounting,
                       Disconnects
<1>0. Now \in Nat /\ status \in Statuses
  BY EventFacts DEF TypeOK
<1>1. CASE RunnerSubscribes
  BY <1>1 DEF RunnerSubscribes
<1>2. CASE RunnerSeesCtxDone \/ RunnerSeesClosed
  BY <1>2 DEF RunnerSeesCtxDone, RunnerSeesClosed, RunnerReturns
<1>3. CASE RunnerReceives
  <2> DEFINE event == Head(events)
  <2>1. event \in Events
    BY <1>3 DEF TypeOK, RunnerReceives
  <2>2. Counts(status') = Counts(status)
    <3>1. status' = ObserveEvent(status, event, Now + 1) /\ Now + 1 \in Nat
      BY <1>0, <1>3 DEF RunnerReceives
    <3> QED
      BY <1>0, <2>1, <3>1, ControllerCounts
  <2>3. rnPc = "select" /\ seen \in [EventTypes -> Nat]
        /\ seen' = [seen EXCEPT ![event.type] = @ + 1]
    BY <1>3 DEF RunnerReceives, TypeOK
  <2>4. CASE event.type = "heartbeat"
    <3>1. rnPc' = "select"
      BY <1>3, <2>4 DEF RunnerReceives
    <3>2. seen'.connected = seen.connected
          /\ seen'.disconnected = seen.disconnected
      BY <2>3, <2>4 DEF EventTypes
    <3> QED
      BY <2>2, <2>3, <3>1, <3>2 DEF Counts
  <2>5. CASE event.type = "disconnected"
    <3>1. rnPc' = "down"
      BY <1>3, <2>5 DEF RunnerReceives
    <3>2. seen'.connected = seen.connected
          /\ seen'.disconnected = seen.disconnected + 1
      BY <2>3, <2>5 DEF EventTypes
    <3> QED
      BY <2>2, <2>3, <3>1, <3>2 DEF Counts
  <2>6. CASE event.type = "connected"
    <3>1. rnPc' = "register"
      BY <1>3, <2>6 DEF RunnerReceives
    <3>2. seen'.connected = seen.connected + 1
          /\ seen'.disconnected = seen.disconnected
      BY <2>3, <2>6 DEF EventTypes
    <3> QED
      BY <2>2, <2>3, <3>1, <3>2 DEF Counts
  <2> QED
    BY <2>1, <2>4, <2>5, <2>6 DEF Events, EventTypes
<1>4. CASE RunnerRegistered
  <2>1. Counts(status') = <<status.replayCount + 1, status.replayFailureCount,
                            status.disconnectCount>>
    BY <1>0, <1>4, ControllerCounts DEF RunnerRegistered
  <2>2. rnPc = "register" /\ rnPc' = "select" /\ seen' = seen
    BY <1>4 DEF RunnerRegistered
  <2> QED
    BY <2>1, <2>2 DEF Counts
<1>5. CASE RunnerReplayFailed
  <2>1. Counts(status') = <<status.replayCount, status.replayFailureCount + 1,
                            status.disconnectCount>>
    BY <1>0, <1>5, ControllerCounts DEF RunnerReplayFailed
  <2>2. rnPc = "register" /\ rnPc' = "down" /\ seen' = seen
    BY <1>5 DEF RunnerReplayFailed
  <2> QED
    BY <2>1, <2>2 DEF Counts
<1>6. CASE RunnerDown
  <2>1. Counts(status') = <<status.replayCount, status.replayFailureCount,
                            status.disconnectCount + 1>>
    BY <1>0, <1>6, ControllerCounts DEF RunnerDown
  <2>2. rnPc = "down" /\ rnPc' = "record" /\ seen' = seen
    BY <1>6 DEF RunnerDown
  <2> QED
    BY <2>1, <2>2 DEF Counts
<1>7. CASE RunnerRecords
  <2>1. Counts(status') = Counts(status)
    <3>1. rnErr \in ErrorKinds
      BY DEF TypeOK
    <3> QED
      BY <1>0, <1>7, <3>1, ControllerCounts DEF RunnerRecords
  <2>2. rnPc = "record" /\ rnPc' = "select" /\ seen' = seen
    BY <1>7 DEF RunnerRecords
  <2> QED
    BY <2>1, <2>2 DEF Counts
<1> QED
  BY <1>1, <1>2, <1>3, <1>4, <1>5, <1>6, <1>7 DEF RunnerStep

(* The two equations are inductive.                                        *)
LEMMA NextAccounting == TypeOK /\ Accounting /\ [Next]_vars => Accounting'
<1> SUFFICES ASSUME TypeOK, Accounting, [Next]_vars PROVE Accounting'
  OBVIOUS
<1>1. CASE RunnerStep
  BY <1>1, RunnerStepAccounting
<1>2. CASE SourceStep \/ SidecarStep \/ CtxEnds \/ UNCHANGED vars
  BY <1>2, OthersLeaveRunnerAlone
     DEF Accounting, ReplayAccounting, DisconnectAccounting, Disconnects
<1> QED
  BY <1>1, <1>2 DEF Next

(* Whatever is cut, refused, lost or canceled, each connected event is     *)
(* counted once, as one successful replay or as one failure.               *)
THEOREM ReplaysCounted == Spec => []ReplayAccounting
<1>1. Accounting => ReplayAccounting
  BY DEF Accounting
<1> QED
  BY <1>1, InitAccounting, NextAccounting, TypeCorrect, PTL DEF Spec

(* No disconnect that Run has received goes uncounted, whatever is cut,    *)
(* lost or canceled, and none is counted that it has not received, until a *)
(* replay fails.                                                           *)
THEOREM DisconnectsCounted == Spec => []EveryDisconnectCounts
<1>1. TypeOK /\ Accounting => EveryDisconnectCounts
  BY CountTypes
     DEF Accounting, DisconnectAccounting, EveryDisconnectCounts, Disconnects
<1> QED
  BY <1>1, InitAccounting, NextAccounting, TypeCorrect, PTL DEF Spec
=============================================================================
