------------------------ MODULE WatchReplayLossProofs ------------------------
(***************************************************************************)
(* The replay chain never leaves a lost registration uncorrected: ChainInv *)
(* is inductive for every buffer size and every number of frames, faults   *)
(* and restarts, and NoSilentLoss and NoStaleConnection follow from it.    *)
(* From it too the chain implements Replay: every step of the source, of   *)
(* Run, of the sidecar and of the context is a step of Replay or a stutter.*)
(***************************************************************************)
EXTENDS WatchReplayProofs

Queued(q) == \E i \in DOMAIN q : q[i].type = "disconnected"
Last(q)   == q[Len(q)]

(* What sending an event does to the queue.                                *)
LEMMA AppendFacts ==
    ASSUME NEW q \in Seq(Events), NEW e \in Events
    PROVE  /\ Append(q, e) # <<>> /\ Last(Append(q, e)) = e
           /\ Queued(q) => Queued(Append(q, e))
<1>1. Append(q, e) # <<>> /\ Last(Append(q, e)) = e
  BY DEF Last
<1>2. ASSUME Queued(q) PROVE Queued(Append(q, e))
  <2>1. PICK i \in DOMAIN q : q[i].type = "disconnected"
    BY <1>2 DEF Queued
  <2>2. i \in DOMAIN Append(q, e) /\ Append(q, e)[i] = q[i]
    OBVIOUS
  <2> QED
    BY <2>1, <2>2 DEF Queued
<1> QED
  BY <1>1, <1>2

(* What receiving an event does to it.                                     *)
LEMMA TailFacts ==
    ASSUME NEW q \in Seq(Events), q # <<>>
    PROVE  /\ Tail(q) = <<>> => Last(q) = Head(q)
           /\ Tail(q) # <<>> => Last(Tail(q)) = Last(q)
           /\ Queued(q) => Head(q).type = "disconnected" \/ Queued(Tail(q))
           /\ Last(q).type = "disconnected" => Queued(q)
<1>0. Tail(q) \in Seq(Events) /\ Len(Tail(q)) = Len(q) - 1
  OBVIOUS
<1>1. Tail(q) = <<>> => Last(q) = Head(q)
  <2>1. Tail(q) = <<>> => Len(q) = 1
    BY <1>0
  <2> QED
    BY <2>1 DEF Last
<1>2. Tail(q) # <<>> => Last(Tail(q)) = Last(q)
  BY DEF Last
<1>3. ASSUME Queued(q), Head(q).type # "disconnected" PROVE Queued(Tail(q))
  <2>1. PICK i \in DOMAIN q : q[i].type = "disconnected"
    BY <1>3 DEF Queued
  <2>2. i # 1
    BY <1>3, <2>1
  <2>3. i - 1 \in DOMAIN Tail(q) /\ Tail(q)[i - 1] = q[i]
    BY <2>2
  <2> QED
    BY <2>1, <2>3 DEF Queued
<1>4. ASSUME Last(q).type = "disconnected" PROVE Queued(q)
  <2>1. Len(q) \in DOMAIN q
    OBVIOUS
  <2> QED
    BY <1>4, <2>1 DEF Queued, Last
<1> QED
  BY <1>1, <1>2, <1>3, <1>4

(* Which sections of the Controller move its two flags.                    *)
LEMMA ControllerFlags ==
    ASSUME NEW s \in Statuses
    PROVE  /\ \A e \in Events, t \in Nat :
                /\ ObserveEvent(s, e, t).registered = s.registered
                /\ ObserveEvent(s, e, t).connected = s.connected
           /\ \A t \in Nat : /\ OnDisconnected(s, t).registered = FALSE
                             /\ OnDisconnected(s, t).connected = FALSE
           /\ ReplayFailed(s).registered = s.registered
           /\ ReplayFailed(s).connected = s.connected
           /\ \A k : /\ RecordError(s, k).registered = s.registered
                     /\ RecordError(s, k).connected = s.connected
<1>1. ASSUME NEW e \in Events, NEW t \in Nat
      PROVE  /\ ObserveEvent(s, e, t).registered = s.registered
             /\ ObserveEvent(s, e, t).connected = s.connected
  BY Zenon DEF ObserveEvent, Statuses
<1>2. ASSUME NEW t \in Nat
      PROVE  /\ OnDisconnected(s, t).registered = FALSE
             /\ OnDisconnected(s, t).connected = FALSE
  BY Zenon DEF OnDisconnected, Statuses
<1>3. /\ ReplayFailed(s).registered = s.registered
      /\ ReplayFailed(s).connected = s.connected
  BY Zenon DEF ReplayFailed, Statuses
<1>4. ASSUME NEW k
      PROVE  /\ RecordError(s, k).registered = s.registered
             /\ RecordError(s, k).connected = s.connected
  BY Zenon DEF RecordError, Statuses
<1> QED
  BY <1>1, <1>2, <1>3, <1>4

(* Before Run subscribes there is neither stream, call nor event.          *)
LEMMA InitChain == Init => ChainInv
BY DEF Init, ChainInv, StreamWhileReading, CallWhileRegistering,
       HoldsDisconnectAfterWatch, DoneAfterCtx, SubscribedOnce,
       CleanBetweenStreams, EndsInDisconnect, Down, LossPending, Believed,
       NewController

(* A return of watchOnce leaves a disconnect pending.                      *)
LEMMA WatchReturnsChain ==
    ASSUME NEW err \in WatchErrorKinds, WatchReturns(err),
           srcPc # "none", ChainInv, UNCHANGED <<runnerVars, sidecarVars>>
    PROVE  ChainInv'
<1> USE DEF runnerVars, sidecarVars, WatchReturns, Disconnect, Believed
<1>1. StreamWhileReading' /\ CallWhileRegistering' /\ DoneAfterCtx'
      /\ HoldsDisconnectAfterWatch' /\ SubscribedOnce'
  BY DEF ChainInv, StreamWhileReading, CallWhileRegistering, DoneAfterCtx,
         HoldsDisconnectAfterWatch, SubscribedOnce
<1>2. CleanBetweenStreams'
  BY DEF CleanBetweenStreams
<1>3. LossPending'
  BY DEF LossPending, DisconnectPending
<1> QED
  BY <1>1, <1>2, <1>3 DEF ChainInv

(* Every step of the source's goroutine preserves the invariant.           *)
LEMMA SourceStepChain == TypeOK /\ ChainInv /\ SourceStep => ChainInv'
<1> SUFFICES ASSUME TypeOK, ChainInv, SourceStep PROVE ChainInv'
  OBVIOUS
<1> USE DEF runnerVars, sidecarVars, Live, Believed
<1> DEFINE Parts == /\ StreamWhileReading /\ CallWhileRegistering
                    /\ HoldsDisconnectAfterWatch /\ DoneAfterCtx
                    /\ SubscribedOnce
<1>0. events \in Seq(Events) /\ pending \in Events
  BY DEF TypeOK
<1>1. CASE SourceCheck
  <2>1. Parts'
    BY <1>1 DEF SourceCheck, ChainInv, StreamWhileReading,
       CallWhileRegistering, HoldsDisconnectAfterWatch, DoneAfterCtx,
       SubscribedOnce
  <2>2. CleanBetweenStreams'
    BY <1>1 DEF SourceCheck, ChainInv, CleanBetweenStreams, EndsInDisconnect,
       Down
  <2>3. LossPending'
    BY <1>1 DEF SourceCheck, ChainInv, LossPending, DisconnectPending
  <2> QED
    BY <2>1, <2>2, <2>3 DEF ChainInv
<1>2. CASE SourceDialed
  <2>1. Parts'
    BY <1>2 DEF SourceDialed, ChainInv, StreamWhileReading,
       CallWhileRegistering, HoldsDisconnectAfterWatch, DoneAfterCtx,
       SubscribedOnce
  <2>2. CleanBetweenStreams'
    BY <1>2 DEF SourceDialed, CleanBetweenStreams
  <2>3. LossPending'
    BY <1>2 DEF SourceDialed, ChainInv, StreamWhileReading, LossPending,
       DisconnectPending
  <2> QED
    BY <2>1, <2>2, <2>3 DEF ChainInv
<1>3. CASE SourceDialFails \/ SourceReadsBadFrame \/ SourceReadsEnd
           \/ SourceAborts
  <2>1. \E err \in WatchErrorKinds : WatchReturns(err)
    BY <1>3 DEF SourceDialFails, SourceReadsBadFrame, SourceReadsEnd,
       SourceAborts, WatchErrorKinds
  <2>2. srcPc # "none" /\ UNCHANGED <<runnerVars, sidecarVars>>
    BY <1>3 DEF SourceDialFails, SourceReadsBadFrame, SourceReadsEnd,
       SourceAborts
  <2> QED
    BY <2>1, <2>2, WatchReturnsChain
<1>4. CASE SourceReadsGreeting \/ SourceReadsFrame
  <2>1. PICK type \in {"connected", "heartbeat"} : SourceReads(type)
    BY <1>4 DEF SourceReadsGreeting, SourceReadsFrame
  <2>2. Parts'
    BY <2>1 DEF SourceReads, Event, ChainInv, StreamWhileReading,
       CallWhileRegistering, HoldsDisconnectAfterWatch, DoneAfterCtx,
       SubscribedOnce
  <2>3. CleanBetweenStreams'
    BY <2>1 DEF SourceReads, CleanBetweenStreams
  <2>4. LossPending'
    BY <2>1 DEF SourceReads, ChainInv, LossPending, DisconnectPending
  <2> QED
    BY <2>2, <2>3, <2>4 DEF ChainInv
<1>5. CASE SourceEmits
  <2>1. Parts'
    BY <1>5 DEF SourceEmits, ChainInv, StreamWhileReading,
       CallWhileRegistering, HoldsDisconnectAfterWatch, DoneAfterCtx,
       SubscribedOnce
  <2>2. CleanBetweenStreams'
    BY <1>5 DEF SourceEmits, CleanBetweenStreams
  <2>3. LossPending'
    <3>1. Queued(events) => Queued(events')
      BY <1>0, <1>5, AppendFacts DEF SourceEmits
    <3> QED
      BY <1>5, <3>1
         DEF SourceEmits, ChainInv, LossPending, DisconnectPending, Queued
  <2> QED
    BY <2>1, <2>2, <2>3 DEF ChainInv
<1>6. CASE SourceReturned
  <2>1. Parts'
    BY <1>6 DEF SourceReturned, ChainInv, StreamWhileReading,
       CallWhileRegistering, HoldsDisconnectAfterWatch, DoneAfterCtx,
       SubscribedOnce
  <2>2. CleanBetweenStreams'
    BY <1>6 DEF SourceReturned, CleanBetweenStreams
  <2>3. LossPending'
    BY <1>6 DEF SourceReturned, LossPending, DisconnectPending
  <2> QED
    BY <2>1, <2>2, <2>3 DEF ChainInv
<1>7. CASE SourceReports
  <2>0. /\ events' # <<>> /\ Last(events').type = "disconnected"
        /\ Queued(events')
    <3>1. pending.type = "disconnected" /\ events' = Append(events, pending)
      BY <1>7 DEF SourceReports, ChainInv, HoldsDisconnectAfterWatch
    <3>2. events' # <<>> /\ Last(events') = pending /\ events' \in Seq(Events)
      BY <1>0, <3>1, AppendFacts
    <3> QED
      BY <3>1, <3>2, TailFacts
  <2>1. Parts'
    BY <1>7 DEF SourceReports, ChainInv, StreamWhileReading,
       CallWhileRegistering, HoldsDisconnectAfterWatch, DoneAfterCtx,
       SubscribedOnce
  <2>2. CleanBetweenStreams'
    BY <2>0 DEF CleanBetweenStreams, EndsInDisconnect, Last
  <2>3. LossPending'
    BY <2>0 DEF LossPending, DisconnectPending, Queued
  <2> QED
    BY <2>1, <2>2, <2>3 DEF ChainInv
<1>8. CASE SourceStops
  <2>1. Parts'
    BY <1>8 DEF SourceStops, ChainInv, StreamWhileReading,
       CallWhileRegistering, HoldsDisconnectAfterWatch, DoneAfterCtx,
       SubscribedOnce
  <2>2. CleanBetweenStreams' /\ LossPending'
    BY <1>8 DEF SourceStops, CleanBetweenStreams, LossPending
  <2> QED
    BY <2>1, <2>2 DEF ChainInv
<1>9. CASE SourceRedials
  <2>1. Parts'
    BY <1>9 DEF SourceRedials, ChainInv, StreamWhileReading,
       CallWhileRegistering, HoldsDisconnectAfterWatch, DoneAfterCtx,
       SubscribedOnce
  <2>2. CleanBetweenStreams'
    BY <1>9 DEF SourceRedials, ChainInv, CleanBetweenStreams,
       EndsInDisconnect, Down
  <2>3. LossPending'
    BY <1>9 DEF SourceRedials, ChainInv, LossPending, DisconnectPending
  <2> QED
    BY <2>1, <2>2, <2>3 DEF ChainInv
<1> QED
  BY <1>1, <1>2, <1>3, <1>4, <1>5, <1>6, <1>7, <1>8, <1>9 DEF SourceStep

(* Every step of Run preserves the invariant.                              *)
LEMMA RunnerStepChain == TypeOK /\ ChainInv /\ RunnerStep => ChainInv'
<1> SUFFICES ASSUME TypeOK, ChainInv, RunnerStep PROVE ChainInv'
  OBVIOUS
<1> USE DEF sourceVars, sidecarVars, Live, Believed
<1> DEFINE Parts == /\ StreamWhileReading /\ CallWhileRegistering
                    /\ HoldsDisconnectAfterWatch /\ DoneAfterCtx
                    /\ SubscribedOnce
<1>0. Now \in Nat /\ status \in Statuses
  BY EventFacts DEF TypeOK
<1>1. CASE RunnerSubscribes
  <2>1. Parts'
    BY <1>1 DEF RunnerSubscribes, ChainInv, StreamWhileReading,
       CallWhileRegistering, HoldsDisconnectAfterWatch, DoneAfterCtx,
       SubscribedOnce
  <2>0. /\ rnPc = "subscribe" /\ rnPc' # "down" /\ srcPc = "none"
        /\ srcPc' \in {"none", "check"}
        /\ UNCHANGED <<ctx, events, status, declined, stream, sidecarVars>>
    BY <1>1 DEF RunnerSubscribes, ChainInv, SubscribedOnce
  <2>2. CleanBetweenStreams'
    BY <2>0 DEF ChainInv, CleanBetweenStreams, EndsInDisconnect, Down
  <2>3. LossPending'
    BY <2>0 DEF ChainInv, LossPending, DisconnectPending
  <2> QED
    BY <2>1, <2>2, <2>3 DEF ChainInv
<1>2. CASE RunnerSeesCtxDone \/ RunnerSeesClosed
  <2>1. ~Live' /\ rnPc = "select" /\ rnPc' = "done"
        /\ UNCHANGED <<sourceVars, sidecarVars, stream>>
    BY <1>2 DEF RunnerSeesCtxDone, RunnerSeesClosed, RunnerReturns, ChainInv,
       DoneAfterCtx
  <2>2. Parts'
    BY <2>1 DEF ChainInv, StreamWhileReading, CallWhileRegistering,
       HoldsDisconnectAfterWatch, DoneAfterCtx, SubscribedOnce
  <2>3. CleanBetweenStreams' /\ LossPending'
    BY <2>1 DEF CleanBetweenStreams, LossPending
  <2> QED
    BY <2>2, <2>3 DEF ChainInv
<1>3. CASE RunnerReceives
  <2> DEFINE event == Head(events)
  <2>1. event \in Events /\ events \in Seq(Events) /\ events # <<>>
        /\ events' = Tail(events)
    BY <1>3 DEF TypeOK, RunnerReceives
  <2>2. status'.registered = status.registered
        /\ status'.connected = status.connected
    <3>1. status' = ObserveEvent(status, event, Now + 1) /\ Now + 1 \in Nat
      BY <1>0, <1>3 DEF RunnerReceives
    <3> QED
      BY <1>0, <2>1, <3>1, ControllerFlags
  <2>3. /\ rnPc = "select" /\ call = "none"
        /\ UNCHANGED <<ctx, sourceVars, declined, stream, instance>>
    BY <1>3 DEF RunnerReceives, ChainInv, CallWhileRegistering
  <2>4. /\ event.type = "disconnected" => rnPc' = "down"
        /\ event.type = "connected" <=> rnPc' = "register"
        /\ event.type = "connected" => call' \in {"sent", "failed"}
        /\ event.type # "connected" => call' = "none"
        /\ rnPc' # "subscribe"
    BY <1>3, <2>1, <2>3 DEF RunnerReceives, Events, EventTypes
  <2>5. Parts'
    BY <2>3, <2>4 DEF ChainInv, StreamWhileReading, CallWhileRegistering,
       HoldsDisconnectAfterWatch, DoneAfterCtx, SubscribedOnce
  <2>6. CleanBetweenStreams'
    <3>1. /\ Tail(events) = <<>> => Last(events) = event
          /\ Tail(events) # <<>> => Last(Tail(events)) = Last(events)
      BY <2>1, TailFacts
    <3>2. CleanBetweenStreams
      BY DEF ChainInv
    <3> QED
      BY <2>1, <2>3, <2>4, <3>1, <3>2
         DEF CleanBetweenStreams, EndsInDisconnect, Last
  <2>7. LossPending'
    <3>1. Queued(events) => event.type = "disconnected" \/ Queued(events')
      BY <2>1, TailFacts
    <3>2. Queued(events) => rnPc' = "down" \/ Queued(events')
      BY <2>4, <3>1
    <3>3. Live /\ Believed /\ instance # "registered"
            => \/ stream = "broken" \/ srcPc \in {"returned", "report"}
               \/ Queued(events)
      BY <2>3 DEF ChainInv, LossPending, DisconnectPending, Queued
    <3> QED
      BY <2>2, <2>3, <2>4, <3>2, <3>3
         DEF LossPending, DisconnectPending, Queued
  <2> QED
    BY <2>5, <2>6, <2>7 DEF ChainInv
<1>4. CASE RunnerRegistered
  <2>1. call \in {"accepted", "declined"} /\ call' = "none"
        /\ rnPc = "register" /\ rnPc' = "select"
        /\ UNCHANGED <<ctx, sourceVars, events, stream, instance>>
    BY <1>4 DEF RunnerRegistered
  <2>0. declined' = (call = "declined")
    BY <1>4 DEF RunnerRegistered
  <2>2. Parts'
    BY <2>1 DEF ChainInv, StreamWhileReading, CallWhileRegistering,
       HoldsDisconnectAfterWatch, DoneAfterCtx, SubscribedOnce
  <2>3. CleanBetweenStreams'
    BY <2>1 DEF ChainInv, CleanBetweenStreams, EndsInDisconnect, Down
  <2>4. LossPending'
    <3>1. CASE call = "accepted"
      BY <2>1, <3>1 DEF ChainInv, LossPending, DisconnectPending
    <3>2. CASE call = "declined"
      BY <2>1, <2>0, <3>2 DEF LossPending, Believed
    <3> QED
      BY <2>1, <3>1, <3>2
  <2> QED
    BY <2>2, <2>3, <2>4 DEF ChainInv
<1>5. CASE RunnerReplayFailed
  <2>1. rnPc' = "down" /\ call' = "none"
        /\ UNCHANGED <<ctx, sourceVars, events, stream, instance>>
    BY <1>5 DEF RunnerReplayFailed
  <2>2. Parts'
    BY <2>1 DEF ChainInv, StreamWhileReading, CallWhileRegistering,
       HoldsDisconnectAfterWatch, DoneAfterCtx, SubscribedOnce
  <2>3. CleanBetweenStreams'
    BY <2>1 DEF ChainInv, CleanBetweenStreams, EndsInDisconnect
  <2>4. LossPending'
    BY <2>1 DEF LossPending, DisconnectPending
  <2> QED
    BY <2>2, <2>3, <2>4 DEF ChainInv
<1>6. CASE RunnerDown
  <2>1. rnPc' = "record" /\ call' = "none"
        /\ UNCHANGED <<ctx, sourceVars, events, stream, instance>>
    BY <1>6 DEF RunnerDown, ChainInv, CallWhileRegistering
  <2>2. status'.registered = FALSE /\ status'.connected = FALSE
    BY <1>0, <1>6, ControllerFlags DEF RunnerDown
  <2>3. Parts'
    BY <2>1 DEF ChainInv, StreamWhileReading, CallWhileRegistering,
       HoldsDisconnectAfterWatch, DoneAfterCtx, SubscribedOnce
  <2>4. CleanBetweenStreams'
    BY <2>1, <2>2 DEF ChainInv, CleanBetweenStreams, EndsInDisconnect, Down
  <2>5. LossPending'
    BY <2>1, <2>2 DEF LossPending
  <2> QED
    BY <2>3, <2>4, <2>5 DEF ChainInv
<1>7. CASE RunnerRecords
  <2>1. rnPc = "record" /\ rnPc' = "select"
        /\ UNCHANGED <<ctx, sourceVars, events, declined, stream, instance,
                       call>>
    BY <1>7 DEF RunnerRecords
  <2>2. status'.registered = status.registered
        /\ status'.connected = status.connected
    BY <1>0, <1>7, ControllerFlags DEF RunnerRecords
  <2>3. Parts'
    BY <2>1 DEF ChainInv, StreamWhileReading, CallWhileRegistering,
       HoldsDisconnectAfterWatch, DoneAfterCtx, SubscribedOnce
  <2>4. CleanBetweenStreams'
    BY <2>1, <2>2 DEF ChainInv, CleanBetweenStreams, EndsInDisconnect, Down
  <2>5. LossPending'
    BY <2>1, <2>2 DEF ChainInv, LossPending, DisconnectPending
  <2> QED
    BY <2>3, <2>4, <2>5 DEF ChainInv
<1> QED
  BY <1>1, <1>2, <1>3, <1>4, <1>5, <1>6, <1>7 DEF RunnerStep

(* The sidecar touches neither the queue, nor the source, nor Run.         *)
LEMMA SidecarStepChain == TypeOK /\ ChainInv /\ SidecarStep => ChainInv'
<1> SUFFICES ASSUME TypeOK, ChainInv, SidecarStep PROVE ChainInv'
  OBVIOUS
<1> USE DEF sidecarFrame, sourceVars, runnerVars, Live, Believed
<1>1. UNCHANGED sidecarFrame
  BY DEF SidecarStep, SidecarAccepts, SidecarDeclines, CallFails,
     CallAbandoned, OrphanArrives, StreamBreaks, SidecarRestarts
<1>2. /\ stream' # "none" <=> stream # "none"
      /\ stream = "broken" => stream' = "broken"
      /\ call' # "none" <=> call # "none"
  BY DEF ChainInv, SidecarStep, SidecarAccepts, SidecarDeclines, CallFails,
     CallAbandoned, OrphanArrives, StreamBreaks, SidecarRestarts, sidecarVars
<1>3. /\ StreamWhileReading' /\ CallWhileRegistering' /\ DoneAfterCtx'
      /\ HoldsDisconnectAfterWatch' /\ SubscribedOnce'
  BY <1>1, <1>2 DEF ChainInv, StreamWhileReading, CallWhileRegistering,
     DoneAfterCtx, HoldsDisconnectAfterWatch, SubscribedOnce
<1>4. CleanBetweenStreams'
  BY <1>1, <1>2 DEF ChainInv, CleanBetweenStreams, EndsInDisconnect, Down
<1>5. DisconnectPending => DisconnectPending'
  BY <1>1, <1>2 DEF DisconnectPending
<1>6. LossPending'
  <2>1. CASE SidecarRestarts
    <3>1. stream = "open" => DisconnectPending'
      BY <2>1 DEF SidecarRestarts, DisconnectPending
    <3>2. stream \in {"open", "broken", "none"}
          /\ srcPc \in {"none", "check", "dial", "read", "emit", "returned",
                        "report", "backoff", "done"}
      BY DEF TypeOK
    <3>3. ASSUME Live, stream = "none", Believed \/ call = "accepted",
                 srcPc \notin {"returned", "report"}
          PROVE  DisconnectPending
      <4>1. EndsInDisconnect
        BY <3>2, <3>3 DEF ChainInv, StreamWhileReading, DoneAfterCtx,
           CleanBetweenStreams
      <4>2. CASE events = <<>>
        BY <3>3, <4>1, <4>2 DEF EndsInDisconnect, Down, DisconnectPending
      <4>3. CASE events # <<>>
        <5>1. events \in Seq(Events) /\ Last(events).type = "disconnected"
          BY <4>1, <4>3 DEF EndsInDisconnect, Last, TypeOK
        <5>2. Queued(events)
          BY <4>3, <5>1, TailFacts
        <5> QED
          BY <5>2 DEF DisconnectPending, Queued
      <4> QED
        BY <4>2, <4>3
    <3>4. ASSUME Live, Believed \/ call = "accepted"
          PROVE  DisconnectPending'
      BY <1>5, <3>1, <3>2, <3>3, <3>4 DEF DisconnectPending
    <3>5. call' = "accepted" => call = "accepted"
      BY <2>1 DEF SidecarRestarts
    <3> QED
      BY <1>1, <3>4, <3>5 DEF LossPending
  <2>2. CASE SidecarAccepts
    BY <2>2 DEF SidecarAccepts, LossPending
  <2>3. CASE ~SidecarRestarts /\ ~SidecarAccepts
    <3>1. call' = "accepted" => call = "accepted"
      BY <2>3 DEF SidecarStep, SidecarDeclines, CallFails, CallAbandoned,
         OrphanArrives, StreamBreaks, sidecarVars
    <3>2. instance' # "registered" => instance # "registered"
      BY <2>3 DEF SidecarStep, SidecarDeclines, CallFails, CallAbandoned,
         OrphanArrives, StreamBreaks, sidecarVars
    <3> QED
      BY <1>1, <1>5, <3>1, <3>2 DEF ChainInv, LossPending
  <2> QED
    BY <2>1, <2>2, <2>3
<1> QED
  BY <1>3, <1>4, <1>6 DEF ChainInv

(* ChainInv is inductive.                                                  *)
LEMMA NextChain == TypeOK /\ ChainInv /\ [Next]_vars => ChainInv'
<1> SUFFICES ASSUME TypeOK, ChainInv, [Next]_vars PROVE ChainInv'
  OBVIOUS
<1>1. CASE SourceStep
  BY <1>1, SourceStepChain
<1>2. CASE RunnerStep
  BY <1>2, RunnerStepChain
<1>3. CASE SidecarStep
  BY <1>3, SidecarStepChain
<1>4. CASE CtxEnds \/ UNCHANGED vars
  <2>1. /\ Live' => Live
        /\ UNCHANGED <<sourceVars, events, runnerVars, stream, sidecarVars>>
    BY <1>4 DEF CtxEnds, vars, Live
  <2> USE DEF sourceVars, runnerVars, sidecarVars, Believed
  <2>2. /\ StreamWhileReading' /\ CallWhileRegistering' /\ DoneAfterCtx'
        /\ HoldsDisconnectAfterWatch' /\ SubscribedOnce'
    BY <2>1 DEF ChainInv, StreamWhileReading, CallWhileRegistering,
       DoneAfterCtx, HoldsDisconnectAfterWatch, SubscribedOnce
  <2>3. CleanBetweenStreams'
    BY <2>1 DEF ChainInv, CleanBetweenStreams, EndsInDisconnect, Down
  <2>4. LossPending'
    BY <2>1 DEF ChainInv, LossPending, DisconnectPending
  <2> QED
    BY <2>2, <2>3, <2>4 DEF ChainInv
<1> QED
  BY <1>1, <1>2, <1>3, <1>4 DEF Next

(* ChainInv holds of every behaviour.                                      *)
THEOREM ChainHolds == Spec => []ChainInv
BY InitChain, NextChain, TypeCorrect, PTL DEF Spec

(* A registration that the sidecar has lost never stays in the status      *)
(* without a disconnect on its way that resets it.                         *)
THEOREM SilentLossNever == Spec => []NoSilentLoss
<1>1. ChainInv => NoSilentLoss
  BY DEF ChainInv, LossPending, NoSilentLoss, Believed
<1> QED
  BY <1>1, ChainHolds, PTL

(* A status that says connected between two streams has a disconnect on    *)
(* its way: no event of a stream outlives the report of its end.           *)
THEOREM StaleConnectionNever == Spec => []NoStaleConnection
<1>1. TypeOK /\ ChainInv => NoStaleConnection
  <2> SUFFICES ASSUME TypeOK, ChainInv, Live, status.connected, stream = "none",
                      srcPc \notin {"returned", "report"}
               PROVE  DisconnectPending
    BY DEF NoStaleConnection, DisconnectPending
  <2>1. EndsInDisconnect
    BY DEF ChainInv, StreamWhileReading, DoneAfterCtx, CleanBetweenStreams,
       TypeOK
  <2>2. CASE events = <<>>
    BY <2>1, <2>2 DEF EndsInDisconnect, Down, DisconnectPending
  <2>3. CASE events # <<>>
    <3>1. events \in Seq(Events) /\ Last(events).type = "disconnected"
      BY <2>1, <2>3 DEF EndsInDisconnect, Last, TypeOK
    <3>2. Queued(events)
      BY <2>3, <3>1, TailFacts
    <3> QED
      BY <3>2 DEF DisconnectPending, Queued
  <2> QED
    BY <2>2, <2>3
<1> QED
  BY <1>1, ChainHolds, TypeCorrect, PTL

-----------------------------------------------------------------------------
(* The refinement of Replay.                                               *)

(* What Replay sees of a step of the source: at most a new doubt.          *)
LEMMA SourceDoubts ==
    ASSUME TypeOK, ChainInv, Live, SourceStep
    PROVE  /\ UNCHANGED <<ctx, instance, status, declined>>
           /\ DisconnectPending => DisconnectPending'
<1> USE DEF runnerVars, sidecarVars, Live
<1>0. events \in Seq(Events) /\ pending \in Events
  BY DEF TypeOK
<1>1. ASSUME \/ SourceCheck \/ SourceDialed \/ SourceReadsGreeting
             \/ SourceReadsFrame \/ SourceRedials \/ SourceReturned
      PROVE  /\ UNCHANGED <<ctx, instance, status, declined>>
             /\ DisconnectPending => DisconnectPending'
  BY <1>1 DEF SourceCheck, SourceDialed, SourceReadsGreeting, SourceReadsFrame,
     SourceReads, SourceRedials, SourceReturned, DisconnectPending, ChainInv,
     StreamWhileReading
<1>2. ASSUME \/ SourceDialFails \/ SourceReadsBadFrame \/ SourceReadsEnd
             \/ SourceAborts
      PROVE  /\ UNCHANGED <<ctx, instance, status, declined>>
             /\ DisconnectPending => DisconnectPending'
  BY <1>2 DEF SourceDialFails, SourceReadsBadFrame, SourceReadsEnd,
     SourceAborts, WatchReturns, DisconnectPending
<1>3. ASSUME SourceEmits \/ SourceReports
      PROVE  /\ UNCHANGED <<ctx, instance, status, declined>>
             /\ DisconnectPending => DisconnectPending'
  <2>1. events' = Append(events, pending)
    BY <1>3 DEF SourceEmits, SourceReports
  <2>2. Queued(events) => Queued(events')
    BY <1>0, <2>1, AppendFacts
  <2>3. CASE SourceEmits
    BY <2>2, <2>3 DEF SourceEmits, DisconnectPending, Queued
  <2>4. CASE SourceReports
    <3>1. pending.type = "disconnected"
      BY <2>4 DEF SourceReports, ChainInv, HoldsDisconnectAfterWatch
    <3>2. events' # <<>> /\ Last(events') = pending /\ events' \in Seq(Events)
      BY <1>0, <2>1, AppendFacts
    <3>3. Queued(events')
      BY <3>1, <3>2, TailFacts
    <3> QED
      BY <2>4, <3>3 DEF SourceReports, DisconnectPending, Queued
  <2> QED
    BY <1>3, <2>3, <2>4
<1>4. ~SourceStops
  BY DEF SourceStops
<1> QED
  BY <1>1, <1>2, <1>3, <1>4 DEF SourceStep

(* The flags Replay sees are Booleans, before and after a step.            *)
LEMMA Flags ==
    /\ Live \in BOOLEAN /\ Live' \in BOOLEAN
    /\ Believed \in BOOLEAN /\ Believed' \in BOOLEAN
    /\ DisconnectPending \in BOOLEAN /\ DisconnectPending' \in BOOLEAN
<1>1. Live \in BOOLEAN /\ Live' \in BOOLEAN
  BY Zenon DEF Live
<1>2. Believed \in BOOLEAN /\ Believed' \in BOOLEAN
  BY Zenon DEF Believed
<1>3. DisconnectPending \in BOOLEAN /\ DisconnectPending' \in BOOLEAN
  BY Zenon DEF DisconnectPending
<1> QED
  BY <1>1, <1>2, <1>3

(* A step that changes nothing but, perhaps, begins a doubt.               *)
LEMMA AtMostDoubts ==
    ASSUME TypeOK, TypeOK', Live, Live', instance' = instance,
           Believed' <=> Believed, DisconnectPending => DisconnectPending'
    PROVE  Promise!Next \/ UNCHANGED Promise!vars
<1>1. Live' = Live /\ Believed' = Believed
  BY Flags, Zenon
<1>2. CASE DisconnectPending'
  <2>1. DisconnectPending' = TRUE
    BY <1>2, Zenon DEF DisconnectPending
  <2> QED
    BY <1>1, <2>1, Zenon DEF Promise!Next, Promise!Doubts
<1>3. CASE ~DisconnectPending'
  <2>1. DisconnectPending' = DisconnectPending
    BY <1>3, Zenon DEF DisconnectPending
  <2> QED
    BY <1>1, <2>1, Zenon DEF Promise!vars
<1> QED
  BY <1>2, <1>3

(* A step that gives the belief up may end the doubt.                      *)
LEMMA CorrectsFollows ==
    ASSUME TypeOK, TypeOK', Live, Live', instance' = instance, ~Believed'
    PROVE  Promise!Next
<1>1. Live' = Live /\ Believed' = FALSE
  BY Flags, Zenon
<1>2. DisconnectPending' \in BOOLEAN
  BY Flags
<1> QED
  BY <1>1, <1>2, Zenon DEF Promise!Next, Promise!Corrects

(* Run.                                                                    *)
LEMMA RunnerFollows ==
    ASSUME TypeOK, TypeOK', ChainInv, Live, RunnerStep
    PROVE  Promise!Next \/ UNCHANGED Promise!vars
<1> USE DEF sourceVars, sidecarVars
<1>0. /\ status \in Statuses /\ Now \in Nat
      /\ events \in Seq(Events)
  BY EventFacts DEF TypeOK
<1>1. CASE RunnerSubscribes
  <2>1. /\ UNCHANGED <<ctx, events, status, declined, stream, instance>>
        /\ srcPc = "none" /\ rnPc = "subscribe"
    BY <1>1 DEF RunnerSubscribes, ChainInv, SubscribedOnce
  <2>2. Live' /\ (Believed' <=> Believed)
        /\ (DisconnectPending => DisconnectPending')
    BY <2>1 DEF Live, Believed, DisconnectPending
  <2> QED
    BY <2>1, <2>2, AtMostDoubts
<1>2. CASE RunnerSeesCtxDone
  BY <1>2 DEF RunnerSeesCtxDone
<1>3. CASE RunnerSeesClosed
  BY <1>3 DEF RunnerSeesClosed, ChainInv, DoneAfterCtx
<1>4. CASE RunnerReceives
  <2> DEFINE event == Head(events)
  <2>1. event \in Events /\ events # <<>> /\ events' = Tail(events)
    BY <1>0, <1>4 DEF RunnerReceives
  <2>2. /\ UNCHANGED <<ctx, srcPc, declined, stream, instance>>
        /\ rnPc = "select"
        /\ event.type = "disconnected" => rnPc' = "down"
    BY <1>4, <2>1 DEF RunnerReceives
  <2>3. status'.registered = status.registered
    <3>1. status' = ObserveEvent(status, event, Now + 1) /\ Now + 1 \in Nat
      BY <1>0, <1>4 DEF RunnerReceives
    <3> QED
      BY <1>0, <2>1, <3>1, ControllerFlags
  <2>4. Queued(events) => event.type = "disconnected" \/ Queued(events')
    BY <1>0, <2>1, TailFacts
  <2>5. DisconnectPending => DisconnectPending'
    BY <2>2, <2>4 DEF DisconnectPending, Queued
  <2>6. Live' /\ (Believed' <=> Believed)
    BY <2>2, <2>3 DEF Live, Believed
  <2> QED
    BY <2>2, <2>5, <2>6, AtMostDoubts
<1>5. CASE RunnerRegistered
  <2>1. /\ UNCHANGED <<ctx, srcPc, events, stream, instance>>
        /\ rnPc = "register" /\ rnPc' = "select"
        /\ call \in {"accepted", "declined"}
        /\ declined' = (call = "declined")
        /\ status' = OnConnected(status, Now)
    BY <1>5 DEF RunnerRegistered
  <2>2. Live' /\ (DisconnectPending' <=> DisconnectPending)
    BY <2>1 DEF Live, DisconnectPending
  <2>3. CASE call = "declined"
    <3>1. ~Believed'
      BY <2>1, <2>3 DEF Believed
    <3> QED
      BY <2>1, <2>2, <3>1, CorrectsFollows
  <2>4. CASE call = "accepted"
    <3>1. status'.registered = TRUE
      BY <1>0, <2>1, Zenon DEF OnConnected, Statuses
    <3>2. ~declined'
      BY <2>1, <2>4
    <3>3. Believed' = TRUE
      BY <3>1, <3>2, Zenon DEF Believed
    <3>4. instance = "registered" \/ DisconnectPending
      BY <2>4 DEF ChainInv, LossPending
    <3>5. Live' = Live /\ DisconnectPending' = DisconnectPending
      BY <2>2, Flags, Zenon
    <3> QED
      BY <2>1, <3>3, <3>4, <3>5, Zenon DEF Promise!Next, Promise!Believes
  <2> QED
    BY <2>1, <2>3, <2>4
<1>6. CASE RunnerReplayFailed
  <2>1. /\ UNCHANGED <<ctx, declined, instance>> /\ rnPc' = "down"
        /\ status' = ReplayFailed(status)
    BY <1>6 DEF RunnerReplayFailed
  <2>2. status'.registered = status.registered
    BY <1>0, <2>1, ControllerFlags
  <2>3. Live' /\ (Believed' <=> Believed) /\ DisconnectPending'
    BY <2>1, <2>2 DEF Live, Believed, DisconnectPending
  <2> QED
    BY <2>1, <2>3, AtMostDoubts
<1>7. CASE RunnerDown
  <2>1. /\ UNCHANGED <<ctx, instance>>
        /\ status' = OnDisconnected(status, Now)
    BY <1>7 DEF RunnerDown
  <2>2. status'.registered = FALSE
    BY <1>0, <2>1, ControllerFlags
  <2>3. Live' /\ ~Believed'
    BY <2>1, <2>2 DEF Live, Believed
  <2> QED
    BY <2>1, <2>3, CorrectsFollows
<1>8. CASE RunnerRecords
  <2>1. /\ UNCHANGED <<ctx, srcPc, events, declined, stream, instance>>
        /\ rnPc = "record" /\ rnPc' = "select"
        /\ status' = RecordError(status, rnErr)
    BY <1>8 DEF RunnerRecords
  <2>2. status'.registered = status.registered
    BY <1>0, <2>1, ControllerFlags
  <2>3. Live' /\ (Believed' <=> Believed)
        /\ (DisconnectPending => DisconnectPending')
    BY <2>1, <2>2 DEF Live, Believed, DisconnectPending
  <2> QED
    BY <2>1, <2>3, AtMostDoubts
<1> QED
  BY <1>1, <1>2, <1>3, <1>4, <1>5, <1>6, <1>7, <1>8 DEF RunnerStep

(* The sidecar and the network.                                            *)
LEMMA SidecarFollows ==
    ASSUME TypeOK, TypeOK', ChainInv, ChainInv', Live, SidecarStep
    PROVE  Promise!Next \/ UNCHANGED Promise!vars
<1> USE DEF sidecarFrame, sourceVars, runnerVars
<1>1. UNCHANGED <<ctx, srcPc, events, rnPc, status, declined>>
  BY DEF SidecarStep, SidecarAccepts, SidecarDeclines, CallFails,
     CallAbandoned, OrphanArrives, StreamBreaks, SidecarRestarts
<1>2. Live' /\ (Believed' <=> Believed)
  BY <1>1 DEF Live, Believed
<1>3. stream = "broken" => stream' = "broken"
  BY DEF SidecarStep, SidecarAccepts, SidecarDeclines, CallFails,
     CallAbandoned, OrphanArrives, StreamBreaks, SidecarRestarts, sidecarVars
<1>4. DisconnectPending => DisconnectPending'
  BY <1>1, <1>3 DEF DisconnectPending
<1>5. CASE instance' = instance
  BY <1>2, <1>4, <1>5, AtMostDoubts
<1>6. CASE instance' # instance /\ ~SidecarRestarts
  <2>1. instance' = "registered" /\ stream' = stream
    BY <1>6 DEF SidecarStep, SidecarAccepts, SidecarDeclines, CallFails,
       CallAbandoned, OrphanArrives, StreamBreaks, sidecarVars
  <2>2. DisconnectPending' <=> DisconnectPending
    BY <1>1, <2>1 DEF DisconnectPending
  <2>3. /\ Live' = Live /\ Believed' = Believed
        /\ DisconnectPending' = DisconnectPending
    BY <1>2, <2>2, Flags, Zenon
  <2>4. (instance' = "registered") = TRUE
    BY <2>1, Zenon
  <2> QED
    BY <2>3, <2>4, Zenon DEF Promise!Next, Promise!SidecarHolds
<1>7. CASE SidecarRestarts
  <2>1. instance' = "absent"
    BY <1>7 DEF SidecarRestarts
  <2>2. (instance' = "registered") = FALSE
    <3>1. instance' # "registered"
      BY <2>1
    <3> QED
      BY <3>1, Zenon
  <2>3. Believed => DisconnectPending'
    BY <1>2, <2>1 DEF ChainInv, LossPending
  <2>4. Live' = Live /\ Believed' = Believed
    BY <1>2, Flags, Zenon
  <2>5. DisconnectPending' = TRUE
        \/ (~Believed /\ DisconnectPending' = DisconnectPending)
    <3>1. CASE DisconnectPending'
      BY <3>1, Flags, Zenon
    <3>2. CASE ~DisconnectPending'
      BY <1>4, <2>3, <3>2, Flags, Zenon
    <3> QED
      BY <3>1, <3>2
  <2> QED
    BY <2>2, <2>4, <2>5, Zenon DEF Promise!Next, Promise!SidecarForgets
<1> QED
  BY <1>5, <1>6, <1>7

LEMMA NextFollows ==
    TypeOK /\ TypeOK' /\ ChainInv /\ ChainInv' /\ [Next]_vars
        => [Promise!Next]_(Promise!vars)
<1> SUFFICES ASSUME TypeOK, TypeOK', ChainInv, ChainInv', [Next]_vars
             PROVE  Promise!Next \/ UNCHANGED Promise!vars
  OBVIOUS
<1>1. CASE UNCHANGED vars
  <2>1. UNCHANGED <<ctx, srcPc, events, rnPc, status, declined, stream,
                    instance>>
    BY <1>1 DEF vars, sourceVars, runnerVars, sidecarVars
  <2>2. /\ Live' = Live /\ Believed' = Believed
        /\ DisconnectPending' = DisconnectPending
    BY <2>1 DEF Live, Believed, DisconnectPending
  <2> QED
    BY <2>1, <2>2, Zenon DEF Promise!vars
<1>2. CASE Live /\ SourceStep
  <2>1. Live' /\ (Believed' <=> Believed)
    BY <1>2, SourceDoubts DEF Live, Believed
  <2> QED
    BY <1>2, <2>1, SourceDoubts, AtMostDoubts
<1>3. CASE Live /\ RunnerStep
  BY <1>3, RunnerFollows
<1>4. CASE Live /\ SidecarStep
  BY <1>4, SidecarFollows
<1>5. CASE CtxEnds
  <2>1. Live /\ ~Live'
        /\ UNCHANGED <<srcPc, events, rnPc, status, declined, stream, instance>>
    BY <1>5 DEF CtxEnds, Live, sourceVars, runnerVars, sidecarVars
  <2>2. /\ Believed' = Believed
        /\ DisconnectPending' = DisconnectPending
    BY <2>1 DEF Believed, DisconnectPending
  <2>3. Live' = FALSE
    BY <2>1, Flags, Zenon
  <2> QED
    BY <2>1, <2>2, <2>3, Zenon DEF Promise!Next, Promise!ContextEnds
<1>6. CASE ~Live
  <2>1. ~Live'
    BY <1>6 DEF Next, SourceStep, SourceCheck, SourceDialed, SourceDialFails,
       SourceReadsGreeting, SourceReadsFrame, SourceReads, SourceReadsBadFrame,
       SourceReadsEnd, SourceAborts, SourceEmits, SourceReturned,
       SourceReports, SourceStops, SourceRedials, RunnerStep,
       RunnerSubscribes, RunnerSeesCtxDone, RunnerSeesClosed, RunnerReturns,
       RunnerReceives, RunnerRegistered, RunnerReplayFailed, RunnerDown,
       RunnerRecords, SidecarStep, SidecarAccepts, SidecarDeclines, CallFails,
       CallAbandoned, OrphanArrives, StreamBreaks, SidecarRestarts,
       sidecarFrame, CtxEnds, vars, Live
  <2>2. Live' = FALSE
    BY <2>1, Flags, Zenon
  <2> QED
    BY <1>6, <2>2, Zenon DEF Promise!Next, Promise!Ended
<1> QED
  BY <1>1, <1>2, <1>3, <1>4, <1>5, <1>6 DEF Next

(* The status follows the sidecar's registrations: the replay chain        *)
(* implements Replay (watch_source.go:155-182, runtime.go:91-137).         *)
THEOREM ChainFollowsSidecar == Spec => FollowsSidecar
<1>1. Init => Promise!Init
  <2> SUFFICES ASSUME Init PROVE Promise!Init
    OBVIOUS
  <2>1. TypeOK
    BY InitTypeOK
  <2>2. Live /\ instance = "absent" /\ status = NewController
    BY DEF Init, Live
  <2>3. status.registered = FALSE
    BY <2>2, Zenon DEF NewController
  <2>4. Live = TRUE /\ Believed = FALSE /\ DisconnectPending \in BOOLEAN
    BY <2>1, <2>2, <2>3, Flags, Zenon DEF Believed
  <2>5. (instance = "registered") = FALSE
    <3>1. instance # "registered"
      BY <2>2
    <3> QED
      BY <3>1, Zenon
  <2> QED
    BY <2>4, <2>5, Zenon DEF Promise!Init
<1> QED
  BY <1>1, NextFollows, TypeCorrect, ChainHolds, PTL
  DEF Spec, FollowsSidecar, Promise!Spec
=============================================================================
