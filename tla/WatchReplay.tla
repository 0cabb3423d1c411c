---------------------------- MODULE WatchReplay ----------------------------
(***************************************************************************)
(* The replay chain of src/agent: the goroutine of WatchSource.Subscribe   *)
(* turns the sidecar's SSE stream into events on a bounded channel, and    *)
(* Runner.Run consumes them, calling register on every connected event and *)
(* keeping the Controller's status.  The sidecar (not in the repository)   *)
(* is modelled by what the code can see of it: streams that open, carry    *)
(* frames and break, and calls that are answered, refused or lost.         *)
(*                                                                         *)
(* One action is one step between two points where another party can be    *)
(* seen or can see us: a channel operation, a lock section, a call.        *)
(*                                                                         *)
(* Def_What, before Def, is Def with a plausible bug; nothing uses it.     *)
(***************************************************************************)
EXTENDS Controller, Sequences

CONSTANTS
    EventBuffer,        \* capacity of the events channel (8 in the code)
    WatchURLs,          \* watch addresses given to NewWatchSource, trimmed
    SidecarMayDecline,  \* may the sidecar answer 200 with success=false?
    MaxFrames,          \* bound: frames beyond the greeting of each stream
    MaxFaults           \* bound: failed dials, cuts, bad frames, failed calls

ASSUME WatchReplayAssumption ==
    /\ EventBuffer \in Nat \ {0}
    /\ WatchURLs \subseteq {"blank", "url"}
    /\ SidecarMayDecline \in BOOLEAN
    /\ MaxFrames \in Nat
    /\ MaxFaults \in Nat

VARIABLES
    ctx,        \* the context of Subscribe and Run: live, canceled, deadline
    watchURL,   \* WatchSource.watchURL
    srcPc,      \* where the source's goroutine is
    pending,    \* the event or watch error the source holds
    events,     \* the buffered channel; closed iff srcPc = "done"
    rnPc,       \* where Runner.Run is
    rnErr,      \* kind of the error Run will record after OnDisconnected
    runResult,  \* what Run returned
    status,     \* the Controller's status
    stream,     \* the SSE connection as seen by the source's side
    greeted,    \* has the current stream carried a connected frame?
    call,       \* the Register call of OnConnected
    orphans,    \* abandoned Register requests the sidecar may still handle
    instance,   \* what the sidecar holds for this service
    seen,       \* history: events Run has received, by type
    declined,   \* history: the sidecar declined the registration in status
    frames,     \* used part of MaxFrames
    faults      \* used part of MaxFaults

sourceVars  == <<srcPc, pending>>
runnerVars  == <<rnPc, rnErr, runResult, status, seen, declined>>
sidecarVars == <<call, orphans, instance>>
vars == <<ctx, watchURL, sourceVars, events, runnerVars, stream, greeted,
          sidecarVars, frames, faults>>

Live == ctx = "live"
Now  == seen.connected + seen.heartbeat + seen.disconnected
Fault     == faults < MaxFaults /\ faults' = faults + 1
SomeFrame == frames < MaxFrames /\ frames' = frames + 1

(* Type invariant: every variable has its type, the channel never holds    *)
(* more than its capacity (watch_source.go:139), the budgets are kept.     *)
TypeOK ==
    /\ ctx \in {"live", "canceled", "deadline"}
    /\ watchURL \in {"blank", "url"}
    /\ srcPc \in {"none", "check", "dial", "read", "emit", "returned",
                  "report", "backoff", "done"}
    /\ pending \in Events
    /\ events \in Seq(Events) /\ Len(events) <= EventBuffer
    /\ rnPc \in {"subscribe", "select", "register", "down", "record", "done"}
    /\ rnErr \in ErrorKinds
    /\ runResult \in {"none", "nil", "canceled", "deadline", "watch_url_required"}
    /\ status \in Statuses
    /\ stream \in {"none", "open", "broken"}
    /\ greeted \in BOOLEAN
    /\ call \in {"none", "sent", "accepted", "declined", "failed"}
    /\ orphans \in Nat
    /\ instance \in {"absent", "registered", "drained"}
    /\ seen \in [EventTypes -> Nat]
    /\ declined \in BOOLEAN
    /\ frames \in 0..MaxFrames
    /\ faults \in 0..MaxFaults

Init ==
    /\ ctx = "live"
    /\ watchURL \in WatchURLs
    /\ srcPc = "none" /\ pending = Event("heartbeat")
    /\ events = <<>>
    /\ rnPc = "subscribe" /\ rnErr = "none" /\ runResult = "none"
    /\ status = NewController
    /\ stream = "none" /\ greeted = FALSE
    /\ call = "none" /\ orphans = 0 /\ instance = "absent"
    /\ seen = [t \in EventTypes |-> 0] /\ declined = FALSE
    /\ frames = 0 /\ faults = 0

-----------------------------------------------------------------------------
(* The source's goroutine (Subscribe, watchOnce, emitWatchEvent).          *)

(* watchOnce returns err: the response body is closed.                     *)
WatchReturns(err) ==
    /\ srcPc' = "returned" /\ pending' = Disconnect(err)
    /\ stream' = "none" /\ greeted' = FALSE

SourceCheck ==
    /\ srcPc = "check"
    /\ srcPc' = IF Live THEN "dial" ELSE "done"
    /\ UNCHANGED <<ctx, watchURL, pending, events, runnerVars, stream,
                   greeted, sidecarVars, frames, faults>>

SourceDialed ==
    /\ srcPc = "dial"
    /\ srcPc' = "read" /\ stream' = "open"
    /\ UNCHANGED <<ctx, watchURL, pending, events, runnerVars, greeted,
                   sidecarVars, frames, faults>>

(* No connection, or an answer that is not 200.                            *)
SourceDialFails ==
    /\ srcPc = "dial"
    /\ \E err \in {"runtime_error", "watch_http_status"} : WatchReturns(err)
    /\ Fault
    /\ UNCHANGED <<ctx, watchURL, events, runnerVars, sidecarVars, frames>>

(* One frame is read and turned into an event to be sent.  Frames that     *)
(* emitWatchEvent ignores (comments, unknown types, a "disconnected" sent  *)
(* by the sidecar) change nothing.  What was sent before the stream broke  *)
(* can still be read.                                                      *)
SourceReads(type) ==
    /\ srcPc = "read" /\ stream # "none"
    /\ Live
    /\ srcPc' = "emit" /\ pending' = Event(type)
    /\ greeted' = (greeted \/ type = "connected")
    /\ UNCHANGED <<ctx, watchURL, events, runnerVars, stream, sidecarVars,
                   faults>>

SourceReadsGreeting ==
    ~greeted /\ SourceReads("connected") /\ UNCHANGED frames
SourceReadsFrame ==
    SomeFrame /\ \E type \in {"connected", "heartbeat"} : SourceReads(type)

(* A frame that looks like JSON and is not ends the stream.                *)
SourceReadsBadFrame ==
    /\ srcPc = "read" /\ stream # "none" /\ Live
    /\ WatchReturns("watch_event_parse")
    /\ Fault
    /\ UNCHANGED <<ctx, watchURL, events, runnerVars, sidecarVars, frames>>

(* EOF, or a read error of a connection that was cut.                      *)
SourceReadsEnd ==
    /\ srcPc = "read" /\ stream = "broken"
    /\ \E err \in {"watch_stream_closed", "runtime_error"} : WatchReturns(err)
    /\ UNCHANGED <<ctx, watchURL, events, runnerVars, sidecarVars, frames,
                   faults>>

(* Every blocking point of watchOnce gives up once the context has ended:  *)
(* the dial, the read and the send on the events channel.                  *)
SourceAborts ==
    /\ srcPc \in {"dial", "read", "emit"} /\ ~Live
    /\ WatchReturns("runtime_error")
    /\ UNCHANGED <<ctx, watchURL, events, runnerVars, sidecarVars, frames,
                   faults>>

SourceEmits_Unbounded ==
    /\ srcPc = "emit"
    /\ events' = Append(events, pending)
    /\ srcPc' = "read"
    /\ UNCHANGED <<ctx, watchURL, pending, runnerVars, stream, greeted,
                   sidecarVars, frames, faults>>
SourceEmits ==
    /\ srcPc = "emit" /\ Len(events) < EventBuffer
    /\ events' = Append(events, pending)
    /\ srcPc' = "read"
    /\ UNCHANGED <<ctx, watchURL, pending, runnerVars, stream, greeted,
                   sidecarVars, frames, faults>>

(* watchOnce has returned: without a live context nothing is reported.     *)
SourceReturned_ReportsErrorsOnly ==
    /\ srcPc = "returned"
    /\ srcPc' = IF Live /\ pending.err # "watch_stream_closed"
                THEN "report" ELSE "backoff"
    /\ UNCHANGED <<ctx, watchURL, pending, events, runnerVars, stream,
                   greeted, sidecarVars, frames, faults>>
SourceReturned ==
    /\ srcPc = "returned"
    /\ srcPc' = IF Live THEN "report" ELSE "backoff"
    /\ UNCHANGED <<ctx, watchURL, pending, events, runnerVars, stream,
                   greeted, sidecarVars, frames, faults>>

SourceReports_DropsWhenFull ==
    /\ srcPc = "report"
    /\ events' = IF Len(events) < EventBuffer THEN Append(events, pending)
                                              ELSE events
    /\ srcPc' = "backoff"
    /\ UNCHANGED <<ctx, watchURL, pending, runnerVars, stream, greeted,
                   sidecarVars, frames, faults>>
SourceReports ==
    /\ srcPc = "report" /\ Len(events) < EventBuffer
    /\ events' = Append(events, pending)
    /\ srcPc' = "backoff"
    /\ UNCHANGED <<ctx, watchURL, pending, runnerVars, stream, greeted,
                   sidecarVars, frames, faults>>

(* The other branch of the two selects of Subscribe's loop.                *)
SourceStops_OnlyInBackoff ==
    /\ srcPc = "backoff" /\ ~Live
    /\ srcPc' = "done"
    /\ UNCHANGED <<ctx, watchURL, pending, events, runnerVars, stream,
                   greeted, sidecarVars, frames, faults>>
SourceStops ==
    /\ srcPc \in {"report", "backoff"} /\ ~Live
    /\ srcPc' = "done"
    /\ UNCHANGED <<ctx, watchURL, pending, events, runnerVars, stream,
                   greeted, sidecarVars, frames, faults>>

SourceRedials_GivesUp ==
    /\ srcPc = "backoff"
    /\ srcPc' = "done"
    /\ UNCHANGED <<ctx, watchURL, pending, events, runnerVars, stream,
                   greeted, sidecarVars, frames, faults>>
SourceRedials ==
    /\ srcPc = "backoff"
    /\ srcPc' = "check"
    /\ UNCHANGED <<ctx, watchURL, pending, events, runnerVars, stream,
                   greeted, sidecarVars, frames, faults>>

SourceStep ==
    \/ SourceCheck \/ SourceDialed \/ SourceDialFails
    \/ SourceReadsGreeting \/ SourceReadsFrame \/ SourceReadsBadFrame
    \/ SourceReadsEnd \/ SourceAborts \/ SourceEmits \/ SourceReturned
    \/ SourceReports \/ SourceStops \/ SourceRedials

-----------------------------------------------------------------------------
(* Runner.Run.                                                             *)

RunnerSubscribes ==
    /\ rnPc = "subscribe"
    /\ IF watchURL = "blank"
       THEN /\ rnPc' = "done" /\ runResult' = "watch_url_required"
            /\ UNCHANGED srcPc
       ELSE /\ rnPc' = "select" /\ srcPc' = "check"
            /\ UNCHANGED runResult
    /\ UNCHANGED <<ctx, watchURL, pending, events, rnErr, status, seen,
                   declined, stream, greeted, sidecarVars, frames, faults>>

RunnerReturns(result) ==
    /\ rnPc' = "done" /\ runResult' = result
    /\ UNCHANGED <<ctx, watchURL, sourceVars, events, rnErr, status, seen,
                   declined, stream, greeted, sidecarVars, frames, faults>>

(* The select of Run: both cases may be ready, and either may be taken.    *)
RunnerSeesCtxDone == rnPc = "select" /\ ~Live /\ RunnerReturns(ctx)
RunnerSeesClosed ==
    rnPc = "select" /\ srcPc = "done" /\ events = <<>> /\ RunnerReturns("nil")

(* Receive and ObserveEvent, then the branch on the event: a heartbeat is  *)
(* done with, a disconnect goes on to OnDisconnected, connected to         *)
(* OnConnected, whose first step sends the register request; net/http      *)
(* sends nothing when the context has ended already.                       *)
RunnerReceives_HeartbeatFallsThrough ==
    /\ rnPc = "select" /\ events # <<>>
    /\ LET event == Head(events) IN
       /\ seen' = [seen EXCEPT ![event.type] = @ + 1]
       /\ status' = ObserveEvent(status, event, Now + 1)
       /\ rnPc' = IF Connected(event) THEN "register" ELSE "down"
       /\ rnErr' = event.err
       /\ call' = IF ~Connected(event) THEN call
                  ELSE IF Live THEN "sent" ELSE "failed"
    /\ events' = Tail(events)
    /\ UNCHANGED <<ctx, watchURL, sourceVars, runResult, declined, stream,
                   greeted, orphans, instance, frames, faults>>
RunnerReceives ==
    /\ rnPc = "select" /\ events # <<>>
    /\ LET event == Head(events) IN
       /\ seen' = [seen EXCEPT ![event.type] = @ + 1]
       /\ status' = ObserveEvent(status, event, Now + 1)
       /\ rnPc' = CASE event.type = "heartbeat" -> "select"
                    [] event.type = "disconnected" -> "down"
                    [] event.type = "connected" -> "register"
       /\ rnErr' = event.err
       /\ call' = IF event.type # "connected" THEN call
                  ELSE IF Live THEN "sent" ELSE "failed"
    /\ events' = Tail(events)
    /\ UNCHANGED <<ctx, watchURL, sourceVars, runResult, declined, stream,
                   greeted, orphans, instance, frames, faults>>

(* Register returned nil: doJSONRequest looks at the status code only, so  *)
(* a 200 that says success=false counts as one.                            *)
RunnerRegistered ==
    /\ rnPc = "register" /\ call \in {"accepted", "declined"}
    /\ status' = OnConnected(status, Now)
    /\ declined' = (call = "declined")
    /\ rnPc' = "select" /\ call' = "none"
    /\ UNCHANGED <<ctx, watchURL, sourceVars, events, rnErr, runResult, seen,
                   stream, greeted, orphans, instance, frames, faults>>

RunnerReplayFailed ==
    /\ rnPc = "register" /\ call = "failed"
    /\ status' = ReplayFailed(status)
    /\ rnPc' = "down" /\ rnErr' = "register_replay" /\ call' = "none"
    /\ UNCHANGED <<ctx, watchURL, sourceVars, events, runResult, seen,
                   declined, stream, greeted, orphans, instance, frames,
                   faults>>

RunnerDown ==
    /\ rnPc = "down"
    /\ status' = OnDisconnected(status, Now) /\ declined' = FALSE
    /\ rnPc' = "record"
    /\ UNCHANGED <<ctx, watchURL, sourceVars, events, rnErr, runResult, seen,
                   stream, greeted, sidecarVars, frames, faults>>

RunnerRecords ==
    /\ rnPc = "record"
    /\ status' = RecordError(status, rnErr)
    /\ rnPc' = "select"
    /\ UNCHANGED <<ctx, watchURL, sourceVars, events, rnErr, runResult, seen,
                   declined, stream, greeted, sidecarVars, frames, faults>>

RunnerStep ==
    \/ RunnerSubscribes \/ RunnerSeesCtxDone \/ RunnerSeesClosed
    \/ RunnerReceives \/ RunnerRegistered \/ RunnerReplayFailed
    \/ RunnerDown \/ RunnerRecords

-----------------------------------------------------------------------------
(* The sidecar and the network.                                            *)

sidecarFrame == <<ctx, watchURL, sourceVars, events, runnerVars, greeted,
                  frames>>

(* The sidecar handles the register request and answers 200.               *)
SidecarAccepts ==
    /\ call = "sent" /\ call' = "accepted" /\ instance' = "registered"
    /\ UNCHANGED <<sidecarFrame, stream, orphans, faults>>

(* It answers 200 with success=false and registers nothing.                *)
SidecarDeclines ==
    /\ SidecarMayDecline /\ Fault
    /\ call = "sent" /\ call' = "declined"
    /\ UNCHANGED <<sidecarFrame, stream, orphans, instance>>

(* The call fails: refused, or its answer lost after it was handled.       *)
CallFails ==
    /\ Fault
    /\ call \in {"sent", "accepted"} /\ call' = "failed"
    /\ UNCHANGED <<sidecarFrame, stream, orphans, instance>>

(* The caller gives up, by RequestTimeout or because the context ended,    *)
(* and the request is still on its way.                                    *)
CallAbandoned ==
    /\ IF Live THEN Fault ELSE UNCHANGED faults
    /\ call = "sent" /\ call' = "failed"
    /\ orphans' = orphans + 1
    /\ UNCHANGED <<sidecarFrame, stream, instance>>

OrphanArrives ==
    /\ orphans > 0 /\ orphans' = orphans - 1
    /\ instance' \in {instance, "registered"}
    /\ UNCHANGED <<sidecarFrame, stream, call, faults>>

(* The connection is cut or closed by the sidecar; the sidecar lives on.   *)
StreamBreaks ==
    /\ Fault
    /\ stream = "open" /\ stream' = "broken"
    /\ UNCHANGED <<sidecarFrame, sidecarVars>>

(* The sidecar restarts and has forgotten the service.  Its connections    *)
(* break and the requests it had not handled are gone.                     *)
SidecarRestarts ==
    /\ Fault
    /\ instance' = "absent" /\ orphans' = 0
    /\ call' = IF call = "sent" THEN "failed" ELSE call
    /\ stream' = IF stream = "open" THEN "broken" ELSE stream
    /\ UNCHANGED sidecarFrame

SidecarStep ==
    \/ SidecarAccepts \/ SidecarDeclines \/ CallFails \/ CallAbandoned
    \/ OrphanArrives \/ StreamBreaks \/ SidecarRestarts

(* The application cancels the context, or its deadline passes.            *)
CtxEnds ==
    /\ Live /\ ctx' \in {"canceled", "deadline"}
    /\ UNCHANGED <<watchURL, sourceVars, events, runnerVars, stream, greeted,
                   sidecarVars, frames, faults>>

Next == SourceStep \/ RunnerStep \/ SidecarStep \/ CtxEnds

Spec == Init /\ [][Next]_vars

(* The goroutines are scheduled, the back-off timer fires, a dial and a    *)
(* register call get an answer (RequestTimeout bounds the call), a stream  *)
(* that opens is greeted and one that breaks ends.  Nothing obliges the    *)
(* sidecar to send anything else, to fail or not to fail.                  *)
Fairness ==
    /\ WF_vars(SourceCheck \/ SourceDialed)
    /\ WF_vars(SourceReadsGreeting)
    /\ WF_vars(SourceReadsEnd)
    /\ WF_vars(SourceAborts \/ SourceEmits)
    /\ WF_vars(SourceReturned \/ SourceReports)
    /\ WF_vars(SourceStops \/ SourceRedials)
    /\ WF_vars(RunnerStep)
    /\ WF_vars(SidecarAccepts)

FairSpec == Spec /\ Fairness

-----------------------------------------------------------------------------
(* Safety.                                                                 *)

(* A disconnect that the Controller has not been told about yet is on its  *)
(* way: the stream has ended but not been read to its end, the source is   *)
(* about to report it, it is queued, or Run is at OnDisconnected.          *)
DisconnectPending ==
    \/ stream = "broken"
    \/ srcPc \in {"returned", "report"}
    \/ \E i \in DOMAIN events : events[i].type = "disconnected"
    \/ rnPc = "down"

(* Every connected event Run receives leads to exactly one register call,  *)
(* counted once as a success or once as a failure (runtime.go:124-134,     *)
(* controller.go:58-105), whatever is cut, retried or canceled meanwhile.  *)
ReplayAccounting ==
    status.replayCount + status.replayFailureCount
        + (IF rnPc = "register" THEN 1 ELSE 0) = seen.connected

(* Every disconnect that Run has received is counted, or about to be; and  *)
(* as long as no replay has failed, nothing else is counted: not even a    *)
(* heartbeat, whose Connected is false, too (runtime.go:104-122).          *)
Disconnects == status.disconnectCount + (IF rnPc = "down" THEN 1 ELSE 0)
EveryDisconnectCounts ==
    /\ Disconnects >= seen.disconnected
    /\ status.replayFailureCount = 0 => Disconnects = seen.disconnected

(* What the comment of DisconnectCount says (status.go:23): it is the      *)
(* number of disconnects received, so a replay that fails on a healthy     *)
(* stream does not move it.                                                *)
DisconnectsAreReceived == status.disconnectCount <= seen.disconnected

(* While the context lives, a status that says registered although the     *)
(* sidecar does not hold the service is never left uncorrected: a          *)
(* disconnect that will reset it is on its way.  This is what the replay   *)
(* design of runtime.go rests on.  The one exception is a register that    *)
(* the sidecar declined with a 200 (DeclinedIsNotReplayed).                *)
Believed == status.registered /\ ~declined
NoSilentLoss ==
    Live /\ Believed /\ instance # "registered" => DisconnectPending

(* While the context lives, a status that says connected although the      *)
(* source has no stream is out of date only because a disconnect is on its *)
(* way: no event of an earlier stream survives the report of its end.      *)
NoStaleConnection ==
    Live /\ status.connected /\ stream = "none" => DisconnectPending

(* Why the two hold, as one invariant that every step preserves.  The      *)
(* source has a stream exactly while it reads it; a register call is open  *)
(* exactly while Run is in OnConnected; what the source holds after        *)
(* watchOnce is a disconnect, and never one before.                        *)
StreamWhileReading == stream # "none" <=> srcPc \in {"read", "emit"}
CallWhileRegistering == rnPc = "register" <=> call # "none"
HoldsDisconnectAfterWatch ==
    /\ srcPc = "emit" => pending.type # "disconnected"
    /\ srcPc \in {"returned", "report"} => pending.type = "disconnected"
DoneAfterCtx == srcPc = "done" => ~Live
SubscribedOnce == rnPc = "subscribe" => srcPc = "none"

(* Between two streams the last queued event is the disconnect that ended  *)
(* the first one; once Run has handled it, nothing of that stream is left. *)
Down == ~status.registered /\ ~status.connected /\ call = "none"
EndsInDisconnect ==
    IF events = <<>> THEN rnPc = "down" \/ Down
    ELSE events[Len(events)].type = "disconnected"
CleanBetweenStreams ==
    Live /\ srcPc \in {"none", "check", "dial", "backoff"} => EndsInDisconnect

(* An acknowledged register counts from the sidecar's answer on.           *)
LossPending ==
    Live /\ (Believed \/ call = "accepted") /\ instance # "registered"
        => DisconnectPending

(* The inductive invariant of watch_source.go:155-182 and                  *)
(* runtime.go:91-137 taken together.                                       *)
ChainInv ==
    /\ StreamWhileReading
    /\ CallWhileRegistering
    /\ HoldsDisconnectAfterWatch
    /\ DoneAfterCtx
    /\ SubscribedOnce
    /\ CleanBetweenStreams
    /\ LossPending

(* Source, queue, Run, Controller and sidecar together are a Replay: the   *)
(* status follows the sidecar through every interleaving of restarts, cuts *)
(* and late answers (watch_source.go:155-182, runtime.go:91-137).          *)
Promise == INSTANCE Replay WITH
    live <- Live,
    held <- instance = "registered",
    believed <- Believed,
    doubt <- DisconnectPending
FollowsSidecar == Promise!Spec

(* What the comment of SidecarAPIError says (error.go:112): a failed       *)
(* result is an error of the call, so it never counts as a replay.         *)
DeclinedIsNotReplayed ==
    [][call = "declined" => status'.replayCount = status.replayCount]_vars

(* Liveness.                                                               *)

(* Once the context has ended, the source's goroutine and Run both return, *)
(* even when the events channel is full and nobody reads it any more.      *)
CancelStops == ~Live ~> rnPc = "done" /\ srcPc \in {"none", "done"}

(* After the stream breaks, register is called again, or the context ends. *)
ReplayAfterBreak == stream = "broken" ~> rnPc = "register" \/ ~Live

(* A status that says registered is given up, at the latest by             *)
(* OnDisconnected, once a disconnect is on its way: what is lost is        *)
(* noticed (runtime.go:120-129).                                           *)
DoubtIsResolved == Promise!DoubtEnds

(* When the faults are over, the service ends up registered, or the last   *)
(* replay was refused: the status says so (or, declined with a 200, does   *)
(* not), and waits for the next stream                                     *)
(* (agent/README.md:51 "等待下一轮重连").                                  *)
Settles ==
    <>[](\/ ~Live \/ runResult # "none"
         \/ status.registered /\ (instance = "registered" \/ declined)
         \/ ~status.registered /\ status.lastErrorKind = "register_replay")
=============================================================================
