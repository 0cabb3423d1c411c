----------------------------- MODULE Controller -----------------------------
(***************************************************************************)
(* The status snapshot that agent.Controller keeps behind its lock, and    *)
(* what each of its methods does to it (src/agent/controller.go).  Every   *)
(* operator below is one critical section: it takes the snapshot before    *)
(* and returns the snapshot after.  Times are the number of watch events   *)
(* handled so far (0: never); texts, ids and the fixed service name and    *)
(* port are left out.                                                      *)
(*                                                                         *)
(* Def_What, before Def, is Def with a plausible bug; nothing uses it.     *)
(***************************************************************************)
EXTENDS Naturals

EventTypes == {"connected", "heartbeat", "disconnected"}

(* classifyStatusError; "none" stands for the empty string.                *)
WatchErrorKinds ==
    {"watch_stream_closed", "watch_http_status", "watch_event_parse",
     "runtime_error"}
ErrorKinds == WatchErrorKinds \cup {"register_replay", "none"}

(* A ConnectionEvent; err is the kind of the error it carries.             *)
Events == [type : EventTypes, err : WatchErrorKinds \cup {"none"}]
Event(t)      == [type |-> t, err |-> "none"]
Disconnect(e) == [type |-> "disconnected", err |-> e]

(* ConnectionEvent.Connected as emitWatchEvent fills it in: a heartbeat    *)
(* carries the zero value.                                                 *)
Connected(event) == event.type = "connected"

Statuses ==
    [connected : BOOLEAN, registered : BOOLEAN,
     lastEventType : EventTypes \cup {"none"},
     lastConnectedAt : Nat, lastDisconnectedAt : Nat,
     disconnectCount : Nat, replayCount : Nat, replayFailureCount : Nat,
     lastErrorKind : ErrorKinds]

NewController ==
    [connected |-> FALSE, registered |-> FALSE, lastEventType |-> "none",
     lastConnectedAt |-> 0, lastDisconnectedAt |-> 0,
     disconnectCount |-> 0, replayCount |-> 0, replayFailureCount |-> 0,
     lastErrorKind |-> "none"]

ObserveEvent(status, event, now) ==
    [status EXCEPT
        !.lastEventType = event.type,
        !.lastConnectedAt =
            IF event.type = "connected" \/ Connected(event) THEN now ELSE @,
        !.lastDisconnectedAt =
            IF event.type = "disconnected" \/ ~Connected(event) THEN now ELSE @]

(* OnConnected after Register has answered: the success section.           *)
OnConnected_LeavesRegistered(status, now) ==
    [status EXCEPT !.connected = TRUE, !.lastConnectedAt = now,
                   !.replayCount = @ + 1]
OnConnected(status, now) ==
    [status EXCEPT !.connected = TRUE, !.registered = TRUE,
                   !.lastConnectedAt = now, !.replayCount = @ + 1]

(* OnConnected after Register has failed: the failure section.             *)
ReplayFailed_Uncounted(status) ==
    [status EXCEPT !.lastErrorKind = "register_replay"]
ReplayFailed(status) ==
    [status EXCEPT !.replayFailureCount = @ + 1,
                   !.lastErrorKind = "register_replay"]

OnDisconnected_KeepsRegistered(status, now) ==
    [status EXCEPT !.connected = FALSE, !.disconnectCount = @ + 1,
                   !.lastDisconnectedAt = now]
OnDisconnected(status, now) ==
    [status EXCEPT !.connected = FALSE, !.registered = FALSE,
                   !.disconnectCount = @ + 1, !.lastDisconnectedAt = now]

RecordError(status, kind) ==
    IF kind = "none" THEN status ELSE [status EXCEPT !.lastErrorKind = kind]
=============================================================================
