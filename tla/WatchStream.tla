----------------------------- MODULE WatchStream -----------------------------
(***************************************************************************)
(* One stream of the sidecar's /watch as WatchSource.watchOnce reads it    *)
(* (src/agent/watch_source.go): lines are collected into SSE frames, a     *)
(* frame is decoded into a connection event or ignored, and the stream     *)
(* ends by EOF, by a read error, by a frame that is not JSON but looks     *)
(* like it, or with the context.  The connection may be cut anywhere, also *)
(* inside a line.  WatchReplay is about what happens to the events after   *)
(* they are sent; here the consumer takes each of them in the end.         *)
(*                                                                         *)
(* A line is its field and a token for its value; "blank" is a value that  *)
(* is empty or white space.  A token of Documents is a JSON document, the  *)
(* tokens "head" and "tail" are the two lines of the document "whole", and *)
(* "part" is a proper prefix of a text that is not JSON.                   *)
(*                                                                         *)
(* Def_What, before Def, is Def with a plausible bug; nothing uses it.     *)
(***************************************************************************)
EXTENDS Naturals, SequencesExt

CONSTANTS
    Documents,     \* JSON documents by token: the fields each one sets
    SidecarFrames, \* frames the sidecar writes: their lines, and the type and
                   \* id of the event each one stands for
    MaxFrames      \* bound: whole frames before the end of the stream

Blank == [field |-> "blank", value |-> "blank"]
None  == [field |-> "none", value |-> "blank"]
Values == {"blank", "whole", "head", "part"}
          \cup UNION {{f.lines[i].value : i \in DOMAIN f.lines} : f \in SidecarFrames}
Lines == [field : {"event", "data", "id", "comment", "noise", "blank"}, value : Values]

(* A frame is lines with a blank one at its end, and only there. *)
ASSUME WatchStreamAssumption ==
    /\ MaxFrames \in Nat
    /\ "whole" \in DOMAIN Documents
    /\ {"head", "tail", "part", "blank"} \cap DOMAIN Documents = {}
    /\ \A t \in DOMAIN Documents : DOMAIN Documents[t] \subseteq {"event", "message"}
    /\ \A f \in SidecarFrames :
          /\ f.lines \in Seq(Lines) /\ f.lines # <<>> /\ Last(f.lines) = Blank
          /\ \A i \in 1..Len(f.lines) - 1 : f.lines[i].field # "blank"

VARIABLES
    ctx,         \* is the context of watchOnce live?
    connection,  \* open, eof or failed: how the reader finds it at the end
    unread,      \* complete lines on their way
    rest,        \* the line without a newline that the cut left, or None
    frames,      \* history: the whole frames written
    cut,         \* history: the frame that was being written at the end
    pc,          \* read, send or returned
    then,        \* what follows the send: read, or the result to return
    currentEventName, currentEventID, dataLines,
    event,       \* the event to send
    pool,        \* the payload that watchEventPayloadPool holds
    sent,        \* history: the events sent
    result       \* what watchOnce returned

sidecarVars == <<connection, unread, rest, frames, cut>>
frameVars   == <<currentEventName, currentEventID, dataLines>>
vars == <<ctx, sidecarVars, pc, then, frameVars, event, pool, sent, result>>

Payload == [event |-> "blank", message |-> "blank"]
NoFrame == [lines |-> <<>>, type |-> "ignored", id |-> "blank"]
Results == {"watch_stream_closed", "watch_event_parse", "runtime_error"}

(* Type invariant.  The events are those that WatchReplay takes from a     *)
(* stream, and no others.                                                  *)
TypeOK ==
    /\ ctx \in BOOLEAN
    /\ connection \in {"open", "eof", "failed"}
    /\ frames \in Seq(SidecarFrames) /\ Len(frames) <= MaxFrames
    /\ cut \in SidecarFrames \cup {NoFrame}
    /\ pc \in {"read", "send", "returned"}
    /\ then \in {"read"} \cup Results
    /\ \A e \in ToSet(sent) : e.type \in {"connected", "heartbeat"}
    /\ result \in {"none"} \cup Results
    /\ pc = "returned" <=> result # "none"

Init ==
    /\ ctx = TRUE
    /\ connection = "open" /\ unread = <<>> /\ rest = None
    /\ frames = <<>> /\ cut = NoFrame
    /\ pc = "read" /\ then = "read"
    /\ currentEventName = "blank" /\ currentEventID = "blank"
    /\ dataLines = <<>>
    /\ event = [type |-> "message", id |-> "blank", message |-> "blank"]
    /\ pool = Payload
    /\ sent = <<>> /\ result = "none"

-----------------------------------------------------------------------------
(* The sidecar and the connection.                                         *)

SidecarWrites(frame) ==
    /\ connection = "open" /\ Len(frames) < MaxFrames
    /\ frames' = Append(frames, frame)
    /\ unread' = unread \o frame.lines
    /\ UNCHANGED <<ctx, connection, rest, cut, pc, then, frameVars, event,
                   pool, sent, result>>

(* What a cut can leave of a line: something without a colon, a field      *)
(* without a value, a part of the value, or all of it but the newline.     *)
Remains(line) ==
    CASE line = Blank -> {None}
      [] line.field \in {"comment", "noise"} -> {None, line}
      [] OTHER ->
           {None, [field |-> "noise", value |-> "blank"], line}
           \cup [field : {line.field},
                 value : {"blank", IF line.value \in DOMAIN Documents \cup {"head"}
                                   THEN "head" ELSE "part"}]

(* The stream ends between two frames, or somewhere in one, cleanly or     *)
(* with a read error.                                                      *)
ConnectionEnds(how) ==
    /\ connection = "open" /\ connection' = how
    /\ \/ UNCHANGED <<unread, rest, cut>>
       \/ \E frame \in SidecarFrames : \E n \in 1..Len(frame.lines) :
             /\ cut' = frame
             /\ unread' = unread \o SubSeq(frame.lines, 1, n - 1)
             /\ rest' \in Remains(frame.lines[n])
    /\ UNCHANGED <<ctx, frames, pc, then, frameVars, event, pool, sent, result>>

ContextEnds ==
    /\ ctx /\ ctx' = FALSE
    /\ UNCHANGED <<sidecarVars, pc, then, frameVars, event, pool, sent, result>>

-----------------------------------------------------------------------------
(* emitWatchEvent up to its send.                                          *)

(* The lines of data that are not blank: joinDataLines, as far as JSON and *)
(* TrimSpace tell the difference.                                          *)
NotBlank(data) ==
    LET kept[n \in 0..Len(data)] ==
          IF n = 0 THEN <<>>
          ELSE IF data[n] = "blank" THEN kept[n-1] ELSE Append(kept[n-1], data[n])
    IN kept
joinDataLines(data) ==
    LET pieces == NotBlank(data)[Len(data)]
    IN IF pieces = <<"head", "tail">> THEN <<"whole">> ELSE pieces

IsDocument(text) == Len(text) = 1 /\ text[1] \in DOMAIN Documents
looksLikeJSON(text) ==
    text # <<>> /\ text[1] \in DOMAIN Documents \cup {"head"}

(* The payload taken from the pool is cleared, so a document leaves the    *)
(* fields it does not set blank.                                           *)
Cleared_AsFound == pool
Cleared == Payload
Unmarshal(document) ==
    [field \in DOMAIN Payload |->
        IF field \in DOMAIN document THEN document[field] ELSE Cleared[field]]

(* The payload of a frame whose data reads text.                           *)
Decoded(text) ==
    IF IsDocument(text) THEN Unmarshal(Documents[text[1]])
    ELSE [event |-> "blank",
          message |-> IF Len(text) = 1 THEN text[1]
                      ELSE IF text = <<>> THEN "blank" ELSE "part"]

BadFrame(data) ==
    looksLikeJSON(joinDataLines(data)) /\ ~IsDocument(joinDataLines(data))

(* The event that a frame stands for: its payload's type before the header *)
(* and "message" without either; the old form of a greeting is "ok".       *)
EventOf_UnknownIsAlive(name, id, data) ==
    LET payload == Decoded(joinDataLines(data))
        type == CASE payload.event # "blank" -> payload.event
                  [] payload.event = "blank" /\ name # "blank" -> name
                  [] OTHER -> "message"
    IN [type |-> IF type = "connected" THEN "connected" ELSE "heartbeat",
        id |-> id, message |-> payload.message]
EventOf(name, id, data) ==
    LET payload == Decoded(joinDataLines(data))
        type == CASE payload.event # "blank" -> payload.event
                  [] payload.event = "blank" /\ name # "blank" -> name
                  [] OTHER -> "message"
    IN [type |-> IF type = "message" /\ payload.message = "ok"
                 THEN "connected" ELSE type,
        id |-> id, message |-> payload.message]

Alive == {"connected", "heartbeat"}
Ignored_MessagesOnly(e) == e.type = "message"
Ignored(e) == e.type \notin Alive

Returns(err) ==
    /\ pc' = "returned" /\ result' = err
    /\ UNCHANGED <<then, event>>

(* Emit the collected frame, then go on reading or return next.            *)
Emits(name, id, data, next) ==
    IF BadFrame(data)
    THEN Returns("watch_event_parse") /\ pool' = Payload
    ELSE LET e == EventOf(name, id, data)
             text == joinDataLines(data) IN
         /\ pool' = IF text = <<>> THEN pool
                    ELSE IF IsDocument(text) THEN Unmarshal(Documents[text[1]])
                    ELSE Payload
         /\ IF Ignored(e)
            THEN IF next = "read"
                 THEN pc' = "read" /\ UNCHANGED <<then, event, result>>
                 ELSE Returns(next)
            ELSE pc' = "send" /\ event' = e /\ then' = next /\ UNCHANGED result

-----------------------------------------------------------------------------
(* watchOnce.                                                              *)

Clear_KeepsName ==
    /\ currentEventID' = "blank" /\ dataLines' = <<>>
    /\ UNCHANGED currentEventName
Clear ==
    /\ currentEventName' = "blank" /\ currentEventID' = "blank"
    /\ dataLines' = <<>>

(* ReadString returns a line, and at the end what is left with the error;  *)
(* after that, nothing with the error, each time.                          *)
Reads(line, err) ==
    \/ /\ unread # <<>>
       /\ line = Head(unread) /\ err = "none"
       /\ unread' = Tail(unread) /\ UNCHANGED rest
    \/ /\ unread = <<>> /\ connection # "open"
       /\ line = (IF rest = None THEN Blank ELSE rest) /\ err = connection
       /\ rest' = None /\ UNCHANGED unread

ReadsBlank_SpinsOnEOF(err) ==
    /\ Emits(currentEventName, currentEventID, dataLines,
             IF err = "failed" THEN "runtime_error" ELSE "read")
    /\ Clear
ReadsBlank(err) ==
    /\ Emits(currentEventName, currentEventID, dataLines,
             CASE err = "none"   -> "read"
               [] err = "eof"    -> "watch_stream_closed"
               [] err = "failed" -> "runtime_error")
    /\ Clear

(* A comment is skipped, with the error that came with it.                 *)
ReadsComment ==
    /\ pc' = "read"
    /\ UNCHANGED <<then, frameVars, event, pool, result>>

(* Any other line counts if it is a field we know; one that came with EOF  *)
(* is the last of its frame, one that came with an error is lost.          *)
ReadsField(line, err) ==
    /\ currentEventName' = IF line.field = "event" THEN line.value
                                                   ELSE currentEventName
    /\ currentEventID' = IF line.field = "id" THEN line.value ELSE currentEventID
    /\ dataLines' = IF line.field = "data" THEN Append(dataLines, line.value)
                                           ELSE dataLines
    /\ CASE err = "none" ->
              pc' = "read" /\ UNCHANGED <<then, event, pool, result>>
         [] err = "eof" ->
              Emits(currentEventName', currentEventID', dataLines',
                    "watch_stream_closed")
         [] err = "failed" -> Returns("runtime_error") /\ UNCHANGED pool

NextLines ==
    IF unread # <<>> THEN {Head(unread)} ELSE {rest, Blank} \ {None}

ReaderReads ==
    /\ pc = "read" /\ ctx
    /\ \E line \in NextLines, err \in {"none", "eof", "failed"} :
          /\ Reads(line, err)
          /\ CASE line.field = "blank"   -> ReadsBlank(err)
               [] line.field = "comment" -> ReadsComment
               [] OTHER                  -> ReadsField(line, err)
    /\ UNCHANGED <<ctx, connection, frames, cut, sent>>

ReaderSends ==
    /\ pc = "send"
    /\ sent' = Append(sent, event)
    /\ IF then = "read" THEN pc' = "read" /\ UNCHANGED result
                        ELSE pc' = "returned" /\ result' = then
    /\ UNCHANGED <<ctx, sidecarVars, then, frameVars, event, pool>>

(* The read and the send give up when the context has ended.               *)
ReaderAborts ==
    /\ pc \in {"read", "send"} /\ ~ctx
    /\ pc' = "returned" /\ result' = "runtime_error"
    /\ UNCHANGED <<ctx, sidecarVars, then, frameVars, event, pool, sent>>

Next ==
    \/ \E frame \in SidecarFrames : SidecarWrites(frame)
    \/ \E how \in {"eof", "failed"} : ConnectionEnds(how)
    \/ ContextEnds
    \/ ReaderReads \/ ReaderSends \/ ReaderAborts

Spec == Init /\ [][Next]_vars

(* The goroutine is scheduled and its consumer takes what it sends.        *)
Fairness == WF_vars(ReaderReads) /\ WF_vars(ReaderSends) /\ WF_vars(ReaderAborts)
FairSpec == Spec /\ Fairness

-----------------------------------------------------------------------------
(* The frames given as a constant come with what they stand for.  It is    *)
(* what the format says of their lines: the last value of a field counts;  *)
(* a type in the payload counts before the header's; without any, a        *)
(* message "ok" is the greeting of an old sidecar.                         *)
NoFields == [name |-> "blank", id |-> "blank", data |-> <<>>]
Collect(c, l) ==
    CASE l.field = "event" -> [c EXCEPT !.name = l.value]
      [] l.field = "id"    -> [c EXCEPT !.id = l.value]
      [] l.field = "data"  -> [c EXCEPT !.data = Append(@, l.value)]
      [] OTHER -> c
Collected(lines) ==
    LET upTo[n \in 0..Len(lines)] ==
          IF n = 0 THEN NoFields ELSE Collect(upTo[n-1], lines[n])
    IN upTo

Field(text, field) ==
    IF IsDocument(text) /\ field \in DOMAIN Documents[text[1]]
    THEN Documents[text[1]][field] ELSE "blank"
Greets(text) ==
    IF IsDocument(text) THEN Field(text, "message") = "ok" ELSE text = <<"ok">>

StandsFor(name, data) ==
    LET text  == joinDataLines(data)
        named == IF Field(text, "event") # "blank" THEN Field(text, "event") ELSE name
    IN CASE BadFrame(data) -> "bad"
         [] ~BadFrame(data) /\ named \in Alive -> named
         [] ~BadFrame(data) /\ named \in {"blank", "message"} /\ Greets(text)
              -> "connected"
         [] OTHER -> "ignored"

ASSUME FramesAssumption ==
    \A f \in SidecarFrames :
       LET c == Collected(f.lines)[Len(f.lines)]
       IN f.type = StandsFor(c.name, c.data) /\ (f.type \in Alive => f.id = c.id)

(* What the whole frames stand for, up to the first bad one.               *)
MeantBy(fs) ==
    LET meant[n \in 0..Len(fs)] ==
          IF n = 0 THEN <<>>
          ELSE IF fs[n].type = "ignored" \/ \E i \in 1..n : fs[i].type = "bad"
               THEN meant[n-1] ELSE Append(meant[n-1], fs[n])
    IN meant
Meant == MeantBy(frames)[Len(frames)]

Means(e, f) == e.type = f.type /\ e.id = f.id

(* Every whole frame is decoded by its own lines alone, and the events are *)
(* sent in the order of the frames, each once, whatever was read before    *)
(* (watch_source.go:218-289): nothing of a frame or of a pooled payload    *)
(* leaks into the next; and a stream that is reported as closed has        *)
(* delivered all of its frames.                                            *)
FramesDispatched ==
    /\ \A i \in DOMAIN sent : i <= Len(Meant) => Means(sent[i], Meant[i])
    /\ Len(sent) > Len(Meant) => cut # NoFrame /\ Len(sent) = Len(Meant) + 1
    /\ result = "watch_stream_closed" => Len(sent) >= Len(Meant)

(* A frame that agrees with itself, cut anywhere, is dispatched as the     *)
(* event it would have been, or not at all (watch_source.go:273): half a   *)
(* frame, or half a line, never invents a connection or a heartbeat.  It   *)
(* agrees with itself when no line of it, the header or a part of the      *)
(* payload, stands for another event than the whole of it.                 *)
Says(line) ==
    LET text == IF line.value = "tail" THEN <<"whole">> ELSE <<line.value>>
    IN CASE line.field = "event" -> {line.value}
         [] line.field = "data"  -> {Field(text, "event")}
                                    \cup (IF Greets(text) THEN {"connected"} ELSE {})
         [] OTHER -> {}
Agrees(f) == \A l \in ToSet(f.lines) : Says(l) \cap Alive \subseteq {f.type}
CutInventsNothing ==
    Len(sent) > Len(Meant) /\ Agrees(cut) => Last(sent).type = cut.type

(* Whatever was read last, and wherever the cut fell, a stream that has    *)
(* ended makes watchOnce return instead of reading the end again and again *)
(* (watch_source.go:239-241).                                              *)
EndedStreamReturns == connection # "open" ~> pc = "returned"
=============================================================================
