---------------------------- MODULE MCWatchStream ----------------------------
(* Frames in the forms that the tests of watch_source.go send, and the     *)
(* ones it has a branch for.                                               *)
EXTENDS WatchStream

MCDocuments ==
    [connected |-> [event |-> "connected", message |-> "hello"],
     heartbeat |-> [event |-> "heartbeat"],
     whole     |-> [event |-> "connected"],
     okMessage |-> [message |-> "ok"],
     empty     |-> [x \in {} |-> "blank"]]

Line(field, value) == [field |-> field, value |-> value]
Frame(lines, type, id) == [lines |-> Append(lines, Blank), type |-> type, id |-> id]

MCFrames ==
    { Frame(<<Line("id", "1"), Line("event", "connected"), Line("data", "connected")>>,
            "connected", "1"),
      Frame(<<Line("event", "heartbeat"), Line("data", "empty")>>,
            "heartbeat", "blank"),
      Frame(<<Line("event", "heartbeat"), Line("data", "connected")>>,
            "connected", "blank"),
      Frame(<<Line("event", "connected"), Line("data", "head"), Line("data", "tail")>>,
            "connected", "blank"),
      Frame(<<Line("data", "ok")>>, "connected", "blank"),
      Frame(<<Line("data", "okMessage")>>, "connected", "blank"),
      Frame(<<Line("data", "empty")>>, "ignored", "blank"),
      Frame(<<Line("event", "disconnected"), Line("id", "2")>>, "ignored", "blank"),
      Frame(<<Line("comment", "blank")>>, "ignored", "blank"),
      Frame(<<Line("event", "heartbeat"), Line("data", "head")>>, "bad", "blank") }
=============================================================================
