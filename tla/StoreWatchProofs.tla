--------------------------- MODULE StoreWatchProofs ---------------------------
(***************************************************************************)
(* The events of a Watch, for any number of Watches and any capacity of    *)
(* their channels: nothing is repeated, reordered or overtaken.            *)
(***************************************************************************)
EXTENDS StoreWatch, SequenceTheorems, TLAPS

Increasing(q) == \A i, j \in DOMAIN q : i < j => q[i].index < q[j].index
Below(q, n)   == \A i \in DOMAIN q : q[i].index <= n

(* Sending what is about to be sent, and receiving what is in the channel, *)
(* do not change the stream.                                               *)
LEMMA StreamMoves ==
    ASSUME NEW a \in Seq(WatchEvents), NEW b \in Seq(WatchEvents),
           NEW e \in WatchEvents
    PROVE  /\ (a \o Append(b, e)) \o <<>> = (a \o b) \o <<e>>
           /\ b # <<>> => Append(a, Head(b)) \o Tail(b) = a \o b
<1>1. (a \o Append(b, e)) \o <<>> = (a \o b) \o <<e>>
  OBVIOUS
<1>2. ASSUME b # <<>> PROVE Append(a, Head(b)) \o Tail(b) = a \o b
  BY <1>2
<1> QED
  BY <1>1, <1>2

(* A newer event at the end keeps a stream increasing.                     *)
LEMMA StreamGrows ==
    ASSUME NEW q \in Seq(WatchEvents), NEW e \in WatchEvents, NEW n \in Nat,
           Increasing(q), Below(q, n), n < e.index
    PROVE  Increasing(q \o <<e>>) /\ Below(q \o <<e>>, e.index)
           /\ q \o <<e>> \in Seq(WatchEvents)
<1> DEFINE r == q \o <<e>>
<1>1. r = Append(q, e) /\ r \in Seq(WatchEvents) /\ Len(r) = Len(q) + 1
      /\ Len(q) \in Nat
  OBVIOUS
<1>2. /\ DOMAIN r = 1..(Len(q) + 1) /\ DOMAIN q = 1..Len(q)
      /\ r[Len(q) + 1] = e
      /\ \A i \in 1..Len(q) : r[i] = q[i]
  BY <1>1
<1>3. \A i \in DOMAIN q : q[i].index \in Nat /\ q[i].index < e.index
  <2>1. \A i \in DOMAIN q : q[i] \in WatchEvents
    OBVIOUS
  <2>2. \A f \in WatchEvents : f.index \in Nat
    BY DEF WatchEvents
  <2> QED
    BY <2>1, <2>2 DEF Below
<1>4. ASSUME NEW i \in DOMAIN r, NEW j \in DOMAIN r, i < j
      PROVE  r[i].index < r[j].index
  <2>1. i \in DOMAIN q /\ r[i] = q[i]
    BY <1>1, <1>2, <1>4
  <2>2. CASE j \in DOMAIN q
    BY <1>2, <1>4, <2>1, <2>2 DEF Increasing
  <2>3. CASE j \notin DOMAIN q
    <3>1. j = Len(q) + 1
      BY <1>1, <1>2, <2>3
    <3> QED
      BY <1>2, <1>3, <2>1, <3>1
  <2> QED
    BY <2>2, <2>3
<1>5. ASSUME NEW i \in DOMAIN r PROVE r[i].index <= e.index
  <2>1. CASE i \in DOMAIN q
    BY <1>2, <1>3, <2>1 DEF WatchEvents
  <2>2. CASE i \notin DOMAIN q
    <3>1. r[i] = e
      BY <1>1, <1>2, <2>2
    <3> QED
      BY <3>1 DEF WatchEvents
  <2> QED
    BY <2>1, <2>2
<1> QED
  BY <1>1, <1>4, <1>5 DEF Increasing, Below

(* Giving up what was about to be sent keeps it increasing, too.           *)
LEMMA StreamDrops ==
    ASSUME NEW q \in Seq(WatchEvents), NEW e \in WatchEvents, NEW n \in Nat,
           Increasing(q \o <<e>>), Below(q \o <<e>>, n)
    PROVE  Increasing(q) /\ Below(q, n)
<1> DEFINE r == q \o <<e>>
<1>1. r = Append(q, e) /\ Len(r) = Len(q) + 1 /\ Len(q) \in Nat
  OBVIOUS
<1>2. /\ \A i \in DOMAIN q : i \in DOMAIN r /\ r[i] = q[i]
  BY <1>1
<1> QED
  BY <1>2 DEF Increasing, Below

(* A bound on a stream may rise.                                           *)
LEMMA BelowRises ==
    ASSUME NEW q \in Seq(WatchEvents), NEW m \in Nat, NEW n \in Nat,
           Below(q, m), m <= n
    PROVE  Below(q, n)
<1>1. \A i \in DOMAIN q : q[i] \in WatchEvents
  OBVIOUS
<1>2. \A f \in WatchEvents : f.index \in Nat
  BY DEF WatchEvents
<1> QED
  BY <1>1, <1>2 DEF Below

-----------------------------------------------------------------------------
(* The variables keep their types and a channel its capacity: one step for *)
(* each action.                                                            *)
LEMMA TypeStep == TypeOK /\ [Next]_vars => TypeOK'
<1> SUFFICES ASSUME TypeOK, [Next]_vars PROVE TypeOK'
  OBVIOUS
<1> USE StoreWatchAssumption
<1>1. /\ kv.kind \in Kinds /\ kv.index \in 1..MaxIndex
      /\ kv.epoch \in 0..MaxEpoch
  BY DEF TypeOK, Values
<1>2. ASSUME NEW w \in Watches, Watch(w) PROVE TypeOK'
  BY <1>2 DEF TypeOK, Watch, Goto
<1>3. ASSUME NEW w \in Watches, ContextEnds(w) PROVE TypeOK'
  BY <1>3 DEF TypeOK, ContextEnds, watchVars
<1>4. ASSUME NEW w \in Watches, Receives(w) PROVE TypeOK'
  <2>1. /\ out[w] \in Seq(WatchEvents) /\ out[w] # <<>>
        /\ got[w] \in Seq(WatchEvents) /\ Len(out[w]) <= WatchBuffer
    BY <1>4 DEF TypeOK, Receives
  <2>2. /\ Tail(out[w]) \in Seq(WatchEvents) /\ Head(out[w]) \in WatchEvents
        /\ Len(Tail(out[w])) <= WatchBuffer
        /\ Append(got[w], Head(out[w])) \in Seq(WatchEvents)
    BY <2>1
  <2>3. /\ out' \in [Watches -> Seq(WatchEvents)]
        /\ got' \in [Watches -> Seq(WatchEvents)]
        /\ \A v \in Watches : Len(out'[v]) <= WatchBuffer
    BY <1>4, <2>2 DEF TypeOK, Receives
  <2> QED
    BY <1>4, <2>3 DEF TypeOK, Receives
<1>5. ASSUME NEW w \in Watches, LoopChecks(w) PROVE TypeOK'
  BY <1>5 DEF TypeOK, LoopChecks, Goto
<1>6. ASSUME NEW w \in Watches, QueryAnswers(w) PROVE TypeOK'
  <2>1. waitIndex' \in [Watches -> 0..MaxIndex]
    BY <1>1, <1>6 DEF TypeOK, QueryAnswers
  <2>2. CASE kv.kind = "bad"
    BY <1>6, <2>1, <2>2 DEF TypeOK, QueryAnswers, Goto
  <2>3. CASE kv.kind # "bad"
    <3>1. kv \in WatchEvents
      BY <2>3 DEF TypeOK, Values, Kinds, WatchEvents
    <3> QED
      BY <1>6, <2>1, <2>3, <3>1 DEF TypeOK, QueryAnswers, Goto
  <2> QED
    BY <2>2, <2>3
<1>7. ASSUME NEW w \in Watches, QueryStops(w) PROVE TypeOK'
  BY <1>7 DEF TypeOK, QueryStops, Goto
<1>8. ASSUME NEW w \in Watches, Sends(w) PROVE TypeOK'
  <2>1. /\ out[w] \in Seq(WatchEvents) /\ event[w] \in WatchEvents
        /\ Len(out[w]) < WatchBuffer
    BY <1>8 DEF TypeOK, Sends
  <2>2. /\ Append(out[w], event[w]) \in Seq(WatchEvents)
        /\ Len(Append(out[w], event[w])) <= WatchBuffer
    BY <2>1
  <2>3. /\ out' \in [Watches -> Seq(WatchEvents)]
        /\ \A v \in Watches : Len(out'[v]) <= WatchBuffer
    BY <1>8, <2>2 DEF TypeOK, Sends
  <2> QED
    BY <1>8, <2>3 DEF TypeOK, Sends, Goto
<1>9. ASSUME NEW w \in Watches, SendStops(w) PROVE TypeOK'
  BY <1>9 DEF TypeOK, SendStops, Goto
<1>10. ASSUME NEW w \in Watches, Cleanup(w) PROVE TypeOK'
  BY <1>10 DEF TypeOK, Cleanup, Goto
<1>11. ASSUME NEW w \in Watches, Closes(w) PROVE TypeOK'
  BY <1>11 DEF TypeOK, Closes, Goto
<1>12. CASE Unwatch
  <2>1. \A w \in Watches : (canceled[w] \/ w = watchCancels) \in BOOLEAN
    BY Zenon
  <2>2. canceled' \in [Watches -> BOOLEAN]
    BY <1>12, <2>1, Zenon DEF Unwatch
  <2> QED
    BY <1>12, <2>2 DEF TypeOK, Unwatch, watchVars
<1>13. ASSUME NEW kind \in Kinds, KVChanges(kind) PROVE TypeOK'
  BY <1>1, <1>13 DEF TypeOK, KVChanges, Values, watchVars
<1>14. ASSUME NEW kind \in Kinds, NEW index \in 1..MaxIndex,
              ConsulRestores(kind, index)
       PROVE  TypeOK'
  BY <1>1, <1>14 DEF TypeOK, ConsulRestores, Values, watchVars
<1>15. CASE UNCHANGED vars
  BY <1>15 DEF TypeOK, vars, watchVars
<1> QED
  BY <1>2, <1>3, <1>4, <1>5, <1>6, <1>7, <1>8, <1>9, <1>10, <1>11, <1>12,
     <1>13, <1>14, <1>15 DEF Next, WatchStep

(* Every variable keeps its type; in particular a channel of Watch never   *)
(* holds more than its capacity, for any number of Watches and any         *)
(* capacity (watch.go:38).                                                 *)
THEOREM TypeCorrect == Spec => []TypeOK
<1>1. Init => TypeOK
  <2> SUFFICES ASSUME Init PROVE TypeOK
    OBVIOUS
  <2>1. /\ kv \in Values
        /\ NoEvent \in WatchEvents
    BY StoreWatchAssumption DEF Init, Values, Kinds, NoEvent, WatchEvents
  <2> QED
    BY <2>1, StoreWatchAssumption DEF Init, TypeOK, None
<1> QED
  BY <1>1, TypeStep, PTL DEF Spec

-----------------------------------------------------------------------------
(* What makes the order inductive: the cursor of a Watch is at or beyond   *)
(* every event of its stream, so an answer beyond the cursor is newer than *)
(* all of them.                                                            *)
StreamInv ==
    \A w \in Watches :
        Increasing(Stream(w)) /\ Below(Stream(w), waitIndex[w])

(* A step that leaves what a Watch has, has in its channel and is about to *)
(* send as it is does not disturb its stream.                              *)
LEMMA StreamSame ==
    ASSUME StreamInv, NEW v \in Watches,
           got'[v] = got[v], out'[v] = out[v], event'[v] = event[v],
           (pc[v] = "send") <=> (pc'[v] = "send"),
           waitIndex'[v] = waitIndex[v]
    PROVE  (Increasing(Stream(v)) /\ Below(Stream(v), waitIndex[v]))'
<1>1. Stream(v)' = Stream(v)
  BY DEF Stream
<1> QED
  BY <1>1 DEF StreamInv, Increasing, Below

LEMMA StreamStep == TypeOK /\ StreamInv /\ [Next]_vars => StreamInv'
<1> SUFFICES ASSUME TypeOK, StreamInv, [Next]_vars,
                    NEW v \in Watches
             PROVE  (Increasing(Stream(v)) /\ Below(Stream(v), waitIndex[v]))'
  BY DEF StreamInv
<1> USE StoreWatchAssumption
<1> DEFINE q == got[v] \o out[v]
<1>1. /\ got[v] \in Seq(WatchEvents) /\ out[v] \in Seq(WatchEvents)
      /\ event[v] \in WatchEvents /\ waitIndex[v] \in Nat
      /\ q \in Seq(WatchEvents) /\ q \o <<>> = q
  <2>1. /\ got[v] \in Seq(WatchEvents) /\ out[v] \in Seq(WatchEvents)
        /\ event[v] \in WatchEvents /\ waitIndex[v] \in Nat
    BY DEF TypeOK
  <2> QED
    BY <2>1
<1>2. /\ pc[v] = "send" => Stream(v) = q \o <<event[v]>>
      /\ pc[v] # "send" => Stream(v) = q
  BY <1>1 DEF Stream
<1>3. Increasing(Stream(v)) /\ Below(Stream(v), waitIndex[v])
  BY DEF StreamInv
<1>4. ASSUME NEW w \in Watches,
             Watch(w) \/ ContextEnds(w) \/ LoopChecks(w) \/ QueryStops(w)
             \/ Cleanup(w) \/ Closes(w)
      PROVE  (Increasing(Stream(v)) /\ Below(Stream(v), waitIndex[v]))'
  <2>1. /\ got' = got /\ out' = out /\ event' = event
        /\ waitIndex' = waitIndex
        /\ (pc[v] = "send") <=> (pc'[v] = "send")
    BY <1>4 DEF TypeOK, Watch, ContextEnds, LoopChecks, QueryStops, Cleanup,
                Closes, Goto, watchVars
  <2> QED
    BY <2>1, StreamSame
<1>5. ASSUME NEW w \in Watches,
             Receives(w) \/ QueryAnswers(w) \/ Sends(w) \/ SendStops(w),
             w # v
      PROVE  (Increasing(Stream(v)) /\ Below(Stream(v), waitIndex[v]))'
  <2>1. /\ got'[v] = got[v] /\ out'[v] = out[v] /\ event'[v] = event[v]
        /\ waitIndex'[v] = waitIndex[v]
        /\ pc'[v] = pc[v]
    BY <1>5 DEF TypeOK, Receives, QueryAnswers, Sends, SendStops, Goto
  <2> QED
    BY <2>1, StreamSame
<1>6. ASSUME Receives(v)
      PROVE  (Increasing(Stream(v)) /\ Below(Stream(v), waitIndex[v]))'
  <2>1. /\ got'[v] = Append(got[v], Head(out[v])) /\ out'[v] = Tail(out[v])
        /\ out[v] # <<>> /\ event' = event /\ pc' = pc
        /\ waitIndex' = waitIndex
    BY <1>6 DEF TypeOK, Receives
  <2>2. got'[v] \o out'[v] = q
    <3> DEFINE a == got[v]
               b == out[v]
    <3>1. Append(a, Head(b)) \o Tail(b) = a \o b
      <4>1. a \in Seq(WatchEvents) /\ b \in Seq(WatchEvents) /\ b # <<>>
        BY <1>1, <2>1
      <4> HIDE DEF a, b
      <4> QED
        BY <1>1, <4>1, StreamMoves
    <3> QED
      BY <2>1, <3>1
  <2>3. Stream(v)' = Stream(v)
    BY <2>1, <2>2 DEF Stream
  <2> QED
    BY <1>3, <2>1, <2>3 DEF Increasing, Below
<1>7. ASSUME QueryAnswers(v)
      PROVE  (Increasing(Stream(v)) /\ Below(Stream(v), waitIndex[v]))'
  <2>1. /\ pc[v] = "query" /\ kv.index > waitIndex[v]
        /\ waitIndex'[v] = kv.index /\ kv.index \in Nat
        /\ got' = got /\ out' = out
    BY <1>7 DEF TypeOK, QueryAnswers, Values
  <2>2. Increasing(q) /\ Below(q, waitIndex[v])
    BY <1>2, <1>3, <2>1
  <2>3. CASE kv.kind = "bad"
    <3>1. Stream(v)' = q
      <4>1. pc'[v] = "loop"
        BY <1>7, <2>3 DEF TypeOK, QueryAnswers, Goto
      <4> QED
        BY <1>1, <2>1, <4>1 DEF Stream
    <3>2. Below(q, kv.index)
      <4>1. q \in Seq(WatchEvents) /\ waitIndex[v] \in Nat
        BY <1>1
      <4>2. waitIndex[v] <= kv.index /\ kv.index \in Nat
        BY <1>1, <2>1
      <4> HIDE DEF q
      <4> QED
        BY <2>2, <4>1, <4>2, BelowRises
    <3> QED
      BY <2>1, <2>2, <3>1, <3>2 DEF Increasing, Below
  <2>4. CASE kv.kind # "bad"
    <3>1. kv \in WatchEvents
      BY <2>4 DEF TypeOK, Values, Kinds, WatchEvents
    <3>2. Stream(v)' = q \o <<kv>>
      <4>1. pc'[v] = "send" /\ event'[v] = kv
        BY <1>7, <2>4 DEF TypeOK, QueryAnswers, Goto
      <4> QED
        BY <2>1, <4>1 DEF Stream
    <3>3. Increasing(q \o <<kv>>) /\ Below(q \o <<kv>>, kv.index)
      <4>1. waitIndex[v] < kv.index
        BY <1>1, <2>1
      <4> QED
        BY <1>1, <2>2, <3>1, <4>1, StreamGrows
    <3> QED
      BY <2>1, <3>2, <3>3 DEF Increasing, Below
  <2> QED
    BY <2>3, <2>4
<1>8. ASSUME Sends(v)
      PROVE  (Increasing(Stream(v)) /\ Below(Stream(v), waitIndex[v]))'
  <2>1. /\ pc[v] = "send" /\ pc'[v] = "loop" /\ got' = got
        /\ out'[v] = Append(out[v], event[v]) /\ waitIndex' = waitIndex
    BY <1>8 DEF TypeOK, Sends, Goto
  <2>2. (got[v] \o Append(out[v], event[v])) \o <<>> = q \o <<event[v]>>
    BY <1>1, StreamMoves
  <2>3. Stream(v)' = Stream(v)
    BY <1>2, <2>1, <2>2 DEF Stream
  <2> QED
    BY <1>3, <2>1, <2>3 DEF Increasing, Below
<1>9. ASSUME SendStops(v)
      PROVE  (Increasing(Stream(v)) /\ Below(Stream(v), waitIndex[v]))'
  <2>1. /\ pc[v] = "send" /\ pc'[v] = "cleanup" /\ got' = got /\ out' = out
        /\ waitIndex' = waitIndex
    BY <1>9 DEF TypeOK, SendStops, Goto
  <2>2. Stream(v)' = q
    BY <1>1, <2>1 DEF Stream
  <2>3. Increasing(q) /\ Below(q, waitIndex[v])
    <3>1. /\ q \in Seq(WatchEvents) /\ event[v] \in WatchEvents
          /\ waitIndex[v] \in Nat
      BY <1>1
    <3>2. /\ Increasing(q \o <<event[v]>>)
          /\ Below(q \o <<event[v]>>, waitIndex[v])
      BY <1>2, <1>3, <2>1
    <3> HIDE DEF q
    <3> QED
      BY <3>1, <3>2, StreamDrops
  <2> QED
    BY <2>1, <2>2, <2>3 DEF Increasing, Below
<1>10. ASSUME Unwatch \/ UNCHANGED vars
              \/ \E kind \in Kinds :
                    \/ KVChanges(kind)
                    \/ \E index \in 1..MaxIndex : ConsulRestores(kind, index)
       PROVE  (Increasing(Stream(v)) /\ Below(Stream(v), waitIndex[v]))'
  <2>1. /\ got' = got /\ out' = out /\ event' = event /\ pc' = pc
        /\ waitIndex' = waitIndex
    BY <1>10 DEF Unwatch, KVChanges, ConsulRestores, vars, watchVars
  <2> QED
    BY <2>1, StreamSame
<1> QED
  BY <1>4, <1>5, <1>6, <1>7, <1>8, <1>9, <1>10 DEF Next, WatchStep

LEMMA StreamStarts == Init => StreamInv
<1> SUFFICES ASSUME Init, NEW w \in Watches
             PROVE  Increasing(Stream(w)) /\ Below(Stream(w), waitIndex[w])
  BY DEF StreamInv
<1>1. Stream(w) = <<>>
  BY DEF Init, Stream
<1> QED
  BY <1>1 DEF Increasing, Below

(* Every event that a consumer of Watch sees is newer than the one before, *)
(* however slow the consumer, however small the channel and however many   *)
(* Watches the key has (watch.go:81-97).                                   *)
THEOREM EventsStayInOrder == Spec => []EventsInOrder
<1>1. StreamInv => EventsInOrder
  BY DEF StreamInv, EventsInOrder, Increasing
<1> QED
  BY <1>1, StreamStarts, StreamStep, TypeCorrect, PTL DEF Spec

-----------------------------------------------------------------------------
(* A Watch that is the only one ever called for its key can be ended by    *)
(* Unwatch as long as it runs, whatever interleaving (watch.go:30,112).    *)
THEOREM TheOnlyWatchIsReached == Spec => []UnwatchReachesTheOnlyWatch
<1>1. Init => UnwatchReachesTheOnlyWatch
  BY DEF Init, UnwatchReachesTheOnlyWatch, Running
<1>2. TypeOK /\ UnwatchReachesTheOnlyWatch /\ [Next]_vars
        => UnwatchReachesTheOnlyWatch'
  <2> SUFFICES ASSUME TypeOK, UnwatchReachesTheOnlyWatch, [Next]_vars,
                      NEW v \in Watches, Running(v)', watchCancels' # v
               PROVE  \E other \in Watches \ {v} : Started(other)'
    BY DEF UnwatchReachesTheOnlyWatch
  <2>1. \A w \in Watches : Started(w) => Started(w)'
    <3>1. \/ pc' = pc
          \/ \E w \in Watches, place \in {"loop", "query", "send", "cleanup",
                                         "close", "closed"} : Goto(w, place)
      BY DEF Next, WatchStep, Watch, ContextEnds, Receives, LoopChecks,
             QueryAnswers, QueryStops, Sends, SendStops, Cleanup, Closes,
             Unwatch, KVChanges, ConsulRestores, vars, watchVars
    <3> QED
      BY <3>1 DEF TypeOK, Started, Goto
  <2>2. ASSUME NEW w \in Watches, Watch(w)
        PROVE  \E other \in Watches \ {v} : Started(other)'
    BY <2>2 DEF TypeOK, Watch, Goto, Started
  <2>3. ASSUME NEW w \in Watches, Cleanup(w)
        PROVE  \E other \in Watches \ {v} : Started(other)'
    <3>1. w # v /\ Started(w)
      BY <2>3 DEF TypeOK, Cleanup, Goto, Running, Started
    <3> QED
      BY <2>1, <3>1
  <2>4. ASSUME \/ UNCHANGED vars \/ Unwatch
               \/ \E kind \in Kinds :
                     \/ KVChanges(kind)
                     \/ \E index \in 1..MaxIndex :
                           ConsulRestores(kind, index)
               \/ \E w \in Watches :
                     \/ ContextEnds(w) \/ Receives(w) \/ LoopChecks(w)
                     \/ QueryAnswers(w) \/ QueryStops(w) \/ Sends(w)
                     \/ SendStops(w) \/ Closes(w)
        PROVE  \E other \in Watches \ {v} : Started(other)'
    <3>1. watchCancels' = watchCancels
      BY <2>4 DEF ContextEnds, Receives, LoopChecks, QueryAnswers, QueryStops,
                  Sends, SendStops, Closes, Unwatch, KVChanges,
                  ConsulRestores, vars
    <3>2. Running(v)
      BY <2>4 DEF TypeOK, Running, ContextEnds, Receives, LoopChecks,
                  QueryAnswers, QueryStops, Sends, SendStops, Closes, Unwatch,
                  KVChanges, ConsulRestores, Goto, vars, watchVars
    <3>3. PICK other \in Watches \ {v} : Started(other)
      BY <3>1, <3>2 DEF UnwatchReachesTheOnlyWatch
    <3> QED
      BY <2>1, <3>3
  <2> QED
    BY <2>2, <2>3, <2>4 DEF Next, WatchStep
<1> QED
  BY <1>1, <1>2, TypeCorrect, PTL DEF Spec

-----------------------------------------------------------------------------
(* The refinement of Feed: one lemma for a step that changes what Feed     *)
(* sees of one Watch, and the actions by what they are to Feed.            *)
Streams == [w \in Watches |-> Stream(w)]
States == [w \in Watches |-> State(w)]

LEMMA OthersStay ==
    ASSUME NEW w \in Watches, NEW stream, NEW state,
           \A v \in Watches \ {w} :
               /\ got'[v] = got[v] /\ out'[v] = out[v]
               /\ event'[v] = event[v] /\ pc'[v] = pc[v],
           Stream(w)' = stream, State(w)' = state
    PROVE  /\ Streams' = [Streams EXCEPT ![w] = stream]
           /\ States' = [States EXCEPT ![w] = state]
<1>1. \A v \in Watches \ {w} : Stream(v)' = Stream(v)
  BY DEF Stream
<1>2. \A v \in Watches \ {w} : State(v)' = State(v)
  BY DEF State, Running
<1>3. Streams' = [v \in Watches |-> IF v = w THEN stream ELSE Stream(v)]
  BY <1>1 DEF Streams
<1>4. States' = [v \in Watches |-> IF v = w THEN state ELSE State(v)]
  BY <1>2 DEF States
<1> QED
  BY <1>3, <1>4 DEF Streams, States

LEMMA Stays ==
    ASSUME NEW w \in Watches
    PROVE  /\ [Streams EXCEPT ![w] = Stream(w)] = Streams
           /\ [States EXCEPT ![w] = State(w)] = States
BY DEF Streams, States

LEMMA FeedStep ==
    TypeOK /\ StreamInv /\ [Next]_vars => [Promise!Next]_(Promise!vars)
<1> SUFFICES ASSUME TypeOK, StreamInv, [Next]_vars
             PROVE  Promise!Next \/ UNCHANGED Promise!vars
  OBVIOUS
<1>1. ASSUME UNCHANGED kv, Streams' = Streams, States' = States
      PROVE  UNCHANGED Promise!vars
  BY <1>1 DEF Promise!vars, Streams, States
<1>2. ASSUME NEW w \in Watches, Watch(w) PROVE Promise!Opens(w)
  <2>1. /\ UNCHANGED <<kv, got, out, event>>
        /\ pc[w] = "idle" /\ pc'[w] = "loop"
        /\ \A v \in Watches \ {w} : pc'[v] = pc[v]
    BY <1>2 DEF TypeOK, Watch, Goto
  <2>2. Stream(w)' = Stream(w) /\ State(w) = "idle" /\ State(w)' = "open"
    BY <2>1 DEF Stream, State, Running
  <2>3. Streams' = Streams /\ States' = [States EXCEPT ![w] = "open"]
    BY <2>1, <2>2, OthersStay, Stays
  <2> QED
    BY <2>1, <2>2, <2>3 DEF Promise!Opens, Streams, States
<1>3. ASSUME \/ UNCHANGED vars \/ Unwatch
             \/ \E w \in Watches : ContextEnds(w)
      PROVE  UNCHANGED Promise!vars
  <2>1. UNCHANGED <<kv, got, out, event, pc>>
    BY <1>3 DEF vars, watchVars, Unwatch, ContextEnds
  <2>2. Streams' = Streams /\ States' = States
    BY <2>1 DEF Streams, States, Stream, State, Running
  <2> QED
    BY <1>1, <2>1, <2>2
<1>4. ASSUME NEW w \in Watches, Receives(w) PROVE UNCHANGED Promise!vars
  <2>1. /\ UNCHANGED <<kv, event, pc>> /\ out[w] # <<>>
        /\ got'[w] = Append(got[w], Head(out[w])) /\ out'[w] = Tail(out[w])
        /\ \A v \in Watches \ {w} : got'[v] = got[v] /\ out'[v] = out[v]
    BY <1>4 DEF TypeOK, Receives
  <2>2. got'[w] \o out'[w] = got[w] \o out[w]
    <3> DEFINE a == got[w]
               b == out[w]
    <3>1. Append(a, Head(b)) \o Tail(b) = a \o b
      <4>1. a \in Seq(WatchEvents) /\ b \in Seq(WatchEvents) /\ b # <<>>
            /\ event[w] \in WatchEvents
        BY <2>1 DEF TypeOK
      <4> HIDE DEF a, b
      <4> QED
        BY <4>1, StreamMoves
    <3> QED
      BY <2>1, <3>1
  <2>3. Stream(w)' = Stream(w) /\ State(w)' = State(w)
    BY <2>1, <2>2 DEF Stream, State, Running
  <2>4. Streams' = Streams /\ States' = States
    BY <2>1, <2>3, OthersStay, Stays
  <2> QED
    BY <1>1, <2>1, <2>4
<1>5. ASSUME NEW w \in Watches, LoopChecks(w) \/ QueryStops(w)
      PROVE  Promise!Ends(w) \/ UNCHANGED Promise!vars
  <2>1. /\ UNCHANGED <<kv, got, out, event>>
        /\ pc[w] \in {"loop", "query"} /\ pc'[w] \in {"cleanup", "query"}
        /\ \A v \in Watches \ {w} : pc'[v] = pc[v]
    BY <1>5 DEF TypeOK, LoopChecks, QueryStops, Goto
  <2>2. Stream(w)' = Stream(w) /\ State(w) = "open"
    BY <2>1 DEF Stream, State, Running
  <2>3. CASE pc'[w] = "query"
    <3>1. State(w)' = State(w)
      BY <2>1, <2>2, <2>3 DEF State, Running
    <3>2. Streams' = Streams /\ States' = States
      BY <2>1, <2>2, <3>1, OthersStay, Stays
    <3> QED
      BY <1>1, <2>1, <3>2
  <2>4. CASE pc'[w] = "cleanup"
    <3>1. State(w)' = "ended"
      BY <2>4 DEF State, Running
    <3>2. Streams' = Streams /\ States' = [States EXCEPT ![w] = "ended"]
      BY <2>1, <2>2, <3>1, OthersStay, Stays
    <3> QED
      BY <2>1, <2>2, <3>2 DEF Promise!Ends, Streams, States
  <2> QED
    BY <2>1, <2>3, <2>4
<1>6. ASSUME NEW w \in Watches, QueryAnswers(w)
      PROVE  Promise!Takes(w) \/ UNCHANGED Promise!vars
  <2>1. /\ UNCHANGED <<kv, got, out>> /\ pc[w] = "query"
        /\ \A v \in Watches \ {w} : pc'[v] = pc[v] /\ event'[v] = event[v]
        /\ waitIndex[w] < kv.index
    BY <1>6 DEF TypeOK, QueryAnswers, Goto
  <2>2. Stream(w) = got[w] \o out[w] /\ State(w) = "open"
    <3>1. got[w] \in Seq(WatchEvents) /\ out[w] \in Seq(WatchEvents)
      BY DEF TypeOK
    <3>2. (got[w] \o out[w]) \o <<>> = got[w] \o out[w]
      BY <3>1
    <3> QED
      BY <2>1, <3>2 DEF Stream, State, Running
  <2>3. CASE kv.kind = "bad"
    <3>1. pc'[w] = "loop" /\ event' = event
      BY <1>6, <2>3 DEF TypeOK, QueryAnswers, Goto
    <3>2. Stream(w)' = Stream(w) /\ State(w)' = State(w)
      BY <2>1, <2>2, <3>1 DEF Stream, State, Running
    <3>3. Streams' = Streams /\ States' = States
      BY <2>1, <3>1, <3>2, OthersStay, Stays
    <3> QED
      BY <1>1, <2>1, <3>3
  <2>4. CASE kv.kind # "bad"
    <3>1. pc'[w] = "send" /\ event'[w] = kv
      BY <1>6, <2>4 DEF TypeOK, QueryAnswers, Goto
    <3>2. Stream(w)' = Append(Stream(w), kv)
      <4>1. got[w] \in Seq(WatchEvents) /\ out[w] \in Seq(WatchEvents)
            /\ kv \in WatchEvents
        BY <2>4 DEF TypeOK, Values, Kinds, WatchEvents
      <4>2. (got[w] \o out[w]) \o <<kv>> = Append(got[w] \o out[w], kv)
        <5> DEFINE q == got[w] \o out[w]
        <5>1. q \in Seq(WatchEvents)
          BY <4>1
        <5> HIDE DEF q
        <5>2. q \o <<kv>> = Append(q, kv)
          BY <4>1, <5>1
        <5> QED
          BY <5>2 DEF q
      <4>3. Stream(w)' = (got[w] \o out[w]) \o <<kv>>
        BY <2>1, <3>1 DEF Stream
      <4> QED
        BY <2>2, <4>2, <4>3
    <3>3. State(w)' = State(w)
      BY <2>2, <3>1 DEF State, Running
    <3>4. /\ Streams' = [Streams EXCEPT ![w] = Append(Stream(w), kv)]
          /\ States' = States
      BY <2>1, <3>2, <3>3, OthersStay, Stays
    <3>5. \A i \in DOMAIN Stream(w) : Stream(w)[i].index < kv.index
      <4>1. Below(Stream(w), waitIndex[w])
        BY DEF StreamInv
      <4>2. \A i \in DOMAIN Stream(w) : Stream(w)[i].index \in Nat
        <5>1. Stream(w) \in Seq(WatchEvents)
          BY <2>2 DEF TypeOK
        <5>2. \A i \in DOMAIN Stream(w) : Stream(w)[i] \in WatchEvents
          BY <5>1
        <5> QED
          BY <5>2 DEF WatchEvents
      <4>3. waitIndex[w] \in Nat /\ kv.index \in Nat
        BY DEF TypeOK, Values
      <4> QED
        BY <2>1, <4>1, <4>2, <4>3 DEF Below
    <3>6. Streams[w] = Stream(w) /\ States[w] = "open"
      BY <2>2 DEF Streams, States
    <3> QED
      BY <2>1, <2>4, <3>4, <3>5, <3>6 DEF Promise!Takes, Streams, States
  <2> QED
    BY <2>3, <2>4
<1>7. ASSUME NEW w \in Watches, Sends(w) PROVE UNCHANGED Promise!vars
  <2>1. /\ UNCHANGED <<kv, got, event>>
        /\ pc[w] = "send" /\ pc'[w] = "loop"
        /\ out'[w] = Append(out[w], event[w])
        /\ \A v \in Watches \ {w} : pc'[v] = pc[v] /\ out'[v] = out[v]
    BY <1>7 DEF TypeOK, Sends, Goto
  <2>2. /\ got[w] \in Seq(WatchEvents) /\ out[w] \in Seq(WatchEvents)
        /\ event[w] \in WatchEvents
    BY DEF TypeOK
  <2>3. (got[w] \o Append(out[w], event[w])) \o <<>>
            = (got[w] \o out[w]) \o <<event[w]>>
    BY <2>2, StreamMoves
  <2>4. Stream(w)' = Stream(w) /\ State(w)' = State(w)
    BY <2>1, <2>3 DEF Stream, State, Running
  <2>5. Streams' = Streams /\ States' = States
    BY <2>1, <2>4, OthersStay, Stays
  <2> QED
    BY <1>1, <2>1, <2>5
<1>8. ASSUME NEW w \in Watches, SendStops(w) PROVE Promise!Ends(w)
  <2>1. /\ UNCHANGED <<kv, got, out, event>>
        /\ pc[w] = "send" /\ pc'[w] = "cleanup"
        /\ \A v \in Watches \ {w} : pc'[v] = pc[v]
    BY <1>8 DEF TypeOK, SendStops, Goto
  <2> DEFINE q == got[w] \o out[w]
             r == q \o <<event[w]>>
  <2>2. q \in Seq(WatchEvents) /\ event[w] \in WatchEvents
    BY DEF TypeOK
  <2>3. q \o <<>> = q /\ r # <<>> /\ SubSeq(r, 1, Len(r) - 1) = q
    <3> HIDE DEF q
    <3>1. r = Append(q, event[w]) /\ Len(r) = Len(q) + 1 /\ Len(q) \in Nat
      BY <2>2
    <3> QED
      BY <2>2, <3>1
  <2>4. /\ Stream(w) = r /\ Stream(w)' = SubSeq(r, 1, Len(r) - 1)
        /\ State(w) = "open" /\ State(w)' = "ended"
    BY <2>1, <2>3 DEF Stream, State, Running
  <2>5. /\ Streams' = [Streams EXCEPT ![w] = SubSeq(r, 1, Len(r) - 1)]
        /\ States' = [States EXCEPT ![w] = "ended"]
    BY <2>1, <2>4, OthersStay
  <2>6. Streams[w] = r /\ States[w] = "open"
    BY <2>4 DEF Streams, States
  <2> QED
    <3> HIDE DEF r
    <3> QED
      BY <2>1, <2>3, <2>5, <2>6 DEF Promise!Ends, Streams, States
<1>9. ASSUME NEW w \in Watches, Cleanup(w) \/ Closes(w)
      PROVE  UNCHANGED Promise!vars
  <2>1. /\ UNCHANGED <<kv, got, out, event>>
        /\ pc[w] \in {"cleanup", "close"} /\ pc'[w] \in {"close", "closed"}
        /\ \A v \in Watches \ {w} : pc'[v] = pc[v]
    BY <1>9 DEF TypeOK, Cleanup, Closes, Goto
  <2>2. Stream(w)' = Stream(w) /\ State(w)' = State(w)
    BY <2>1 DEF Stream, State, Running
  <2>3. Streams' = Streams /\ States' = States
    BY <2>1, <2>2, OthersStay, Stays
  <2> QED
    BY <1>1, <2>1, <2>3
<1>10. ASSUME NEW kind \in Kinds,
              \/ KVChanges(kind)
              \/ \E index \in 1..MaxIndex : ConsulRestores(kind, index)
       PROVE  Promise!KeyChanges
  <2>1. UNCHANGED <<got, out, event, pc>>
    BY <1>10 DEF KVChanges, ConsulRestores, watchVars
  <2>2. Streams' = Streams /\ States' = States
    BY <2>1 DEF Streams, States, Stream, State, Running
  <2>3. kv' # kv
    <3>1. kv.index \in Nat /\ kv.epoch \in Nat
      BY DEF TypeOK, Values
    <3>2. CASE KVChanges(kind)
      BY <3>1, <3>2 DEF KVChanges
    <3>3. ASSUME NEW index \in 1..MaxIndex, ConsulRestores(kind, index)
          PROVE  kv' # kv
      BY <3>1, <3>3 DEF ConsulRestores
    <3> QED
      BY <1>10, <3>2, <3>3
  <2> QED
    BY <2>2, <2>3 DEF Promise!KeyChanges, Streams, States
<1> QED
  BY <1>2, <1>3, <1>4, <1>5, <1>6, <1>7, <1>8, <1>9, <1>10
  DEF Next, WatchStep, Promise!Next

(* Watch implements Feed, for any number of Watches, any capacity of their *)
(* channels and any number of writes and restores.                         *)
THEOREM WatchImplementsFeed == Spec => ImplementsFeed
<1>1. Init => Promise!Init
  <2> SUFFICES ASSUME Init PROVE Promise!Init
    OBVIOUS
  <2>1. ASSUME NEW w \in Watches PROVE Stream(w) = <<>>
    BY DEF Init, Stream
  <2>2. ASSUME NEW w \in Watches PROVE State(w) = "idle"
    <3>1. pc[w] = "idle"
      BY DEF Init
    <3>2. ~Running(w)
      BY <3>1 DEF Running
    <3> QED
      BY <3>1, <3>2, Zenon DEF State
  <2> QED
    BY <2>1, <2>2 DEF Promise!Init
<1>2. Spec => []StreamInv
  BY StreamStarts, StreamStep, TypeCorrect, PTL DEF Spec
<1> QED
  BY <1>1, <1>2, FeedStep, TypeCorrect, PTL
  DEF Spec, ImplementsFeed, Promise!Spec
=============================================================================
