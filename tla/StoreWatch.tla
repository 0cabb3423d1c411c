----------------------------- MODULE StoreWatch -----------------------------
(***************************************************************************)
(* config.StoreInstance.Watch and Unwatch on one configuration key         *)
(* (src/config/watch.go): each Watch starts a goroutine of its own that    *)
(* long-polls Consul and sends events on a bounded channel; the map        *)
(* watchCancels has room for one cancel function per key.                  *)
(*                                                                         *)
(* Def_What, before Def, is Def with a plausible bug; nothing uses it.     *)
(***************************************************************************)
EXTENDS Naturals, Sequences

CONSTANTS
    Watches,      \* the calls of Watch(ctx, key)
    WatchBuffer,  \* capacity of each output channel
    MaxIndex,     \* bound: the last Consul index
    MaxEpoch      \* bound: the restores of Consul

ASSUME StoreWatchAssumption ==
    /\ WatchBuffer \in Nat \ {0} /\ MaxIndex \in Nat \ {0}
    /\ MaxEpoch \in Nat

None == "none"

VARIABLES
    kv,            \* Consul: what the key holds, and since which index of
                   \* which of its lives
    watchCancels,  \* the Watch whose cancel function the map holds
    canceled,      \* is watchCtx of each Watch done?
    pc,            \* where the goroutine of each Watch is
    waitIndex,     \* its cursor
    event,         \* the event it is about to send
    out,           \* its output channel; closed iff pc = "closed"
    got,           \* history: the events its consumer has received
    latest         \* history: the latest Watch called

watchVars == <<pc, waitIndex, event, out>>
vars == <<kv, watchCancels, canceled, watchVars, got, latest>>

Kinds == {"put", "bad", "delete"}
Values == [kind : Kinds, index : 1..MaxIndex, epoch : 0..MaxEpoch]
WatchEvents ==
    [kind : {"put", "delete"}, index : 1..MaxIndex, epoch : 0..MaxEpoch]
NoEvent == [kind |-> "delete", index |-> 1, epoch |-> 0]

Started(w) == pc[w] # "idle"
Running(w) == pc[w] \in {"loop", "query", "send"}

(* Type invariant: in particular an output channel never holds more than   *)
(* its capacity (watch.go:38).                                             *)
TypeOK ==
    /\ kv \in Values
    /\ watchCancels \in Watches \cup {None}
    /\ canceled \in [Watches -> BOOLEAN]
    /\ pc \in [Watches -> {"idle", "loop", "query", "send", "cleanup",
                           "close", "closed"}]
    /\ waitIndex \in [Watches -> 0..MaxIndex]
    /\ event \in [Watches -> WatchEvents]
    /\ out \in [Watches -> Seq(WatchEvents)]
    /\ \A w \in Watches : Len(out[w]) <= WatchBuffer
    /\ got \in [Watches -> Seq(WatchEvents)]
    /\ latest \in Watches \cup {None}

Init ==
    /\ kv = [kind |-> "delete", index |-> 1, epoch |-> 0]
    /\ watchCancels = None
    /\ canceled = [w \in Watches |-> FALSE]
    /\ pc = [w \in Watches |-> "idle"]
    /\ waitIndex = [w \in Watches |-> 0]
    /\ event = [w \in Watches |-> NoEvent]
    /\ out = [w \in Watches |-> <<>>]
    /\ got = [w \in Watches |-> <<>>]
    /\ latest = None

Goto(w, place) == pc' = [pc EXCEPT ![w] = place]

-----------------------------------------------------------------------------
(* The application's calls.                                                *)

(* The map entry of an earlier Watch of the key is overwritten.            *)
Watch_ForgetsCancel(w) ==
    /\ pc[w] = "idle"
    /\ Goto(w, "loop")
    /\ latest' = w
    /\ UNCHANGED <<kv, watchCancels, canceled, waitIndex, event, out, got>>
Watch(w) ==
    /\ pc[w] = "idle"
    /\ watchCancels' = w
    /\ Goto(w, "loop")
    /\ latest' = w
    /\ UNCHANGED <<kv, canceled, waitIndex, event, out, got>>

(* The cancel function that the map holds, if any, is called.              *)
Unwatch ==
    /\ canceled' = [w \in Watches |-> canceled[w] \/ w = watchCancels]
    /\ UNCHANGED <<kv, watchCancels, watchVars, got, latest>>

(* The context that was passed to Watch ends.                              *)
ContextEnds(w) ==
    /\ Started(w) /\ ~canceled[w]
    /\ canceled' = [canceled EXCEPT ![w] = TRUE]
    /\ UNCHANGED <<kv, watchCancels, watchVars, got, latest>>

Receives(w) ==
    /\ out[w] # <<>>
    /\ got' = [got EXCEPT ![w] = Append(@, Head(out[w]))]
    /\ out' = [out EXCEPT ![w] = Tail(@)]
    /\ UNCHANGED <<kv, watchCancels, canceled, pc, waitIndex, event,
                   latest>>

-----------------------------------------------------------------------------
(* The goroutine of a Watch.                                               *)

LoopChecks(w) ==
    /\ pc[w] = "loop"
    /\ Goto(w, IF canceled[w] THEN "cleanup" ELSE "query")
    /\ UNCHANGED <<kv, watchCancels, canceled, waitIndex, event, out, got,
                   latest>>

(* The blocking query brings something newer: an event to send, or         *)
(* nothing when the value is empty or does not decode (toWatchEvent).  An  *)
(* error backs off and, like an answer without progress, queries again.    *)
QueryAnswers_SameIndexAgain(w) ==
    /\ pc[w] = "query" /\ kv.index >= waitIndex[w]
    /\ waitIndex' = [waitIndex EXCEPT ![w] = kv.index]
    /\ IF kv.kind = "bad"
       THEN Goto(w, "loop") /\ UNCHANGED event
       ELSE Goto(w, "send") /\ event' = [event EXCEPT ![w] = kv]
    /\ UNCHANGED <<kv, watchCancels, canceled, out, got, latest>>
QueryAnswers_AnyOtherIndex(w) ==
    /\ pc[w] = "query" /\ kv.index # waitIndex[w]
    /\ waitIndex' = [waitIndex EXCEPT ![w] = kv.index]
    /\ IF kv.kind = "bad"
       THEN Goto(w, "loop") /\ UNCHANGED event
       ELSE Goto(w, "send") /\ event' = [event EXCEPT ![w] = kv]
    /\ UNCHANGED <<kv, watchCancels, canceled, out, got, latest>>
QueryAnswers(w) ==
    /\ pc[w] = "query" /\ kv.index > waitIndex[w]
    /\ waitIndex' = [waitIndex EXCEPT ![w] = kv.index]
    /\ IF kv.kind = "bad"
       THEN Goto(w, "loop") /\ UNCHANGED event
       ELSE Goto(w, "send") /\ event' = [event EXCEPT ![w] = kv]
    /\ UNCHANGED <<kv, watchCancels, canceled, out, got, latest>>

(* The end of the context fails the query, and the back-off sees it.       *)
QueryStops(w) ==
    /\ pc[w] = "query" /\ canceled[w]
    /\ Goto(w, "cleanup")
    /\ UNCHANGED <<kv, watchCancels, canceled, waitIndex, event, out, got,
                   latest>>

(* The select of the send: room in the channel, or the context's end.      *)
Sends_DropsWhenFull(w) ==
    /\ pc[w] = "send"
    /\ out' = [out EXCEPT ![w] = IF Len(@) < WatchBuffer
                                 THEN Append(@, event[w]) ELSE @]
    /\ Goto(w, "loop")
    /\ UNCHANGED <<kv, watchCancels, canceled, waitIndex, event, got, latest>>
Sends_Unbounded(w) ==
    /\ pc[w] = "send"
    /\ out' = [out EXCEPT ![w] = Append(@, event[w])]
    /\ Goto(w, "loop")
    /\ UNCHANGED <<kv, watchCancels, canceled, waitIndex, event, got, latest>>
Sends(w) ==
    /\ pc[w] = "send" /\ Len(out[w]) < WatchBuffer
    /\ out' = [out EXCEPT ![w] = Append(@, event[w])]
    /\ Goto(w, "loop")
    /\ UNCHANGED <<kv, watchCancels, canceled, waitIndex, event, got, latest>>

SendStops_Never(w) ==
    /\ FALSE
    /\ UNCHANGED vars
SendStops(w) ==
    /\ pc[w] = "send" /\ canceled[w]
    /\ Goto(w, "cleanup")
    /\ UNCHANGED <<kv, watchCancels, canceled, waitIndex, event, out, got,
                   latest>>

(* The deferred function: forget the cancel function of the key, whoever's *)
(* it is, and close the channel.                                           *)
Cleanup(w) ==
    /\ pc[w] = "cleanup"
    /\ watchCancels' = None
    /\ Goto(w, "close")
    /\ UNCHANGED <<kv, canceled, waitIndex, event, out, got, latest>>
Closes(w) ==
    /\ pc[w] = "close"
    /\ Goto(w, "closed")
    /\ UNCHANGED <<kv, watchCancels, canceled, waitIndex, event, out, got,
                   latest>>

WatchStep(w) ==
    \/ LoopChecks(w) \/ QueryAnswers(w) \/ QueryStops(w) \/ Sends(w)
    \/ SendStops(w) \/ Cleanup(w) \/ Closes(w)

(* Consul.                                                                 *)
KVChanges(kind) ==
    /\ kv.index < MaxIndex
    /\ kind = "delete" => kv.kind # "delete"
    /\ kv' = [kind |-> kind, index |-> kv.index + 1, epoch |-> kv.epoch]
    /\ UNCHANGED <<watchCancels, canceled, watchVars, got, latest>>

(* A restored snapshot or a new cluster behind the same address: the index *)
(* may go back.                                                            *)
ConsulRestores(kind, index) ==
    /\ kv.epoch < MaxEpoch /\ index <= kv.index
    /\ kv' = [kind |-> kind, index |-> index, epoch |-> kv.epoch + 1]
    /\ UNCHANGED <<watchCancels, canceled, watchVars, got, latest>>

Next ==
    \/ \E w \in Watches :
        Watch(w) \/ ContextEnds(w) \/ Receives(w) \/ WatchStep(w)
    \/ Unwatch
    \/ \E kind \in Kinds : KVChanges(kind)
    \/ \E kind \in Kinds, index \in 1..MaxIndex : ConsulRestores(kind, index)

Spec == Init /\ [][Next]_vars

(* The goroutines are scheduled and Consul answers.                        *)
Fairness == \A w \in Watches : WF_vars(WatchStep(w))
FairSpec == Spec /\ Fairness

-----------------------------------------------------------------------------
(* Every event a consumer sees is newer than the one before, through the   *)
(* buffer, the goroutine and the cursor (watch.go:81-97), also across a    *)
(* restore: no event is sent twice or out of order.                        *)
Stream(w) == got[w] \o out[w] \o (IF pc[w] = "send" THEN <<event[w]>> ELSE <<>>)
EventsInOrder ==
    \A w \in Watches : \A i, j \in DOMAIN Stream(w) :
        i < j => Stream(w)[i].index < Stream(w)[j].index

(* A Watch whose context ends closes its channel even if nobody receives   *)
(* from it (watch.go:41-49,92-97).                                         *)
CancelCloses == \A w \in Watches : canceled[w] ~> pc[w] = "closed"

(* The Watch is blind: Consul's index went back behind a cursor that still *)
(* counts in an earlier life (watch.go:82), and has not passed it yet.     *)
Blind(w) ==
    /\ kv.epoch > 0 /\ kv.index <= waitIndex[w]
    /\ \A i \in DOMAIN got[w] : got[w][i].epoch < kv.epoch

(* A consumer that keeps receiving gets the last state of the key, unless  *)
(* its Watch has ended, that state does not decode, or the Watch is blind  *)
(* to it: a restore is the only thing that can hide a change for good.     *)
KeepsReceiving(w) == WF_vars(Receives(w))
LastChangeDelivered ==
    \A w \in Watches : KeepsReceiving(w) =>
        <>[](Running(w) /\ ~canceled[w] /\ kv.kind # "bad" /\ ~Blind(w)
                => got[w] # <<>> /\ got[w][Len(got[w])] = kv)

(* As long as no other Watch of the key was ever called, Unwatch reaches a *)
(* running one (watch.go:30,112-119); a second Watch takes its place in    *)
(* the map, and the clean-up of a second one empties it.                   *)
UnwatchReachesTheOnlyWatch ==
    \A w \in Watches :
        Running(w) /\ watchCancels # w
            => \E other \in Watches \ {w} : Started(other)

(* The goroutine, its cursor, its channel and its clean-up are a Feed: a   *)
(* consumer is told nothing the key never was, in no other order, and      *)
(* nothing once the Watch has begun to end (watch.go:41-99).               *)
State(w) == CASE pc[w] = "idle" -> "idle"
              [] Running(w)     -> "open"
              [] OTHER          -> "ended"
Promise == INSTANCE Feed WITH
    key <- kv,
    stream <- [w \in Watches |-> Stream(w)],
    state <- [w \in Watches |-> State(w)]
ImplementsFeed == Promise!Spec

(* What the comment of the deferred function says (watch.go:42): it        *)
(* removes the goroutine's own cancel function, so the latest Watch keeps  *)
(* its entry while it runs.                                                *)
LatestIsCancelable ==
    \A w \in Watches : w = latest /\ Running(w) => watchCancels = w
=============================================================================
