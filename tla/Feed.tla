-------------------------------- MODULE Feed --------------------------------
(***************************************************************************)
(* What config.StoreInstance.Watch promises, whatever its goroutines,      *)
(* buffers and cursors do: each Watch yields a stream of states the key    *)
(* was in when they were taken, each with a greater Consul index than the  *)
(* one before, and the stream never grows again once the Watch has ended.  *)
(* The end may withhold the last event, which was taken and not yet sent.  *)
(***************************************************************************)
EXTENDS Naturals, Sequences

CONSTANTS Watches

VARIABLES
    key,     \* the state of the key
    stream,  \* per Watch: the events taken so far
    state    \* per Watch

vars == <<key, stream, state>>

Init ==
    /\ stream = [w \in Watches |-> <<>>]
    /\ state = [w \in Watches |-> "idle"]

Opens(w) ==
    /\ state[w] = "idle"
    /\ state' = [state EXCEPT ![w] = "open"]
    /\ UNCHANGED <<key, stream>>

Takes(w) ==
    /\ state[w] = "open" /\ key.kind # "bad"
    /\ \A i \in DOMAIN stream[w] : stream[w][i].index < key.index
    /\ stream' = [stream EXCEPT ![w] = Append(@, key)]
    /\ UNCHANGED <<key, state>>

Ends(w) ==
    /\ state[w] = "open"
    /\ state' = [state EXCEPT ![w] = "ended"]
    /\ \/ UNCHANGED stream
       \/ /\ stream[w] # <<>>
          /\ stream' = [stream EXCEPT ![w] = SubSeq(@, 1, Len(@) - 1)]
    /\ UNCHANGED key

KeyChanges ==
    /\ key' # key
    /\ UNCHANGED <<stream, state>>

Next ==
    \/ \E w \in Watches : Opens(w) \/ Takes(w) \/ Ends(w)
    \/ KeyChanges

Spec == Init /\ [][Next]_vars
=============================================================================
