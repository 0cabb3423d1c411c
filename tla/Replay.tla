------------------------------- MODULE Replay -------------------------------
(***************************************************************************)
(* What the replay chain of src/agent promises, whatever its goroutines,   *)
(* its queue and the network do: a service that believes itself registered *)
(* is held by the sidecar, or is in doubt.  Doubt begins with the loss     *)
(* itself, not with its discovery, and ends only by giving the belief up.  *)
(* Nothing is promised once the context has ended.                         *)
(***************************************************************************)

VARIABLES
    live,      \* the application's context
    held,      \* does the sidecar hold the registration?
    believed,  \* does the status say so?
    doubt      \* is a disconnect on its way to the status?

vars == <<live, held, believed, doubt>>

Init == live = TRUE /\ held = FALSE /\ believed = FALSE /\ doubt \in BOOLEAN

(* A register request is handled, or has no effect any more.               *)
SidecarHolds == held' = TRUE /\ UNCHANGED <<live, believed, doubt>>

(* The answer to a register arrives.                                       *)
Believes ==
    /\ held \/ doubt
    /\ believed' = TRUE
    /\ UNCHANGED <<live, held, doubt>>

SidecarForgets ==
    /\ held' = FALSE
    /\ doubt' = TRUE \/ (~believed /\ UNCHANGED doubt)
    /\ UNCHANGED <<live, believed>>

Doubts == doubt' = TRUE /\ UNCHANGED <<live, held, believed>>

(* A disconnect, or a replay that failed, is handled.                      *)
Corrects ==
    /\ believed' = FALSE
    /\ doubt' \in BOOLEAN
    /\ UNCHANGED <<live, held>>

ContextEnds == live' = FALSE /\ UNCHANGED <<held, believed, doubt>>
Ended == ~live /\ live' = FALSE

Next ==
    \/ /\ live
       /\ \/ SidecarHolds \/ Believes \/ SidecarForgets \/ Doubts \/ Corrects
          \/ ContextEnds
    \/ Ended

Spec == Init /\ [][Next]_vars

(* A belief in doubt is given up.                                          *)
DoubtEnds == live /\ believed /\ doubt ~> ~live \/ ~believed
=============================================================================
