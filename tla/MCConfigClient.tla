--------------------------- MODULE MCConfigClient ---------------------------
(* The configuration client with the keys of one scope, as in the default  *)
(* WatchScopeGroup: two keys under a watch, with room for one entry or for *)
(* both, and three keys without it, with room for two.                     *)
EXTENDS ConfigClient

CONSTANTS k1, k2, k3, g1, g2, s1

TwoKeys   == {k1, k2}
ThreeKeys == {k1, k2, k3}
TwoGetters == {g1, g2}
OneScope  == {s1}
Shared    == [k \in Keys |-> s1]

Watching(n, w) ==
    [watch |-> TRUE, capacity |-> n, asks |-> TwoKeys, writes |-> w]
Expiring(n, w) ==
    [watch |-> FALSE, capacity |-> n, asks |-> ThreeKeys, writes |-> w]
AllClients == {Watching(1, 1), Watching(2, 2), Expiring(2, 0)}
Unlimited  == {Watching(0, 2)}
=============================================================================
