---------------------------- MODULE MCStoreWatch ----------------------------
(* Two Watches of one key, one event in each channel.                      *)
EXTENDS StoreWatch, TLC

CONSTANTS w1, w2

TwoWatches == {w1, w2}
OneWatch == {w1}
=============================================================================
