--------------------------- MODULE MCWatchReplay ---------------------------
(* The replay chain on small instances.  The events channel holds two      *)
(* events instead of eight, so that it is full in reach of a few frames.   *)
EXTENDS WatchReplay

MCWatchURLs == {"blank", "url"}
OneWatchURL == {"url"}
=============================================================================
