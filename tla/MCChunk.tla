------------------------------- MODULE MCChunk -------------------------------
(***************************************************************************)
(* ChunkController with small numbers: a chunk of 1 to 6 tokens, an SLO of *)
(* 8 time units, windows of 4 step times.                                  *)
(***************************************************************************)
EXTENDS ChunkController

AllModes == {"depth", "hslo"} \cup LatencyModes \cup FeedforwardModes

(* Under, in and over the dead zone around a target of 2.                  *)
DepthsConsidered == {0, 2, 4}

(* Well under the SLO, at three quarters of it, in the band, over the SLO, *)
(* and idle.                                                               *)
GapsConsidered == {2, 6, 7, 9, 14}

(* How full the steps' budgets are.                                        *)
PlacedConsidered == {1, 3, 6}
=============================================================================
