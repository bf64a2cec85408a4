--------------------------- MODULE MCBenchObserver ---------------------------
(* Two interactions, a log of four lines and two starts: an interaction that  *)
(* is interrupted, or over before the second start, and the shutdown.         *)
EXTENDS BenchObserver
CONSTANTS i1, i2
MCIds == {i1, i2}
=============================================================================
