----------------------------- MODULE MCScanChain -----------------------------
(***************************************************************************)
(* ScanChain with counters of one bit, so that a point that is covered     *)
(* twice is saturated.                                                     *)
(***************************************************************************)
EXTENDS ScanChain

CounterWidth == 1

MCCounterMax == 2 ^ CounterWidth - 1
==============================================================================
