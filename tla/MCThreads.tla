------------------------------ MODULE MCThreads ------------------------------
(* Two threads and the primordial one: two that start or end at once, and a  *)
(* third that holds or waits for a mutex meanwhile.                          *)
EXTENDS Threads, TLC
==============================================================================
