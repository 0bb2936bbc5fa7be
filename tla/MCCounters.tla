----------------------------- MODULE MCCounters -----------------------------
(* A small instance of Counters for TLC, on the findings of MCWorker.         *)
EXTENDS MCWorker, Counters

\* What Worker has: no action reads the counters, so states that differ in them
\* alone go on alike, and a run about the findings takes them for one.
MCFindings == vars
=============================================================================
