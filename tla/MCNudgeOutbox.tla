----------------------------- MODULE MCNudgeOutbox -----------------------------
(* Two processes with two workers each: one that holds the lease, and one  *)
(* that works on with a term it lost or waits to take over.                *)
EXTENDS NudgeOutbox, TLC

MCSymmetry == Permutations(Procs)
================================================================================
