---------------------------- MODULE MCServiceLease ----------------------------
(* Three processes contend for the lease: enough for one that holds it,    *)
(* one that took it over, and one that still remembers an older term.      *)
EXTENDS ServiceLease, TLC, FiniteSets

MCSymmetry == Permutations(Procs)
==============================================================================
