----------------------------- MODULE MCReviewEngine -----------------------------
(* Two processes, one of which holds the lease while the other waits for   *)
(* it or works on with a term it has lost; one or two reviews.             *)
EXTENDS ReviewEngine, TLC

MCRevisions == [sha : Shas, push : 0 .. MaxPush, second : 0 .. MaxSecond]

MCSymmetry == Permutations(Procs)
================================================================================
