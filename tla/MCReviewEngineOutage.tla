-------------------------- MODULE MCReviewEngineOutage --------------------------
(* One review in two slices, told apart by its pull request.  One is left  *)
(* alone: two processes over three terms, in which only processes and      *)
(* requests go wrong.  The other has one process at a time, and every      *)
(* fault: two terms in which the pull request moves and requesters lose    *)
(* access, with a summary only; and three in which neither happens, with   *)
(* an inline comment as well.                                              *)
EXTENDS MCReviewEngine

CONSTANTS quiet, moving   \* the pull requests

(* Which commit comes first makes no difference.                           *)
OutageInit == EngineInit /\ \A x \in PRs : prs[x].sha = CHOOSE s \in Shas : TRUE

OutageSpec == OutageInit /\ [][EngineNext]_allVars

Unmoved(x) == prs'[x].push = 0 /\ prs'[x].second = 0

Entitled == \A p \in Procs : eng'[p].entitled

OneAtATime == \A p, q \in Procs : eng'[p].phase # "down" /\ eng'[q].phase # "down" => p = q

SummaryOnly == \A r \in Reviews, k \in Items : k > 0 => pub'[r][k].status = "none"

(* What is left out of each slice: an action constraint of its run.        *)
Slices ==
  /\ Unmoved(quiet)
  /\ rev[1].pr = quiet => Unmoved(moving) /\ Entitled /\ (Trouble => Smooth)
  /\ rev[1].pr = moving =>
       /\ OneAtATime
       /\ (Unmoved(moving) /\ Entitled) \/ (SummaryOnly /\ lease'.fence <= 2 /\ rev'[1].gen <= 2)

================================================================================
