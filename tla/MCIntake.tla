-------------------------------- MODULE MCIntake --------------------------------
(* Three comments, each with one delivery: two of one user in two          *)
(* repositories, and one of another user on the first pull request.  A     *)
(* comment delivered once more under a new ID is, to the store, a delivery *)
(* whose marker was purged, and that happens here.                         *)
EXTENDS Intake, TLC

CONSTANTS alice, bob, p1, p2, r1, r2, c1, c2, c3, d1, d2, d3, h1, h2

MCUsers  == {alice, bob}
MCRepos  == {r1, r2}
MCPulls  == {p1, p2}
MCRepoOf == p1 :> r1 @@ p2 :> r2

MCComments == {c1, c2, c3}
MCAuthor   == c1 :> alice @@ c2 :> alice @@ c3 :> bob
MCPullOf   == c1 :> p1 @@ c2 :> p2 @@ c3 :> p1

MCDeliveries == {d1, d2, d3}
MCCommentOf == d1 :> c1 @@ d2 :> c2 @@ d3 :> c3

MCRequests == {h1, h2}

Handlers == Permutations(MCRequests)
=================================================================================
