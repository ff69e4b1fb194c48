-------------------------------- MODULE Delivery --------------------------------
(***************************************************************************)
(* What a reader of the pull request is promised about the comments of a   *)
(* review, whatever processes, leases and retries it takes to post them:   *)
(* each planned comment appears at most once, inline comments only after   *)
(* everything before them has appeared, nothing is believed to have        *)
(* appeared that has not, and a review is done only when all of it has.    *)
(*                                                                         *)
(* ReviewEngine implements this module (src/internal/bot/engine.go over    *)
(* src/internal/store/reviews.go).                                         *)
(***************************************************************************)
EXTENDS Naturals

CONSTANTS
  Reviews,   \* reviews
  LastItem   \* bound: the last item of a plan; item 0 is the summary

VARIABLES
  outcome,   \* outcome[r]: "open", "done" or "failed"
  mark,      \* mark[r][k]: what is on record about comment k of review r
  comments   \* comments[r][k]: how many copies the pull request shows

dvars == <<outcome, mark, comments>>

Items == 0 .. LastItem

Init ==
  /\ outcome = [r \in Reviews |-> "open"]
  /\ mark = [r \in Reviews |-> [k \in Items |-> "absent"]]
  /\ comments = [r \in Reviews |-> [k \in Items |-> 0]]

(* A plan is fixed once: the summary and the first n inline comments.      *)
Plan(r, n) ==
  /\ outcome[r] = "open"
  /\ \A k \in Items : mark[r][k] = "absent"
  /\ mark' = [mark EXCEPT ![r] = [k \in Items |-> IF k <= n THEN "planned" ELSE "absent"]]
  /\ UNCHANGED <<outcome, comments>>

(* The request is about to leave: from here on it may have taken effect.   *)
Submit(r, k) ==
  /\ outcome[r] = "open"
  /\ mark[r][k] = "planned"
  /\ \A j \in 0 .. k - 1 : mark[r][j] = "yes"
  /\ mark' = [mark EXCEPT ![r][k] = "maybe"]
  /\ UNCHANGED <<outcome, comments>>

(* The comment appears, possibly long after everybody stopped waiting.     *)
Appear(r, k) ==
  /\ mark[r][k] = "maybe"
  /\ comments[r][k] = 0
  /\ comments' = [comments EXCEPT ![r][k] = 1]
  /\ UNCHANGED <<outcome, mark>>

Confirm(r, k) ==
  /\ outcome[r] = "open"
  /\ mark[r][k] = "maybe"
  /\ comments[r][k] = 1
  /\ mark' = [mark EXCEPT ![r][k] = "yes"]
  /\ UNCHANGED <<outcome, comments>>

Complete(r) ==
  /\ outcome[r] = "open"
  /\ mark[r][0] = "yes"
  /\ \A k \in Items : mark[r][k] \in {"absent", "yes"}
  /\ outcome' = [outcome EXCEPT ![r] = "done"]
  /\ UNCHANGED <<mark, comments>>

GiveUp(r) ==
  /\ outcome[r] = "open"
  /\ outcome' = [outcome EXCEPT ![r] = "failed"]
  /\ UNCHANGED <<mark, comments>>

Next ==
  \E r \in Reviews :
    \/ \E n \in Items : Plan(r, n)
    \/ \E k \in Items : Submit(r, k) \/ Appear(r, k) \/ Confirm(r, k)
    \/ Complete(r)
    \/ GiveUp(r)

(* Most steps of an implementation show nothing, and need no comparison    *)
(* with Next.                                                              *)
Visible == dvars' # dvars

Spec == Init /\ [][Visible => Next]_dvars

================================================================================
