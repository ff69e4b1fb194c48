------------------------------ MODULE MCDashboard ------------------------------
(* What the website's handlers do to the database, in three slices that    *)
(* share nothing: two workers use a pool of two keys while the             *)
(* administrator adds, disables and deletes keys; two connect attempts add *)
(* keys to it, with two callbacks at a time; and two accounts sign in and  *)
(* out in the tabs of one browser.                                         *)
EXTENDS OrcaConnect, Sessions, TLC

MCClientOf == [b \in Browsers |-> "address"]

MCSymmetry == Permutations(KeyRows) \cup Permutations(KeyUsers)

VARIABLE scope

(* One choice of names stands for all: they are alike, and Rename follows. *)
Named == CHOOSE names \in [Accounts -> Logins] : \A a, b \in Accounts : names[a] = names[b] => a = b

DashboardInit ==
  /\ scope \in {"keys", "connect", "sessions"}
  /\ OrcaInit /\ SessionsInit
  /\ profile = Named

DashboardNext ==
  /\ UNCHANGED scope
  /\ \/ scope = "keys" /\ KeyPoolNext /\ UNCHANGED <<orcaVars, siteVars>>
     \/ scope = "connect" /\ OrcaNext /\ UNCHANGED siteVars /\ jobs' = jobs
     \/ scope = "sessions" /\ SessionsNext /\ UNCHANGED <<keyVars, orcaVars>>

DashboardSpec == DashboardInit /\ [][DashboardNext]_<<keyVars, orcaVars, siteVars, scope>>

=================================================================================
