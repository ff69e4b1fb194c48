-------------------------------- MODULE Sessions --------------------------------
(***************************************************************************)
(* Signing in and out of the website: handleOAuthLogin, handleOAuthCallback*)
(* and handleLogout of src/internal/server/auth.go, currentUser of         *)
(* src/internal/server/server.go, and the tables they work on, users,      *)
(* oauth_states and sessions of src/internal/store/users.go.               *)
(*                                                                         *)
(* A callback is several steps with calls to GitHub between them; logins,  *)
(* logouts, other callbacks of the same browser and renamed accounts come  *)
(* in between.  A cookie changes with the answer of the request that sets  *)
(* it.                                                                     *)
(***************************************************************************)
EXTENDS Naturals, FiniteSets

CONSTANTS
  Accounts,      \* immutable GitHub ids
  Logins,        \* names, each held by at most one account at a time
  Browsers, ClientOf,  \* ClientOf[b]: the address browser b comes from
  OAuthStates,   \* tokens handleOAuthLogin may draw, each at most once
  Tokens,        \* tokens a session may get, each at most once
  Nobody,        \* no account, login, token or client
  Signins,       \* bound: callbacks served at a time
  MaxStates, MaxPerClient,   \* maxOAuthStates, maxOAuthStatesPerClient
  StateTTL, SessionTTL,
  MaxInstant     \* bound: readings of the clock

ASSUME SessionsAssumption ==
  /\ IsFiniteSet(Accounts)
  /\ Nobody \notin Accounts \cup Logins \cup OAuthStates \cup Tokens
  /\ {MaxStates, MaxPerClient, StateTTL, SessionTTL, MaxInstant} \subseteq Nat

VARIABLES
  instant,
  profile,   \* profile[a]: the login account a has at GitHub
  users,     \* users[u]: github_id and login of row u
  oauth,     \* oauth[s]: client and expiry of a pending attempt
  session,   \* session[t]: the row it belongs to, its expiry, and who signed in (history)
  jar,       \* jar[b]: the two cookies of browser b
  signin,    \* signin[h]: what callback request h is doing
  drawn,     \* states and tokens drawn so far
  consumed,  \* consumed[s]: callbacks that were let through with state s (history variable)
  revoked    \* states and tokens a logout took back (history variable)

siteVars == <<instant, profile, users, oauth, session, jar, signin, drawn, consumed, revoked>>
tables == <<users, oauth, session>>

NoAttempt == [client |-> Nobody, expires |-> 0]
NoSession == [user |-> 0, expires |-> 0, by |-> Nobody]
NoCookies == [state |-> Nobody, token |-> Nobody]
NoSignin  == [pc |-> "idle", browser |-> Nobody, state |-> Nobody, account |-> Nobody, login |-> Nobody, user |-> 0]

Rows == 1 .. Cardinality(Accounts)

SessionsInit ==
  /\ instant = 1
  /\ profile \in [Accounts -> Logins]
  /\ \A a, b \in Accounts : profile[a] = profile[b] => a = b
  /\ users = [u \in Rows |-> [account |-> Nobody, login |-> Nobody]]
  /\ oauth = [s \in OAuthStates |-> NoAttempt]
  /\ session = [t \in Tokens |-> NoSession]
  /\ jar = [b \in Browsers |-> NoCookies]
  /\ signin = [h \in Signins |-> NoSignin]
  /\ drawn = {}
  /\ consumed = [s \in OAuthStates |-> 0]
  /\ revoked = {}

(* A random token: one that was never drawn before.                        *)
Fresh(S) == CHOOSE x \in S : x \notin drawn

(***************************************************************************)
(* handleOAuthLogin: expired attempts are purged, the others counted.      *)
(***************************************************************************)
Pending == {s \in OAuthStates : oauth[s].expires > instant}
PendingOf(client) == {s \in Pending : oauth[s].client = client}

OAuthLogin(b) ==
  LET s == Fresh(OAuthStates) IN
  /\ ~OAuthStates \subseteq drawn
  /\ Cardinality(Pending) < MaxStates
  /\ Cardinality(PendingOf(ClientOf[b])) < MaxPerClient
  /\ oauth' = [q \in OAuthStates |->
                 IF q = s THEN [client |-> ClientOf[b], expires |-> instant + StateTTL]
                 ELSE IF q \in Pending THEN oauth[q] ELSE NoAttempt]
  /\ jar' = [jar EXCEPT ![b].state = s]
  /\ drawn' = drawn \cup {s}
  /\ UNCHANGED <<instant, profile, users, session, signin, consumed, revoked>>

(***************************************************************************)
(* handleOAuthCallback.                                                    *)
(***************************************************************************)

(* GitHub sends the browser back, perhaps twice; the state of the address  *)
(* is that of the cookie.                                                  *)
Arrive(h, b) ==
  /\ signin[h].pc = "idle" /\ jar[b].state # Nobody
  /\ signin' = [signin EXCEPT ![h] = [NoSignin EXCEPT !.pc = "consuming", !.browser = b, !.state = jar[b].state]]
  /\ UNCHANGED <<instant, profile, jar, drawn, consumed, revoked>> /\ UNCHANGED tables

(* A callback of another attempt than the cookie's, or of none.            *)
Mismatch(b) ==
  /\ jar[b].state # Nobody
  /\ jar' = [jar EXCEPT ![b].state = Nobody]
  /\ UNCHANGED <<instant, profile, signin, drawn, consumed, revoked>> /\ UNCHANGED tables

(* An answer that clears the state cookie, whichever one it holds by then. *)
Turned(h) ==
  /\ jar' = [jar EXCEPT ![signin[h].browser].state = Nobody]
  /\ signin' = [signin EXCEPT ![h] = NoSignin]

(* Mutant: the rows the statement deleted are not counted.                 *)
ConsumeBlindly(h) ==
  LET s == signin[h].state IN
  /\ signin[h].pc = "consuming"
  /\ oauth' = [oauth EXCEPT ![s] = NoAttempt]
  /\ consumed' = [consumed EXCEPT ![s] = @ + 1]
  /\ signin' = [signin EXCEPT ![h].pc = "exchanging"]
  /\ UNCHANGED <<instant, profile, users, session, jar, drawn, revoked>>

(* ConsumeOAuthState: one DELETE, and whether it found the row in time.    *)
Consume(h) ==
  LET s == signin[h].state IN
  /\ signin[h].pc = "consuming" /\ s \in Pending
  /\ oauth' = [oauth EXCEPT ![s] = NoAttempt]
  /\ consumed' = [consumed EXCEPT ![s] = @ + 1]
  /\ signin' = [signin EXCEPT ![h].pc = "exchanging"]
  /\ UNCHANGED <<instant, profile, users, session, jar, drawn, revoked>>

(* No such state any more; or no code, an error of GitHub or of the store. *)
CallbackFails(h) ==
  /\ \/ signin[h].pc = "consuming" /\ signin[h].state \notin Pending
     \/ signin[h].pc \in {"exchanging", "upserting", "opening"}
  /\ Turned(h)
  /\ UNCHANGED <<instant, profile, drawn, consumed, revoked>> /\ UNCHANGED tables

(* The store could not be asked, and the cookie is kept.                   *)
ConsumeFails(h) ==
  /\ signin[h].pc = "consuming"
  /\ signin' = [signin EXCEPT ![h] = NoSignin]
  /\ UNCHANGED <<instant, profile, jar, drawn, consumed, revoked>> /\ UNCHANGED tables

(* ExchangeOAuthCode and GetOAuthUser: who authorized the attempt, and the *)
(* name GitHub has for the account at this moment.                         *)
Exchange(h) ==
  /\ signin[h].pc = "exchanging"
  /\ \E a \in Accounts :
       signin' = [signin EXCEPT ![h].pc = "upserting", ![h].account = a, ![h].login = profile[a]]
  /\ UNCHANGED <<instant, profile, jar, drawn, consumed, revoked>> /\ UNCHANGED tables

RowOf(a) == {u \in Rows : users[u].account = a}
NewRow == CHOOSE u \in Rows : users[u].account = Nobody

(* Mutant: a row belongs to a name.                                        *)
UpsertedByName(a, login) ==
  LET named == {v \in Rows : users[v].login = login}
      u == IF named # {} THEN CHOOSE v \in named : TRUE
           ELSE IF RowOf(a) # {} THEN CHOOSE v \in RowOf(a) : TRUE ELSE NewRow
  IN [row |-> u, users |-> [users EXCEPT ![u] = [account |-> a, login |-> login]]]

(* UpsertUser: the name is taken off the row of any other account, which   *)
(* keeps its row, and the account's own row is inserted or updated.        *)
Upserted(a, login) ==
  LET u == IF RowOf(a) # {} THEN CHOOSE v \in RowOf(a) : TRUE ELSE NewRow
  IN [row |-> u,
      users |-> [v \in Rows |->
        IF v = u THEN [account |-> a, login |-> login]
        ELSE IF users[v].login = login THEN [users[v] EXCEPT !.login = Nobody] ELSE users[v]]]

UpsertUser(h) ==
  /\ signin[h].pc = "upserting"
  /\ LET to == Upserted(signin[h].account, signin[h].login) IN
       /\ users' = to.users
       /\ signin' = [signin EXCEPT ![h].pc = "opening", ![h].user = to.row]
  /\ UNCHANGED <<instant, profile, oauth, session, jar, drawn, consumed, revoked>>

CreateSession(h) ==
  LET t == Fresh(Tokens) IN
  /\ signin[h].pc = "opening" /\ ~Tokens \subseteq drawn
  /\ session' = [session EXCEPT ![t] =
                   [user |-> signin[h].user, expires |-> instant + SessionTTL, by |-> signin[h].account]]
  /\ jar' = [jar EXCEPT ![signin[h].browser] = [state |-> Nobody, token |-> t]]
  /\ drawn' = drawn \cup {t}
  /\ signin' = [signin EXCEPT ![h] = NoSignin]
  /\ UNCHANGED <<instant, profile, users, oauth, consumed, revoked>>

(***************************************************************************)
(* currentUser and handleLogout.                                           *)
(***************************************************************************)

(* SessionUser removes the row of a session it finds expired.              *)
SessionUser(b) ==
  LET t == jar[b].token IN
  /\ t # Nobody
  /\ session[t] # NoSession /\ session[t].expires <= instant
  /\ session' = [session EXCEPT ![t] = NoSession]
  /\ UNCHANGED <<instant, profile, users, oauth, jar, signin, drawn, consumed, revoked>>

Held(b) == {jar[b].state, jar[b].token} \ {Nobody}

(* Mutant: the session is revoked, the attempt is left to expire.          *)
SessionOnly(b) == {jar[b].token}

Revocable(b) == Held(b)

(* DeleteAuthSessionAndOAuthState, in one transaction.  If it fails, the   *)
(* cookies are kept and nothing has happened.                              *)
Logout(b) ==
  /\ Held(b) # {}
  /\ LET gone == Revocable(b) IN
       /\ session' = [t \in Tokens |-> IF t \in gone THEN NoSession ELSE session[t]]
       /\ oauth' = [s \in OAuthStates |-> IF s \in gone THEN NoAttempt ELSE oauth[s]]
  /\ revoked' = revoked \cup Held(b)
  /\ jar' = [jar EXCEPT ![b] = NoCookies]
  /\ UNCHANGED <<instant, profile, users, signin, drawn, consumed>>

(***************************************************************************)
(* Time passes, and accounts are renamed.                                  *)
(***************************************************************************)
InstantPasses ==
  /\ instant < MaxInstant
  /\ instant' = instant + 1
  /\ UNCHANGED <<profile, jar, signin, drawn, consumed, revoked>> /\ UNCHANGED tables

Rename(a) ==
  /\ \E login \in Logins \ {profile[x] : x \in Accounts} : profile' = [profile EXCEPT ![a] = login]
  /\ UNCHANGED <<instant, jar, signin, drawn, consumed, revoked>> /\ UNCHANGED tables

SessionsNext ==
  \/ \E b \in Browsers : OAuthLogin(b) \/ Mismatch(b) \/ SessionUser(b) \/ Logout(b)
  \/ \E h \in Signins :
       \/ \E b \in Browsers : Arrive(h, b)
       \/ Consume(h) \/ ConsumeFails(h) \/ CallbackFails(h)
       \/ Exchange(h) \/ UpsertUser(h) \/ CreateSession(h)
  \/ InstantPasses
  \/ \E a \in Accounts : Rename(a)

SessionsSpec == SessionsInit /\ [][SessionsNext]_siteVars

(***************************************************************************)
(* Properties.                                                             *)
(***************************************************************************)

Attempt == [client : {ClientOf[b] : b \in Browsers} \cup {Nobody}, expires : Nat]
Session == [user : Rows \cup {0}, expires : Nat, by : Accounts \cup {Nobody}]
Cookies == [state : OAuthStates \cup {Nobody}, token : Tokens \cup {Nobody}]
Account == [account : Accounts \cup {Nobody}, login : Logins \cup {Nobody}]
Signin  == [pc : {"idle", "consuming", "exchanging", "upserting", "opening"},
            browser : Browsers \cup {Nobody}, state : OAuthStates \cup {Nobody},
            account : Accounts \cup {Nobody}, login : Logins \cup {Nobody}, user : Rows \cup {0}]

SiteTypeOK ==
  /\ instant \in Nat
  /\ profile \in [Accounts -> Logins]
  /\ users \in [Rows -> Account]
  /\ oauth \in [OAuthStates -> Attempt]
  /\ session \in [Tokens -> Session]
  /\ jar \in [Browsers -> Cookies]
  /\ signin \in [Signins -> Signin]
  /\ drawn \subseteq OAuthStates \cup Tokens
  /\ consumed \in [OAuthStates -> Nat]
  /\ revoked \subseteq drawn

(* Callbacks that carry one state at the same time: one of them signs in.  *)
OneLoginPerState == \A s \in OAuthStates : consumed[s] <= 1

(* A logout takes back the session and the login attempt the browser held, *)
(* both or neither: what it took back never lets anybody in again.         *)
LogoutRevokes ==
  [][/\ \A t \in revoked \cap Tokens : session'[t] = NoSession
     /\ \A s \in revoked \cap OAuthStates : consumed'[s] = consumed[s]]_siteVars

(* Whatever accounts are renamed to, and in whatever order their callbacks *)
(* end: a session leads to the row of the account that signed in, no two   *)
(* rows share an account, and no two share a name.                         *)
SessionsAreOwn ==
  /\ \A t \in Tokens : session[t] # NoSession => users[session[t].user].account = session[t].by
  /\ \A u, v \in Rows : u # v => \A f \in {"account", "login"} : users[u][f] = users[v][f] => users[u][f] = Nobody

=================================================================================
