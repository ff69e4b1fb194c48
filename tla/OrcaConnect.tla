------------------------------ MODULE OrcaConnect ------------------------------
(***************************************************************************)
(* The OrcaRouter connect flow: ConnectURL and Exchange of                 *)
(* src/internal/orca/orca.go behind handleOrcaConnectURL and               *)
(* handleOrcaCallback of src/internal/server/partner.go, which adds the    *)
(* key it gets to the pool.  Attempts are kept in memory only.             *)
(***************************************************************************)
EXTENDS KeyPool

CONSTANTS
  Connects,      \* states ConnectURL may draw, each at most once
  Callbacks,     \* callback requests served at a time
  ConnectTTL     \* pendingConnectTTL

NoConnect == "no attempt"

ASSUME OrcaAssumption == NoConnect \notin Connects /\ ConnectTTL \in Nat

VARIABLES
  pending,    \* pending[s]: when the attempt expires, 0 if there is none
  minted,     \* minted[s]: when the attempt of state s was minted, 0 if it was not
  callback,   \* callback[c]: the state whose code request c is exchanging
  connected   \* connected[s]: keys that attempt s has added

orcaVars == <<pending, minted, callback, connected>>

OrcaInit ==
  /\ KeyPoolInit
  /\ pending = [s \in Connects |-> 0]
  /\ minted = [s \in Connects |-> 0]
  /\ callback = [c \in Callbacks |-> NoConnect]
  /\ connected = [s \in Connects |-> 0]

Redeemable(s) == pending[s] # 0 /\ pending[s] >= now

(* An attempt's state is fresh; expired attempts are swept with it.        *)
ConnectURL(s) ==
  /\ minted[s] = 0
  /\ minted' = [minted EXCEPT ![s] = now]
  /\ pending' = [t \in Connects |->
                   IF t = s THEN now + ConnectTTL ELSE IF Redeemable(t) THEN pending[t] ELSE 0]
  /\ UNCHANGED <<callback, connected>> /\ UNCHANGED keyVars

(* Mutant: the attempt is kept until the exchange has succeeded.           *)
ReadVerifier(c, s) ==
  /\ callback[c] = NoConnect
  /\ Redeemable(s)
  /\ callback' = [callback EXCEPT ![c] = s]
  /\ UNCHANGED <<pending, minted, connected>> /\ UNCHANGED keyVars

(* takeVerifier, under the lock: the attempt is gone, expired or not.      *)
TakeVerifier(c, s) ==
  /\ callback[c] = NoConnect
  /\ pending[s] # 0
  /\ pending' = [pending EXCEPT ![s] = 0]
  /\ callback' = [callback EXCEPT ![c] = IF Redeemable(s) THEN s ELSE NoConnect]
  /\ UNCHANGED <<minted, connected>> /\ UNCHANGED keyVars

(* The exchange failed, answered no key, or the key could not be stored.   *)
ExchangeFails(c) ==
  /\ callback[c] # NoConnect
  /\ callback' = [callback EXCEPT ![c] = NoConnect]
  /\ UNCHANGED <<pending, minted, connected>> /\ UNCHANGED keyVars

StoreConnectedKey(c) ==
  /\ callback[c] # NoConnect
  /\ AddKey
  /\ connected' = [connected EXCEPT ![callback[c]] = @ + 1]
  /\ callback' = [callback EXCEPT ![c] = NoConnect]
  /\ UNCHANGED <<pending, minted>>

(* The process restarts and forgets its attempts, and its workers' calls   *)
(* with them.                                                              *)
RestartServer ==
  /\ pending' = [s \in Connects |-> 0]
  /\ callback' = [c \in Callbacks |-> NoConnect]
  /\ jobs' = [w \in KeyUsers |-> AtEase]
  /\ UNCHANGED <<minted, connected, now, today, keys, steady, handed>>

OrcaNext ==
  \/ KeyPoolNext /\ UNCHANGED orcaVars
  \/ \E s \in Connects : ConnectURL(s)
  \/ \E c \in Callbacks :
       (\E s \in Connects : TakeVerifier(c, s)) \/ ExchangeFails(c) \/ StoreConnectedKey(c)
  \/ RestartServer

OrcaSpec == OrcaInit /\ [][OrcaNext]_<<keyVars, orcaVars>>

(* An attempt completes at most once, however often and from however many  *)
(* tabs its callback is loaded, and across restarts.                       *)
OneKeyPerConnect == \A s \in Connects : connected[s] <= 1

================================================================================
