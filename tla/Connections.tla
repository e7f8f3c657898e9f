---------------------------- MODULE Connections ----------------------------
(***************************************************************************)
(* Connecting a client's account on a platform: a browser is sent to the    *)
(* platform and comes back with a code, which is exchanged for tokens.      *)
(* Meanwhile it may start another connection or log in for another agency.  *)
(***************************************************************************)
EXTENDS Tenancy, FiniteSets

CONSTANTS Browser,
          Network,     \* platforms
          Nonce,       \* nonces of /start, never used twice
          NoNonce,
          Return,      \* requests to /callback running at a time
          Connected    \* ids of ConnectedAccount rows

ASSUME ConnectionsAssumption == NoNonce \notin Nonce

VARIABLES
  jar,      \* each browser's session and oauth_state cookie
  consent,  \* the connections started: what their state parameter carries
  code,     \* the platforms: codes given for each state
  return,   \* what each callback keeps across awaits
  account   \* the ConnectedAccount table

connectionVars == <<jar, consent, code, return, account>>

NoConsent == [network |-> "none"]
\* by and from are histories: the state carries both, the callback ignores them.
Consent == [client : Client, network : Network, by : Agency, from : Browser]
NoCallback == [pc |-> "idle"]
Callback == [pc : {"exchange", "create", "clear"}, nonce : Nonce, browser : Browser,
             agency : Agency]
NoAccountRow == [nonce |-> NoNonce]
AccountRow == [client : Client, network : Network, nonce : Nonce, agency : Agency,
               browser : Browser]

ConnectionsTypeOK ==
  /\ jar \in [Browser -> [agency : Agency, nonce : Nonce \cup {NoNonce}]]
  /\ consent \in [Nonce -> {NoConsent} \cup Consent]
  /\ code \in [Nonce -> {"none", "given", "spent"}]
  /\ return \in [Return -> {NoCallback} \cup Callback]
  /\ account \in [Connected -> {NoAccountRow} \cup AccountRow]

ConnectionsInit ==
  /\ jar \in [Browser -> [agency : Agency, nonce : {NoNonce}]]
  /\ consent = [n \in Nonce |-> NoConsent]
  /\ code = [n \in Nonce |-> "none"]
  /\ return = [r \in Return |-> NoCallback]
  /\ account = [x \in Connected |-> NoAccountRow]

ReturnAt(r, pc) == return[r].pc = pc

\* Mutant: the cookie holds the whole state.
StartWithState(b, n, c, p) ==
  /\ consent[n] = NoConsent
  /\ consent' = [consent EXCEPT ![n] =
       [client |-> c, network |-> p, by |-> jar[b].agency, from |-> b]]
  /\ jar' = [jar EXCEPT ![b].nonce = consent'[n]]
  /\ UNCHANGED <<code, return, account>>

\* GET start: the client is not looked at until the callback.
Start(b, n, c, p) ==
  /\ consent[n] = NoConsent
  /\ consent' = [consent EXCEPT ![n] =
       [client |-> c, network |-> p, by |-> jar[b].agency, from |-> b]]
  /\ jar' = [jar EXCEPT ![b].nonce = n]
  /\ UNCHANGED <<code, return, account>>

LogInAs(b, a) ==
  /\ jar[b].agency # a
  /\ jar' = [jar EXCEPT ![b].agency = a]
  /\ UNCHANGED <<consent, code, return, account>>

\* The user agrees on the platform's page.
GiveCode(n) ==
  /\ consent[n] # NoConsent
  /\ code[n] = "none"
  /\ code' = [code EXCEPT ![n] = "given"]
  /\ UNCHANGED <<jar, consent, return, account>>

\* Mutant: any state that was started.
CookieMatchesAny(b, n) == jar[b].nonce # NoNonce

\* The state's nonce is the browser's cookie.
CookieMatches(b, n) == jar[b].nonce = n

\* GET callback, with the state and its code in the url; a browser may load the
\* url again.
OpenCallback(r, b, n) ==
  /\ return[r] = NoCallback
  /\ code[n] # "none"
  /\ CookieMatches(b, n)
  /\ return' = [return EXCEPT ![r] =
       [pc |-> "exchange", nonce |-> n, browser |-> b, agency |-> jar[b].agency]]
  /\ UNCHANGED <<jar, consent, code, account>>

\* exchangeCode: the platform takes a code once. It may also refuse.
ExchangeCode(r) ==
  /\ ReturnAt(r, "exchange")
  /\ LET n == return[r].nonce
     IN \/ /\ code[n] = "given"
           /\ code' = [code EXCEPT ![n] = "spent"]
           /\ return' = [return EXCEPT ![r].pc = "create"]
        \/ /\ return' = [return EXCEPT ![r] = NoCallback]
           /\ UNCHANGED code
  /\ UNCHANGED <<jar, consent, account>>

\* Mutant: the agency that the state names.
MayConnectForStarter(t) == Owns(consent[t.nonce].by, consent[t.nonce].client)

\* The client of the state belongs to the agency of the callback's session.
MayConnect(t) == Owns(t.agency, consent[t.nonce].client)

\* accounts.create, in a transaction with its check.
CreateAccount(r, x) ==
  /\ ReturnAt(r, "create")
  /\ account[x] = NoAccountRow
  /\ LET t == return[r]
     IN IF MayConnect(t)
        THEN /\ account' = [account EXCEPT ![x] =
                  [client |-> consent[t.nonce].client, network |-> consent[t.nonce].network,
                   nonce |-> t.nonce, agency |-> t.agency, browser |-> t.browser]]
             /\ return' = [return EXCEPT ![r].pc = "clear"]
        ELSE /\ return' = [return EXCEPT ![r] = NoCallback]
             /\ UNCHANGED account
  /\ UNCHANGED <<jar, consent, code>>

\* The answer clears the cookie, whichever connection set it last.
ClearCookie(r) ==
  /\ ReturnAt(r, "clear")
  /\ jar' = [jar EXCEPT ![return[r].browser].nonce = NoNonce]
  /\ return' = [return EXCEPT ![r] = NoCallback]
  /\ UNCHANGED <<consent, code, account>>

ReturnStep(r) ==
  \/ \E b \in Browser, n \in Nonce : OpenCallback(r, b, n)
  \/ ExchangeCode(r)
  \/ \E x \in Connected : CreateAccount(r, x)
  \/ ClearCookie(r)

ConnectionsNext ==
  \/ \E b \in Browser, n \in Nonce, c \in Client, p \in Network : Start(b, n, c, p)
  \/ \E b \in Browser, a \in Agency : LogInAs(b, a)
  \/ \E n \in Nonce : GiveCode(n)
  \/ \E r \in Return : ReturnStep(r)

ConnectionsSpec == ConnectionsInit /\ [][ConnectionsNext]_connectionVars

----------------------------------------------------------------------------
(* Properties.                                                              *)

\* Whoever logs in and out between start and callback, an account is connected
\* to a client of the agency whose session finished the connection.
\* (prisma-stores.ts:467-490)
AccountsStayWithAgency ==
  \A x \in Connected : account[x] # NoAccountRow => Owns(account[x].agency, account[x].client)

\* Each consent makes at most one account, however often the callback's url is
\* loaded: the platform takes a code once. (connections/index.ts:65-75)
OneAccountPerConsent ==
  \A x, y \in Connected :
    account[x] # NoAccountRow /\ account[x].nonce = account[y].nonce => x = y

\* A connection is finished by the browser that started it, although it may have
\* started another one since. (callback/route.ts:35-39)
FinishedWhereBegun ==
  \A x \in Connected :
    account[x] # NoAccountRow => consent[account[x].nonce].from = account[x].browser

\* An account is connected where, and for whom, its owner agreed to.
AccountsAsAgreed == AccountsStayWithAgency /\ OneAccountPerConsent /\ FinishedWhereBegun

----------------------------------------------------------------------------
(* The inductive invariant behind AccountsAsAgreed: whoever has a nonce, the *)
(* browser's cookie, a callback on its way or a row, has got it from the     *)
(* browser that started that connection, and only one can spend its code.    *)

BegunBy(n, b) == consent[n] # NoConsent /\ consent[n].from = b

NoncesComeFromTheirBrowser ==
  /\ \A b \in Browser : jar[b].nonce # NoNonce => BegunBy(jar[b].nonce, b)
  /\ \A r \in Return : return[r] # NoCallback => BegunBy(return[r].nonce, return[r].browser)
  /\ \A x \in Connected : account[x] # NoAccountRow => BegunBy(account[x].nonce, account[x].browser)

CodesComeFromConsents == \A n \in Nonce : code[n] # "none" => consent[n] # NoConsent

CodesAreSpentOnce ==
  /\ \A r \in Return : ReturnAt(r, "create") => code[return[r].nonce] = "spent"
  /\ \A x \in Connected : account[x] # NoAccountRow => code[account[x].nonce] = "spent"
  /\ \A r, q \in Return :
       ReturnAt(r, "create") /\ ReturnAt(q, "create") /\ return[r].nonce = return[q].nonce => r = q
  /\ \A r \in Return, x \in Connected :
       ReturnAt(r, "create") => account[x] = NoAccountRow \/ account[x].nonce # return[r].nonce

ConnectionsInv ==
  /\ ConnectionsTypeOK
  /\ NoncesComeFromTheirBrowser
  /\ CodesComeFromConsents
  /\ CodesAreSpentOnce
  /\ AccountsAsAgreed
=============================================================================
