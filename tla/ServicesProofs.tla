--------------------------- MODULE ServicesProofs ---------------------------
(***************************************************************************)
(* What holds of connections, of the audit trail, of billing, of the rate    *)
(* limiter and of the list of clients, for any number of browsers, calls,    *)
(* agencies, webhooks, keys and readers.                                    *)
(***************************************************************************)
EXTENDS MCServices, PortalProofs, FiniteSetTheorems, WellFoundedInduction, TLAPS

----------------------------------------------------------------------------
(* Connections.                                                             *)

\* A consent, a callback and a row are told apart from none of them.
LEMMA NoneIsNone ==
  /\ \A c \in Consent : c # NoConsent
  /\ \A t \in Callback : t # NoCallback
  /\ \A a \in AccountRow : a # NoAccountRow
<1>1. \A c \in Consent : c # NoConsent
  <2> SUFFICES ASSUME NEW c \in Consent, c = NoConsent PROVE FALSE
    OBVIOUS
  <2>1. DOMAIN c = {"client", "network", "by", "from"} /\ DOMAIN NoConsent = {"network"}
    BY DEF Consent, NoConsent
  <2> QED
    BY <2>1
<1> QED
  BY <1>1, ConnectionsAssumption DEF Callback, NoCallback, AccountRow, NoAccountRow

LEMMA ConnectionsInvInit ==
  ASSUME ConnectionsInit
  PROVE  ConnectionsInv
<1> USE DEF ConnectionsInit
<1>1. ConnectionsTypeOK
  BY DEF ConnectionsTypeOK
<1> QED
  BY <1>1 DEF ConnectionsInv, NoncesComeFromTheirBrowser, CodesComeFromConsents,
     CodesAreSpentOnce, AccountsAsAgreed, AccountsStayWithAgency, OneAccountPerConsent,
     FinishedWhereBegun, ReturnAt, NoCallback

LEMMA CallbackHasLocals ==
  ASSUME ConnectionsTypeOK, NEW r \in Return, return[r] # NoCallback
  PROVE  /\ return[r] \in Callback
         /\ return[r].nonce \in Nonce
         /\ return[r].browser \in Browser
         /\ return[r].agency \in Agency
  BY DEF ConnectionsTypeOK, Callback

LEMMA ConnectionsTypes ==
  ASSUME ConnectionsInv, ConnectionsNext
  PROVE  ConnectionsTypeOK'
<1> USE DEF ConnectionsInv, ConnectionsTypeOK
<1>1. ASSUME NEW b \in Browser, NEW n \in Nonce, NEW c \in Client, NEW p \in Network,
             Start(b, n, c, p)
      PROVE  ConnectionsTypeOK'
  <2> DEFINE d == [client |-> c, network |-> p, by |-> jar[b].agency, from |-> b]
  <2>1. d \in Consent
    BY DEF Consent
  <2>2. consent' = [consent EXCEPT ![n] = d]
    BY <1>1 DEF Start
  <2> QED
    BY <1>1, <2>1, <2>2 DEF Start
<1>2. ASSUME NEW b \in Browser, NEW a \in Agency, LogInAs(b, a)
      PROVE  ConnectionsTypeOK'
  BY <1>2 DEF LogInAs
<1>3. ASSUME NEW n \in Nonce, GiveCode(n)
      PROVE  ConnectionsTypeOK'
  BY <1>3 DEF GiveCode
<1>4. ASSUME NEW r \in Return, NEW b \in Browser, NEW n \in Nonce, OpenCallback(r, b, n)
      PROVE  ConnectionsTypeOK'
  BY <1>4 DEF OpenCallback, Callback
<1>5. ASSUME NEW r \in Return, ExchangeCode(r)
      PROVE  ConnectionsTypeOK'
  <2>1. return[r] \in Callback
    BY <1>5, CallbackHasLocals DEF ExchangeCode, ReturnAt, NoCallback
  <2>2. [return[r] EXCEPT !.pc = "create"] \in Callback
    BY <2>1 DEF Callback
  <2> QED
    BY <1>5, <2>1, <2>2 DEF ExchangeCode
<1>6. ASSUME NEW r \in Return, NEW x \in Connected, CreateAccount(r, x)
      PROVE  ConnectionsTypeOK'
  <2>1. return[r] # NoCallback
    BY <1>6 DEF CreateAccount, ReturnAt, NoCallback
  <2>2. return[r] \in Callback /\ return[r].nonce \in Nonce
    BY <2>1, CallbackHasLocals
  <2>3. consent[return[r].nonce] \in Consent
    BY <2>1, <2>2 DEF NoncesComeFromTheirBrowser, BegunBy
  <2> DEFINE row == [client |-> consent[return[r].nonce].client,
                     network |-> consent[return[r].nonce].network,
                     nonce |-> return[r].nonce, agency |-> return[r].agency,
                     browser |-> return[r].browser]
  <2>4. row \in AccountRow
    BY <2>2, <2>3 DEF Callback, Consent, AccountRow
  <2>5. [return[r] EXCEPT !.pc = "clear"] \in Callback
    BY <2>2 DEF Callback
  <2>6. /\ account' = account \/ account' = [account EXCEPT ![x] = row]
        /\ \/ return' = [return EXCEPT ![r] = NoCallback]
           \/ return' = [return EXCEPT ![r] = [return[r] EXCEPT !.pc = "clear"]]
        /\ UNCHANGED <<jar, consent, code>>
    BY <1>6 DEF CreateAccount
  <2> QED
    BY <2>4, <2>5, <2>6
<1>7. ASSUME NEW r \in Return, ClearCookie(r)
      PROVE  ConnectionsTypeOK'
  <2>1. return[r].browser \in Browser
    BY <1>7, CallbackHasLocals DEF ClearCookie, ReturnAt, NoCallback
  <2> QED
    BY <1>7, <2>1 DEF ClearCookie
<1> QED
  BY <1>1, <1>2, <1>3, <1>4, <1>5, <1>6, <1>7 DEF ConnectionsNext, ReturnStep

LEMMA NoncesStayWithBrowser ==
  ASSUME ConnectionsInv, ConnectionsNext
  PROVE  NoncesComeFromTheirBrowser'
<1> USE DEF ConnectionsInv, ConnectionsTypeOK, NoncesComeFromTheirBrowser, BegunBy
<1>1. ASSUME NEW b \in Browser, NEW n \in Nonce, NEW c \in Client, NEW p \in Network,
             Start(b, n, c, p)
      PROVE  NoncesComeFromTheirBrowser'
  <2> DEFINE d == [client |-> c, network |-> p, by |-> jar[b].agency, from |-> b]
  <2>1. d \in Consent /\ d.from = b /\ d # NoConsent
    BY NoneIsNone DEF Consent
  <2>2. /\ consent' = [consent EXCEPT ![n] = d] /\ consent[n] = NoConsent
        /\ jar' = [jar EXCEPT ![b].nonce = n] /\ UNCHANGED <<return, account>>
    BY <1>1 DEF Start
  <2>3. ASSUME NEW m \in Nonce, NEW o, BegunBy(m, o)
        PROVE  BegunBy(m, o)'
    BY <2>1, <2>2, <2>3
  <2>4. \A o \in Browser : (jar[o].nonce # NoNonce => BegunBy(jar[o].nonce, o))'
    <3> TAKE o \in Browser
    <3>1. CASE o = b
      BY <2>1, <2>2, <3>1
    <3>2. CASE o # b
      BY <2>2, <2>3, <3>2
    <3> QED
      BY <3>1, <3>2
  <2>5. \A r \in Return : (return[r] # NoCallback => BegunBy(return[r].nonce, return[r].browser))'
    BY <2>2, <2>3, CallbackHasLocals
  <2>6. \A x \in Connected : (account[x] # NoAccountRow => BegunBy(account[x].nonce, account[x].browser))'
    BY <2>2, <2>3 DEF AccountRow
  <2> QED
    BY <2>4, <2>5, <2>6
<1>2. ASSUME NEW b \in Browser, NEW a \in Agency, LogInAs(b, a)
      PROVE  NoncesComeFromTheirBrowser'
  BY <1>2 DEF LogInAs
<1>3. ASSUME NEW n \in Nonce, GiveCode(n)
      PROVE  NoncesComeFromTheirBrowser'
  BY <1>3 DEF GiveCode
<1>4. ASSUME NEW r \in Return, NEW b \in Browser, NEW n \in Nonce, OpenCallback(r, b, n)
      PROVE  NoncesComeFromTheirBrowser'
  <2>1. BegunBy(n, b)
    BY <1>4, ConnectionsAssumption DEF OpenCallback, CookieMatches
  <2> QED
    BY <1>4, <2>1 DEF OpenCallback
<1>5. ASSUME NEW r \in Return, ExchangeCode(r)
      PROVE  NoncesComeFromTheirBrowser'
  <2>1. return[r] \in Callback /\ return[r] # NoCallback
    BY <1>5, CallbackHasLocals DEF ExchangeCode, ReturnAt, NoCallback
  <2>2. /\ \/ return' = [return EXCEPT ![r] = NoCallback]
           \/ return' = [return EXCEPT ![r] = [return[r] EXCEPT !.pc = "create"]]
        /\ UNCHANGED <<jar, consent, account>>
    BY <1>5 DEF ExchangeCode
  <2> QED
    BY <2>1, <2>2 DEF Callback
<1>6. ASSUME NEW r \in Return, NEW x \in Connected, CreateAccount(r, x)
      PROVE  NoncesComeFromTheirBrowser'
  <2>1. return[r] \in Callback /\ return[r] # NoCallback
    BY <1>6, CallbackHasLocals DEF CreateAccount, ReturnAt, NoCallback
  <2>2. /\ \/ return' = [return EXCEPT ![r] = NoCallback]
           \/ return' = [return EXCEPT ![r] = [return[r] EXCEPT !.pc = "clear"]]
        /\ UNCHANGED <<jar, consent>>
    BY <1>6 DEF CreateAccount
  <2>3. \A q \in Return : (return[q] # NoCallback => BegunBy(return[q].nonce, return[q].browser))'
    BY <2>1, <2>2 DEF Callback
  <2>4. \A y \in Connected : (account[y] # NoAccountRow => BegunBy(account[y].nonce, account[y].browser))'
    BY <1>6, <2>1 DEF CreateAccount
  <2> QED
    BY <2>2, <2>3, <2>4
<1>7. ASSUME NEW r \in Return, ClearCookie(r)
      PROVE  NoncesComeFromTheirBrowser'
  <2>1. return[r].browser \in Browser
    BY <1>7, CallbackHasLocals DEF ClearCookie, ReturnAt, NoCallback
  <2> QED
    BY <1>7, <2>1 DEF ClearCookie
<1> QED
  BY <1>1, <1>2, <1>3, <1>4, <1>5, <1>6, <1>7 DEF ConnectionsNext, ReturnStep

LEMMA CodesStayOfConsents ==
  ASSUME ConnectionsInv, ConnectionsNext
  PROVE  CodesComeFromConsents'
<1> USE DEF ConnectionsInv, ConnectionsTypeOK, CodesComeFromConsents
<1>1. ASSUME NEW b \in Browser, NEW n \in Nonce, NEW c \in Client, NEW p \in Network,
             Start(b, n, c, p)
      PROVE  CodesComeFromConsents'
  <2>1. \A a \in Agency : [client |-> c, network |-> p, by |-> a, from |-> b] # NoConsent
    BY NoneIsNone DEF Consent
  <2> QED
    BY <1>1, <2>1 DEF Start
<1>2. ASSUME NEW b \in Browser, NEW a \in Agency, LogInAs(b, a)
      PROVE  CodesComeFromConsents'
  BY <1>2 DEF LogInAs
<1>3. ASSUME NEW n \in Nonce, GiveCode(n)
      PROVE  CodesComeFromConsents'
  BY <1>3 DEF GiveCode
<1>4. ASSUME NEW r \in Return, NEW b \in Browser, NEW n \in Nonce, OpenCallback(r, b, n)
      PROVE  CodesComeFromConsents'
  BY <1>4 DEF OpenCallback
<1>5. ASSUME NEW r \in Return, ExchangeCode(r)
      PROVE  CodesComeFromConsents'
  BY <1>5 DEF ExchangeCode
<1>6. ASSUME NEW r \in Return, NEW x \in Connected, CreateAccount(r, x)
      PROVE  CodesComeFromConsents'
  BY <1>6 DEF CreateAccount
<1>7. ASSUME NEW r \in Return, ClearCookie(r)
      PROVE  CodesComeFromConsents'
  BY <1>7 DEF ClearCookie
<1> QED
  BY <1>1, <1>2, <1>3, <1>4, <1>5, <1>6, <1>7 DEF ConnectionsNext, ReturnStep

LEMMA CodesStaySpent ==
  ASSUME ConnectionsInv, ConnectionsNext
  PROVE  CodesAreSpentOnce'
<1> USE DEF ConnectionsInv, ConnectionsTypeOK, CodesAreSpentOnce, ReturnAt
<1>1. ASSUME NEW b \in Browser, NEW n \in Nonce, NEW c \in Client, NEW p \in Network,
             Start(b, n, c, p)
      PROVE  CodesAreSpentOnce'
  BY <1>1 DEF Start
<1>2. ASSUME NEW b \in Browser, NEW a \in Agency, LogInAs(b, a)
      PROVE  CodesAreSpentOnce'
  BY <1>2 DEF LogInAs
<1>3. ASSUME NEW n \in Nonce, GiveCode(n)
      PROVE  CodesAreSpentOnce'
  <2>1. \A m \in Nonce : code[m] = "spent" => code'[m] = "spent"
    BY <1>3 DEF GiveCode
  <2> QED
    BY <1>3, <2>1, CallbackHasLocals DEF GiveCode, NoCallback, AccountRow
<1>4. ASSUME NEW r \in Return, NEW b \in Browser, NEW n \in Nonce, OpenCallback(r, b, n)
      PROVE  CodesAreSpentOnce'
  BY <1>4 DEF OpenCallback
<1>5. ASSUME NEW r \in Return, ExchangeCode(r)
      PROVE  CodesAreSpentOnce'
  <2>1. return[r] \in Callback /\ return[r].nonce \in Nonce
    BY <1>5, CallbackHasLocals DEF ExchangeCode, NoCallback
  <2>2. CASE /\ code[return[r].nonce] = "given"
             /\ code' = [code EXCEPT ![return[r].nonce] = "spent"]
             /\ return' = [return EXCEPT ![r] = [return[r] EXCEPT !.pc = "create"]]
    <3>1. \A q \in Return : ReturnAt(q, "create")' =>
            return'[q].nonce = return[q].nonce /\ (q = r \/ ReturnAt(q, "create"))
      BY <2>1, <2>2 DEF Callback
    <3>2. \A m \in Nonce : code[m] = "spent" => code'[m] = "spent"
      BY <2>2
    <3>3. \A q \in Return : ReturnAt(q, "create") => return[q].nonce # return[r].nonce
      BY <2>2
    <3>4. \A y \in Connected : account[y] # NoAccountRow => account[y].nonce # return[r].nonce
      BY <2>2
    <3>5. UNCHANGED account
      BY <1>5 DEF ExchangeCode
    <3>6. \A q \in Return : ReturnAt(q, "create")' => code'[return'[q].nonce] = "spent"
      BY <2>1, <2>2, <3>1, <3>2, CallbackHasLocals DEF NoCallback
    <3>7. \A y \in Connected : account'[y] # NoAccountRow => code'[account'[y].nonce] = "spent"
      BY <3>2, <3>5 DEF AccountRow
    <3>8. \A q, t \in Return :
            ReturnAt(q, "create")' /\ ReturnAt(t, "create")' /\ return'[q].nonce = return'[t].nonce
              => q = t
      BY <3>1, <3>3
    <3>9. \A q \in Return, y \in Connected :
            ReturnAt(q, "create")' => account'[y] = NoAccountRow \/ account'[y].nonce # return'[q].nonce
      BY <3>1, <3>4, <3>5
    <3> QED
      BY <3>6, <3>7, <3>8, <3>9
  <2>3. CASE return' = [return EXCEPT ![r] = NoCallback] /\ UNCHANGED code
    BY <1>5, <2>3 DEF ExchangeCode, NoCallback
  <2> QED
    BY <1>5, <2>2, <2>3 DEF ExchangeCode
<1>6. ASSUME NEW r \in Return, NEW x \in Connected, CreateAccount(r, x)
      PROVE  CodesAreSpentOnce'
  <2>1. return[r] \in Callback /\ ReturnAt(r, "create")
    BY <1>6, CallbackHasLocals DEF CreateAccount, NoCallback
  <2>2. \A q \in Return : ReturnAt(q, "create")' =>
          ReturnAt(q, "create") /\ q # r /\ return'[q] = return[q]
    BY <1>6, <2>1 DEF CreateAccount, NoCallback, Callback
  <2>3. \A y \in Connected : account'[y] = account[y] \/ account'[y].nonce = return[r].nonce
    BY <1>6 DEF CreateAccount
  <2>4. UNCHANGED code
    BY <1>6 DEF CreateAccount
  <2> QED
    BY <2>1, <2>2, <2>3, <2>4
<1>7. ASSUME NEW r \in Return, ClearCookie(r)
      PROVE  CodesAreSpentOnce'
  BY <1>7 DEF ClearCookie, NoCallback
<1> QED
  BY <1>1, <1>2, <1>3, <1>4, <1>5, <1>6, <1>7 DEF ConnectionsNext, ReturnStep

LEMMA AccountsStayAsAgreed ==
  ASSUME ConnectionsInv, ConnectionsNext
  PROVE  AccountsAsAgreed'
<1> USE DEF AccountsAsAgreed, AccountsStayWithAgency, OneAccountPerConsent, FinishedWhereBegun
<1> USE DEF ConnectionsInv, ConnectionsTypeOK
<1>0. ASSUME UNCHANGED <<consent, account>>
      PROVE  AccountsAsAgreed'
  BY <1>0
<1>1. ASSUME NEW b \in Browser, NEW n \in Nonce, NEW c \in Client, NEW p \in Network,
             Start(b, n, c, p)
      PROVE  AccountsAsAgreed'
  <2>1. UNCHANGED account /\ \A m \in Nonce : consent[m] # NoConsent => consent'[m] = consent[m]
    BY <1>1 DEF Start
  <2> QED
    BY <2>1 DEF NoncesComeFromTheirBrowser, BegunBy, AccountRow
<1>2. ASSUME NEW b \in Browser, NEW a \in Agency, LogInAs(b, a)
      PROVE  AccountsAsAgreed'
  BY <1>2, <1>0 DEF LogInAs
<1>3. ASSUME NEW n \in Nonce, GiveCode(n)
      PROVE  AccountsAsAgreed'
  BY <1>3, <1>0 DEF GiveCode
<1>4. ASSUME NEW r \in Return, NEW b \in Browser, NEW n \in Nonce, OpenCallback(r, b, n)
      PROVE  AccountsAsAgreed'
  BY <1>4, <1>0 DEF OpenCallback
<1>5. ASSUME NEW r \in Return, ExchangeCode(r)
      PROVE  AccountsAsAgreed'
  BY <1>5, <1>0 DEF ExchangeCode
<1>6. ASSUME NEW r \in Return, NEW x \in Connected, CreateAccount(r, x)
      PROVE  AccountsAsAgreed'
  <2>1. CASE UNCHANGED account
    BY <1>6, <1>0, <2>1 DEF CreateAccount
  <2>2. CASE ~UNCHANGED account
    <3> DEFINE n == return[r].nonce
    <3>1. /\ ReturnAt(r, "create") /\ return[r] # NoCallback
          /\ Owns(return[r].agency, consent[n].client)
          /\ account' = [account EXCEPT ![x] =
               [client |-> consent[n].client, network |-> consent[n].network,
                nonce |-> n, agency |-> return[r].agency, browser |-> return[r].browser]]
          /\ UNCHANGED consent
      BY <1>6, <2>2 DEF CreateAccount, MayConnect, ReturnAt, NoCallback
    <3>2. consent[n].from = return[r].browser
      BY <3>1 DEF NoncesComeFromTheirBrowser, BegunBy
    <3>3. \A y \in Connected : account[y] # NoAccountRow => account[y].nonce # n
      BY <3>1 DEF CodesAreSpentOnce
    <3>4. AccountsStayWithAgency'
      BY <3>1 DEF Owns
    <3>5. FinishedWhereBegun'
      BY <3>1, <3>2
    <3>6. OneAccountPerConsent'
      <4> SUFFICES ASSUME NEW y \in Connected, NEW z \in Connected,
                          account'[y] # NoAccountRow, account'[y].nonce = account'[z].nonce,
                          y # z
                   PROVE  FALSE
        OBVIOUS
      <4>1. CASE y = x
        <5>1. account[z].nonce = n /\ account[z] = account'[z]
          BY <3>1, <4>1
        <5>2. n \in Nonce
          BY <3>1, CallbackHasLocals
        <5> QED
          BY <3>3, <5>1, <5>2, ConnectionsAssumption DEF NoAccountRow
      <4>2. CASE z = x
        BY <3>1, <3>3, <4>2
      <4>3. CASE y # x /\ z # x
        BY <3>1, <4>3
      <4> QED
        BY <4>1, <4>2, <4>3
    <3> QED
      BY <3>4, <3>5, <3>6
  <2> QED
    BY <2>1, <2>2
<1>7. ASSUME NEW r \in Return, ClearCookie(r)
      PROVE  AccountsAsAgreed'
  BY <1>7, <1>0 DEF ClearCookie
<1> QED
  BY <1>1, <1>2, <1>3, <1>4, <1>5, <1>6, <1>7 DEF ConnectionsNext, ReturnStep

LEMMA ConnectionsInvariance == ConnectionsSpec => []ConnectionsInv
<1>1. ASSUME ConnectionsInv, [ConnectionsNext]_connectionVars
      PROVE  ConnectionsInv'
  <2>1. CASE ConnectionsNext
    BY <1>1, <2>1, ConnectionsTypes, NoncesStayWithBrowser, CodesStayOfConsents,
       CodesStaySpent, AccountsStayAsAgreed DEF ConnectionsInv
  <2>2. CASE UNCHANGED connectionVars
    BY <1>1, <2>2 DEF connectionVars, ConnectionsInv, ConnectionsTypeOK,
       NoncesComeFromTheirBrowser, BegunBy, CodesComeFromConsents, CodesAreSpentOnce,
       ReturnAt, AccountsAsAgreed, AccountsStayWithAgency, OneAccountPerConsent,
       FinishedWhereBegun
  <2> QED
    BY <1>1, <2>1, <2>2
<1> QED
  BY <1>1, ConnectionsInvInit, PTL DEF ConnectionsSpec

\* Whatever browsers start, load again and log in as in between, an account is
\* connected to a client of the agency that finished, by the browser that started,
\* and once for a consent (callback/route.ts:35-57, prisma-stores.ts:467-490).
THEOREM AccountsAreAsAgreed == ConnectionsSpec => []AccountsAsAgreed
<1>1. ConnectionsInv => AccountsAsAgreed
  BY DEF ConnectionsInv
<1> QED
  BY <1>1, ConnectionsInvariance, PTL

----------------------------------------------------------------------------
(* Calls of the model.                                                      *)

LEMMA AuditInvInit ==
  ASSUME AuditInit
  PROVE  AuditInv
  BY AuditAssumption
  DEF AuditInit, AuditInv, AuditTypeOK, AiState, RecordsAreDue, AnswersAreOnRecord

\* What the invariant says of one call.
Fits(s, rec) ==
  /\ s.pc \in {"calling", "recordSuccess"} => rec.success = 0
  /\ s.pc \in {"calling", "recordSuccess", "recordError"} => rec.error = 0
  /\ s.pc = "recordSuccess" => s.fn = "ok"
  /\ rec.success <= 1 /\ rec.error <= 1
  /\ s.pc = "answered" => s.fn = "ok" /\ rec.success = 1 /\ rec.error = 0
  /\ s.pc = "thrown" /\ "error" \notin s.missed => rec.error = 1
  /\ rec.success = 1 => s.fn = "ok"
  /\ rec.success = 1 /\ s.pc # "answered" => "success" \in s.missed

OnlyMoves(x) ==
  /\ ai' = [ai EXCEPT ![x] = ai'[x]]
  /\ records' = [records EXCEPT ![x] = records'[x]]

\* A step is one of one call: the others stay as they are.
LEMMA OneCallMoves ==
  ASSUME AuditInv, AuditTypeOK', NEW x \in AiCall, Fits(ai'[x], records'[x]),
         \A y \in AiCall : y # x => ai'[y] = ai[y] /\ records'[y] = records[y]
  PROVE  AuditInv'
  BY DEF AuditInv, RecordsAreDue, AnswersAreOnRecord, Fits

\* A call at whose record the sink failed is a call still. (audit/index.ts:58-81)
LEMMA MissedGrows ==
  ASSUME NEW a \in AiState, NEW pc \in {"recordError", "thrown"}, NEW r \in {"success", "error"}
  PROVE  [a EXCEPT !.pc = pc, !.missed = @ \cup {r}] \in AiState
<1> DEFINE grown == a.missed \cup {r}
<1>1. grown \in SUBSET {"success", "error"}
  BY DEF AiState
<1>2. [a EXCEPT !.pc = pc, !.missed = @ \cup {r}] = [a EXCEPT !.pc = pc, !.missed = grown]
  BY DEF AiState
<1> HIDE DEF grown
<1>3. [a EXCEPT !.pc = pc, !.missed = grown] \in AiState
  BY <1>1 DEF AiState
<1> QED
  BY <1>2, <1>3

LEMMA AuditInvStep ==
  ASSUME AuditInv, [AuditNext]_auditVars
  PROVE  AuditInv'
<1> DEFINE Rec == [success : Nat, error : Nat]
<1>1. CASE UNCHANGED auditVars
  BY <1>1 DEF auditVars, AuditInv, AuditTypeOK, RecordsAreDue, AnswersAreOnRecord
<1>2. ASSUME NEW x \in AiCall
      PROVE  ai[x] \in AiState /\ records[x] \in Rec /\ Fits(ai[x], records[x])
  BY DEF AuditInv, AuditTypeOK, RecordsAreDue, AnswersAreOnRecord, Fits
<1>3. ASSUME NEW x \in AiCall, RunFn(x)
      PROVE  AuditInv'
  <2>0. /\ \/ ai'[x] = [ai[x] EXCEPT !.pc = "recordSuccess", !.fn = "ok"]
           \/ ai'[x] = [ai[x] EXCEPT !.pc = "recordError", !.fn = "error"]
        /\ \A y \in AiCall : y # x => ai'[y] = ai[y]
    BY <1>3 DEF RunFn, AuditInv, AuditTypeOK
  <2>1. /\ ai'[x] \in AiState
        /\ \/ ai'[x].pc = "recordSuccess" /\ ai'[x].fn = "ok"
           \/ ai'[x].pc = "recordError"
        /\ \A y \in AiCall : y # x => ai'[y] = ai[y]
    BY <1>2, <2>0 DEF AiState
  <2>2. AuditTypeOK'
    <3>1. ai' = [ai EXCEPT ![x] = ai'[x]]
      BY <1>3 DEF RunFn, AuditInv, AuditTypeOK
    <3> QED
      BY <1>3, <2>1, <3>1 DEF RunFn, AuditInv, AuditTypeOK
  <2>3. Fits(ai'[x], records'[x])
    BY <1>2, <1>3, <2>1 DEF RunFn, Fits
  <2> QED
    BY <1>3, <2>1, <2>2, <2>3, OneCallMoves DEF RunFn
<1>4. ASSUME NEW x \in AiCall, RecordSuccess(x)
      PROVE  AuditInv'
  <2>1. /\ ai'[x] = [ai[x] EXCEPT !.pc = "answered"]
        /\ records'[x] = [records[x] EXCEPT !.success = @ + 1]
        /\ \A y \in AiCall : y # x => ai'[y] = ai[y] /\ records'[y] = records[y]
    BY <1>4 DEF RecordSuccess, AuditInv, AuditTypeOK
  <2>2. ai'[x] \in AiState /\ records'[x] \in Rec
    BY <1>2, <2>1 DEF AiState
  <2>3. AuditTypeOK'
    BY <1>4, <2>2 DEF RecordSuccess, AuditInv, AuditTypeOK
  <2>4. Fits(ai'[x], records'[x])
    BY <1>2, <1>4, <2>1 DEF RecordSuccess, Fits, AiState
  <2> QED
    BY <2>1, <2>3, <2>4, OneCallMoves
<1>5. ASSUME NEW x \in AiCall, RecordError(x)
      PROVE  AuditInv'
  <2>1. /\ ai'[x] = [ai[x] EXCEPT !.pc = "thrown"]
        /\ records'[x] = [records[x] EXCEPT !.error = @ + 1]
        /\ \A y \in AiCall : y # x => ai'[y] = ai[y] /\ records'[y] = records[y]
    BY <1>5 DEF RecordError, AuditInv, AuditTypeOK
  <2>2. records[x].error = 0
    BY <1>2, <1>5 DEF RecordError, Fits
  <2>3. ai'[x] \in AiState /\ records'[x] \in Rec
    BY <1>2, <2>1, <2>2 DEF AiState
  <2>0. UNCHANGED outages
    BY <1>5 DEF RecordError
  <2>4. AuditTypeOK'
    <3>1. OnlyMoves(x)
      BY <1>5, <2>1 DEF RecordError, OnlyMoves, AuditInv, AuditTypeOK
    <3> QED
      BY <1>2, <2>3, <2>0, <3>1 DEF OnlyMoves, AuditInv, AuditTypeOK
  <2>5. /\ records'[x].error = 1 /\ records'[x].success = records[x].success
        /\ ai'[x].pc = "thrown" /\ ai'[x].fn = ai[x].fn /\ ai'[x].missed = ai[x].missed
    BY <1>2, <2>1, <2>2 DEF AiState
  <2>6. Fits(ai'[x], records'[x])
    BY <1>2, <1>5, <2>5 DEF Fits, RecordError
  <2> QED
    BY <2>1, <2>4, <2>6, OneCallMoves
<1>6. ASSUME NEW x \in AiCall, NEW stored \in BOOLEAN, SinkFails(x, stored)
      PROVE  AuditInv'
  <2>0. /\ ai[x] \in AiState /\ records[x] \in Rec
        /\ outages \in Nat /\ outages <= MaxOutages /\ MaxOutages \in Nat
    BY AuditAssumption DEF AuditInv, AuditTypeOK
  <2>1. outages' \in 0 .. MaxOutages
    <3>1. outages < MaxOutages /\ outages' = outages + 1
      BY <1>6 DEF SinkFails
    <3> QED
      BY <2>0, <3>1
  <2>2. CASE ai[x].pc = "recordSuccess"
    <3>1. /\ ai'[x] = [ai[x] EXCEPT !.pc = "recordError", !.missed = @ \cup {"success"}]
          /\ \/ records'[x] = records[x]
             \/ records'[x] = [records[x] EXCEPT !.success = records[x].success + 1]
          /\ \A y \in AiCall : y # x => ai'[y] = ai[y] /\ records'[y] = records[y]
      BY <1>6, <2>2 DEF SinkFails, RecordDue, AuditInv, AuditTypeOK
    <3>2. records[x].success = 0 /\ records[x].error = 0
      BY <1>2, <2>2 DEF Fits
    <3>3. records'[x] \in {records[x], [records[x] EXCEPT !.success = 1]}
      BY <3>1, <3>2
    <3>4. ai'[x] \in AiState
      BY <2>0, <3>1, MissedGrows
    <3>5. ai'[x] \in AiState /\ records'[x] \in Rec /\ records'[x].error = 0
      BY <2>0, <3>2, <3>3, <3>4
    <3>6. AuditTypeOK'
      <4>1. ai' = [ai EXCEPT ![x] = ai'[x]]
        BY <1>6, <2>2 DEF SinkFails, AuditInv, AuditTypeOK
      <4>2. records' = [records EXCEPT ![x] = records'[x]]
        BY <1>6, <2>2 DEF SinkFails, AuditInv, AuditTypeOK
      <4> QED
        BY <2>1, <3>5, <4>1, <4>2 DEF AuditInv, AuditTypeOK
    <3>7. /\ ai'[x].pc = "recordError" /\ ai'[x].fn = "ok" /\ "success" \in ai'[x].missed
          /\ records'[x].error = 0 /\ records'[x].success <= 1
      BY <1>2, <2>0, <2>2, <3>1, <3>2, <3>3 DEF Fits, AiState
    <3>8. Fits(ai'[x], records'[x])
      BY <3>7 DEF Fits
    <3> QED
      BY <3>1, <3>6, <3>8, OneCallMoves
  <2>3. CASE ai[x].pc = "recordError"
    <3>1. /\ ai'[x] = [ai[x] EXCEPT !.pc = "thrown", !.missed = @ \cup {"error"}]
          /\ \/ records'[x] = records[x]
             \/ records'[x] = [records[x] EXCEPT !.error = records[x].error + 1]
          /\ \A y \in AiCall : y # x => ai'[y] = ai[y] /\ records'[y] = records[y]
      BY <1>6, <2>3 DEF SinkFails, RecordDue, AuditInv, AuditTypeOK
    <3>2. records[x].error = 0
      BY <1>2, <2>3 DEF Fits
    <3>3. records'[x] \in {records[x], [records[x] EXCEPT !.error = 1]}
      BY <3>1, <3>2
    <3>4. ai'[x] \in AiState
      BY <2>0, <3>1, MissedGrows
    <3>5. ai'[x] \in AiState /\ records'[x] \in Rec
      BY <2>0, <3>3, <3>4
    <3>6. AuditTypeOK'
      <4>1. ai' = [ai EXCEPT ![x] = ai'[x]]
        BY <1>6, <2>3 DEF SinkFails, AuditInv, AuditTypeOK
      <4>2. records' = [records EXCEPT ![x] = records'[x]]
        BY <1>6, <2>3 DEF SinkFails, AuditInv, AuditTypeOK
      <4> QED
        BY <2>1, <3>5, <4>1, <4>2 DEF AuditInv, AuditTypeOK
    <3>7. /\ ai'[x].pc = "thrown" /\ ai'[x].fn = ai[x].fn /\ ai[x].missed \subseteq ai'[x].missed
          /\ "error" \in ai'[x].missed
          /\ records'[x].success = records[x].success /\ records'[x].error <= 1
      BY <2>0, <3>1, <3>2, <3>3 DEF AiState
    <3>8. Fits(ai'[x], records'[x])
      BY <1>2, <2>3, <3>7 DEF Fits
    <3> QED
      BY <3>1, <3>6, <3>8, OneCallMoves
  <2> QED
    BY <1>6, <2>2, <2>3 DEF SinkFails
<1> QED
  BY <1>1, <1>3, <1>4, <1>5, <1>6 DEF AuditNext

LEMMA AuditInvariance == AuditSpec => []AuditInv
<1>1. AuditInit => AuditInv
  BY AuditInvInit
<1>2. AuditInv /\ [AuditNext]_auditVars => AuditInv'
  BY AuditInvStep
<1> QED
  BY <1>1, <1>2, PTL DEF AuditSpec

\* However often the sink fails, a call leaves one success and one error at most:
\* an answer is on record as a success alone, what is thrown as an error unless the
\* sink failed at that record, and both are there only if the sink failed at the
\* success (audit/index.ts:44-81).
THEOREM AnswersGoOnRecord == AuditSpec => []AnswersAreOnRecord
<1>1. AuditInv => AnswersAreOnRecord
  BY DEF AuditInv
<1> QED
  BY <1>1, AuditInvariance, PTL

----------------------------------------------------------------------------
(* Billing.                                                                 *)

\* What history has remembered stays remembered; the rows of agencies change at
\* an upsert.
LEMMA CheckoutFrames ==
  ASSUME NEW k \in Checkout, CheckoutStep(k)
  PROVE  /\ crossed \subseteq crossed' /\ UNCHANGED untidy
         /\ UNCHANGED sub \/ PersistCustomer(k)
<1>1. ASSUME NEW p \in Agency, NEW plan \in OnSale, StartCheckout(k, p, plan)
      PROVE  crossed \subseteq crossed' /\ UNCHANGED <<untidy, sub>>
  BY <1>1 DEF StartCheckout
<1>2. ASSUME NEW c \in Customer, CreateCustomer(k, c)
      PROVE  crossed \subseteq crossed' /\ UNCHANGED <<untidy, sub>>
  BY <1>2 DEF CreateCustomer, Proceeding
<1>3. ASSUME PersistCustomer(k)
      PROVE  crossed \subseteq crossed' /\ UNCHANGED untidy
  BY <1>3 DEF PersistCustomer
<1>4. ASSUME AbandonCheckout(k)
      PROVE  crossed \subseteq crossed' /\ UNCHANGED <<untidy, sub>>
  BY <1>4 DEF AbandonCheckout
<1>5. ASSUME NEW s \in Contract, Pay(k, s)
      PROVE  crossed \subseteq crossed' /\ UNCHANGED <<untidy, sub>>
  BY <1>5 DEF Pay
<1> QED
  BY <1>1, <1>2, <1>3, <1>4, <1>5 DEF CheckoutStep

LEMMA SubscriptionFrames ==
  ASSUME SubscriptionStep
  PROVE  UNCHANGED <<crossed, untidy, sub>>
<1>1. ASSUME NEW s \in Contract, NEW p \in Agency, NEW state \in Status, NEW price \in Price,
             MadeByHand(s, p, state, price)
      PROVE  UNCHANGED <<crossed, untidy, sub>>
  BY <1>1 DEF MadeByHand
<1>2. ASSUME NEW s \in Contract, NEW state \in Status, NEW price \in Price,
             ChangeContract(s, state, price)
      PROVE  UNCHANGED <<crossed, untidy, sub>>
  BY <1>2 DEF ChangeContract
<1> QED
  BY <1>1, <1>2 DEF SubscriptionStep

LEMMA WebhookFrames ==
  ASSUME NEW e \in event, NEW again \in BOOLEAN,
         ResolveAgency(e, again) \/ HandleWebhook(e, again)
  PROVE  /\ crossed \subseteq crossed' /\ untidy \subseteq untidy'
         /\ UNCHANGED sub \/ HandleWebhook(e, again)
<1>1. CASE ResolveAgency(e, again)
  BY <1>1 DEF ResolveAgency
<1>2. CASE HandleWebhook(e, again)
  BY <1>2 DEF HandleWebhook
<1> QED
  BY <1>1, <1>2

LEMMA HistoryStays ==
  ASSUME BillingNext
  PROVE  crossed \subseteq crossed' /\ untidy \subseteq untidy'
  BY CheckoutFrames, SubscriptionFrames, WebhookFrames DEF BillingNext, WebhookStep

LEMMA CheckoutTypes ==
  ASSUME BillingTypeOK, NEW k \in Checkout
  PROVE  /\ checkout[k] # IdleCheckout <=> checkout[k] \in Checking
         /\ \A pc \in {"createCustomer", "upsert", "paying"} :
              CheckoutAt(k, pc) => checkout[k] \in Checking
  BY DEF BillingTypeOK, IdleCheckout, Checking, CheckoutAt

LEMMA ContractTypes ==
  ASSUME BillingTypeOK, NEW s \in Contract
  PROVE  /\ contract[s] # NoContract <=> contract[s] \in ContractRow
         /\ contract[s] # NoContract <=> contract[s].state # "none"
  BY BillingAssumption DEF BillingTypeOK, NoContract, ContractRow

LEMMA SubTypes ==
  ASSUME BillingTypeOK, NEW p \in Agency
  PROVE  /\ sub[p] # NoSub => sub[p] \in Sub
         /\ RowToPatch(p) \in Sub
         /\ CustomerOf(p) \in Customer \cup {NoId}
         /\ CustomerOf(p) = RowToPatch(p).customer
<1>1. FreshSub \in Sub
  BY DEF FreshSub, Sub, Plan, Paid, SubscriptionStatus
<1>2. sub[p] # NoSub => sub[p] \in Sub
  BY DEF BillingTypeOK
<1> QED
  BY <1>1, <1>2 DEF RowToPatch, CustomerOf, Sub, FreshSub

LEMMA EventTypes ==
  ASSUME NEW type \in EventType, NEW s \in Contract, NEW row \in ContractRow,
         NEW at \in 1 .. MaxSent
  PROVE  /\ EventOf(type, s, row, at) \in Event
         /\ EventOf(type, s, row, at).type = type
         /\ EventOf(type, s, row, at).at = at
         /\ EventOf(type, s, row, at).payer = row.payer
         /\ EventOf(type, s, row, at).customer = row.customer
         /\ EventOf(type, s, row, at).contract = s
         /\ EventOf(type, s, row, at).agency \in {row.payer, NoId}
         /\ EventOf(type, s, row, at).named => EventOf(type, s, row, at).agency = row.payer
         /\ EventOf(type, s, row, at).price \in {row.price, "absent"}
         /\ type # "completed" =>
              /\ EventOf(type, s, row, at).status = NormalStatus(row.state)
              /\ EventOf(type, s, row, at).price = row.price
<1> DEFINE e == EventOf(type, s, row, at)
           said == NormalStatus(IF type = "completed" THEN "complete" ELSE row.state)
           price == IF type = "completed" THEN "absent" ELSE row.price
           agency == IF row.named THEN row.payer ELSE NoId
<1>1. /\ said \in SubscriptionStatus \cup {"absent"}
      /\ price \in Price \cup {"absent"} /\ price \in {row.price, "absent"}
      /\ agency \in Agency \cup {NoId} /\ agency \in {row.payer, NoId}
      /\ row.payer \in Agency /\ row.customer \in Customer /\ row.named \in BOOLEAN
  BY DEF NormalStatus, ContractRow
<1>2. e = [type |-> type, at |-> at, payer |-> row.payer, named |-> row.named,
           customer |-> row.customer, contract |-> s, status |-> said, price |-> price,
           agency |-> agency]
  BY DEF EventOf
<1>3. type # "completed" => said = NormalStatus(row.state) /\ price = row.price
  OBVIOUS
<1>4. row.named => agency = row.payer
  OBVIOUS
<1> HIDE DEF said, price, agency
<1> QED
  BY <1>1, <1>2, <1>3, <1>4 DEF Event

LEMMA PatchedTypes ==
  ASSUME NEW row \in Sub, NEW e \in Event
  PROVE  /\ Patched(row, e) \in Sub
         /\ e.type = "deleted" =>
              /\ Patched(row, e).plan = "free"
              /\ Patched(row, e).status = "canceled"
              /\ Patched(row, e).contract = NoId
              /\ Patched(row, e).customer = row.customer
         /\ e.type # "deleted" =>
              /\ Patched(row, e).status = IF e.status = "absent" THEN "active" ELSE e.status
              /\ Patched(row, e).plan = IF e.price \in Paid THEN e.price ELSE row.plan
              /\ Patched(row, e).contract = e.contract
              /\ Patched(row, e).customer = e.customer
<1>1. CASE e.type = "deleted"
  BY <1>1 DEF Patched, Sub, Plan, Paid, SubscriptionStatus
<1>2. CASE e.type # "deleted"
  <2> DEFINE said == IF e.status = "absent" THEN "active" ELSE e.status
             plan == IF e.price \in Paid THEN e.price ELSE row.plan
  <2>1. Patched(row, e) = [row EXCEPT !.status = said, !.plan = plan,
                                      !.contract = e.contract, !.customer = e.customer]
    BY <1>2 DEF Patched, PlanForPrice, Paid
  <2>2. said \in SubscriptionStatus /\ plan \in Plan
    BY DEF Sub, Plan, SubscriptionStatus, Event
  <2>3. e.contract \in Contract /\ e.customer \in Customer
    BY DEF Event
  <2> HIDE DEF said, plan
  <2>4. /\ Patched(row, e) \in Sub
        /\ Patched(row, e).status = said /\ Patched(row, e).plan = plan
        /\ Patched(row, e).contract = e.contract /\ Patched(row, e).customer = e.customer
    BY <2>1, <2>2, <2>3 DEF Sub
  <2> QED
    BY <1>2, <2>4 DEF said, plan
<1> QED
  BY <1>1, <1>2

LEMMA SameIsSame ==
  /\ \A e : SameWebhook(e, e)
  /\ \A e, f : SameWebhook(e, f) => SameWebhook(f, e)
  /\ \A d, e, f : SameWebhook(d, e) /\ SameWebhook(d, f) => SameWebhook(e, f)
BY DEF SameWebhook

\* What a request that handles webhook e leaves of it.
AgencyFits(e) == e.agency \in {e.payer, NoId} /\ (e.named => e.agency = e.payer)

LEMMA Readdressed ==
  ASSUME NEW e \in Event, NEW p \in Agency \cup {NoId}
  PROVE  /\ [e EXCEPT !.agency = p] \in Event
         /\ SameWebhook(e, [e EXCEPT !.agency = p])
         /\ [e EXCEPT !.agency = p].agency = p
  BY DEF Event, SameWebhook

LEMMA DeliveredIs ==
  ASSUME BillingTypeOK, StripeKnows, NEW e \in event, NEW again \in BOOLEAN,
         NEW f \in Delivered(e, again)
  PROVE  f \in Event /\ AgencyFits(f) /\ \E d \in event : SameWebhook(d, f)
<1>1. CASE f \in event
  BY <1>1, SameIsSame DEF BillingTypeOK, StripeKnows, WebhookFits, AgencyFits
<1>2. CASE f = [e EXCEPT !.agency = IF e.named THEN e.payer ELSE NoId]
  <2> DEFINE p == IF e.named THEN e.payer ELSE NoId
  <2>1. e \in Event /\ p \in Agency \cup {NoId}
    BY DEF BillingTypeOK, Event
  <2>2. f \in Event /\ SameWebhook(e, f) /\ f.agency = p
    BY <1>2, <2>1, Readdressed
  <2>3. AgencyFits(f)
    BY <2>2 DEF AgencyFits, SameWebhook
  <2> QED
    BY <2>2, <2>3
<1> QED
  BY <1>1, <1>2 DEF Delivered

\* What the steps change.
OnlyCheckout(k) == \A l \in Checkout : l # k => checkout'[l] = checkout[l]

LEMMA StartCheckoutMoves ==
  ASSUME BillingTypeOK, NEW k \in Checkout, NEW p \in Agency, NEW plan \in OnSale,
         StartCheckout(k, p, plan)
  PROVE  /\ checkout' = [checkout EXCEPT ![k] = checkout'[k]]
         /\ OnlyCheckout(k) /\ checkout[k] = IdleCheckout /\ checkout'[k] \in Checking
         /\ checkout'[k].pc = IF CustomerOf(p) = NoId THEN "createCustomer" ELSE "paying"
         /\ checkout'[k].payer = p
         /\ checkout'[k].customer = CustomerOf(p)
         /\ checkout'[k].first <=> CustomerOf(p) = NoId
<1>1. PICK locals : locals = [pc |-> IF CustomerOf(p) = NoId THEN "createCustomer" ELSE "paying",
                              payer |-> p, plan |-> plan, customer |-> CustomerOf(p),
                              first |-> CustomerOf(p) = NoId]
  OBVIOUS
<1>2. locals \in Checking
  BY <1>1, SubTypes DEF Checking
<1>3. checkout' = [checkout EXCEPT ![k] = locals] /\ checkout[k] = IdleCheckout
  BY <1>1 DEF StartCheckout, Proceeding
<1>4. checkout'[k] = locals /\ OnlyCheckout(k)
  BY <1>3 DEF BillingTypeOK, OnlyCheckout
<1>5. locals.first <=> CustomerOf(p) = NoId
  BY <1>1, Zenon
<1>6. /\ locals.pc = IF CustomerOf(p) = NoId THEN "createCustomer" ELSE "paying"
      /\ locals.payer = p /\ locals.customer = CustomerOf(p)
  BY <1>1
<1> QED
  BY <1>2, <1>3, <1>4, <1>5, <1>6

LEMMA CreateCustomerMoves ==
  ASSUME BillingTypeOK, NEW k \in Checkout, NEW c \in Customer, CreateCustomer(k, c)
  PROVE  /\ checkout' = [checkout EXCEPT ![k] = checkout'[k]]
         /\ OnlyCheckout(k)
         /\ checkout[k] \in Checking /\ checkout'[k] \in Checking
         /\ checkout'[k].pc = "upsert"
         /\ checkout'[k].payer = checkout[k].payer
         /\ checkout'[k].customer = c
         /\ checkout'[k].first = checkout[k].first
         /\ customer' = [customer EXCEPT ![c] = checkout[k].payer]
<1>1. checkout[k] \in Checking
  BY CheckoutTypes DEF CreateCustomer
<1>2. checkout' = [checkout EXCEPT ![k] = [checkout[k] EXCEPT !.pc = "upsert", !.customer = c]]
  BY DEF CreateCustomer, Proceeding
<1>3. /\ checkout'[k] = [checkout[k] EXCEPT !.pc = "upsert", !.customer = c]
      /\ OnlyCheckout(k)
  BY <1>2 DEF BillingTypeOK, OnlyCheckout
<1>4. /\ checkout'[k] \in Checking
      /\ checkout'[k].pc = "upsert"
      /\ checkout'[k].payer = checkout[k].payer
      /\ checkout'[k].customer = c
      /\ checkout'[k].first = checkout[k].first
  BY <1>1, <1>3 DEF Checking
<1>5. checkout' = [checkout EXCEPT ![k] = checkout'[k]]
  BY <1>2, <1>3
<1> QED
  BY <1>1, <1>3, <1>4, <1>5 DEF CreateCustomer

LEMMA PersistCustomerMoves ==
  ASSUME BillingTypeOK, NEW k \in Checkout, PersistCustomer(k)
  PROVE  /\ checkout' = [checkout EXCEPT ![k] = checkout'[k]]
         /\ OnlyCheckout(k)
         /\ checkout[k] \in Checking /\ checkout'[k] \in Checking
         /\ checkout'[k].pc = "paying"
         /\ checkout'[k].payer = checkout[k].payer
         /\ checkout'[k].customer = checkout[k].customer
         /\ checkout'[k].first = FALSE
         /\ sub' = [sub EXCEPT ![checkout[k].payer] = sub'[checkout[k].payer]]
         /\ \A p \in Agency : p # checkout[k].payer => sub'[p] = sub[p]
         /\ sub'[checkout[k].payer] \in Sub
         /\ sub'[checkout[k].payer] # NoSub
         /\ sub'[checkout[k].payer].customer = checkout[k].customer
         /\ sub'[checkout[k].payer].plan = RowToPatch(checkout[k].payer).plan
         /\ sub'[checkout[k].payer].status = RowToPatch(checkout[k].payer).status
         /\ sub'[checkout[k].payer].contract = RowToPatch(checkout[k].payer).contract
<1>1. checkout[k] \in Checking
  BY CheckoutTypes DEF PersistCustomer
<1>2. checkout' = [checkout EXCEPT ![k] = [checkout[k] EXCEPT !.pc = "paying", !.first = FALSE]]
  BY DEF PersistCustomer, Proceeding
<1>3. /\ checkout'[k] = [checkout[k] EXCEPT !.pc = "paying", !.first = FALSE]
      /\ OnlyCheckout(k)
  BY <1>2 DEF BillingTypeOK, OnlyCheckout
<1>4. /\ checkout'[k] \in Checking
      /\ checkout'[k].pc = "paying"
      /\ checkout'[k].payer = checkout[k].payer
      /\ checkout'[k].customer = checkout[k].customer
      /\ checkout'[k].first = FALSE
  BY <1>1, <1>3 DEF Checking
<1>5. checkout' = [checkout EXCEPT ![k] = checkout'[k]]
  BY <1>2, <1>3
<1>6. PICK p \in Agency : p = checkout[k].payer
  BY <1>1 DEF Checking
<1>7. sub' = [sub EXCEPT ![p] = [RowToPatch(p) EXCEPT !.customer = checkout[k].customer]]
  BY <1>6 DEF PersistCustomer
<1>8. /\ sub'[p] = [RowToPatch(p) EXCEPT !.customer = checkout[k].customer]
      /\ \A q \in Agency : q # p => sub'[q] = sub[q]
  BY <1>7 DEF BillingTypeOK
<1>9. RowToPatch(p) \in Sub /\ checkout[k].customer \in Customer \cup {NoId}
  BY <1>1, SubTypes DEF Checking
<1>10. /\ sub'[p] \in Sub
       /\ sub'[p].customer = checkout[k].customer
       /\ sub'[p].plan = RowToPatch(p).plan
       /\ sub'[p].status = RowToPatch(p).status
       /\ sub'[p].contract = RowToPatch(p).contract
  BY <1>8, <1>9 DEF Sub
<1>11. sub'[p] # NoSub
  BY <1>10 DEF Sub, NoSub, Plan, Paid
<1>12. sub' = [sub EXCEPT ![p] = sub'[p]]
  BY <1>7, <1>8
<1> QED
  BY <1>1, <1>3, <1>4, <1>5, <1>6, <1>8, <1>10, <1>11, <1>12

LEMMA AbandonMoves ==
  ASSUME BillingTypeOK, NEW k \in Checkout,
         AbandonCheckout(k) \/ \E s \in Contract : Pay(k, s)
  PROVE  /\ checkout' = [checkout EXCEPT ![k] = IdleCheckout]
         /\ OnlyCheckout(k) /\ checkout[k] \in Checking /\ checkout'[k] = IdleCheckout
<1>1. checkout' = [checkout EXCEPT ![k] = IdleCheckout]
  BY DEF AbandonCheckout, Pay, Proceeding
<1>2. checkout[k] \in Checking
  BY CheckoutTypes DEF AbandonCheckout, Pay
<1> QED
  BY <1>1, <1>2 DEF BillingTypeOK, OnlyCheckout

\* Contract s is now as sold to row.payer; of everything that is on its way, a
\* webhook that tells of it is the youngest.
Sells(s, e) ==
  /\ contract[s] = NoContract
  /\ \A t \in Contract : t # s => contract'[t] = contract[t]
  /\ contract'[s] \in ContractRow
  /\ contract'[s].payer = e.payer
  /\ contract'[s].customer = e.customer
  /\ e \in event'
  /\ e.contract = s
  /\ Tells(e, s)'

\* A webhook of contract s carries a price that s has had.
PriceFits(e) == e.price \in Paid => e.price \in contract[e.contract].had

LEMMA PayMoves ==
  ASSUME BillingTypeOK, NEW k \in Checkout, NEW s \in Contract, Pay(k, s),
         checkout[k].customer \in Customer
  PROVE  /\ sent' = sent + 2 /\ sent' <= MaxSent
         /\ contract' = [contract EXCEPT ![s] = contract'[s]]
         /\ \E d, e \in Event :
              /\ event' = event \cup {d, e}
              /\ d.at = sent + 1 /\ e.at = sent + 2
              /\ d.payer = e.payer /\ d.customer = e.customer /\ d.contract = e.contract
              /\ e.payer = checkout[k].payer /\ e.customer = checkout[k].customer
              /\ AgencyFits(d) /\ AgencyFits(e) /\ PriceFits(d)' /\ PriceFits(e)'
              /\ Sells(s, e)
<1>1. checkout[k].payer \in Agency /\ checkout[k].plan \in OnSale
  BY AbandonMoves DEF Checking
<1>2. PICK row : row = [state |-> "active", payer |-> checkout[k].payer,
                        price |-> checkout[k].plan, had |-> {checkout[k].plan},
                        customer |-> checkout[k].customer, named |-> TRUE]
  OBVIOUS
<1>3. /\ contract' = [contract EXCEPT ![s] = row]
      /\ event' = event \cup {EventOf("completed", s, row, sent + 1),
                              EventOf("changed", s, row, sent + 2)}
      /\ contract[s] = NoContract /\ sent' = sent + 2 /\ sent + 2 <= MaxSent
  BY <1>2 DEF Pay
<1>4. checkout[k].plan \in Price /\ {checkout[k].plan} \in SUBSET Paid /\ "active" \in Status
  BY <1>1, BillingAssumption DEF Paid
<1>5. row \in ContractRow /\ row.state = "active" /\ row.price \in row.had
  BY <1>1, <1>2, <1>4 DEF ContractRow
<1>6. sent + 1 \in 1 .. MaxSent /\ sent + 2 \in 1 .. MaxSent
  BY <1>3, BillingAssumption DEF BillingTypeOK
<1>7. PICK d, e : /\ d = EventOf("completed", s, row, sent + 1)
                  /\ e = EventOf("changed", s, row, sent + 2)
  OBVIOUS
<1>8. /\ contract'[s] = row /\ contract' = [contract EXCEPT ![s] = contract'[s]]
      /\ e \in Event /\ e.at = sent + 2 /\ e.payer = row.payer /\ e.customer = row.customer
      /\ e.contract = s /\ AgencyFits(e) /\ PriceFits(e)' /\ Sells(s, e)
  <2>1. /\ e \in Event /\ e.type = "changed" /\ e.at = sent + 2 /\ e.payer = row.payer
        /\ e.customer = row.customer /\ e.contract = s
        /\ e.agency \in {row.payer, NoId} /\ (e.named => e.agency = row.payer)
        /\ e.status = NormalStatus(row.state) /\ e.price = row.price
    BY <1>5, <1>6, <1>7, EventTypes DEF EventType
  <2>2. contract'[s] = row /\ \A t \in Contract : t # s => contract'[t] = contract[t]
    BY <1>3 DEF BillingTypeOK
  <2>3. AgencyFits(e) /\ PriceFits(e)'
    BY <1>5, <2>1, <2>2 DEF AgencyFits, PriceFits
  <2>4. Tells(e, s)'
    BY <1>5, <2>1, <2>2 DEF Tells, NormalStatus
  <2>5. e \in event'
    BY <1>3, <1>7
  <2> QED
    BY <1>3, <1>5, <2>1, <2>2, <2>3, <2>4, <2>5 DEF Sells
<1>9. /\ d \in Event /\ d.at = sent + 1 /\ d.payer = row.payer
      /\ d.customer = row.customer /\ d.contract = s
      /\ d.agency \in {row.payer, NoId} /\ (d.named => d.agency = row.payer)
      /\ d.price \in {row.price, "absent"}
  BY <1>5, <1>6, <1>7, EventTypes DEF EventType
<1>10. AgencyFits(d) /\ PriceFits(d)'
  BY <1>5, <1>8, <1>9 DEF AgencyFits, PriceFits, Paid
<1>11. row.payer = checkout[k].payer /\ row.customer = checkout[k].customer
  BY <1>2
<1>12. event' = event \cup {d, e}
  BY <1>3, <1>7
<1> QED
  BY <1>3, <1>6, <1>8, <1>9, <1>10, <1>11, <1>12

LEMMA MadeByHandMoves ==
  ASSUME BillingTypeOK, NEW s \in Contract, NEW p \in Agency, NEW state \in Status,
         NEW price \in Price, MadeByHand(s, p, state, price)
  PROVE  /\ sent' = sent + 1 /\ sent' <= MaxSent
         /\ contract' = [contract EXCEPT ![s] = contract'[s]]
         /\ CustomerOf(p) \in Customer
         /\ \E e \in Event :
              /\ event' = event \cup {e}
              /\ e.at = sent + 1
              /\ e.payer = p /\ e.customer = CustomerOf(p)
              /\ AgencyFits(e) /\ PriceFits(e)'
              /\ Sells(s, e)
<1>1. CustomerOf(p) \in Customer
  BY SubTypes DEF MadeByHand
<1>2. PICK row : row = [state |-> state, payer |-> p, price |-> price,
                        had |-> {price} \cap Paid, customer |-> CustomerOf(p),
                        named |-> FALSE]
  OBVIOUS
<1>3. /\ row \in ContractRow /\ row.state # "canceled"
      /\ row.price \in Paid => row.price \in row.had
  BY <1>1, <1>2 DEF ContractRow, MadeByHand
<1>4. /\ contract' = [contract EXCEPT ![s] = row]
      /\ event' = event \cup {EventOf("changed", s, row, sent + 1)}
      /\ contract[s] = NoContract /\ sent' = sent + 1 /\ sent < MaxSent
  BY <1>2 DEF MadeByHand
<1>5. sent + 1 \in 1 .. MaxSent
  BY <1>4, BillingAssumption DEF BillingTypeOK
<1>6. PICK e : e = EventOf("changed", s, row, sent + 1)
  OBVIOUS
<1>8. event' = event \cup {e}
  BY <1>4, <1>6
<1>9. /\ contract' = [contract EXCEPT ![s] = contract'[s]]
      /\ e \in Event /\ e.at = sent + 1 /\ e.payer = row.payer /\ e.customer = row.customer
      /\ e.contract = s /\ AgencyFits(e) /\ PriceFits(e)' /\ Sells(s, e)
  <2>1. /\ e \in Event /\ e.type = "changed" /\ e.at = sent + 1 /\ e.payer = row.payer
        /\ e.customer = row.customer /\ e.contract = s
        /\ e.agency \in {row.payer, NoId} /\ (e.named => e.agency = row.payer)
        /\ e.status = NormalStatus(row.state) /\ e.price = row.price
    BY <1>3, <1>5, <1>6, EventTypes DEF EventType
  <2>2. contract'[s] = row /\ \A t \in Contract : t # s => contract'[t] = contract[t]
    BY <1>4 DEF BillingTypeOK
  <2>3. AgencyFits(e) /\ PriceFits(e)'
    BY <1>3, <2>1, <2>2 DEF AgencyFits, PriceFits
  <2>4. Tells(e, s)'
    BY <1>3, <2>1, <2>2 DEF Tells, NormalStatus
  <2>5. e \in event'
    BY <1>8
  <2> QED
    BY <1>3, <1>4, <2>1, <2>2, <2>3, <2>4, <2>5 DEF Sells
<1>7. row.payer = p /\ row.customer = CustomerOf(p) /\ sent' <= MaxSent
  BY <1>2, <1>4, <1>5
<1> QED
  BY <1>1, <1>4, <1>7, <1>8, <1>9

LEMMA ChangeContractMoves ==
  ASSUME BillingTypeOK, NEW s \in Contract, NEW state \in Status, NEW price \in Price,
         ChangeContract(s, state, price)
  PROVE  /\ sent' = sent + 1 /\ sent' <= MaxSent
         /\ contract' = [contract EXCEPT ![s] = contract'[s]]
         /\ contract[s] \in ContractRow /\ contract'[s] \in ContractRow
         /\ \A t \in Contract : t # s => contract'[t] = contract[t]
         /\ contract'[s].payer = contract[s].payer
         /\ contract'[s].customer = contract[s].customer
         /\ contract[s].had \subseteq contract'[s].had
         /\ \E e \in Event :
              /\ event' = event \cup {e}
              /\ e.at = sent + 1
              /\ e.payer = contract[s].payer /\ e.customer = contract[s].customer
              /\ e.contract = s
              /\ AgencyFits(e) /\ PriceFits(e)'
              /\ Tells(e, s)'
<1>1. contract[s] \in ContractRow
  BY DEF ChangeContract, BillingTypeOK
<1>2. PICK row : row = [contract[s] EXCEPT !.state = state, !.price = price,
                                           !.had = @ \cup ({price} \cap Paid)]
  OBVIOUS
<1>3. /\ row \in ContractRow
      /\ row.state = state /\ row.price = price
      /\ row.payer = contract[s].payer /\ row.customer = contract[s].customer
      /\ row.had = contract[s].had \cup ({price} \cap Paid)
  BY <1>1, <1>2 DEF ContractRow
<1>4. contract' = [contract EXCEPT ![s] = row]
  BY <1>2 DEF ChangeContract, BillingTypeOK
<1>5. contract'[s] = row /\ \A t \in Contract : t # s => contract'[t] = contract[t]
  BY <1>4 DEF BillingTypeOK
<1>6. PICK type \in EventType : type = IF state = "canceled" THEN "deleted" ELSE "changed"
  BY DEF EventType
<1>7. event' = event \cup {EventOf(type, s, row, sent + 1)} /\ sent' = sent + 1 /\ sent < MaxSent
  BY <1>5, <1>6 DEF ChangeContract
<1>8. sent + 1 \in 1 .. MaxSent
  BY <1>7, BillingAssumption DEF BillingTypeOK
<1>9. PICK e : e = EventOf(type, s, row, sent + 1)
  OBVIOUS
<1>10. /\ e \in Event /\ e.type = type /\ e.at = sent + 1 /\ e.payer = row.payer
       /\ e.customer = row.customer /\ e.contract = s
       /\ e.agency \in {row.payer, NoId} /\ (e.named => e.agency = row.payer)
       /\ e.status = NormalStatus(row.state) /\ e.price = row.price
  BY <1>3, <1>6, <1>8, <1>9, EventTypes
<1>11. Tells(e, s)'
  BY <1>3, <1>5, <1>6, <1>10 DEF Tells, NormalStatus
<1>12. AgencyFits(e) /\ PriceFits(e)'
  BY <1>3, <1>5, <1>10 DEF AgencyFits, PriceFits
<1>13. sent' <= MaxSent /\ event' = event \cup {e}
  BY <1>7, <1>8, <1>9
<1>14. contract' = [contract EXCEPT ![s] = contract'[s]]
  BY <1>4, <1>5
<1> QED
  BY <1>1, <1>3, <1>5, <1>7, <1>10, <1>11, <1>12, <1>13, <1>14

\* The customer of a webhook is nobody else's.
LEMMA OnlyThePayer ==
  ASSUME StripeKnows, RowsAreTheAgencysOwn, NEW e \in event,
         NEW p \in Agency, CustomerOf(p) = e.customer
  PROVE  p = e.payer
<1>1. Belongs(e.customer, e.payer)
  BY DEF StripeKnows, WebhookFits
<1>2. CustomerOf(p) # NoId
  BY <1>1, BillingAssumption DEF Belongs
<1>3. sub[p] # NoSub /\ sub[p].customer = e.customer
  BY <1>2 DEF CustomerOf
<1> QED
  BY <1>1, <1>2, <1>3 DEF RowsAreTheAgencysOwn, CustomerOf, Belongs

LEMMA ResolveMoves ==
  ASSUME BillingTypeOK, StripeKnows, RowsAreTheAgencysOwn,
         NEW e \in event, NEW again \in BOOLEAN, ResolveAgency(e, again)
  PROVE  /\ e \in Event
         /\ \A f \in event' : f \in Event /\ AgencyFits(f) /\ \E d \in event : SameWebhook(d, f)
         /\ \A f \in event : f = e \/ f \in event'
         /\ CustomerOf(e.payer) = e.customer => \E f \in event' : SameWebhook(e, f)
         /\ UNCHANGED <<sub, checkout, customer, contract, sent, applied, untidy, crossed>>
<1>1. e \in Event /\ e.payer \in Agency /\ e.agency = NoId
  BY DEF ResolveAgency, BillingTypeOK, Event
<1>2. event' = Delivered(e, again) \cup
                 {[e EXCEPT !.agency = p] : p \in {q \in Agency : CustomerOf(q) = e.customer}}
  BY DEF ResolveAgency
<1>3. ASSUME NEW f \in event'
      PROVE  f \in Event /\ AgencyFits(f) /\ \E d \in event : SameWebhook(d, f)
  <2>1. CASE f \in Delivered(e, again)
    BY <2>1, DeliveredIs
  <2>2. ASSUME NEW p \in Agency, CustomerOf(p) = e.customer, f = [e EXCEPT !.agency = p]
        PROVE  f \in Event /\ AgencyFits(f) /\ SameWebhook(e, f)
    <3>1. p = e.payer
      BY <2>2, OnlyThePayer
    <3>2. f \in Event /\ SameWebhook(e, f) /\ f.agency = p
      BY <1>1, <2>2, Readdressed
    <3> QED
      BY <3>1, <3>2 DEF AgencyFits, SameWebhook
  <2> QED
    BY <1>2, <2>1, <2>2
<1>4. \A f \in event : f = e \/ f \in event'
  BY <1>2 DEF Delivered
<1>5. CustomerOf(e.payer) = e.customer => \E f \in event' : SameWebhook(e, f)
  <2> SUFFICES ASSUME CustomerOf(e.payer) = e.customer
               PROVE  \E f \in event' : SameWebhook(e, f)
    OBVIOUS
  <2>1. [e EXCEPT !.agency = e.payer] \in event'
    BY <1>1, <1>2
  <2> QED
    BY <1>1, <2>1, Readdressed
<1>6. UNCHANGED <<sub, checkout, customer, contract, sent, applied, untidy, crossed>>
  BY DEF ResolveAgency
<1> QED
  BY <1>1, <1>3, <1>4, <1>5, <1>6

\* No webhook reaches the row of another agency.
LEMMA WebhookMoves ==
  ASSUME BillingTypeOK, StripeKnows,
         NEW e \in event, NEW again \in BOOLEAN, HandleWebhook(e, again)
  PROVE  /\ e \in Event /\ e.payer \in Agency
         /\ \A f \in event' : f \in Event /\ AgencyFits(f) /\ \E d \in event : SameWebhook(d, f)
         /\ \A f \in event : f = e \/ f \in event'
         /\ sub' = [sub EXCEPT ![e.payer] = sub'[e.payer]]
         /\ sub'[e.payer] = Patched(RowToPatch(e.payer), e)
         /\ sub'[e.payer] \in Sub
         /\ \A p \in Agency : p # e.payer => sub'[p] = sub[p]
         /\ applied' \in [Agency -> 0 .. MaxSent]
         /\ \A p \in Agency : p # e.payer => applied'[p] = applied[p]
         /\ applied'[e.payer] = IF applied[e.payer] < e.at THEN e.at ELSE applied[e.payer]
         /\ untidy' = IF applied[e.payer] > e.at THEN untidy \cup {e.payer} ELSE untidy
         /\ UNCHANGED <<checkout, customer, contract, sent, crossed>>
<1>1. e \in Event /\ e.payer \in Agency /\ e.at \in 1 .. MaxSent
  BY DEF BillingTypeOK, Event
<1>2. e.agency = e.payer
  BY DEF HandleWebhook, StripeKnows, WebhookFits
<1>3. PICK p \in Agency : p = e.payer
  BY <1>1
<1>4. /\ sub' = [sub EXCEPT ![p] = Patched(RowToPatch(p), e)]
      /\ applied' = [applied EXCEPT ![p] = IF applied[p] < e.at THEN e.at ELSE applied[p]]
      /\ untidy' = IF applied[p] > e.at THEN untidy \cup {p} ELSE untidy
      /\ event' = Delivered(e, again)
      /\ UNCHANGED <<checkout, customer, contract, sent, crossed>>
  BY <1>2, <1>3 DEF HandleWebhook
<1>5. /\ sub'[p] = Patched(RowToPatch(p), e)
      /\ \A q \in Agency : q # p => sub'[q] = sub[q]
      /\ sub' = [sub EXCEPT ![p] = sub'[p]]
  BY <1>4 DEF BillingTypeOK
<1>6. Patched(RowToPatch(p), e) \in Sub
  BY <1>1, SubTypes, PatchedTypes
<1>7. /\ applied'[p] = IF applied[p] < e.at THEN e.at ELSE applied[p]
      /\ \A q \in Agency : q # p => applied'[q] = applied[q]
      /\ applied' \in [Agency -> 0 .. MaxSent]
  BY <1>1, <1>4, BillingAssumption DEF BillingTypeOK
<1>8. \A f \in event' : f \in Event /\ AgencyFits(f) /\ \E d \in event : SameWebhook(d, f)
  BY <1>4, DeliveredIs
<1>9. \A f \in event : f = e \/ f \in event'
  BY <1>4 DEF Delivered
<1> QED
  BY <1>1, <1>3, <1>4, <1>5, <1>6, <1>7, <1>8, <1>9

LEMMA BillingTypesKept ==
  ASSUME BillingTypeOK, StripeKnows, RowsAreTheAgencysOwn, BillingNext
  PROVE  BillingTypeOK'
<1>1. ASSUME NEW k \in Checkout, NEW p \in Agency, NEW plan \in OnSale, StartCheckout(k, p, plan)
      PROVE  BillingTypeOK'
  <2>1. /\ checkout' = [checkout EXCEPT ![k] = checkout'[k]]
        /\ checkout'[k] \in Checking
    BY <1>1, StartCheckoutMoves
  <2> QED
    BY <1>1, <2>1 DEF StartCheckout, BillingTypeOK
<1>2. ASSUME NEW k \in Checkout, NEW c \in Customer, CreateCustomer(k, c)
      PROVE  BillingTypeOK'
  <2>1. /\ checkout' = [checkout EXCEPT ![k] = checkout'[k]]
        /\ checkout'[k] \in Checking /\ checkout[k].payer \in Agency
        /\ customer' = [customer EXCEPT ![c] = checkout[k].payer]
    BY <1>2, CreateCustomerMoves DEF Checking
  <2> QED
    BY <1>2, <2>1 DEF CreateCustomer, BillingTypeOK
<1>3. ASSUME NEW k \in Checkout, PersistCustomer(k)
      PROVE  BillingTypeOK'
  <2>1. PICK p \in Agency : p = checkout[k].payer
    BY <1>3, PersistCustomerMoves DEF Checking
  <2>2. /\ checkout' = [checkout EXCEPT ![k] = checkout'[k]]
        /\ checkout'[k] \in Checking
        /\ sub' = [sub EXCEPT ![p] = sub'[p]]
        /\ sub'[p] \in Sub
    BY <1>3, <2>1, PersistCustomerMoves
  <2> QED
    BY <1>3, <2>2 DEF PersistCustomer, BillingTypeOK
<1>4. ASSUME NEW k \in Checkout, AbandonCheckout(k)
      PROVE  BillingTypeOK'
  <2>1. checkout' = [checkout EXCEPT ![k] = IdleCheckout] /\ checkout[k].payer \in Agency
    BY <1>4, AbandonMoves DEF Checking
  <2> QED
    BY <1>4, <2>1 DEF AbandonCheckout, BillingTypeOK
<1>5. ASSUME NEW k \in Checkout, NEW s \in Contract, Pay(k, s)
      PROVE  BillingTypeOK'
  <2>1. checkout[k].customer \in Customer
    BY <1>5 DEF Pay, StripeKnows, CheckoutFits, Belongs
  <2>2. checkout' = [checkout EXCEPT ![k] = IdleCheckout]
    BY <1>5, AbandonMoves
  <2>3. /\ sent' = sent + 2 /\ sent' <= MaxSent
        /\ contract' = [contract EXCEPT ![s] = contract'[s]]
        /\ contract'[s] \in ContractRow
        /\ \E d, e \in Event : event' = event \cup {d, e}
    BY <1>5, <2>1, PayMoves DEF Sells
  <2>4. sent' \in 0 .. MaxSent
    BY <2>3, BillingAssumption DEF BillingTypeOK
  <2>5. event' \subseteq Event
    BY <2>3 DEF BillingTypeOK
  <2> QED
    BY <1>5, <2>2, <2>3, <2>4, <2>5 DEF Pay, BillingTypeOK
<1>6. ASSUME NEW s \in Contract, NEW p \in Agency, NEW state \in Status, NEW price \in Price,
             MadeByHand(s, p, state, price)
      PROVE  BillingTypeOK'
  <2>1. /\ sent' = sent + 1 /\ sent' <= MaxSent
        /\ contract' = [contract EXCEPT ![s] = contract'[s]]
        /\ contract'[s] \in ContractRow
        /\ \E e \in Event : event' = event \cup {e}
    BY <1>6, MadeByHandMoves DEF Sells
  <2>2. sent' \in 0 .. MaxSent
    BY <2>1, BillingAssumption DEF BillingTypeOK
  <2>3. event' \subseteq Event
    BY <2>1 DEF BillingTypeOK
  <2> QED
    BY <1>6, <2>1, <2>2, <2>3 DEF MadeByHand, BillingTypeOK
<1>7. ASSUME NEW s \in Contract, NEW state \in Status, NEW price \in Price,
             ChangeContract(s, state, price)
      PROVE  BillingTypeOK'
  <2>1. /\ sent' = sent + 1 /\ sent' <= MaxSent
        /\ contract' = [contract EXCEPT ![s] = contract'[s]]
        /\ contract'[s] \in ContractRow
        /\ \E e \in Event : event' = event \cup {e}
    BY <1>7, ChangeContractMoves
  <2>2. sent' \in 0 .. MaxSent
    BY <2>1, BillingAssumption DEF BillingTypeOK
  <2>3. event' \subseteq Event
    BY <2>1 DEF BillingTypeOK
  <2> QED
    BY <1>7, <2>1, <2>2, <2>3 DEF ChangeContract, BillingTypeOK
<1>8. ASSUME NEW e \in event, NEW again \in BOOLEAN, ResolveAgency(e, again)
      PROVE  BillingTypeOK'
  <2>1. /\ \A f \in event' : f \in Event
        /\ UNCHANGED <<sub, checkout, customer, contract, sent, applied, untidy, crossed>>
    BY <1>8, ResolveMoves
  <2>2. event' \subseteq Event
    BY <2>1
  <2> QED
    BY <2>1, <2>2 DEF BillingTypeOK
<1>9. ASSUME NEW e \in event, NEW again \in BOOLEAN, HandleWebhook(e, again)
      PROVE  BillingTypeOK'
  <2>1. PICK p \in Agency : p = e.payer
    BY <1>9, WebhookMoves
  <2>2. /\ sub' = [sub EXCEPT ![p] = sub'[p]] /\ sub'[p] \in Sub
        /\ \A f \in event' : f \in Event
        /\ applied' \in [Agency -> 0 .. MaxSent]
        /\ untidy' \subseteq untidy \cup {p}
        /\ UNCHANGED <<checkout, customer, contract, sent, crossed>>
    BY <1>9, <2>1, WebhookMoves
  <2>3. event' \subseteq Event
    BY <2>2
  <2> QED
    BY <2>2, <2>3 DEF BillingTypeOK
<1> QED
  BY <1>1, <1>2, <1>3, <1>4, <1>5, <1>6, <1>7, <1>8, <1>9
  DEF BillingNext, CheckoutStep, SubscriptionStep, WebhookStep

----------------------------------------------------------------------------
(* What Stripe knows.                                                       *)

\* What belongs to an agency goes on to; contracts stay with their agencies.
LEMMA BelongingStays ==
  ASSUME BillingTypeOK, StripeKnows, BillingNext
  PROVE  /\ \A c, p : p \in Agency /\ Belongs(c, p) => Belongs(c, p)'
         /\ \A s \in Contract : contract[s] # NoContract =>
              /\ contract'[s] # NoContract
              /\ contract'[s].payer = contract[s].payer
              /\ contract'[s].customer = contract[s].customer
              /\ contract[s].had \subseteq contract'[s].had
<1> DEFINE CustomersStay == \A c, p : p \in Agency /\ Belongs(c, p) => Belongs(c, p)'
           ContractsStay == \A s \in Contract : contract[s] # NoContract =>
                              /\ contract'[s] # NoContract
                              /\ contract'[s].payer = contract[s].payer
                              /\ contract'[s].customer = contract[s].customer
                              /\ contract[s].had \subseteq contract'[s].had
<1> SUFFICES CustomersStay /\ ContractsStay
  OBVIOUS
<1>1. CASE UNCHANGED <<customer, contract>>
  BY <1>1 DEF Belongs
<1>2. ASSUME NEW k \in Checkout, NEW c \in Customer, CreateCustomer(k, c)
      PROVE  CustomersStay /\ ContractsStay
  <2>1. customer[c] = NoId /\ UNCHANGED contract
    BY <1>2 DEF CreateCustomer
  <2>2. \A d \in Customer : d # c => customer'[d] = customer[d]
    BY <1>2, CreateCustomerMoves DEF BillingTypeOK
  <2> QED
    BY <2>1, <2>2, BillingAssumption DEF Belongs
<1>3. ASSUME NEW s \in Contract, NEW e, Sells(s, e), UNCHANGED customer
      PROVE  CustomersStay /\ ContractsStay
  BY <1>3 DEF Sells, Belongs
<1>4. ASSUME NEW k \in Checkout, NEW s \in Contract, Pay(k, s)
      PROVE  CustomersStay /\ ContractsStay
  <2>1. checkout[k].customer \in Customer
    BY <1>4 DEF Pay, StripeKnows, CheckoutFits, Belongs
  <2>2. \E e : Sells(s, e)
    BY <1>4, <2>1, PayMoves
  <2> QED
    BY <1>3, <1>4, <2>2 DEF Pay
<1>5. ASSUME NEW s \in Contract, NEW p \in Agency, NEW state \in Status, NEW price \in Price,
             MadeByHand(s, p, state, price)
      PROVE  CustomersStay /\ ContractsStay
  <2>1. \E e : Sells(s, e)
    BY <1>5, MadeByHandMoves
  <2> QED
    BY <1>3, <1>5, <2>1 DEF MadeByHand
<1>6. ASSUME NEW s \in Contract, NEW state \in Status, NEW price \in Price,
             ChangeContract(s, state, price)
      PROVE  CustomersStay /\ ContractsStay
  <2>1. /\ contract'[s] # NoContract
        /\ \A t \in Contract : t # s => contract'[t] = contract[t]
        /\ contract'[s].payer = contract[s].payer
        /\ contract'[s].customer = contract[s].customer
        /\ contract[s].had \subseteq contract'[s].had
    BY <1>6, ChangeContractMoves, BillingAssumption DEF ContractRow, NoContract
  <2> QED
    BY <1>6, <2>1 DEF ChangeContract, Belongs
<1> QED
  <2>1. CASE \E k \in Checkout : CheckoutStep(k)
    BY <1>1, <1>2, <1>4, <2>1 DEF CheckoutStep, StartCheckout, PersistCustomer, AbandonCheckout
  <2>2. CASE SubscriptionStep
    BY <1>5, <1>6, <2>2 DEF SubscriptionStep
  <2>3. CASE WebhookStep
    BY <1>1, <2>3 DEF WebhookStep, ResolveAgency, HandleWebhook
  <2> QED
    BY <2>1, <2>2, <2>3 DEF BillingNext

LEMMA ContractsStay ==
  ASSUME BillingTypeOK, BillingTypeOK', StripeKnows, BillingNext
  PROVE  \A p : \A s \in ContractsOf(p) : s \in ContractsOf(p)'
<1>1. \A s \in Contract : contract[s].state # "none" <=> contract[s] # NoContract
  BY ContractTypes
<1>2. \A s \in Contract : contract'[s].state # "none" <=> contract'[s] # NoContract
  BY BillingAssumption DEF BillingTypeOK, NoContract, ContractRow
<1> QED
  BY <1>1, <1>2, BelongingStays DEF ContractsOf

LEMMA SoldIsOf ==
  ASSUME NEW s \in Contract, NEW e, Sells(s, e)
  PROVE  /\ ContractsOf(e.payer)' = ContractsOf(e.payer) \cup {s}
         /\ s \notin ContractsOf(e.payer)
         /\ \A p : p # e.payer => ContractsOf(p)' = ContractsOf(p)
<1>1. contract[s].state = "none" /\ contract'[s].state # "none"
  BY BillingAssumption DEF Sells, NoContract, ContractRow
<1> QED
  BY <1>1 DEF Sells, ContractsOf

LEMMA StripeStep ==
  ASSUME BillingTypeOK, BillingTypeOK', StripeKnows, BillingNext, sent <= sent',
         \A k \in Checkout : checkout'[k] = checkout[k] \/ CheckoutFits(k)',
         \A s \in Contract :
           contract[s] # NoContract \/ contract'[s] = NoContract \/
             Belongs(contract[s].customer, contract[s].payer)',
         \A e \in event' : e \in event \/ (WebhookFits(e)' /\ e.at > sent),
         \A e, f \in event' : e.at = f.at => SameWebhook(e, f) \/ e \in event \/ f \in event,
         \A p \in Agency : applied'[p] <= sent'
  PROVE  StripeKnows'
<1>1. \A k \in Checkout : CheckoutFits(k)'
  <2> SUFFICES ASSUME NEW k \in Checkout, checkout'[k] = checkout[k] PROVE CheckoutFits(k)'
    OBVIOUS
  <2>1. CheckoutFits(k)
    BY DEF StripeKnows
  <2>2. CheckoutAt(k, "upsert") \/ CheckoutAt(k, "paying") =>
          Belongs(checkout[k].customer, checkout[k].payer)'
    <3>1. CheckoutAt(k, "upsert") \/ CheckoutAt(k, "paying") => checkout[k].payer \in Agency
      BY CheckoutTypes DEF Checking
    <3>2. CheckoutAt(k, "upsert") \/ CheckoutAt(k, "paying") =>
            Belongs(checkout[k].customer, checkout[k].payer)
      BY <2>1 DEF CheckoutFits
    <3> QED
      BY <3>1, <3>2, BelongingStays DEF Belongs
  <2> QED
    BY <2>1, <2>2 DEF CheckoutFits, CheckoutAt, Belongs
<1>2. ASSUME NEW s \in Contract, contract'[s] # NoContract
      PROVE  Belongs(contract[s].customer, contract[s].payer)'
  <2>1. CASE contract[s] # NoContract
    <3>1. Belongs(contract[s].customer, contract[s].payer) /\ contract[s].payer \in Agency
      BY <2>1, ContractTypes DEF StripeKnows, ContractRow
    <3>2. contract'[s].payer = contract[s].payer /\ contract'[s].customer = contract[s].customer
      BY <2>1, BelongingStays
    <3> QED
      BY <3>1, <3>2, BelongingStays DEF Belongs
  <2> QED
    BY <1>2, <2>1
<1>3. ASSUME NEW e \in event
      PROVE  WebhookFits(e)'
  <2>1. e \in Event /\ e.payer \in Agency /\ e.at \in Nat /\ WebhookFits(e)
    BY DEF StripeKnows, BillingTypeOK, Event
  <2>2. sent \in Nat /\ sent' \in Nat
    BY BillingAssumption DEF BillingTypeOK
  <2>3. e.at <= sent'
    BY <2>1, <2>2 DEF WebhookFits
  <2>4. Belongs(e.customer, e.payer)'
    BY <2>1, BelongingStays DEF WebhookFits
  <2>5. e.contract \in ContractsOf(e.payer)'
    BY <2>1, ContractsStay DEF WebhookFits
  <2>6. e.contract \in Contract /\ contract[e.contract] # NoContract
    BY <2>1, ContractTypes DEF WebhookFits, ContractsOf
  <2>7. e.price \in Paid => e.price \in contract'[e.contract].had
    BY <2>1, <2>6, BelongingStays DEF WebhookFits
  <2> QED
    BY <2>1, <2>3, <2>4, <2>5, <2>7 DEF WebhookFits
<1>4. ASSUME NEW e \in event', NEW f \in event', e.at = f.at
      PROVE  SameWebhook(e, f)
  <2>1. \A d \in event' : d \in Event /\ d.at \in Nat
    BY DEF BillingTypeOK, Event
  <2>2. \A d \in event : d.at <= sent
    BY DEF StripeKnows, WebhookFits
  <2>3. sent \in Nat
    BY BillingAssumption DEF BillingTypeOK
  <2>4. \A d \in event' : d \in event <=> ~(d.at > sent)
    BY <2>1, <2>2, <2>3
  <2> QED
    BY <1>4, <2>4 DEF StripeKnows
<1>5. \A e \in event' : WebhookFits(e)'
  BY <1>3
<1> QED
  BY <1>1, <1>2, <1>4, <1>5 DEF StripeKnows

\* Webhooks are handled, or given to other requests.
LEMMA StripeListens ==
  ASSUME BillingTypeOK, StripeKnows, UNCHANGED <<checkout, customer, contract, sent>>,
         \A f \in event' : AgencyFits(f) /\ \E d \in event : SameWebhook(d, f),
         \A p \in Agency : applied'[p] <= sent'
  PROVE  StripeKnows'
<1>1. \A k \in Checkout : CheckoutFits(k)'
  BY DEF StripeKnows, CheckoutFits, CheckoutAt, Belongs
<1>2. \A s \in Contract :
        contract'[s] # NoContract => Belongs(contract[s].customer, contract[s].payer)'
  BY DEF StripeKnows, Belongs
<1>3. ASSUME NEW f \in event'
      PROVE  WebhookFits(f)'
  <2>1. PICK d \in event : SameWebhook(d, f)
    OBVIOUS
  <2>2. WebhookFits(d) /\ AgencyFits(f)
    BY DEF StripeKnows
  <2> QED
    BY <2>1, <2>2 DEF WebhookFits, AgencyFits, SameWebhook, Belongs, ContractsOf
<1>4. ASSUME NEW e \in event', NEW f \in event', e.at = f.at
      PROVE  SameWebhook(e, f)
  <2>1. PICK c \in event, d \in event : SameWebhook(c, e) /\ SameWebhook(d, f)
    OBVIOUS
  <2>2. c.at = d.at
    BY <1>4, <2>1 DEF SameWebhook
  <2>3. SameWebhook(c, d)
    BY <2>2 DEF StripeKnows
  <2> QED
    BY <2>1, <2>3, SameIsSame
<1> QED
  BY <1>1, <1>2, <1>3, <1>4 DEF StripeKnows

LEMMA StripeKnowsKept ==
  ASSUME BillingTypeOK, BillingTypeOK', StripeKnows, RowsAreTheAgencysOwn, BillingNext
  PROVE  StripeKnows'
<1>0. /\ \A k \in Checkout : CheckoutFits(k)
      /\ \A p \in Agency : applied[p] <= sent /\ applied[p] \in Nat
      /\ sent \in Nat
  BY BillingAssumption DEF StripeKnows, BillingTypeOK
<1>1. ASSUME NEW k \in Checkout, OnlyCheckout(k), CheckoutFits(k)',
             UNCHANGED <<contract, event, sent, applied>>
      PROVE  StripeKnows'
  <2>1. \A l \in Checkout : checkout'[l] = checkout[l] \/ CheckoutFits(l)'
    BY <1>1 DEF OnlyCheckout
  <2>2. sent <= sent' /\ \A p \in Agency : applied'[p] <= sent'
    BY <1>0, <1>1
  <2>3. /\ \A s \in Contract : contract[s] # NoContract \/ contract'[s] = NoContract
        /\ \A e \in event' : e \in event
    BY <1>1
  <2> QED
    BY <2>1, <2>2, <2>3, StripeStep
<1>2. ASSUME NEW k \in Checkout, NEW p \in Agency, NEW plan \in OnSale, StartCheckout(k, p, plan)
      PROVE  StripeKnows'
  <2>1. /\ OnlyCheckout(k) /\ checkout'[k] \in Checking
        /\ checkout'[k].pc = IF CustomerOf(p) = NoId THEN "createCustomer" ELSE "paying"
        /\ checkout'[k].payer = p
        /\ checkout'[k].customer = CustomerOf(p)
        /\ checkout'[k].first <=> CustomerOf(p) = NoId
    BY <1>2, StartCheckoutMoves
  <2>2. CustomerOf(p) # NoId => Belongs(CustomerOf(p), p)
    BY SubTypes DEF RowsAreTheAgencysOwn, CustomerOf, Belongs
  <2>3. UNCHANGED <<customer, contract, event, sent, applied>>
    BY <1>2 DEF StartCheckout
  <2>4. CheckoutFits(k)'
    BY <2>1, <2>2, <2>3 DEF CheckoutFits, CheckoutAt, Belongs
  <2> QED
    BY <1>1, <2>1, <2>3, <2>4
<1>3. ASSUME NEW k \in Checkout, NEW c \in Customer, CreateCustomer(k, c)
      PROVE  StripeKnows'
  <2>1. /\ OnlyCheckout(k)
        /\ checkout[k] \in Checking /\ checkout'[k] \in Checking
        /\ checkout'[k].pc = "upsert"
        /\ checkout'[k].payer = checkout[k].payer
        /\ checkout'[k].customer = c
        /\ checkout'[k].first = checkout[k].first
        /\ customer' = [customer EXCEPT ![c] = checkout[k].payer]
    BY <1>3, CreateCustomerMoves
  <2>2. customer'[c] = checkout[k].payer
    BY <2>1 DEF BillingTypeOK
  <2>3. checkout[k].first
    BY <1>0, <1>3, <2>1 DEF CheckoutFits, CheckoutAt, CreateCustomer, Checking, IdleCheckout
  <2>4. CheckoutFits(k)'
    BY <2>1, <2>2, <2>3 DEF CheckoutFits, CheckoutAt, Belongs
  <2> QED
    BY <1>1, <1>3, <2>1, <2>4 DEF CreateCustomer
<1>4. ASSUME NEW k \in Checkout, PersistCustomer(k)
      PROVE  StripeKnows'
  <2>1. /\ OnlyCheckout(k)
        /\ checkout'[k].pc = "paying"
        /\ checkout'[k].payer = checkout[k].payer
        /\ checkout'[k].customer = checkout[k].customer
        /\ checkout'[k].first = FALSE
    BY <1>4, PersistCustomerMoves
  <2>2. Belongs(checkout[k].customer, checkout[k].payer) /\ UNCHANGED customer
    BY <1>0, <1>4 DEF CheckoutFits, PersistCustomer
  <2>3. CheckoutFits(k)'
    BY <2>1, <2>2 DEF CheckoutFits, CheckoutAt, Belongs
  <2> QED
    BY <1>1, <1>4, <2>1, <2>3 DEF PersistCustomer
<1>5. ASSUME NEW k \in Checkout, checkout'[k] = IdleCheckout
      PROVE  CheckoutFits(k)'
  BY <1>5 DEF CheckoutFits, CheckoutAt, IdleCheckout
<1>6. ASSUME NEW k \in Checkout, AbandonCheckout(k)
      PROVE  StripeKnows'
  <2>1. OnlyCheckout(k) /\ checkout'[k] = IdleCheckout
    BY <1>6, AbandonMoves
  <2> QED
    BY <1>1, <1>5, <1>6, <2>1 DEF AbandonCheckout
<1>7. ASSUME NEW k \in Checkout, NEW s \in Contract, Pay(k, s)
      PROVE  StripeKnows'
  <2>1. Belongs(checkout[k].customer, checkout[k].payer)
    BY <1>0, <1>7 DEF Pay, CheckoutFits
  <2>2. PICK d \in Event, e \in Event :
          /\ event' = event \cup {d, e}
          /\ d.at = sent + 1 /\ e.at = sent + 2
          /\ d.payer = e.payer /\ d.customer = e.customer /\ d.contract = e.contract
          /\ e.payer = checkout[k].payer /\ e.customer = checkout[k].customer
          /\ AgencyFits(d) /\ AgencyFits(e) /\ PriceFits(d)' /\ PriceFits(e)'
          /\ Sells(s, e)
    BY <1>7, <2>1, PayMoves DEF Belongs
  <2>3. sent' = sent + 2 /\ UNCHANGED <<customer, applied>>
    BY <1>7 DEF Pay
  <2>4. Belongs(e.customer, e.payer)' /\ s \in ContractsOf(e.payer)' /\ e.contract = s
    BY <2>1, <2>2, <2>3, SoldIsOf DEF Belongs, Sells
  <2>5. \A l \in Checkout : checkout'[l] = checkout[l] \/ CheckoutFits(l)'
    BY <1>5, <1>7, AbandonMoves DEF OnlyCheckout
  <2>6. \A t \in Contract :
          contract[t] # NoContract \/ contract'[t] = NoContract \/
            Belongs(contract[t].customer, contract[t].payer)'
    BY <2>2, <2>4 DEF Sells, Belongs
  <2>7. \A f \in event' : f \in event \/ (WebhookFits(f)' /\ f.at > sent)
    <3>1. /\ Belongs(d.customer, d.payer)' /\ d.contract \in ContractsOf(d.payer)'
          /\ Belongs(e.customer, e.payer)' /\ e.contract \in ContractsOf(e.payer)'
      BY <2>2, <2>4 DEF Belongs
    <3>2. d.at <= sent' /\ d.at > sent /\ e.at <= sent' /\ e.at > sent
      BY <1>0, <2>2, <2>3
    <3>3. WebhookFits(d)' /\ WebhookFits(e)'
      BY <2>2, <3>1, <3>2 DEF WebhookFits, AgencyFits, PriceFits
    <3> QED
      BY <2>2, <3>2, <3>3
  <2>8. sent <= sent' /\ d.at # e.at /\ \A p \in Agency : applied'[p] <= sent'
    BY <1>0, <2>2, <2>3
  <2> QED
    BY <2>2, <2>5, <2>6, <2>7, <2>8, SameIsSame, StripeStep
<1>8. ASSUME NEW s \in Contract, NEW p \in Agency, NEW state \in Status, NEW price \in Price,
             MadeByHand(s, p, state, price)
      PROVE  StripeKnows'
  <2>1. PICK e \in Event :
          /\ event' = event \cup {e} /\ e.at = sent + 1
          /\ e.payer = p /\ e.customer = CustomerOf(p)
          /\ AgencyFits(e) /\ PriceFits(e)' /\ Sells(s, e)
    BY <1>8, MadeByHandMoves
  <2>2. sent' = sent + 1 /\ UNCHANGED <<checkout, customer, applied>> /\ CustomerOf(p) # NoId
    BY <1>8 DEF MadeByHand
  <2>3. Belongs(CustomerOf(p), p)
    BY <2>2, SubTypes DEF RowsAreTheAgencysOwn, CustomerOf, Belongs
  <2>4. Belongs(e.customer, e.payer)' /\ s \in ContractsOf(e.payer)' /\ e.contract = s
    BY <2>1, <2>2, <2>3, SoldIsOf DEF Belongs, Sells
  <2>5. \A t \in Contract :
          contract[t] # NoContract \/ contract'[t] = NoContract \/
            Belongs(contract[t].customer, contract[t].payer)'
    BY <2>1, <2>4 DEF Sells, Belongs
  <2>6. /\ sent <= sent' /\ \A q \in Agency : applied'[q] <= sent'
        /\ e.at <= sent' /\ e.at > sent
    BY <1>0, <2>1, <2>2
  <2>7. \A l \in Checkout : checkout'[l] = checkout[l]
    BY <2>2
  <2>8. WebhookFits(e)'
    BY <2>1, <2>4, <2>6 DEF WebhookFits, AgencyFits, PriceFits
  <2> QED
    BY <2>1, <2>5, <2>6, <2>7, <2>8, SameIsSame, StripeStep
<1>9. ASSUME NEW s \in Contract, NEW state \in Status, NEW price \in Price,
             ChangeContract(s, state, price)
      PROVE  StripeKnows'
  <2>1. PICK e \in Event :
          /\ event' = event \cup {e} /\ e.at = sent + 1
          /\ e.payer = contract[s].payer /\ e.customer = contract[s].customer
          /\ e.contract = s /\ AgencyFits(e) /\ PriceFits(e)'
    BY <1>9, ChangeContractMoves
  <2>2. /\ contract[s] \in ContractRow
        /\ \A t \in Contract : t # s => contract'[t] = contract[t]
    BY <1>9, ChangeContractMoves
  <2>3. sent' = sent + 1 /\ UNCHANGED <<checkout, customer, applied>>
    BY <1>9 DEF ChangeContract
  <2>4. contract[s] # NoContract /\ s \in ContractsOf(contract[s].payer)
    BY <2>2, BillingAssumption DEF ContractRow, NoContract, ContractsOf
  <2>5. Belongs(contract[s].customer, contract[s].payer)
    BY <2>4 DEF StripeKnows
  <2>6. Belongs(e.customer, e.payer)' /\ e.contract \in ContractsOf(e.payer)'
    BY <2>1, <2>3, <2>4, <2>5, ContractsStay DEF Belongs
  <2>7. /\ sent <= sent' /\ \A q \in Agency : applied'[q] <= sent'
        /\ e.at <= sent' /\ e.at > sent
    BY <1>0, <2>1, <2>3
  <2>8. /\ \A l \in Checkout : checkout'[l] = checkout[l]
        /\ \A t \in Contract : contract[t] # NoContract \/ contract'[t] = NoContract
    BY <2>2, <2>3, <2>4
  <2>9. WebhookFits(e)'
    BY <2>1, <2>6, <2>7 DEF WebhookFits, AgencyFits, PriceFits
  <2> QED
    BY <2>1, <2>7, <2>8, <2>9, SameIsSame, StripeStep
<1>10. ASSUME NEW e \in event, NEW again \in BOOLEAN, HandleWebhook(e, again)
      PROVE  StripeKnows'
  <2>1. e.payer \in Agency /\ e.at <= sent
    BY <1>10, WebhookMoves DEF StripeKnows, WebhookFits
  <2>2. \A p \in Agency : applied'[p] <= sent'
    BY <1>0, <1>10, <2>1, WebhookMoves
  <2>3. /\ \A f \in event' : AgencyFits(f) /\ \E d \in event : SameWebhook(d, f)
        /\ UNCHANGED <<checkout, customer, contract, sent>>
    BY <1>10, WebhookMoves
  <2> QED
    BY <2>2, <2>3, StripeListens
<1>11. ASSUME NEW e \in event, NEW again \in BOOLEAN, ResolveAgency(e, again)
       PROVE  StripeKnows'
  <2>1. /\ \A f \in event' : AgencyFits(f) /\ \E d \in event : SameWebhook(d, f)
        /\ UNCHANGED <<checkout, customer, contract, sent, applied>>
    BY <1>11, ResolveMoves
  <2> QED
    BY <1>0, <2>1, StripeListens
<1> QED
  BY <1>2, <1>3, <1>4, <1>6, <1>7, <1>8, <1>9, <1>10, <1>11
  DEF BillingNext, CheckoutStep, SubscriptionStep, WebhookStep

----------------------------------------------------------------------------
(* An agency's row.                                                         *)

OwnRow(p) ==
  sub[p] # NoSub =>
    /\ sub[p].customer # NoId => customer[sub[p].customer] = p
    /\ sub[p].contract # NoId => sub[p].contract \in ContractsOf(p)
    /\ PlanShown(p) # "free" => \E s \in ContractsOf(p) : PlanShown(p) \in contract[s].had

LEMMA SubIs ==
  \A r \in Sub : r # NoSub
BY DEF Sub, NoSub, Plan, Paid

LEMMA RowsKept ==
  ASSUME BillingTypeOK, BillingTypeOK', StripeKnows, RowsAreTheAgencysOwn, BillingNext
  PROVE  RowsAreTheAgencysOwn'
<1>0. \A p \in Agency : OwnRow(p)
  BY DEF RowsAreTheAgencysOwn, OwnRow
<1>1. ASSUME NEW p \in Agency, sub'[p] = sub[p]
      PROVE  OwnRow(p)'
  <2> SUFFICES ASSUME sub[p] # NoSub
               PROVE  /\ sub[p].customer # NoId => customer'[sub[p].customer] = p
                      /\ sub[p].contract # NoId => sub[p].contract \in ContractsOf(p)'
                      /\ sub[p].plan # "free" =>
                           \E s \in ContractsOf(p)' : sub[p].plan \in contract'[s].had
    BY <1>1 DEF OwnRow, PlanShown
  <2>1. /\ sub[p].customer # NoId => customer[sub[p].customer] = p
        /\ sub[p].contract # NoId => sub[p].contract \in ContractsOf(p)
        /\ sub[p].plan # "free" => \E s \in ContractsOf(p) : sub[p].plan \in contract[s].had
    BY <1>0 DEF OwnRow, PlanShown
  <2>2. sub[p].customer \in Customer \cup {NoId}
    BY SubTypes DEF Sub
  <2>3. sub[p].customer # NoId => customer'[sub[p].customer] = p
    BY <2>1, <2>2, BelongingStays DEF Belongs
  <2>4. \A s \in ContractsOf(p) : s \in ContractsOf(p)' /\ contract[s].had \subseteq contract'[s].had
    <3>1. \A s \in ContractsOf(p) : s \in Contract /\ contract[s] # NoContract
      BY ContractTypes DEF ContractsOf
    <3> QED
      BY <3>1, ContractsStay, BelongingStays
  <2> QED
    BY <2>1, <2>3, <2>4
<1>2. ASSUME NEW k \in Checkout, PersistCustomer(k), NEW p \in Agency
      PROVE  OwnRow(p)'
  <2>1. CASE p # checkout[k].payer
    BY <1>1, <1>2, <2>1, PersistCustomerMoves
  <2>2. CASE p = checkout[k].payer
    <3>1. /\ sub'[p] # NoSub
          /\ sub'[p].customer = checkout[k].customer
          /\ sub'[p].plan = RowToPatch(p).plan
          /\ sub'[p].contract = RowToPatch(p).contract
      BY <1>2, <2>2, PersistCustomerMoves
    <3>2. UNCHANGED <<customer, contract>> /\ Belongs(checkout[k].customer, p)
      BY <1>2, <2>2 DEF PersistCustomer, StripeKnows, CheckoutFits
    <3>3. /\ RowToPatch(p).contract # NoId => RowToPatch(p).contract \in ContractsOf(p)
          /\ RowToPatch(p).plan # "free" =>
               \E s \in ContractsOf(p) : RowToPatch(p).plan \in contract[s].had
      BY <1>0 DEF RowToPatch, OwnRow, PlanShown, FreshSub
    <3>4. ContractsOf(p)' = ContractsOf(p)
      BY <3>2 DEF ContractsOf
    <3> QED
      BY <3>1, <3>2, <3>3, <3>4 DEF OwnRow, PlanShown, Belongs
  <2> QED
    BY <2>1, <2>2
<1>3. ASSUME NEW e \in event, NEW again \in BOOLEAN, HandleWebhook(e, again), NEW p \in Agency
      PROVE  OwnRow(p)'
  <2>1. CASE p # e.payer
    BY <1>1, <1>3, <2>1, WebhookMoves
  <2>2. CASE p = e.payer
    <3>1. /\ e \in Event /\ RowToPatch(p) \in Sub /\ UNCHANGED <<customer, contract>>
          /\ sub'[p] = Patched(RowToPatch(p), e)
      BY <1>3, <2>2, SubTypes, WebhookMoves
    <3>2. /\ Belongs(e.customer, p) /\ e.contract \in ContractsOf(p)
          /\ e.price \in Paid => e.price \in contract[e.contract].had
      BY <2>2 DEF StripeKnows, WebhookFits
    <3>3. ContractsOf(p)' = ContractsOf(p)
      BY <3>1 DEF ContractsOf
    <3>4. /\ RowToPatch(p).customer # NoId => customer[RowToPatch(p).customer] = p
          /\ RowToPatch(p).plan # "free" =>
               \E s \in ContractsOf(p) : RowToPatch(p).plan \in contract[s].had
      BY <1>0 DEF RowToPatch, OwnRow, FreshSub, PlanShown
    <3>5. sub'[p].customer # NoId => customer[sub'[p].customer] = p
      BY <3>1, <3>2, <3>4, PatchedTypes DEF Belongs
    <3>6. sub'[p].contract # NoId => sub'[p].contract \in ContractsOf(p)
      BY <3>1, <3>2, PatchedTypes
    <3>7. sub'[p].plan # "free" => \E s \in ContractsOf(p) : sub'[p].plan \in contract[s].had
      <4>1. CASE e.type = "deleted"
        BY <3>1, <4>1, PatchedTypes
      <4>2. CASE e.type # "deleted" /\ e.price \in Paid
        BY <3>1, <3>2, <4>2, PatchedTypes
      <4>3. CASE e.type # "deleted" /\ e.price \notin Paid
        BY <3>1, <3>4, <4>3, PatchedTypes
      <4> QED
        BY <4>1, <4>2, <4>3
    <3>8. sub'[p] # NoSub
      BY <3>1, PatchedTypes, SubIs
    <3> QED
      BY <3>1, <3>3, <3>5, <3>6, <3>7, <3>8 DEF OwnRow, PlanShown
  <2> QED
    BY <2>1, <2>2
<1>4. \A p \in Agency : OwnRow(p)'
  <2>1. ASSUME UNCHANGED sub
        PROVE  \A p \in Agency : OwnRow(p)'
    BY <1>1, <2>1
  <2>2. CASE \E k \in Checkout : CheckoutStep(k)
    BY <1>2, <2>1, <2>2, CheckoutFrames
  <2>3. CASE SubscriptionStep
    BY <2>1, <2>3, SubscriptionFrames
  <2>4. CASE WebhookStep
    BY <1>3, <2>1, <2>4, WebhookFrames DEF WebhookStep
  <2> QED
    BY <2>2, <2>3, <2>4 DEF BillingNext
<1> QED
  BY <1>4 DEF RowsAreTheAgencysOwn, OwnRow

----------------------------------------------------------------------------
(* An agency's customer.                                                    *)

\* Request k is no checkout of agency p.
NotOf(k, p) == checkout[k] = IdleCheckout \/ checkout[k].payer # p

FirstOf(k, p) == checkout[k] # IdleCheckout /\ checkout[k].payer = p /\ checkout[k].first

LEMMA FirstsAre ==
  \A p : \A k : k \in FirstCheckouts(p) <=> k \in Checkout /\ FirstOf(k, p)
BY DEF FirstCheckouts, FirstOf

\* A step that leaves what is an agency's customer.
LEMMA CustomerKeeps ==
  ASSUME NEW p \in Agency, CustomerIsOne(p), CustomerOf(p)' = CustomerOf(p),
         \A c \in Customer : customer'[c] = p <=> customer[c] = p,
         \A k \in Checkout : FirstOf(k, p)' <=> FirstOf(k, p),
         \A k \in Checkout : FirstOf(k, p) => checkout'[k] = checkout[k],
         \A k \in Checkout : CheckoutAt(k, "paying")' /\ checkout'[k].payer = p =>
           checkout'[k].customer = CustomerOf(p),
         \A s \in ContractsOf(p)' : contract'[s].customer = CustomerOf(p),
         \A e \in event' : e.payer = p => e.customer = CustomerOf(p)
  PROVE  CustomerIsOne(p)'
<1>1. FirstCheckouts(p)' = FirstCheckouts(p)
  BY DEF FirstCheckouts, FirstOf
<1>2. \A k \in FirstCheckouts(p) : checkout'[k] = checkout[k]
  BY FirstsAre
<1>3. /\ \A k, l \in FirstCheckouts(p)' : k = l
      /\ FirstCheckouts(p)' # {} => CustomerOf(p)' = NoId
  BY <1>1 DEF CustomerIsOne
<1>4. /\ \A k \in FirstCheckouts(p)' :
           CheckoutAt(k, "createCustomer")' => \A c \in Customer : customer'[c] # p
      /\ \A c \in Customer : customer'[c] = p =>
           \/ CustomerOf(p)' = c
           \/ \E k \in FirstCheckouts(p)' :
                CheckoutAt(k, "upsert")' /\ checkout'[k].customer = c
  BY <1>1, <1>2 DEF CustomerIsOne, CheckoutAt
<1> QED
  BY <1>3, <1>4 DEF CustomerIsOne

LEMMA OthersCheckouts ==
  ASSUME NEW k \in Checkout, OnlyCheckout(k), NEW p, NotOf(k, p), NotOf(k, p)'
  PROVE  /\ \A l \in Checkout : FirstOf(l, p)' <=> FirstOf(l, p)
         /\ \A l \in Checkout : FirstOf(l, p) => checkout'[l] = checkout[l]
         /\ \A l \in Checkout : CheckoutAt(l, "paying")' /\ checkout'[l].payer = p =>
              checkout'[l] = checkout[l] /\ CheckoutAt(l, "paying") /\ checkout[l].payer = p
  BY DEF OnlyCheckout, NotOf, FirstOf, CheckoutAt, IdleCheckout

LEMMA CustomerOfSame ==
  ASSUME NEW p, sub'[p] = sub[p]
  PROVE  CustomerOf(p)' = CustomerOf(p)
  BY DEF CustomerOf

\* What CustomerIsOne says of the purchases of an agency.
LEMMA PurchasesOf ==
  ASSUME NEW p \in Agency, CustomerIsOne(p)
  PROVE  /\ \A k \in Checkout : CheckoutAt(k, "paying") /\ checkout[k].payer = p =>
              checkout[k].customer = CustomerOf(p)
         /\ \A s \in ContractsOf(p) : contract[s].customer = CustomerOf(p)
         /\ \A e \in event : e.payer = p => e.customer = CustomerOf(p)
BY DEF CustomerIsOne

LEMMA StartCustomer ==
  ASSUME BillingTypeOK, NEW k \in Checkout, NEW q \in Agency, NEW plan \in OnSale,
         StartCheckout(k, q, plan), NEW p \in Agency \ crossed', CustomerIsOne(p)
  PROVE  CustomerIsOne(p)'
<1>1. /\ OnlyCheckout(k) /\ checkout[k] = IdleCheckout /\ checkout'[k] \in Checking
      /\ checkout'[k].pc = IF CustomerOf(q) = NoId THEN "createCustomer" ELSE "paying"
      /\ checkout'[k].payer = q
      /\ checkout'[k].customer = CustomerOf(q)
      /\ checkout'[k].first <=> CustomerOf(q) = NoId
  BY StartCheckoutMoves
<1>2. UNCHANGED <<sub, customer, contract, event>>
  BY DEF StartCheckout
<1>3. CustomerOf(p)' = CustomerOf(p) /\ ContractsOf(p)' = ContractsOf(p)
  BY <1>2 DEF CustomerOf, ContractsOf
<1>4. CASE p # q
  <2>1. NotOf(k, p) /\ NotOf(k, p)'
    BY <1>1, <1>4 DEF NotOf
  <2> QED
    BY <1>1, <1>2, <1>3, <2>1, OthersCheckouts, PurchasesOf, CustomerKeeps
<1>5. CASE p = q /\ CustomerOf(p) # NoId
  <2>1. ~FirstOf(k, p) /\ ~FirstOf(k, p)'
    BY <1>1, <1>5 DEF FirstOf
  <2>2. /\ \A l \in Checkout : FirstOf(l, p)' <=> FirstOf(l, p)
        /\ \A l \in Checkout : FirstOf(l, p) => checkout'[l] = checkout[l]
    BY <1>1, <2>1 DEF FirstOf, OnlyCheckout
  <2>3. \A l \in Checkout : CheckoutAt(l, "paying")' /\ checkout'[l].payer = p =>
          checkout'[l].customer = CustomerOf(p)
    BY <1>1, <1>5, PurchasesOf DEF CheckoutAt, OnlyCheckout
  <2> QED
    BY <1>2, <1>3, <2>2, <2>3, PurchasesOf, CustomerKeeps
<1>6. CASE p = q /\ CustomerOf(p) = NoId
  <2>1. FirstCheckouts(p) = {}
    BY <1>6 DEF StartCheckout
  <2>2. \A l \in Checkout : FirstOf(l, p)' => l = k
    BY <1>1, <2>1, FirstsAre DEF FirstOf, OnlyCheckout
  <2>3. \A l \in FirstCheckouts(p)' : l = k
    BY <2>2 DEF FirstCheckouts, FirstOf
  <2>4. \A c \in Customer : customer[c] # p
    BY <1>6, <2>1, BillingAssumption DEF CustomerIsOne
  <2>5. \A l \in Checkout : CheckoutAt(l, "paying")' /\ checkout'[l].payer = p =>
          checkout'[l].customer = CustomerOf(p)
    BY <1>1, <1>6, PurchasesOf DEF CheckoutAt, OnlyCheckout
  <2> QED
    BY <1>2, <1>3, <1>6, <2>3, <2>4, <2>5 DEF CustomerIsOne
<1> QED
  BY <1>4, <1>5, <1>6

LEMMA CreateCustomerCustomer ==
  ASSUME BillingTypeOK, StripeKnows, NEW k \in Checkout, NEW c \in Customer,
         CreateCustomer(k, c), NEW p \in Agency \ crossed', CustomerIsOne(p)
  PROVE  CustomerIsOne(p)'
<1>1. /\ OnlyCheckout(k)
      /\ checkout[k] \in Checking /\ checkout'[k] \in Checking
      /\ checkout'[k].pc = "upsert"
      /\ checkout'[k].payer = checkout[k].payer
      /\ checkout'[k].customer = c
      /\ checkout'[k].first = checkout[k].first
      /\ customer' = [customer EXCEPT ![c] = checkout[k].payer]
  BY CreateCustomerMoves
<1>2. /\ UNCHANGED <<sub, contract, event>>
      /\ CheckoutAt(k, "createCustomer") /\ customer[c] = NoId
  BY DEF CreateCustomer
<1>3. CustomerOf(p)' = CustomerOf(p) /\ ContractsOf(p)' = ContractsOf(p)
  BY <1>2 DEF CustomerOf, ContractsOf
<1>4. customer'[c] = checkout[k].payer /\ \A d \in Customer : d # c => customer'[d] = customer[d]
  BY <1>1 DEF BillingTypeOK
<1>5. CASE p # checkout[k].payer
  <2>1. NotOf(k, p) /\ NotOf(k, p)'
    BY <1>1, <1>5 DEF NotOf
  <2>2. \A d \in Customer : customer'[d] = p <=> customer[d] = p
    BY <1>2, <1>4, <1>5, BillingAssumption
  <2> QED
    BY <1>1, <1>2, <1>3, <2>1, <2>2, OthersCheckouts, PurchasesOf, CustomerKeeps
<1>6. CASE p = checkout[k].payer
  <2>1. FirstOf(k, p) /\ FirstOf(k, p)'
    BY <1>1, <1>2, <1>6, CheckoutTypes
    DEF FirstOf, StripeKnows, CheckoutFits, CheckoutAt, Checking, IdleCheckout
  <2>2. \A l \in Checkout : FirstOf(l, p) => l = k
    BY <2>1, FirstsAre DEF CustomerIsOne
  <2>3. \A l \in Checkout : FirstOf(l, p)' => l = k
    BY <1>1, <2>2 DEF FirstOf, OnlyCheckout
  <2>4. FirstCheckouts(p) = {k} /\ FirstCheckouts(p)' = {k}
    BY <2>1, <2>2, <2>3 DEF FirstCheckouts, FirstOf
  <2>5. CustomerOf(p) = NoId /\ \A d \in Customer : customer[d] # p
    BY <1>2, <2>4 DEF CustomerIsOne
  <2>6. \A d \in Customer : customer'[d] = p => d = c
    BY <1>4, <2>5
  <2>7. \A l \in Checkout : CheckoutAt(l, "paying")' /\ checkout'[l].payer = p =>
          checkout'[l].customer = CustomerOf(p)
    BY <1>1, PurchasesOf DEF CheckoutAt, OnlyCheckout
  <2> QED
    BY <1>1, <1>2, <1>3, <2>4, <2>5, <2>6, <2>7, PurchasesOf DEF CustomerIsOne, CheckoutAt
<1> QED
  BY <1>5, <1>6

LEMMA PersistCustomerCustomer ==
  ASSUME BillingTypeOK, BillingTypeOK', StripeKnows, NEW k \in Checkout, PersistCustomer(k),
         NEW p \in Agency \ crossed', CustomerIsOne(p)
  PROVE  CustomerIsOne(p)'
<1>1. /\ OnlyCheckout(k)
      /\ checkout[k] \in Checking /\ checkout'[k] \in Checking
      /\ checkout'[k].pc = "paying"
      /\ checkout'[k].payer = checkout[k].payer
      /\ checkout'[k].customer = checkout[k].customer
      /\ checkout'[k].first = FALSE
      /\ \A q \in Agency : q # checkout[k].payer => sub'[q] = sub[q]
      /\ sub'[checkout[k].payer] # NoSub
      /\ sub'[checkout[k].payer].customer = checkout[k].customer
  BY PersistCustomerMoves
<1>2. UNCHANGED <<customer, contract, event>> /\ CheckoutAt(k, "upsert")
  BY DEF PersistCustomer
<1>3. ContractsOf(p)' = ContractsOf(p)
  BY <1>2 DEF ContractsOf
<1>4. CASE p # checkout[k].payer
  <2>1. NotOf(k, p) /\ NotOf(k, p)'
    BY <1>1, <1>4 DEF NotOf
  <2>2. CustomerOf(p)' = CustomerOf(p)
    BY <1>1, <1>4, CustomerOfSame
  <2> QED
    BY <1>1, <1>2, <1>3, <2>1, <2>2, OthersCheckouts, PurchasesOf, CustomerKeeps
<1>5. CASE p = checkout[k].payer
  <2>1. FirstOf(k, p) /\ ~FirstOf(k, p)'
    BY <1>1, <1>2, <1>5, CheckoutTypes
    DEF FirstOf, StripeKnows, CheckoutFits, CheckoutAt, Checking, IdleCheckout
  <2>2. \A l \in Checkout : FirstOf(l, p) => l = k
    BY <2>1, FirstsAre DEF CustomerIsOne
  <2>3. \A l \in Checkout : ~FirstOf(l, p)'
    BY <1>1, <2>1, <2>2 DEF FirstOf, OnlyCheckout
  <2>4. FirstCheckouts(p) = {k} /\ FirstCheckouts(p)' = {}
    BY <2>1, <2>2, <2>3 DEF FirstCheckouts, FirstOf
  <2>5. CustomerOf(p) = NoId
    BY <2>4 DEF CustomerIsOne
  <2>6. CustomerOf(p)' = checkout[k].customer
    BY <1>1, <1>5 DEF CustomerOf
  <2>7. \A c \in Customer : customer'[c] = p => c = checkout[k].customer
    BY <1>2, <2>4, <2>5, BillingAssumption DEF CustomerIsOne
  <2>8. \A l \in Checkout : CheckoutAt(l, "paying")' /\ checkout'[l].payer = p => l = k
    <3> SUFFICES ASSUME NEW l \in Checkout, l # k, CheckoutAt(l, "paying"), checkout[l].payer = p
                 PROVE  FALSE
      BY <1>1 DEF OnlyCheckout, CheckoutAt
    <3>1. checkout[l].customer = NoId
      BY <2>5, PurchasesOf
    <3>2. checkout[l].customer \in Customer
      BY DEF StripeKnows, CheckoutFits, Belongs
    <3> QED
      BY <3>1, <3>2, BillingAssumption
  <2>9. ContractsOf(p) = {}
    <3> SUFFICES ASSUME NEW s \in ContractsOf(p) PROVE FALSE
      OBVIOUS
    <3>1. contract[s].customer = NoId /\ s \in Contract
      BY <2>5, PurchasesOf DEF ContractsOf
    <3>2. contract[s].customer \in Customer
      BY <3>1, ContractTypes DEF ContractsOf, ContractRow
    <3> QED
      BY <3>1, <3>2, BillingAssumption
  <2>10. \A e \in event : e.payer # p
    BY <2>9 DEF StripeKnows, WebhookFits
  <2> QED
    BY <1>1, <1>2, <1>3, <2>4, <2>6, <2>7, <2>8, <2>9, <2>10 DEF CustomerIsOne
<1> QED
  BY <1>4, <1>5

LEMMA LeavingCustomer ==
  ASSUME BillingTypeOK, StripeKnows, NEW k \in Checkout, OnlyCheckout(k),
         checkout[k] \in Checking, checkout'[k] = IdleCheckout, UNCHANGED <<sub, customer>>,
         NEW p \in Agency, CustomerIsOne(p), CheckoutAt(k, "upsert") => checkout[k].payer # p,
         \A s \in ContractsOf(p)' : contract'[s].customer = CustomerOf(p),
         \A e \in event' : e.payer = p => e.customer = CustomerOf(p)
  PROVE  CustomerIsOne(p)'
<1>1. CustomerOf(p)' = CustomerOf(p) /\ ~FirstOf(k, p)' /\ ~CheckoutAt(k, "paying")'
  BY DEF CustomerOf, FirstOf, CheckoutAt, IdleCheckout
<1>2. \A l \in Checkout : CheckoutAt(l, "paying")' /\ checkout'[l].payer = p =>
        checkout'[l].customer = CustomerOf(p)
  BY <1>1, PurchasesOf DEF OnlyCheckout, CheckoutAt
<1>3. CASE ~FirstOf(k, p)
  <2>1. /\ \A l \in Checkout : FirstOf(l, p)' <=> FirstOf(l, p)
        /\ \A l \in Checkout : FirstOf(l, p) => checkout'[l] = checkout[l]
    BY <1>1, <1>3 DEF OnlyCheckout, FirstOf
  <2> QED
    BY <1>1, <1>2, <2>1, CustomerKeeps
<1>4. CASE FirstOf(k, p)
  <2>1. CheckoutAt(k, "createCustomer")
    BY <1>4 DEF FirstOf, Checking, StripeKnows, CheckoutFits, CheckoutAt
  <2>2. \A l \in Checkout : FirstOf(l, p) => l = k
    BY <1>4, FirstsAre DEF CustomerIsOne
  <2>3. \A l \in Checkout : ~FirstOf(l, p)'
    BY <1>1, <2>2 DEF FirstOf, OnlyCheckout
  <2>4. FirstCheckouts(p) = {k} /\ FirstCheckouts(p)' = {}
    BY <1>4, <2>2, <2>3 DEF FirstCheckouts, FirstOf
  <2>5. \A c \in Customer : customer'[c] # p
    BY <2>1, <2>4 DEF CustomerIsOne
  <2> QED
    BY <1>1, <1>2, <2>4, <2>5 DEF CustomerIsOne
<1> QED
  BY <1>3, <1>4

LEMMA CustomersKept ==
  ASSUME BillingTypeOK, BillingTypeOK', StripeKnows, RowsAreTheAgencysOwn, BillingNext,
         \A p \in Agency \ crossed : CustomerIsOne(p)
  PROVE  crossed \subseteq crossed' /\ \A p \in Agency \ crossed' : CustomerIsOne(p)'
<1>0. crossed \subseteq crossed'
  BY HistoryStays
<1> SUFFICES ASSUME NEW p \in Agency \ crossed', CustomerIsOne(p)
             PROVE  CustomerIsOne(p)'
  BY <1>0
<1>1. ASSUME UNCHANGED <<checkout, customer>>, CustomerOf(p)' = CustomerOf(p),
             \A s \in ContractsOf(p)' : contract'[s].customer = CustomerOf(p),
             \A e \in event' : e.payer = p => e.customer = CustomerOf(p)
      PROVE  CustomerIsOne(p)'
  <2>1. /\ \A k \in Checkout : FirstOf(k, p)' <=> FirstOf(k, p)
        /\ \A k \in Checkout : checkout'[k] = checkout[k]
        /\ \A c \in Customer : customer'[c] = p <=> customer[c] = p
    BY <1>1 DEF FirstOf
  <2>2. \A k \in Checkout : CheckoutAt(k, "paying")' /\ checkout'[k].payer = p =>
          checkout'[k].customer = CustomerOf(p)
    BY <1>1, PurchasesOf DEF CheckoutAt
  <2> QED
    BY <1>1, <2>1, <2>2, CustomerKeeps
\* What has been sold goes by the customer it was sold to.
<1>2. ASSUME NEW s \in Contract, NEW e, Sells(s, e), e.payer = p => e.customer = CustomerOf(p)
      PROVE  \A t \in ContractsOf(p)' : contract'[t].customer = CustomerOf(p)
  <2>1. \A t \in ContractsOf(p)' : t \in ContractsOf(p) \/ (t = s /\ e.payer = p)
    BY <1>2, SoldIsOf
  <2>2. s \notin ContractsOf(p)
    BY <1>2 DEF Sells, ContractsOf, NoContract
  <2> QED
    BY <1>2, <2>1, <2>2, PurchasesOf DEF Sells, ContractsOf
<1>3. ASSUME NEW k \in Checkout, AbandonCheckout(k)
      PROVE  CustomerIsOne(p)'
  <2>1. OnlyCheckout(k) /\ checkout[k] \in Checking /\ checkout'[k] = IdleCheckout
    BY <1>3, AbandonMoves
  <2>2. CheckoutAt(k, "upsert") => checkout[k].payer # p
    BY <1>3 DEF AbandonCheckout
  <2>3. UNCHANGED <<sub, customer, contract, event>>
    BY <1>3 DEF AbandonCheckout
  <2>4. ContractsOf(p)' = ContractsOf(p)
    BY <2>3 DEF ContractsOf
  <2> QED
    BY <2>1, <2>2, <2>3, <2>4, PurchasesOf, LeavingCustomer
<1>4. ASSUME NEW k \in Checkout, NEW s \in Contract, Pay(k, s)
      PROVE  CustomerIsOne(p)'
  <2>1. OnlyCheckout(k) /\ checkout[k] \in Checking /\ checkout'[k] = IdleCheckout
    BY <1>4, AbandonMoves
  <2>2. CheckoutAt(k, "paying") /\ UNCHANGED <<sub, customer>>
    BY <1>4 DEF Pay
  <2>3. checkout[k].customer \in Customer
    BY <2>2 DEF StripeKnows, CheckoutFits, Belongs
  <2>4. PICK d \in Event, e \in Event :
          /\ event' = event \cup {d, e}
          /\ d.payer = e.payer /\ d.customer = e.customer
          /\ e.payer = checkout[k].payer /\ e.customer = checkout[k].customer
          /\ Sells(s, e)
    BY <1>4, <2>3, PayMoves
  <2>5. e.payer = p => e.customer = CustomerOf(p)
    BY <2>2, <2>4, PurchasesOf
  <2>6. \A f \in event' : f.payer = p => f.customer = CustomerOf(p)
    BY <2>4, <2>5, PurchasesOf
  <2>7. \A t \in ContractsOf(p)' : contract'[t].customer = CustomerOf(p)
    BY <1>2, <2>4, <2>5
  <2>8. CheckoutAt(k, "upsert") => checkout[k].payer # p
    BY <2>2 DEF CheckoutAt
  <2> QED
    BY <2>1, <2>2, <2>6, <2>7, <2>8, LeavingCustomer
<1>5. ASSUME NEW s \in Contract, NEW q \in Agency, NEW state \in Status, NEW price \in Price,
             MadeByHand(s, q, state, price)
      PROVE  CustomerIsOne(p)'
  <2>1. PICK e \in Event : /\ event' = event \cup {e}
                           /\ e.payer = q /\ e.customer = CustomerOf(q) /\ Sells(s, e)
    BY <1>5, MadeByHandMoves
  <2>2. UNCHANGED <<sub, checkout, customer>>
    BY <1>5 DEF MadeByHand
  <2>3. CustomerOf(p)' = CustomerOf(p)
    BY <2>2 DEF CustomerOf
  <2>4. \A t \in ContractsOf(p)' : contract'[t].customer = CustomerOf(p)
    BY <1>2, <2>1
  <2>5. \A f \in event' : f.payer = p => f.customer = CustomerOf(p)
    BY <2>1, PurchasesOf
  <2> QED
    BY <1>1, <2>2, <2>3, <2>4, <2>5
<1>6. ASSUME NEW s \in Contract, NEW state \in Status, NEW price \in Price,
             ChangeContract(s, state, price)
      PROVE  CustomerIsOne(p)'
  <2>1. /\ contract[s] \in ContractRow
        /\ \A t \in Contract : t # s => contract'[t] = contract[t]
        /\ contract'[s].payer = contract[s].payer
        /\ contract'[s].customer = contract[s].customer
    BY <1>6, ChangeContractMoves
  <2>2. PICK e \in Event : /\ event' = event \cup {e}
                           /\ e.payer = contract[s].payer /\ e.customer = contract[s].customer
    BY <1>6, ChangeContractMoves
  <2>3. UNCHANGED <<sub, checkout, customer>>
    BY <1>6 DEF ChangeContract
  <2>4. CustomerOf(p)' = CustomerOf(p)
    BY <2>3 DEF CustomerOf
  <2>5. contract[s].payer = p => s \in ContractsOf(p)
    BY <2>1, BillingAssumption DEF ContractsOf, ContractRow
  <2>6. \A t \in ContractsOf(p)' : t \in ContractsOf(p) /\ contract'[t].customer = contract[t].customer
    BY <2>1, <2>5 DEF ContractsOf
  <2>7. \A t \in ContractsOf(p)' : contract'[t].customer = CustomerOf(p)
    BY <2>6, PurchasesOf
  <2>8. \A f \in event' : f.payer = p => f.customer = CustomerOf(p)
    BY <2>2, <2>5, PurchasesOf
  <2> QED
    BY <1>1, <2>3, <2>4, <2>7, <2>8
\* Webhooks are handled.
<1>7. ASSUME UNCHANGED <<checkout, customer, contract>>, CustomerOf(p)' = CustomerOf(p),
             \A f \in event' : \E d \in event : SameWebhook(d, f)
      PROVE  CustomerIsOne(p)'
  <2>1. \A f \in event' : f.payer = p => f.customer = CustomerOf(p)
    BY <1>7, PurchasesOf DEF SameWebhook
  <2>2. ContractsOf(p)' = ContractsOf(p)
    BY <1>7 DEF ContractsOf
  <2> QED
    BY <1>1, <1>7, <2>1, <2>2, PurchasesOf
<1>8. ASSUME NEW e \in event, NEW again \in BOOLEAN, HandleWebhook(e, again)
      PROVE  CustomerIsOne(p)'
  <2>1. CustomerOf(p)' = CustomerOf(p)
    <3>1. CASE p # e.payer
      BY <1>8, <3>1, WebhookMoves, CustomerOfSame
    <3>2. CASE p = e.payer
      <4>1. e.customer = CustomerOf(p)
        BY <3>2, PurchasesOf
      <4>2. RowToPatch(p) \in Sub /\ RowToPatch(p).customer = CustomerOf(p)
        BY SubTypes
      <4>3. e \in Event /\ sub'[p] = Patched(RowToPatch(p), e)
        BY <1>8, <3>2, WebhookMoves
      <4>4. sub'[p] # NoSub /\ sub'[p].customer = CustomerOf(p)
        BY <4>1, <4>2, <4>3, PatchedTypes, SubIs
      <4> QED
        BY <4>4 DEF CustomerOf
    <3> QED
      BY <3>1, <3>2
  <2>2. /\ UNCHANGED <<checkout, customer, contract>>
        /\ \A f \in event' : \E d \in event : SameWebhook(d, f)
    BY <1>8, WebhookMoves
  <2> QED
    BY <1>7, <2>1, <2>2
<1>9. ASSUME NEW e \in event, NEW again \in BOOLEAN, ResolveAgency(e, again)
      PROVE  CustomerIsOne(p)'
  <2>1. /\ UNCHANGED <<sub, checkout, customer, contract>>
        /\ \A f \in event' : \E d \in event : SameWebhook(d, f)
    BY <1>9, ResolveMoves
  <2>2. CustomerOf(p)' = CustomerOf(p)
    BY <2>1 DEF CustomerOf
  <2> QED
    BY <1>7, <2>1, <2>2
<1> QED
  BY <1>3, <1>4, <1>5, <1>6, <1>8, <1>9, StartCustomer, CreateCustomerCustomer,
     PersistCustomerCustomer DEF BillingNext, CheckoutStep, SubscriptionStep, WebhookStep

----------------------------------------------------------------------------
(* The youngest webhook of an agency counts.                                *)

EventsOf(p) == {e \in event : e.payer = p}

\* The same webhooks are on their way to agency p after a step, whoever handles them.
SameOnTheWay(p) ==
  /\ \A f \in EventsOf(p)' : \E d \in EventsOf(p) : SameWebhook(d, f)
  /\ \A d \in EventsOf(p) : \E f \in EventsOf(p)' : SameWebhook(d, f)

\* A step that has nothing to do with what an agency has bought.
LEMMA LastStays ==
  ASSUME NEW p \in Agency, NEW s \in Contract, Awaited(p, s) \/ Shown(p, s),
         Matches(p, s) => sub'[p] # NoSub /\ sub'[p].status = sub[p].status /\ sub'[p].plan = sub[p].plan,
         contract'[s] = contract[s], SameOnTheWay(p), applied'[p] = applied[p]
  PROVE  Awaited(p, s)' \/ Shown(p, s)'
<1>1. \A f : f \in event' /\ f.payer = p =>
        \E d \in event : d.payer = p /\ d.at = f.at /\ (Tells(d, s) <=> Tells(f, s))
  BY DEF SameOnTheWay, EventsOf, SameWebhook, Tells
<1>2. \A d \in event : d.payer = p =>
        \E f \in event' : f.payer = p /\ f.at = d.at /\ (Tells(d, s) <=> Tells(f, s))
  BY DEF SameOnTheWay, EventsOf, SameWebhook, Tells
<1>3. \A e : Tells(e, s) <=> Tells(e, s)'
  BY DEF Tells
<1>4. Matches(p, s) => Matches(p, s)'
  BY DEF Matches
<1>5. CASE Awaited(p, s)
  <2>1. PICK e \in event : /\ e.payer = p /\ e.at > applied[p] /\ Tells(e, s)
                           /\ \A f \in event : f.payer = p => f.at <= e.at
    BY <1>5 DEF Awaited
  <2>2. PICK f \in event' : f.payer = p /\ f.at = e.at /\ Tells(f, s)
    BY <1>2, <2>1
  <2>3. \A g \in event' : g.payer = p => g.at <= f.at
    BY <1>1, <2>1, <2>2
  <2> QED
    BY <1>3, <2>1, <2>2, <2>3 DEF Awaited
<1>6. CASE Shown(p, s)
  <2>1. \A f \in event' : f.payer = p =>
          f.at <= applied[p] /\ (f.at = applied[p] => Tells(f, s))
    BY <1>1, <1>6 DEF Shown
  <2> QED
    BY <1>3, <1>4, <1>6, <2>1 DEF Shown
<1> QED
  BY <1>5, <1>6

LEMMA SameAreOnTheWay ==
  ASSUME NEW p, EventsOf(p)' = EventsOf(p)
  PROVE  SameOnTheWay(p)
BY SameIsSame DEF SameOnTheWay

\* A webhook is sent that tells of the contract.
LEMMA LastSent ==
  ASSUME BillingTypeOK, BillingTypeOK', StripeKnows, StripeKnows',
         NEW p \in Agency, NEW s \in Contract, NEW e \in event', e.payer = p, e.at = sent',
         sent < sent', Tells(e, s)', UNCHANGED applied
  PROVE  Awaited(p, s)'
<1>1. \A f \in event' : f.at <= e.at
  BY DEF StripeKnows, WebhookFits
<1>2. e.at > applied'[p]
  <2>1. applied[p] <= sent /\ applied[p] \in Nat /\ sent \in Nat /\ sent' \in Nat
    BY BillingAssumption DEF StripeKnows, BillingTypeOK
  <2> QED
    BY <2>1
<1> QED
  BY <1>1, <1>2 DEF Awaited

LEMMA TellingMatches ==
  ASSUME BillingTypeOK, NEW p \in Agency, NEW s \in ContractsOf(p), NEW e \in Event,
         Tells(e, s), sub'[p] = Patched(RowToPatch(p), e), UNCHANGED contract
  PROVE  Matches(p, s)'
<1>1. RowToPatch(p) \in Sub
  BY SubTypes
<1>2. sub'[p] # NoSub
  BY <1>1, PatchedTypes, SubIs
<1>3. CASE contract[s].state = "canceled"
  <2>1. sub'[p].plan = "free" /\ sub'[p].status = "canceled"
    BY <1>1, <1>3, PatchedTypes DEF Tells
  <2> QED
    BY <1>2, <1>3, <2>1 DEF Matches, SubscriptionStatus
<1>4. CASE contract[s].state # "canceled"
  <2>1. /\ sub'[p].status = IF e.status = "absent" THEN "active" ELSE e.status
        /\ e.price \in Paid => sub'[p].plan = e.price
    BY <1>1, <1>4, PatchedTypes DEF Tells
  <2>2. e.status = NormalStatus(contract[s].state) /\ e.price = contract[s].price
    BY DEF Tells
  <2>3. sub'[p].status = IF contract[s].state \in SubscriptionStatus
                         THEN contract[s].state ELSE "active"
    BY <2>1, <2>2 DEF NormalStatus, SubscriptionStatus
  <2> QED
    BY <1>2, <1>4, <2>1, <2>2, <2>3 DEF Matches
<1> QED
  BY <1>3, <1>4

LEMMA LastApplied ==
  ASSUME BillingTypeOK, StripeKnows,
         NEW e \in event, NEW again \in BOOLEAN, HandleWebhook(e, again),
         NEW p \in Agency, p = e.payer, p \notin untidy',
         NEW s \in ContractsOf(p), Awaited(p, s) \/ Shown(p, s)
  PROVE  Awaited(p, s)' \/ Shown(p, s)'
<1>1. /\ e \in Event
      /\ \A f \in event' : \E d \in event : SameWebhook(d, f)
      /\ \A f \in event : f = e \/ f \in event'
      /\ applied'[p] = IF applied[p] < e.at THEN e.at ELSE applied[p]
      /\ ~(applied[p] > e.at)
      /\ UNCHANGED contract
      /\ sub'[p] = Patched(RowToPatch(p), e)
  BY WebhookMoves
<1>2. e.at \in Nat /\ applied[p] \in Nat /\ \A f \in event : f.at \in Nat
  BY <1>1, BillingAssumption DEF BillingTypeOK, Event
<1>3. applied'[p] = e.at
  BY <1>1, <1>2
<1>4. \A f : Tells(f, s)' <=> Tells(f, s)
  BY <1>1 DEF Tells
<1>5. \A d, f : SameWebhook(d, f) =>
        d.payer = f.payer /\ d.at = f.at /\ (Tells(d, s) <=> Tells(f, s))
  BY DEF SameWebhook, Tells
<1>6. ASSUME Tells(e, s), \A f \in event : f.payer = p => f.at <= e.at
      PROVE  Shown(p, s)'
  <2>1. Matches(p, s)'
    BY <1>1, <1>6, TellingMatches
  <2>2. \A f \in event : f.payer = p => f.at <= e.at /\ (f.at = e.at => Tells(f, s))
    BY <1>5, <1>6 DEF StripeKnows
  <2>3. \A f \in event' : f.payer = p => f.at <= e.at /\ (f.at = e.at => Tells(f, s))
    BY <1>1, <1>5, <2>2
  <2> QED
    BY <1>3, <1>4, <2>1, <2>3 DEF Shown
<1>7. CASE Shown(p, s)
  <2>1. e.at = applied[p]
    BY <1>1, <1>2, <1>7 DEF Shown
  <2> QED
    BY <1>6, <1>7, <2>1 DEF Shown
<1>8. CASE Awaited(p, s)
  <2>1. PICK d \in event : /\ d.payer = p /\ d.at > applied[p] /\ Tells(d, s)
                           /\ \A f \in event : f.payer = p => f.at <= d.at
    BY <1>8 DEF Awaited
  <2>2. CASE d.at = e.at
    <3>1. SameWebhook(d, e)
      BY <2>2 DEF StripeKnows
    <3> QED
      BY <1>5, <1>6, <2>1, <2>2, <3>1
  <2>3. CASE d.at # e.at
    <3>1. d \in event'
      BY <1>1, <2>3
    <3>2. e.at <= d.at
      BY <2>1
    <3>3. d.at > applied'[p]
      BY <1>2, <1>3, <2>3, <3>2
    <3>4. \A f \in event' : f.payer = p => f.at <= d.at
      BY <1>1, <1>5, <2>1
    <3> QED
      BY <1>4, <2>1, <3>1, <3>3, <3>4 DEF Awaited
  <2> QED
    BY <2>2, <2>3
<1> QED
  BY <1>7, <1>8

\* A subscription is sold: to the agency itself, or to another.
LEMMA LastSold ==
  ASSUME BillingTypeOK, BillingTypeOK', StripeKnows, StripeKnows', LastWebhookCounts,
         NEW t \in Contract, NEW e \in Event, Sells(t, e), e.at = sent', sent < sent',
         \A f \in event' : f \in event \/ f.payer = e.payer, event \subseteq event',
         UNCHANGED <<sub, applied, untidy, crossed>>,
         NEW p \in Agency, NEW s \in Contract, ContractsOf(p)' = {s},
         p \notin untidy \cup crossed
  PROVE  Awaited(p, s)' \/ Shown(p, s)'
<1>1. CASE e.payer = p
  <2>1. t = s
    BY <1>1, SoldIsOf
  <2>2. Tells(e, s)'
    BY <2>1 DEF Sells
  <2> QED
    BY <1>1, <2>2, LastSent DEF Sells
<1>2. CASE e.payer # p
  <2>1. ContractsOf(p) = {s} /\ t \notin ContractsOf(p)
    <3>1. ContractsOf(p) = {s}
      BY <1>2, SoldIsOf
    <3>2. contract[t].state = "none"
      BY DEF Sells, NoContract
    <3> QED
      BY <3>1, <3>2 DEF ContractsOf
  <2>2. contract'[s] = contract[s]
    BY <2>1 DEF Sells
  <2>3. EventsOf(p)' = EventsOf(p)
    BY <1>2 DEF EventsOf
  <2>4. Awaited(p, s) \/ Shown(p, s)
    BY <2>1 DEF LastWebhookCounts
  <2>5. Matches(p, s) =>
          sub'[p] # NoSub /\ sub'[p].status = sub[p].status /\ sub'[p].plan = sub[p].plan
    BY DEF Matches
  <2> QED
    BY <2>2, <2>3, <2>4, <2>5, SameAreOnTheWay, LastStays
<1> QED
  BY <1>1, <1>2

LEMMA LastKept ==
  ASSUME BillingTypeOK, BillingTypeOK', StripeKnows, StripeKnows', RowsAreTheAgencysOwn,
         BillingNext, \A p \in Agency \ crossed : CustomerIsOne(p), LastWebhookCounts
  PROVE  LastWebhookCounts'
<1>0. crossed \subseteq crossed' /\ untidy \subseteq untidy'
  BY HistoryStays
<1> SUFFICES ASSUME NEW p \in Agency, NEW s \in Contract,
                    ContractsOf(p)' = {s}, p \notin untidy' \cup crossed'
             PROVE  Awaited(p, s)' \/ Shown(p, s)'
  BY DEF LastWebhookCounts
<1>1. p \notin untidy \cup crossed /\ CustomerIsOne(p)
  BY <1>0
<1>2. ASSUME UNCHANGED contract
      PROVE  ContractsOf(p) = {s} /\ s \in ContractsOf(p) /\ (Awaited(p, s) \/ Shown(p, s))
  <2>1. ContractsOf(p) = {s}
    BY <1>2 DEF ContractsOf
  <2> QED
    BY <1>1, <2>1 DEF LastWebhookCounts
<1>3. ASSUME UNCHANGED <<contract, event, applied>>,
             Matches(p, s) =>
               sub'[p] # NoSub /\ sub'[p].status = sub[p].status /\ sub'[p].plan = sub[p].plan
      PROVE  Awaited(p, s)' \/ Shown(p, s)'
  <2>1. EventsOf(p)' = EventsOf(p)
    BY <1>3 DEF EventsOf
  <2>2. Awaited(p, s) \/ Shown(p, s)
    BY <1>2, <1>3
  <2> QED
    BY <1>3, <2>1, <2>2, SameAreOnTheWay, LastStays
<1>4. ASSUME UNCHANGED <<contract, event, applied, sub>>
      PROVE  Awaited(p, s)' \/ Shown(p, s)'
  BY <1>3, <1>4 DEF Matches
<1>5. ASSUME NEW k \in Checkout, NEW q \in Agency, NEW plan \in OnSale, StartCheckout(k, q, plan)
      PROVE  Awaited(p, s)' \/ Shown(p, s)'
  BY <1>4, <1>5 DEF StartCheckout
<1>6. ASSUME NEW k \in Checkout, NEW c \in Customer, CreateCustomer(k, c)
      PROVE  Awaited(p, s)' \/ Shown(p, s)'
  BY <1>4, <1>6 DEF CreateCustomer
<1>7. ASSUME NEW k \in Checkout, PersistCustomer(k)
      PROVE  Awaited(p, s)' \/ Shown(p, s)'
  <2>1. UNCHANGED <<contract, event, applied>>
    BY <1>7 DEF PersistCustomer
  <2>2. ASSUME Matches(p, s), checkout[k].payer = p
        PROVE  sub'[p] # NoSub /\ sub'[p].status = sub[p].status /\ sub'[p].plan = sub[p].plan
    <3>1. RowToPatch(p) = sub[p]
      BY <2>2 DEF RowToPatch, Matches
    <3> QED
      BY <1>7, <2>2, <3>1, PersistCustomerMoves
  <2>3. ASSUME Matches(p, s), checkout[k].payer # p
        PROVE  sub'[p] # NoSub /\ sub'[p].status = sub[p].status /\ sub'[p].plan = sub[p].plan
    <3>1. sub'[p] = sub[p]
      BY <1>7, <2>3, PersistCustomerMoves
    <3> QED
      BY <2>3, <3>1 DEF Matches
  <2> QED
    BY <1>3, <2>1, <2>2, <2>3
<1>8. ASSUME NEW k \in Checkout, AbandonCheckout(k)
      PROVE  Awaited(p, s)' \/ Shown(p, s)'
  BY <1>4, <1>8 DEF AbandonCheckout
<1>9. ASSUME NEW k \in Checkout, NEW t \in Contract, Pay(k, t)
      PROVE  Awaited(p, s)' \/ Shown(p, s)'
  <2>1. checkout[k].customer \in Customer
    BY <1>9 DEF Pay, StripeKnows, CheckoutFits, Belongs
  <2>2. PICK d \in Event, e \in Event :
          /\ event' = event \cup {d, e}
          /\ e.at = sent + 2 /\ sent' = sent + 2 /\ d.payer = e.payer /\ Sells(t, e)
    BY <1>9, <2>1, PayMoves
  <2>3. UNCHANGED <<sub, applied, untidy, crossed>>
    BY <1>9 DEF Pay
  <2>4. sent < sent' /\ e.at = sent'
    BY <2>2 DEF BillingTypeOK
  <2>5. event \subseteq event' /\ \A f \in event' : f \in event \/ f.payer = e.payer
    BY <2>2
  <2> QED
    BY <1>1, <2>2, <2>3, <2>4, <2>5, LastSold
<1>10. ASSUME NEW t \in Contract, NEW q \in Agency, NEW state \in Status, NEW price \in Price,
              MadeByHand(t, q, state, price)
       PROVE  Awaited(p, s)' \/ Shown(p, s)'
  <2>1. PICK e \in Event : /\ event' = event \cup {e} /\ e.at = sent + 1 /\ sent' = sent + 1
                           /\ Sells(t, e)
    BY <1>10, MadeByHandMoves
  <2>2. UNCHANGED <<sub, applied, untidy, crossed>>
    BY <1>10 DEF MadeByHand
  <2>3. sent < sent' /\ e.at = sent'
    BY <2>1 DEF BillingTypeOK
  <2>4. event \subseteq event' /\ \A f \in event' : f \in event \/ f.payer = e.payer
    BY <2>1
  <2> QED
    BY <1>1, <2>1, <2>2, <2>3, <2>4, LastSold
<1>11. ASSUME NEW t \in Contract, NEW state \in Status, NEW price \in Price,
              ChangeContract(t, state, price)
       PROVE  Awaited(p, s)' \/ Shown(p, s)'
  <2>1. /\ contract[t] \in ContractRow /\ contract'[t] \in ContractRow
        /\ \A u \in Contract : u # t => contract'[u] = contract[u]
        /\ contract'[t].payer = contract[t].payer
    BY <1>11, ChangeContractMoves
  <2>2. PICK e \in Event : /\ event' = event \cup {e} /\ e.at = sent + 1 /\ sent' = sent + 1
                           /\ e.payer = contract[t].payer /\ Tells(e, t)'
    BY <1>11, ChangeContractMoves
  <2>3. UNCHANGED <<sub, applied, untidy, crossed>>
    BY <1>11 DEF ChangeContract
  <2>4. sent < sent' /\ e.at = sent'
    BY <2>2 DEF BillingTypeOK
  <2>5. /\ contract[t].state # "none" /\ contract'[t].state # "none"
    BY <2>1, BillingAssumption DEF ContractRow
  <2>6. ContractsOf(p)' = ContractsOf(p)
    BY <2>1, <2>5 DEF ContractsOf
  <2>7. CASE contract[t].payer = p
    <3>1. t = s
      BY <2>1, <2>5, <2>7 DEF ContractsOf
    <3> QED
      BY <2>2, <2>3, <2>4, <2>7, <3>1, LastSent
  <2>8. CASE contract[t].payer # p
    <3>1. s # t
      BY <2>6, <2>8 DEF ContractsOf
    <3>2. contract'[s] = contract[s] /\ EventsOf(p)' = EventsOf(p)
      BY <2>1, <2>2, <2>8, <3>1 DEF EventsOf
    <3>3. Awaited(p, s) \/ Shown(p, s)
      BY <1>1, <2>6 DEF LastWebhookCounts
    <3>4. Matches(p, s) =>
            sub'[p] # NoSub /\ sub'[p].status = sub[p].status /\ sub'[p].plan = sub[p].plan
      BY <2>3 DEF Matches
    <3> QED
      BY <2>3, <3>2, <3>3, <3>4, SameAreOnTheWay, LastStays
  <2> QED
    BY <2>7, <2>8
<1>12. ASSUME NEW e \in event, NEW again \in BOOLEAN, HandleWebhook(e, again)
       PROVE  Awaited(p, s)' \/ Shown(p, s)'
  <2>1. UNCHANGED contract
    BY <1>12, WebhookMoves
  <2>2. s \in ContractsOf(p) /\ (Awaited(p, s) \/ Shown(p, s))
    BY <1>2, <2>1
  <2>3. CASE p = e.payer
    BY <1>1, <1>12, <2>2, <2>3, LastApplied
  <2>4. CASE p # e.payer
    <3>1. sub'[p] = sub[p] /\ applied'[p] = applied[p]
      BY <1>12, <2>4, WebhookMoves
    <3>2. SameOnTheWay(p)
      <4>1. \A f \in event' : \E d \in event : SameWebhook(d, f)
        BY <1>12, WebhookMoves
      <4>2. \A f \in event : f = e \/ f \in event'
        BY <1>12, WebhookMoves
      <4> QED
        BY <2>4, <4>1, <4>2, SameIsSame DEF SameOnTheWay, EventsOf, SameWebhook
    <3>3. Matches(p, s) =>
            sub'[p] # NoSub /\ sub'[p].status = sub[p].status /\ sub'[p].plan = sub[p].plan
      BY <3>1 DEF Matches
    <3> QED
      BY <2>1, <2>2, <3>1, <3>2, <3>3, LastStays
  <2> QED
    BY <2>3, <2>4
<1>13. ASSUME NEW e \in event, NEW again \in BOOLEAN, ResolveAgency(e, again)
       PROVE  Awaited(p, s)' \/ Shown(p, s)'
  <2>1. /\ UNCHANGED <<sub, contract, applied>>
        /\ \A f \in event' : \E d \in event : SameWebhook(d, f)
        /\ \A f \in event : f = e \/ f \in event'
        /\ CustomerOf(e.payer) = e.customer => \E f \in event' : SameWebhook(e, f)
    BY <1>13, ResolveMoves
  <2>2. e.payer = p => CustomerOf(e.payer) = e.customer
    BY <1>1, PurchasesOf
  <2>3. SameOnTheWay(p)
    <3>1. \A f \in EventsOf(p)' : \E d \in EventsOf(p) : SameWebhook(d, f)
      BY <2>1 DEF EventsOf, SameWebhook
    <3>2. ASSUME NEW d \in EventsOf(p)
          PROVE  \E f \in EventsOf(p)' : SameWebhook(d, f)
      <4>1. PICK f \in event' : SameWebhook(d, f)
        BY <2>1, <2>2, SameIsSame DEF EventsOf
      <4>2. f \in EventsOf(p)'
        BY <4>1 DEF EventsOf, SameWebhook
      <4> QED
        BY <4>1, <4>2
    <3> QED
      BY <3>1, <3>2 DEF SameOnTheWay
  <2>4. Matches(p, s) =>
          sub'[p] # NoSub /\ sub'[p].status = sub[p].status /\ sub'[p].plan = sub[p].plan
    BY <2>1 DEF Matches
  <2>5. s \in ContractsOf(p) /\ (Awaited(p, s) \/ Shown(p, s))
    BY <1>2, <2>1
  <2> QED
    BY <2>1, <2>3, <2>4, <2>5, LastStays
<1> QED
  BY <1>5, <1>6, <1>7, <1>8, <1>9, <1>10, <1>11, <1>12, <1>13
  DEF BillingNext, CheckoutStep, SubscriptionStep, WebhookStep

----------------------------------------------------------------------------
(* The invariant and what follows from it.                                  *)

LEMMA BillingStarts ==
  BillingInit => BillingInv
<1> SUFFICES ASSUME BillingInit PROVE BillingInv
  OBVIOUS
<1>1. BillingTypeOK
  BY BillingAssumption DEF BillingInit, BillingTypeOK
<1>2. \A p \in Agency : ContractsOf(p) = {} /\ FirstCheckouts(p) = {}
  BY DEF BillingInit, ContractsOf, FirstCheckouts, NoContract
<1>3. StripeKnows
  BY BillingAssumption DEF BillingInit, StripeKnows, CheckoutFits, CheckoutAt, IdleCheckout
<1>4. RowsAreTheAgencysOwn
  BY DEF BillingInit, RowsAreTheAgencysOwn
<1>5. \A p \in Agency : CustomerIsOne(p)
  <2> SUFFICES ASSUME NEW p \in Agency PROVE CustomerIsOne(p)
    OBVIOUS
  <2>1. \A c \in Customer : customer[c] # p
    BY BillingAssumption DEF BillingInit
  <2>2. \A k \in Checkout : ~CheckoutAt(k, "paying")
    BY DEF BillingInit, CheckoutAt, IdleCheckout
  <2>3. event = {}
    BY DEF BillingInit
  <2> QED
    BY <1>2, <2>1, <2>2, <2>3 DEF CustomerIsOne
<1>6. LastWebhookCounts
  BY <1>2 DEF LastWebhookCounts
<1> QED
  BY <1>1, <1>3, <1>4, <1>5, <1>6 DEF BillingInv

LEMMA BillingStutters ==
  BillingInv /\ UNCHANGED billingVars => BillingInv'
<1> SUFFICES ASSUME BillingInv, UNCHANGED billingVars PROVE BillingInv'
  OBVIOUS
<1> USE DEF billingVars
<1>1. BillingTypeOK'
  BY DEF BillingInv, BillingTypeOK
<1>2. StripeKnows'
  BY DEF BillingInv, StripeKnows, CheckoutFits, CheckoutAt, Belongs, ContractsOf, WebhookFits
<1>3. RowsAreTheAgencysOwn'
  BY DEF BillingInv, RowsAreTheAgencysOwn, ContractsOf, PlanShown
<1>4. \A p \in Agency \ crossed' : CustomerIsOne(p)'
  BY DEF BillingInv, CustomerIsOne, FirstCheckouts, CustomerOf, CheckoutAt, ContractsOf
<1>5. LastWebhookCounts'
  BY DEF BillingInv, LastWebhookCounts, ContractsOf, Awaited, Shown, Tells, Matches
<1> QED
  BY <1>1, <1>2, <1>3, <1>4, <1>5 DEF BillingInv

\* Stripe's webhooks come late, twice and in any order, with statuses and prices
\* that the code does not know; through all of it the rows, the checkouts and the
\* webhooks go on to fit each other, as far as they are known.
\* (billing/index.ts:51-56, 79-172)
THEOREM BillingInvariance ==
  BillingSpec => []BillingInv
<1>1. BillingInv /\ [BillingNext]_billingVars => BillingInv'
  <2> SUFFICES ASSUME BillingInv, BillingNext PROVE BillingInv'
    BY BillingStutters
  <2>1. /\ BillingTypeOK /\ StripeKnows /\ RowsAreTheAgencysOwn
        /\ \A p \in Agency \ crossed : CustomerIsOne(p)
        /\ LastWebhookCounts
    BY DEF BillingInv
  <2>2. BillingTypeOK'
    BY <2>1, BillingTypesKept
  <2>3. StripeKnows'
    BY <2>1, <2>2, StripeKnowsKept
  <2>4. RowsAreTheAgencysOwn'
    BY <2>1, <2>2, RowsKept
  <2>5. \A p \in Agency \ crossed' : CustomerIsOne(p)'
    BY <2>1, <2>2, CustomersKept
  <2>6. LastWebhookCounts'
    BY <2>1, <2>2, <2>3, LastKept
  <2> QED
    BY <2>2, <2>3, <2>4, <2>5, <2>6 DEF BillingInv
<1> QED
  BY <1>1, BillingStarts, PTL DEF BillingSpec

\* An agency whose first checkouts never overlapped has one customer.
LEMMA CustomerOnly ==
  ASSUME BillingTypeOK, NEW p \in Agency, CustomerIsOne(p)
  PROVE  Cardinality({c \in Customer : customer[c] = p}) <= 1
<1> DEFINE Own == {c \in Customer : customer[c] = p}
<1>1. \A c, d \in Own : c = d
  <2>1. CASE FirstCheckouts(p) = {}
    BY <2>1 DEF CustomerIsOne
  <2>2. CASE FirstCheckouts(p) # {}
    <3>1. CustomerOf(p) = NoId /\ \A c \in Customer : c # NoId
      BY <2>2, BillingAssumption DEF CustomerIsOne
    <3>2. \A c \in Own : \E k \in FirstCheckouts(p) : checkout[k].customer = c
      BY <3>1 DEF CustomerIsOne
    <3> QED
      BY <3>2 DEF CustomerIsOne
  <2> QED
    BY <2>1, <2>2
<1>2. CASE Own = {}
  BY <1>2, FS_EmptySet
<1>3. CASE Own # {}
  <2>1. PICK c \in Own : Own = {c}
    BY <1>1, <1>3
  <2>2. Cardinality(Own) = 1
    <3>1. Cardinality({c}) = 1
      BY FS_Singleton
    <3> QED
      BY <2>1, <3>1, Zenon
  <2> QED
    BY <2>2
<1> QED
  BY <1>2, <1>3

LEMMA BillingIsFollowing ==
  BillingInv => BillingFollowsStripe
<1> SUFFICES ASSUME BillingInv PROVE BillingFollowsStripe
  OBVIOUS
<1>1. RowFollowsStripe
  BY DEF BillingInv, LastWebhookCounts, Awaited, Shown, Matches, RowFollowsStripe, Settled
<1>2. OneCustomerPerAgency
  BY CustomerOnly DEF BillingInv, OneCustomerPerAgency
<1> QED
  BY <1>1, <1>2 DEF BillingInv, BillingFollowsStripe

\* What the agency's row shows is what Stripe has sold to that agency, as far as
\* its status and price are known to the code, for any number of agencies,
\* checkouts, subscriptions and webhooks, and whatever statuses and prices Stripe
\* has. (billing/index.ts:51-56, 79-172)
THEOREM BillingIsTrue ==
  BillingSpec => []BillingFollowsStripe
BY BillingInvariance, BillingIsFollowing, PTL

\* The types of billing's state are preserved.
\* (billing/index.ts:60-172)
THEOREM BillingTypeCorrect ==
  BillingSpec => []BillingTypeOK
<1>1. BillingInv => BillingTypeOK
  BY DEF BillingInv
<1> QED
  BY <1>1, BillingInvariance, PTL

----------------------------------------------------------------------------
(* The rate limiter.                                                        *)

\* A set of numbers has a least one.
LEMMA LeastNumber ==
  ASSUME NEW T, T \subseteq Nat, T # {}
  PROVE  \E x \in T : \A y \in T : x <= y
<1>1. PICK x \in T : \A y \in T : ~(<<y, x>> \in OpToRel(<, Nat))
  BY NatLessThanWellFounded, WFMin, Zenon
<1>2. \A y \in Nat : \A z \in Nat : y < z => <<y, z>> \in OpToRel(<, Nat)
  BY Zenon DEF OpToRel
<1>3. \A y \in T : ~(y < x)
  BY <1>1, <1>2, Zenon
<1> QED
  BY <1>3

LEMMA OldestIs ==
  ASSUME NEW S, S \subseteq Hit, S # {}
  PROVE  Oldest(S) \in S /\ \A g \in S : Oldest(S).no <= g.no
<1> DEFINE T == {h.no : h \in S}
<1>1. T \subseteq Nat /\ T # {}
  BY DEF Hit
<1>2. PICK x \in T : \A y \in T : x <= y
  BY <1>1, LeastNumber
<1>3. \E h \in S : \A g \in S : h.no <= g.no
  BY <1>2
<1> QED
  BY <1>3 DEF Oldest

\* What a call changes.
LEMMA ConsumeMoves ==
  ASSUME LimiterTypeOK, NEW k \in LimitKey, Consume(k)
  PROVE  /\ calls' = [calls EXCEPT ![k] = calls[k] + 1] /\ calls[k] + 1 \in 1 .. MaxCalls
         /\ UNCHANGED clock
         /\ \A j \in LimitKey :
              j # k => hits'[j] = hits[j] /\ admitted'[j] = admitted[j] /\ told'[j] = told[j]
         /\ hits' = [hits EXCEPT ![k] = hits'[k]]
         /\ told' = [told EXCEPT ![k] = told'[k]]
         /\ admitted' = [admitted EXCEPT ![k] = admitted'[k]]
         /\ \E hit \in Hit :
              /\ hit.no = calls[k] + 1 /\ hit.at = clock
              /\ Exhausted(Recent(k)) =>
                   /\ hits'[k] = Recent(k) /\ admitted'[k] = admitted[k]
                   /\ told'[k] = Oldest(Recent(k)).at + Window
              /\ ~Exhausted(Recent(k)) =>
                   /\ hits'[k] = Recent(k) \cup {hit}
                   /\ admitted'[k] = admitted[k] \cup {hit}
                   /\ told'[k] = NeverTold
<1>1. /\ calls[k] \in 0 .. MaxCalls /\ calls[k] < MaxCalls
      /\ calls' = [calls EXCEPT ![k] = calls[k] + 1] /\ UNCHANGED clock
  BY DEF Consume, LimiterTypeOK
<1>2. calls[k] + 1 \in 1 .. MaxCalls
  BY <1>1, LimiterAssumption
<1>3. PICK hit \in Hit : hit = [no |-> calls[k] + 1, at |-> clock]
  BY <1>2 DEF Hit, LimiterTypeOK
<1>4. hit.no = calls[k] + 1 /\ hit.at = clock
  BY <1>3
<1>5. CASE Exhausted(Recent(k))
  <2>1. /\ hits' = [hits EXCEPT ![k] = Recent(k)]
        /\ told' = [told EXCEPT ![k] = Oldest(Recent(k)).at + Window]
        /\ admitted' = admitted
    BY <1>5 DEF Consume
  <2> QED
    BY <1>1, <1>2, <1>4, <1>5, <2>1 DEF LimiterTypeOK
<1>6. CASE ~Exhausted(Recent(k))
  <2>1. /\ hits' = [hits EXCEPT ![k] = Recent(k) \cup {hit}]
        /\ told' = [told EXCEPT ![k] = NeverTold]
        /\ admitted' = [admitted EXCEPT ![k] = admitted[k] \cup {hit}]
    BY <1>3, <1>6 DEF Consume
  <2> QED
    BY <1>1, <1>2, <1>4, <1>6, <2>1 DEF LimiterTypeOK
<1> QED
  BY <1>5, <1>6

LEMMA RecentIsFinite ==
  ASSUME LimiterInv, NEW k \in LimitKey
  PROVE  /\ IsFiniteSet(hits[k]) /\ IsFiniteSet(Recent(k)) /\ Recent(k) \subseteq hits[k]
         /\ Cardinality(hits[k]) \in Nat /\ Cardinality(Recent(k)) \in Nat
         /\ Cardinality(Recent(k)) <= Cardinality(hits[k])
         /\ Cardinality(Recent(k)) = Cardinality(hits[k]) => Recent(k) = hits[k]
         /\ Cardinality(hits[k]) <= Limit
         /\ hits[k] \subseteq admitted[k] /\ admitted[k] \subseteq Hit
<1>1. /\ IsFiniteSet(admitted[k]) /\ hits[k] \subseteq admitted[k] /\ admitted[k] \subseteq Hit
      /\ Cardinality(hits[k]) <= Limit
  BY DEF LimiterInv, HitsAreRemembered, LimiterTypeOK
<1>2. IsFiniteSet(hits[k])
  BY <1>1, FS_Subset
<1>3. Recent(k) \subseteq hits[k]
  BY DEF Recent
<1> QED
  BY <1>1, <1>2, <1>3, FS_Subset, FS_CardinalityType

LEMMA LimiterTypesKept ==
  ASSUME LimiterInv, LimiterNext
  PROVE  LimiterTypeOK'
<1>1. LimiterTypeOK
  BY DEF LimiterInv
<1>2. CASE ClockTicksOn
  BY <1>1, <1>2, LimiterAssumption DEF ClockTicksOn, LimiterTypeOK, Clock
<1>3. ASSUME NEW k \in LimitKey, Consume(k)
      PROVE  LimiterTypeOK'
  <2>1. /\ calls' = [calls EXCEPT ![k] = calls[k] + 1] /\ calls[k] + 1 \in 1 .. MaxCalls
        /\ UNCHANGED clock
        /\ hits' = [hits EXCEPT ![k] = hits'[k]]
        /\ told' = [told EXCEPT ![k] = told'[k]]
        /\ admitted' = [admitted EXCEPT ![k] = admitted'[k]]
        /\ \A j \in LimitKey : j # k => hits'[j] = hits[j]
    BY <1>1, <1>3, ConsumeMoves
  <2>2. PICK hit \in Hit :
          /\ Exhausted(Recent(k)) =>
               /\ hits'[k] = Recent(k) /\ admitted'[k] = admitted[k]
               /\ told'[k] = Oldest(Recent(k)).at + Window
          /\ ~Exhausted(Recent(k)) =>
               /\ hits'[k] = Recent(k) \cup {hit}
               /\ admitted'[k] = admitted[k] \cup {hit}
               /\ told'[k] = NeverTold
    BY <1>1, <1>3, ConsumeMoves
  <2>3. /\ IsFiniteSet(Recent(k)) /\ Recent(k) \subseteq Hit
        /\ Cardinality(Recent(k)) \in Nat /\ Cardinality(Recent(k)) <= Limit
    BY RecentIsFinite, LimiterAssumption
  <2>4. CASE Exhausted(Recent(k))
    <3>1. Recent(k) # {}
      BY <2>4, FS_EmptySet, LimiterAssumption DEF Exhausted
    <3>2. told'[k] \in Nat
      BY <2>2, <2>3, <2>4, <3>1, OldestIs, LimiterAssumption DEF Hit, Clock
    <3>3. hits'[k] \subseteq Hit /\ admitted'[k] \subseteq Hit /\ Cardinality(hits'[k]) <= Limit
      BY <1>1, <2>2, <2>3, <2>4 DEF LimiterTypeOK
    <3> QED
      BY <1>1, <2>1, <3>2, <3>3 DEF LimiterTypeOK
  <2>5. CASE ~Exhausted(Recent(k))
    <3>1. Cardinality(Recent(k) \cup {hit}) <= Limit
      BY <2>3, <2>5, FS_AddElement, LimiterAssumption DEF Exhausted
    <3>2. hits'[k] \subseteq Hit /\ admitted'[k] \subseteq Hit /\ Cardinality(hits'[k]) <= Limit
      BY <1>1, <2>2, <2>3, <2>5, <3>1 DEF LimiterTypeOK
    <3>3. told'[k] \in {NeverTold} \cup Nat
      BY <2>2, <2>5
    <3> QED
      BY <1>1, <2>1, <3>2, <3>3 DEF LimiterTypeOK
  <2> QED
    BY <2>4, <2>5
<1> QED
  BY <1>2, <1>3 DEF LimiterNext

\* What the invariant says of one key.
KeyInv(k) ==
  /\ IsFiniteSet(admitted[k])
  /\ \A a, b \in admitted[k] :
       a.at <= clock /\ a.no <= calls[k] /\ (a.no <= b.no => a.at <= b.at)
  /\ hits[k] \subseteq admitted[k]
  /\ \A a \in admitted[k] : a.at > clock - Window => a \in hits[k]
  /\ told[k] # NeverTold =>
       /\ Cardinality(hits[k]) = Limit
       /\ \E h \in hits[k] : told[k] = h.at + Window /\ \A g \in hits[k] : h.at <= g.at
  /\ \A t \in Clock : Cardinality(InWindow(k, t)) <= Limit

LEMMA KeysInv ==
  LimiterInv <=> LimiterTypeOK /\ \A k \in LimitKey : KeyInv(k)
BY DEF LimiterInv, KeyInv, HitsAreInOrder, HitsAreRemembered, RefusalsAreTold, NoWindowOverrun

LEMMA ConsumeKept ==
  ASSUME LimiterInv, NEW k \in LimitKey, Consume(k)
  PROVE  KeyInv(k)'
<1>1. LimiterTypeOK /\ KeyInv(k)
  BY KeysInv
<1>2. UNCHANGED clock /\ calls'[k] = calls[k] + 1 /\ calls[k] \in Nat /\ clock \in Nat
  <2>1. calls' = [calls EXCEPT ![k] = calls[k] + 1] /\ UNCHANGED clock
    BY <1>1, ConsumeMoves
  <2> QED
    BY <1>1, <2>1, LimiterAssumption DEF LimiterTypeOK, Clock
<1>3. PICK hit \in Hit :
        /\ hit.no = calls[k] + 1 /\ hit.at = clock
        /\ Exhausted(Recent(k)) =>
             /\ hits'[k] = Recent(k) /\ admitted'[k] = admitted[k]
             /\ told'[k] = Oldest(Recent(k)).at + Window
        /\ ~Exhausted(Recent(k)) =>
             /\ hits'[k] = Recent(k) \cup {hit}
             /\ admitted'[k] = admitted[k] \cup {hit}
             /\ told'[k] = NeverTold
  BY <1>1, ConsumeMoves
<1>4. /\ IsFiniteSet(Recent(k)) /\ Recent(k) \subseteq hits[k] /\ hits[k] \subseteq admitted[k]
      /\ admitted[k] \subseteq Hit
      /\ Cardinality(Recent(k)) \in Nat /\ Cardinality(Recent(k)) <= Limit
  BY RecentIsFinite, LimiterAssumption
<1>5. \A a \in Hit : a.no \in Nat /\ a.at \in Nat
  BY LimiterAssumption DEF Hit, Clock
<1>6. \A a \in admitted[k] : a.at > clock - Window => a \in Recent(k)
  BY <1>1 DEF KeyInv, Recent
<1>7. IsFiniteSet(admitted[k]) /\ \A a, b \in admitted[k] :
        a.at <= clock /\ a.no <= calls[k] /\ (a.no <= b.no => a.at <= b.at)
  BY <1>1 DEF KeyInv
<1>8. CASE Exhausted(Recent(k))
  <2>1. Cardinality(Recent(k)) = Limit /\ Recent(k) # {}
    BY <1>4, <1>8, FS_EmptySet, LimiterAssumption DEF Exhausted
  <2>2. /\ Oldest(Recent(k)) \in Recent(k)
        /\ \A g \in Recent(k) : Oldest(Recent(k)).at <= g.at
    BY <1>4, <1>7, <2>1, OldestIs
  <2>3. \A a, b \in admitted'[k] :
          a.at <= clock' /\ a.no <= calls'[k] /\ (a.no <= b.no => a.at <= b.at)
    BY <1>2, <1>3, <1>4, <1>5, <1>7, <1>8
  <2>4. \A t \in Clock : InWindow(k, t)' = InWindow(k, t)
    BY <1>3, <1>8 DEF InWindow
  <2>5. \A t \in Clock : Cardinality(InWindow(k, t)') <= Limit
    BY <1>1, <2>4 DEF KeyInv
  <2>6. hits'[k] \subseteq admitted'[k] /\ \A a \in admitted'[k] : a.at > clock' - Window => a \in hits'[k]
    BY <1>2, <1>3, <1>4, <1>6, <1>8
  <2> QED
    BY <1>3, <1>7, <1>8, <2>1, <2>2, <2>3, <2>5, <2>6 DEF KeyInv
<1>9. CASE ~Exhausted(Recent(k))
  <2>1. \A a, b \in admitted'[k] :
          a.at <= clock' /\ a.no <= calls'[k] /\ (a.no <= b.no => a.at <= b.at)
    BY <1>2, <1>3, <1>4, <1>5, <1>7, <1>9
  <2>2. hits'[k] \subseteq admitted'[k] /\ \A a \in admitted'[k] : a.at > clock' - Window => a \in hits'[k]
    BY <1>2, <1>3, <1>4, <1>6, <1>9
  <2>3. IsFiniteSet(admitted'[k])
    BY <1>3, <1>7, <1>9, FS_AddElement
  <2>4. ASSUME NEW t \in Clock
        PROVE  Cardinality(InWindow(k, t)') <= Limit
    <3>1. CASE t <= clock /\ clock < t + Window
      <4>1. InWindow(k, t)' \subseteq Recent(k) \cup {hit}
        BY <1>2, <1>3, <1>4, <1>5, <1>6, <1>9, <3>1, LimiterAssumption DEF InWindow, Clock
      <4>2. IsFiniteSet(Recent(k) \cup {hit}) /\ Cardinality(Recent(k) \cup {hit}) <= Limit
        <5>1. Cardinality(Recent(k)) + 1 <= Limit
          BY <1>4, <1>9, LimiterAssumption DEF Exhausted
        <5>2. /\ IsFiniteSet(Recent(k) \cup {hit})
              /\ \/ Cardinality(Recent(k) \cup {hit}) = Cardinality(Recent(k))
                 \/ Cardinality(Recent(k) \cup {hit}) = Cardinality(Recent(k)) + 1
          BY <1>4, FS_AddElement, Zenon
        <5> QED
          BY <1>4, <5>1, <5>2, LimiterAssumption
      <4>3. /\ Cardinality(InWindow(k, t)') <= Cardinality(Recent(k) \cup {hit})
            /\ IsFiniteSet(InWindow(k, t)')
        BY <4>1, <4>2, FS_Subset
      <4> QED
        BY <4>2, <4>3, FS_CardinalityType, LimiterAssumption
    <3>2. CASE ~(t <= clock /\ clock < t + Window)
      <4>1. InWindow(k, t)' = InWindow(k, t)
        BY <1>3, <1>9, <3>2 DEF InWindow
      <4> QED
        BY <1>1, <4>1 DEF KeyInv
    <3> QED
      BY <3>1, <3>2
  <2> QED
    BY <1>3, <1>9, <2>1, <2>2, <2>3, <2>4 DEF KeyInv
<1> QED
  BY <1>8, <1>9

LEMMA LimiterStep ==
  ASSUME LimiterInv, [LimiterNext]_limiterVars
  PROVE  LimiterInv'
<1>1. LimiterTypeOK /\ \A k \in LimitKey : KeyInv(k)
  BY KeysInv
<1>2. CASE UNCHANGED limiterVars
  BY <1>1, <1>2 DEF limiterVars, LimiterTypeOK, KeyInv, InWindow, LimiterInv, HitsAreInOrder,
     HitsAreRemembered, RefusalsAreTold, NoWindowOverrun
<1>3. CASE LimiterNext
  <2>1. LimiterTypeOK'
    BY <1>3, LimiterTypesKept
  <2>2. ASSUME NEW j \in LimitKey
        PROVE  KeyInv(j)'
    <3>1. CASE ClockTicksOn
      <4>1. UNCHANGED <<hits, admitted, told, calls>> /\ clock' = clock + 1 /\ clock \in Nat
        BY <1>1, <3>1, LimiterAssumption DEF ClockTicksOn, LimiterTypeOK, Clock
      <4>2. \A a \in admitted[j] : a.at \in Nat
        BY <1>1, LimiterAssumption DEF LimiterTypeOK, Hit, Clock
      <4>3. \A a, b \in admitted'[j] :
              a.at <= clock' /\ a.no <= calls'[j] /\ (a.no <= b.no => a.at <= b.at)
        BY <1>1, <4>1, <4>2 DEF KeyInv
      <4>4. \A a \in admitted'[j] : a.at > clock' - Window => a \in hits'[j]
        BY <1>1, <4>1, <4>2, LimiterAssumption DEF KeyInv
      <4> QED
        BY <1>1, <4>1, <4>3, <4>4 DEF KeyInv, InWindow
    <3>2. ASSUME NEW k \in LimitKey, Consume(k)
          PROVE  KeyInv(j)'
      <4>1. CASE j = k
        BY <3>2, <4>1, ConsumeKept
      <4>2. CASE j # k
        <5>1. hits'[j] = hits[j] /\ admitted'[j] = admitted[j] /\ told'[j] = told[j]
          BY <1>1, <3>2, <4>2, ConsumeMoves
        <5>2. calls'[j] = calls[j] /\ UNCHANGED clock
          <6>1. calls' = [calls EXCEPT ![k] = calls[k] + 1] /\ UNCHANGED clock
            BY <1>1, <3>2, ConsumeMoves
          <6> QED
            BY <1>1, <4>2, <6>1 DEF LimiterTypeOK
        <5> QED
          BY <1>1, <5>1, <5>2 DEF KeyInv, InWindow
      <4> QED
        BY <4>1, <4>2
    <3> QED
      BY <1>3, <3>1, <3>2 DEF LimiterNext
  <2> QED
    BY <2>1, <2>2 DEF LimiterInv, KeyInv, HitsAreInOrder, HitsAreRemembered, RefusalsAreTold,
       NoWindowOverrun
<1> QED
  BY <1>2, <1>3

LEMMA LimiterStarts ==
  LimiterInit => LimiterInv
<1> SUFFICES ASSUME LimiterInit PROVE LimiterInv
  OBVIOUS
<1>1. LimiterTypeOK
  BY FS_EmptySet, LimiterAssumption DEF LimiterInit, LimiterTypeOK, Clock
<1>2. ASSUME NEW k \in LimitKey
      PROVE  KeyInv(k)
  <2>1. hits[k] = {} /\ admitted[k] = {} /\ told[k] = NeverTold
    BY DEF LimiterInit
  <2>2. \A t \in Clock : InWindow(k, t) = {}
    BY <2>1 DEF InWindow
  <2> QED
    BY <2>1, <2>2, FS_EmptySet, LimiterAssumption DEF KeyInv
<1> QED
  BY <1>1, <1>2, KeysInv

\* What a key remembers is what was admitted in the window that ends
\* now, in the order of the calls. (rate-limiter.ts:26-40)
THEOREM LimiterInvariance ==
  LimiterSpec => []LimiterInv
BY LimiterStarts, LimiterStep, PTL DEF LimiterSpec

\* What was promised to a refused call is kept when it comes again.
LEMMA PromiseIsKept ==
  ASSUME LimiterInv, NEW k \in LimitKey, Consume(k), told[k] # NeverTold
  PROVE  admitted'[k] # admitted[k] <=> clock >= told[k]
<1>1. LimiterTypeOK /\ KeyInv(k)
  BY KeysInv
<1>2. PICK hit \in Hit :
        /\ hit.no = calls[k] + 1
        /\ Exhausted(Recent(k)) => admitted'[k] = admitted[k]
        /\ ~Exhausted(Recent(k)) => admitted'[k] = admitted[k] \cup {hit}
  BY <1>1, ConsumeMoves
<1>3. hit \notin admitted[k]
  <2>1. calls[k] \in Nat /\ \A a \in admitted[k] : a.no <= calls[k]
    BY <1>1 DEF KeyInv, LimiterTypeOK
  <2> QED
    BY <1>2, <2>1
<1>4. admitted'[k] # admitted[k] <=> ~Exhausted(Recent(k))
  BY <1>2, <1>3
<1>5. PICK h \in hits[k] : told[k] = h.at + Window /\ \A g \in hits[k] : h.at <= g.at
  BY <1>1 DEF KeyInv
<1>6. /\ Cardinality(hits[k]) = Limit /\ Recent(k) \subseteq hits[k]
      /\ Cardinality(Recent(k)) \in Nat /\ Cardinality(Recent(k)) <= Limit
      /\ Cardinality(Recent(k)) = Limit => Recent(k) = hits[k]
  BY <1>1, RecentIsFinite DEF KeyInv
<1>7. clock \in Nat /\ \A g \in hits[k] : g.at \in Nat
  BY <1>1, LimiterAssumption DEF LimiterTypeOK, Hit, Clock
<1>8. CASE clock >= told[k]
  <2>1. h \notin Recent(k)
    BY <1>5, <1>7, <1>8, LimiterAssumption DEF Recent
  <2> QED
    BY <1>4, <1>6, <1>8, <2>1, LimiterAssumption DEF Exhausted
<1>9. CASE ~(clock >= told[k])
  <2>1. \A g \in hits[k] : g \in Recent(k)
    BY <1>5, <1>7, <1>9, LimiterAssumption DEF Recent
  <2>2. Recent(k) = hits[k]
    BY <1>6, <2>1
  <2> QED
    BY <1>4, <1>6, <1>9, <2>2, LimiterAssumption DEF Exhausted
<1> QED
  BY <1>8, <1>9

\* Wherever a window is laid over the calls it holds as many admitted
\* ones as are allowed, and a refused call is admitted after the wait it was
\* told, and not before, for any limit, window and number of keys.
\* (rate-limiter.ts:26-40)
THEOREM TheLimitIsExact ==
  LimiterSpec => LimitIsExact
<1>1. LimiterInv => NoWindowOverrun
  BY DEF LimiterInv
<1>2. ASSUME LimiterInv, [LimiterNext]_limiterVars
      PROVE  [\A k \in LimitKey :
                calls'[k] > calls[k] /\ told[k] # NeverTold =>
                  (admitted'[k] # admitted[k] <=> clock >= told[k])]_limiterVars
  <2> SUFFICES ASSUME LimiterNext, NEW k \in LimitKey, calls'[k] > calls[k], told[k] # NeverTold
               PROVE  admitted'[k] # admitted[k] <=> clock >= told[k]
    BY <1>2
  <2>1. LimiterTypeOK /\ calls[k] \in Nat
    BY <1>2 DEF LimiterInv, LimiterTypeOK
  <2>2. ~ClockTicksOn
    BY <2>1 DEF ClockTicksOn
  <2>3. PICK j \in LimitKey : Consume(j)
    BY <2>2 DEF LimiterNext
  <2>4. j = k
    <3>1. calls' = [calls EXCEPT ![j] = calls[j] + 1]
      BY <2>1, <2>3, ConsumeMoves
    <3> QED
      BY <2>1, <3>1 DEF LimiterTypeOK
  <2> QED
    BY <1>2, <2>3, <2>4, PromiseIsKept
<1> QED
  BY <1>1, <1>2, LimiterInvariance, PTL DEF LimiterSpec, LimitIsExact, WaitIsExact

\* The types of the limiter's state; no key remembers more calls than
\* are allowed. (rate-limiter.ts:26-40)
THEOREM LimiterTypeCorrect ==
  LimiterSpec => []LimiterTypeOK
<1>1. LimiterInv => LimiterTypeOK
  BY DEF LimiterInv
<1> QED
  BY <1>1, LimiterInvariance, PTL

----------------------------------------------------------------------------
(* Clients.                                                                 *)

IsClient(c) == c \in Id /\ client[c] # NoClient
Table == {c \in Id : IsClient(c)}

\* The order of the list is total.
LEMMA BeforeOrders ==
  ASSUME ClientsTypeOK
  PROVE  /\ \A c, d \in Table : Before(c, d) \/ Before(d, c) \/ c = d
         /\ \A c, d \in Table : ~(Before(c, d) /\ Before(d, c)) /\ ~Before(c, c)
         /\ \A c, d, e \in Table : Before(c, d) /\ Before(d, e) => Before(c, e)
<1>1. \A c \in Table : c \in Nat /\ client[c].at \in Nat
  BY ClientsAssumption DEF Table, IsClient, ClientsTypeOK, ClientRow
<1> QED
  BY <1>1 DEF Before

LEMMA AheadIsFewer ==
  ASSUME ClientsTypeOK, NEW S, S \subseteq Table, IsFiniteSet(S), NEW c \in S
  PROVE  /\ IsFiniteSet(Ahead(S, c)) /\ Cardinality(Ahead(S, c)) \in Nat
         /\ Cardinality(Ahead(S, c)) < Cardinality(S)
         /\ \A d \in S : Before(d, c) =>
              Cardinality(Ahead(S, d)) < Cardinality(Ahead(S, c))
<1>1. Ahead(S, c) \subseteq S /\ c \notin Ahead(S, c)
  BY BeforeOrders DEF Ahead
<1>2. IsFiniteSet(Ahead(S, c)) /\ Cardinality(Ahead(S, c)) \in Nat /\ Cardinality(S) \in Nat
  BY <1>1, FS_Subset, FS_CardinalityType
<1>3. Cardinality(Ahead(S, c)) < Cardinality(S)
  <2>1. Cardinality(Ahead(S, c)) <= Cardinality(S) /\ Cardinality(S) # Cardinality(Ahead(S, c))
    BY <1>1, FS_Subset
  <2> QED
    BY <1>2, <2>1
<1>4. ASSUME NEW d \in S, Before(d, c)
      PROVE  Cardinality(Ahead(S, d)) < Cardinality(Ahead(S, c))
  <2>1. Ahead(S, d) \subseteq Ahead(S, c) /\ d \in Ahead(S, c) /\ d \notin Ahead(S, d)
    BY <1>4, BeforeOrders DEF Ahead
  <2>2. /\ Cardinality(Ahead(S, d)) <= Cardinality(Ahead(S, c))
        /\ Cardinality(Ahead(S, c)) # Cardinality(Ahead(S, d))
        /\ IsFiniteSet(Ahead(S, d))
    BY <1>2, <2>1, FS_Subset
  <2>3. Cardinality(Ahead(S, d)) \in Nat
    BY <2>2, FS_CardinalityType
  <2> QED
    BY <1>2, <2>2, <2>3
<1> QED
  BY <1>2, <1>3, <1>4

\* Some clients have a first and a last among them.
LEMMA FirstExists ==
  ASSUME ClientsTypeOK, NEW S, S \subseteq Table, IsFiniteSet(S), S # {}
  PROVE  \E c \in S : \A d \in S : d = c \/ Before(c, d)
<1> DEFINE T == {Cardinality(Ahead(S, c)) : c \in S}
<1>1. T \subseteq Nat /\ T # {}
  BY AheadIsFewer
<1>2. PICK x \in T : \A y \in T : x <= y
  BY <1>1, LeastNumber
<1>3. PICK c \in S : \A d \in S : Cardinality(Ahead(S, c)) <= Cardinality(Ahead(S, d))
  BY <1>2
<1>4. ASSUME NEW d \in S
      PROVE  ~Before(d, c)
  <2>1. /\ Cardinality(Ahead(S, d)) \in Nat /\ Cardinality(Ahead(S, c)) \in Nat
        /\ Before(d, c) => Cardinality(Ahead(S, d)) < Cardinality(Ahead(S, c))
    BY AheadIsFewer
  <2> QED
    BY <1>3, <2>1
<1> QED
  BY <1>4, BeforeOrders

LEMMA LastExists ==
  ASSUME ClientsTypeOK, NEW S, S \subseteq Table, IsFiniteSet(S), S # {}
  PROVE  LastItem(S) \in S /\ \A d \in S : d = LastItem(S) \/ Before(d, LastItem(S))
<1> DEFINE Behind(c) == Cardinality(S) - Cardinality(Ahead(S, c))
           T == {Behind(c) : c \in S}
<1>1. \A c \in S : /\ Cardinality(Ahead(S, c)) \in Nat /\ Cardinality(S) \in Nat
                   /\ Cardinality(Ahead(S, c)) < Cardinality(S)
  BY AheadIsFewer, FS_CardinalityType
<1>2. T \subseteq Nat /\ T # {}
  BY <1>1
<1>3. PICK x \in T : \A y \in T : x <= y
  BY <1>2, LeastNumber
<1>4. PICK c \in S : \A d \in S : Behind(c) <= Behind(d)
  BY <1>3
<1>5. ASSUME NEW d \in S
      PROVE  ~Before(c, d)
  <2>1. Before(c, d) => Cardinality(Ahead(S, c)) < Cardinality(Ahead(S, d))
    BY AheadIsFewer
  <2>2. Behind(c) <= Behind(d)
    BY <1>4
  <2> QED
    BY <1>1, <2>1, <2>2
<1>6. \A d \in S : d = c \/ Before(d, c)
  BY <1>5, BeforeOrders
<1> QED
  BY <1>6 DEF LastItem

\* The foremost of some clients are before the others; if they are fewer than
\* asked for, there are no others.
LEMMA ForemostAre ==
  ASSUME ClientsTypeOK, NEW S, S \subseteq Table, IsFiniteSet(S), NEW n \in Nat
  PROVE  /\ Foremost(S, n) \subseteq S /\ IsFiniteSet(Foremost(S, n))
         /\ \A c \in Foremost(S, n), d \in S : Before(d, c) => d \in Foremost(S, n)
         /\ Cardinality(S) <= n => Foremost(S, n) = S
         /\ n > 0 /\ S # {} => Foremost(S, n) # {}
         /\ Cardinality(Foremost(S, n)) < n => Foremost(S, n) = S
<1>1. Foremost(S, n) \subseteq S
  BY DEF Foremost
<1>2. IsFiniteSet(Foremost(S, n)) /\ Cardinality(S) \in Nat
  BY <1>1, FS_Subset, FS_CardinalityType
<1>3. ASSUME NEW c \in Foremost(S, n), NEW d \in S, Before(d, c)
      PROVE  d \in Foremost(S, n)
  <2>1. /\ Cardinality(Ahead(S, d)) \in Nat /\ Cardinality(Ahead(S, c)) \in Nat
        /\ Cardinality(Ahead(S, d)) < Cardinality(Ahead(S, c))
    BY <1>1, <1>3, AheadIsFewer
  <2> QED
    BY <1>3, <2>1 DEF Foremost
<1>4. ASSUME Cardinality(S) <= n
      PROVE  Foremost(S, n) = S
  <2>1. \A c \in S : Cardinality(Ahead(S, c)) \in Nat /\ Cardinality(Ahead(S, c)) < Cardinality(S)
    BY AheadIsFewer
  <2>2. \A c \in S : Cardinality(Ahead(S, c)) < n
    BY <1>2, <1>4, <2>1
  <2> QED
    BY <2>2 DEF Foremost
<1>5. ASSUME n > 0, S # {}
      PROVE  Foremost(S, n) # {}
  <2>1. PICK c \in S : \A d \in S : d = c \/ Before(c, d)
    BY <1>5, FirstExists
  <2>2. Ahead(S, c) = {}
    BY <2>1, BeforeOrders DEF Ahead
  <2> QED
    BY <1>5, <2>2, FS_EmptySet DEF Foremost
<1>6. ASSUME Cardinality(Foremost(S, n)) < n, Foremost(S, n) # S
      PROVE  FALSE
  <2> DEFINE Rest == S \ Foremost(S, n)
  <2>1. Rest # {} /\ Rest \subseteq S /\ Rest \subseteq Table
    BY <1>1, <1>6
  <2>2. IsFiniteSet(Rest)
    BY <2>1, FS_Subset
  <2>3. PICK c \in Rest : \A d \in Rest : d = c \/ Before(c, d)
    BY <2>1, <2>2, FirstExists
  <2>4. Ahead(S, c) \subseteq Foremost(S, n)
    BY <2>3, BeforeOrders DEF Ahead
  <2>5. Cardinality(Ahead(S, c)) <= Cardinality(Foremost(S, n))
    BY <1>2, <2>4, FS_Subset
  <2>6. Cardinality(Ahead(S, c)) \in Nat /\ Cardinality(Foremost(S, n)) \in Nat
    BY <1>2, AheadIsFewer, FS_CardinalityType
  <2>7. Cardinality(Ahead(S, c)) < n
    BY <1>6, <2>5, <2>6
  <2> QED
    BY <2>7 DEF Foremost
<1> QED
  BY <1>1, <1>2, <1>3, <1>4, <1>5, <1>6

----------------------------------------------------------------------------
(* A page.                                                                  *)

LEMMA ListTypes ==
  ASSUME ClientsTypeOK, NEW r \in Lister, list[r] # IdleList
  PROVE  /\ list[r] \in Listing
         /\ list[r].cursor \in Id \cup {-1} /\ list[r].house \in House
         /\ list[r].shown \in [Id -> Nat] /\ list[r].present \subseteq Id
         /\ list[r].state \in {"more", "end"}
<1>1. list[r] \in Listing
  BY DEF ClientsTypeOK
<1> QED
  BY <1>1 DEF Listing

LEMMA HousesAre ==
  ASSUME ClientsInv, NEW h
  PROVE  ClientsOfHouse(h) \subseteq Table /\ IsFiniteSet(ClientsOfHouse(h))
<1>1. Table = {c \in Id : client[c] # NoClient}
  BY DEF Table, IsClient
<1>2. ClientsOfHouse(h) \subseteq Table
  BY DEF ClientsOfHouse, Table, IsClient
<1> QED
  BY <1>1, <1>2, FS_Subset DEF ClientsInv

\* What a reader is shown next.
Rest(r) == AfterCursor(ClientsOfHouse(list[r].house), list[r].cursor, list[r].shown)
NextFetched(r) == Foremost(Rest(r), PageSize + 1)
NextItems(r) == Foremost(NextFetched(r), PageSize)
HasMore(r) == Cardinality(NextFetched(r)) > PageSize

LEMMA PageIs ==
  ASSUME ClientsInv, NEW r \in Lister
  PROVE  /\ Rest(r) \subseteq ClientsOfHouse(list[r].house)
         /\ NextItems(r) \subseteq Rest(r)
         /\ \A c \in NextItems(r), d \in Rest(r) : Before(d, c) => d \in NextItems(r)
         /\ HasMore(r) => /\ LastItem(NextItems(r)) \in NextItems(r)
                          /\ \A d \in NextItems(r) :
                               d = LastItem(NextItems(r)) \/ Before(d, LastItem(NextItems(r)))
         /\ ~HasMore(r) => NextItems(r) = Rest(r)
<1>1. ClientsTypeOK /\ PageSize \in Nat /\ PageSize > 0
  BY ClientsAssumption DEF ClientsInv
<1>2. Rest(r) \subseteq ClientsOfHouse(list[r].house)
  BY DEF Rest, AfterCursor
<1>3. Rest(r) \subseteq Table /\ IsFiniteSet(Rest(r))
  BY <1>2, HousesAre, FS_Subset
<1>4. /\ NextFetched(r) \subseteq Rest(r) /\ IsFiniteSet(NextFetched(r))
      /\ \A c \in NextFetched(r), d \in Rest(r) : Before(d, c) => d \in NextFetched(r)
      /\ Cardinality(NextFetched(r)) < PageSize + 1 => NextFetched(r) = Rest(r)
  <2>1. PageSize + 1 \in Nat
    BY <1>1
  <2> QED
    BY <1>1, <1>3, <2>1, ForemostAre DEF NextFetched
<1>5. NextFetched(r) \subseteq Table /\ Cardinality(NextFetched(r)) \in Nat
  BY <1>3, <1>4, FS_CardinalityType
<1>6. /\ NextItems(r) \subseteq NextFetched(r) /\ IsFiniteSet(NextItems(r))
      /\ \A c \in NextItems(r), d \in NextFetched(r) : Before(d, c) => d \in NextItems(r)
      /\ Cardinality(NextFetched(r)) <= PageSize => NextItems(r) = NextFetched(r)
      /\ NextFetched(r) # {} => NextItems(r) # {}
  BY <1>1, <1>4, <1>5, ForemostAre DEF NextItems
<1>7. ASSUME HasMore(r)
      PROVE  /\ LastItem(NextItems(r)) \in NextItems(r)
             /\ \A d \in NextItems(r) :
                  d = LastItem(NextItems(r)) \/ Before(d, LastItem(NextItems(r)))
  <2>1. NextFetched(r) # {}
    BY <1>1, <1>7, FS_EmptySet DEF HasMore
  <2>2. NextItems(r) # {} /\ NextItems(r) \subseteq Table
    BY <1>5, <1>6, <2>1
  <2> QED
    BY <1>1, <1>6, <2>2, LastExists
<1>8. ASSUME ~HasMore(r)
      PROVE  NextItems(r) = Rest(r)
  BY <1>1, <1>4, <1>5, <1>6, <1>8 DEF HasMore
<1> QED
  BY <1>2, <1>4, <1>6, <1>7, <1>8

LEMMA PageMoves ==
  ASSUME ClientsInv, NEW r \in Lister, NextPage(r)
  PROVE  /\ list[r] # IdleList /\ list[r].state = "more" /\ UNCHANGED <<day, client>>
         /\ list' = [list EXCEPT ![r] = list'[r]]
         /\ list'[r] \in Listing
         /\ list'[r].house = list[r].house /\ list'[r].present = list[r].present
         /\ list'[r].shown = [c \in Id |-> IF c \in NextItems(r) THEN list[r].shown[c] + 1
                                           ELSE list[r].shown[c]]
         /\ list'[r].state = IF HasMore(r) THEN "more" ELSE "end"
         /\ list'[r].cursor = IF HasMore(r) THEN LastItem(NextItems(r)) ELSE list[r].cursor
<1>1. ClientsTypeOK
  BY DEF ClientsInv
<1>2. list[r].state = "more" /\ UNCHANGED <<day, client>>
  BY DEF NextPage
<1>3. list[r] # IdleList
  BY <1>2 DEF IdleList
<1>4. PICK shown : shown = [c \in Id |-> IF c \in NextItems(r) THEN list[r].shown[c] + 1
                                         ELSE list[r].shown[c]]
  OBVIOUS
<1>5. PICK state : state = IF HasMore(r) THEN "more" ELSE "end"
  OBVIOUS
<1>6. PICK cursor : cursor = IF HasMore(r) THEN LastItem(NextItems(r)) ELSE list[r].cursor
  OBVIOUS
<1>7. list' = [list EXCEPT ![r].shown = shown, ![r].state = state, ![r].cursor = cursor]
  BY <1>4, <1>5, <1>6 DEF NextPage, Fetched, Items, NextCursor, NextItems, NextFetched, Rest, HasMore
<1>8. PICK l : l = [list[r] EXCEPT !.shown = shown, !.state = state, !.cursor = cursor]
  OBVIOUS
<1>9. list' = [list EXCEPT ![r] = l]
  BY <1>1, <1>7, <1>8 DEF ClientsTypeOK
<1>10. list'[r] = l
  BY <1>1, <1>9 DEF ClientsTypeOK
<1>11. shown \in [Id -> Nat]
  BY <1>1, <1>3, <1>4, ListTypes
<1>12. cursor \in Id \cup {-1}
  <2>1. HasMore(r) => LastItem(NextItems(r)) \in Id
    BY PageIs DEF ClientsOfHouse
  <2> QED
    BY <1>1, <1>3, <1>6, <2>1, ListTypes
<1>13. /\ l \in Listing /\ l.shown = shown /\ l.state = state /\ l.cursor = cursor
       /\ l.house = list[r].house /\ l.present = list[r].present
  <2>1. list[r] \in Listing
    BY <1>1, <1>3, ListTypes
  <2>2. state \in {"more", "end"}
    BY <1>5
  <2> QED
    BY <1>8, <1>11, <1>12, <2>1, <2>2 DEF Listing
<1> QED
  BY <1>2, <1>3, <1>4, <1>5, <1>6, <1>9, <1>10, <1>13

LEMMA PageKept ==
  ASSUME ClientsInv, NEW r \in Lister, NextPage(r)
  PROVE  CursorParts(r)'
<1>1. ClientsTypeOK /\ CursorParts(r)
  BY DEF ClientsInv
<1> DEFINE h == list[r].house
           cursor == list[r].cursor
           shown == list[r].shown
<1>2. /\ list[r] # IdleList /\ list[r].state = "more" /\ UNCHANGED client
      /\ list'[r].house = h /\ list'[r].present = list[r].present
      /\ list'[r].state = IF HasMore(r) THEN "more" ELSE "end"
      /\ list'[r].cursor = IF HasMore(r) THEN LastItem(NextItems(r)) ELSE cursor
  BY PageMoves
<1>3. \A c \in Id : list'[r].shown[c] = IF c \in NextItems(r) THEN shown[c] + 1 ELSE shown[c]
  <2>1. list'[r].shown = [c \in Id |-> IF c \in NextItems(r) THEN shown[c] + 1 ELSE shown[c]]
    BY PageMoves
  <2> QED
    BY <2>1
<1>4. ClientsOfHouse(h) \subseteq Table /\ ClientsOfHouse(h)' = ClientsOfHouse(h)
  BY <1>2, HousesAre DEF ClientsOfHouse
<1>5. /\ shown \in [Id -> Nat] /\ cursor \in Id \cup {-1} /\ -1 \notin Id
  BY <1>1, <1>2, ListTypes, ClientsAssumption
<1>6. /\ list[r].present \subseteq ClientsOfHouse(h)
      /\ cursor # -1 => cursor \in ClientsOfHouse(h)
      /\ \A c \in Id : shown[c] <= 1
      /\ \A c \in Id : shown[c] = 1 => cursor # -1 /\ c \in Table /\ ~Before(cursor, c)
      /\ \A c \in list[r].present : shown[c] = 1 \/ cursor = -1 \/ Before(cursor, c)
  BY <1>1, <1>2 DEF CursorParts, Table, IsClient
<1>7. \A c \in ClientsOfHouse(h) : c \in Rest(r) <=> cursor = -1 \/ Before(cursor, c)
  BY DEF Rest, AfterCursor
<1>8. /\ Rest(r) \subseteq ClientsOfHouse(h)
      /\ NextItems(r) \subseteq Rest(r)
      /\ \A c \in NextItems(r), d \in Rest(r) : Before(d, c) => d \in NextItems(r)
  BY PageIs
<1>9. \A c \in Id : shown[c] = 1 => c \notin NextItems(r)
  BY <1>6, <1>7, <1>8
<1>10. \A c \in Id : list'[r].shown[c] <= 1 /\ (list'[r].shown[c] = 1 <=> shown[c] = 1 \/ c \in NextItems(r))
  <2> SUFFICES ASSUME NEW c \in Id
               PROVE  list'[r].shown[c] <= 1 /\ (list'[r].shown[c] = 1 <=> shown[c] = 1 \/ c \in NextItems(r))
    OBVIOUS
  <2>1. shown[c] \in Nat /\ shown[c] <= 1 /\ (shown[c] = 1 => c \notin NextItems(r))
    BY <1>5, <1>6, <1>9
  <2> QED
    BY <1>3, <2>1
<1>11. CASE HasMore(r)
  <2>1. PICK m \in NextItems(r) : /\ m = list'[r].cursor
                                  /\ \A d \in NextItems(r) : d = m \/ Before(d, m)
    BY <1>2, <1>11, PageIs
  <2>2. m \in ClientsOfHouse(h) /\ m \in Table /\ m # -1 /\ (cursor # -1 => Before(cursor, m))
    BY <1>4, <1>5, <1>7, <1>8, <2>1 DEF Table, IsClient
  <2>3. ASSUME NEW c \in Id, list'[r].shown[c] = 1
        PROVE  c \in Table /\ ~Before(m, c)
    <3>1. CASE c \in NextItems(r)
      BY <1>1, <1>4, <1>8, <2>1, <2>2, <3>1, BeforeOrders
    <3>2. CASE shown[c] = 1
      <4>1. cursor # -1 /\ cursor \in Table /\ c \in Table /\ ~Before(cursor, c)
        BY <1>4, <1>6, <3>2
      <4>2. Before(cursor, m)
        BY <2>2, <4>1
      <4> QED
        BY <1>1, <2>2, <4>1, <4>2, BeforeOrders
    <3> QED
      BY <1>10, <2>3, <3>1, <3>2
  <2>4. ASSUME NEW c \in list[r].present
        PROVE  list'[r].shown[c] = 1 \/ Before(m, c)
    <3>1. c \in ClientsOfHouse(h) /\ c \in Table /\ c \in Id
      BY <1>4, <1>6 DEF Table, IsClient
    <3>2. CASE shown[c] = 1 \/ c \in NextItems(r)
      BY <1>10, <3>1, <3>2
    <3>3. CASE ~(shown[c] = 1 \/ c \in NextItems(r))
      <4>1. c \in Rest(r)
        BY <1>6, <1>7, <3>1, <3>3
      <4>2. ~Before(c, m) /\ c # m
        BY <1>8, <2>1, <3>3, <4>1
      <4> QED
        BY <1>1, <2>2, <3>1, <4>2, BeforeOrders
    <3> QED
      BY <3>2, <3>3
  <2>5. \A c \in Id : list'[r].shown[c] = 1 =>
          list'[r].cursor # -1 /\ client'[c] # NoClient /\ ~Before(list[r].cursor, c)'
    BY <1>2, <2>1, <2>2, <2>3 DEF Before, Table, IsClient
  <2>6. \A c \in list'[r].present : list'[r].shown[c] = 1 \/ Before(list[r].cursor, c)'
    BY <1>2, <2>1, <2>4 DEF Before
  <2> QED
    BY <1>2, <1>4, <1>6, <1>10, <1>11, <2>1, <2>2, <2>5, <2>6 DEF CursorParts
<1>12. CASE ~HasMore(r)
  <2>1. NextItems(r) = Rest(r)
    BY <1>12, PageIs
  <2>2. \A c \in list[r].present : list'[r].shown[c] = 1
    BY <1>4, <1>6, <1>7, <1>10, <2>1 DEF Table, IsClient
  <2> QED
    BY <1>2, <1>4, <1>6, <1>10, <1>12, <2>2 DEF CursorParts
<1> QED
  BY <1>11, <1>12

----------------------------------------------------------------------------
(* The list.                                                                *)

\* Whatever else happens to the table, a reader's past stays as it was.
LEMMA ListStays ==
  ASSUME ClientsTypeOK, NEW r \in Lister, CursorParts(r), list'[r] = list[r],
         \A c \in Id : client[c] # NoClient => client'[c] = client[c]
  PROVE  CursorParts(r)'
<1> SUFFICES ASSUME list[r] # IdleList PROVE CursorParts(r)'
  BY DEF CursorParts
<1>1. ClientsOfHouse(list[r].house) \subseteq ClientsOfHouse(list[r].house)'
  BY DEF ClientsOfHouse
<1>2. \A c, d \in Id : client[c] # NoClient /\ client[d] # NoClient => (Before(c, d)' <=> Before(c, d))
  BY DEF Before
<1>3. list[r].cursor # -1 => list[r].cursor \in Id /\ client[list[r].cursor] # NoClient
  BY DEF CursorParts, ClientsOfHouse
<1>4. \A c \in list[r].present : c \in Id /\ client[c] # NoClient
  BY DEF CursorParts, ClientsOfHouse
<1>5. list[r].state = "more" => \A c \in Id : list[r].shown[c] = 1 =>
        list'[r].cursor # -1 /\ client'[c] # NoClient /\ ~Before(list[r].cursor, c)'
  BY <1>2, <1>3 DEF CursorParts, Before
<1>6. list[r].state = "more" => \A c \in list[r].present :
        list[r].shown[c] = 1 \/ list[r].cursor = -1 \/ Before(list[r].cursor, c)'
  BY <1>2, <1>3, <1>4 DEF CursorParts, Before
<1> QED
  BY <1>1, <1>5, <1>6 DEF CursorParts

LEMMA OpenKept ==
  ASSUME ClientsInv, NEW r \in Lister, NEW h \in House, OpenList(r, h)
  PROVE  ClientsTypeOK' /\ CursorParts(r)' /\ UNCHANGED client
         /\ \A q \in Lister : q # r => list'[q] = list[q]
<1>1. ClientsTypeOK
  BY DEF ClientsInv
<1>2. PICK shown : shown = [c \in Id |-> 0]
  OBVIOUS
<1>3. PICK l : l = [state |-> "more", house |-> h, cursor |-> -1, shown |-> shown,
                    present |-> ClientsOfHouse(h)]
  OBVIOUS
<1>4. list' = [list EXCEPT ![r] = l] /\ UNCHANGED <<day, client>>
  BY <1>2, <1>3 DEF OpenList
<1>5. shown \in [Id -> Nat] /\ \A c \in Id : shown[c] = 0
  BY <1>2
<1>6. /\ l \in Listing /\ l # IdleList
      /\ l.house = h /\ l.cursor = -1 /\ l.shown = shown /\ l.present = ClientsOfHouse(h)
      /\ l.state = "more"
  BY <1>3, <1>5 DEF Listing, ClientsOfHouse, IdleList
<1>7. list'[r] = l /\ \A q \in Lister : q # r => list'[q] = list[q]
  BY <1>1, <1>4 DEF ClientsTypeOK
<1>8. ClientsTypeOK'
  BY <1>1, <1>4, <1>6 DEF ClientsTypeOK
<1>9. ClientsOfHouse(h)' = ClientsOfHouse(h)
  BY <1>4 DEF ClientsOfHouse
<1>10. CursorParts(r)'
  BY <1>5, <1>6, <1>7, <1>9 DEF CursorParts
<1> QED
  BY <1>4, <1>7, <1>8, <1>10

LEMMA ClientsStep ==
  ASSUME ClientsInv, ClientsNext
  PROVE  ClientsInv'
<1>1. /\ ClientsTypeOK /\ \A r \in Lister : CursorParts(r)
      /\ IsFiniteSet({c \in Id : client[c] # NoClient})
  BY DEF ClientsInv
<1>2. CASE DayPasses
  <2>1. UNCHANGED <<client, list>> /\ ClientsTypeOK'
    BY <1>1, <1>2, ClientsAssumption DEF DayPasses, ClientsTypeOK
  <2>2. \A r \in Lister : CursorParts(r)'
    BY <1>1, <2>1, ListStays
  <2> QED
    BY <1>1, <2>1, <2>2 DEF ClientsInv
<1>3. ASSUME NEW h \in House, NEW c \in Id, NEW at \in {day - 1, day} \cap 0 .. LastDay,
             CreateClient(h, c, at)
      PROVE  ClientsInv'
  <2>1. PICK row : row = [house |-> h, at |-> at]
    OBVIOUS
  <2>2. row \in ClientRow
    BY <2>1 DEF ClientRow
  <2>3. client' = [client EXCEPT ![c] = row] /\ client[c] = NoClient /\ UNCHANGED <<day, list>>
    BY <1>3, <2>1 DEF CreateClient
  <2>4. ClientsTypeOK' /\ \A d \in Id : d # c => client'[d] = client[d]
    BY <1>1, <2>2, <2>3 DEF ClientsTypeOK
  <2>5. \A r \in Lister : CursorParts(r)'
    BY <1>1, <2>3, <2>4, ListStays
  <2>6. IsFiniteSet({d \in Id : client'[d] # NoClient})
    <3>1. IsFiniteSet({d \in Id : client[d] # NoClient} \cup {c})
      BY <1>1, FS_AddElement
    <3>2. {d \in Id : client'[d] # NoClient} \subseteq {d \in Id : client[d] # NoClient} \cup {c}
      BY <2>4
    <3> QED
      BY <3>1, <3>2, FS_Subset
  <2> QED
    BY <2>4, <2>5, <2>6 DEF ClientsInv
<1>4. ASSUME NEW r \in Lister, NEW h \in House, OpenList(r, h)
      PROVE  ClientsInv'
  <2>1. /\ ClientsTypeOK' /\ CursorParts(r)' /\ UNCHANGED client
        /\ \A q \in Lister : q # r => list'[q] = list[q]
    BY <1>4, OpenKept
  <2>2. \A q \in Lister : CursorParts(q)'
    BY <1>1, <2>1, ListStays
  <2> QED
    BY <1>1, <2>1, <2>2 DEF ClientsInv
<1>5. ASSUME NEW r \in Lister, NextPage(r)
      PROVE  ClientsInv'
  <2>1. /\ UNCHANGED <<day, client>> /\ list' = [list EXCEPT ![r] = list'[r]]
        /\ list'[r] \in Listing
    BY <1>5, PageMoves
  <2>2. \A q \in Lister : q # r => list'[q] = list[q]
    BY <1>1, <2>1 DEF ClientsTypeOK
  <2>3. ClientsTypeOK'
    BY <1>1, <2>1 DEF ClientsTypeOK
  <2>4. \A q \in Lister : CursorParts(q)'
    BY <1>1, <1>5, <2>1, <2>2, PageKept, ListStays
  <2> QED
    BY <1>1, <2>1, <2>3, <2>4 DEF ClientsInv
<1> QED
  BY <1>2, <1>3, <1>4, <1>5 DEF ClientsNext

\* Who reads the list while clients are created goes on where the cursor
\* parts what was shown from what is to come. (pagination.ts:32-66)
THEOREM ClientsInvariance ==
  ClientsSpec => []ClientsInv
<1>1. ClientsInit => ClientsInv
  <2> SUFFICES ASSUME ClientsInit PROVE ClientsInv
    OBVIOUS
  <2>1. {c \in Id : client[c] # NoClient} = {} /\ \A r \in Lister : list[r] = IdleList
    BY DEF ClientsInit
  <2>2. ClientsTypeOK
    BY ClientsAssumption DEF ClientsInit, ClientsTypeOK
  <2> QED
    BY <2>1, <2>2, FS_EmptySet DEF ClientsInv, CursorParts
<1>2. ClientsInv /\ UNCHANGED clientVars => ClientsInv'
  <2> SUFFICES ASSUME ClientsInv, UNCHANGED clientVars PROVE ClientsInv'
    OBVIOUS
  <2>1. ClientsTypeOK' /\ UNCHANGED <<client, list>>
    BY DEF ClientsInv, ClientsTypeOK, clientVars
  <2>2. \A r \in Lister : CursorParts(r)'
    BY <2>1, ListStays DEF ClientsInv
  <2> QED
    BY <2>1, <2>2 DEF ClientsInv
<1> QED
  BY <1>1, <1>2, ClientsStep, PTL DEF ClientsSpec

\* A reader sees no client twice and, at the end, each one that was
\* there when it began, for any size of pages, any number of clients and any
\* order in which they are created meanwhile. (pagination.ts:1-3, 42-66)
THEOREM ListIsComplete ==
  ClientsSpec => []PagesAreComplete
<1>1. ClientsInv => PagesAreComplete
  BY DEF ClientsInv, CursorParts, PagesAreComplete
<1> QED
  BY <1>1, ClientsInvariance, PTL

\* The types of the Client table and of what readers are shown.
\* (client-repository.ts:70-91)
THEOREM ClientsTypeCorrect ==
  ClientsSpec => []ClientsTypeOK
<1>1. ClientsInv => ClientsTypeOK
  BY DEF ClientsInv
<1> QED
  BY <1>1, ClientsInvariance, PTL

----------------------------------------------------------------------------
(* The six side by side.                                                    *)

\* What moves beside a component leaves its variables alone.
LEMMA ServicesAreSix ==
  ServicesSpec => /\ PortalSpec /\ BillingSpec /\ ConnectionsSpec
                  /\ LimiterSpec /\ AuditSpec /\ ClientsSpec
<1>1. ServicesInit => /\ PortalInit /\ BillingInit /\ ConnectionsInit
                      /\ LimiterInit /\ AuditInit /\ ClientsInit
  BY DEF ServicesInit
<1> DEFINE allVars == <<part, portalVars, billingVars, connectionVars,
                        limiterVars, auditVars, clientVars>>
<1>2. [ServicesNext]_allVars => [PortalNext]_portalVars
  BY DEF ServicesNext, PortalMoves
<1>3. [ServicesNext]_allVars => [BillingNext]_billingVars
  BY DEF ServicesNext, BillingMoves
<1>4. [ServicesNext]_allVars => [ConnectionsNext]_connectionVars
  BY DEF ServicesNext, ConnectionsMove
<1>5. [ServicesNext]_allVars => [LimiterNext]_limiterVars
  BY DEF ServicesNext, LimiterMoves
<1>6. [ServicesNext]_allVars => [AuditNext]_auditVars
  BY DEF ServicesNext, AuditMoves
<1>7. [ServicesNext]_allVars => [ClientsNext]_clientVars
  BY DEF ServicesNext, ClientsMove
<1> QED
  BY <1>1, <1>2, <1>3, <1>4, <1>5, <1>6, <1>7, PTL
  DEF ServicesSpec, PortalSpec, BillingSpec, ConnectionsSpec, LimiterSpec, AuditSpec, ClientsSpec

\* What the tables hold and what requests keep across awaits has its type
\* while all of these run; the limiter remembers no more calls than it allows.
THEOREM ServicesTypesHold ==
  ServicesSpec => []ServicesTypeOK
<1>1. PortalInv /\ BillingTypeOK /\ ConnectionsInv /\ LimiterTypeOK /\ AuditInv /\ ClientsTypeOK
        => ServicesTypeOK
  BY DEF ServicesTypeOK, PortalInv, ConnectionsInv, AuditInv
<1> QED
  BY <1>1, ServicesAreSix, PortalInvariance, BillingTypeCorrect, ConnectionsInvariance,
     LimiterTypeCorrect, AuditInvariance, ClientsTypeCorrect, PTL
=============================================================================
