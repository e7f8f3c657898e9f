------------------------------ MODULE Accounts ------------------------------
(***************************************************************************)
(* Agencies, their users and their sessions: signing up, logging in, and an *)
(* agency's admins managing the team. Sessions are signed tokens that carry *)
(* the role the user had at login; nothing on the server can take one back. *)
(* Every handler is a sequence of statements with awaits between them.      *)
(***************************************************************************)
EXTENDS Integers, FiniteSets

CONSTANTS Agency,     \* ids of agencies, never used twice
          User,       \* ids of users, never used twice
          Email,      \* normalised e-mail addresses
          Role,       \* ROLES
          Call,       \* requests running at a time
          TTL,        \* DEFAULT_TTL_SECONDS
          MaxSeconds, \* bound: the clock
          MaxTokens   \* bound: tokens held at a time

ASSUME AccountsAssumption ==
  /\ "agency_admin" \in Role
  /\ "none" \notin Role
  /\ TTL \in Nat
  /\ MaxSeconds \in Nat
  /\ MaxTokens \in Nat

VARIABLES
  seconds,  \* the clock
  founded,  \* the agencies that exist
  user,     \* the User table
  token,    \* the tokens handed out, as cookies or copies of them
  call,     \* what each request keeps across awaits
  held,     \* history: the roles each user has had
  raced     \* history: agencies two of whose team changes overlapped

accountVars == <<seconds, founded, user, token, call, held, raced>>

Unborn == [state |-> "unused"]
Removed == [state |-> "removed"]
UserRow == [state : {"present"}, agency : Agency, email : Email, role : Role]

\* SessionClaims with their expiry.
Token == [user : User, agency : Agency, role : Role, exp : Nat]

IdleCall == [kind |-> "none", pc |-> "idle"]
SigningUp == [kind : {"signup"}, pc : {"insert"}, email : Email]
LoggingIn == [kind : {"login"}, pc : {"verify"}, user : User, agency : Agency,
              role : Role]
Inviting == [kind : {"invite"}, pc : {"insert"}, agency : Agency,
             actor : User, email : Email, role : Role]
Changing ==
  [kind : {"updateRole"}, pc : {"find", "count", "write"}, agency : Agency,
   actor : User, target : User, role : Role]
    \cup [kind : {"remove"}, pc : {"find", "count", "write"}, agency : Agency,
          actor : User, target : User, role : {"none"}]

AccountsTypeOK ==
  /\ seconds \in 0 .. MaxSeconds
  /\ founded \subseteq Agency
  /\ user \in [User -> {Unborn, Removed} \cup UserRow]
  /\ token \subseteq Token
  /\ call \in [Call -> {IdleCall} \cup SigningUp \cup LoggingIn \cup Inviting
                         \cup Changing]
  /\ held \subseteq User \X Agency \X Role
  /\ raced \subseteq Agency

AccountsInit ==
  /\ seconds = 0
  /\ founded = {}
  /\ user = [u \in User |-> Unborn]
  /\ token = {}
  /\ call = [c \in Call |-> IdleCall]
  /\ held = {}
  /\ raced = {}

Present(u) == user[u].state = "present"
EmailTaken(e) == \E u \in User : Present(u) /\ user[u].email = e
InAgency(u, a) == Present(u) /\ user[u].agency = a
Admins(a) == {u \in User : InAgency(u, a) /\ user[u].role = "agency_admin"}

CallAt(c, kinds, pc) == call[c].kind \in kinds /\ call[c].pc = pc
Proceed(c, locals) == call' = [call EXCEPT ![c] = locals]
Answer(c) == Proceed(c, IdleCall)

\* A statement that changes users writes a row; the history notes its role.
SetUser(u, row) ==
  /\ user' = [user EXCEPT ![u] = row]
  /\ held' = IF row.state = "present"
             THEN held \cup {<<u, row.agency, row.role>>} ELSE held

\* signSession
SignSession(u, a, role) ==
  /\ Cardinality(token) < MaxTokens
  /\ token' = token \cup {[user |-> u, agency |-> a, role |-> role, exp |-> seconds + TTL]}

----------------------------------------------------------------------------
(* Signing up and logging in.                                               *)

\* signup: no account with this e-mail; then the password is hashed.
Signup(c, e) ==
  /\ call[c] = IdleCall
  /\ ~EmailTaken(e)
  /\ Proceed(c, [kind |-> "signup", pc |-> "insert", email |-> e])
  /\ UNCHANGED <<seconds, founded, user, token, held, raced>>

\* createAgencyWithAdmin: one transaction, refused if the e-mail was taken
\* meanwhile.
CreateAgencyWithAdmin(c, a, u) ==
  /\ CallAt(c, {"signup"}, "insert")
  /\ a \notin founded
  /\ user[u] = Unborn
  /\ LET e == call[c].email
     IN \/ /\ EmailTaken(e)
           /\ UNCHANGED <<founded, user, token, held>>
        \/ /\ ~EmailTaken(e)
           /\ founded' = founded \cup {a}
           /\ SetUser(u, [state |-> "present", agency |-> a, email |-> e,
                          role |-> "agency_admin"])
           /\ SignSession(u, a, "agency_admin")
  /\ Answer(c)
  /\ UNCHANGED <<seconds, raced>>

\* Mutant: the session of a login is one of an admin, as that of a signup.
LoginAsAdmin(c, u) ==
  /\ call[c] = IdleCall
  /\ Present(u)
  /\ Proceed(c, [kind |-> "login", pc |-> "verify", user |-> u,
                 agency |-> user[u].agency, role |-> "agency_admin"])
  /\ UNCHANGED <<seconds, founded, user, token, held, raced>>

\* login: the user is read; then the password is verified, which takes a while.
Login(c, u) ==
  /\ call[c] = IdleCall
  /\ Present(u)
  /\ Proceed(c, [kind |-> "login", pc |-> "verify", user |-> u,
                 agency |-> user[u].agency, role |-> user[u].role])
  /\ UNCHANGED <<seconds, founded, user, token, held, raced>>

\* The password is right: a token with the role that was read.
VerifyPassword(c) ==
  /\ CallAt(c, {"login"}, "verify")
  /\ SignSession(call[c].user, call[c].agency, call[c].role)
  /\ Answer(c)
  /\ UNCHANGED <<seconds, founded, user, held, raced>>

\* logout: the browser drops its cookie.
Logout(t) ==
  /\ token' = token \ {t}
  /\ UNCHANGED <<seconds, founded, user, call, held, raced>>

----------------------------------------------------------------------------
(* Team management.                                                         *)

\* verifySession: good until the second it expires in.
Valid(t) == t.exp >= seconds

\* Mutant: the role is not looked at.
RequireAnyRole(t) == Valid(t)

\* requireRequestAuth and requireRole(auth, "agency_admin").
RequireAdmin(t) == Valid(t) /\ t.role = "agency_admin"

Invite(c, t, e, r) ==
  /\ call[c] = IdleCall
  /\ RequireAdmin(t)
  /\ Proceed(c, [kind |-> "invite", pc |-> "insert", agency |-> t.agency,
                 actor |-> t.user, email |-> e, role |-> r])
  /\ UNCHANGED <<seconds, founded, user, token, held, raced>>

\* Mutant: no unique index on the e-mail.
CreateMemberTwice(c, u) ==
  /\ CallAt(c, {"invite"}, "insert")
  /\ user[u] = Unborn
  /\ SetUser(u, [state |-> "present", agency |-> call[c].agency,
                 email |-> call[c].email, role |-> call[c].role])
  /\ Answer(c)
  /\ UNCHANGED <<seconds, founded, token, raced>>

\* teamStore.create: a taken e-mail is a ConflictError.
CreateMember(c, u) ==
  /\ CallAt(c, {"invite"}, "insert")
  /\ user[u] = Unborn
  /\ LET i == call[c]
     IN IF EmailTaken(i.email)
        THEN UNCHANGED <<user, held>>
        ELSE SetUser(u, [state |-> "present", agency |-> i.agency,
                         email |-> i.email, role |-> i.role])
  /\ Answer(c)
  /\ UNCHANGED <<seconds, founded, token, raced>>

TeamChange == {"updateRole", "remove"}
ChangingTeam(a) == {c \in Call : call[c].kind \in TeamChange /\ call[c].agency = a}

StartChange(c, t, kind, u, r) ==
  /\ call[c] = IdleCall
  /\ RequireAdmin(t)
  /\ Proceed(c, [kind |-> kind, pc |-> "find", agency |-> t.agency,
                 actor |-> t.user, target |-> u, role |-> r])
  /\ raced' = IF ChangingTeam(t.agency) = {} THEN raced ELSE raced \cup {t.agency}
  /\ UNCHANGED <<seconds, founded, user, token, held>>

UpdateRole(c, t, u, r) == StartChange(c, t, "updateRole", u, r)

\* Nobody removes the account that is making the request.
RemoveUser(c, t, u) == t.user # u /\ StartChange(c, t, "remove", u, "none")

\* The target is in the agency and has not the role it shall have.
ToChange(i) == InAgency(i.target, i.agency) /\ user[i.target].role # i.role

\* findInAgency: not found, nothing to change, or on to the write, by way of the
\* count if the target is an admin.
FindTarget(c) ==
  /\ CallAt(c, TeamChange, "find")
  /\ LET i == call[c]
         pc == IF user[i.target].role = "agency_admin" THEN "count" ELSE "write"
     IN \/ ~ToChange(i) /\ Answer(c)
        \/ ToChange(i) /\ Proceed(c, [i EXCEPT !.pc = pc])
  /\ UNCHANGED <<seconds, founded, user, token, held, raced>>

\* Mutant: an admin count of 1 is enough.
TooFewAdminsOffByOne(a) == Admins(a) = {}

\* countAdmins(agencyId) <= 1
TooFewAdmins(a) == \A u, v \in Admins(a) : u = v

\* assertNotLastAdmin
AssertNotLastAdmin(c) ==
  /\ CallAt(c, TeamChange, "count")
  /\ IF TooFewAdmins(call[c].agency)
     THEN Answer(c) ELSE Proceed(c, [call[c] EXCEPT !.pc = "write"])
  /\ UNCHANGED <<seconds, founded, user, token, held, raced>>

\* Mutant: a removal sets the role to none.
WriteNoRole(c) ==
  /\ CallAt(c, TeamChange, "write")
  /\ LET i == call[c]
     IN IF InAgency(i.target, i.agency)
        THEN SetUser(i.target, [user[i.target] EXCEPT !.role = i.role])
        ELSE UNCHANGED <<user, held>>
  /\ Answer(c)
  /\ UNCHANGED <<seconds, founded, token, raced>>

\* setRole and remove: updateMany and deleteMany by id and agency.
WriteTarget(c) ==
  /\ CallAt(c, TeamChange, "write")
  /\ LET i == call[c]
     IN IF InAgency(i.target, i.agency)
        THEN SetUser(i.target, IF i.kind = "remove" THEN Removed
                               ELSE [user[i.target] EXCEPT !.role = i.role])
        ELSE UNCHANGED <<user, held>>
  /\ Answer(c)
  /\ UNCHANGED <<seconds, founded, token, raced>>

----------------------------------------------------------------------------

\* A wrong password, a statement that fails, a process that dies.
CallFails(c) ==
  /\ call[c] # IdleCall
  /\ Answer(c)
  /\ UNCHANGED <<seconds, founded, user, token, held, raced>>

ClockTicks ==
  /\ seconds < MaxSeconds
  /\ seconds' = seconds + 1
  /\ UNCHANGED <<founded, user, token, call, held, raced>>

CallStep(c) ==
  \/ \E e \in Email : Signup(c, e)
  \/ \E a \in Agency, u \in User : CreateAgencyWithAdmin(c, a, u)
  \/ \E u \in User : Login(c, u)
  \/ VerifyPassword(c)
  \/ \E t \in token, e \in Email, r \in Role : Invite(c, t, e, r)
  \/ \E u \in User : CreateMember(c, u)
  \/ \E t \in token, u \in User, r \in Role : UpdateRole(c, t, u, r)
  \/ \E t \in token, u \in User : RemoveUser(c, t, u)
  \/ FindTarget(c)
  \/ AssertNotLastAdmin(c)
  \/ WriteTarget(c)
  \/ CallFails(c)

AccountsNext ==
  \/ \E c \in Call : CallStep(c)
  \/ \E t \in token : Logout(t)
  \/ ClockTicks

AccountsSpec == AccountsInit /\ [][AccountsNext]_accountVars

----------------------------------------------------------------------------
(* Properties.                                                              *)

\* An agency keeps an admin, whatever its users' old tokens still allow, unless
\* two changes to its team overlapped. (team-service.ts:4-5)
AgencyKeepsAdmin == \A a \in founded \ raced : Admins(a) # {}

\* A row of the team changes only through a request authorised by a token whose
\* user was an admin of that agency, at some time; other agencies' tokens reach
\* nobody. (team/route.ts:34, team/[id]/route.ts:17, prisma-stores.ts:1166)
TeamsAreRunByTheirAdmins ==
  [][\A u \in User : user'[u] # user[u] =>
       \E c \in Call :
         /\ call'[c] = IdleCall
         /\ \/ call[c].kind = "signup" /\ user'[u].agency \notin founded
            \/ /\ call[c].kind \in TeamChange \cup {"invite"}
               /\ InAgency(u, call[c].agency) \/ user'[u].agency = call[c].agency
               /\ <<call[c].actor, call[c].agency, "agency_admin">> \in held
    ]_accountVars

\* A token carries a role that its user had in that agency, and lapses with its
\* time to live: a demoted or removed user keeps no power beyond it, however the
\* login was interleaved with the change. (jwt.ts:41-52, auth-service.ts:137)
PowerLapses ==
  \A t \in token : <<t.user, t.agency, t.role>> \in held /\ t.exp <= seconds + TTL

\* No two users answer to one e-mail, and the agency of every user exists.
\* (auth-service.ts:98-116)
EmailsAreUnique ==
  \A u, v \in User :
    Present(u) /\ Present(v) =>
      /\ user[u].email = user[v].email => u = v
      /\ user[u].agency \in founded

----------------------------------------------------------------------------
(* The inductive invariant behind these properties: what tokens and calls   *)
(* carry was true once, and a team change about to be written leaves its    *)
(* agency an admin, unless another one came between.                        *)

Changes(c) == call[c].kind \in TeamChange

\* Rows, tokens and calls are of agencies that exist.
AgenciesExist ==
  /\ \A u \in User : Present(u) => user[u].agency \in founded
  /\ \A t \in token : t.agency \in founded
  /\ \A c \in Call : call[c].kind \in {"login", "invite"} \/ Changes(c) =>
       call[c].agency \in founded

\* The roles in rows, tokens and calls are or were somebody's.
RolesWereHeld ==
  /\ \A u \in User : Present(u) => <<u, user[u].agency, user[u].role>> \in held
  /\ \A c \in Call : call[c].kind = "login" =>
       <<call[c].user, call[c].agency, call[c].role>> \in held
  /\ \A c \in Call : call[c].kind = "invite" \/ Changes(c) =>
       <<call[c].actor, call[c].agency, "agency_admin">> \in held

RacesAreKnown ==
  \A c, d \in Call :
    Changes(c) /\ Changes(d) /\ call[c].agency = call[d].agency =>
      c = d \/ call[c].agency \in raced

OthersRemain ==
  \A c \in Call :
    Changes(c) /\ call[c].pc \in {"count", "write"} =>
      /\ user[call[c].target] # Unborn
      /\ call[c].pc = "write" /\ call[c].agency \notin raced =>
           \/ call[c].target \notin Admins(call[c].agency)
           \/ \E v \in Admins(call[c].agency) : v # call[c].target

AccountsInv ==
  /\ AccountsTypeOK
  /\ AgenciesExist
  /\ RolesWereHeld
  /\ RacesAreKnown
  /\ OthersRemain
  /\ PowerLapses
  /\ EmailsAreUnique
  /\ AgencyKeepsAdmin
==============================================================================
